--------------------------- MODULE MCCosmwasmDeploy ---------------------------
(* Instances of CosmwasmDeploy for TLC. *)
EXTENDS CosmwasmDeploy

Core(name) == <<name, NoChain>>

CoreEntries == Global({"Coordinator", "ServiceRegistry", "Rewards", "Router",
                       "AxelarnetGateway"})
Verifiers == {<<"VotingVerifier", "flow">>, <<"VotingVerifier", "sui">>}
FlowEntries == CoreEntries \cup Verifiers

\* A contract's binary has the contract's name.
OneBinaryEach == [name \in {e[1] : e \in FlowEntries} |-> name]

\* The two contracts that need each other's address, by the documented
\* procedure; one contract for two chains; and a contract that is live, in
\* every way there is.
FlowJobs ==
    {[procedure |-> "documented", entries |-> Global({"Router", "AxelarnetGateway"}),
      live |-> <<Core("Coordinator")>>, ops |-> {}, runs |-> 0],
     [procedure |-> "free", entries |-> Verifiers, live |-> <<Core("Rewards"), Core("ServiceRegistry")>>,
      ops |-> {"upload", "instantiate", "propose-instantiate"}, runs |-> 2],
     [procedure |-> "free", entries |-> Global({"Router", "AxelarnetGateway"}),
      live |-> <<Core("Coordinator")>>,
      ops |-> {"upload-instantiate", "storeInstantiate"}, runs |-> 1],
     [procedure |-> "free", entries |-> {Core("Coordinator")},
      live |-> <<Core("Coordinator")>>, ops |-> Operations, runs |-> 2]}

===============================================================================
