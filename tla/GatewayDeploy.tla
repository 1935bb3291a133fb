---------------------------- MODULE GatewayDeploy ----------------------------
(***************************************************************************)
(* Deployment and upgrade of the EVM gateways: the Amplifier gateway       *)
(* (evm/deploy-amplifier-gateway.js) and the consensus gateway             *)
(* (evm/deploy-gateway-v6.2.x.js).                                         *)
(*                                                                         *)
(* A run deploys its contracts with one transaction each, checks what it   *)
(* finds on the chain and only then records it.  It may be declined, fail  *)
(* at every transaction, in which case what the configuration holds so far *)
(* is saved, or be killed, in which case nothing is.  Runs follow one      *)
(* another with any options; meanwhile the prover may rotate its verifier  *)
(* set, through the gateway that is in the configuration.                  *)
(***************************************************************************)
EXTENDS Integers, Sequences, FiniteSets

CONSTANTS
    Scenarios,   \* bound: what is run, see below
    Salts,       \* salts for create3 addresses
    NoSalt,      \* a deployment by the create method
    MaxSets,     \* bound: verifier sets the prover ever has
    Debug        \* the set --keyID names

None == 0         \* no contract, no verifier set
Wallet == 0       \* the owner of an auth module that no gateway owns
Nobody == "none"  \* no operator or owner is given

Options ==
    [script : {"amplifier", "consensus"}, upgrade : BOOLEAN, skipExisting : BOOLEAN,
     reuseProxy : BOOLEAN, reuseAuth : BOOLEAN, keyID : BOOLEAN, salt : Salts \cup {NoSalt},
     operator : {Nobody, "operator"}, governance : {Nobody, "dao"}]

\* In a scenario a number of runs with certain options is started, or one run is
\* repeated until its gateway is recorded; some fail or are killed.
ASSUME ScenariosOK ==
    /\ \A sc \in Scenarios :
          /\ sc.options \subseteq Options /\ sc.runs \in Nat /\ sc.faults \in Nat
          /\ sc.repeat \in BOOLEAN
    /\ NoSalt \notin Salts /\ MaxSets \in Nat \ {0} /\ Debug \notin 0..MaxSets

VARIABLES
    scenario,  \* the scenario of this behaviour
    runs,      \* runs still to be started
    faults,    \* failures and kills still to come
    prover,    \* the prover's current set
    auths,     \* the owner of each auth module
    impls,     \* the auth module of each implementation
    proxies,   \* the gateways
    placed,    \* what is at the create3 addresses of each salt
    file,      \* the AxelarGateway entry of the configuration
    run        \* the run in progress

chainVars == <<auths, impls, proxies, placed>>
vars == <<scenario, runs, faults, prover, chainVars, file, run>>

EmptyEntry == [address |-> None, implementation |-> None, auth |-> None,
               tokenDeployer |-> FALSE, operator |-> Nobody, initialSet |-> None,
               governance |-> Nobody]

NoRun == [pc |-> "idle", opts |-> None, mem |-> EmptyEntry, auth |-> None,
          impl |-> None, gateway |-> None, set |-> None]

PCs == {"idle", "check", "implementation", "setup", "proxy", "verify", "auth",
        "tokenDeployer", "transfer", "upgrade"}
People == {Nobody, "wallet", "operator", "dao"}
Entries ==
    [address : 0..Len(proxies), implementation : 0..Len(impls), auth : 0..Len(auths),
     tokenDeployer : BOOLEAN, operator : People, initialSet : 0..MaxSets,
     governance : People]

TypeOK ==
    /\ prover \in 1..MaxSets
    /\ \A i \in DOMAIN auths : auths[i] \in 0..Len(proxies)
    /\ \A i \in DOMAIN impls : impls[i] \in 0..Len(auths)
    /\ \A i \in DOMAIN proxies :
          /\ proxies[i].implementation \in DOMAIN impls
          /\ proxies[i].first \in 1..MaxSets \cup {Debug}
          /\ proxies[i].since \subseteq 1..MaxSets
          /\ {proxies[i].operator, proxies[i].governance} \subseteq People \ {Nobody}
    /\ \A s \in Salts : /\ placed[s].impl \in 0..Len(impls)
                        /\ placed[s].proxy \in 0..Len(proxies)
    /\ file \in Entries
    /\ run.pc \in PCs /\ run.mem \in Entries
    /\ run.auth \in 0..Len(auths) /\ run.impl \in 0..Len(impls)
    /\ run.gateway \in 0..Len(proxies)

Init ==
    /\ scenario \in Scenarios
    /\ runs = scenario.runs /\ faults = scenario.faults
    /\ prover = 1
    /\ auths = <<>> /\ impls = <<>> /\ proxies = <<>>
    /\ placed = [s \in Salts |-> [impl |-> None, proxy |-> None]]
    /\ file = EmptyEntry
    /\ run = NoRun
-----------------------------------------------------------------------------
(* The prover changes its set, confirmed by the gateway that is known to it. *)

Rotate ==
    /\ file.address # None /\ prover < MaxSets
    /\ prover' = prover + 1
    /\ proxies' = [i \in DOMAIN proxies |->
                      [proxies[i] EXCEPT !.since = @ \cup {prover + 1}]]
    /\ UNCHANGED <<scenario, runs, faults, auths, impls, placed, file, run>>
-----------------------------------------------------------------------------
(* Runs. *)

Begin ==
    /\ run.pc = "idle" /\ runs > 0
    /\ scenario.repeat => file.address = None
    /\ \E o \in scenario.options :
          run' = [NoRun EXCEPT !.pc = "check", !.opts = o, !.mem = file]
    /\ runs' = IF scenario.repeat THEN runs ELSE runs - 1
    /\ UNCHANGED <<scenario, faults, prover, chainVars, file>>

\* Every run that is not killed ends by saving its copy of the configuration.
Ends(mem) ==
    /\ file' = mem
    /\ run' = NoRun
    /\ UNCHANGED <<scenario, runs, faults, prover, chainVars>>

Goes(new) ==
    /\ run' = new
    /\ UNCHANGED <<scenario, runs, faults, prover, file>>

At(script, pc) == run.pc = pc /\ run.opts.script = script
Skips(field) == run.opts.skipExisting /\ run.mem[field] # None

\* The entry upgrade of the consensus gateway changes before it asks.
AtPrompt ==
    IF run.opts.upgrade /\ run.opts.script = "consensus"
    THEN [run.mem EXCEPT !.governance = run.opts.governance] ELSE run.mem

Decline ==
    /\ run.pc = "check"
    /\ Ends(AtPrompt)

\* A transaction reverts or a node does not answer: the error is caught.
Fail ==
    /\ run.pc \notin {"idle", "check"} /\ faults > 0
    /\ faults' = faults - 1
    /\ file' = run.mem /\ run' = NoRun
    /\ UNCHANGED <<scenario, runs, prover, chainVars>>

Crash ==
    /\ run.pc # "idle" /\ faults > 0
    /\ faults' = faults - 1
    /\ run' = NoRun
    /\ UNCHANGED <<scenario, runs, prover, chainVars, file>>

\* Mutant: without an owner the wallet does not stand in.
GovernanceGiven == run.opts.governance

\* The owner to be (governance of the consensus gateway).
Governance == IF run.opts.governance = Nobody THEN "wallet" ELSE run.opts.governance

\* Mutant: a create3 deployment to a taken address is attempted, and reverts.
FoundNothing(what) == None

\* deployContract returns what it finds at a create3 address.
Found(what) == IF run.opts.salt = NoSalt THEN None ELSE placed[run.opts.salt][what]

Place(what, i) ==
    placed' = IF run.opts.salt = NoSalt THEN placed
              ELSE [placed EXCEPT ![run.opts.salt][what] = i]

\* Deploys an implementation that refers to an auth module, or finds one.
\* Nothing can be put to a create3 address that is taken.
DeployImplementation(auth, next) ==
    IF Found("impl") # None
    THEN Goes([next EXCEPT !.impl = Found("impl")]) /\ UNCHANGED chainVars
    ELSE /\ run.opts.salt # NoSalt => placed[run.opts.salt].impl = None
         /\ impls' = Append(impls, auth)
         /\ Place("impl", Len(impls'))
         /\ Goes([next EXCEPT !.impl = Len(impls')])
         /\ UNCHANGED <<auths, proxies>>

Gateway(first) ==
    [implementation |-> run.impl, first |-> first, since |-> {prover},
     operator |-> IF run.mem.operator = Nobody THEN "wallet" ELSE run.mem.operator,
     governance |-> Governance]
-----------------------------------------------------------------------------
(* deploy-amplifier-gateway.js *)

\* getWeightedSigners.
WeightedSigners == IF run.opts.keyID THEN Debug ELSE prover

AmplifierCheck ==
    /\ At("amplifier", "check") /\ ~run.opts.upgrade
    /\ IF run.opts.reuseProxy /\ run.mem.address = None THEN Ends(run.mem)
       ELSE /\ Goes([run EXCEPT !.pc = "implementation",
                        !.gateway = IF run.opts.reuseProxy THEN run.mem.address ELSE None])
            /\ UNCHANGED chainVars

AmplifierImplementation ==
    /\ At("amplifier", "implementation")
    /\ LET next == [run EXCEPT !.pc = "setup"]
       IN  IF Skips("implementation")
           THEN /\ Goes([next EXCEPT !.impl = run.mem.implementation])
                /\ UNCHANGED chainVars
           ELSE DeployImplementation(None, next)

\* The operator and the first verifier set are entered before the deployment.
AmplifierSetup ==
    /\ At("amplifier", "setup")
    /\ LET operator == IF run.opts.operator # Nobody THEN run.opts.operator
                       ELSE IF run.mem.operator # Nobody THEN run.mem.operator ELSE "wallet"
       IN  IF Skips("address")
           THEN Goes([run EXCEPT !.pc = "verify", !.gateway = run.mem.address])
           ELSE IF run.opts.reuseProxy THEN Goes([run EXCEPT !.pc = "verify"])
           ELSE Goes([run EXCEPT !.pc = "proxy", !.set = WeightedSigners,
                         !.mem.operator = operator,
                         !.mem.initialSet = IF run.opts.keyID THEN None ELSE prover])
    /\ UNCHANGED chainVars

AmplifierProxy ==
    /\ At("amplifier", "proxy")
    /\ IF Found("proxy") # None
       THEN /\ Goes([run EXCEPT !.pc = "verify", !.gateway = Found("proxy")])
            /\ UNCHANGED chainVars
       ELSE /\ run.opts.salt # NoSalt => placed[run.opts.salt].proxy = None
            /\ proxies' = Append(proxies, Gateway(run.set))
            /\ Place("proxy", Len(proxies'))
            /\ Goes([run EXCEPT !.pc = "verify", !.gateway = Len(proxies')])
            /\ UNCHANGED <<auths, impls>>

\* Mutant: the first set is compared with the one that was deployed.
FirstIsAsDeployed(g) == proxies[g].first = IF run.set = None THEN WeightedSigners ELSE run.set

\* The set is asked for again, and must be the first of the gateway.
FirstIsCurrent(g) == proxies[g].first = WeightedSigners

AmplifierVerify ==
    /\ At("amplifier", "verify")
    /\ LET g  == run.gateway
           ok == /\ \/ run.opts.reuseProxy
                    \/ /\ proxies[g].governance = Governance
                       /\ proxies[g].implementation = run.impl
                       /\ FirstIsCurrent(g)
                 /\ run.mem.operator = proxies[g].operator
       IN  Ends(IF ~ok THEN run.mem
                ELSE [run.mem EXCEPT !.address = g, !.implementation = run.impl,
                                     !.governance = Governance])
-----------------------------------------------------------------------------
(* deploy-gateway-v6.2.x.js *)

LiveAuth(g) == impls[proxies[g].implementation]

ConsensusCheck ==
    /\ At("consensus", "check") /\ ~run.opts.upgrade
    /\ IF run.opts.reuseProxy /\ run.mem.address = None THEN Ends(run.mem)
       ELSE /\ Goes([run EXCEPT !.pc = "auth",
                        !.gateway = IF run.opts.reuseProxy THEN run.mem.address ELSE None])
            /\ UNCHANGED chainVars

\* A new auth module belongs to the wallet.  While a key rotation is in progress
\* none is deployed.
ConsensusAuth ==
    /\ At("consensus", "auth")
    /\ LET next == [run EXCEPT !.pc = "tokenDeployer"]
       IN  IF Skips("auth")
           THEN Goes([next EXCEPT !.auth = run.mem.auth]) /\ UNCHANGED chainVars
           ELSE IF run.opts.reuseProxy /\ run.opts.reuseAuth
           THEN Goes([next EXCEPT !.auth = LiveAuth(run.gateway)]) /\ UNCHANGED chainVars
           ELSE \/ Ends(run.mem)
                \/ /\ auths' = Append(auths, Wallet)
                   /\ Goes([next EXCEPT !.auth = Len(auths')])
                   /\ UNCHANGED <<impls, proxies, placed>>

ConsensusTokenDeployer ==
    /\ At("consensus", "tokenDeployer")
    /\ Goes([run EXCEPT !.pc = "implementation"])
    /\ UNCHANGED chainVars

\* Mutant: the implementation is entered as soon as it is deployed.
ConsensusImplementationNoted ==
    /\ At("consensus", "implementation")
    /\ DeployImplementation(run.auth,
           [run EXCEPT !.pc = "proxy", !.mem.implementation = Len(impls) + 1])

ConsensusImplementation ==
    /\ At("consensus", "implementation")
    /\ LET next == [run EXCEPT !.pc = "proxy"]
       IN  IF Skips("implementation")
           THEN /\ Goes([next EXCEPT !.impl = run.mem.implementation])
                /\ UNCHANGED chainVars
           ELSE DeployImplementation(run.auth, next)

ConsensusProxy ==
    /\ At("consensus", "proxy")
    /\ LET next == [run EXCEPT !.pc = IF run.opts.reuseProxy /\ run.opts.reuseAuth
                                      THEN "verify" ELSE "transfer"]
       IN  IF Skips("address")
           THEN Goes([next EXCEPT !.gateway = run.mem.address]) /\ UNCHANGED chainVars
           ELSE IF run.opts.reuseProxy
           THEN Goes(next) /\ UNCHANGED chainVars
           ELSE /\ proxies' = Append(proxies, Gateway(prover))
                /\ Goes([next EXCEPT !.gateway = Len(proxies')])
                /\ UNCHANGED <<auths, impls, placed>>

\* Only the owner can hand the auth module over; otherwise the call reverts.
ConsensusTransfer ==
    /\ At("consensus", "transfer")
    /\ IF auths[run.auth] # Wallet THEN Ends(run.mem)
       ELSE /\ auths' = [auths EXCEPT ![run.auth] = run.gateway]
            /\ Goes([run EXCEPT !.pc = "verify"])
            /\ UNCHANGED <<impls, proxies, placed>>

ConsensusVerify ==
    /\ At("consensus", "verify")
    /\ LET g  == run.gateway
           ok == /\ \/ run.opts.reuseProxy
                    \/ /\ proxies[g].governance = Governance
                       /\ LiveAuth(g) = run.auth
                       /\ proxies[g].implementation = run.impl
                 /\ auths[run.auth] = g
       IN  Ends(IF ~ok THEN run.mem
                ELSE [run.mem EXCEPT !.address = g, !.implementation = run.impl,
                         !.auth = run.auth, !.tokenDeployer = TRUE,
                         !.governance = Governance])
-----------------------------------------------------------------------------
(* Upgrades. *)

AmplifierUpgrade ==
    /\ At("amplifier", "check") /\ run.opts.upgrade
    /\ IF None \in {run.mem.address, run.mem.implementation} THEN Ends(run.mem)
       ELSE Goes([run EXCEPT !.pc = "upgrade"]) /\ UNCHANGED chainVars

\* The governance to be is entered at once, also when none is given.
ConsensusUpgrade ==
    /\ At("consensus", "check") /\ run.opts.upgrade
    /\ IF None \in {run.mem.address, run.mem.implementation} THEN Ends(AtPrompt)
       ELSE Goes([run EXCEPT !.pc = "upgrade", !.mem = AtPrompt]) /\ UNCHANGED chainVars

\* The call reverts unless the wallet governs the gateway.
Upgrade ==
    /\ run.pc = "upgrade"
    /\ LET g == run.mem.address
       IN  proxies' = IF proxies[g].governance # "wallet" THEN proxies
                      ELSE [proxies EXCEPT ![g].implementation = run.mem.implementation,
                               ![g].governance =
                                  IF run.opts.script = "consensus" THEN Governance ELSE @]
    /\ file' = run.mem /\ run' = NoRun
    /\ UNCHANGED <<scenario, runs, faults, prover, auths, impls, placed>>
-----------------------------------------------------------------------------
RunStep ==
    \/ AmplifierCheck \/ AmplifierImplementation \/ AmplifierSetup
    \/ AmplifierProxy \/ AmplifierVerify \/ AmplifierUpgrade
    \/ ConsensusCheck \/ ConsensusAuth \/ ConsensusTokenDeployer
    \/ ConsensusImplementation \/ ConsensusProxy \/ ConsensusTransfer
    \/ ConsensusVerify \/ ConsensusUpgrade \/ Upgrade

Next == Begin \/ Decline \/ RunStep \/ Fail \/ Crash \/ Rotate

Spec == Init /\ [][Next]_vars

\* The operator who repeats a run starts it again and confirms it eventually; a
\* run that is confirmed goes on.
FairSpec == Spec /\ WF_vars(Begin) /\ SF_vars(RunStep)
-----------------------------------------------------------------------------
(* Properties. *)

\* A gateway gets into the configuration only if its first signers are those the
\* prover had at some moment after it was deployed (or the debug signer), though
\* they are read before (deploy-amplifier-gateway.js:188) and the prover may
\* rotate meanwhile.
StartsWithSigning ==
    file.address # None =>
        proxies[file.address].first \in proxies[file.address].since \cup {Debug}

\* The consensus gateway in the configuration owns the auth module it uses and
\* the one in the configuration, whatever was deployed, reused, given up and
\* upgraded in which order.
AuthIsOwned ==
    /\ file.address # None /\ LiveAuth(file.address) # None =>
          auths[LiveAuth(file.address)] = file.address
    /\ file.auth # None => auths[file.auth] = file.address

\* A deployment of the Amplifier gateway that is repeated with the same options
\* ends up in the configuration, wherever earlier attempts failed or were killed.
DeploymentLands == scenario.repeat => <>(file.address # None)
==============================================================================
