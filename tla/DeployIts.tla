------------------------------- MODULE DeployIts -------------------------------
(***************************************************************************)
(* Deploying and upgrading the Interchain Token Service and its factory on *)
(* one EVM chain with evm/deploy-its.js: nine contracts, each wired to the *)
(* addresses of earlier ones, and two proxies whose addresses are          *)
(* predicted before anything exists.  Runs follow one another; each loads  *)
(* the chain's configuration and saves it at its end, also when it failed, *)
(* unless the process died.                                                *)
(*                                                                         *)
(* Source: evm/deploy-its.js, with deployContract and getDeployedAddress   *)
(* of evm/utils.js and the big block switch of evm/hyperliquid.js.         *)
(***************************************************************************)
EXTENDS Integers, Sequences, FiniteSets, SequencesExt

CONSTANTS
    None,
    Releases,      \* versions of the contract code
    SaltOf,        \* the --salt a release is deployed with
    ProxySalt,     \* the --proxySalt
    DeployMethod,  \* of the helpers: "create", "create2" or "create3"
    ProxyMethod,   \* of the implementation and the proxies: "create" or "create3"
    Hyperliquid,   \* is this a Hyperliquid chain?
    Options,       \* the combinations of options a run may be started with
    MaxRuns        \* bound: the number of runs

ASSUME ItsConstants ==
    /\ DeployMethod \in {"create", "create2", "create3"}
    /\ ProxyMethod \in {"create", "create3"}
    /\ Hyperliquid \in BOOLEAN
    /\ MaxRuns \in Nat
    /\ Options \subseteq [release : Releases, upgrade : BOOLEAN,
                          skipExisting : BOOLEAN, reuseProxy : BOOLEAN]

VARIABLES
    file,    \* the chain's ITS and factory entries in info/<env>.json
    mem,     \* the run's copy of them
    opt,     \* the run's options
    pc,      \* what the run is doing
    key,     \* the position in Keys of the deployment it is at
    planned, \* the proxy addresses it wires the contracts to
    made,    \* the contract deployContract returned
    failed,  \* has an awaited call of the run rejected?
    runs,    \* how many runs were started
    whole,   \* history: was the file last written by a full deployment that did not fail?
    mixed,   \* history: did --skipExisting ever meet contracts of another release?
    code,    \* the contracts on the chain
    points,  \* the implementation each proxy delegates to
    big,     \* does the deployer's account use big blocks?
    stuck    \* history: was it left so by a crash or a failed switch?

runVars   == <<mem, opt, pc, key, planned, made, failed>>
blockVars == <<big, stuck>>
chainVars == <<code, points, blockVars>>
histVars  == <<runs, whole, mixed>>
vars == <<file, runVars, histVars, chainVars>>

\* The deployments object; for..in visits its keys in this order.
Keys == <<"tokenManagerDeployer", "interchainToken", "interchainTokenDeployer",
          "tokenManager", "tokenHandler", "implementation", "address",
          "factoryImplementation", "factoryAddress">>

Proxies  == {"address", "factoryAddress"}
Fields   == ToSet(Keys)
Helpers  == {"tokenManagerDeployer", "interchainToken", "interchainTokenDeployer",
             "tokenManager", "tokenHandler", "factoryImplementation"}

\* Keys looked up in contractConfig; what is deployed under the last two goes
\* into itsFactoryContractConfig, so contractConfig never has them.
Skippable == Fields \ {"factoryImplementation", "factoryAddress"}

\* Deployed from the contracts InterchainToken and InterchainProxy.
Reusable == Proxies \cup {"interchainToken"}

\* useHyperliquidBigBlocks
NeedsBigBlocks(k) == Hyperliquid /\ k \in {"implementation", "factoryImplementation"}

Nothing == [k \in Fields |-> None]
NoPlan  == [k \in Proxies |-> None]

Deployed(a) == \E c \in code : c.addr = a
At(a)       == CHOOSE c \in code : c.addr = a
Live(k)     == At(points[k])

Init ==
    /\ file = Nothing /\ mem = Nothing /\ planned = NoPlan
    /\ opt = None /\ pc = "idle" /\ key = 1 /\ made = None /\ failed = FALSE
    /\ runs = 0 /\ whole = FALSE /\ mixed = FALSE
    /\ code = {} /\ points = NoPlan /\ big = FALSE /\ stuck = FALSE

------------------------------------------------------------------------------
(* Addresses *)

Method(k) == IF k \in Helpers THEN DeployMethod ELSE ProxyMethod

\* The salt each deployment is made with: the helpers share one.
Salt(k) ==
    CASE k = "address"        -> <<"ITS", ProxySalt>>
      [] k = "factoryAddress" -> <<"ITS Factory", ProxySalt>>
      [] k = "implementation" -> <<"ITS", SaltOf[opt.release], "Implementation">>
      [] OTHER                -> <<"ITS", SaltOf[opt.release]>>

\* Mutant: create2 addresses that ignore the init code.
AddressOfSalt(k, release, args) == [salt |-> Salt(k)]

\* getDeployedAddress.  With create it depends on the wallet's nonce, which
\* every deployment moves, with create2 on the salt and the init code, with
\* create3 on the salt alone.
AddressOf(k, release, args) ==
    CASE Method(k) = "create"  -> [nonce |-> Cardinality(code)]
      [] Method(k) = "create2" -> [salt |-> Salt(k), init |-> <<k, release, args>>]
      [] Method(k) = "create3" -> [salt |-> Salt(k)]

\* Mutant: an address of the implementation's argument list taken twice.
ArgsMixedUp(k) ==
    CASE k \in {"interchainToken", "tokenManager", "factoryImplementation"}
             -> <<planned["address"]>>
      [] k = "interchainTokenDeployer" -> <<mem["interchainToken"]>>
      [] k = "implementation" ->
             <<mem["tokenManagerDeployer"], mem["interchainTokenDeployer"],
               planned["factoryAddress"], mem["tokenManager"], mem["tokenManager"]>>
      [] k = "address"        -> <<mem["implementation"]>>
      [] k = "factoryAddress" -> <<mem["factoryImplementation"]>>
      [] OTHER                -> << >>

\* The constructor arguments that are addresses of this deployment.
Args(k) ==
    CASE k \in {"interchainToken", "tokenManager", "factoryImplementation"}
             -> <<planned["address"]>>
      [] k = "interchainTokenDeployer" -> <<mem["interchainToken"]>>
      [] k = "implementation" ->
             <<mem["tokenManagerDeployer"], mem["interchainTokenDeployer"],
               planned["factoryAddress"], mem["tokenManager"], mem["tokenHandler"]>>
      [] k = "address"        -> <<mem["implementation"]>>
      [] k = "factoryAddress" -> <<mem["factoryImplementation"]>>
      [] OTHER                -> << >>

------------------------------------------------------------------------------
(* A run *)

\* loadConfig
Start ==
    /\ pc = "idle" /\ runs < MaxRuns
    /\ runs' = runs + 1
    /\ \E o \in Options :
          /\ opt' = o
          /\ mixed' = (mixed \/ (o.skipExisting /\ \E k \in Fields \ Proxies :
                                   file[k] # None /\ At(file[k]).release # o.release))
          /\ pc' = IF o.upgrade THEN "upgradeIts" ELSE "predict"
    /\ mem' = file
    /\ UNCHANGED <<file, key, planned, made, failed, whole, chainVars>>

\* The proxies' addresses, existing or predicted, go into the configuration
\* before anybody is asked; deployAll returns when there is nothing to reuse.
Predict ==
    /\ pc = "predict"
    /\ planned' = [k \in Proxies |->
                     IF opt.reuseProxy THEN mem[k] ELSE AddressOf(k, opt.release, << >>)]
    /\ mem' = [k \in Fields |-> IF k \in Proxies THEN planned'[k] ELSE mem[k]]
    /\ pc' = IF \E k \in Proxies : planned'[k] = None THEN "stopped" ELSE "prompt"
    /\ UNCHANGED <<file, opt, key, made, failed, histVars, chainVars>>

Proceed ==
    /\ pc = "prompt"
    /\ pc' = "next"
    /\ UNCHANGED <<file, mem, opt, key, planned, made, failed, histVars, chainVars>>

\* --predictOnly, or a prompt that is declined; nothing is asked where the
\* recorded implementation is in place.  upgrade also returns when the service or
\* the factory has no entry, or an upgrade emitted no event.
Decline ==
    /\ \/ pc = "prompt"
       \/ /\ pc = "upgradeIts"
          /\ \/ \E k \in Proxies : mem[k] = None
             \/ points["address"] # mem["implementation"]
       \/ pc = "upgradeFactory" /\ points["factoryAddress"] # mem["factoryImplementation"]
    /\ pc' = "stopped"
    /\ UNCHANGED <<file, mem, opt, key, planned, made, failed, histVars, chainVars>>

Skipped(k) == opt.skipExisting /\ k \in Skippable /\ mem[k] # None
Reused(k)  == opt.reuseProxy /\ k \in Reusable

\* Mutant: the loop runs past its end.
GoOnPastEnd ==
    /\ key' = key + 1
    /\ pc' = IF key > Len(Keys) THEN "complete" ELSE "next"

\* continue, or the end of the loop
GoOn ==
    /\ key' = key + 1
    /\ pc' = IF key = Len(Keys) THEN "complete" ELSE "next"

Pass ==
    /\ pc = "next"
    /\ Skipped(Keys[key]) \/ Reused(Keys[key])
    /\ GoOn
    /\ UNCHANGED <<file, mem, opt, planned, made, failed, histVars, chainVars>>

Due(k) == k = Keys[key] /\ ~ Skipped(k) /\ ~ Reused(k)

\* updateBlockSize(true); it is not inside the try.
Enlarge(k) ==
    /\ pc = "next" /\ Due(k) /\ NeedsBigBlocks(k)
    /\ big' = TRUE
    /\ pc' = "enlarged"
    /\ UNCHANGED <<file, mem, opt, key, planned, made, failed, histVars, code, points, stuck>>

Ready(k) ==
    /\ pc = IF NeedsBigBlocks(k) THEN "enlarged" ELSE "next"
    /\ Due(k)

AfterDeploy(k) == IF NeedsBigBlocks(k) THEN "shrink" ELSE "deployed"

Target(k) == AddressOf(k, opt.release, Args(k))

\* deployContract hands back whatever contract is at the address already.
FindExisting(k) ==
    /\ Ready(k) /\ Deployed(Target(k))
    /\ made' = Target(k)
    /\ pc' = AfterDeploy(k)
    /\ UNCHANGED <<file, mem, opt, key, planned, failed, histVars, chainVars>>

\* What the deployment transaction does once included (external).
Created(k) ==
    /\ ~ Deployed(Target(k))
    /\ \A a \in ToSet(Args(k)) : a # None
    /\ code' = code \cup
          {[addr |-> Target(k), kind |-> k, release |-> opt.release, args |-> Args(k)]}
    /\ points' = IF k \in Proxies THEN [points EXCEPT ![k] = Args(k)[1]] ELSE points
    /\ UNCHANGED blockVars

Deploy(k) ==
    /\ Ready(k) /\ Created(k)
    /\ made' = Target(k)
    /\ pc' = AfterDeploy(k)
    /\ UNCHANGED <<file, mem, opt, key, planned, failed, histVars>>

\* Mutant: no finally.
DeployFailsOutright(k) ==
    /\ Ready(k)
    /\ Created(k) \/ UNCHANGED chainVars
    /\ failed' = TRUE
    /\ pc' = "stopped"
    /\ UNCHANGED <<file, mem, opt, key, planned, made, histVars>>

\* An argument is missing, or a call fails, before or after the transaction
\* was included; the block size is restored all the same.
DeployFails(k) ==
    /\ Ready(k)
    /\ Created(k) \/ UNCHANGED chainVars
    /\ failed' = TRUE
    /\ pc' = IF NeedsBigBlocks(k) THEN "shrink" ELSE "stopped"
    /\ UNCHANGED <<file, mem, opt, key, planned, made, histVars>>

\* finally: updateBlockSize(false)
Shrink ==
    /\ pc = "shrink"
    /\ big' = FALSE /\ stuck' = FALSE
    /\ pc' = IF failed THEN "stopped" ELSE "deployed"
    /\ UNCHANGED <<file, mem, opt, key, planned, made, failed, histVars, code, points>>

Record(k) ==
    /\ pc = "deployed" /\ k = Keys[key]
    /\ mem' = [mem EXCEPT ![k] = made]
    /\ made' = None
    /\ pc' = "recorded"
    /\ UNCHANGED <<file, opt, key, planned, failed, histVars, chainVars>>

\* isContract
Confirm ==
    /\ pc = "recorded" /\ Deployed(mem[Keys[key]])
    /\ GoOn
    /\ UNCHANGED <<file, mem, opt, planned, made, failed, histVars, chainVars>>

\* Either switch fails, or only its answer is lost.
SwitchFails ==
    /\ \/ pc = "shrink"
       \/ pc = "next" /\ \E k \in Fields : Due(k) /\ NeedsBigBlocks(k)
    /\ big' \in {big, pc = "next"}
    /\ stuck' = big'
    /\ failed' = TRUE
    /\ pc' = "stopped"
    /\ UNCHANGED <<file, mem, opt, key, planned, made, histVars, code, points>>

\* Any other awaited call rejects; a node that lags behind answers isContract
\* with false.
Throw ==
    /\ pc \in {"predict", "recorded", "upgradeIts", "upgradeFactory"}
    /\ failed' = TRUE
    /\ pc' = "stopped"
    /\ UNCHANGED <<file, mem, opt, key, planned, made, histVars, chainVars>>

------------------------------------------------------------------------------
(* upgrade: first the service, then the factory. *)

\* The proxy k moves to the recorded implementation, unless it is there already.
\* getBytecodeHash throws when nothing is recorded or deployed.
Upgrade(k, impl, to) ==
    /\ mem[k] # None /\ Deployed(mem[k]) /\ Deployed(mem[impl])
    /\ points' = [points EXCEPT ![k] = mem[impl]]
    /\ pc' = to
    /\ UNCHANGED <<file, mem, opt, key, planned, made, failed, histVars, code, blockVars>>

\* Mutant: nothing left to do when the service is up to date.
UpgradeItsOnly ==
    /\ pc = "upgradeIts"
    /\ Upgrade("address", "implementation",
               IF points["address"] = mem["implementation"] THEN "complete" ELSE "upgradeFactory")

UpgradeIts ==
    pc = "upgradeIts" /\ Upgrade("address", "implementation", "upgradeFactory")

UpgradeFactory ==
    pc = "upgradeFactory" /\ Upgrade("factoryAddress", "factoryImplementation", "complete")

------------------------------------------------------------------------------
(* The end of a run *)

\* The process and its memory are gone.
Exit ==
    /\ pc' = "idle"
    /\ opt' = None /\ mem' = Nothing /\ key' = 1 /\ planned' = NoPlan
    /\ made' = None /\ failed' = FALSE
    /\ UNCHANGED <<runs, mixed, code, points, big>>

\* The configuration is saved whether or not the task failed.
Finish ==
    /\ pc \in {"complete", "stopped"}
    /\ file' = mem
    /\ whole' = IF pc = "complete" /\ ~ opt.upgrade THEN ~ opt.skipExisting
                ELSE whole /\ mem = file
    /\ Exit
    /\ UNCHANGED stuck

Crash ==
    /\ pc # "idle"
    /\ stuck' = big
    /\ Exit
    /\ UNCHANGED <<file, whole>>

Next ==
    \/ Start \/ Predict \/ Proceed \/ Decline \/ Pass \/ Shrink \/ Confirm
    \/ SwitchFails \/ Throw \/ UpgradeIts \/ UpgradeFactory \/ Finish \/ Crash
    \/ \E k \in Fields :
          \/ Enlarge(k) \/ FindExisting(k) \/ Deploy(k) \/ DeployFails(k)
          \/ Record(k)

Spec == Init /\ [][Next]_vars

------------------------------------------------------------------------------
(* Properties *)

Steps == {"idle", "predict", "prompt", "next", "enlarged", "shrink", "deployed",
          "recorded", "upgradeIts", "upgradeFactory", "complete", "stopped"}

TypeOK ==
    /\ DOMAIN file = Fields /\ DOMAIN mem = Fields
    /\ opt \in Options \cup {None}
    /\ pc \in Steps
    /\ key \in 1 .. Len(Keys) + 1 /\ (pc \in {"next", "enlarged"} => key <= Len(Keys))
    /\ DOMAIN planned = Proxies /\ DOMAIN points = Proxies
    /\ failed \in BOOLEAN /\ whole \in BOOLEAN /\ mixed \in BOOLEAN /\ big \in BOOLEAN /\ stuck \in BOOLEAN
    /\ runs \in 0 .. MaxRuns
    /\ \A c \in code : c.kind \in Fields /\ c.release \in Releases /\ None \notin ToSet(c.args)

Holds(a, k) == Deployed(a) /\ At(a).kind = k

\* The implementation behind the service's proxy was built with addresses that
\* hold the contracts meant, and those know the proxies that exist, whatever
\* mixture of failed, repeated, skipping and reusing runs deployed them
\* (deploy-its.js:247-257): the addresses are immutable once on the chain.
ServiceIsWired(s) ==
    /\ s.kind = "implementation"
    /\ Holds(s.args[1], "tokenManagerDeployer")
    /\ Holds(s.args[2], "interchainTokenDeployer")
    /\ Holds(At(s.args[2]).args[1], "interchainToken")
    /\ Holds(s.args[4], "tokenManager")
    /\ Holds(s.args[5], "tokenHandler")
    /\ \A p \in code : p.kind = "factoryAddress" => s.args[3] = p.addr
    /\ \A p \in code : p.kind = "address" =>
          At(s.args[4]).args[1] = p.addr /\ At(At(s.args[2]).args[1]).args[1] = p.addr

LiveIsWired == points["address"] # None => ServiceIsWired(Live("address"))

\* After a full deployment that did not fail, the recorded implementation is
\* built from the very contracts recorded next to it, also when earlier attempts
\* failed half way and left some of them behind, and the factory's implementation
\* serves the recorded proxy (deploy-its.js:371-377).  Needs a salt per release,
\* and no --skipExisting across releases: the implementation's address does not
\* depend on its arguments, and the first one deployed there stays.  For the same
\* reason later releases have to be deployed with --reuseProxy, as the release
\* notes say: one without it brings an InterchainToken of its own, which what was
\* deployed before has not been built with.
RecordedIsWired ==
    whole /\ ~ mixed =>
        /\ Holds(file["implementation"], "implementation")
        /\ At(file["implementation"]).args =
             <<file["tokenManagerDeployer"], file["interchainTokenDeployer"],
               file["factoryAddress"], file["tokenManager"], file["tokenHandler"]>>
        /\ At(file["interchainTokenDeployer"]).args = <<file["interchainToken"]>>
        /\ Holds(file["factoryImplementation"], "factoryImplementation")
        /\ At(file["factoryImplementation"]).args = <<file["address"]>>

\* An upgrade that completes after such a deployment leaves the service and the
\* factory on one release, also when an earlier upgrade stopped between the two
\* proxies (deploy-its.js:443-503).
UpgradeInStep ==
    pc = "complete" /\ opt.upgrade /\ whole =>
        /\ \A k \in Proxies : points[k] # None
        /\ Live("address").release = Live("factoryAddress").release

\* The deployer's account is taken back to small blocks when a deployment fails
\* (the finally of deploy-its.js:365-369); only a crash or a switch that failed
\* leaves it on big ones.
BlocksRestored == big => stuck \/ pc \in {"enlarged", "shrink"}

\* 'skip existing if contract was already deployed on chain' (cli-utils.js:30):
\* what a run skips is there.  The predicted address of the proxy counts as
\* existing before the proxy was ever deployed (deploy-its.js:99 and 346).
SkippedIsDeployed ==
    pc = "next" /\ Skipped(Keys[key]) => Deployed(mem[Keys[key]])
===============================================================================
