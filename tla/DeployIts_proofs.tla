--------------------------- MODULE DeployIts_proofs ---------------------------
(***************************************************************************)
(* The Interchain Token Service is wired to what it should be, whatever    *)
(* mixture of failed, repeated, skipping, reusing and upgrading runs       *)
(* deployed it, for any releases, options and number of runs.              *)
(*                                                                         *)
(* Type correctness and the blocks need nothing more.  What contracts are  *)
(* wired to is about the default deployment methods (Defaults): create2    *)
(* addresses name what is there, and the proxies' create3 addresses are    *)
(* known before anything exists.  What a release consists of needs a salt  *)
(* per release, because the implementation's address depends on nothing    *)
(* else; and that the recorded contracts are the ones the service was      *)
(* built from needs, besides, that only one release is deployed without    *)
(* --reuseProxy: a second one would bring a second InterchainToken, which  *)
(* a release deployed before has not been built with.  The release notes   *)
(* deploy an upgrade with its own salt and with --reuseProxy               *)
(* (releases/evm/2025-05-ITS-v2.2.0.md:55-75).                             *)
(*                                                                         *)
(* The invariants build on one another: Typed, then WiredInv (what is at   *)
(* an address), ReleaseInv (whose release it is), TokenInv (which token).  *)
(***************************************************************************)
EXTENDS DeployIts, TLAPS

\* The defaults of --deployMethod and --proxyDeployMethod; no address is missing.
Defaults ==
    /\ DeployMethod = "create2" /\ ProxyMethod = "create3"
    /\ \A s, i : None # [salt |-> s] /\ None # [salt |-> s, init |-> i]

SaltPerRelease == \A r \in Releases, s \in Releases : SaltOf[r] = SaltOf[s] => r = s

OneFirstRelease ==
    \E r \in Releases :
        \A o \in Options : ~ o.upgrade /\ ~ o.reuseProxy => o.release = r
-----------------------------------------------------------------------------
(* Where things are.  With create2 an address tells the contract, its      *)
(* release and its arguments; with create3 only the salt.                  *)

SaltFor(k, r) ==
    CASE k = "address"        -> <<"ITS", ProxySalt>>
      [] k = "factoryAddress" -> <<"ITS Factory", ProxySalt>>
      [] k = "implementation" -> <<"ITS", SaltOf[r], "Implementation">>
      [] OTHER                -> <<"ITS", SaltOf[r]>>

Addr(k, r, args) ==
    IF k \in Helpers THEN [salt |-> SaltFor(k, r), init |-> <<k, r, args>>]
                     ELSE [salt |-> SaltFor(k, r)]

\* A proxy has its address before it is deployed.
Place(k) ==
    [salt |-> IF k = "address" THEN <<"ITS", ProxySalt>> ELSE <<"ITS Factory", ProxySalt>>]

ImplementationOf(k) ==
    IF k = "address" THEN "implementation" ELSE "factoryImplementation"

\* Among the contracts cs there is one of that kind there, of that release.
Is(cs, a, k)    == \E c \in cs : c.addr = a /\ c.kind = k
Of(cs, a, k, r) == \E c \in cs : c.addr = a /\ c.kind = k /\ c.release = r

Deploying == {"next", "enlarged", "shrink", "deployed", "recorded"}

\* The contract of this key was returned, and is not recorded yet.
Returned == pc = "deployed" \/ (pc = "shrink" /\ ~ failed)

-----------------------------------------------------------------------------
(* The invariants. *)

Typed ==
    /\ TypeOK
    /\ pc # "idle" => opt \in Options
    /\ pc \in {"idle", "predict", "prompt"} => key = 1
    /\ pc \in Deploying => key <= Len(Keys)
    /\ pc \in {"predict", "prompt"} \cup Deploying => ~ opt.upgrade
    /\ pc \in {"upgradeIts", "upgradeFactory"} => opt.upgrade
    /\ pc = "complete" /\ ~ opt.upgrade => key = Len(Keys) + 1

\* What a contract was built with.
BuiltRight(cs, k, args) ==
    /\ k \in {"tokenManagerDeployer", "tokenHandler"} => args = << >>
    /\ k \in {"interchainToken", "tokenManager", "factoryImplementation"} =>
           args = <<Place("address")>>
    /\ k = "interchainTokenDeployer" => Is(cs, args[1], "interchainToken")
    /\ k = "implementation" =>
           /\ Is(cs, args[1], "tokenManagerDeployer")
           /\ Is(cs, args[2], "interchainTokenDeployer")
           /\ args[3] = Place("factoryAddress")
           /\ Is(cs, args[4], "tokenManager") /\ Is(cs, args[5], "tokenHandler")

CodeOk(cs) ==
    /\ \A c \in cs : /\ c.kind \in Fields /\ c.release \in Releases
                     /\ c.addr = Addr(c.kind, c.release, c.args)
                     /\ BuiltRight(cs, c.kind, c.args)
    /\ \A c \in cs, d \in cs : c.addr = d.addr => c = d

\* An entry is empty, or where a contract of that kind is; a proxy's is its place.
EntryOk(cs, m, k) ==
    IF k \in Proxies THEN m[k] \in {None, Place(k)} ELSE m[k] = None \/ Is(cs, m[k], k)

EntriesOk(cs, m) == \A k \in Fields : EntryOk(cs, m, k)

PlanOk == pc \in {"prompt", "complete"} \cup Deploying /\ ~ opt.upgrade =>
              \A k \in Proxies : planned[k] = Place(k) /\ mem[k] = Place(k)

MadeOk == Returned => IF Keys[key] \in Proxies THEN made = Place(Keys[key])
                                               ELSE Is(code, made, Keys[key])

PointsOk ==
    \A k \in Proxies : points[k] = None \/ Is(code, points[k], ImplementationOf(k))

WiredInv ==
    /\ CodeOk(code) /\ EntriesOk(code, file) /\ EntriesOk(code, mem)
    /\ PlanOk /\ MadeOk /\ PointsOk

\* The contracts that every release has of its own.
OwnContracts == Fields \ (Proxies \cup {"interchainToken"})

\* The run is past the i-th deployment.
Past(i) == i < key \/ (i = key /\ pc = "recorded")

RunReleases ==
    pc \in {"complete"} \cup Deploying /\ ~ opt.upgrade /\ (~ opt.skipExisting \/ ~ mixed) =>
        \A i \in 1 .. 9 : Past(i) /\ Keys[i] \in OwnContracts =>
                              Of(code, mem[Keys[i]], Keys[i], opt.release)

SkipReleases ==
    pc # "idle" /\ ~ opt.upgrade /\ opt.skipExisting /\ ~ mixed =>
        \A k \in OwnContracts : mem[k] = None \/ Of(code, mem[k], k, opt.release)

MadeRelease ==
    Returned /\ Keys[key] \in OwnContracts => Of(code, made, Keys[key], opt.release)

WholeReleases ==
    whole => \E r \in Releases : \A k \in OwnContracts : Of(code, file[k], k, r)

UpgradeOk ==
    pc # "idle" /\ opt.upgrade =>
        /\ mem = file
        /\ pc \in {"upgradeFactory", "complete"} =>
               points["address"] = mem["implementation"] /\ Deployed(mem["implementation"])
        /\ pc = "complete" => /\ points["factoryAddress"] = mem["factoryImplementation"]
                              /\ Deployed(mem["factoryImplementation"])

ReleaseInv == RunReleases /\ SkipReleases /\ MadeRelease /\ WholeReleases /\ UpgradeOk

\* The release that was deployed with its proxies, and the token that all share.
First == CHOOSE r \in Releases :
             \A o \in Options : ~ o.upgrade /\ ~ o.reuseProxy => o.release = r

Token == Addr("interchainToken", First, <<Place("address")>>)

ServiceArgs(r) ==
    <<Addr("tokenManagerDeployer", r, << >>),
      Addr("interchainTokenDeployer", r, <<Token>>), Place("factoryAddress"),
      Addr("tokenManager", r, <<Place("address")>>), Addr("tokenHandler", r, << >>)>>

TokenKnown == file["interchainToken"] \in {None, Token} /\ mem["interchainToken"] \in {None, Token}

TokenMade == Returned /\ Keys[key] = "interchainToken" => made = Token

\* Nothing is built with a token that is missing.
TokenThere ==
    pc # "idle" /\ ~ opt.upgrade /\ ~ opt.skipExisting
        /\ (key > 3 \/ (key = 3 /\ (Returned \/ pc = "recorded"))) =>
            mem["interchainToken"] = Token

DeployersOk == \A c \in code : c.kind = "interchainTokenDeployer" => c.args = <<Token>>

ServicesOk ==
    ~ mixed => \A c \in code : c.kind = "implementation" => c.args = ServiceArgs(c.release)

WholeEntries ==
    whole => file["interchainToken"] = Token /\ \A k \in Proxies : file[k] = Place(k)

TokenInv == TokenKnown /\ TokenMade /\ TokenThere /\ DeployersOk /\ ServicesOk /\ WholeEntries
-----------------------------------------------------------------------------
(* Types, and the blocks.                                                  *)

LEMMA KeysAre ==
    /\ Len(Keys) = 9 /\ DOMAIN Keys = 1 .. 9
    /\ Keys[1] = "tokenManagerDeployer" /\ Keys[2] = "interchainToken"
    /\ Keys[3] = "interchainTokenDeployer" /\ Keys[4] = "tokenManager"
    /\ Keys[5] = "tokenHandler" /\ Keys[6] = "implementation" /\ Keys[7] = "address"
    /\ Keys[8] = "factoryImplementation" /\ Keys[9] = "factoryAddress"
BY DEF Keys

LEMMA FieldsAre ==
    /\ Fields = Helpers \cup {"implementation"} \cup Proxies
    /\ \A i \in 1 .. 9 : Keys[i] \in Fields
    /\ \A k \in Fields : \E i \in 1 .. 9 : Keys[i] = k
<1>1. Fields = {Keys[i] : i \in 1 .. 9}
  BY KeysAre DEF Fields, ToSet
<1>2. \A i \in 1 .. 9 : i = 1 \/ i = 2 \/ i = 3 \/ i = 4 \/ i = 5 \/ i = 6 \/ i = 7 \/ i = 8 \/ i = 9
  OBVIOUS
<1>3. \A k : k \in Fields <=> k \in Helpers \cup {"implementation"} \cup Proxies
  BY <1>1, <1>2, KeysAre DEF Helpers, Proxies
<1> QED
  BY <1>1, <1>3

LEMMA TypedInit == Init => Typed /\ BlocksRestored
<1> SUFFICES ASSUME Init PROVE Typed /\ BlocksRestored
  OBVIOUS
<1>1. /\ pc = "idle" /\ key = 1 /\ runs = 0 /\ code = {} /\ opt = None
      /\ failed = FALSE /\ whole = FALSE /\ mixed = FALSE /\ big = FALSE /\ stuck = FALSE
  BY DEF Init
<1>2. DOMAIN file = Fields /\ DOMAIN mem = Fields /\ DOMAIN planned = Proxies /\ DOMAIN points = Proxies
  BY DEF Init, Nothing, NoPlan
<1>3. runs \in 0 .. MaxRuns
  BY <1>1, ItsConstants
<1>4. key \in 1 .. Len(Keys) + 1 /\ pc \in Steps /\ opt \in Options \cup {None}
  BY <1>1, KeysAre DEF Steps
<1>5. /\ failed \in BOOLEAN /\ whole \in BOOLEAN /\ mixed \in BOOLEAN
      /\ big \in BOOLEAN /\ stuck \in BOOLEAN
  BY <1>1
<1>6. TypeOK
  BY <1>1, <1>2, <1>3, <1>4, <1>5 DEF TypeOK
<1> QED
  BY <1>1, <1>6 DEF Typed, BlocksRestored, Deploying

\* The end of a run.
LEMMA ExitTyped == ASSUME Typed, Finish \/ Crash PROVE Typed'
<1>1. /\ pc' = "idle" /\ key' = 1 /\ opt' = None /\ failed' = FALSE
      /\ UNCHANGED <<runs, mixed, code, points, big>>
  BY DEF Finish, Crash, Exit
<1>2. DOMAIN mem' = Fields /\ DOMAIN planned' = Proxies
  BY DEF Finish, Crash, Exit, Nothing, NoPlan
<1>3. DOMAIN file' = Fields
  BY DEF Finish, Crash, Typed, TypeOK
<1>4. whole' \in BOOLEAN
  BY DEF Finish, Crash, Typed, TypeOK
<1>5. stuck' \in BOOLEAN
  BY DEF Finish, Crash, Typed, TypeOK
<1>6. key' \in 1 .. Len(Keys) + 1 /\ pc' \in Steps /\ opt' \in Options \cup {None}
  BY <1>1, KeysAre DEF Steps
<1>7. failed' \in BOOLEAN /\ mixed' \in BOOLEAN /\ big' \in BOOLEAN
  BY <1>1 DEF Typed, TypeOK
<1>8. TypeOK'
  BY <1>1, <1>2, <1>3, <1>4, <1>5, <1>6, <1>7 DEF Typed, TypeOK
<1> QED
  BY <1>1, <1>8 DEF Typed, Deploying

LEMMA StartTyped == ASSUME Typed, Start PROVE Typed'
<1>1. PICK o \in Options :
          /\ opt' = o /\ pc' = IF o.upgrade THEN "upgradeIts" ELSE "predict"
          /\ mixed' = (mixed \/ (o.skipExisting /\ \E k \in Fields \ Proxies :
                                     file[k] # None /\ At(file[k]).release # o.release))
  BY DEF Start
<1>2. mixed' \in BOOLEAN
  BY <1>1 DEF Typed, TypeOK
<1>3. runs' \in 0 .. MaxRuns
  BY ItsConstants DEF Start, Typed, TypeOK
<1>4. pc = "idle" /\ mem' = file
      /\ UNCHANGED <<file, key, planned, made, failed, whole, chainVars>>
  BY DEF Start
<1>5. pc' \in Steps /\ opt' \in Options
  BY <1>1 DEF Steps
<1>6. key' = 1 /\ pc' \in {"upgradeIts", "predict"} /\ code' = code /\ points' = points
      /\ UNCHANGED <<big, stuck, whole, failed, planned, file>>
  BY <1>1, <1>4 DEF Typed, chainVars, blockVars
<1>7. TypeOK'
  BY <1>2, <1>3, <1>4, <1>5, <1>6, KeysAre DEF Typed, TypeOK
<1> QED
  BY <1>1, <1>4, <1>5, <1>6, <1>7 DEF Typed, Deploying

LEMMA PredictTyped == ASSUME Typed, Predict PROVE Typed'
<1>1. /\ pc' \in {"stopped", "prompt"} /\ DOMAIN mem' = Fields /\ DOMAIN planned' = Proxies
      /\ UNCHANGED <<file, opt, key, made, failed, runs, whole, mixed, code, points, big, stuck>>
  BY DEF Predict, histVars, chainVars, blockVars
<1> QED
  BY <1>1 DEF Predict, Typed, TypeOK, Steps, Deploying

\* Steps that move on, and keep what the run has.
LEMMA MoveTyped ==
    ASSUME Typed, Proceed \/ Decline \/ Pass \/ Confirm \/ SwitchFails \/ Throw \/ Shrink
    PROVE  Typed'
<1>1. /\ UNCHANGED <<file, mem, opt, planned, runs, whole, mixed, code, points>>
      /\ big' \in BOOLEAN /\ stuck' \in BOOLEAN /\ failed' \in BOOLEAN
  BY DEF Proceed, Decline, Pass, Confirm, SwitchFails, Throw, Shrink, histVars, chainVars,
         blockVars, Typed, TypeOK
<1>2. key \in 1 .. 10 /\ pc \in Steps
  BY KeysAre DEF Typed, TypeOK
<1>3. CASE Proceed \/ Decline \/ SwitchFails \/ Throw \/ Shrink
  <2>1. key' = key /\ pc' \in {"next", "stopped", "deployed"}
        /\ pc \in {"prompt", "upgradeIts", "upgradeFactory"} \cup Deploying \cup {"predict"}
    BY <1>3 DEF Proceed, Decline, SwitchFails, Throw, Shrink, Deploying
  <2>2. pc' \in {"next", "deployed"} => ~ opt.upgrade /\ key <= 9
    BY <1>3, KeysAre DEF Proceed, Decline, SwitchFails, Throw, Shrink, Typed, Deploying
  <2>3. opt \in Options
    BY <2>1 DEF Typed, Deploying
  <2> QED
    BY <1>1, <1>2, <2>1, <2>2, <2>3, KeysAre DEF Typed, TypeOK, Steps, Deploying
<1>4. CASE Pass \/ Confirm
  <2>1. /\ key' = key + 1 /\ pc' = (IF key = 9 THEN "complete" ELSE "next")
        /\ pc \in {"next", "recorded"}
    BY <1>4, KeysAre DEF Pass, Confirm, GoOn
  <2>2. key <= 9 /\ ~ opt.upgrade /\ opt \in Options
    BY <2>1, KeysAre DEF Typed, Deploying
  <2> QED
    BY <1>1, <1>2, <2>1, <2>2, KeysAre DEF Typed, TypeOK, Steps, Deploying
<1> QED
  BY <1>3, <1>4

\* What the deployment of a contract adds to the chain.
LEMMA CreatedTyped ==
    ASSUME Typed, NEW k \in Fields, opt \in Options, Created(k)
    PROVE  /\ \A c \in code' : c.kind \in Fields /\ c.release \in Releases
                               /\ None \notin ToSet(c.args)
           /\ DOMAIN points' = Proxies
<1>1. opt.release \in Releases
  BY ItsConstants
<1>2. None \notin ToSet(Args(k))
  BY DEF Created
<1> QED
  BY <1>1, <1>2 DEF Created, Typed, TypeOK

LEMMA DeployTyped ==
    ASSUME Typed, NEW k \in Fields, Enlarge(k) \/ FindExisting(k) \/ Deploy(k) \/ DeployFails(k)
    PROVE  Typed'
<1>1. /\ UNCHANGED <<file, mem, opt, key, planned, runs, whole, mixed, stuck>>
      /\ pc \in {"next", "enlarged"} /\ pc' \in {"enlarged", "shrink", "deployed", "stopped"}
  BY DEF Enlarge, FindExisting, Deploy, DeployFails, Ready, AfterDeploy, Created, histVars,
         chainVars, blockVars
<1>2. key <= 9 /\ ~ opt.upgrade /\ opt \in Options
  BY <1>1, KeysAre DEF Typed, Deploying
<1>3. failed' \in BOOLEAN /\ big' \in BOOLEAN
  BY DEF Enlarge, FindExisting, Deploy, DeployFails, Created, chainVars, blockVars, Typed, TypeOK
<1>4. /\ \A c \in code' : c.kind \in Fields /\ c.release \in Releases
                          /\ None \notin ToSet(c.args)
      /\ DOMAIN points' = Proxies
  <2>1. CASE Created(k)
    BY <1>2, <2>1, CreatedTyped
  <2>2. CASE code' = code /\ points' = points
    BY <2>2 DEF Typed, TypeOK
  <2> QED
    BY <2>1, <2>2 DEF Enlarge, FindExisting, Deploy, DeployFails, chainVars
<1> QED
  BY <1>1, <1>2, <1>3, <1>4, KeysAre DEF Typed, TypeOK, Steps, Deploying

LEMMA RecordTyped == ASSUME Typed, NEW k \in Fields, Record(k) PROVE Typed'
<1>1. /\ UNCHANGED <<file, opt, key, planned, failed, runs, whole, mixed, code, points, big, stuck>>
      /\ pc = "deployed" /\ pc' = "recorded" /\ DOMAIN mem' = DOMAIN mem
  BY DEF Record, histVars, chainVars, blockVars
<1> QED
  BY <1>1 DEF Typed, TypeOK, Steps, Deploying

LEMMA UpgradeTyped == ASSUME Typed, UpgradeIts \/ UpgradeFactory PROVE Typed'
<1>1. /\ UNCHANGED <<file, mem, opt, key, planned, failed, runs, whole, mixed, code, big, stuck>>
      /\ pc \in {"upgradeIts", "upgradeFactory"} /\ pc' \in {"upgradeFactory", "complete"}
      /\ DOMAIN points' = DOMAIN points
  BY DEF UpgradeIts, UpgradeFactory, Upgrade, histVars, blockVars
<1> QED
  BY <1>1 DEF Typed, TypeOK, Steps, Deploying

LEMMA NextTyped == Typed /\ [Next]_vars => Typed'
<1> SUFFICES ASSUME Typed, [Next]_vars PROVE Typed'
  OBVIOUS
<1>1. CASE Start
  BY <1>1, StartTyped
<1>2. CASE Predict
  BY <1>2, PredictTyped
<1>3. CASE Proceed \/ Decline \/ Pass \/ Confirm \/ SwitchFails \/ Throw \/ Shrink
  BY <1>3, MoveTyped
<1>4. CASE \E k \in Fields : Enlarge(k) \/ FindExisting(k) \/ Deploy(k) \/ DeployFails(k)
  BY <1>4, DeployTyped
<1>5. CASE \E k \in Fields : Record(k)
  BY <1>5, RecordTyped
<1>6. CASE UpgradeIts \/ UpgradeFactory
  BY <1>6, UpgradeTyped
<1>7. CASE Finish \/ Crash
  BY <1>7, ExitTyped
<1>8. CASE UNCHANGED vars
  BY <1>8 DEF vars, runVars, histVars, chainVars, blockVars, Typed, TypeOK
<1> QED
  BY <1>1, <1>2, <1>3, <1>4, <1>5, <1>6, <1>7, <1>8 DEF Next

THEOREM TypedHolds == Spec => []Typed
BY TypedInit, NextTyped, PTL DEF Spec

\* The types of the configuration, the run and the chain, for every option and release.
THEOREM TypeCorrect == Spec => []TypeOK
<1>1. Typed => TypeOK
  BY DEF Typed
<1> QED
  BY <1>1, TypedHolds, PTL

\* The deployer's account is left on big blocks only by a crash or by a switch that
\* failed: the finally around a deployment takes it back, whether that failed or not.
THEOREM BlocksAreRestored == Spec => []BlocksRestored
<1>1. Typed /\ BlocksRestored /\ [Next]_vars => BlocksRestored'
  <2> SUFFICES ASSUME Typed, BlocksRestored, [Next]_vars PROVE BlocksRestored'
    OBVIOUS
  <2>1. CASE UNCHANGED <<big, stuck>> /\ pc \notin {"enlarged", "shrink"}
    BY <2>1 DEF BlocksRestored
  <2>2. CASE Start \/ Predict \/ Proceed \/ Decline \/ Pass \/ Confirm \/ Throw \/ UpgradeIts
             \/ UpgradeFactory \/ Finish
    BY <2>1, <2>2 DEF Start, Predict, Proceed, Decline, Pass, Confirm, Throw, UpgradeIts,
           UpgradeFactory, Upgrade, Finish, Exit, chainVars, blockVars
  <2>3. CASE Shrink \/ SwitchFails \/ Crash
    <3>1. big \in BOOLEAN
      BY DEF Typed, TypeOK
    <3>2. CASE Shrink
      BY <3>2 DEF Shrink, BlocksRestored
    <3>3. CASE SwitchFails
      <4>1. stuck' = big'
        BY <3>3 DEF SwitchFails
      <4> QED
        BY <4>1 DEF BlocksRestored
    <3>4. CASE Crash
      <4>1. stuck' = big /\ big' = big
        BY <3>4 DEF Crash, Exit
      <4> QED
        BY <4>1 DEF BlocksRestored
    <3> QED
      BY <2>3, <3>2, <3>3, <3>4
  <2>4. CASE \E k \in Fields : Enlarge(k) \/ Record(k)
    BY <2>1, <2>4 DEF Enlarge, Record, BlocksRestored, chainVars, blockVars
  <2>5. CASE \E k \in Fields : FindExisting(k) \/ Deploy(k) \/ DeployFails(k)
    <3>1. /\ UNCHANGED <<big, stuck>>
          /\ pc = "next" \/ (pc = "enlarged" /\ \E k \in Fields : NeedsBigBlocks(k) /\ pc' = "shrink")
      BY <2>5 DEF FindExisting, Deploy, DeployFails, Ready, AfterDeploy, Created, chainVars,
                  blockVars
    <3> QED
      BY <3>1 DEF BlocksRestored
  <2>6. CASE UNCHANGED vars
    BY <2>6 DEF vars, runVars, chainVars, blockVars, BlocksRestored
  <2> QED
    BY <2>2, <2>3, <2>4, <2>5, <2>6 DEF Next
<1> QED
  BY <1>1, TypedInit, TypedHolds, PTL DEF Spec
-----------------------------------------------------------------------------
(* What is where it should be: create2 names it, create3 plans it.         *)

LEMMA AddressIs ==
    ASSUME Defaults, NEW k \in Fields, NEW args
    PROVE  AddressOf(k, opt.release, args) = Addr(k, opt.release, args)
<1>1. Salt(k) = SaltFor(k, opt.release)
  BY DEF Salt, SaltFor
<1>2. CASE k \in Helpers
  BY <1>1, <1>2 DEF AddressOf, Method, Addr, Defaults
<1>3. CASE k \notin Helpers
  BY <1>1, <1>3 DEF AddressOf, Method, Addr, Defaults
<1> QED
  BY <1>2, <1>3

\* The address of a contract tells its kind, that of a helper everything.
LEMMA AddressTells ==
    ASSUME NEW k \in Fields, NEW r, NEW a, NEW l \in Fields, NEW s, NEW b,
           Addr(k, r, a) = Addr(l, s, b)
    PROVE  /\ k = l
           /\ k \in Helpers => r = s /\ a = b
           /\ k = "implementation" => SaltOf[r] = SaltOf[s]
<1>1. Addr(k, r, a).salt = SaltFor(k, r) /\ Addr(l, s, b).salt = SaltFor(l, s)
  BY DEF Addr
<1>2. SaltFor(k, r) = SaltFor(l, s)
  BY <1>1
<1>3. /\ k \in Helpers => DOMAIN Addr(k, r, a) = {"salt", "init"} /\ Addr(k, r, a).init = <<k, r, a>>
      /\ l \in Helpers => DOMAIN Addr(l, s, b) = {"salt", "init"} /\ Addr(l, s, b).init = <<l, s, b>>
  BY DEF Addr
<1>4. /\ k \notin Helpers => DOMAIN Addr(k, r, a) = {"salt"}
      /\ l \notin Helpers => DOMAIN Addr(l, s, b) = {"salt"}
  BY DEF Addr
<1>5. k \in Helpers <=> l \in Helpers
  BY <1>3, <1>4
<1>6. CASE k \in Helpers
  <2>1. <<k, r, a>> = <<l, s, b>>
    BY <1>3, <1>5, <1>6
  <2> QED
    BY <1>6, <2>1 DEF Helpers
<1>7. CASE k \notin Helpers
  <2>1. k \in {"implementation"} \cup Proxies /\ l \in {"implementation"} \cup Proxies
    BY <1>5, <1>7, FieldsAre
  <2>2. /\ <<"ITS", ProxySalt>> # <<"ITS Factory", ProxySalt>>
        /\ \A x : <<"ITS", x, "Implementation">> # <<"ITS", ProxySalt>>
        /\ \A x : <<"ITS", x, "Implementation">> # <<"ITS Factory", ProxySalt>>
    OBVIOUS
  <2>3. k = l
    <3>1. /\ SaltFor("address", r) = <<"ITS", ProxySalt>> /\ SaltFor("address", s) = <<"ITS", ProxySalt>>
          /\ SaltFor("factoryAddress", r) = <<"ITS Factory", ProxySalt>>
          /\ SaltFor("factoryAddress", s) = <<"ITS Factory", ProxySalt>>
          /\ SaltFor("implementation", r) = <<"ITS", SaltOf[r], "Implementation">>
          /\ SaltFor("implementation", s) = <<"ITS", SaltOf[s], "Implementation">>
      BY DEF SaltFor
    <3> HIDE DEF SaltFor
    <3>2. /\ SaltFor("address", r) # SaltFor("factoryAddress", s)
          /\ SaltFor("factoryAddress", r) # SaltFor("address", s)
      BY <2>2, <3>1
    <3>3. /\ SaltFor("implementation", r) # SaltFor("address", s)
          /\ SaltFor("implementation", r) # SaltFor("factoryAddress", s)
      BY <2>2, <3>1, Zenon
    <3>4. /\ SaltFor("address", r) # SaltFor("implementation", s)
          /\ SaltFor("factoryAddress", r) # SaltFor("implementation", s)
      BY <2>2, <3>1, Zenon
    <3>5. k \in {"implementation", "address", "factoryAddress"}
          /\ l \in {"implementation", "address", "factoryAddress"}
      BY <2>1 DEF Proxies
    <3> QED
      BY <1>2, <3>2, <3>3, <3>4, <3>5
  <2>4. ASSUME k = "implementation" PROVE SaltOf[r] = SaltOf[s]
    <3>1. <<"ITS", SaltOf[r], "Implementation">> = <<"ITS", SaltOf[s], "Implementation">>
      BY <1>2, <2>3, <2>4 DEF SaltFor
    <3> QED
      BY <3>1
  <2> QED
    BY <1>7, <2>3, <2>4
<1> QED
  BY <1>6, <1>7

LEMMA PlacesAre ==
    ASSUME NEW k \in Proxies, NEW r, NEW args
    PROVE  Addr(k, r, args) = Place(k)
BY DEF Addr, SaltFor, Place, Proxies, Helpers

LEMMA SomewhereIs ==
    ASSUME Defaults, NEW k, NEW r, NEW args
    PROVE  Addr(k, r, args) # None
BY DEF Addr, Defaults

\* At finds the contract at an address.
LEMMA AtIs ==
    ASSUME CodeOk(code), NEW c \in code
    PROVE  At(c.addr) = c
BY DEF CodeOk, At

LEMMA EntriesGrow ==
    ASSUME NEW cs, NEW ds, cs \subseteq ds, NEW m, EntriesOk(cs, m)
    PROVE  EntriesOk(ds, m)
BY DEF EntriesOk, EntryOk, Is

LEMMA WiredInit == Init => WiredInv
<1> SUFFICES ASSUME Init PROVE WiredInv
  OBVIOUS
<1>1. file = Nothing /\ mem = Nothing /\ points = NoPlan /\ code = {} /\ pc = "idle"
  BY DEF Init
<1>2. \A k \in Fields : Nothing[k] = None
  BY DEF Nothing
<1>3. EntriesOk(code, Nothing)
  BY <1>2 DEF EntriesOk, EntryOk
<1>4. PointsOk
  BY <1>1 DEF PointsOk, NoPlan
<1> QED
  BY <1>1, <1>3, <1>4 DEF WiredInv, CodeOk, PlanOk, MadeOk, Returned, Deploying

\* What the constructor arguments of the next contract are.
LEMMA ArgumentsAre ==
    ASSUME Typed, WiredInv, pc \in {"next", "enlarged"}, NEW k \in Fields,
           \A a \in ToSet(Args(k)) : a # None
    PROVE  /\ BuiltRight(code, k, Args(k))
           /\ k = "address" => Is(code, Args(k)[1], "implementation")
           /\ k = "factoryAddress" => Is(code, Args(k)[1], "factoryImplementation")
<1>1. planned["address"] = Place("address") /\ planned["factoryAddress"] = Place("factoryAddress")
  BY DEF WiredInv, PlanOk, Typed, Deploying, Proxies
<1>2. \A l \in Fields \ Proxies : mem[l] # None => Is(code, mem[l], l)
  BY DEF WiredInv, EntriesOk, EntryOk
<1>3. /\ "interchainToken" \in Fields \ Proxies /\ "tokenManagerDeployer" \in Fields \ Proxies
      /\ "interchainTokenDeployer" \in Fields \ Proxies /\ "tokenManager" \in Fields \ Proxies
      /\ "tokenHandler" \in Fields \ Proxies /\ "implementation" \in Fields \ Proxies
      /\ "factoryImplementation" \in Fields \ Proxies
  BY FieldsAre DEF Helpers, Proxies
<1>4. \A i \in DOMAIN Args(k) : Args(k)[i] # None
  BY DEF ToSet
<1>5. CASE k \in {"tokenManagerDeployer", "tokenHandler"}
  <2>1. Args(k) = << >>
    BY <1>5 DEF Args
  <2> QED
    BY <1>5, <2>1 DEF BuiltRight
<1>6. CASE k \in {"interchainToken", "tokenManager", "factoryImplementation"}
  <2>1. Args(k) = <<Place("address")>>
    BY <1>1, <1>6 DEF Args
  <2> QED
    BY <1>6, <2>1 DEF BuiltRight
<1>7. CASE k = "interchainTokenDeployer"
  <2>1. Args(k) = <<mem["interchainToken"]>>
    BY <1>7 DEF Args
  <2>2. Is(code, Args(k)[1], "interchainToken")
    BY <1>2, <1>3, <1>4, <2>1
  <2> QED
    BY <1>7, <2>2 DEF BuiltRight
<1>8. CASE k = "implementation"
  <2>1. Args(k) = <<mem["tokenManagerDeployer"], mem["interchainTokenDeployer"],
                    Place("factoryAddress"), mem["tokenManager"], mem["tokenHandler"]>>
    BY <1>1, <1>8 DEF Args
  <2>2. DOMAIN Args(k) = 1 .. 5
    BY <2>1
  <2>3. /\ mem["tokenManagerDeployer"] # None /\ mem["interchainTokenDeployer"] # None
        /\ mem["tokenManager"] # None /\ mem["tokenHandler"] # None
    BY <1>4, <2>1, <2>2
  <2>4. /\ Is(code, Args(k)[1], "tokenManagerDeployer")
        /\ Is(code, Args(k)[2], "interchainTokenDeployer")
        /\ Args(k)[3] = Place("factoryAddress")
        /\ Is(code, Args(k)[4], "tokenManager") /\ Is(code, Args(k)[5], "tokenHandler")
    BY <1>2, <1>3, <2>1, <2>3
  <2> QED
    BY <1>8, <2>4 DEF BuiltRight
<1>9. CASE k = "address"
  <2>1. Args(k) = <<mem["implementation"]>>
    BY <1>9 DEF Args
  <2>2. Is(code, Args(k)[1], "implementation")
    BY <1>2, <1>3, <1>4, <2>1
  <2> QED
    BY <1>9, <2>2 DEF BuiltRight
<1>10. CASE k = "factoryAddress"
  <2>1. Args(k) = <<mem["factoryImplementation"]>>
    BY <1>10 DEF Args
  <2>2. Is(code, Args(k)[1], "factoryImplementation")
    BY <1>2, <1>3, <1>4, <2>1
  <2> QED
    BY <1>10, <2>2 DEF BuiltRight
<1> QED
  BY <1>5, <1>6, <1>7, <1>8, <1>9, <1>10, FieldsAre DEF Helpers, Proxies

LEMMA BuiltGrows ==
    ASSUME NEW cs, NEW ds, cs \subseteq ds, NEW k, NEW args, BuiltRight(cs, k, args)
    PROVE  BuiltRight(ds, k, args)
<1>1. \A a, l : Is(cs, a, l) => Is(ds, a, l)
  BY DEF Is
<1> QED
  BY <1>1 DEF BuiltRight

\* A deployment adds a contract built as it should be, at an address of its own.
LEMMA CreatedWired ==
    ASSUME Typed, WiredInv, Defaults, pc \in {"next", "enlarged"},
           NEW k \in Fields, Created(k)
    PROVE  /\ code' = code \cup {[addr |-> Target(k), kind |-> k, release |-> opt.release,
                                  args |-> Args(k)]}
           /\ CodeOk(code') /\ PointsOk' /\ Is(code', Target(k), k)
<1> DEFINE new == [addr |-> Target(k), kind |-> k, release |-> opt.release, args |-> Args(k)]
<1>1. code' = code \cup {new} /\ code \subseteq code'
  BY DEF Created
<1>2. opt \in Options /\ opt.release \in Releases
  BY ItsConstants DEF Typed
<1>3. Target(k) = Addr(k, opt.release, Args(k))
  BY AddressIs DEF Target
<1>4. /\ BuiltRight(code, k, Args(k))
      /\ k = "address" => Is(code, Args(k)[1], "implementation")
      /\ k = "factoryAddress" => Is(code, Args(k)[1], "factoryImplementation")
  BY ArgumentsAre DEF Created
<1>5. \A c \in code : c.addr # Target(k)
  BY DEF Created, Deployed
<1>6. /\ new.addr = Target(k) /\ new.kind = k /\ new.release = opt.release /\ new.args = Args(k)
      /\ new \in code'
  BY <1>1
<1>7. CodeOk(code')
  <2>1. ASSUME NEW c \in code'
        PROVE  /\ c.kind \in Fields /\ c.release \in Releases
               /\ c.addr = Addr(c.kind, c.release, c.args)
               /\ BuiltRight(code', c.kind, c.args)
    <3>1. CASE c \in code
      BY <1>1, <3>1, BuiltGrows DEF WiredInv, CodeOk
    <3>2. CASE c = new
      <4>1. BuiltRight(code', k, Args(k))
        BY <1>1, <1>4, BuiltGrows
      <4> QED
        BY <1>2, <1>3, <1>6, <3>2, <4>1
    <3> QED
      BY <1>1, <2>1, <3>1, <3>2
  <2>2. ASSUME NEW c \in code', NEW d \in code', c.addr = d.addr
        PROVE  c = d
    <3>1. c \in code /\ d \in code => c = d
      BY <2>2 DEF WiredInv, CodeOk
    <3>2. c = new \/ c \in code
      BY <1>1
    <3>3. d = new \/ d \in code
      BY <1>1
    <3> HIDE DEF new
    <3> QED
      BY <1>5, <1>6, <2>2, <3>1, <3>2, <3>3
  <2> QED
    BY <2>1, <2>2 DEF CodeOk
<1>8. PointsOk'
  <2> SUFFICES ASSUME NEW p \in Proxies
               PROVE  points'[p] = None \/ Is(code', points'[p], ImplementationOf(p))
    BY DEF PointsOk
  <2>1. \A a, l : Is(code, a, l) => Is(code', a, l)
    BY <1>1 DEF Is
  <2>2. CASE points'[p] = points[p]
    BY <2>1, <2>2 DEF WiredInv, PointsOk
  <2>3. CASE p = k /\ points'[p] = Args(k)[1]
    BY <1>4, <2>1, <2>3 DEF ImplementationOf, Proxies
  <2> QED
    BY <2>2, <2>3 DEF Created, Typed, TypeOK
<1> QED
  BY <1>1, <1>6, <1>7, <1>8 DEF Is

\* Loading and saving the configuration.
LEMMA LoadWired == ASSUME Typed, WiredInv, Start PROVE WiredInv'
<1>1. /\ mem' = file /\ UNCHANGED <<file, code, points>>
      /\ pc' \in {"upgradeIts", "predict"}
  BY DEF Start, chainVars
<1> QED
  BY <1>1 DEF WiredInv, PlanOk, MadeOk, Returned, PointsOk, Deploying

LEMMA SaveWired == ASSUME Typed, WiredInv, Finish \/ Crash PROVE WiredInv'
<1>1. /\ mem' = Nothing /\ UNCHANGED <<code, points>>
      /\ pc' = "idle" /\ file' \in {file, mem}
  BY DEF Finish, Crash, Exit
<1>2. EntriesOk(code, Nothing)
  BY DEF EntriesOk, EntryOk, Nothing
<1> QED
  BY <1>1, <1>2 DEF WiredInv, PlanOk, MadeOk, Returned, PointsOk, Deploying

\* The proxies' places are planned.
LEMMA PredictWired == ASSUME Typed, WiredInv, Defaults, Predict PROVE WiredInv'
<1>1. \A k \in Proxies : planned'[k] = (IF opt.reuseProxy THEN mem[k] ELSE Place(k))
  <2>1. \A k \in Proxies : AddressOf(k, opt.release, << >>) = Place(k)
    BY AddressIs, PlacesAre, FieldsAre
  <2> QED
    BY <2>1 DEF Predict
<1>2. \A k \in Fields : mem'[k] = IF k \in Proxies THEN planned'[k] ELSE mem[k]
  BY DEF Predict
<1>3. \A k \in Proxies : planned'[k] \in {None, Place(k)}
  BY <1>1, FieldsAre DEF WiredInv, EntriesOk, EntryOk
<1>4. EntriesOk(code, mem')
  BY <1>2, <1>3 DEF WiredInv, EntriesOk, EntryOk
<1>5. /\ pc' \in {"stopped", "prompt"} /\ UNCHANGED <<file, opt, code, points>>
      /\ pc' = "prompt" => \A k \in Proxies : planned'[k] # None
  BY DEF Predict, chainVars
<1>6. PlanOk'
  BY <1>2, <1>3, <1>5, FieldsAre DEF PlanOk, Deploying
<1> QED
  BY <1>4, <1>5, <1>6 DEF WiredInv, MadeOk, Returned, PointsOk

\* Steps that only move on.
LEMMA MoveWired ==
    ASSUME Typed, WiredInv,
           Proceed \/ Decline \/ Pass \/ Confirm \/ SwitchFails \/ Throw \/ Shrink
             \/ \E k \in Fields : Enlarge(k)
    PROVE  WiredInv'
<1>1. /\ UNCHANGED <<file, mem, opt, planned, made, code, points>>
      /\ pc' \in {"next", "stopped", "deployed", "complete", "enlarged"}
  BY DEF Proceed, Decline, Pass, Confirm, SwitchFails, Throw, Shrink, Enlarge, GoOn, chainVars
<1>2. pc' \in {"next", "deployed", "complete", "enlarged"} => pc \in {"prompt"} \cup Deploying
  BY DEF Proceed, Decline, Pass, Confirm, SwitchFails, Throw, Shrink, Enlarge, GoOn, Deploying
<1>3. PlanOk'
  BY <1>1, <1>2 DEF WiredInv, PlanOk, Deploying
<1>4. Returned' => Returned /\ key' = key
  BY DEF Proceed, Decline, Pass, Confirm, SwitchFails, Throw, Shrink, Enlarge, GoOn, Returned
<1>5. MadeOk'
  BY <1>1, <1>4 DEF WiredInv, MadeOk
<1> QED
  BY <1>1, <1>3, <1>5 DEF WiredInv, PointsOk

\* The contract at the address of a key is one of that kind.
LEMMA FindWired ==
    ASSUME Typed, WiredInv, Defaults, NEW k \in Fields, Deployed(Target(k))
    PROVE  \E c \in code : /\ c.addr = Target(k) /\ c.kind = k
                           /\ k \in Helpers => c.release = opt.release /\ c.args = Args(k)
                           /\ k = "implementation" => SaltOf[c.release] = SaltOf[opt.release]
<1>1. PICK c \in code : c.addr = Target(k)
  BY DEF Deployed
<1>2. /\ c.kind \in Fields /\ c.addr = Addr(c.kind, c.release, c.args)
  BY DEF WiredInv, CodeOk
<1>3. Target(k) = Addr(k, opt.release, Args(k))
  BY AddressIs DEF Target
<1>4. Addr(c.kind, c.release, c.args) = Addr(k, opt.release, Args(k))
  BY <1>1, <1>2, <1>3
<1>5. /\ c.kind = k
      /\ c.kind \in Helpers => c.release = opt.release /\ c.args = Args(k)
      /\ c.kind = "implementation" => SaltOf[c.release] = SaltOf[opt.release]
  BY <1>2, <1>4, AddressTells
<1> QED
  BY <1>1, <1>5

LEMMA DeployWired ==
    ASSUME Typed, WiredInv, Defaults, NEW k \in Fields,
           FindExisting(k) \/ Deploy(k) \/ DeployFails(k)
    PROVE  WiredInv'
<1>1. /\ UNCHANGED <<file, mem, opt, planned, key>> /\ k = Keys[key]
      /\ pc \in {"next", "enlarged"} /\ pc' \in {"shrink", "deployed", "stopped"}
  BY DEF FindExisting, Deploy, DeployFails, Ready, AfterDeploy, Due
<1>2. code \subseteq code' /\ CodeOk(code') /\ PointsOk'
  <2>1. CASE Created(k)
    BY <1>1, <2>1, CreatedWired
  <2>2. CASE UNCHANGED chainVars
    BY <2>2 DEF chainVars, WiredInv, PointsOk
  <2> QED
    BY <2>1, <2>2 DEF FindExisting, Deploy, DeployFails
<1>3. PlanOk'
  BY <1>1 DEF WiredInv, PlanOk, Deploying
<1>4. MadeOk'
  <2>1. CASE FindExisting(k)
    <3>1. made' = Target(k) /\ code' = code /\ Is(code, Target(k), k)
      BY <2>1, FindWired DEF FindExisting, chainVars, Is
    <3>2. k \in Proxies => Target(k) = Place(k)
      BY AddressIs, PlacesAre DEF Target
    <3> QED
      BY <1>1, <3>1, <3>2 DEF MadeOk
  <2>2. CASE Deploy(k)
    <3>1. made' = Target(k) /\ Is(code', Target(k), k)
      BY <1>1, <2>2, CreatedWired DEF Deploy
    <3>2. k \in Proxies => Target(k) = Place(k)
      BY AddressIs, PlacesAre DEF Target
    <3> QED
      BY <1>1, <3>1, <3>2 DEF MadeOk
  <2>3. CASE DeployFails(k)
    BY <2>3 DEF DeployFails, MadeOk, Returned
  <2> QED
    BY <2>1, <2>2, <2>3
<1>5. EntriesOk(code', file') /\ EntriesOk(code', mem')
  BY <1>1, <1>2, EntriesGrow DEF WiredInv
<1> QED
  BY <1>2, <1>3, <1>4, <1>5 DEF WiredInv

LEMMA RecordWired == ASSUME Typed, WiredInv, NEW k \in Fields, Record(k) PROVE WiredInv'
<1>1. /\ pc = "deployed" /\ pc' = "recorded" /\ k = Keys[key]
      /\ mem' = [mem EXCEPT ![k] = made]
      /\ UNCHANGED <<file, opt, key, planned, code, points>>
  BY DEF Record, chainVars
<1>2. IF k \in Proxies THEN made = Place(k) ELSE Is(code, made, k)
  BY <1>1 DEF WiredInv, MadeOk, Returned
<1>3. \A l \in Fields : mem'[l] = IF l = k THEN made ELSE mem[l]
  BY <1>1 DEF Typed, TypeOK
<1>4. EntriesOk(code, mem')
  BY <1>2, <1>3 DEF WiredInv, EntriesOk, EntryOk
<1>5. PlanOk'
  BY <1>1, <1>2, <1>3, FieldsAre DEF WiredInv, PlanOk, Deploying
<1> QED
  BY <1>1, <1>4, <1>5 DEF WiredInv, MadeOk, Returned, PointsOk

LEMMA UpgradeWired == ASSUME Typed, WiredInv, UpgradeIts \/ UpgradeFactory PROVE WiredInv'
<1>1. /\ UNCHANGED <<file, mem, opt, planned, code>>
      /\ pc' \in {"upgradeFactory", "complete"} /\ opt.upgrade
  BY DEF UpgradeIts, UpgradeFactory, Upgrade, Typed
<1>2. PICK k \in Proxies : points' = [points EXCEPT ![k] = mem[ImplementationOf(k)]]
  BY DEF UpgradeIts, UpgradeFactory, Upgrade, ImplementationOf, Proxies
<1>3. mem[ImplementationOf(k)] = None \/ Is(code, mem[ImplementationOf(k)], ImplementationOf(k))
  <2>1. ImplementationOf(k) \in Fields \ Proxies
    BY FieldsAre DEF ImplementationOf, Helpers, Proxies
  <2> QED
    BY <2>1 DEF WiredInv, EntriesOk, EntryOk
<1>4. \A p \in Proxies : points'[p] = IF p = k THEN mem[ImplementationOf(k)] ELSE points[p]
  BY <1>2 DEF Typed, TypeOK
<1>5. PointsOk'
  BY <1>1, <1>3, <1>4 DEF WiredInv, PointsOk
<1> QED
  BY <1>1, <1>5 DEF WiredInv, PlanOk, MadeOk, Returned, Deploying

LEMMA NextWired ==
    ASSUME Defaults
    PROVE  Typed /\ WiredInv /\ [Next]_vars => WiredInv'
<1> SUFFICES ASSUME Typed, WiredInv, [Next]_vars PROVE WiredInv'
  OBVIOUS
<1>1. CASE Start
  BY <1>1, LoadWired
<1>2. CASE Predict
  BY <1>2, PredictWired
<1>3. CASE \/ Proceed \/ Decline \/ Pass \/ Confirm \/ SwitchFails \/ Throw \/ Shrink
           \/ \E k \in Fields : Enlarge(k)
  BY <1>3, MoveWired
<1>4. CASE \E k \in Fields : FindExisting(k) \/ Deploy(k) \/ DeployFails(k)
  BY <1>4, DeployWired
<1>5. CASE \E k \in Fields : Record(k)
  BY <1>5, RecordWired
<1>6. CASE UpgradeIts \/ UpgradeFactory
  BY <1>6, UpgradeWired
<1>7. CASE Finish \/ Crash
  BY <1>7, SaveWired
<1>8. CASE UNCHANGED vars
  <2>1. UNCHANGED <<file, mem, opt, pc, key, planned, made, failed, code, points>>
    BY <1>8 DEF vars, runVars, chainVars
  <2> QED
    BY <2>1 DEF WiredInv, PlanOk, MadeOk, Returned, PointsOk
<1> QED
  BY <1>1, <1>2, <1>3, <1>4, <1>5, <1>6, <1>7, <1>8 DEF Next

THEOREM WiredHolds ==
    ASSUME Defaults
    PROVE  Spec => []WiredInv
<1>1. Typed /\ WiredInv /\ [Next]_vars => WiredInv'
  BY NextWired
<1> QED
  BY <1>1, WiredInit, TypedHolds, PTL DEF Spec

LEMMA WiredService ==
    ASSUME Defaults, WiredInv
    PROVE  LiveIsWired
<1> SUFFICES ASSUME points["address"] # None PROVE ServiceIsWired(Live("address"))
  BY DEF LiveIsWired
<1>1. PICK s \in code : s.addr = points["address"] /\ s.kind = "implementation"
  BY DEF WiredInv, PointsOk, ImplementationOf, Is, Proxies
<1>2. Live("address") = s
  BY <1>1, AtIs DEF WiredInv, Live
<1>3. \A a, k : Is(code, a, k) => Holds(a, k)
  BY AtIs DEF Is, WiredInv, Holds, Deployed
<1>4. /\ Is(code, s.args[1], "tokenManagerDeployer")
      /\ Is(code, s.args[2], "interchainTokenDeployer")
      /\ s.args[3] = Place("factoryAddress")
      /\ Is(code, s.args[4], "tokenManager") /\ Is(code, s.args[5], "tokenHandler")
  BY <1>1 DEF WiredInv, CodeOk, BuiltRight
<1>5. PICK d \in code : d.addr = s.args[2] /\ d.kind = "interchainTokenDeployer"
  BY <1>4 DEF Is
<1>6. Is(code, d.args[1], "interchainToken") /\ At(s.args[2]) = d
  BY <1>5, AtIs DEF WiredInv, CodeOk, BuiltRight
<1>7. PICK t \in code : t.addr = d.args[1] /\ t.kind = "interchainToken"
  BY <1>6 DEF Is
<1>8. t.args = <<Place("address")>> /\ At(d.args[1]) = t
  BY <1>7, AtIs DEF WiredInv, CodeOk, BuiltRight
<1>9. PICK m \in code : m.addr = s.args[4] /\ m.kind = "tokenManager"
  BY <1>4 DEF Is
<1>10. m.args = <<Place("address")>> /\ At(s.args[4]) = m
  BY <1>9, AtIs DEF WiredInv, CodeOk, BuiltRight
<1>11. \A p \in code : p.kind \in Proxies => p.addr = Place(p.kind)
  BY PlacesAre DEF WiredInv, CodeOk
<1>12. ServiceIsWired(s)
  BY <1>1, <1>3, <1>4, <1>6, <1>8, <1>10, <1>11 DEF ServiceIsWired, Proxies
<1> QED
  BY <1>2, <1>12

\* The implementation behind the service's proxy is built with addresses that hold the
\* contracts meant, and those know the proxies that exist, whatever mixture of failed,
\* repeated, skipping, reusing and upgrading runs deployed them, for any releases,
\* salts and number of runs.
THEOREM ServiceStaysWired ==
    ASSUME Defaults
    PROVE  Spec => []LiveIsWired
<1>1. WiredInv => LiveIsWired
  BY WiredService
<1> QED
  BY <1>1, WiredHolds, PTL
-----------------------------------------------------------------------------
(* The contracts of a release.                                             *)

LEMMA OwnAre ==
    /\ OwnContracts \subseteq Fields \ Proxies
    /\ OwnContracts \subseteq Helpers \cup {"implementation"}
    /\ OwnContracts \cap Reusable = {}
    /\ "implementation" \in OwnContracts /\ "factoryImplementation" \in OwnContracts
BY FieldsAre DEF OwnContracts, Reusable, Helpers, Proxies

LEMMA ReleaseInit == Init => ReleaseInv
BY DEF Init, ReleaseInv, RunReleases, SkipReleases, MadeRelease, Returned, WholeReleases,
       UpgradeOk, Deploying

\* Loading the configuration notes the contracts of other releases.
LEMMA LoadReleases == ASSUME Typed, WiredInv, ReleaseInv, Start PROVE ReleaseInv'
<1>1. PICK o \in Options :
          /\ opt' = o /\ pc' = IF o.upgrade THEN "upgradeIts" ELSE "predict"
          /\ mixed' = (mixed \/ (o.skipExisting /\ \E k \in Fields \ Proxies :
                                     file[k] # None /\ At(file[k]).release # o.release))
  BY DEF Start
<1>2. mem' = file /\ UNCHANGED <<file, whole, code, points>>
  BY DEF Start, chainVars
<1>3. RunReleases' /\ MadeRelease'
  BY <1>1 DEF RunReleases, MadeRelease, Returned, Deploying
<1>4. SkipReleases'
  <2> SUFFICES ASSUME o.skipExisting, ~ mixed', NEW k \in OwnContracts, file[k] # None
               PROVE  Of(code, file[k], k, o.release)
    BY <1>1, <1>2 DEF SkipReleases
  <2>1. k \in Fields \ Proxies
    BY OwnAre
  <2>2. PICK c \in code : c.addr = file[k] /\ c.kind = k
    BY <2>1 DEF WiredInv, EntriesOk, EntryOk, Is
  <2>3. At(file[k]) = c
    BY <2>2, AtIs DEF WiredInv
  <2>4. c.release = o.release
    BY <1>1, <2>1, <2>3
  <2> QED
    BY <2>2, <2>4 DEF Of
<1>5. WholeReleases'
  BY <1>2 DEF ReleaseInv, WholeReleases
<1>6. UpgradeOk'
  BY <1>1, <1>2 DEF UpgradeOk
<1> QED
  BY <1>3, <1>4, <1>5, <1>6 DEF ReleaseInv

\* Steps of a run that keep its entries, save the proxies', and where it is.
LEMMA MoveReleases ==
    ASSUME Typed, ReleaseInv,
           Predict \/ Proceed \/ Decline \/ SwitchFails \/ Throw \/ Shrink
             \/ \E k \in Fields : Enlarge(k)
    PROVE  ReleaseInv'
<1>1. /\ UNCHANGED <<file, opt, key, made, mixed, whole, code, points>>
      /\ pc # "idle" /\ pc' \in {"prompt", "stopped", "next", "deployed", "enlarged"}
  BY DEF Predict, Proceed, Decline, SwitchFails, Throw, Shrink, Enlarge, chainVars, histVars
<1>2. \A k \in Fields \ Proxies : mem'[k] = mem[k]
  BY DEF Predict, Proceed, Decline, SwitchFails, Throw, Shrink, Enlarge
<1>3. RunReleases'
  <2>1. CASE pc = "prompt"
    <3>1. key = 1
      BY <2>1 DEF Typed
    <3>2. \A i \in 1 .. 9 : ~ Past(i)'
      BY <1>1, <3>1 DEF Past
    <3> QED
      BY <3>2 DEF RunReleases
  <2>2. CASE pc # "prompt"
    <3>1. pc' \in Deploying => pc \in Deploying
      BY <2>2 DEF Predict, Proceed, Decline, SwitchFails, Throw, Shrink, Enlarge, Deploying
    <3>2. \A i \in 1 .. 9 : Past(i)' => Past(i)
      BY <1>1 DEF Past
    <3>3. \A i \in 1 .. 9 : Keys[i] \in OwnContracts => mem'[Keys[i]] = mem[Keys[i]]
      BY <1>2, OwnAre
    <3> QED
      BY <1>1, <3>1, <3>2, <3>3 DEF ReleaseInv, RunReleases
  <2> QED
    BY <2>1, <2>2
<1>4. SkipReleases'
  BY <1>1, <1>2, OwnAre DEF ReleaseInv, SkipReleases
<1>5. MadeRelease'
  <2>1. Returned' => Returned
    BY DEF Predict, Proceed, Decline, SwitchFails, Throw, Shrink, Enlarge, Returned
  <2> QED
    BY <1>1, <2>1 DEF ReleaseInv, MadeRelease
<1>6. WholeReleases'
  BY <1>1 DEF ReleaseInv, WholeReleases
<1>7. UpgradeOk'
  <2>1. CASE Predict
    BY <1>1, <2>1 DEF Predict, Typed, UpgradeOk
  <2>2. CASE ~ Predict
    <3>1. mem' = mem
      BY <2>2 DEF Proceed, Decline, SwitchFails, Throw, Shrink, Enlarge
    <3> QED
      BY <1>1, <3>1 DEF ReleaseInv, UpgradeOk
  <2> QED
    BY <2>1, <2>2
<1> QED
  BY <1>3, <1>4, <1>5, <1>6, <1>7 DEF ReleaseInv

\* What is skipped is of the release, and what is reused is of none.
LEMMA PassReleases == ASSUME Typed, ReleaseInv, Pass \/ Confirm PROVE ReleaseInv'
<1>1. /\ UNCHANGED <<file, mem, opt, mixed, whole, code, points>>
      /\ pc \in {"next", "recorded"} /\ pc' \in {"complete", "next"} /\ key' = key + 1
  BY DEF Pass, Confirm, GoOn, chainVars, histVars
<1>2. key \in 1 .. 9 /\ ~ opt.upgrade
  BY <1>1, KeysAre DEF Typed, TypeOK, Deploying
<1>3. RunReleases'
  <2> SUFFICES ASSUME ~ opt.skipExisting \/ ~ mixed, NEW i \in 1 .. 9, Past(i)',
                      Keys[i] \in OwnContracts
               PROVE  Of(code, mem[Keys[i]], Keys[i], opt.release)
    BY <1>1 DEF RunReleases
  <2>1. i < key \/ i = key
    BY <1>1, <1>2 DEF Past
  <2>2. CASE Past(i)
    BY <1>1, <1>2, <2>2 DEF ReleaseInv, RunReleases, Deploying
  <2>3. CASE ~ Past(i)
    <3>1. i = key /\ Pass
      BY <2>1, <2>3 DEF Past, Confirm
    <3>2. Skipped(Keys[i])
      BY <3>1, OwnAre DEF Pass, Reused
    <3> QED
      BY <1>1, <1>2, <3>2 DEF ReleaseInv, SkipReleases, Skipped
  <2> QED
    BY <2>2, <2>3
<1>4. SkipReleases' /\ MadeRelease' /\ WholeReleases'
  BY <1>1 DEF ReleaseInv, SkipReleases, MadeRelease, Returned, WholeReleases
<1>5. UpgradeOk'
  BY <1>1, <1>2 DEF UpgradeOk
<1> QED
  BY <1>3, <1>4, <1>5 DEF ReleaseInv

\* What deployContract returns is of the release, found or created.
LEMMA DeployReleases ==
    ASSUME Defaults, SaltPerRelease, Typed, WiredInv, ReleaseInv, NEW k \in Fields,
           FindExisting(k) \/ Deploy(k) \/ DeployFails(k)
    PROVE  ReleaseInv'
<1>1. /\ UNCHANGED <<file, mem, opt, key, mixed, whole>> /\ k = Keys[key]
      /\ pc \in {"next", "enlarged"} /\ pc' \in {"shrink", "deployed", "stopped"}
  BY DEF FindExisting, Deploy, DeployFails, Ready, AfterDeploy, Due, histVars
<1>2. ~ opt.upgrade /\ opt \in Options /\ opt.release \in Releases
  BY <1>1, ItsConstants DEF Typed, Deploying
<1>3. code \subseteq code'
  BY DEF FindExisting, Deploy, DeployFails, Created, chainVars
<1>4. \A a, l, r : Of(code, a, l, r) => Of(code', a, l, r)
  BY <1>3 DEF Of
<1>5. RunReleases'
  <2>1. \A i \in 1 .. 9 : Past(i)' => Past(i)
    BY <1>1 DEF Past
  <2> QED
    BY <1>1, <1>4, <2>1 DEF ReleaseInv, RunReleases, Deploying
<1>6. SkipReleases'
  BY <1>1, <1>4 DEF ReleaseInv, SkipReleases
<1>7. MadeRelease'
  <2> SUFFICES ASSUME Returned', k \in OwnContracts
               PROVE  Of(code', made', k, opt.release)
    BY <1>1 DEF MadeRelease
  <2>1. CASE FindExisting(k)
    <3>1. made' = Target(k) /\ code' = code /\ Deployed(Target(k))
      BY <2>1 DEF FindExisting, chainVars
    <3>2. PICK c \in code : /\ c.addr = Target(k) /\ c.kind = k
                            /\ k \in Helpers => c.release = opt.release
                            /\ k = "implementation" => SaltOf[c.release] = SaltOf[opt.release]
      BY <3>1, FindWired
    <3>3. c.release \in Releases
      BY DEF WiredInv, CodeOk
    <3>4. c.release = opt.release
      BY <1>2, <3>2, <3>3, OwnAre DEF SaltPerRelease
    <3> QED
      BY <3>1, <3>2, <3>4 DEF Of
  <2>2. CASE Deploy(k)
    <3> DEFINE new == [addr |-> Target(k), kind |-> k, release |-> opt.release, args |-> Args(k)]
    <3>1. made' = Target(k) /\ new \in code'
      BY <2>2 DEF Deploy, Created
    <3>2. new.addr = Target(k) /\ new.kind = k /\ new.release = opt.release
      OBVIOUS
    <3> HIDE DEF new
    <3> QED
      BY <3>1, <3>2 DEF Of
  <2>3. CASE DeployFails(k)
    BY <2>3 DEF DeployFails, Returned
  <2> QED
    BY <2>1, <2>2, <2>3
<1>8. WholeReleases'
  BY <1>1, <1>4 DEF ReleaseInv, WholeReleases
<1>9. UpgradeOk'
  BY <1>1, <1>2 DEF UpgradeOk
<1> QED
  BY <1>5, <1>6, <1>7, <1>8, <1>9 DEF ReleaseInv

LEMMA RecordReleases ==
    ASSUME Typed, ReleaseInv, NEW k \in Fields, Record(k)
    PROVE  ReleaseInv'
<1>1. /\ pc = "deployed" /\ pc' = "recorded" /\ k = Keys[key]
      /\ UNCHANGED <<file, opt, key, mixed, whole, code, points>>
  BY DEF Record, chainVars, histVars
<1>2. \A l \in Fields : mem'[l] = IF l = k THEN made ELSE mem[l]
  BY DEF Record, Typed, TypeOK
<1>3. k \in OwnContracts => Of(code, made, k, opt.release)
  BY <1>1 DEF ReleaseInv, MadeRelease, Returned
<1>4. ~ opt.upgrade
  BY <1>1 DEF Typed, Deploying
<1>5. RunReleases'
  <2> SUFFICES ASSUME ~ opt.skipExisting \/ ~ mixed, NEW i \in 1 .. 9, Past(i)',
                      Keys[i] \in OwnContracts
               PROVE  Of(code, mem'[Keys[i]], Keys[i], opt.release)
    BY <1>1 DEF RunReleases
  <2>1. CASE Keys[i] = k
    BY <1>2, <1>3, <2>1
  <2>2. CASE Keys[i] # k
    <3>1. Past(i)
      BY <1>1, <2>2 DEF Past
    <3>2. Of(code, mem[Keys[i]], Keys[i], opt.release)
      BY <1>1, <1>4, <3>1 DEF ReleaseInv, RunReleases, Deploying
    <3> QED
      BY <1>2, <2>2, <3>2, OwnAre
  <2> QED
    BY <2>1, <2>2
<1>6. SkipReleases'
  <2> SUFFICES ASSUME opt.skipExisting, ~ mixed, NEW l \in OwnContracts
               PROVE  mem'[l] = None \/ Of(code, mem'[l], l, opt.release)
    BY <1>1 DEF SkipReleases
  <2>1. mem[l] = None \/ Of(code, mem[l], l, opt.release)
    BY <1>1, <1>4 DEF ReleaseInv, SkipReleases
  <2> QED
    BY <1>2, <1>3, <2>1, OwnAre
<1>7. MadeRelease'
  BY <1>1 DEF MadeRelease, Returned
<1>8. WholeReleases'
  BY <1>1 DEF ReleaseInv, WholeReleases
<1>9. UpgradeOk'
  BY <1>1, <1>4 DEF UpgradeOk
<1> QED
  BY <1>5, <1>6, <1>7, <1>8, <1>9 DEF ReleaseInv

LEMMA UpgradeReleases ==
    ASSUME Typed, ReleaseInv, UpgradeIts \/ UpgradeFactory
    PROVE  ReleaseInv'
<1>1. /\ UNCHANGED <<file, mem, opt, key, made, mixed, whole, code>>
      /\ pc \in {"upgradeIts", "upgradeFactory"} /\ pc' \in {"upgradeFactory", "complete"}
  BY DEF UpgradeIts, UpgradeFactory, Upgrade, histVars
<1>2. opt.upgrade
  BY <1>1 DEF Typed
<1>3. RunReleases' /\ SkipReleases' /\ MadeRelease' /\ WholeReleases'
  BY <1>1, <1>2 DEF ReleaseInv, RunReleases, SkipReleases, MadeRelease, Returned, WholeReleases
<1>4. mem = file
  BY <1>1, <1>2 DEF ReleaseInv, UpgradeOk
<1>5. CASE UpgradeIts
  <2>1. /\ points'["address"] = mem["implementation"] /\ Deployed(mem["implementation"])
        /\ pc' = "upgradeFactory"
    BY <1>5 DEF UpgradeIts, Upgrade, Typed, TypeOK, Proxies
  <2>2. UpgradeOk'
    BY <1>1, <1>4, <2>1 DEF UpgradeOk, Deployed
  <2> QED
    BY <1>3, <2>2 DEF ReleaseInv
<1>6. CASE UpgradeFactory
  <2>1. /\ points'["factoryAddress"] = mem["factoryImplementation"]
        /\ Deployed(mem["factoryImplementation"])
        /\ points'["address"] = points["address"]
    BY <1>6 DEF UpgradeFactory, Upgrade, Typed, TypeOK, Proxies
  <2>2. points["address"] = mem["implementation"] /\ Deployed(mem["implementation"])
    BY <1>2, <1>6 DEF UpgradeFactory, ReleaseInv, UpgradeOk
  <2>3. UpgradeOk'
    BY <1>1, <1>4, <2>1, <2>2 DEF UpgradeOk, Deployed
  <2> QED
    BY <1>3, <2>3 DEF ReleaseInv
<1> QED
  BY <1>5, <1>6

\* A deployment that completed has the contracts of its release.
LEMMA SaveReleases == ASSUME Typed, ReleaseInv, Finish \/ Crash PROVE ReleaseInv'
<1>1. pc' = "idle" /\ code' = code /\ pc # "idle"
  BY DEF Finish, Crash, Exit
<1>2. RunReleases' /\ SkipReleases' /\ MadeRelease' /\ UpgradeOk'
  BY <1>1 DEF RunReleases, SkipReleases, MadeRelease, Returned, UpgradeOk, Deploying
<1>3. WholeReleases'
  <2>1. CASE Crash
    BY <1>1, <2>1 DEF Crash, ReleaseInv, WholeReleases
  <2>2. CASE Finish /\ pc = "complete" /\ ~ opt.upgrade
    <3>1. file' = mem /\ whole' = ~ opt.skipExisting
      BY <2>2 DEF Finish
    <3>2. key = 10 /\ opt.release \in Releases
      BY <2>2, KeysAre, ItsConstants DEF Typed
    <3>3. \A i \in 1 .. 9 : Past(i)
      BY <3>2 DEF Past
    <3> SUFFICES ASSUME ~ opt.skipExisting
                 PROVE  \A k \in OwnContracts : Of(code, mem[k], k, opt.release)
      BY <1>1, <3>1, <3>2 DEF WholeReleases
    <3>4. \A i \in 1 .. 9 : Keys[i] \in OwnContracts => Of(code, mem[Keys[i]], Keys[i], opt.release)
      BY <2>2, <3>3 DEF ReleaseInv, RunReleases
    <3> QED
      BY <3>4, FieldsAre, OwnAre
  <2>3. CASE Finish /\ ~ (pc = "complete" /\ ~ opt.upgrade)
    <3>1. file' = mem /\ whole' = (whole /\ mem = file)
      BY <2>3 DEF Finish
    <3> QED
      BY <1>1, <3>1 DEF ReleaseInv, WholeReleases
  <2> QED
    BY <2>1, <2>2, <2>3
<1> QED
  BY <1>2, <1>3 DEF ReleaseInv

LEMMA NextReleases ==
    ASSUME Defaults, SaltPerRelease
    PROVE  Typed /\ WiredInv /\ ReleaseInv /\ [Next]_vars => ReleaseInv'
<1> SUFFICES ASSUME Typed, WiredInv, ReleaseInv, [Next]_vars PROVE ReleaseInv'
  OBVIOUS
<1>1. CASE Start
  BY <1>1, LoadReleases
<1>2. CASE \/ Predict \/ Proceed \/ Decline \/ SwitchFails \/ Throw \/ Shrink
           \/ \E k \in Fields : Enlarge(k)
  BY <1>2, MoveReleases
<1>3. CASE Pass \/ Confirm
  BY <1>3, PassReleases
<1>4. CASE \E k \in Fields : FindExisting(k) \/ Deploy(k) \/ DeployFails(k)
  BY <1>4, DeployReleases
<1>5. CASE \E k \in Fields : Record(k)
  BY <1>5, RecordReleases
<1>6. CASE UpgradeIts \/ UpgradeFactory
  BY <1>6, UpgradeReleases
<1>7. CASE Finish \/ Crash
  BY <1>7, SaveReleases
<1>8. CASE UNCHANGED vars
  <2>1. UNCHANGED <<file, mem, opt, pc, key, made, failed, mixed, whole, code, points>>
    BY <1>8 DEF vars, runVars, histVars, chainVars
  <2> QED
    BY <2>1 DEF ReleaseInv, RunReleases, Past, SkipReleases, MadeRelease, Returned,
                WholeReleases, UpgradeOk, Deployed
<1> QED
  BY <1>1, <1>2, <1>3, <1>4, <1>5, <1>6, <1>7, <1>8 DEF Next

THEOREM ReleasesHold ==
    ASSUME Defaults, SaltPerRelease
    PROVE  Spec => []ReleaseInv
<1>1. Typed /\ WiredInv /\ ReleaseInv /\ [Next]_vars => ReleaseInv'
  BY NextReleases
<1> QED
  BY <1>1, ReleaseInit, TypedHolds, WiredHolds, PTL DEF Spec

\* An upgrade that completes after a full deployment leaves the service and the factory
\* on one release, also when an earlier upgrade stopped between the two proxies, for any
\* releases with salts of their own.
THEOREM UpgradeStaysInStep ==
    ASSUME Defaults, SaltPerRelease
    PROVE  Spec => []UpgradeInStep
<1>1. WiredInv /\ ReleaseInv => UpgradeInStep
  <2> SUFFICES ASSUME WiredInv, ReleaseInv, pc = "complete", opt.upgrade, whole
               PROVE  /\ \A k \in Proxies : points[k] # None
                      /\ Live("address").release = Live("factoryAddress").release
    BY DEF UpgradeInStep
  <2>1. /\ mem = file
        /\ points["address"] = file["implementation"] /\ Deployed(file["implementation"])
        /\ points["factoryAddress"] = file["factoryImplementation"]
        /\ Deployed(file["factoryImplementation"])
    BY DEF ReleaseInv, UpgradeOk
  <2>2. PICK r \in Releases : \A k \in OwnContracts : Of(code, file[k], k, r)
    BY DEF ReleaseInv, WholeReleases
  <2>3. PICK s \in code : s.addr = file["implementation"] /\ s.release = r
    BY <2>2, OwnAre DEF Of
  <2>4. PICK f \in code : f.addr = file["factoryImplementation"] /\ f.release = r
    BY <2>2, OwnAre DEF Of
  <2>5. Live("address") = s /\ Live("factoryAddress") = f
    BY <2>1, <2>3, <2>4, AtIs DEF Live, WiredInv
  <2>6. s.addr # None /\ f.addr # None
    BY SomewhereIs DEF WiredInv, CodeOk
  <2> QED
    BY <2>1, <2>3, <2>4, <2>5, <2>6 DEF Proxies
<1> QED
  BY <1>1, WiredHolds, ReleasesHold, PTL
-----------------------------------------------------------------------------
(* One token for all, and services built from the recorded contracts.      *)

LEMMA FirstIs ==
    ASSUME OneFirstRelease
    PROVE  /\ First \in Releases
           /\ \A o \in Options : ~ o.upgrade /\ ~ o.reuseProxy => o.release = First
BY DEF OneFirstRelease, First

\* The arguments of a service, from contracts of its release.
LEMMA ServiceArgsAre ==
    ASSUME CodeOk(code), DeployersOk, NEW m, NEW r,
           \A k \in {"tokenManagerDeployer", "interchainTokenDeployer", "tokenManager",
                     "tokenHandler"} : Of(code, m[k], k, r)
    PROVE  <<m["tokenManagerDeployer"], m["interchainTokenDeployer"], Place("factoryAddress"),
             m["tokenManager"], m["tokenHandler"]>> = ServiceArgs(r)
<1>1. ASSUME NEW k, Of(code, m[k], k, r)
      PROVE  \E c \in code : c.kind = k /\ BuiltRight(code, k, c.args) /\ m[k] = Addr(k, r, c.args)
  BY <1>1 DEF Of, CodeOk
<1>2. m["tokenManagerDeployer"] = Addr("tokenManagerDeployer", r, << >>)
  BY <1>1 DEF BuiltRight
<1>3. m["interchainTokenDeployer"] = Addr("interchainTokenDeployer", r, <<Token>>)
  BY <1>1 DEF DeployersOk
<1>4. m["tokenManager"] = Addr("tokenManager", r, <<Place("address")>>)
  BY <1>1 DEF BuiltRight
<1>5. m["tokenHandler"] = Addr("tokenHandler", r, << >>)
  BY <1>1 DEF BuiltRight
<1> QED
  BY <1>2, <1>3, <1>4, <1>5 DEF ServiceArgs

LEMMA TokenInit == Init => TokenInv
<1> SUFFICES ASSUME Init PROVE TokenInv
  OBVIOUS
<1>1. /\ file = Nothing /\ mem = Nothing /\ code = {} /\ pc = "idle" /\ whole = FALSE
  BY DEF Init
<1>2. "interchainToken" \in Fields
  BY FieldsAre DEF Helpers
<1>3. Nothing["interchainToken"] = None
  BY <1>2 DEF Nothing
<1> QED
  BY <1>1, <1>3 DEF TokenInv, TokenKnown, TokenMade, Returned, TokenThere, DeployersOk,
                    ServicesOk, WholeEntries

LEMMA LoadToken == ASSUME Typed, TokenInv, Start PROVE TokenInv'
<1>1. /\ mem' = file /\ UNCHANGED <<file, whole, code, key>> /\ pc = "idle"
      /\ pc' \in {"upgradeIts", "predict"} /\ (mixed => mixed')
  BY DEF Start, chainVars, Typed, TypeOK
<1>2. key = 1
  BY <1>1 DEF Typed
<1> QED
  BY <1>1, <1>2 DEF TokenInv, TokenKnown, TokenMade, Returned, TokenThere, DeployersOk,
                    ServicesOk, WholeEntries

\* Steps that keep the contracts, the token's entry, and where the run is.
LEMMA MoveToken ==
    ASSUME Typed, TokenInv,
           \/ Predict \/ Proceed \/ Decline \/ SwitchFails \/ Throw \/ Shrink
           \/ UpgradeIts \/ UpgradeFactory \/ \E k \in Fields : Enlarge(k)
    PROVE  TokenInv'
<1>1. /\ UNCHANGED <<file, opt, key, made, mixed, whole, code>> /\ pc # "idle"
      /\ pc' # "recorded"
  BY DEF Predict, Proceed, Decline, SwitchFails, Throw, Shrink, Enlarge, UpgradeIts,
         UpgradeFactory, Upgrade, chainVars, histVars
<1>2. mem'["interchainToken"] = mem["interchainToken"]
  <2>1. "interchainToken" \in Fields \ Proxies
    BY FieldsAre DEF Helpers, Proxies
  <2> QED
    BY <2>1 DEF Predict, Proceed, Decline, SwitchFails, Throw, Shrink, Enlarge, UpgradeIts,
                UpgradeFactory, Upgrade
<1>3. Returned' => Returned
  BY DEF Predict, Proceed, Decline, SwitchFails, Throw, Shrink, Enlarge, UpgradeIts,
         UpgradeFactory, Upgrade, Returned
<1>4. TokenKnown' /\ TokenMade'
  BY <1>1, <1>2, <1>3 DEF TokenInv, TokenKnown, TokenMade
<1>5. TokenThere'
  BY <1>1, <1>2, <1>3 DEF TokenInv, TokenThere
<1> QED
  BY <1>1, <1>4, <1>5 DEF TokenInv, DeployersOk, ServicesOk, WholeEntries

\* The deployer of tokens is never reused, and skipped only by --skipExisting.
LEMMA PassToken == ASSUME Typed, TokenInv, Pass \/ Confirm PROVE TokenInv'
<1>1. /\ UNCHANGED <<file, mem, opt, mixed, whole, code>>
      /\ pc \in {"next", "recorded"} /\ pc' \in {"complete", "next"} /\ key' = key + 1
  BY DEF Pass, Confirm, GoOn, chainVars, histVars
<1>2. key \in 1 .. 9
  BY <1>1, KeysAre DEF Typed, TypeOK, Deploying
<1>3. TokenThere'
  <2> SUFFICES ASSUME ~ opt.upgrade, ~ opt.skipExisting, key + 1 > 3
               PROVE  mem["interchainToken"] = Token
    BY <1>1 DEF TokenThere, Returned
  <2>1. CASE key = 3 /\ Pass
    <3>1. Skipped("interchainTokenDeployer") \/ Reused("interchainTokenDeployer")
      BY <2>1, KeysAre DEF Pass
    <3> QED
      BY <3>1 DEF Skipped, Reused, Reusable, Proxies
  <2>2. CASE key > 3 \/ Confirm
    <3>1. key > 3 \/ (key = 3 /\ pc = "recorded")
      BY <1>2, <2>2 DEF Confirm
    <3> QED
      BY <1>1, <3>1 DEF TokenInv, TokenThere
  <2> QED
    BY <1>2, <2>1, <2>2
<1> QED
  BY <1>1, <1>3 DEF TokenInv, TokenKnown, TokenMade, Returned, DeployersOk, ServicesOk,
                    WholeEntries

\* The services and the deployers of tokens that Created adds.
LEMMA CreatedToken ==
    ASSUME OneFirstRelease, Defaults, Typed, WiredInv, RunReleases, TokenInv,
           pc \in {"next", "enlarged"}, NEW k \in Fields, Due(k), Created(k)
    PROVE  /\ k = "interchainTokenDeployer" => Args(k) = <<Token>>
           /\ k = "implementation" /\ ~ mixed => Args(k) = ServiceArgs(opt.release)
<1>1. key \in 1 .. 9 /\ k = Keys[key] /\ ~ opt.upgrade
  BY KeysAre DEF Typed, TypeOK, Deploying, Due
<1>2. ASSUME k = "interchainTokenDeployer" PROVE Args(k) = <<Token>>
  <2>1. Args(k) = <<mem["interchainToken"]>>
    BY <1>2 DEF Args
  <2>2. mem["interchainToken"] # None
    BY <2>1 DEF Created, ToSet
  <2> QED
    BY <2>1, <2>2 DEF TokenInv, TokenKnown
<1>3. ASSUME k = "implementation", ~ mixed PROVE Args(k) = ServiceArgs(opt.release)
  <2>1. key = 6
    <3>1. key = 1 \/ key = 2 \/ key = 3 \/ key = 4 \/ key = 5 \/ key = 6 \/ key = 7 \/ key = 8 \/ key = 9
      BY <1>1
    <3> QED
      BY <1>1, <1>3, <3>1, KeysAre
  <2>2. /\ Of(code, mem["tokenManagerDeployer"], "tokenManagerDeployer", opt.release)
        /\ Of(code, mem["interchainTokenDeployer"], "interchainTokenDeployer", opt.release)
        /\ Of(code, mem["tokenManager"], "tokenManager", opt.release)
        /\ Of(code, mem["tokenHandler"], "tokenHandler", opt.release)
    <3>1. \A i \in {1, 3, 4, 5} : i \in 1 .. 9 /\ Past(i)
      BY <2>1 DEF Past
    <3>2. \A i \in {1, 3, 4, 5} : Keys[i] \in OwnContracts => Of(code, mem[Keys[i]], Keys[i], opt.release)
      BY <1>1, <1>3, <3>1 DEF RunReleases, Deploying
    <3>3. {"tokenManagerDeployer", "interchainTokenDeployer", "tokenManager", "tokenHandler"}
              \subseteq OwnContracts
      BY FieldsAre DEF OwnContracts, Helpers, Proxies
    <3> QED
      BY <3>2, <3>3, KeysAre
  <2>3. Args(k) = <<mem["tokenManagerDeployer"], mem["interchainTokenDeployer"],
                    Place("factoryAddress"), mem["tokenManager"], mem["tokenHandler"]>>
    <3>1. planned["factoryAddress"] = Place("factoryAddress")
      BY <1>1 DEF WiredInv, PlanOk, Deploying, Proxies
    <3> QED
      BY <1>3, <3>1 DEF Args
  <2> QED
    BY <2>2, <2>3, ServiceArgsAre DEF WiredInv, TokenInv
<1> QED
  BY <1>2, <1>3

LEMMA DeployToken ==
    ASSUME OneFirstRelease, Defaults, Typed, WiredInv, RunReleases, TokenInv,
           NEW k \in Fields, FindExisting(k) \/ Deploy(k) \/ DeployFails(k)
    PROVE  TokenInv'
<1>1. /\ UNCHANGED <<file, mem, opt, key, mixed, whole>> /\ k = Keys[key] /\ Due(k)
      /\ pc \in {"next", "enlarged"} /\ pc' \in {"shrink", "deployed", "stopped"}
  BY DEF FindExisting, Deploy, DeployFails, Ready, AfterDeploy, Due, histVars
<1>2. key \in 1 .. 9 /\ ~ opt.upgrade /\ opt \in Options
  BY <1>1, KeysAre DEF Typed, TypeOK, Deploying
<1>3. TokenMade'
  <2> SUFFICES ASSUME Returned', k = "interchainToken" PROVE made' = Token
    BY <1>1 DEF TokenMade
  <2>1. opt.release = First
    BY <1>1, <1>2, FirstIs DEF Due, Reused, Reusable
  <2>2. Args(k) = <<Place("address")>>
    <3>1. planned["address"] = Place("address")
      BY <1>1, <1>2 DEF WiredInv, PlanOk, Deploying, Proxies
    <3> QED
      BY <3>1 DEF Args
  <2>3. Target(k) = Token
    BY <2>1, <2>2, AddressIs DEF Target, Token
  <2> QED
    BY <2>3 DEF FindExisting, Deploy, DeployFails, Returned
<1>4. TokenThere'
  <2> SUFFICES ASSUME ~ opt.skipExisting, key > 3 \/ (key = 3 /\ Returned')
               PROVE  mem["interchainToken"] = Token
    BY <1>1 DEF TokenThere
  <2>1. CASE key > 3
    BY <1>1, <1>2, <2>1 DEF TokenInv, TokenThere
  <2>2. CASE key = 3 /\ Returned'
    <3>1. k = "interchainTokenDeployer"
      BY <1>1, <2>2, KeysAre
    <3>2. Args(k) = <<mem["interchainToken"]>>
      BY <3>1 DEF Args
    <3>3. CASE FindExisting(k)
      <4>1. PICK c \in code : c.kind = k /\ (k \in Helpers => c.args = Args(k))
        BY <3>3, FindWired DEF FindExisting
      <4>2. c.args = Args(k) /\ c.args = <<Token>>
        BY <3>1, <4>1 DEF Helpers, TokenInv, DeployersOk
      <4> QED
        BY <3>2, <4>2
    <3>4. CASE Deploy(k)
      <4>1. Args(k) = <<Token>>
        BY <1>1, <3>1, <3>4, CreatedToken DEF Deploy
      <4> QED
        BY <3>2, <4>1
    <3>5. CASE DeployFails(k)
      BY <2>2, <3>5 DEF DeployFails, Returned
    <3> QED
      BY <3>3, <3>4, <3>5
  <2> QED
    BY <2>1, <2>2
<1>5. DeployersOk' /\ ServicesOk'
  <2>1. CASE code' = code
    BY <1>1, <2>1 DEF TokenInv, DeployersOk, ServicesOk
  <2>2. CASE Created(k)
    <3> DEFINE new == [addr |-> Target(k), kind |-> k, release |-> opt.release, args |-> Args(k)]
    <3>1. code' = code \cup {new}
      BY <2>2 DEF Created
    <3>2. new.kind = k /\ new.release = opt.release /\ new.args = Args(k)
      OBVIOUS
    <3>3. /\ k = "interchainTokenDeployer" => Args(k) = <<Token>>
          /\ k = "implementation" /\ ~ mixed => Args(k) = ServiceArgs(opt.release)
      BY <1>1, <2>2, CreatedToken
    <3> HIDE DEF new
    <3>4. DeployersOk'
      BY <3>1, <3>2, <3>3 DEF TokenInv, DeployersOk
    <3>5. ServicesOk'
      BY <1>1, <3>1, <3>2, <3>3 DEF TokenInv, ServicesOk
    <3> QED
      BY <3>4, <3>5
  <2> QED
    BY <2>1, <2>2 DEF FindExisting, Deploy, DeployFails, chainVars
<1> QED
  BY <1>1, <1>3, <1>4, <1>5 DEF TokenInv, TokenKnown, WholeEntries

LEMMA RecordToken == ASSUME Typed, TokenInv, NEW k \in Fields, Record(k) PROVE TokenInv'
<1>1. /\ pc = "deployed" /\ pc' = "recorded" /\ k = Keys[key]
      /\ UNCHANGED <<file, opt, key, mixed, whole, code>>
  BY DEF Record, chainVars, histVars
<1>2. mem'["interchainToken"] = IF k = "interchainToken" THEN made ELSE mem["interchainToken"]
  <2>1. "interchainToken" \in Fields
    BY FieldsAre DEF Helpers
  <2> QED
    BY <2>1 DEF Record, Typed, TypeOK
<1>3. k = "interchainToken" => made = Token
  BY <1>1 DEF TokenInv, TokenMade, Returned
<1>4. TokenKnown'
  BY <1>1, <1>2, <1>3 DEF TokenInv, TokenKnown
<1>5. TokenThere'
  BY <1>1, <1>2, <1>3 DEF TokenInv, TokenThere, Returned
<1> QED
  BY <1>1, <1>4, <1>5 DEF TokenInv, TokenMade, Returned, DeployersOk, ServicesOk, WholeEntries

LEMMA SaveToken == ASSUME Typed, WiredInv, TokenInv, Finish \/ Crash PROVE TokenInv'
<1>1. pc' = "idle" /\ mem' = Nothing /\ UNCHANGED <<code, mixed>> /\ file' \in {file, mem}
  BY DEF Finish, Crash, Exit
<1>2. TokenKnown'
  <2>1. "interchainToken" \in Fields
    BY FieldsAre DEF Helpers
  <2>2. Nothing["interchainToken"] = None
    BY <2>1 DEF Nothing
  <2> QED
    BY <1>1, <2>2 DEF TokenInv, TokenKnown
<1>3. WholeEntries'
  <2>1. CASE Crash
    BY <2>1 DEF Crash, TokenInv, WholeEntries
  <2>2. CASE Finish /\ pc = "complete" /\ ~ opt.upgrade
    <3>1. file' = mem /\ whole' = ~ opt.skipExisting
      BY <2>2 DEF Finish
    <3>2. key = 10
      BY <2>2, KeysAre DEF Typed
    <3>3. ~ opt.skipExisting => mem["interchainToken"] = Token
      BY <2>2, <3>2 DEF TokenInv, TokenThere
    <3>4. \A k \in Proxies : mem[k] = Place(k)
      BY <2>2 DEF WiredInv, PlanOk
    <3> QED
      BY <3>1, <3>3, <3>4 DEF WholeEntries
  <2>3. CASE Finish /\ ~ (pc = "complete" /\ ~ opt.upgrade)
    <3>1. file' = mem /\ whole' = (whole /\ mem = file)
      BY <2>3 DEF Finish
    <3> QED
      BY <3>1 DEF TokenInv, WholeEntries
  <2> QED
    BY <2>1, <2>2, <2>3
<1> QED
  BY <1>1, <1>2, <1>3 DEF TokenInv, TokenMade, Returned, TokenThere, DeployersOk, ServicesOk

LEMMA NextToken ==
    ASSUME Defaults, OneFirstRelease
    PROVE  Typed /\ WiredInv /\ ReleaseInv /\ TokenInv /\ [Next]_vars => TokenInv'
<1> SUFFICES ASSUME Typed, WiredInv, RunReleases, TokenInv, [Next]_vars PROVE TokenInv'
  BY DEF ReleaseInv
<1>1. CASE Start
  BY <1>1, LoadToken
<1>2. CASE \/ Predict \/ Proceed \/ Decline \/ SwitchFails \/ Throw \/ Shrink
           \/ UpgradeIts \/ UpgradeFactory \/ \E k \in Fields : Enlarge(k)
  BY <1>2, MoveToken
<1>3. CASE Pass \/ Confirm
  BY <1>3, PassToken
<1>4. CASE \E k \in Fields : FindExisting(k) \/ Deploy(k) \/ DeployFails(k)
  BY <1>4, DeployToken
<1>5. CASE \E k \in Fields : Record(k)
  BY <1>5, RecordToken
<1>6. CASE Finish \/ Crash
  BY <1>6, SaveToken
<1>7. CASE UNCHANGED vars
  <2>1. UNCHANGED <<file, mem, opt, pc, key, made, failed, mixed, whole, code>>
    BY <1>7 DEF vars, runVars, histVars, chainVars
  <2> QED
    BY <2>1 DEF TokenInv, TokenKnown, TokenMade, Returned, TokenThere, DeployersOk, ServicesOk,
                WholeEntries
<1> QED
  BY <1>1, <1>2, <1>3, <1>4, <1>5, <1>6, <1>7 DEF Next

THEOREM TokenHolds ==
    ASSUME Defaults, SaltPerRelease, OneFirstRelease
    PROVE  Spec => []TokenInv
<1>1. Typed /\ WiredInv /\ ReleaseInv /\ TokenInv /\ [Next]_vars => TokenInv'
  BY NextToken
<1> QED
  BY <1>1, TokenInit, TypedHolds, WiredHolds, ReleasesHold, PTL DEF Spec

\* After a full deployment that did not fail, the recorded implementation is built from the
\* very contracts recorded next to it, and the factory's implementation serves the recorded
\* proxy, whatever earlier attempts left behind: for any releases with salts of their own,
\* of which one is deployed without --reuseProxy.
THEOREM RecordedStaysWired ==
    ASSUME Defaults, SaltPerRelease, OneFirstRelease
    PROVE  Spec => []RecordedIsWired
<1>1. WiredInv /\ ReleaseInv /\ TokenInv => RecordedIsWired
  <2> SUFFICES ASSUME WiredInv, ReleaseInv, TokenInv, whole, ~ mixed PROVE RecordedIsWired
    BY DEF RecordedIsWired
  <2>1. PICK r \in Releases : \A k \in OwnContracts : Of(code, file[k], k, r)
    BY DEF ReleaseInv, WholeReleases
  <2>2. {"tokenManagerDeployer", "interchainTokenDeployer", "tokenManager", "tokenHandler",
         "implementation", "factoryImplementation"} \subseteq OwnContracts
    BY FieldsAre DEF OwnContracts, Helpers, Proxies
  <2>3. file["interchainToken"] = Token /\ \A k \in Proxies : file[k] = Place(k)
    BY DEF TokenInv, WholeEntries
  <2>4. ASSUME NEW k \in OwnContracts
        PROVE  \E c \in code : /\ At(file[k]) = c /\ c.addr = file[k] /\ c.kind = k
                               /\ c.release = r /\ BuiltRight(code, k, c.args)
    BY <2>1, AtIs DEF Of, WiredInv, CodeOk
  <2>5. PICK s \in code : /\ At(file["implementation"]) = s /\ s.addr = file["implementation"]
                          /\ s.kind = "implementation" /\ s.release = r
    BY <2>2, <2>4
  <2>6. s.args = <<file["tokenManagerDeployer"], file["interchainTokenDeployer"],
                   file["factoryAddress"], file["tokenManager"], file["tokenHandler"]>>
    <3>1. s.args = ServiceArgs(r)
      BY <2>5 DEF TokenInv, ServicesOk
    <3>2. file["factoryAddress"] = Place("factoryAddress")
      BY <2>3 DEF Proxies
    <3>3. \A k \in {"tokenManagerDeployer", "interchainTokenDeployer", "tokenManager",
                    "tokenHandler"} : Of(code, file[k], k, r)
      BY <2>1, <2>2
    <3> QED
      BY <3>1, <3>2, <3>3, ServiceArgsAre DEF WiredInv, TokenInv
  <2>7. At(file["interchainTokenDeployer"]).args = <<file["interchainToken"]>>
    BY <2>2, <2>3, <2>4 DEF TokenInv, DeployersOk
  <2>8. PICK f \in code : /\ At(file["factoryImplementation"]) = f
                          /\ f.addr = file["factoryImplementation"]
                          /\ f.kind = "factoryImplementation"
                          /\ BuiltRight(code, "factoryImplementation", f.args)
    BY <2>2, <2>4
  <2>9. f.args = <<file["address"]>>
    BY <2>3, <2>8 DEF BuiltRight, Proxies
  <2> QED
    BY <2>5, <2>6, <2>7, <2>8, <2>9 DEF RecordedIsWired, Holds, Deployed
<1> QED
  BY <1>1, WiredHolds, ReleasesHold, TokenHolds, PTL
=============================================================================
