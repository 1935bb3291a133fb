------------------------- MODULE GatewayDeploy_proofs -------------------------
(***************************************************************************)
(* Which gateway gets into the configuration: for any options, faults and  *)
(* rotations, one that starts with signers of the prover; and, when the    *)
(* runs of a chain are of one script and the consensus gateway is deployed *)
(* by its default method, one that owns its auth modules.                  *)
(***************************************************************************)
EXTENDS GatewayDeploy, TLAPS

Signers == 1..MaxSets \cup {Debug}
Proxy == [implementation : Nat \ {0}, first : Signers, since : SUBSET (1..MaxSets),
          operator : People \ {Nobody}, governance : People \ {Nobody}]
Entry == [address : Nat, implementation : Nat, auth : Nat, tokenDeployer : BOOLEAN,
          operator : People, initialSet : 0..MaxSets, governance : People]
RunType(opts) == [pc : PCs, opts : {opts}, mem : Entry, auth : Nat, impl : Nat,
                  gateway : Nat, set : Signers \cup {None}]

\* No index goes beyond what is on the chain, and every gateway has seen the set that
\* signs now.
ChainOk ==
    /\ auths \in Seq(Nat) /\ impls \in Seq(Nat) /\ proxies \in Seq(Proxy)
    /\ placed \in [Salts -> [impl : Nat, proxy : Nat]]
    /\ \A i \in DOMAIN auths : auths[i] <= Len(proxies)
    /\ \A i \in DOMAIN impls : impls[i] <= Len(auths)
    /\ \A i \in DOMAIN proxies : /\ proxies[i].implementation <= Len(impls)
                                 /\ prover \in proxies[i].since
    /\ \A s \in Salts : placed[s].impl <= Len(impls) /\ placed[s].proxy <= Len(proxies)

\* The first signers of gateway g signed at some time after it was deployed.
Started(g) == proxies[g].first \in proxies[g].since \cup {Debug}

EntryFits(e) ==
    /\ e.address <= Len(proxies) /\ e.implementation <= Len(impls) /\ e.auth <= Len(auths)

FileOk ==
    /\ file \in Entry /\ EntryFits(file)
    /\ file.address # None => Started(file.address)

\* What a run has in hand at each of its steps.
InHand(r) ==
    /\ r.pc # "idle" => /\ r.opts \in scenario.options
                        /\ r.mem.address = file.address
                        /\ r.mem.implementation = file.implementation
                        /\ r.mem.auth = file.auth
    /\ r.pc \in {"setup", "proxy", "verify", "transfer"} => r.impl # None
    /\ r.pc = "proxy" /\ r.opts.script = "amplifier" =>
          r.set # None /\ ~r.opts.reuseProxy
    /\ r.pc = "upgrade" => r.mem.address # None /\ r.mem.implementation # None
    /\ r.pc \notin {"idle", "check", "upgrade"} /\ r.opts.reuseProxy =>
          r.gateway = r.mem.address /\ r.gateway # None
    /\ r.pc \in {"transfer", "verify"} =>
          r.gateway # None /\ (r.opts.script = "consensus" => Started(r.gateway))

RunOk(r) ==
    /\ r \in RunType(r.opts)
    /\ EntryFits(r.mem) /\ r.auth <= Len(auths) /\ r.impl <= Len(impls)
    /\ r.gateway <= Len(proxies)
    /\ InHand(r)

IInv ==
    /\ scenario \in Scenarios /\ prover \in 1..MaxSets
    /\ ChainOk /\ FileOk /\ RunOk(run)
-----------------------------------------------------------------------------
(* Steps that leave the chain alone                                        *)

LEMMA Constants ==
    /\ MaxSets \in Nat \ {0} /\ Debug \notin 0..MaxSets /\ None = 0 /\ Wallet = 0
    /\ 1..MaxSets \subseteq 0..MaxSets /\ None \notin Signers
BY ScenariosOK DEF None, Wallet, Signers

LEMMA Numbers ==
    ASSUME IInv
    PROVE  /\ Len(auths) \in Nat /\ Len(impls) \in Nat /\ Len(proxies) \in Nat
           /\ DOMAIN auths = 1..Len(auths) /\ DOMAIN impls = 1..Len(impls)
           /\ DOMAIN proxies = 1..Len(proxies)
           /\ \A i \in DOMAIN proxies : proxies[i] \in Proxy
BY DEF IInv, ChainOk

LEMMA NothingFits ==
    ASSUME IInv
    PROVE  EmptyEntry \in Entry /\ EntryFits(EmptyEntry) /\ RunOk(NoRun)
<1>1. EmptyEntry \in Entry /\ EntryFits(EmptyEntry)
  BY Constants, Numbers DEF EmptyEntry, Entry, EntryFits, People, Nobody, None
<1>2. NoRun \in RunType(NoRun.opts)
  BY <1>1 DEF NoRun, RunType, PCs, None
<1> QED
  BY <1>1, <1>2, Numbers DEF NoRun, RunOk, InHand, None

LEMMA QuietStep ==
    ASSUME IInv, UNCHANGED <<scenario, prover, chainVars, file>>, RunOk(run')
    PROVE  IInv'
<1>1. UNCHANGED <<auths, impls, proxies, placed>>
  BY DEF chainVars
<1>2. ChainOk' /\ FileOk'
  BY <1>1 DEF IInv, ChainOk, FileOk, EntryFits, Started
<1>3. RunOk(run)'
  BY <1>1 DEF RunOk, InHand, EntryFits, Started
<1> QED
  BY <1>2, <1>3 DEF IInv

LEMMA EndStep ==
    ASSUME IInv, UNCHANGED <<scenario, prover, chainVars>>, run' = NoRun,
           file' \in Entry, EntryFits(file'), file'.address # None => Started(file'.address)
    PROVE  IInv'
<1>1. UNCHANGED <<auths, impls, proxies, placed>>
  BY DEF chainVars
<1>2. ChainOk' /\ FileOk'
  BY <1>1 DEF IInv, ChainOk, FileOk, EntryFits, Started
<1>3. RunOk(run)'
  BY <1>1, NothingFits DEF RunOk, InHand, EntryFits, NoRun
<1> QED
  BY <1>2, <1>3 DEF IInv

\* A run in progress, its options and its copy of the configuration.
LEMMA InProgress ==
    ASSUME IInv, run.pc # "idle"
    PROVE  /\ run \in RunType(run.opts) /\ run.opts \in Options
           /\ run.opts \in scenario.options
           /\ run.mem \in Entry /\ EntryFits(run.mem)
           /\ run.mem.address # None => Started(run.mem.address)
<1>1. run \in RunType(run.opts) /\ run.opts \in scenario.options
  BY DEF IInv, RunOk, InHand
<1>2. run.opts \in Options
  BY <1>1, ScenariosOK DEF IInv
<1>3. run.mem \in Entry
  BY <1>1 DEF RunType
<1> QED
  BY <1>1, <1>2, <1>3 DEF IInv, RunOk, InHand, FileOk

LEMMA BeginKeeps ==
    ASSUME IInv, Begin
    PROVE  IInv'
<1>1. PICK o \in scenario.options :
          run' = [NoRun EXCEPT !.pc = "check", !.opts = o, !.mem = file]
  BY DEF Begin
<1>2. run' \in RunType(run'.opts)
  <2>1. NoRun \in RunType(NoRun.opts) /\ file \in Entry /\ "check" \in PCs
    BY NothingFits DEF RunOk, IInv, FileOk, PCs
  <2> QED
    BY <1>1, <2>1 DEF RunType, NoRun
<1>3. /\ run'.pc = "check" /\ run'.opts = o /\ run'.mem = file
      /\ run'.auth = 0 /\ run'.impl = 0 /\ run'.gateway = 0
  BY <1>1 DEF NoRun, None
<1>4. RunOk(run')
  BY <1>2, <1>3, Numbers DEF RunOk, InHand, IInv, FileOk, EntryFits
<1> QED
  BY <1>4, QuietStep DEF Begin

LEMMA EndsWithCopy ==
    ASSUME IInv, run.pc # "idle", run' = NoRun, file' = run.mem,
           UNCHANGED <<scenario, prover, chainVars>>
    PROVE  IInv'
BY InProgress, EndStep

LEMMA DeclineKeeps ==
    ASSUME IInv, Decline
    PROVE  IInv'
<1>1. run.pc # "idle" /\ run' = NoRun /\ UNCHANGED <<scenario, prover, chainVars>>
  BY DEF Decline, Ends
<1>2. file' = AtPrompt
  BY DEF Decline, Ends
<1>3. CASE AtPrompt = run.mem
  BY <1>1, <1>2, <1>3, EndsWithCopy
<1>4. CASE AtPrompt = [run.mem EXCEPT !.governance = run.opts.governance]
  <2>1. run.opts.governance \in People
    BY <1>1, InProgress DEF Options, People, Nobody
  <2>2. /\ AtPrompt \in Entry /\ AtPrompt.address = run.mem.address
        /\ AtPrompt.implementation = run.mem.implementation
        /\ AtPrompt.auth = run.mem.auth
    BY <1>1, <1>4, <2>1, InProgress DEF Entry
  <2> QED
    BY <1>1, <1>2, <2>2, InProgress, EndStep DEF EntryFits
<1> QED
  BY <1>3, <1>4 DEF AtPrompt

LEMMA FaultsKeep ==
    ASSUME IInv, Fail \/ Crash
    PROVE  IInv'
<1>1. CASE Fail
  BY <1>1, EndsWithCopy DEF Fail
<1>2. CASE Crash
  BY <1>2, EndStep DEF Crash, IInv, FileOk
<1> QED
  BY <1>1, <1>2

LEMMA QuietGoes ==
    ASSUME IInv, NEW new, Goes(new), UNCHANGED chainVars, RunOk(new)
    PROVE  IInv'
BY QuietStep DEF Goes

LEMMA CheckKeeps ==
    ASSUME IInv, AmplifierCheck \/ ConsensusCheck
    PROVE  IInv'
<1>1. run.pc = "check"
  BY DEF AmplifierCheck, ConsensusCheck, At
<1>2. CASE Ends(run.mem)
  BY <1>1, <1>2, EndsWithCopy DEF Ends
<1>3. CASE ~(run.opts.reuseProxy /\ run.mem.address = None)
           /\ \E p \in {"implementation", "auth"} :
              Goes([run EXCEPT !.pc = p,
                       !.gateway = IF run.opts.reuseProxy THEN run.mem.address ELSE None])
              /\ UNCHANGED chainVars
  <2>1. PICK p \in {"implementation", "auth"} :
            Goes([run EXCEPT !.pc = p,
                     !.gateway = IF run.opts.reuseProxy THEN run.mem.address ELSE None])
            /\ UNCHANGED chainVars
    BY <1>3
  <2> DEFINE g == IF run.opts.reuseProxy THEN run.mem.address ELSE None
             new == [run EXCEPT !.pc = p, !.gateway = g]
  <2>2. /\ g \in Nat /\ g <= Len(proxies) /\ (run.opts.reuseProxy => g = run.mem.address)
        /\ (run.opts.reuseProxy => g # None)
    BY <1>1, <1>3, InProgress, Numbers DEF Entry, EntryFits, None, Options
  <2> HIDE DEF g
  <2>3. p \in PCs
    BY DEF PCs
  <2>4. new \in RunType(new.opts)
    BY <1>1, <2>2, <2>3, InProgress DEF RunType
  <2>5. /\ new.pc = p /\ new.gateway = g /\ new.opts = run.opts /\ new.mem = run.mem
        /\ new.auth = run.auth /\ new.impl = run.impl
    BY <1>1, InProgress DEF RunType
  <2>6. RunOk(new)
    <3> HIDE DEF new
    <3> QED
      BY <1>1, <2>2, <2>4, <2>5 DEF RunOk, InHand, IInv
  <2> QED
    BY <2>1, <2>6, QuietGoes DEF g
<1> QED
  BY <1>2, <1>3 DEF AmplifierCheck, ConsensusCheck

\* A run at its implementation gets the one at index i.
Got(p, i) == [run EXCEPT !.pc = p, !.impl = i]

LEMMA GetsImplementation ==
    ASSUME IInv, run.pc = "implementation", NEW p \in {"setup", "proxy"},
           p = "proxy" => run.opts.script = "consensus", NEW i \in Nat \ {0}
    PROVE  LET new == Got(p, i)
           IN  /\ new \in RunType(new.opts) /\ new.impl = i
               /\ new.opts = run.opts /\ new.mem = run.mem /\ new.auth = run.auth
               /\ new.gateway = run.gateway /\ new.pc = p /\ new.set = run.set
               /\ InHand(new)
<1> DEFINE new == Got(p, i)
<1>1. p \in PCs
  BY DEF PCs
<1>2. /\ new \in RunType(new.opts) /\ new.impl = i
      /\ new.opts = run.opts /\ new.mem = run.mem /\ new.auth = run.auth
      /\ new.gateway = run.gateway /\ new.pc = p /\ new.set = run.set
  BY <1>1, InProgress DEF RunType, Got
<1>3. InHand(new)
  <2> HIDE DEF new
  <2> QED
    BY <1>2, Constants DEF InHand, IInv, RunOk
<1> QED
  BY <1>2, <1>3

\* Steps that only add to the chain, and let Started be.
LEMMA GrowStep ==
    ASSUME IInv, UNCHANGED <<scenario, file>>, prover' \in 1..MaxSets, ChainOk',
           Len(auths') \in Nat, Len(impls') \in Nat, Len(proxies') \in Nat,
           Len(auths) <= Len(auths'), Len(impls) <= Len(impls'),
           Len(proxies) <= Len(proxies'),
           \A g \in DOMAIN proxies : Started(g) => Started(g)',
           RunOk(run)'
    PROVE  IInv'
<1>1. file \in Entry /\ EntryFits(file) /\ file.address \in Nat
      /\ file.implementation \in Nat /\ file.auth \in Nat
  BY DEF IInv, FileOk, Entry
<1>2. EntryFits(file)'
  BY <1>1, Numbers DEF EntryFits
<1>3. file.address # None => Started(file.address)'
  <2> SUFFICES ASSUME file.address # None
               PROVE  Started(file.address)'
    OBVIOUS
  <2>1. file.address \in DOMAIN proxies
    BY <1>1, Numbers DEF EntryFits, None
  <2>2. Started(file.address)
    BY DEF IInv, FileOk
  <2> QED
    BY <2>1, <2>2
<1> QED
  BY <1>1, <1>2, <1>3 DEF IInv, FileOk, Started

LEMMA PlaceOk ==
    ASSUME IInv, run.pc # "idle", NEW what \in {"impl", "proxy"}, NEW i \in Nat,
           Place(what, i)
    PROVE  /\ placed' \in [Salts -> [impl : Nat, proxy : Nat]]
           /\ \A s \in Salts : /\ placed'[s].impl \in {placed[s].impl,
                                        IF what = "impl" THEN i ELSE placed[s].impl}
                               /\ placed'[s].proxy \in {placed[s].proxy,
                                        IF what = "proxy" THEN i ELSE placed[s].proxy}
<1>1. placed \in [Salts -> [impl : Nat, proxy : Nat]]
  BY DEF IInv, ChainOk
<1>2. CASE run.opts.salt = NoSalt
  BY <1>1, <1>2 DEF Place
<1>3. CASE run.opts.salt # NoSalt
  <2> DEFINE s == run.opts.salt
  <2>1. s \in Salts
    BY <1>3, InProgress DEF Options
  <2>2. placed' = [placed EXCEPT ![s] = [placed[s] EXCEPT ![what] = i]]
    BY <1>3 DEF Place
  <2>3. placed[s] \in [impl : Nat, proxy : Nat]
    BY <1>1, <2>1
  <2> DEFINE new == [placed[s] EXCEPT ![what] = i]
  <2>4. /\ new \in [impl : Nat, proxy : Nat]
        /\ new.impl = (IF what = "impl" THEN i ELSE placed[s].impl)
        /\ new.proxy = (IF what = "proxy" THEN i ELSE placed[s].proxy)
    BY <2>3
  <2> HIDE DEF new
  <2>5. placed' = [placed EXCEPT ![s] = new]
    BY <2>2 DEF new
  <2> QED
    BY <1>1, <2>1, <2>4, <2>5
<1> QED
  BY <1>2, <1>3

LEMMA ImplementationKeeps ==
    ASSUME IInv, run.pc = "implementation", NEW p \in {"setup", "proxy"},
           p = "proxy" => run.opts.script = "consensus", NEW auth \in Nat,
           auth <= Len(auths), DeployImplementation(auth, [run EXCEPT !.pc = p])
    PROVE  IInv'
<1> DEFINE next == [run EXCEPT !.pc = p]
<1>1. \A i : [next EXCEPT !.impl = i] = Got(p, i)
  BY InProgress DEF RunType, Got
<1>2. CASE Found("impl") # None
  <2>1. Found("impl") \in Nat \ {0} /\ Found("impl") <= Len(impls)
    BY <1>2, InProgress DEF Found, IInv, ChainOk, Options, None
  <2>2. Goes(Got(p, Found("impl"))) /\ UNCHANGED chainVars
    BY <1>1, <1>2 DEF DeployImplementation
  <2> QED
    <3> SUFFICES ASSUME NEW new, new = Got(p, Found("impl"))
                 PROVE  IInv'
      OBVIOUS
    <3>1. /\ new \in RunType(new.opts) /\ new.impl = Found("impl") /\ new.mem = run.mem
          /\ new.auth = run.auth /\ new.gateway = run.gateway /\ InHand(new)
      BY <2>1, GetsImplementation
    <3>2. RunOk(new)
      BY <2>1, <3>1 DEF RunOk, IInv
    <3> QED
      BY <2>2, <3>2, QuietGoes
<1>3. CASE Found("impl") = None
  <2> DEFINE i == Len(impls')
             new == Got(p, i)
  <2>1. /\ impls' = Append(impls, auth) /\ Place("impl", i)
        /\ UNCHANGED <<auths, proxies, scenario, prover, file>> /\ run' = new
    BY <1>1, <1>3 DEF DeployImplementation, Goes
  <2>2. /\ impls' \in Seq(Nat) /\ i = Len(impls) + 1 /\ i \in Nat \ {0}
        /\ DOMAIN impls' = 1..i
        /\ \A j \in DOMAIN impls' :
              impls'[j] = IF j = i THEN auth ELSE impls[j]
    BY <2>1, Numbers DEF IInv, ChainOk
  <2> HIDE DEF i
  <2>3. /\ placed' \in [Salts -> [impl : Nat, proxy : Nat]]
        /\ \A s \in Salts : /\ placed'[s].impl \in {placed[s].impl, i}
                            /\ placed'[s].proxy = placed[s].proxy
    BY <2>1, <2>2, PlaceOk
  <2> HIDE DEF new
  <2>4. /\ new \in RunType(new.opts) /\ new.impl = i /\ new.mem = run.mem
        /\ new.auth = run.auth /\ new.gateway = run.gateway /\ InHand(new)
    BY <2>2, GetsImplementation DEF new
  <2>5. ChainOk'
    <3>1. \A j \in DOMAIN impls' : impls'[j] <= Len(auths')
      BY <2>1, <2>2, Numbers DEF IInv, ChainOk
    <3>2. \A g \in DOMAIN proxies' : proxies'[g].implementation <= Len(impls')
      BY <2>1, <2>2, Numbers DEF IInv, ChainOk, Proxy, i
    <3>3. \A s \in Salts : placed'[s].impl <= Len(impls')
                           /\ placed'[s].proxy <= Len(proxies')
      <4> SUFFICES ASSUME NEW s \in Salts
                   PROVE  placed'[s].impl <= i /\ placed'[s].proxy <= Len(proxies)
        BY <2>1 DEF i
      <4>1. /\ placed[s].impl \in Nat /\ placed[s].impl <= Len(impls)
            /\ placed[s].proxy <= Len(proxies)
        BY DEF IInv, ChainOk
      <4>2. placed[s].impl <= i
        BY <2>2, <4>1, Numbers
      <4>3. placed'[s].impl \in {placed[s].impl, i} /\ placed'[s].proxy = placed[s].proxy
        BY <2>3
      <4> QED
        BY <2>2, <4>1, <4>2, <4>3
    <3> QED
      BY <2>1, <2>2, <2>3, <3>1, <3>2, <3>3 DEF IInv, ChainOk
  <2>6. RunOk(run)'
    <3>1. InHand(run') => InHand(run)'
      BY <2>1 DEF InHand, Started
    <3>2. run.mem \in Entry /\ EntryFits(run.mem)
      BY InProgress
    <3>3. EntryFits(run.mem)'
      BY <2>1, <2>2, <2>4, <3>2, Numbers DEF EntryFits, Entry, i
    <3>4. run.auth \in Nat /\ run.auth <= Len(auths) /\ run.gateway <= Len(proxies)
      BY DEF IInv, RunOk, RunType
    <3> QED
      BY <2>1, <2>2, <2>4, <3>1, <3>3, <3>4 DEF RunOk, i
  <2> QED
    BY <2>1, <2>2, <2>5, <2>6, Numbers, GrowStep DEF Started, IInv, i
<1> QED
  BY <1>2, <1>3

\* The implementation of the entry is taken over.
LEMMA SkippedImplementation ==
    ASSUME IInv, run.pc = "implementation", NEW p \in {"setup", "proxy"},
           p = "proxy" => run.opts.script = "consensus", Skips("implementation"),
           Goes(Got(p, run.mem.implementation)), UNCHANGED chainVars
    PROVE  IInv'
<1> SUFFICES ASSUME NEW new, new = Got(p, run.mem.implementation)
             PROVE  IInv'
  OBVIOUS
<1>1. run.mem.implementation \in Nat \ {0} /\ run.mem.implementation <= Len(impls)
  BY InProgress DEF Skips, Entry, EntryFits, None
<1>2. /\ new \in RunType(new.opts) /\ new.impl = run.mem.implementation
      /\ new.mem = run.mem /\ new.auth = run.auth /\ new.gateway = run.gateway
      /\ InHand(new)
  BY <1>1, GetsImplementation
<1>3. RunOk(new)
  BY <1>1, <1>2 DEF RunOk, IInv
<1> QED
  BY <1>3, QuietGoes

LEMMA AmplifierImplementationKeeps ==
    ASSUME IInv, AmplifierImplementation
    PROVE  IInv'
<1>1. run.pc = "implementation"
  BY DEF AmplifierImplementation, At
<1> DEFINE next == [run EXCEPT !.pc = "setup"]
<1>2. CASE Skips("implementation")
  <2>1. [next EXCEPT !.impl = run.mem.implementation] = Got("setup", run.mem.implementation)
    BY <1>1, InProgress DEF RunType, Got
  <2> QED
    BY <1>1, <1>2, <2>1, SkippedImplementation DEF AmplifierImplementation
<1>3. CASE ~Skips("implementation")
  BY <1>1, <1>3, ImplementationKeeps, Constants, Numbers DEF AmplifierImplementation
<1> QED
  BY <1>2, <1>3

LEMMA ConsensusImplementationKeeps ==
    ASSUME IInv, ConsensusImplementation
    PROVE  IInv'
<1>1. run.pc = "implementation" /\ run.opts.script = "consensus"
  BY DEF ConsensusImplementation, At
<1> DEFINE next == [run EXCEPT !.pc = "proxy"]
<1>2. CASE Skips("implementation")
  <2>1. [next EXCEPT !.impl = run.mem.implementation] = Got("proxy", run.mem.implementation)
    BY <1>1, InProgress DEF RunType, Got
  <2> QED
    BY <1>1, <1>2, <2>1, SkippedImplementation DEF ConsensusImplementation
<1>3. CASE ~Skips("implementation")
  <2>1. run.auth \in Nat /\ run.auth <= Len(auths)
    BY DEF IInv, RunOk, RunType
  <2> QED
    BY <1>1, <1>3, <2>1, ImplementationKeeps DEF ConsensusImplementation
<1> QED
  BY <1>2, <1>3

LEMMA TokenDeployerKeeps ==
    ASSUME IInv, ConsensusTokenDeployer
    PROVE  IInv'
<1> DEFINE new == [run EXCEPT !.pc = "implementation"]
<1>1. run.pc = "tokenDeployer" /\ Goes(new) /\ UNCHANGED chainVars
  BY DEF ConsensusTokenDeployer, At
<1>2. new \in RunType(new.opts)
  BY <1>1, InProgress DEF RunType, PCs
<1>3. /\ new.pc = "implementation" /\ new.gateway = run.gateway /\ new.opts = run.opts
      /\ new.mem = run.mem /\ new.auth = run.auth /\ new.impl = run.impl
  BY <1>1, InProgress DEF RunType
<1>4. RunOk(new)
  <2> HIDE DEF new
  <2> QED
    BY <1>1, <1>2, <1>3 DEF RunOk, InHand, IInv
<1> QED
  BY <1>1, <1>4, QuietGoes

LEMMA SignersFit ==
    ASSUME IInv, run.pc # "idle"
    PROVE  WeightedSigners \in Signers /\ WeightedSigners \in {prover, Debug}
BY DEF WeightedSigners, Signers, IInv

LEMMA SetupKeeps ==
    ASSUME IInv, AmplifierSetup
    PROVE  IInv'
<1>1. run.pc = "setup" /\ run.opts.script = "amplifier" /\ UNCHANGED chainVars
  BY DEF AmplifierSetup, At
<1> DEFINE operator == IF run.opts.operator # Nobody THEN run.opts.operator
                       ELSE IF run.mem.operator # Nobody THEN run.mem.operator ELSE "wallet"
           first == IF run.opts.keyID THEN None ELSE prover
<1>2. operator \in People /\ first \in 0..MaxSets
  BY <1>1, InProgress, Constants DEF Options, Entry, People, IInv
<1> HIDE DEF operator, first
<1>3. CASE Skips("address")
  <2> DEFINE new == [run EXCEPT !.pc = "verify", !.gateway = run.mem.address]
  <2>1. run.mem.address \in Nat /\ run.mem.address # None
    BY <1>1, <1>3, InProgress DEF Skips, Entry
  <2>2. new \in RunType(new.opts)
    BY <1>1, <2>1, InProgress DEF RunType, PCs
  <2>3. /\ new.pc = "verify" /\ new.gateway = run.mem.address /\ new.opts = run.opts
        /\ new.mem = run.mem /\ new.auth = run.auth /\ new.impl = run.impl
    BY <1>1, InProgress DEF RunType
  <2>4. RunOk(new)
    <3> HIDE DEF new
    <3> QED
      BY <1>1, <2>1, <2>2, <2>3 DEF RunOk, InHand, IInv, EntryFits
  <2> QED
    BY <1>1, <1>3, <2>4, QuietGoes DEF AmplifierSetup
<1>4. CASE ~Skips("address") /\ run.opts.reuseProxy
  <2> DEFINE new == [run EXCEPT !.pc = "verify"]
  <2>1. new \in RunType(new.opts)
    BY <1>1, InProgress DEF RunType, PCs
  <2>2. /\ new.pc = "verify" /\ new.gateway = run.gateway /\ new.opts = run.opts
        /\ new.mem = run.mem /\ new.auth = run.auth /\ new.impl = run.impl
    BY <1>1, InProgress DEF RunType
  <2>3. RunOk(new)
    <3> HIDE DEF new
    <3> QED
      BY <1>1, <1>4, <2>1, <2>2 DEF RunOk, InHand, IInv
  <2> QED
    BY <1>1, <1>4, <2>3, QuietGoes DEF AmplifierSetup
<1>5. CASE ~Skips("address") /\ ~run.opts.reuseProxy
  <2> DEFINE m == [run.mem EXCEPT !.operator = operator, !.initialSet = first]
             new == [run EXCEPT !.pc = "proxy", !.set = WeightedSigners, !.mem = m]
  <2>1. /\ m \in Entry /\ m.address = run.mem.address /\ m.auth = run.mem.auth
        /\ m.implementation = run.mem.implementation
    BY <1>1, <1>2, InProgress DEF Entry
  <2>2. /\ EntryFits(m) /\ WeightedSigners \in Signers \cup {None}
        /\ WeightedSigners # None
    BY <1>1, <2>1, InProgress, SignersFit, Constants DEF EntryFits
  <2>3. Goes(new)
    <3>1. Goes([run EXCEPT !.pc = "proxy", !.set = WeightedSigners,
                  !.mem.operator = operator, !.mem.initialSet = first])
      BY <1>5 DEF AmplifierSetup, operator, first
    <3>2. [run EXCEPT !.pc = "proxy", !.set = WeightedSigners,
             !.mem.operator = operator, !.mem.initialSet = first] = new
      BY <1>1, InProgress DEF RunType, Entry
    <3> QED
      BY <3>1, <3>2
  <2> HIDE DEF m
  <2>4. new \in RunType(new.opts)
    BY <1>1, <2>1, <2>2, InProgress DEF RunType, PCs
  <2>5. /\ new.pc = "proxy" /\ new.gateway = run.gateway /\ new.opts = run.opts
        /\ new.mem = m /\ new.auth = run.auth /\ new.impl = run.impl
        /\ new.set = WeightedSigners
    BY <1>1, InProgress DEF RunType
  <2>6. RunOk(new)
    <3> HIDE DEF new
    <3> QED
      BY <1>1, <1>5, <2>1, <2>2, <2>4, <2>5, InProgress DEF RunOk, InHand, IInv
  <2> QED
    BY <1>1, <2>3, <2>6, QuietGoes
<1> QED
  BY <1>3, <1>4, <1>5

LEMMA NewGateway ==
    ASSUME IInv, run.pc # "idle", run.impl # None, NEW f \in Signers
    PROVE  /\ Gateway(f) \in Proxy /\ Gateway(f).implementation = run.impl
           /\ Gateway(f).first = f /\ Gateway(f).since = {prover}
<1>1. run.impl \in Nat \ {0} /\ {prover} \in SUBSET (1..MaxSets)
  BY InProgress DEF RunType, None, IInv
<1>2. Governance \in People \ {Nobody}
  BY InProgress DEF Governance, Options, People, Nobody
<1>3. (IF run.mem.operator = Nobody THEN "wallet" ELSE run.mem.operator)
         \in People \ {Nobody}
  BY InProgress DEF Entry, People, Nobody
<1> QED
  BY <1>1, <1>2, <1>3 DEF Gateway, Proxy

\* A gateway is added.
LEMMA AddsGateway ==
    ASSUME IInv, run.pc # "idle", run.impl # None, NEW f \in Signers,
           proxies' = Append(proxies, Gateway(f)), UNCHANGED <<auths, impls, prover>>,
           placed' \in [Salts -> [impl : Nat, proxy : Nat]],
           \A s \in Salts : placed'[s].impl <= Len(impls) /\ placed'[s].proxy <= Len(proxies')
    PROVE  /\ ChainOk' /\ Len(proxies') = Len(proxies) + 1
           /\ \A g \in DOMAIN proxies : proxies'[g] = proxies[g]
           /\ proxies'[Len(proxies')] = Gateway(f)
<1>1. Gateway(f) \in Proxy
  BY NewGateway
<1>2. proxies \in Seq(Proxy)
  BY DEF IInv, ChainOk
<1>3. /\ proxies' \in Seq(Proxy) /\ Len(proxies') = Len(proxies) + 1
      /\ DOMAIN proxies' = 1..(Len(proxies) + 1)
      /\ \A g \in DOMAIN proxies : proxies'[g] = proxies[g]
      /\ proxies'[Len(proxies')] = Gateway(f)
  BY <1>1, <1>2
<1>4. \A i \in DOMAIN auths' : auths'[i] <= Len(proxies')
  <2> SUFFICES ASSUME NEW i \in DOMAIN auths
               PROVE  auths[i] <= Len(proxies) + 1
    BY <1>3
  <2>1. auths[i] \in Nat /\ auths[i] <= Len(proxies)
    BY Numbers DEF IInv, ChainOk
  <2> QED
    BY <2>1, Numbers
<1>5. \A g \in DOMAIN proxies' : proxies'[g].implementation <= Len(impls')
                                 /\ prover' \in proxies'[g].since
  <2> SUFFICES ASSUME NEW g \in DOMAIN proxies'
               PROVE  proxies'[g].implementation <= Len(impls) /\ prover \in proxies'[g].since
    OBVIOUS
  <2>1. CASE g \in DOMAIN proxies
    BY <1>3, <2>1 DEF IInv, ChainOk
  <2>2. CASE g = Len(proxies')
    BY <1>3, <2>2, NewGateway DEF IInv, RunOk
  <2> QED
    BY <1>3, <2>1, <2>2, Numbers
<1> QED
  BY <1>3, <1>4, <1>5 DEF IInv, ChainOk

\* The run goes on to verify or to hand over the new gateway.
LEMMA GatewayStep ==
    ASSUME IInv, run.pc = "proxy", NEW f \in Signers, NEW p \in {"verify", "transfer"},
           proxies' = Append(proxies, Gateway(f)),
           UNCHANGED <<scenario, prover, file, auths, impls>>,
           placed' \in [Salts -> [impl : Nat, proxy : Nat]],
           \A s \in Salts : placed'[s].impl <= Len(impls) /\ placed'[s].proxy <= Len(proxies'),
           ~run.opts.reuseProxy,
           run.opts.script = "consensus" => f = prover,
           run' = [run EXCEPT !.pc = p, !.gateway = Len(proxies')]
    PROVE  IInv'
<1>1. run.impl # None
  BY DEF IInv, RunOk, InHand
<1>2. /\ ChainOk' /\ Len(proxies') = Len(proxies) + 1
      /\ \A g \in DOMAIN proxies : proxies'[g] = proxies[g]
      /\ proxies'[Len(proxies')] = Gateway(f)
  BY <1>1, AddsGateway
<1> SUFFICES ASSUME NEW CONSTANT n, n = Len(proxies')
             PROVE  IInv'
  OBVIOUS
<1>3. n \in Nat /\ n # 0 /\ n = Len(proxies) + 1
  BY <1>2, Numbers
<1>4. /\ run' \in RunType(run'.opts) /\ run'.pc = p /\ run'.gateway = n
      /\ run'.opts = run.opts /\ run'.mem = run.mem /\ run'.auth = run.auth
      /\ run'.impl = run.impl /\ run'.set = run.set
  <2>1. run' = [run EXCEPT !.pc = p, !.gateway = n]
    OBVIOUS
  <2> QED
    BY <1>3, <2>1, InProgress DEF RunType, PCs
<1>5. run.opts.script = "consensus" => Started(n)'
  BY <1>1, <1>2, NewGateway DEF Started
<1>6. InHand(run)'
  <2>1. run'.pc \in {"transfer", "verify"} => run'.gateway # None
        /\ (run'.opts.script = "consensus" => Started(n)')
    BY <1>3, <1>4, <1>5 DEF None
  <2> QED
    BY <1>1, <1>4, <2>1 DEF InHand, IInv, RunOk
<1>7. RunOk(run)'
  <2>1. run.mem \in Entry /\ EntryFits(run.mem)
    BY InProgress
  <2>2. EntryFits(run.mem)'
    BY <1>2, <1>3, <1>4, <2>1, Numbers DEF EntryFits, Entry
  <2>3. run'.auth <= Len(auths') /\ run'.impl <= Len(impls') /\ run'.gateway <= Len(proxies')
    BY <1>3, <1>4 DEF IInv, RunOk
  <2> QED
    BY <1>4, <1>6, <2>2, <2>3 DEF RunOk
<1>8. /\ Len(proxies') \in Nat /\ Len(proxies) <= Len(proxies')
      /\ \A g \in DOMAIN proxies : Started(g) => Started(g)'
  BY <1>2, <1>3, Numbers DEF Started
<1> QED
  BY <1>2, <1>7, <1>8, Numbers, GrowStep DEF IInv

\* The run goes on with a gateway that is there.
LEMMA FoundGateway ==
    ASSUME IInv, run.pc = "proxy", NEW p \in {"verify", "transfer"}, NEW g \in Nat \ {0},
           g <= Len(proxies), run.opts.reuseProxy => g = run.mem.address,
           run.opts.script = "consensus" => Started(g),
           Goes([run EXCEPT !.pc = p, !.gateway = g]), UNCHANGED chainVars
    PROVE  IInv'
<1> DEFINE new == [run EXCEPT !.pc = p, !.gateway = g]
<1>1. new \in RunType(new.opts)
  BY InProgress DEF RunType, PCs
<1>2. /\ new.pc = p /\ new.gateway = g /\ new.opts = run.opts
      /\ new.mem = run.mem /\ new.auth = run.auth /\ new.impl = run.impl
  BY InProgress DEF RunType
<1>3. RunOk(new)
  <2> HIDE DEF new
  <2> QED
    BY <1>1, <1>2, Constants DEF RunOk, InHand, IInv
<1> QED
  BY <1>3, QuietGoes

LEMMA AmplifierProxyKeeps ==
    ASSUME IInv, AmplifierProxy
    PROVE  IInv'
<1>1. run.pc = "proxy" /\ run.opts.script = "amplifier"
  BY DEF AmplifierProxy, At
<1>2. run.mem.address \in Nat
  BY <1>1, InProgress DEF Entry
<1>3. ~run.opts.reuseProxy
  BY <1>1 DEF IInv, RunOk, InHand
<1>4. CASE Found("proxy") # None
  <2>1. Found("proxy") \in Nat \ {0} /\ Found("proxy") <= Len(proxies)
    BY <1>1, <1>4, InProgress DEF Found, IInv, ChainOk, Options, None
  <2> QED
    BY <1>1, <1>3, <1>4, <2>1, FoundGateway DEF AmplifierProxy
<1>5. CASE Found("proxy") = None
  <2>1. run.set \in Signers
    BY <1>1 DEF IInv, RunOk, InHand, RunType
  <2>2. /\ proxies' = Append(proxies, Gateway(run.set)) /\ Place("proxy", Len(proxies'))
        /\ Goes([run EXCEPT !.pc = "verify", !.gateway = Len(proxies')])
        /\ UNCHANGED <<auths, impls>>
    BY <1>5 DEF AmplifierProxy
  <2>3. Len(proxies') = Len(proxies) + 1 /\ Len(proxies') \in Nat
    BY <2>2, Numbers DEF IInv, ChainOk
  <2>4. /\ placed' \in [Salts -> [impl : Nat, proxy : Nat]]
        /\ \A s \in Salts : placed'[s].impl = placed[s].impl
                            /\ placed'[s].proxy \in {placed[s].proxy, Len(proxies')}
    <3> SUFFICES ASSUME NEW CONSTANT n \in Nat, n = Len(proxies')
                 PROVE  /\ placed' \in [Salts -> [impl : Nat, proxy : Nat]]
                        /\ \A s \in Salts : /\ placed'[s].impl = placed[s].impl
                                            /\ placed'[s].proxy \in {placed[s].proxy, n}
      BY <2>3
    <3>1. Place("proxy", n)
      BY <2>2
    <3> QED
      BY <1>1, <3>1, PlaceOk
  <2>5. \A s \in Salts : placed'[s].impl <= Len(impls) /\ placed'[s].proxy <= Len(proxies')
    <3> SUFFICES ASSUME NEW s \in Salts
                 PROVE  placed'[s].impl <= Len(impls) /\ placed'[s].proxy <= Len(proxies) + 1
      BY <2>3
    <3>1. /\ placed[s].impl <= Len(impls) /\ placed[s].proxy \in Nat
          /\ placed[s].proxy <= Len(proxies)
      BY DEF IInv, ChainOk
    <3> QED
      BY <2>3, <2>4, <3>1, Numbers
  <2> QED
    BY <1>1, <1>3, <2>1, <2>2, <2>4, <2>5, GatewayStep DEF Goes
<1> QED
  BY <1>4, <1>5

LEMMA ConsensusProxyKeeps ==
    ASSUME IInv, ConsensusProxy
    PROVE  IInv'
<1> DEFINE p == IF run.opts.reuseProxy /\ run.opts.reuseAuth THEN "verify" ELSE "transfer"
           next == [run EXCEPT !.pc = p]
<1>1. run.pc = "proxy" /\ run.opts.script = "consensus" /\ p \in {"verify", "transfer"}
  BY DEF ConsensusProxy, At
<1>2. \A g : [next EXCEPT !.gateway = g] = [run EXCEPT !.pc = p, !.gateway = g]
  BY <1>1, InProgress DEF RunType
<1>3. run.mem.address \in Nat /\ run.mem.address <= Len(proxies)
  BY <1>1, InProgress DEF Entry, EntryFits
<1>4. CASE Skips("address")
  <2>1. run.mem.address \in Nat \ {0} /\ Started(run.mem.address)
    BY <1>1, <1>3, <1>4, InProgress DEF Skips, None
  <2>2. Goes([run EXCEPT !.pc = p, !.gateway = run.mem.address]) /\ UNCHANGED chainVars
    BY <1>2, <1>4 DEF ConsensusProxy
  <2> HIDE DEF p, next
  <2> QED
    BY <1>1, <1>3, <2>1, <2>2, FoundGateway
<1>5. CASE ~Skips("address") /\ run.opts.reuseProxy
  <2>1. run.gateway = run.mem.address /\ run.gateway \in Nat \ {0}
    BY <1>1, <1>3, <1>5 DEF IInv, RunOk, InHand, None
  <2>2. Started(run.gateway)
    BY <1>1, <2>1, InProgress DEF None
  <2>3. next = [run EXCEPT !.pc = p, !.gateway = run.gateway]
    BY <1>1, InProgress DEF RunType
  <2>4. Goes([run EXCEPT !.pc = p, !.gateway = run.gateway]) /\ UNCHANGED chainVars
    BY <1>5, <2>3 DEF ConsensusProxy
  <2> HIDE DEF p, next
  <2> QED
    BY <1>1, <1>3, <2>1, <2>2, <2>4, FoundGateway
<1>6. CASE ~Skips("address") /\ ~run.opts.reuseProxy
  <2>1. /\ proxies' = Append(proxies, Gateway(prover))
        /\ Goes([next EXCEPT !.gateway = Len(proxies')])
        /\ UNCHANGED <<auths, impls, placed>>
    BY <1>6 DEF ConsensusProxy
  <2>2. run' = [run EXCEPT !.pc = p, !.gateway = Len(proxies')]
        /\ UNCHANGED <<scenario, prover, file>>
    BY <1>2, <2>1 DEF Goes
  <2>3. Len(proxies') = Len(proxies) + 1 /\ prover \in Signers
    BY <2>1, Numbers DEF IInv, ChainOk, Signers
  <2>4. /\ placed' \in [Salts -> [impl : Nat, proxy : Nat]]
        /\ \A s \in Salts : placed'[s].impl <= Len(impls) /\ placed'[s].proxy <= Len(proxies')
    BY <2>1, <2>3, Numbers DEF IInv, ChainOk
  <2> HIDE DEF p, next
  <2> QED
    BY <1>1, <1>6, <2>1, <2>2, <2>3, <2>4, GatewayStep
<1> QED
  BY <1>4, <1>5, <1>6

\* The run has its auth module.
LEMMA GetsAuth ==
    ASSUME IInv, run.pc = "auth", NEW a \in Nat
    PROVE  LET new == [[run EXCEPT !.pc = "tokenDeployer"] EXCEPT !.auth = a]
           IN  /\ new \in RunType(new.opts) /\ new.auth = a /\ new.opts = run.opts
               /\ new.mem = run.mem /\ new.impl = run.impl /\ new.gateway = run.gateway
               /\ InHand(new)
<1> DEFINE new == [[run EXCEPT !.pc = "tokenDeployer"] EXCEPT !.auth = a]
<1>1. new \in RunType(new.opts)
  BY InProgress DEF RunType, PCs
<1>2. /\ new.pc = "tokenDeployer" /\ new.auth = a /\ new.opts = run.opts
      /\ new.mem = run.mem /\ new.impl = run.impl /\ new.gateway = run.gateway
  BY InProgress DEF RunType
<1>3. InHand(new)
  <2> HIDE DEF new
  <2> QED
    BY <1>2 DEF InHand, IInv, RunOk
<1> QED
  BY <1>1, <1>2, <1>3

LEMMA AuthFound ==
    ASSUME IInv, run.pc = "auth", NEW a \in Nat, a <= Len(auths),
           Goes([[run EXCEPT !.pc = "tokenDeployer"] EXCEPT !.auth = a]), UNCHANGED chainVars
    PROVE  IInv'
<1> DEFINE new == [[run EXCEPT !.pc = "tokenDeployer"] EXCEPT !.auth = a]
<1>1. /\ new \in RunType(new.opts) /\ new.auth = a /\ new.mem = run.mem
      /\ new.impl = run.impl /\ new.gateway = run.gateway /\ InHand(new)
  BY GetsAuth
<1>2. RunOk(new)
  <2> HIDE DEF new
  <2> QED
    BY <1>1 DEF RunOk, IInv
<1> QED
  BY <1>2, QuietGoes

LEMMA AuthKeeps ==
    ASSUME IInv, ConsensusAuth
    PROVE  IInv'
<1>1. run.pc = "auth" /\ run.opts.script = "consensus"
  BY DEF ConsensusAuth, At
<1> DEFINE next == [run EXCEPT !.pc = "tokenDeployer"]
<1>2. CASE Skips("auth")
  <2>1. run.mem.auth \in Nat /\ run.mem.auth <= Len(auths)
    BY <1>1, InProgress DEF Entry, EntryFits
  <2> QED
    BY <1>1, <1>2, <2>1, AuthFound DEF ConsensusAuth
<1>3. CASE ~Skips("auth") /\ run.opts.reuseProxy /\ run.opts.reuseAuth
  <2>1. run.gateway \in DOMAIN proxies
    BY <1>1, <1>3, InProgress, Numbers DEF IInv, RunOk, InHand, RunType, None
  <2>2. proxies[run.gateway].implementation \in DOMAIN impls
    BY <2>1, Numbers DEF IInv, ChainOk, Proxy
  <2>3. LiveAuth(run.gateway) \in Nat /\ LiveAuth(run.gateway) <= Len(auths)
    BY <2>2 DEF LiveAuth, IInv, ChainOk
  <2> QED
    BY <1>1, <1>3, <2>3, AuthFound DEF ConsensusAuth
<1>4. CASE Ends(run.mem)
  BY <1>1, <1>4, EndsWithCopy DEF Ends
<1>5. CASE /\ auths' = Append(auths, Wallet)
           /\ Goes([next EXCEPT !.auth = Len(auths')])
           /\ UNCHANGED <<impls, proxies, placed>>
  <2> SUFFICES ASSUME NEW CONSTANT n, n = Len(auths')
               PROVE  IInv'
    OBVIOUS
  <2>1. /\ auths' \in Seq(Nat) /\ n = Len(auths) + 1 /\ n \in Nat
        /\ DOMAIN auths' = 1..n
        /\ \A i \in DOMAIN auths' : auths'[i] = IF i = n THEN Wallet ELSE auths[i]
    BY <1>5, Numbers, Constants DEF IInv, ChainOk
  <2>2. run' = [[run EXCEPT !.pc = "tokenDeployer"] EXCEPT !.auth = n]
        /\ UNCHANGED <<scenario, prover, file>>
    BY <1>5 DEF Goes
  <2>3. /\ run' \in RunType(run'.opts) /\ run'.auth = n /\ run'.mem = run.mem
        /\ run'.impl = run.impl /\ run'.gateway = run.gateway /\ InHand(run')
    BY <1>1, <2>1, <2>2, GetsAuth
  <2>4. ChainOk'
    <3>1. \A i \in DOMAIN auths' : auths'[i] <= Len(proxies)
      <4> SUFFICES ASSUME NEW i \in DOMAIN auths'
                   PROVE  auths'[i] <= Len(proxies)
        OBVIOUS
      <4>1. CASE i = n
        BY <2>1, <4>1, Numbers, Constants
      <4>2. CASE i \in DOMAIN auths
        <5>1. auths[i] <= Len(proxies)
          BY <4>2 DEF IInv, ChainOk
        <5>2. i # n
          BY <2>1, <4>2, Numbers
        <5> QED
          BY <2>1, <5>1, <5>2
      <4> QED
        BY <2>1, <4>1, <4>2, Numbers
    <3>2. \A i \in DOMAIN impls : impls[i] <= n
      <4> SUFFICES ASSUME NEW i \in DOMAIN impls
                   PROVE  impls[i] <= n
        OBVIOUS
      <4>1. impls[i] \in Nat /\ impls[i] <= Len(auths)
        BY Numbers DEF IInv, ChainOk
      <4> QED
        BY <2>1, <4>1, Numbers
    <3> QED
      BY <1>5, <2>1, <2>2, <3>1, <3>2 DEF IInv, ChainOk
  <2>5. RunOk(run)'
    <3>1. InHand(run') => InHand(run)'
      BY <1>5, <2>2 DEF InHand, Started
    <3>2. run.mem \in Entry /\ EntryFits(run.mem)
      BY <1>1, InProgress
    <3>3. EntryFits(run.mem)'
      BY <1>5, <2>1, <2>3, <3>2, Numbers DEF EntryFits, Entry
    <3> QED
      BY <1>5, <2>1, <2>3, <3>1, <3>3 DEF RunOk, IInv
  <2>6. \A g \in DOMAIN proxies : Started(g) => Started(g)'
    BY <1>5 DEF Started
  <2> QED
    BY <1>5, <2>1, <2>2, <2>4, <2>5, <2>6, Numbers, GrowStep DEF IInv
<1> QED
  BY <1>2, <1>3, <1>4, <1>5 DEF ConsensusAuth

LEMMA TransferKeeps ==
    ASSUME IInv, ConsensusTransfer
    PROVE  IInv'
<1>1. run.pc = "transfer"
  BY DEF ConsensusTransfer, At
<1>2. CASE Ends(run.mem)
  BY <1>1, <1>2, EndsWithCopy DEF Ends
<1>3. CASE /\ auths' = [auths EXCEPT ![run.auth] = run.gateway]
           /\ Goes([run EXCEPT !.pc = "verify"])
           /\ UNCHANGED <<impls, proxies, placed>>
  <2> DEFINE new == [run EXCEPT !.pc = "verify"]
  <2>1. run.gateway \in Nat /\ run.gateway <= Len(proxies)
    BY DEF IInv, RunOk, RunType
  <2>2. /\ auths' \in Seq(Nat) /\ Len(auths') = Len(auths) /\ DOMAIN auths' = DOMAIN auths
        /\ \A i \in DOMAIN auths' : auths'[i] \in {auths[i], run.gateway}
    <3>1. auths \in Seq(Nat) /\ auths \in [1..Len(auths) -> Nat]
      BY Numbers DEF IInv, ChainOk
    <3>2. auths' \in [1..Len(auths) -> Nat]
          /\ \A i \in DOMAIN auths' : auths'[i] \in {auths[i], run.gateway}
      BY <1>3, <2>1, <3>1
    <3> QED
      BY <3>1, <3>2, Numbers
  <2>3. ChainOk'
    <3>1. \A i \in DOMAIN auths' : auths'[i] <= Len(proxies)
      BY <2>1, <2>2 DEF IInv, ChainOk
    <3> QED
      BY <1>3, <2>2, <3>1 DEF IInv, ChainOk, Goes
  <2>4. new \in RunType(new.opts)
    BY <1>1, InProgress DEF RunType, PCs
  <2>5. /\ new.pc = "verify" /\ new.gateway = run.gateway /\ new.opts = run.opts
        /\ new.mem = run.mem /\ new.auth = run.auth /\ new.impl = run.impl
    BY <1>1, InProgress DEF RunType
  <2> HIDE DEF new
  <2>6. RunOk(new)
    BY <1>1, <2>4, <2>5 DEF RunOk, InHand, IInv
  <2>7. run' = new /\ UNCHANGED <<scenario, prover, file>>
    BY <1>3 DEF Goes, new
  <2>8. RunOk(run)'
    BY <1>3, <2>2, <2>6, <2>7 DEF RunOk, InHand, EntryFits, Started
  <2>9. \A g \in DOMAIN proxies : Started(g) => Started(g)'
    BY <1>3 DEF Started
  <2> QED
    BY <1>3, <2>2, <2>3, <2>7, <2>8, <2>9, Numbers, GrowStep DEF IInv
<1> QED
  BY <1>2, <1>3 DEF ConsensusTransfer

\* A gateway is entered once it has started.
LEMMA Entered ==
    ASSUME IInv, run.pc = "verify", Started(run.gateway), run' = NoRun,
           UNCHANGED <<scenario, prover, chainVars>>, file' \in Entry,
           file'.address = run.gateway, file'.implementation = run.impl,
           file'.auth \in {run.auth, run.mem.auth}
    PROVE  IInv'
<1>1. EntryFits(file')
  BY InProgress DEF EntryFits, IInv, RunOk
<1> QED
  BY <1>1, EndStep

LEMMA GovernanceFits ==
    ASSUME IInv, run.pc # "idle"
    PROVE  Governance \in People
BY InProgress DEF Governance, Options, People, Nobody

LEMMA VerifyKeeps ==
    ASSUME IInv, AmplifierVerify \/ ConsensusVerify
    PROVE  IInv'
<1> DEFINE g == run.gateway
<1>1. run.pc = "verify" /\ g \in DOMAIN proxies /\ g \in Nat
      /\ run.impl \in Nat /\ run.auth \in Nat
  BY Numbers DEF AmplifierVerify, ConsensusVerify, At, IInv, RunOk, InHand, RunType, None
<1>2. CASE Ends(run.mem)
  BY <1>1, <1>2, EndsWithCopy DEF Ends
<1>3. CASE /\ run.opts.script = "amplifier"
           /\ run.opts.reuseProxy \/ FirstIsCurrent(g)
           /\ Ends([run.mem EXCEPT !.address = g, !.implementation = run.impl,
                                   !.governance = Governance])
  <2>1. Started(g)
    <3>1. CASE run.opts.reuseProxy
      <4>1. g = run.mem.address /\ g # None
        BY <1>1, <3>1 DEF IInv, RunOk, InHand
      <4> QED
        BY <1>1, <4>1, InProgress
    <3>2. CASE FirstIsCurrent(g)
      <4>1. prover \in proxies[g].since
        BY <1>1 DEF IInv, ChainOk
      <4> QED
        BY <1>1, <3>2, <4>1, SignersFit DEF FirstIsCurrent, Started
    <3> QED
      BY <1>3, <3>1, <3>2
  <2> DEFINE e == [run.mem EXCEPT !.address = g, !.implementation = run.impl,
                                  !.governance = Governance]
  <2>2. /\ e \in Entry /\ e.address = g /\ e.implementation = run.impl
        /\ e.auth = run.mem.auth
    BY <1>1, GovernanceFits, InProgress DEF Entry
  <2>3. file' = e /\ run' = NoRun /\ UNCHANGED <<scenario, prover, chainVars>>
    BY <1>3 DEF Ends
  <2> HIDE DEF e
  <2> QED
    BY <1>1, <2>1, <2>2, <2>3, Entered
<1>4. CASE /\ run.opts.script = "consensus"
           /\ Ends([run.mem EXCEPT !.address = g, !.implementation = run.impl,
                         !.auth = run.auth, !.tokenDeployer = TRUE,
                         !.governance = Governance])
  <2>1. Started(g)
    BY <1>1, <1>4 DEF IInv, RunOk, InHand
  <2> DEFINE e == [run.mem EXCEPT !.address = g, !.implementation = run.impl,
                         !.auth = run.auth, !.tokenDeployer = TRUE,
                         !.governance = Governance]
  <2>2. /\ e \in Entry /\ e.address = g /\ e.implementation = run.impl
        /\ e.auth = run.auth
    BY <1>1, GovernanceFits, InProgress DEF Entry
  <2>3. file' = e /\ run' = NoRun /\ UNCHANGED <<scenario, prover, chainVars>>
    BY <1>4 DEF Ends
  <2> HIDE DEF e
  <2> QED
    BY <1>1, <2>1, <2>2, <2>3, Entered
<1>5. Ends(run.mem) \/ <1>3!1 \/ <1>4!1
  BY DEF AmplifierVerify, ConsensusVerify, At
<1> QED
  BY <1>2, <1>3, <1>4, <1>5

LEMMA ToUpgradeKeeps ==
    ASSUME IInv, AmplifierUpgrade \/ ConsensusUpgrade
    PROVE  IInv'
<1>1. run.pc = "check"
  BY DEF AmplifierUpgrade, ConsensusUpgrade, At
<1>2. /\ AtPrompt \in Entry /\ AtPrompt.address = run.mem.address
      /\ AtPrompt.implementation = run.mem.implementation
      /\ AtPrompt.auth = run.mem.auth
  <2>1. run.opts.governance \in People
    BY <1>1, InProgress DEF Options, People, Nobody
  <2> QED
    BY <1>1, <2>1, InProgress DEF AtPrompt, Entry
<1>3. CASE \E m \in {run.mem, AtPrompt} : Ends(m)
  BY <1>1, <1>2, <1>3, InProgress, EndStep DEF Ends, EntryFits
<1>4. ASSUME NEW new, \/ new = [run EXCEPT !.pc = "upgrade"]
                      \/ new = [run EXCEPT !.pc = "upgrade", !.mem = AtPrompt],
             None \notin {run.mem.address, run.mem.implementation},
             Goes(new), UNCHANGED chainVars
      PROVE  IInv'
  <2>1. new \in RunType(new.opts)
    BY <1>1, <1>2, <1>4, InProgress DEF RunType, PCs
  <2>2. /\ new.pc = "upgrade" /\ new.opts = run.opts /\ new.mem \in {run.mem, AtPrompt}
        /\ new.auth = run.auth /\ new.impl = run.impl /\ new.gateway = run.gateway
    BY <1>1, <1>4, InProgress DEF RunType
  <2>3. RunOk(new)
    BY <1>1, <1>2, <1>4, <2>1, <2>2 DEF RunOk, InHand, IInv, EntryFits
  <2> QED
    BY <1>4, <2>3, QuietGoes
<1> QED
  BY <1>3, <1>4 DEF AmplifierUpgrade, ConsensusUpgrade

LEMMA UpgradeKeeps ==
    ASSUME IInv, Upgrade
    PROVE  IInv'
<1> DEFINE g == run.mem.address
<1>1. /\ run.pc = "upgrade" /\ file' = run.mem /\ run' = NoRun
      /\ UNCHANGED <<scenario, prover, auths, impls, placed>>
  BY DEF Upgrade
<1>2. g \in DOMAIN proxies /\ g \in Nat /\ run.mem.implementation \in 1..Len(impls)
  BY <1>1, InProgress, Numbers DEF IInv, RunOk, InHand, Entry, EntryFits, None
<1>3. /\ proxies' \in Seq(Proxy) /\ Len(proxies') = Len(proxies)
      /\ DOMAIN proxies' = DOMAIN proxies
      /\ \A i \in DOMAIN proxies : /\ proxies'[i].first = proxies[i].first
                                   /\ proxies'[i].since = proxies[i].since
                                   /\ proxies'[i].implementation <= Len(impls)
  <2>1. proxies \in [1..Len(proxies) -> Proxy] /\ proxies \in Seq(Proxy)
    BY Numbers DEF IInv, ChainOk
  <2>2. CASE proxies' = proxies
    BY <2>2, Numbers DEF IInv, ChainOk
  <2>3. CASE proxies' = [proxies EXCEPT ![g].implementation = run.mem.implementation,
                               ![g].governance =
                                  IF run.opts.script = "consensus" THEN Governance ELSE @]
    <3> DEFINE new == [proxies[g] EXCEPT !.implementation = run.mem.implementation,
                          !.governance = IF run.opts.script = "consensus"
                                         THEN Governance ELSE @]
    <3>1. proxies' = [proxies EXCEPT ![g] = new]
      BY <1>2, <2>1, <2>3
    <3>2. proxies[g] \in Proxy
      BY <1>2, <2>1
    <3>3. Governance \in People \ {Nobody}
      BY <1>1, InProgress DEF Governance, Options, People, Nobody
    <3>4. /\ new \in Proxy /\ new.first = proxies[g].first
          /\ new.since = proxies[g].since /\ new.implementation <= Len(impls)
      <4> DEFINE i == run.mem.implementation
                 p == IF run.opts.script = "consensus" THEN Governance
                      ELSE proxies[g].governance
      <4>1. i \in Nat \ {0} /\ i <= Len(impls)
        BY <1>2, Numbers
      <4>2. p \in People \ {Nobody}
        BY <3>2, <3>3 DEF Proxy
      <4>3. new = [proxies[g] EXCEPT !.implementation = i, !.governance = p]
        BY <3>2 DEF Proxy
      <4> HIDE DEF new, i, p
      <4> QED
        BY <3>2, <4>1, <4>2, <4>3 DEF Proxy
    <3> HIDE DEF new
    <3>5. proxies' \in [1..Len(proxies) -> Proxy]
      BY <2>1, <3>1, <3>4
    <3>6. \A i \in DOMAIN proxies : proxies'[i] = IF i = g THEN new ELSE proxies[i]
      BY <2>1, <3>1
    <3>7. \A i \in DOMAIN proxies : proxies[i].implementation <= Len(impls)
      BY DEF IInv, ChainOk
    <3> QED
      BY <3>4, <3>5, <3>6, <3>7, Numbers
  <2> QED
    BY <2>2, <2>3 DEF Upgrade
<1>4. ChainOk'
  BY <1>1, <1>3 DEF IInv, ChainOk
<1>5. FileOk'
  <2>1. file' \in Entry /\ EntryFits(file')
    BY <1>1, InProgress
  <2>2. Started(g)
    BY <1>1, <1>2, InProgress, Numbers DEF None
  <2>3. Started(file.address)'
    BY <1>1, <1>2, <1>3, <2>2 DEF Started
  <2> QED
    BY <1>1, <1>3, <2>1, <2>3 DEF FileOk, EntryFits
<1>6. RunOk(run)'
  BY <1>1, <1>3, NothingFits DEF RunOk, InHand, EntryFits, NoRun
<1> QED
  BY <1>1, <1>4, <1>5, <1>6 DEF IInv

LEMMA RotateKeeps ==
    ASSUME IInv, Rotate
    PROVE  IInv'
<1>1. /\ prover < MaxSets /\ prover' = prover + 1
      /\ UNCHANGED <<scenario, auths, impls, placed, file, run>>
      /\ proxies' = [i \in DOMAIN proxies |->
                        [proxies[i] EXCEPT !.since = @ \cup {prover + 1}]]
  BY DEF Rotate
<1>2. prover' \in 1..MaxSets
  BY <1>1, Constants DEF IInv
<1>3. ASSUME NEW i \in DOMAIN proxies
      PROVE  /\ proxies'[i] \in Proxy /\ proxies'[i].first = proxies[i].first
             /\ proxies'[i].since = proxies[i].since \cup {prover'}
             /\ proxies'[i].implementation = proxies[i].implementation
  <2>1. proxies'[i] = [proxies[i] EXCEPT !.since = proxies[i].since \cup {prover'}]
    BY <1>1
  <2>2. proxies[i] \in Proxy
    BY Numbers
  <2>3. proxies[i].since \cup {prover'} \in SUBSET (1..MaxSets)
    BY <1>2, <2>2 DEF Proxy
  <2> QED
    BY <2>1, <2>2, <2>3 DEF Proxy
<1>4. /\ proxies' \in Seq(Proxy) /\ Len(proxies') = Len(proxies)
      /\ DOMAIN proxies' = DOMAIN proxies
  <2>1. proxies' \in [1..Len(proxies) -> Proxy]
    BY <1>1, <1>3, Numbers
  <2> QED
    BY <2>1, Numbers
<1>5. ChainOk'
  BY <1>1, <1>3, <1>4 DEF IInv, ChainOk
<1>6. \A g \in DOMAIN proxies : Started(g) => Started(g)'
  BY <1>3 DEF Started
<1>7. RunOk(run)'
  <2>1. run.gateway # None => run.gateway \in DOMAIN proxies
    BY Numbers DEF IInv, RunOk, RunType, None
  <2> QED
    BY <1>1, <1>4, <1>6, <2>1 DEF IInv, RunOk, InHand, EntryFits
<1> QED
  BY <1>1, <1>2, <1>4, <1>5, <1>6, <1>7, Numbers, GrowStep
-----------------------------------------------------------------------------
LEMMA InitHolds == Init => IInv
<1> SUFFICES ASSUME Init
             PROVE  IInv
  OBVIOUS
<1>1. /\ auths = <<>> /\ impls = <<>> /\ proxies = <<>> /\ file = EmptyEntry
      /\ run = NoRun /\ prover = 1 /\ scenario \in Scenarios
      /\ placed = [s \in Salts |-> [impl |-> None, proxy |-> None]]
  BY DEF Init
<1>2. ChainOk
  <2>1. auths \in Seq(Nat) /\ impls \in Seq(Nat) /\ proxies \in Seq(Proxy)
    BY <1>1
  <2> QED
    BY <1>1, <2>1 DEF ChainOk, None
<1>3. EmptyEntry \in Entry /\ EntryFits(EmptyEntry)
  BY <1>1, Constants DEF EmptyEntry, Entry, EntryFits, People, Nobody, None
<1>4. FileOk
  BY <1>1, <1>3 DEF FileOk, EmptyEntry
<1>5. RunOk(NoRun)
  <2>1. NoRun \in RunType(NoRun.opts)
    BY <1>3 DEF NoRun, RunType, PCs, None
  <2> QED
    BY <1>1, <1>3, <2>1 DEF NoRun, RunOk, InHand, None
<1>6. prover \in 1..MaxSets
  BY <1>1, Constants
<1> QED
  BY <1>1, <1>2, <1>4, <1>5, <1>6 DEF IInv

LEMMA NextKeeps == IInv /\ [Next]_vars => IInv'
<1> SUFFICES ASSUME IInv, [Next]_vars
             PROVE  IInv'
  OBVIOUS
<1>1. CASE Begin
  BY <1>1, BeginKeeps
<1>2. CASE Decline
  BY <1>2, DeclineKeeps
<1>3. CASE AmplifierCheck \/ ConsensusCheck
  BY <1>3, CheckKeeps
<1>4. CASE AmplifierImplementation \/ ConsensusImplementation
  BY <1>4, AmplifierImplementationKeeps, ConsensusImplementationKeeps
<1>5. CASE AmplifierSetup
  BY <1>5, SetupKeeps
<1>6. CASE AmplifierProxy \/ ConsensusProxy
  BY <1>6, AmplifierProxyKeeps, ConsensusProxyKeeps
<1>7. CASE AmplifierVerify \/ ConsensusVerify
  BY <1>7, VerifyKeeps
<1>8. CASE ConsensusAuth \/ ConsensusTokenDeployer \/ ConsensusTransfer
  BY <1>8, AuthKeeps, TokenDeployerKeeps, TransferKeeps
<1>9. CASE AmplifierUpgrade \/ ConsensusUpgrade \/ Upgrade
  BY <1>9, ToUpgradeKeeps, UpgradeKeeps
<1>10. CASE Fail \/ Crash
  BY <1>10, FaultsKeep
<1>11. CASE Rotate
  BY <1>11, RotateKeeps
<1>12. CASE UNCHANGED vars
  <2>1. RunOk(run')
    BY <1>12 DEF vars, IInv
  <2> QED
    BY <1>12, <2>1, QuietStep DEF vars
<1> QED
  BY <1>1, <1>2, <1>3, <1>4, <1>5, <1>6, <1>7, <1>8, <1>9, <1>10, <1>11, <1>12
     DEF Next, RunStep

LEMMA Invariance == Spec => []IInv
BY InitHolds, NextKeeps, PTL DEF Spec

LEMMA Typed == IInv => TypeOK
<1> SUFFICES ASSUME IInv
             PROVE  TypeOK
  OBVIOUS
<1>1. \A i \in DOMAIN auths : auths[i] \in 0..Len(proxies)
  BY Numbers DEF IInv, ChainOk
<1>2. \A i \in DOMAIN impls : impls[i] \in 0..Len(auths)
  BY Numbers DEF IInv, ChainOk
<1>3. ASSUME NEW i \in DOMAIN proxies
      PROVE  /\ proxies[i].implementation \in DOMAIN impls
             /\ proxies[i].first \in 1..MaxSets \cup {Debug}
             /\ proxies[i].since \subseteq 1..MaxSets
             /\ {proxies[i].operator, proxies[i].governance} \subseteq People \ {Nobody}
  <2>1. proxies[i] \in Proxy /\ proxies[i].implementation <= Len(impls)
    BY Numbers DEF IInv, ChainOk
  <2> QED
    BY <2>1, Numbers DEF Proxy, Signers
<1>4. \A s \in Salts : /\ placed[s].impl \in 0..Len(impls)
                       /\ placed[s].proxy \in 0..Len(proxies)
  BY Numbers DEF IInv, ChainOk
<1>5. ASSUME NEW e \in Entry, EntryFits(e)
      PROVE  e \in Entries
  BY <1>5, Numbers DEF Entry, Entries, EntryFits
<1>6. file \in Entries /\ run.mem \in Entries
  BY <1>5 DEF IInv, FileOk, RunOk, RunType
<1>7. /\ run.pc \in PCs /\ run.auth \in 0..Len(auths) /\ run.impl \in 0..Len(impls)
      /\ run.gateway \in 0..Len(proxies)
  BY Numbers DEF IInv, RunOk, RunType
<1> QED
  BY <1>1, <1>2, <1>3, <1>4, <1>6, <1>7 DEF TypeOK, IInv

\* Of both deployment scripts: no entry, no run and no contract names a contract that
\* is not on the chain, through every failure, kill and upgrade, and every gateway has
\* an implementation, an operator and a governance.
THEOREM TypeCorrect == Spec => []TypeOK
BY Invariance, Typed, PTL

\* A gateway gets into the configuration only if its first signers are those the prover
\* had at some moment after it was deployed, or the debug signer: the comparison at
\* deploy-amplifier-gateway.js:248 is with signers that are read anew, not with those
\* the gateway was deployed with, and the consensus gateway reads them as it deploys.
THEOREM StartsWithItsSigners == Spec => []StartsWithSigning
<1>1. IInv => StartsWithSigning
  BY DEF IInv, FileOk, Started, StartsWithSigning
<1> QED
  BY <1>1, Invariance, PTL
-----------------------------------------------------------------------------
(* Auth modules.  An Amplifier deployment over a consensus entry would     *)
(* leave the auth module of the former gateway in it, and with create3 a   *)
(* former implementation, with a former auth module, would be found again. *)

\* The runs of a chain are of one script; the consensus gateway is deployed with create,
\* the default of deploy-gateway-v6.2.x.js:506.
OneScript(sc, script) ==
    \A o \in sc.options : o.script = script /\ (script = "consensus" => o.salt = NoSalt)
OneScriptOnly ==
    \A sc \in Scenarios : OneScript(sc, "amplifier") \/ OneScript(sc, "consensus")

NoAuths ==
    /\ \A i \in DOMAIN impls : impls[i] = None
    /\ run.auth = None /\ file.auth = None

Owned(a, g) == a # None => auths[a] = g

\* Also the implementation an upgrade would go to refers to an auth module of the gateway.
FileOwned ==
    /\ file.address = None => file.auth = None /\ file.implementation = None
    /\ Owned(file.auth, file.address)
    /\ file.implementation # None => Owned(impls[file.implementation], file.address)
    /\ file.address # None => Owned(LiveAuth(file.address), file.address)

\* The implementation in hand refers to the auth module in hand, or is the one of the
\* entry, and the run keeps to its gateway.
RunOwned ==
    run.pc \in {"proxy", "transfer", "verify"} =>
        \/ impls[run.impl] = run.auth
        \/ /\ run.impl = file.implementation /\ run.opts.skipExisting
           /\ file.address # None /\ (run.pc # "proxy" => run.gateway = file.address)

OwnedInv ==
    /\ OneScript(scenario, "amplifier") => NoAuths
    /\ OneScript(scenario, "consensus") => FileOwned /\ RunOwned

LEMMA FileInRange ==
    ASSUME IInv
    PROVE  /\ file.auth # None => file.auth \in DOMAIN auths
           /\ file.implementation # None => file.implementation \in DOMAIN impls
           /\ file.address # None => file.address \in DOMAIN proxies
           /\ \A i \in DOMAIN impls : impls[i] # None => impls[i] \in DOMAIN auths
           /\ \A g \in DOMAIN proxies : proxies[g].implementation \in DOMAIN impls
<1>1. /\ file.auth \in 0..Len(auths) /\ file.implementation \in 0..Len(impls)
      /\ file.address \in 0..Len(proxies)
  BY Numbers DEF IInv, FileOk, Entry, EntryFits
<1>2. \A i \in DOMAIN impls : impls[i] \in 0..Len(auths)
  BY Numbers DEF IInv, ChainOk
<1>3. \A g \in DOMAIN proxies : proxies[g].implementation \in DOMAIN impls
  BY Numbers DEF IInv, ChainOk, Proxy
<1> QED
  BY <1>1, <1>2, <1>3, Numbers DEF None

\* What is owned stays owned when only modules of the wallet are handed over, and when
\* the gateway is upgraded to the implementation of its entry.
LEMMA OwnsStill ==
    ASSUME IInv, FileOwned,
           file'.address = file.address, file'.auth = file.auth,
           file'.implementation = file.implementation,
           \A a \in DOMAIN auths : auths'[a] = auths[a] \/ auths[a] = Wallet,
           \A i \in DOMAIN impls : impls'[i] = impls[i],
           \A g \in DOMAIN proxies :
              \/ proxies'[g].implementation = proxies[g].implementation
              \/ /\ g = file.address /\ file.implementation # None
                 /\ proxies'[g].implementation = file.implementation
    PROVE  FileOwned'
<1>1. CASE file.address = None
  BY <1>1 DEF FileOwned, Owned
<1>2. CASE file.address # None
  <2> DEFINE g == file.address
             Kept(a) == (a # None => auths[a] = g) => (a # None => auths'[a] = g)
  <2>1. \A a \in DOMAIN auths \cup {None} : Kept(a)
    BY <1>2 DEF Wallet, None
  <2>2. Kept(file.auth)
    BY <2>1, FileInRange
  <2>3. file.implementation # None =>
           Kept(impls[file.implementation])
           /\ impls'[file.implementation] = impls[file.implementation]
    BY <2>1, FileInRange
  <2>4. Kept(LiveAuth(g)) /\ g \in DOMAIN proxies
        /\ LiveAuth(g) = impls[proxies[g].implementation]
        /\ impls'[proxies[g].implementation] = impls[proxies[g].implementation]
    BY <1>2, <2>1, FileInRange DEF LiveAuth
  <2>5. (impls'[proxies'[g].implementation] # None =>
            auths'[impls'[proxies'[g].implementation]] = g)
    <3>1. CASE proxies'[g].implementation = proxies[g].implementation
      BY <1>2, <2>4, <3>1 DEF FileOwned, Owned
    <3>2. CASE proxies'[g].implementation = file.implementation
               /\ file.implementation # None
      BY <2>3, <3>2 DEF FileOwned, Owned
    <3> QED
      BY <2>4, <3>1, <3>2
  <2> QED
    BY <1>2, <2>2, <2>3, <2>5 DEF FileOwned, Owned, LiveAuth
<1> QED
  BY <1>1, <1>2

LEMMA CopyIsCurrent ==
    ASSUME IInv, run.pc # "idle"
    PROVE  /\ run.mem.address = file.address /\ run.mem.auth = file.auth
           /\ run.mem.implementation = file.implementation
           /\ AtPrompt.address = file.address /\ AtPrompt.auth = file.auth
           /\ AtPrompt.implementation = file.implementation
<1>1. /\ run.mem.address = file.address /\ run.mem.auth = file.auth
      /\ run.mem.implementation = file.implementation
  BY DEF IInv, RunOk, InHand
<1> QED
  BY <1>1, InProgress DEF AtPrompt, Entry

LEMMA NoAuthsStep ==
    ASSUME IInv, OneScript(scenario, "amplifier"), NoAuths, Next
    PROVE  NoAuths'
<1>1. run.pc # "idle" => run.opts.script = "amplifier"
  BY InProgress DEF OneScript
<1>2. ASSUME file'.auth = None, run'.auth = None, UNCHANGED impls
      PROVE  NoAuths'
  BY <1>2 DEF NoAuths
<1>3. NoRun.auth = None
  BY DEF NoRun
<1>4. run.auth = None /\ file.auth = None /\ \A i \in DOMAIN impls : impls[i] = None
  BY DEF NoAuths
<1>5. CASE Begin
  <2>1. run'.auth = None /\ UNCHANGED <<impls, file>>
    BY <1>3, <1>5 DEF Begin, NoRun, chainVars
  <2> QED
    BY <1>2, <1>4, <2>1
<1>6. CASE Decline \/ Fail \/ Crash \/ Upgrade
  <2>1. run' = NoRun /\ UNCHANGED impls /\ file' \in {run.mem, AtPrompt, file}
    BY <1>6 DEF Decline, Fail, Crash, Upgrade, Ends, chainVars
  <2>2. run.pc # "idle"
    BY <1>6 DEF Decline, Fail, Crash, Upgrade
  <2> QED
    BY <1>2, <1>3, <1>4, <2>1, <2>2, CopyIsCurrent
<1>7. CASE AmplifierCheck \/ AmplifierUpgrade
  <2>1. run.pc # "idle"
    BY <1>7 DEF AmplifierCheck, AmplifierUpgrade, At
  <2>2. CASE Ends(run.mem)
    BY <1>2, <1>3, <1>4, <2>1, <2>2, CopyIsCurrent DEF Ends, chainVars
  <2>3. CASE UNCHANGED <<impls, file>> /\ run'.auth = run.auth
    BY <1>2, <1>4, <2>3
  <2>4. CASE AmplifierCheck
    <3>1. \/ Ends(run.mem)
          \/ /\ Goes([run EXCEPT !.pc = "implementation",
                         !.gateway = IF run.opts.reuseProxy THEN run.mem.address ELSE None])
             /\ UNCHANGED chainVars
      BY <2>4 DEF AmplifierCheck
    <3> QED
      BY <2>1, <2>2, <2>3, <3>1, InProgress DEF Goes, chainVars, RunType
  <2>5. CASE AmplifierUpgrade
    <3>1. \/ Ends(run.mem)
          \/ Goes([run EXCEPT !.pc = "upgrade"]) /\ UNCHANGED chainVars
      BY <2>5 DEF AmplifierUpgrade
    <3> QED
      BY <2>1, <2>2, <2>3, <3>1, InProgress DEF Goes, chainVars, RunType
  <2> QED
    BY <1>7, <2>4, <2>5
<1>8. CASE AmplifierImplementation
  <2>1. run.pc # "idle" /\ run \in RunType(run.opts)
    BY <1>8, InProgress DEF AmplifierImplementation, At
  <2>2. /\ run'.auth = run.auth /\ file' = file
        /\ UNCHANGED impls \/ impls' = Append(impls, None)
    BY <1>8, <2>1 DEF AmplifierImplementation, DeployImplementation, Goes, chainVars, RunType
  <2>3. \A i \in DOMAIN impls' : impls'[i] = None
    <3>1. CASE impls' = Append(impls, None)
      <4>1. impls \in Seq(Nat) /\ None \in Nat
        BY Constants DEF IInv, ChainOk
      <4>2. /\ DOMAIN impls' = 1..(Len(impls) + 1)
            /\ \A i \in 1..Len(impls) : impls'[i] = impls[i]
            /\ impls'[Len(impls) + 1] = None
        BY <3>1, <4>1
      <4> QED
        BY <1>4, <4>2, Numbers
    <3> QED
      BY <1>4, <2>2, <3>1
  <2> QED
    BY <1>4, <2>2, <2>3 DEF NoAuths
<1>9. CASE AmplifierSetup \/ AmplifierProxy
  <2>1. run.pc # "idle" /\ run \in RunType(run.opts)
    BY <1>9, InProgress DEF AmplifierSetup, AmplifierProxy, At
  <2>2. run'.auth = run.auth /\ UNCHANGED <<impls, file>>
    BY <1>9, <2>1 DEF AmplifierSetup, AmplifierProxy, Goes, chainVars, RunType
  <2> QED
    BY <1>2, <1>4, <2>2
<1>10. CASE AmplifierVerify
  <2>1. run.pc # "idle" /\ run.mem \in Entry
    BY <1>10, InProgress DEF AmplifierVerify, At
  <2>2. run' = NoRun /\ UNCHANGED impls /\ file'.auth = run.mem.auth
    BY <1>10, <2>1 DEF AmplifierVerify, Ends, chainVars, Entry
  <2> QED
    BY <1>2, <1>3, <1>4, <2>1, <2>2, CopyIsCurrent
<1>11. CASE Rotate
  BY <1>2, <1>4, <1>11 DEF Rotate
<1>12. ASSUME NEW pc \in PCs \ {"idle"}, At("consensus", pc)
       PROVE  FALSE
  BY <1>1, <1>12 DEF At
<1> QED
  BY <1>5, <1>6, <1>7, <1>8, <1>9, <1>10, <1>11, <1>12
     DEF Next, RunStep, PCs, ConsensusCheck, ConsensusAuth, ConsensusTokenDeployer,
         ConsensusImplementation, ConsensusProxy, ConsensusTransfer, ConsensusVerify,
         ConsensusUpgrade

\* Steps that leave the chain alone and do not enter a gateway.
LEMMA OwnsQuietly ==
    ASSUME IInv, FileOwned, UNCHANGED chainVars,
           file'.address = file.address, file'.auth = file.auth,
           file'.implementation = file.implementation
    PROVE  FileOwned'
BY OwnsStill DEF chainVars

LEMMA Appended ==
    ASSUME NEW S, NEW s \in Seq(S), NEW e \in S
    PROVE  /\ \A i \in DOMAIN s : Append(s, e)[i] = s[i]
           /\ Append(s, e)[Len(s) + 1] = e /\ Len(Append(s, e)) = Len(s) + 1
OBVIOUS

LEMMA NewImplementationOwned ==
    ASSUME IInv, FileOwned, OneScript(scenario, "consensus"), ConsensusImplementation
    PROVE  FileOwned' /\ RunOwned'
<1>1. /\ run.pc = "implementation" /\ run.opts.salt = NoSalt /\ run \in RunType(run.opts)
      /\ run.opts \in scenario.options
  BY InProgress DEF ConsensusImplementation, At, OneScript
<1> DEFINE next == [run EXCEPT !.pc = "proxy"]
<1>2. CASE Skips("implementation")
  <2>1. /\ run' = [next EXCEPT !.impl = run.mem.implementation]
        /\ UNCHANGED <<file, chainVars>>
    BY <1>2 DEF ConsensusImplementation, Goes
  <2>2. run'.impl = file.implementation /\ run'.opts = run.opts /\ run'.pc = "proxy"
        /\ run'.auth = run.auth
    BY <1>1, <2>1, CopyIsCurrent DEF RunType
  <2>3. run.opts.skipExisting /\ file.implementation # None
    BY <1>1, <1>2, CopyIsCurrent DEF Skips
  <2>4. RunOwned'
    BY <2>1, <2>2, <2>3 DEF RunOwned, FileOwned
  <2> QED
    BY <2>1, <2>4, OwnsQuietly
<1>3. CASE ~Skips("implementation")
  <2>1. Found("impl") = None
    BY <1>1 DEF Found
  <2>2. /\ impls' = Append(impls, run.auth) /\ UNCHANGED <<file, auths, proxies>>
        /\ run' = [next EXCEPT !.impl = Len(impls')]
    BY <1>3, <2>1 DEF ConsensusImplementation, DeployImplementation, Goes
  <2>3. impls \in Seq(Nat) /\ run.auth \in Nat
    BY <1>1 DEF IInv, ChainOk, RunType
  <2>4. /\ \A i \in DOMAIN impls : impls'[i] = impls[i]
        /\ impls'[Len(impls')] = run.auth
    BY <2>2, <2>3, Appended
  <2>5. FileOwned'
    BY <2>2, <2>4, OwnsStill
  <2>6. run'.impl = Len(impls') /\ run'.auth = run.auth
    BY <1>1, <2>2 DEF RunType
  <2>7. RunOwned'
    BY <2>4, <2>6 DEF RunOwned
  <2> QED
    BY <2>5, <2>7
<1> QED
  BY <1>2, <1>3

LEMMA NewGatewayOwned ==
    ASSUME IInv, FileOwned, RunOwned, ConsensusProxy
    PROVE  FileOwned' /\ RunOwned'
<1> DEFINE p == IF run.opts.reuseProxy /\ run.opts.reuseAuth THEN "verify" ELSE "transfer"
           next == [run EXCEPT !.pc = p]
<1>1. run.pc = "proxy" /\ run \in RunType(run.opts)
      /\ run.mem.address = file.address
  BY InProgress, CopyIsCurrent DEF ConsensusProxy, At
<1>2. UNCHANGED <<file, auths, impls>>
  BY DEF ConsensusProxy, Goes, chainVars
<1>3. FileOwned'
  <2>1. proxies' = proxies \/ proxies' = Append(proxies, Gateway(prover))
    BY DEF ConsensusProxy, chainVars
  <2>2. proxies \in Seq(Proxy) /\ prover \in Signers /\ run.impl # None
    BY <1>1 DEF IInv, ChainOk, Signers, RunOk, InHand
  <2>3. Gateway(prover) \in Proxy
    BY <1>1, <2>2, NewGateway
  <2>4. \A g \in DOMAIN proxies : proxies'[g] = proxies[g]
    BY <2>1, <2>2, <2>3, Appended
  <2> QED
    BY <1>2, <2>4, OwnsStill
<1>4. run'.impl = run.impl /\ run'.auth = run.auth /\ run'.opts = run.opts
  BY <1>1 DEF ConsensusProxy, Goes, RunType
<1>5. Skips("address") => run'.gateway = file.address
  BY <1>1 DEF ConsensusProxy, Goes, RunType
<1>6. RunOwned'
  <2>1. CASE impls[run.impl] = run.auth
    BY <1>2, <1>4, <2>1 DEF RunOwned
  <2>2. CASE /\ run.impl = file.implementation /\ run.opts.skipExisting
             /\ file.address # None
    <3>1. Skips("address")
      BY <1>1, <2>2 DEF Skips
    <3> QED
      BY <1>2, <1>4, <1>5, <2>2, <3>1 DEF RunOwned
  <2> QED
    BY <1>1, <2>1, <2>2 DEF RunOwned
<1> QED
  BY <1>3, <1>6

LEMMA HandsOver ==
    ASSUME IInv, FileOwned, RunOwned, ConsensusTransfer
    PROVE  FileOwned' /\ RunOwned'
<1>1. run.pc = "transfer" /\ run \in RunType(run.opts)
  BY InProgress DEF ConsensusTransfer, At
<1>2. CASE Ends(run.mem)
  <2>1. RunOwned'
    BY <1>2 DEF Ends, RunOwned, NoRun
  <2> QED
    BY <1>1, <1>2, <2>1, CopyIsCurrent, OwnsQuietly DEF Ends
<1>3. CASE /\ auths[run.auth] = Wallet
           /\ auths' = [auths EXCEPT ![run.auth] = run.gateway]
           /\ Goes([run EXCEPT !.pc = "verify"])
           /\ UNCHANGED <<impls, proxies, placed>>
  <2>1. \A a \in DOMAIN auths : auths'[a] = auths[a] \/ auths[a] = Wallet
    BY <1>3, Numbers DEF IInv, ChainOk
  <2>2. FileOwned'
    BY <1>3, <2>1, OwnsStill DEF Goes
  <2>3. run'.impl = run.impl /\ run'.auth = run.auth /\ run'.opts = run.opts
        /\ run'.gateway = run.gateway
    BY <1>1, <1>3 DEF Goes, RunType
  <2>4. RunOwned'
    BY <1>1, <1>3, <2>3 DEF RunOwned, Goes
  <2> QED
    BY <2>2, <2>4
<1> QED
  BY <1>2, <1>3 DEF ConsensusTransfer

\* The check of the owner is what makes the new entry right.
LEMMA EntersOwned ==
    ASSUME IInv, FileOwned, RunOwned, ConsensusVerify
    PROVE  FileOwned' /\ RunOwned'
<1> DEFINE g == run.gateway
<1>1. run.pc = "verify" /\ run.mem \in Entry /\ run.mem.address = file.address
      /\ g # None
  BY InProgress, CopyIsCurrent DEF ConsensusVerify, At, IInv, RunOk, InHand
<1>2. UNCHANGED <<auths, impls, proxies>> /\ run' = NoRun /\ RunOwned'
  BY DEF ConsensusVerify, Ends, chainVars, RunOwned, NoRun
<1>3. CASE Ends(run.mem)
  BY <1>1, <1>2, <1>3, CopyIsCurrent, OwnsQuietly DEF Ends
<1>4. CASE /\ run.opts.reuseProxy \/ LiveAuth(g) = run.auth
           /\ auths[run.auth] = g
           /\ Ends([run.mem EXCEPT !.address = g, !.implementation = run.impl,
                         !.auth = run.auth, !.tokenDeployer = TRUE,
                         !.governance = Governance])
  <2>1. file'.address = g /\ file'.implementation = run.impl /\ file'.auth = run.auth
    BY <1>1, <1>4 DEF Ends, Entry
  <2>2. Owned(run.auth, g)
    BY <1>4 DEF Owned
  <2>3. Owned(impls[run.impl], g)
    <3>1. CASE impls[run.impl] = run.auth
      BY <2>2, <3>1
    <3>2. CASE run.impl = file.implementation /\ g = file.address
      BY <1>1, <3>2 DEF FileOwned, IInv, RunOk, InHand
    <3> QED
      BY <1>1, <3>1, <3>2 DEF RunOwned
  <2>4. Owned(LiveAuth(g), g)
    <3>1. CASE LiveAuth(g) = run.auth
      BY <2>2, <3>1
    <3>2. CASE run.opts.reuseProxy
      <4>1. g = file.address
        BY <1>1, <3>2 DEF IInv, RunOk, InHand
      <4> QED
        BY <1>1, <4>1 DEF FileOwned
    <3> QED
      BY <1>4, <3>1, <3>2
  <2> QED
    BY <1>1, <1>2, <2>1, <2>2, <2>3, <2>4 DEF FileOwned, Owned, LiveAuth
<1> QED
  BY <1>3, <1>4 DEF ConsensusVerify

LEMMA OwnedStep ==
    ASSUME IInv, OneScript(scenario, "consensus"), FileOwned, RunOwned, Next
    PROVE  FileOwned' /\ RunOwned'
<1>1. run.pc # "idle" => /\ run.opts.script = "consensus" /\ run \in RunType(run.opts)
                         /\ run.mem.address = file.address /\ run.mem.auth = file.auth
                         /\ run.mem.implementation = file.implementation
  BY InProgress, CopyIsCurrent DEF OneScript
<1>2. ASSUME run'.pc \notin {"proxy", "transfer", "verify"}
      PROVE  RunOwned'
  BY <1>2 DEF RunOwned
<1>3. NoRun.pc = "idle"
  BY DEF NoRun
<1>4. CASE Begin
  <2>1. run'.pc = "check" /\ UNCHANGED <<file, chainVars>>
    BY <1>4 DEF Begin, NoRun
  <2> QED
    BY <1>2, <2>1, OwnsQuietly
<1>5. CASE Decline \/ Fail \/ Crash
  <2>1. run' = NoRun /\ UNCHANGED chainVars /\ file' \in {run.mem, AtPrompt, file}
    BY <1>5 DEF Decline, Fail, Crash, Ends
  <2>2. run.pc # "idle"
    BY <1>5 DEF Decline, Fail, Crash
  <2> QED
    BY <1>2, <1>3, <2>1, <2>2, CopyIsCurrent, OwnsQuietly
<1>6. CASE ConsensusCheck \/ ConsensusUpgrade
  <2>1. run.pc = "check"
    BY <1>6 DEF ConsensusCheck, ConsensusUpgrade, At
  <2>2. UNCHANGED chainVars /\ file' \in {run.mem, AtPrompt, file}
    BY <1>6 DEF ConsensusCheck, ConsensusUpgrade, Ends, Goes
  <2>3. run'.pc \in {"idle", "auth", "upgrade"}
    BY <1>1, <1>3, <1>6, <2>1 DEF ConsensusCheck, ConsensusUpgrade, Ends, Goes, RunType
  <2> QED
    BY <1>2, <2>1, <2>2, <2>3, CopyIsCurrent, OwnsQuietly
<1>7. CASE ConsensusAuth
  <2>1. run.pc = "auth" /\ run \in RunType(run.opts)
    BY <1>1, <1>7 DEF ConsensusAuth, At
  <2>2. /\ file' \in {run.mem, file} /\ UNCHANGED <<impls, proxies>>
        /\ auths' = auths \/ auths' = Append(auths, Wallet)
    BY <1>7 DEF ConsensusAuth, Ends, Goes, chainVars
  <2>3. run'.pc \in {"idle", "tokenDeployer"}
    BY <1>3, <1>7, <2>1 DEF ConsensusAuth, Ends, Goes, RunType
  <2>4. auths \in Seq(Nat) /\ Wallet \in Nat
    BY Constants DEF IInv, ChainOk
  <2>5. \A a \in DOMAIN auths : auths'[a] = auths[a]
    BY <2>2, <2>4, Appended
  <2> QED
    BY <1>1, <1>2, <2>1, <2>2, <2>3, <2>5, OwnsStill
<1>8. CASE ConsensusTokenDeployer
  <2>1. run.pc = "tokenDeployer" /\ run \in RunType(run.opts)
    BY <1>1, <1>8 DEF ConsensusTokenDeployer, At
  <2>2. run'.pc = "implementation" /\ UNCHANGED <<file, chainVars>>
    BY <1>8, <2>1 DEF ConsensusTokenDeployer, Goes, RunType
  <2> QED
    BY <1>2, <2>2, OwnsQuietly
<1>9. CASE Upgrade
  <2> DEFINE g == run.mem.address
  <2>1. run.pc = "upgrade" /\ run.mem.implementation # None
    BY <1>9 DEF Upgrade, IInv, RunOk, InHand
  <2>2. g \in DOMAIN proxies
    BY <1>1, <1>9, <2>1, FileInRange DEF Upgrade, IInv, RunOk, InHand
  <2>3. \A i \in DOMAIN proxies :
           \/ proxies'[i].implementation = proxies[i].implementation
           \/ i = g /\ proxies'[i].implementation = run.mem.implementation
    <3>1. proxies \in [1..Len(proxies) -> Proxy]
      BY Numbers DEF IInv, ChainOk
    <3>2. CASE proxies' = proxies
      BY <3>2
    <3>3. CASE proxies' = [proxies EXCEPT ![g].implementation = run.mem.implementation,
                               ![g].governance =
                                  IF run.opts.script = "consensus" THEN Governance ELSE @]
      <4> DEFINE new == [proxies[g] EXCEPT !.implementation = run.mem.implementation,
                            !.governance = IF run.opts.script = "consensus"
                                           THEN Governance ELSE @]
      <4>1. proxies' = [proxies EXCEPT ![g] = new]
        BY <2>2, <3>1, <3>3
      <4>2. new.implementation = run.mem.implementation
        BY <2>2, <3>1 DEF Proxy
      <4> HIDE DEF new
      <4>3. \A i \in DOMAIN proxies : proxies'[i] = IF i = g THEN new ELSE proxies[i]
        BY <3>1, <4>1
      <4> QED
        BY <4>2, <4>3
    <3> QED
      BY <1>9, <3>2, <3>3 DEF Upgrade
  <2>4. run' = NoRun /\ file' = run.mem /\ UNCHANGED <<auths, impls>>
    BY <1>9 DEF Upgrade
  <2> QED
    BY <1>1, <1>2, <1>3, <2>1, <2>3, <2>4, OwnsStill
<1>10. CASE Rotate
  <2>1. /\ UNCHANGED <<auths, impls, file, run>>
        /\ proxies' = [i \in DOMAIN proxies |->
                          [proxies[i] EXCEPT !.since = @ \cup {prover + 1}]]
    BY <1>10 DEF Rotate
  <2>2. \A i \in DOMAIN proxies : proxies'[i].implementation = proxies[i].implementation
    BY <2>1, Numbers DEF Proxy
  <2>3. RunOwned'
    BY <2>1 DEF RunOwned
  <2> QED
    BY <2>1, <2>2, <2>3, OwnsStill
<1>11. ASSUME NEW pc \in PCs \ {"idle"}, At("amplifier", pc)
       PROVE  FALSE
  BY <1>1, <1>11 DEF At
<1>12. ~(AmplifierCheck \/ AmplifierImplementation \/ AmplifierSetup \/ AmplifierProxy
         \/ AmplifierVerify \/ AmplifierUpgrade)
  BY <1>11 DEF PCs, AmplifierCheck, AmplifierImplementation, AmplifierSetup,
               AmplifierProxy, AmplifierVerify, AmplifierUpgrade
<1> QED
  BY <1>4, <1>5, <1>6, <1>7, <1>8, <1>9, <1>10, <1>12, NewImplementationOwned,
     NewGatewayOwned, HandsOver, EntersOwned
     DEF Next, RunStep

LEMMA OwnedInit == Init => OwnedInv
BY DEF Init, OwnedInv, NoAuths, FileOwned, RunOwned, Owned, NoRun, EmptyEntry

LEMMA OwnedNext == IInv /\ OwnedInv /\ [Next]_vars => OwnedInv'
<1> SUFFICES ASSUME IInv, OwnedInv, [Next]_vars
             PROVE  OwnedInv'
  OBVIOUS
<1>1. CASE UNCHANGED vars
  BY <1>1 DEF vars, chainVars, OwnedInv, OneScript, NoAuths, FileOwned, RunOwned, Owned,
              LiveAuth
<1>2. CASE Next
  <2>1. scenario' = scenario
    <3>1. CASE Begin \/ Decline \/ Fail \/ Crash \/ Rotate \/ Upgrade
      BY <3>1 DEF Begin, Decline, Ends, Fail, Crash, Rotate, Upgrade
    <3>2. CASE \/ AmplifierCheck \/ AmplifierSetup \/ AmplifierProxy
               \/ AmplifierVerify \/ AmplifierUpgrade
      BY <3>2 DEF AmplifierCheck, AmplifierSetup, AmplifierProxy, AmplifierVerify,
                  AmplifierUpgrade, Ends, Goes
    <3>3. CASE AmplifierImplementation \/ ConsensusImplementation
      BY <3>3 DEF AmplifierImplementation, ConsensusImplementation,
                  DeployImplementation, Goes
    <3>4. CASE ConsensusCheck \/ ConsensusAuth \/ ConsensusTokenDeployer
      BY <3>4 DEF ConsensusCheck, ConsensusAuth, ConsensusTokenDeployer, Ends, Goes
    <3>5. CASE \/ ConsensusProxy \/ ConsensusTransfer \/ ConsensusVerify
               \/ ConsensusUpgrade
      BY <3>5 DEF ConsensusProxy, ConsensusTransfer, ConsensusVerify, ConsensusUpgrade,
                  Ends, Goes
    <3> QED
      BY <1>2, <3>1, <3>2, <3>3, <3>4, <3>5 DEF Next, RunStep
  <2>2. \A script : OneScript(scenario', script) = OneScript(scenario, script)
    BY <2>1
  <2> QED
    BY <1>2, <2>2, NoAuthsStep, OwnedStep DEF OwnedInv
<1> QED
  BY <1>1, <1>2

LEMMA OwnedInvariance == Spec => []OwnedInv
BY OwnedInit, OwnedNext, Invariance, PTL DEF Spec

\* The consensus gateway in the configuration owns the auth module it uses and the one
\* in the configuration, whatever was deployed, reused, given up, killed and upgraded in
\* which order, as long as no Amplifier gateway is deployed over its entry and its
\* implementations are not deployed with create3.  What makes it so is the check of the
\* owner before the entry is written (deploy-gateway-v6.2.x.js:340).
THEOREM AuthStaysOwned ==
    ASSUME OneScriptOnly
    PROVE  Spec => []AuthIsOwned
<1>1. ASSUME IInv, OwnedInv
      PROVE  AuthIsOwned
  <2>1. scenario \in Scenarios
    BY <1>1 DEF IInv
  <2>2. CASE OneScript(scenario, "amplifier")
    <3>1. NoAuths
      BY <1>1, <2>2 DEF OwnedInv
    <3>2. file.address # None => LiveAuth(file.address) = None
      BY <1>1, <3>1, FileInRange DEF NoAuths, LiveAuth
    <3> QED
      BY <3>1, <3>2 DEF NoAuths, AuthIsOwned
  <2>3. CASE OneScript(scenario, "consensus")
    BY <1>1, <2>3 DEF OwnedInv, FileOwned, Owned, AuthIsOwned
  <2> QED
    BY <2>1, <2>2, <2>3 DEF OneScriptOnly
<1>2. IInv /\ OwnedInv => AuthIsOwned
  BY <1>1
<1> QED
  BY <1>2, Invariance, OwnedInvariance, PTL
=============================================================================
