------------------------- MODULE CosmwasmDeploy_proofs -------------------------
(***************************************************************************)
(* Addresses are unshared, what is saved is true of the chain, and the     *)
(* documented procedure does nothing twice, for any contracts, jobs and    *)
(* bounds.                                                                 *)
(*                                                                         *)
(* The first invariant says where an address can have come from.  It is    *)
(* nothing, or salted by the operator, or predicted with the salt of its   *)
(* own entry, or the chain counted it out for a contract of that entry;    *)
(* and a counted address is never one that will be counted out later.      *)
(*                                                                         *)
(* The second, Typed, gives the types of file, runs, proposals and chain.  *)
(* SavedOk says that the code id or the predicted address a command is     *)
(* about to note is the chain's.  DocInv gives every contract of the       *)
(* documented procedure one home, by which the file, the command that runs *)
(* and the chain know it.                                                  *)
(***************************************************************************)
EXTENDS CosmwasmDeploy, TLAPS, WellFoundedInduction

\* An address the chain may have for entry e after n instantiations.
Origin(a, e, n) ==
    \/ CustomSalted(a)
    \/ Len(a) = 3 /\ a[3] = e
    \/ \E k \in 1 .. n : a = Sequential(k)

IsInstance(x) == x = [e |-> x.e, code |-> x.code, admin |-> x.admin, links |-> x.links]

InstancesOk(l, n) ==
    \A a \in DOMAIN l : IsInstance(l[a]) /\ Origin(a, l[a].e, n)

\* An address the file may have for entry e while l is live.
Owned(l, a, e) ==
    \/ a = NoAddress
    \/ CustomSalted(a)
    \/ Len(a) = 3 /\ a[3] = e
    \/ Len(a) = 1 /\ a \in DOMAIN l /\ l[a].e = e

IsConfig(cfg) ==
    /\ cfg = [base |-> cfg.base, at |-> cfg.at]
    /\ cfg.at = [e \in Entries |-> [address |-> cfg.at[e].address,
                                    codeId |-> cfg.at[e].codeId]]

\* Writing an address changes that entry's alone.
LEMMA AddressWritten ==
    ASSUME NEW cfg, IsConfig(cfg), NEW c, c.e \in Entries, NEW a
    PROVE  /\ IsConfig(WithAddress(cfg, c, a))
           /\ \A f \in Entries : WithAddress(cfg, c, a).at[f].address =
                  IF f = c.e THEN a ELSE cfg.at[f].address
<1> DEFINE new == WithAddress(cfg, c, a)
<1>1. cfg = [base |-> cfg.base, at |-> cfg.at]
  BY DEF IsConfig
<1>2. new = [base |-> cfg.base, at |-> [cfg.at EXCEPT ![c.e].address = a]]
  BY <1>1 DEF WithAddress
<1>3. /\ new.base = cfg.base
      /\ new.at = [e \in Entries |-> [address |-> IF e = c.e THEN a ELSE cfg.at[e].address,
                                     codeId |-> cfg.at[e].codeId]]
  BY <1>2 DEF IsConfig
<1> HIDE DEF new
<1>4. new = [base |-> new.base, at |-> new.at]
  BY <1>2, <1>3
<1>5. IsConfig(new)
  <2>1. \A e \in Entries : new.at[e] = [address |-> new.at[e].address,
                                       codeId |-> new.at[e].codeId]
    BY <1>3
  <2>2. new.at = [e \in Entries |-> new.at[e]]
    BY <1>3
  <2>3. new.at = [e \in Entries |-> [address |-> new.at[e].address,
                                    codeId |-> new.at[e].codeId]]
    BY <2>1, <2>2, Zenon
  <2> QED
    BY <1>4, <2>3 DEF IsConfig
<1>6. \A f \in Entries : new.at[f].address = IF f = c.e THEN a ELSE cfg.at[f].address
  BY <1>3
<1> QED
  BY <1>5, <1>6 DEF new

\* Writing a code id or a hash changes no address.
LEMMA AddressKept ==
    ASSUME NEW cfg, IsConfig(cfg), NEW c, c.e \in Entries, NEW n
    PROVE  /\ IsConfig(WithCodeId(cfg, c, n)) /\ IsConfig(WithLast(cfg, c, n))
           /\ IsConfig(WithHash(cfg, c))
           /\ \A f \in Entries :
                  /\ WithCodeId(cfg, c, n).at[f].address = cfg.at[f].address
                  /\ WithLast(cfg, c, n).at[f].address = cfg.at[f].address
                  /\ WithHash(cfg, c).at[f].address = cfg.at[f].address
<1> DEFINE noted == WithCodeId(cfg, c, n)
           entry(f) == [address |-> cfg.at[f].address,
                        codeId |-> IF f = c.e THEN n ELSE cfg.at[f].codeId]
<1>1. IsConfig(noted) /\ \A f \in Entries : noted.at[f] = entry(f)
  <2>1. \A f \in Entries :
            cfg.at[f] = [address |-> cfg.at[f].address, codeId |-> cfg.at[f].codeId]
    BY DEF IsConfig
  <2>2. noted.at = [cfg.at EXCEPT ![c.e].codeId = n]
        /\ noted = [base |-> noted.base, at |-> noted.at]
    BY DEF IsConfig, WithCodeId
  <2>3. DOMAIN cfg.at = Entries /\ cfg.at = [f \in Entries |-> cfg.at[f]]
    BY DEF IsConfig
  <2>4. noted.at = [f \in Entries |-> noted.at[f]]
    BY <2>2, <2>3
  <2>5. ASSUME NEW f \in Entries PROVE noted.at[f] = entry(f)
    <3>1. CASE f = c.e
      <4>1. noted.at[f] = [cfg.at[f] EXCEPT !.codeId = n]
        BY <2>2, <2>3, <3>1
      <4> HIDE DEF noted
      <4>2. QED
        BY <2>1, <3>1, <4>1
    <3>2. CASE f # c.e
      <4>1. noted.at[f] = cfg.at[f]
        BY <2>2, <2>3, <3>2
      <4> HIDE DEF noted
      <4>2. QED
        BY <2>1, <3>2, <4>1
    <3>3. QED
      BY <3>1, <3>2
  <2>6. noted.at = [f \in Entries |-> entry(f)]
    <3> HIDE DEF noted, entry
    <3>1. QED
      BY <2>4, <2>5
  <2>7. \A f \in Entries : /\ noted.at[f].address = entry(f).address
                           /\ noted.at[f].codeId = entry(f).codeId
    BY <2>5
  <2>8. noted.at = [f \in Entries |-> [address |-> noted.at[f].address,
                                       codeId |-> noted.at[f].codeId]]
    <3>1. \A f \in Entries : entry(f) = [address |-> entry(f).address,
                                         codeId |-> entry(f).codeId]
      OBVIOUS
    <3> HIDE DEF noted, entry
    <3>2. QED
      BY <2>6, <2>7, <3>1
  <2>9. QED
    BY <2>2, <2>5, <2>8 DEF IsConfig
<1>2. WithLast(cfg, c, n).at = cfg.at /\ IsConfig(WithLast(cfg, c, n))
  BY DEF IsConfig, WithLast
<1>3. WithHash(cfg, c).at = cfg.at /\ IsConfig(WithHash(cfg, c))
  BY DEF IsConfig, WithHash
<1>4. \A f \in Entries : noted.at[f].address = cfg.at[f].address
  <2>1. TAKE f \in Entries
  <2>2. noted.at[f] = [address |-> cfg.at[f].address,
                       codeId |-> IF f = c.e THEN n ELSE cfg.at[f].codeId]
    BY <1>1
  <2>3. QED
    BY <2>2
<1>5. QED
  BY <1>1, <1>2, <1>3, <1>4, Zenon

ConfigOk(l, cfg) ==
    IsConfig(cfg) /\ \A e \in Entries : Owned(l, cfg.at[e].address, e)

IsCommand(c) == c.e \in Entries /\ c.salt \in CustomSalts \cup {NoSalt}

IsRun(r) == r = [at |-> r.at, cmd |-> r.cmd, cfg |-> r.cfg, codeId |-> r.codeId,
                 sent |-> r.sent]

RunOk(l, r) == r # Idle => IsRun(r) /\ IsCommand(r.cmd) /\ ConfigOk(l, r.cfg)

IsProposal(p) == p = [cmd |-> p.cmd, bin |-> p.bin, code |-> p.code,
                      target |-> p.target, links |-> p.links, status |-> p.status]

ProposalsOk(ps) ==
    /\ ps \in Seq({ps[i] : i \in DOMAIN ps})
    /\ \A i \in DOMAIN ps : IsProposal(ps[i]) /\ IsCommand(ps[i].cmd)

AddressInv ==
    /\ job \in Jobs /\ born \in Nat
    /\ InstancesOk(live, born)
    /\ ConfigOk(live, disk)
    /\ RunOk(live, run)
    /\ ProposalsOk(proposals)

\* What the chain counts out is told apart from what is predicted.
LEMMA SequentialShape ==
    ASSUME NEW n PROVE Len(Sequential(n)) = 1 /\ Sequential(n)[1] = n
                       /\ ~CustomSalted(Sequential(n))
BY DEF Sequential, CustomSalted

\* A predicted address has the operator's salt or the entry's own.
LEMMA PredictedShape ==
    ASSUME NEW c, IsCommand(c), NEW b, NEW w
    PROVE  LET a == Predicted(b, w, SaltOf(c))
           IN  CustomSalted(a) \/ (Len(a) = 3 /\ a[3] = c.e)
BY DEF Predicted, SaltOf, CustomSalted, IsCommand

\* The addresses of a configuration stay owned while contracts are added.
LEMMA OwnedStays ==
    ASSUME NEW l, NEW m, DOMAIN l \subseteq DOMAIN m,
           \A a \in DOMAIN l : m[a].e = l[a].e,
           NEW cfg, ConfigOk(l, cfg)
    PROVE  ConfigOk(m, cfg)
BY DEF ConfigOk, Owned

\* So do those of the copy a command works on.
LEMMA RunStays ==
    ASSUME NEW l, NEW m, DOMAIN l \subseteq DOMAIN m,
           \A a \in DOMAIN l : m[a].e = l[a].e,
           NEW r, RunOk(l, r)
    PROVE  RunOk(m, r)
BY OwnedStays DEF RunOk

\* A contract is added at an address nothing had.
LEMMA InstanceAdded ==
    ASSUME NEW l, NEW n \in Nat, InstancesOk(l, n),
           NEW x, IsInstance(x), NEW a, a \notin DOMAIN l, Origin(a, x.e, n + 1),
           NEW m, m = [b \in DOMAIN l \cup {a} |-> IF b = a THEN x ELSE l[b]]
    PROVE  /\ InstancesOk(m, n + 1)
           /\ DOMAIN l \subseteq DOMAIN m /\ \A b \in DOMAIN l : m[b].e = l[b].e
           /\ Owned(m, a, x.e)
<1>1. \A b \in DOMAIN l : m[b] = l[b]
  OBVIOUS
<1>2. a \in DOMAIN m /\ m[a] = x /\ DOMAIN m = DOMAIN l \cup {a}
  OBVIOUS
<1>3. \A b \in DOMAIN l : Origin(b, l[b].e, n + 1)
  BY DEF InstancesOk, Origin
<1>4. InstancesOk(m, n + 1)
  BY <1>1, <1>2, <1>3 DEF InstancesOk
<1>5. Owned(m, a, x.e)
  BY <1>2, SequentialShape DEF Owned, Origin
<1>6. QED
  BY <1>1, <1>2, <1>4, <1>5

\* Either way of instantiating gives the entry an address of its own.
LEMMA AddressForOrigin ==
    ASSUME NEW c, IsCommand(c), NEW code, NEW w, born \in Nat
    PROVE  Origin(AddressFor(c, code, w), c.e, born + 1)
BY PredictedShape DEF AddressFor, Origin

\* Before the job the file has what deploying its contracts left behind.
LEMMA InitOk == Init => AddressInv
<1> SUFFICES ASSUME Init PROVE AddressInv
  OBVIOUS
<1> DEFINE id(e) == CHOOSE i \in DOMAIN job.live : job.live[i] = e
           isLive(e) == \E i \in DOMAIN job.live : job.live[i] = e
           addr(e) == IF isLive(e) THEN Sequential(id(e)) ELSE NoAddress
<1>1. job \in Jobs /\ job.live \in Seq(Entries) /\ born = Len(job.live) /\ born \in Nat
  BY CosmwasmConstants DEF Init
<1>2. DOMAIN job.live = 1 .. born
  BY <1>1
<1>3. \A i \in 1 .. born : /\ Sequential(i) \in DOMAIN live
                           /\ IsInstance(live[Sequential(i)])
                           /\ live[Sequential(i)].e = job.live[i]
  <2>1. TAKE i \in 1 .. born
  <2>2. Sequential(i)[1] = i
    BY SequentialShape
  <2>3. QED
    BY <1>2, <2>2 DEF Init, IsInstance
<1>4. DOMAIN live = {Sequential(i) : i \in 1 .. born}
  BY <1>2 DEF Init
<1>5. InstancesOk(live, born)
  BY <1>3, <1>4 DEF InstancesOk, Origin
<1>6. \A e \in Entries : isLive(e) => id(e) \in 1 .. born /\ job.live[id(e)] = e
  BY <1>2
<1>7. disk.at = [e \in Entries |-> [address |-> addr(e),
                                    codeId |-> IF isLive(e) THEN id(e) ELSE 0]]
      /\ disk = [at |-> disk.at, base |-> disk.base]
  BY DEF Init
<1>8. \A e \in Entries : disk.at[e].address = addr(e)
  BY <1>7
<1>9. \A e \in Entries : Owned(live, addr(e), e)
  BY <1>3, <1>6, SequentialShape DEF Owned
<1>10. IsConfig(disk)
  BY <1>7 DEF IsConfig
<1>11. ConfigOk(live, disk)
  BY <1>8, <1>9, <1>10 DEF ConfigOk
<1>12. RunOk(live, run) /\ ProposalsOk(proposals)
  BY DEF Init, RunOk, ProposalsOk
<1>13. QED
  BY <1>1, <1>5, <1>11, <1>12 DEF AddressInv

\* A command is one the procedures and the option tables allow.
LEMMA CommandsOk == ASSUME job \in Jobs, NEW c \in Commands PROVE IsCommand(c)
<1>1. job.entries \subseteq Entries
  BY CosmwasmConstants
<1>2. CASE c \in AllCommands
  BY <1>2 DEF AllCommands, IsCommand
<1>3. CASE \E e \in job.entries, op \in {"upload", "instantiate"} : c = Following(op, e)
  BY <1>1, <1>3 DEF Following, IsCommand
<1>4. job.procedure \in {"free", "documented"}
  BY CosmwasmConstants
<1>5. QED
  BY <1>2, <1>3, <1>4 DEF Commands, DocumentedCommands

\* What a step of a command hands on: the command and an owned configuration.
LEMMA RunGoesOn ==
    ASSUME NEW l, NEW r, IsRun(r), IsCommand(r.cmd), NEW cfg, ConfigOk(l, cfg),
           NEW q, NEW at, NEW code, NEW sent,
           q = [at |-> at, cmd |-> r.cmd, cfg |-> cfg, codeId |-> code, sent |-> sent]
    PROVE  RunOk(l, q)
BY DEF RunOk, IsRun

\* A step may write an address the entry owns.
LEMMA ConfigWritten ==
    ASSUME NEW l, NEW cfg, ConfigOk(l, cfg), NEW c, IsCommand(c),
           NEW a, Owned(l, a, c.e)
    PROVE  ConfigOk(l, WithAddress(cfg, c, a))
BY AddressWritten DEF ConfigOk, IsCommand

\* A step may write code ids and hashes.
LEMMA ConfigNoted ==
    ASSUME NEW l, NEW cfg, ConfigOk(l, cfg), NEW c, IsCommand(c), NEW n
    PROVE  /\ ConfigOk(l, WithCodeId(cfg, c, n))
           /\ ConfigOk(l, WithLast(cfg, c, n))
           /\ ConfigOk(l, WithHash(cfg, c))
BY AddressKept DEF ConfigOk, IsCommand

\* What is predicted for a command is the entry's to have.
LEMMA PredictionOwned ==
    ASSUME NEW l, NEW c, IsCommand(c), NEW b, NEW w
    PROVE  Owned(l, Predicted(b, w, SaltOf(c)), c.e)
BY PredictedShape DEF Owned

\* A busy command.
LEMMA Busy ==
    ASSUME AddressInv, run.at # "idle"
    PROVE  IsRun(run) /\ IsCommand(run.cmd) /\ ConfigOk(live, run.cfg)
BY DEF AddressInv, RunOk, Idle

\* A command works on a copy of the file.
LEMMA StartOk == ASSUME AddressInv, NEW c \in Commands, Start(c) PROVE AddressInv'
<1>1. IsCommand(c)
  BY CommandsOk DEF AddressInv
<1>2. RunOk(live', run')
  BY <1>1 DEF Start, AddressInv, RunOk, IsRun, chain
<1>3. QED
  BY <1>2 DEF Start, AddressInv, chain

\* Upload writes at most an address predicted for the wallet.
LEMMA UploadOk == ASSUME AddressInv, Upload PROVE AddressInv'
<1> DEFINE c    == run.cmd
           bin  == BinaryOf[c.e[1]]
           cfg  == WithLast(run.cfg, c, Len(codes) + 1)
           here == Predicted(bin, Wallet, SaltOf(c))
<1>1. IsRun(run) /\ IsCommand(c) /\ ConfigOk(live, run.cfg)
  BY Busy DEF Upload
<1>2. ConfigOk(live, cfg)
  BY <1>1, ConfigNoted
<1>3. ConfigOk(live, WithAddress(cfg, c, here))
  BY <1>1, <1>2, ConfigWritten, PredictionOwned
<1>4. run' = [at |-> run'.at, cmd |-> c, cfg |-> run'.cfg, codeId |-> run.codeId,
              sent |-> run.sent]
      /\ run'.cfg = IF c.inst2 THEN WithAddress(cfg, c, here) ELSE cfg
  BY <1>1 DEF Upload, IsRun
<1>5. RunOk(live, run')
  BY <1>1, <1>2, <1>3, <1>4, RunGoesOn
<1>6. QED
  BY <1>5 DEF Upload, AddressInv

\* getCodeId changes no address; --predictOnly writes a predicted one.
LEMMA ChooseCodeOk == ASSUME AddressInv, NEW code, ChooseCode(code) PROVE AddressInv'
<1> DEFINE c     == run.cmd
           found == IF c.code = Fetch THEN WithLast(run.cfg, c, code) ELSE run.cfg
           noted == IF c.op \in ProposalOps THEN WithCodeId(found, c, code) ELSE found
           there == Predicted(codes[code].bin, c.runAs, SaltOf(c))
<1>1. IsRun(run) /\ IsCommand(c) /\ ConfigOk(live, run.cfg)
  BY Busy DEF ChooseCode
<1>2. ConfigOk(live, found)
  BY <1>1, ConfigNoted
<1>3. ConfigOk(live, noted)
  BY <1>1, <1>2, ConfigNoted
<1>4. ConfigOk(live, WithAddress(noted, c, there))
  BY <1>1, <1>3, ConfigWritten, PredictionOwned
<1>5. run' = [at |-> run'.at, cmd |-> c, cfg |-> run'.cfg, codeId |-> code,
              sent |-> run.sent]
      /\ run'.cfg = IF c.predictOnly THEN WithAddress(noted, c, there) ELSE noted
  BY <1>1 DEF ChooseCode, IsRun
<1>6. RunOk(live, run')
  BY <1>1, <1>3, <1>4, <1>5, RunGoesOn
<1>7. QED
  BY <1>6 DEF ChooseCode, AddressInv, chain

\* A prompt changes no address.
LEMMA AnswerOk == ASSUME AddressInv, Proceed \/ Decline PROVE AddressInv'
<1>1. IsRun(run) /\ IsCommand(run.cmd) /\ ConfigOk(live, run.cfg)
  BY Busy DEF Proceed, Decline
<1>2. ConfigOk(live, WithCodeId(run.cfg, run.cmd, run.codeId))
  BY <1>1, ConfigNoted
<1>3. /\ run' = [at |-> run'.at, cmd |-> run.cmd, cfg |-> run'.cfg,
                 codeId |-> run.codeId, sent |-> run.sent]
      /\ run'.cfg \in {run.cfg, WithCodeId(run.cfg, run.cmd, run.codeId)}
  BY <1>1 DEF Proceed, Decline, IsRun
<1>4. RunOk(live, run')
  BY <1>1, <1>2, <1>3, RunGoesOn
<1>5. QED
  BY <1>4 DEF Proceed, Decline, AddressInv, chain

\* A contract the chain adds, whether for a command or for a proposal.
LEMMA InstantiatedOk ==
    ASSUME AddressInv, NEW c, IsCommand(c), NEW code, NEW creator,
           NEW addr, addr \notin DOMAIN live, Origin(addr, c.e, born + 1),
           NEW links,
           Instantiated(addr, [e |-> c.e, code |-> code, admin |-> creator,
                               links |-> links])
    PROVE  /\ born' \in Nat /\ InstancesOk(live', born')
           /\ Owned(live', addr, c.e)
           /\ \A cfg : ConfigOk(live, cfg) => ConfigOk(live', cfg)
           /\ \A r : RunOk(live, r) => RunOk(live', r)
<1> DEFINE x == [e |-> c.e, code |-> code, admin |-> creator, links |-> links]
<1>1. IsInstance(x) /\ x.e = c.e
  BY DEF IsInstance
<1>2. /\ InstancesOk(live, born) /\ born \in Nat
      /\ live' = [b \in DOMAIN live \cup {addr} |-> IF b = addr THEN x ELSE live[b]]
      /\ born' = born + 1
  BY DEF AddressInv, Instantiated
<1>3. /\ InstancesOk(live', born + 1)
      /\ DOMAIN live \subseteq DOMAIN live'
      /\ \A b \in DOMAIN live : live'[b].e = live[b].e
      /\ Owned(live', addr, x.e)
  <2> HIDE DEF x
  <2>1. QED
    BY <1>1, <1>2, InstanceAdded
<1>4. QED
  BY <1>1, <1>2, <1>3, OwnedStays, RunStays

\* A contract the chain migrates: its code changes and nothing else.
LEMMA MigratedOk ==
    ASSUME AddressInv, NEW a \in DOMAIN live, NEW code,
           live' = [live EXCEPT ![a].code = code]
    PROVE  /\ InstancesOk(live', born)
           /\ \A cfg : ConfigOk(live, cfg) => ConfigOk(live', cfg)
           /\ \A r : RunOk(live, r) => RunOk(live', r)
<1>1. DOMAIN live' = DOMAIN live
  OBVIOUS
<1>2. \A b \in DOMAIN live : IsInstance(live[b]) /\ Origin(b, live[b].e, born)
  BY DEF AddressInv, InstancesOk
<1>3. \A b \in DOMAIN live : IsInstance(live'[b]) /\ live'[b].e = live[b].e
  BY <1>2 DEF IsInstance
<1>4. InstancesOk(live', born)
  BY <1>1, <1>2, <1>3 DEF InstancesOk
<1>5. QED
  BY <1>1, <1>3, <1>4, OwnedStays, RunStays

\* The address written is the one the contract is now live at.
LEMMA InstantiateContractOk == ASSUME AddressInv, InstantiateContract PROVE AddressInv'
<1> DEFINE c    == run.cmd
           code == run.cfg.at[c.e].codeId
           addr == AddressFor(c, code, Wallet)
<1>1. IsRun(run) /\ IsCommand(c) /\ ConfigOk(live, run.cfg) /\ born \in Nat
  BY Busy DEF InstantiateContract, AddressInv
<1>2. /\ addr \notin DOMAIN live
      /\ Instantiated(addr, [e |-> c.e, code |-> code, admin |-> Admin,
                             links |-> Message(run.cfg, c.e)])
  BY DEF InstantiateContract, CanInstantiate
<1>3. Origin(addr, c.e, born + 1)
  BY <1>1, AddressForOrigin
<1>4. /\ born' \in Nat /\ InstancesOk(live', born')
      /\ Owned(live', addr, c.e)
      /\ ConfigOk(live', run.cfg) /\ ConfigOk(live', disk)
  <2> HIDE DEF addr
  <2>1. QED
    BY <1>1, <1>2, <1>3, InstantiatedOk DEF AddressInv
<1>5. ConfigOk(live', WithAddress(run.cfg, c, addr))
  BY <1>1, <1>4, ConfigWritten
<1>6. run' = [at |-> "save", cmd |-> c, cfg |-> WithAddress(run.cfg, c, addr),
              codeId |-> run.codeId, sent |-> TRUE]
  BY <1>1 DEF InstantiateContract, IsRun
<1>7. RunOk(live', run')
  BY <1>1, <1>5, <1>6, RunGoesOn
<1>8. QED
  BY <1>4, <1>7 DEF InstantiateContract, AddressInv

\* A migration moves no contract.
LEMMA MigrateContractOk == ASSUME AddressInv, MigrateContract PROVE AddressInv'
<1>1. IsRun(run) /\ IsCommand(run.cmd) /\ ConfigOk(live, run.cfg)
  BY Busy DEF MigrateContract
<1>2. PICK a \in DOMAIN live : \E k : live' = [live EXCEPT ![a].code = k]
  BY DEF MigrateContract, CanMigrate
<1>3. InstancesOk(live', born) /\ ConfigOk(live', disk) /\ ConfigOk(live', run.cfg)
  BY <1>1, <1>2, MigratedOk DEF AddressInv
<1>4. run' = [at |-> "save", cmd |-> run.cmd, cfg |-> run.cfg,
              codeId |-> run.codeId, sent |-> TRUE]
  BY <1>1 DEF MigrateContract, IsRun
<1>5. RunOk(live', run')
  BY <1>1, <1>3, <1>4, RunGoesOn
<1>6. QED
  BY <1>3, <1>5 DEF MigrateContract, AddressInv

\* update-code-id writes no address.
LEMMA UpdateCodeIdOk == ASSUME AddressInv, UpdateCodeId PROVE AddressInv'
<1> DEFINE cfg == WithCodeId(run.cfg, run.cmd,
                             live[run.cfg.at[run.cmd.e].address].code)
<1>1. IsRun(run) /\ IsCommand(run.cmd) /\ ConfigOk(live, run.cfg)
  BY Busy DEF UpdateCodeId
<1>2. ConfigOk(live, cfg)
  BY <1>1, ConfigNoted
<1>3. run' = [at |-> "save", cmd |-> run.cmd, cfg |-> cfg,
              codeId |-> run.codeId, sent |-> run.sent]
  BY <1>1 DEF UpdateCodeId, IsRun
<1>4. RunOk(live, run')
  BY <1>1, <1>2, <1>3, RunGoesOn
<1>5. QED
  BY <1>4 DEF UpdateCodeId, AddressInv, chain

\* A proposal more.
LEMMA ProposalAdded ==
    ASSUME NEW ps, ProposalsOk(ps), NEW p, IsProposal(p), IsCommand(p.cmd)
    PROVE  ProposalsOk(Append(ps, p))
<1> DEFINE qs == Append(ps, p)
           R  == {ps[i] : i \in DOMAIN ps}
<1>1. ps \in Seq(R) /\ DOMAIN ps = 1 .. Len(ps) /\ Len(ps) \in Nat
  BY DEF ProposalsOk
<1>2. /\ DOMAIN qs = 1 .. Len(ps) + 1 /\ Len(qs) = Len(ps) + 1
      /\ qs[Len(ps) + 1] = p
      /\ \A i \in DOMAIN ps : qs[i] = ps[i]
      /\ qs \in Seq(R \cup {p})
  BY <1>1
<1>3. \A i \in DOMAIN qs : IsProposal(qs[i]) /\ IsCommand(qs[i].cmd)
  BY <1>1, <1>2 DEF ProposalsOk
<1>4. qs \in Seq({qs[i] : i \in DOMAIN qs})
  BY <1>2
<1>5. QED
  BY <1>3, <1>4 DEF ProposalsOk

\* A decided proposal keeps its command.
LEMMA ProposalDecided ==
    ASSUME NEW ps, ProposalsOk(ps), NEW i \in DOMAIN ps, NEW status
    PROVE  ProposalsOk([ps EXCEPT ![i].status = status])
<1> DEFINE qs == [ps EXCEPT ![i].status = status]
           R  == {qs[j] : j \in DOMAIN qs}
<1>1. DOMAIN qs = 1 .. Len(ps) /\ DOMAIN ps = 1 .. Len(ps) /\ Len(ps) \in Nat
  BY DEF ProposalsOk
<1>2. qs = [j \in 1 .. Len(ps) |-> qs[j]]
  BY <1>1
<1>3. qs \in Seq(R)
  <2>1. \A j \in 1 .. Len(ps) : qs[j] \in R
    BY <1>1
  <2> HIDE DEF qs, R
  <2>2. qs \in [1 .. Len(ps) -> R]
    BY <1>2, <2>1
  <2>3. QED
    BY <1>1, <2>2
<1>4. \A j \in DOMAIN qs : IsProposal(qs[j]) /\ qs[j].cmd = ps[j].cmd
  <2>1. \A j \in DOMAIN ps : IsProposal(ps[j])
    BY DEF ProposalsOk
  <2>2. TAKE j \in DOMAIN qs
  <2>3. CASE j = i
    BY <1>1, <2>1, <2>3 DEF IsProposal
  <2>4. CASE j # i
    BY <1>1, <2>1, <2>4
  <2>5. QED
    BY <2>3, <2>4
<1>5. QED
  BY <1>1, <1>3, <1>4 DEF ProposalsOk

\* Submitting keeps what the command learnt.
LEMMA SubmitOk ==
    ASSUME AddressInv, run.at = "send",
           NEW p, IsProposal(p), p.cmd = run.cmd,
           NEW cfg, ConfigOk(live, cfg), Submit(p, cfg)
    PROVE  AddressInv'
<1>1. IsRun(run) /\ IsCommand(run.cmd)
  BY Busy
<1>2. run' = [at |-> "save", cmd |-> run.cmd, cfg |-> cfg,
              codeId |-> run.codeId, sent |-> TRUE]
  BY <1>1 DEF Submit, IsRun
<1>3. RunOk(live, run')
  BY <1>1, <1>2, RunGoesOn
<1>4. ProposalsOk(proposals')
  BY <1>1, ProposalAdded DEF Submit, AddressInv
<1>5. QED
  BY <1>3, <1>4 DEF Submit, AddressInv, chain

\* A proposal is one of the command that submits it.
LEMMA ProposalShape ==
    ASSUME NEW code, NEW target, NEW links
    PROVE  LET p == Proposal(code, target, links)
           IN  IsProposal(p) /\ p.cmd = run.cmd
BY DEF Proposal, IsProposal

Submission ==
    \/ StoreCode \/ StoreInstantiate \/ ProposeInstantiate \/ ProposeMigrate
    \/ Execute \/ RegisterProtocol

\* A submitted proposal leaves a predicted address at most.
LEMMA SubmissionOk == ASSUME AddressInv, Submission PROVE AddressInv'
<1> DEFINE c    == run.cmd
           code == run.cfg.at[c.e].codeId
           addr == Predicted(codes[code].bin, c.runAs, SaltOf(c))
<1>1. run.at = "send"
  BY DEF Submission, StoreCode, StoreInstantiate, ProposeInstantiate,
         ProposeMigrate, Execute, RegisterProtocol
<1>2. IsRun(run) /\ IsCommand(c) /\ ConfigOk(live, run.cfg)
  BY <1>1, Busy
<1>3. ConfigOk(live, WithHash(run.cfg, c)) /\ ConfigOk(live, WithAddress(run.cfg, c, addr))
  BY <1>2, ConfigNoted, ConfigWritten, PredictionOwned
<1>4. CASE StoreCode
  <2> DEFINE p == Proposal(0, NoAddress, << >>)
  <2>1. IsProposal(p) /\ p.cmd = c
    BY ProposalShape
  <2>2. QED
    BY <1>1, <1>3, <1>4, <2>1, SubmitOk DEF StoreCode
<1>5. CASE StoreInstantiate
  <2> DEFINE p == Proposal(0, NoAddress, ProposedMessage(run.cmd))
  <2>1. IsProposal(p) /\ p.cmd = c
    BY ProposalShape
  <2>2. Submit(p, WithHash(run.cfg, c))
    BY <1>5 DEF StoreInstantiate
  <2>3. QED
    BY <1>1, <1>3, <2>1, <2>2, SubmitOk
<1>6. CASE ProposeInstantiate
  <2> DEFINE p   == Proposal(code, NoAddress, ProposedMessage(c))
             cfg == IF c.inst2 THEN WithAddress(run.cfg, c, addr) ELSE run.cfg
  <2>1. IsProposal(p) /\ p.cmd = c
    BY ProposalShape
  <2>2. Submit(p, cfg) /\ ConfigOk(live, cfg)
    BY <1>2, <1>3, <1>6 DEF ProposeInstantiate
  <2>3. QED
    BY <1>1, <2>1, <2>2, SubmitOk
<1>7. CASE ProposeMigrate
  <2> DEFINE a == run.cfg.at[run.cmd.e]
             p == Proposal(a.codeId, a.address, << >>)
  <2>1. IsProposal(p) /\ p.cmd = c
    BY ProposalShape
  <2>2. Submit(p, run.cfg)
    BY <1>7 DEF ProposeMigrate
  <2>3. QED
    BY <1>1, <1>2, <2>1, <2>2, SubmitOk
<1>8. CASE Execute
  <2> DEFINE p == Proposal(0, run.cfg.at[run.cmd.e].address, << >>)
  <2>1. IsProposal(p) /\ p.cmd = c
    BY ProposalShape
  <2>2. Submit(p, run.cfg)
    BY <1>8 DEF Execute
  <2>3. QED
    BY <1>1, <1>2, <2>1, <2>2, SubmitOk
<1>9. CASE RegisterProtocol
  <2> DEFINE p == Proposal(0, run.cfg.at[run.cmd.e].address,
                          [d \in ProtocolContracts |-> run.cfg.at[d].address])
  <2>1. IsProposal(p) /\ p.cmd = c
    BY ProposalShape
  <2>2. Submit(p, run.cfg)
    BY <1>9 DEF RegisterProtocol
  <2>3. QED
    BY <1>1, <1>2, <2>1, <2>2, SubmitOk
<1>10. QED
  BY <1>4, <1>5, <1>6, <1>7, <1>8, <1>9 DEF Submission

\* A command that ends, well or badly.
LEMMA EndOk == ASSUME AddressInv, Fail \/ Crash \/ SaveConfig PROVE AddressInv'
<1>1. RunOk(live', run')
  BY DEF Fail, Crash, SaveConfig, RunOk
<1>2. ConfigOk(live, run.cfg) \/ ~SaveConfig
  BY Busy DEF SaveConfig
<1>3. QED
  BY <1>1, <1>2 DEF Fail, Crash, SaveConfig, AddressInv, chain

\* What governance decides leaves files and commands alone.
LEMMA DecisionOk ==
    ASSUME AddressInv, NEW i \in DOMAIN proposals, NEW status, Decide(i, status),
           born' \in Nat, InstancesOk(live', born'),
           ConfigOk(live', disk), RunOk(live', run)
    PROVE  AddressInv'
<1>1. ProposalsOk(proposals')
  BY ProposalDecided DEF Decide, AddressInv
<1>2. QED
  BY <1>1 DEF Decide, AddressInv

\* A decision that instantiates and migrates nothing.
LEMMA ChainKept ==
    ASSUME AddressInv, NEW i \in DOMAIN proposals, NEW status, Decide(i, status),
           UNCHANGED <<live, born>>
    PROVE  AddressInv'
<1>1. live' = live /\ born' = born
  OBVIOUS
<1>2. /\ born' \in Nat /\ InstancesOk(live', born')
      /\ ConfigOk(live', disk) /\ RunOk(live', run)
  BY <1>1 DEF AddressInv
<1>3. QED
  BY <1>2, DecisionOk

\* Whatever governance decides, addresses keep their origin.
LEMMA GovernedOk == ASSUME AddressInv, Governed PROVE AddressInv'
<1>1. PICK i \in DOMAIN proposals :
          \/ Reject(i) \/ PassStore(i) \/ PassStoreInstantiate(i)
          \/ PassInstantiate(i) \/ PassMigrate(i) \/ PassExecute(i)
  BY DEF Governed
<1> DEFINE p == proposals[i]
<1>2. IsCommand(p.cmd) /\ born \in Nat
  BY DEF AddressInv, ProposalsOk
<1>3. CASE Reject(i)
  BY <1>3, ChainKept DEF Reject, chain
<1>4. CASE PassStore(i)
  BY <1>4, ChainKept DEF PassStore
<1>5. CASE PassExecute(i)
  <2>1. UNCHANGED <<live, born>> /\ \E status : Decide(i, status)
    BY <1>5 DEF PassExecute, chain
  <2>2. QED
    BY <2>1, ChainKept
<1>6. CASE PassStoreInstantiate(i)
  <2> DEFINE addr == Sequential(born + 1)
  <2>1. /\ Decide(i, "executed")
        /\ Instantiated(addr, [e |-> p.cmd.e, code |-> Len(codes) + 1,
                               admin |-> Admin, links |-> p.links])
    BY <1>6 DEF PassStoreInstantiate
  <2>2. Origin(addr, p.cmd.e, born + 1)
    BY <1>2 DEF Origin
  <2>3. addr \notin DOMAIN live
    BY <1>2, SequentialShape DEF AddressInv, InstancesOk, Origin
  <2>4. /\ born' \in Nat /\ InstancesOk(live', born')
        /\ ConfigOk(live', disk) /\ RunOk(live', run)
    <3> HIDE DEF addr, p
    <3>1. QED
      BY <1>2, <2>1, <2>2, <2>3, InstantiatedOk DEF AddressInv
  <2>5. QED
    BY <2>1, <2>4, DecisionOk
<1>7. CASE PassInstantiate(i)
  <2> DEFINE addr == AddressFor(p.cmd, p.code, p.cmd.runAs)
  <2>1. CASE ~CanInstantiate(p.cmd, p.code, p.cmd.runAs)
    BY <1>7, <2>1, ChainKept DEF PassInstantiate, chain
  <2>2. CASE CanInstantiate(p.cmd, p.code, p.cmd.runAs)
    <3>1. /\ Decide(i, "executed") /\ addr \notin DOMAIN live
          /\ Instantiated(addr, [e |-> p.cmd.e, code |-> p.code,
                                 admin |-> Admin, links |-> p.links])
      BY <1>7, <2>2 DEF PassInstantiate, CanInstantiate
    <3>2. Origin(addr, p.cmd.e, born + 1)
      BY <1>2, AddressForOrigin
    <3>3. /\ born' \in Nat /\ InstancesOk(live', born')
          /\ ConfigOk(live', disk) /\ RunOk(live', run)
      <4> HIDE DEF addr, p
      <4>1. QED
        BY <1>2, <3>1, <3>2, InstantiatedOk DEF AddressInv
    <3>4. QED
      BY <3>1, <3>3, DecisionOk
  <2>3. QED
    BY <2>1, <2>2
<1>8. CASE PassMigrate(i)
  <2>1. CASE ~CanMigrate(p.target, p.code)
    BY <1>8, <2>1, ChainKept DEF PassMigrate, chain
  <2>2. CASE CanMigrate(p.target, p.code)
    <3>1. /\ Decide(i, "executed") /\ born' = born
          /\ p.target \in DOMAIN live
          /\ live' = [live EXCEPT ![p.target].code = p.code]
      BY <1>8, <2>2 DEF PassMigrate, CanMigrate
    <3>2. /\ born' \in Nat /\ InstancesOk(live', born')
          /\ ConfigOk(live', disk) /\ RunOk(live', run)
      <4> HIDE DEF p
      <4>1. QED
        BY <1>2, <3>1, MigratedOk DEF AddressInv
    <3>3. QED
      BY <3>1, <3>2, DecisionOk
  <2>3. QED
    BY <2>1, <2>2
<1>9. QED
  BY <1>1, <1>3, <1>4, <1>5, <1>6, <1>7, <1>8

\* Every step keeps the invariant.
LEMMA NextOk == AddressInv /\ [Next]_vars => AddressInv'
<1> SUFFICES ASSUME AddressInv, [Next]_vars PROVE AddressInv'
  OBVIOUS
<1>1. CASE run = Idle /\ \E c \in Commands : Start(c)
  BY <1>1, StartOk
<1>2. CASE Upload
  BY <1>2, UploadOk
<1>3. CASE \E code \in DOMAIN codes : ChooseCode(code)
  BY <1>3, ChooseCodeOk
<1>4. CASE Proceed \/ Decline
  BY <1>4, AnswerOk
<1>5. CASE InstantiateContract
  BY <1>5, InstantiateContractOk
<1>6. CASE MigrateContract
  BY <1>6, MigrateContractOk
<1>7. CASE UpdateCodeId
  BY <1>7, UpdateCodeIdOk
<1>8. CASE Submission
  BY <1>8, SubmissionOk
<1>9. CASE Fail \/ Crash \/ SaveConfig
  BY <1>9, EndOk
<1>10. CASE Governed
  BY <1>10, GovernedOk
<1>11. CASE UNCHANGED vars
  BY <1>11 DEF vars, chain, AddressInv
<1>12. QED
  BY <1>1, <1>2, <1>3, <1>4, <1>5, <1>6, <1>7, <1>8, <1>9, <1>10, <1>11
     DEF Next, Working, Step, Submission

\* Unless the operator chose a salt, no address serves two entries of the
\* configuration, and where an entry points lives a contract of that entry or
\* nothing: for every set of contracts, binaries, jobs and interleavings with
\* governance (getSalt and the address predictions of both scripts).
THEOREM AddressesUnshared == Spec => []AddressesAreUnshared
<1>1. AddressInv => AddressesAreUnshared
  BY DEF AddressInv, ConfigOk, Owned, InstancesOk, Origin, AddressesAreUnshared,
         Sequential
<1>2. QED
  BY InitOk, NextOk, <1>1, PTL DEF Spec
-----------------------------------------------------------------------------
(* The type of what the commands keep, when the chain has counted out n    *)
(* addresses and stored m codes.                                           *)

Addr(n) == {NoAddress} \cup {Sequential(k) : k \in 1 .. n}
               \cup {Predicted(b, w, s) : b \in Binaries, s \in Salts,
                         w \in {Wallet, Governance} \cup Runners}
Base(m)    == [last : 0 .. m, hash : Binaries \cup {NoBinary}]
At(n, m)   == [address : Addr(n), codeId : 0 .. m]
Conf(n, m) == [base : [Contracts -> Base(m)], at : [Entries -> At(n, m)]]
Running(n, m) == [at : {"upload", "code", "confirm", "send", "save"}, cmd : AllCommands,
                  cfg : Conf(n, m), codeId : 0 .. m, sent : BOOLEAN]
Told(n)      == UNION {[D -> Addr(n)] : D \in SUBSET Entries}
Built(n, m)  == [e : Entries, code : 1 .. m, admin : {Admin, Governance}, links : Told(n)]
Asked(n, m)  == [cmd : AllCommands, bin : Binaries, code : 0 .. m, target : Addr(n),
                 links : Told(n), status : {"open", "executed", "failed", "rejected"}]

\* What getCodeId returned is a code, and a proposal's command has noted it.
Chosen(r, m) ==
    r # Idle /\ r.at \in {"confirm", "send"} /\ r.cmd.op \in CodeIdUsers =>
        /\ r.codeId \in 1 .. m
        /\ r.cmd.op \in ProposalOps => r.cfg.at[r.cmd.e].codeId = r.codeId

RunTyped(r, n, m) == r \in Running(n, m) \cup {Idle} /\ Chosen(r, m)

Typed ==
    /\ job \in Jobs /\ born \in Nat /\ runs \in Nat /\ crashes \in 0 .. MaxCrashes
    /\ codes \in Seq(Codes)
    /\ live \in [DOMAIN live -> Built(born, Len(codes))]
    /\ DOMAIN live \subseteq Addr(born) \ {NoAddress}
    /\ disk \in Conf(born, Len(codes))
    /\ RunTyped(run, born, Len(codes))
    /\ proposals \in Seq(Asked(born, Len(codes)))

\* The chain only grows, and what is typed stays typed.
LEMMA Grown ==
    ASSUME NEW n \in Nat, NEW m \in Nat, NEW n2 \in Nat, NEW m2 \in Nat, n <= n2, m <= m2
    PROVE  /\ Addr(n) \subseteq Addr(n2) /\ Conf(n, m) \subseteq Conf(n2, m2)
           /\ Told(n) \subseteq Told(n2) /\ Built(n, m) \subseteq Built(n2, m2)
           /\ Asked(n, m) \subseteq Asked(n2, m2)
           /\ \A r : RunTyped(r, n, m) => RunTyped(r, n2, m2)
<1>1. Addr(n) \subseteq Addr(n2) /\ 0 .. m \subseteq 0 .. m2 /\ 1 .. m \subseteq 1 .. m2
  BY DEF Addr
<1>2. Told(n) \subseteq Told(n2)
  BY <1>1 DEF Told
<1>3. Base(m) \subseteq Base(m2) /\ At(n, m) \subseteq At(n2, m2)
  BY <1>1 DEF Base, At
<1>4. Conf(n, m) \subseteq Conf(n2, m2)
  BY <1>3 DEF Conf
<1>5. Built(n, m) \subseteq Built(n2, m2) /\ Asked(n, m) \subseteq Asked(n2, m2)
  BY <1>1, <1>2 DEF Built, Asked
<1>6. Running(n, m) \subseteq Running(n2, m2)
  BY <1>1, <1>4 DEF Running
<1>7. \A r : Chosen(r, m) => Chosen(r, m2)
  BY <1>1 DEF Chosen
<1> QED
  BY <1>1, <1>2, <1>4, <1>5, <1>6, <1>7 DEF RunTyped

LEMMA MaxIn ==
    ASSUME NEW n \in Nat, NEW S, S \subseteq 1 .. n, S # {}
    PROVE  Max(S) \in S
<1> DEFINE T == {n - i : i \in S}
<1>1. T \subseteq Nat /\ T # {}
  OBVIOUS
<1>2. PICK x \in T : \A y \in T : ~(<<y, x>> \in OpToRel(<, Nat))
  <2> HIDE DEF T
  <2> QED
    BY <1>1, WFMin, NatLessThanWellFounded
<1>3. \A y \in T : ~(y < x)
  BY <1>1, <1>2 DEF OpToRel
<1>4. PICK i \in S : x = n - i
  BY <1>2
<1>5. \A j \in S : i >= j
  BY <1>3, <1>4
<1> QED
  BY <1>5 DEF Max

\* What is written is written, and everything else is kept.
LEMMA ConfigSteps ==
    ASSUME NEW n \in Nat, NEW m \in Nat, NEW cfg \in Conf(n, m), NEW c, c.e \in Entries,
           NEW a \in Addr(n), NEW k \in 0 .. m
    PROVE  /\ WithAddress(cfg, c, a) \in Conf(n, m) /\ WithCodeId(cfg, c, k) \in Conf(n, m)
           /\ WithLast(cfg, c, k) \in Conf(n, m) /\ WithHash(cfg, c) \in Conf(n, m)
<1> DEFINE name == c.e[1]
<1>1. cfg.at \in [Entries -> At(n, m)] /\ cfg.base \in [Contracts -> Base(m)]
  BY DEF Conf
<1>2. name \in Contracts /\ BinaryOf[name] \in Binaries
  BY DEF Contracts, Binaries
<1>3. [cfg.at EXCEPT ![c.e].address = a] \in [Entries -> At(n, m)]
      /\ [cfg.at EXCEPT ![c.e].codeId = k] \in [Entries -> At(n, m)]
  BY <1>1 DEF At
<1>4. [cfg.base EXCEPT ![name].last = k] \in [Contracts -> Base(m)]
      /\ [cfg.base EXCEPT ![name].hash = BinaryOf[name]] \in [Contracts -> Base(m)]
  BY <1>1, <1>2 DEF Base
<1>5. \A x \in [Entries -> At(n, m)] : [cfg EXCEPT !.at = x] \in Conf(n, m)
  BY DEF Conf
<1>6. \A x \in [Contracts -> Base(m)] : [cfg EXCEPT !.base = x] \in Conf(n, m)
  BY DEF Conf
<1> QED
  BY <1>3, <1>4, <1>5, <1>6 DEF WithAddress, WithCodeId, WithLast, WithHash

\* The commands there are.
LEMMA CommandTyped == ASSUME job \in Jobs, NEW c \in Commands PROVE c \in AllCommands
<1>1. job.entries \subseteq Entries /\ job.procedure \in {"free", "documented"}
  BY CosmwasmConstants
<1>2. CASE c \in AllCommands
  BY <1>2
<1>3. CASE \E e \in Entries, op \in {"upload", "instantiate"} : c = Following(op, e)
  <2>1. PICK e \in Entries, op \in {"upload", "instantiate"} : c = Following(op, e)
    BY <1>3
  <2>2. op \in Operations
    BY DEF Operations, DirectOps
  <2>3. Accepts(c)
    BY <2>1 DEF Accepts, Following, Instantiations, CodeIdUsers
  <2> QED
    BY <2>1, <2>2, <2>3 DEF AllCommands, Following
<1> QED
  BY <1>1, <1>2, <1>3 DEF Commands, DocumentedCommands

\* The chain may have an address predicted for a command.
LEMMA PredictedTyped ==
    ASSUME NEW c \in AllCommands, NEW b \in Binaries, NEW n,
           NEW w \in {Wallet, Governance} \cup Runners
    PROVE  Predicted(b, w, SaltOf(c)) \in Addr(n)
<1>1. SaltOf(c) \in Salts
  BY DEF AllCommands, SaltOf, Salts
<1> QED
  BY <1>1 DEF Addr

LEMMA TypedInit == Init => Typed
<1> SUFFICES ASSUME Init PROVE Typed
  OBVIOUS
<1> DEFINE id(e) == CHOOSE i \in DOMAIN job.live : job.live[i] = e
           isLive(e) == \E i \in DOMAIN job.live : job.live[i] = e
           addr(e) == IF isLive(e) THEN Sequential(id(e)) ELSE NoAddress
           ids(name) == {i \in DOMAIN job.live : job.live[i][1] = name}
<1>1. job \in Jobs /\ job.live \in Seq(Entries) /\ born = Len(job.live) /\ born \in Nat
      /\ DOMAIN job.live = 1 .. born
  BY CosmwasmConstants DEF Init
<1>2. codes = [i \in 1 .. born |-> [bin |-> BinaryOf[job.live[i][1]], open |-> TRUE]]
  BY <1>1 DEF Init
<1>3. codes \in Seq(Codes) /\ Len(codes) = born
  <2>1. \A i \in 1 .. born : BinaryOf[job.live[i][1]] \in Binaries
    BY <1>1 DEF Binaries
  <2>2. codes \in [1 .. born -> Codes]
    BY <1>2, <2>1 DEF Codes
  <2> QED
    BY <1>1, <2>2
<1>4. \A e \in Entries : addr(e) \in Addr(born)
      /\ (isLive(e) => id(e) \in 0 .. born)
  <2> TAKE e \in Entries
  <2>1. CASE isLive(e)
    <3>1. id(e) \in 1 .. born
      BY <1>1, <2>1
    <3>2. \A k \in 1 .. born : Sequential(k) \in Addr(born)
      BY DEF Addr
    <3>3. addr(e) = Sequential(id(e))
      BY <2>1
    <3> HIDE DEF addr, id
    <3> QED
      BY <1>1, <3>1, <3>2, <3>3
  <2>2. CASE ~isLive(e)
    BY <2>2 DEF Addr
  <2> QED
    BY <2>1, <2>2
<1>5. disk.at = [e \in Entries |-> [address |-> addr(e),
                                    codeId |-> IF isLive(e) THEN id(e) ELSE 0]]
      /\ disk.base = [name \in Contracts |-> [hash |-> NoBinary,
                         last |-> IF ids(name) = {} THEN 0 ELSE Max(ids(name))]]
      /\ disk = [at |-> disk.at, base |-> disk.base]
  BY DEF Init
<1>6. disk.at \in [Entries -> At(born, born)]
  <2> HIDE DEF addr, isLive, id
  <2>1. \A e \in Entries : (IF isLive(e) THEN id(e) ELSE 0) \in 0 .. born
    BY <1>1, <1>4
  <2> QED
    BY <1>4, <1>5, <2>1 DEF At
<1>7. disk.base \in [Contracts -> Base(born)]
  <2>1. \A name \in Contracts : (IF ids(name) = {} THEN 0 ELSE Max(ids(name))) \in 0 .. born
    <3> TAKE name \in Contracts
    <3>1. ids(name) \subseteq 1 .. born
      BY <1>1
    <3> HIDE DEF ids
    <3>2. ids(name) # {} => Max(ids(name)) \in ids(name)
      BY <1>1, <3>1, MaxIn
    <3> QED
      BY <1>1, <3>1, <3>2
  <2> HIDE DEF ids
  <2> QED
    BY <1>5, <2>1 DEF Base
<1>8. disk \in Conf(born, Len(codes))
  BY <1>3, <1>5, <1>6, <1>7 DEF Conf
<1>9. live \in [DOMAIN live -> Built(born, Len(codes))]
      /\ DOMAIN live \subseteq Addr(born) \ {NoAddress}
  <2>1. live = [a \in {Sequential(i) : i \in 1 .. born} |->
                   [e |-> job.live[a[1]], code |-> a[1], admin |-> Governance,
                    links |-> [d \in Needs(job.live[a[1]]) |-> addr(d)]]]
    BY <1>1 DEF Init
  <2>2. \A e \in Entries : [d \in Needs(e) |-> addr(d)] \in Told(born)
    <3> TAKE e \in Entries
    <3>1. Needs(e) \in SUBSET Entries
      BY CosmwasmConstants
    <3> HIDE DEF addr
    <3>2. [d \in Needs(e) |-> addr(d)] \in [Needs(e) -> Addr(born)]
      BY <1>4, <3>1
    <3> QED
      BY <3>1, <3>2 DEF Told
  <2>3. \A i \in 1 .. born : Sequential(i)[1] = i /\ Sequential(i) \in Addr(born) \ {NoAddress}
    BY SequentialShape DEF Addr, Sequential, NoAddress
  <2>4. ASSUME NEW a \in DOMAIN live
        PROVE  live[a] \in Built(born, born)
    <3>1. PICK i \in 1 .. born : a = Sequential(i) /\ a[1] = i
      BY <2>1, <2>3
    <3>2. job.live[i] \in Entries
      BY <1>1
    <3> DEFINE links == [d \in Needs(job.live[i]) |-> addr(d)]
    <3>3. links \in Told(born)
      BY <2>2, <3>2
    <3>4. live[a] = [e |-> job.live[i], code |-> i, admin |-> Governance, links |-> links]
      BY <2>1, <3>1
    <3> HIDE DEF links
    <3> QED
      BY <3>2, <3>3, <3>4 DEF Built
  <2>5. DOMAIN live = {Sequential(i) : i \in 1 .. born}
        /\ live = [a \in DOMAIN live |-> live[a]]
    BY <2>1
  <2>6. DOMAIN live \subseteq Addr(born) \ {NoAddress}
    BY <2>3, <2>5
  <2> QED
    BY <1>3, <2>4, <2>5, <2>6
<1>10. RunTyped(run, born, Len(codes)) /\ proposals \in Seq(Asked(born, Len(codes)))
  BY DEF Init, RunTyped, Chosen
<1>11. runs \in Nat /\ crashes \in 0 .. MaxCrashes
  BY CosmwasmConstants DEF Init
<1> QED
  BY <1>1, <1>3, <1>8, <1>9, <1>10, <1>11 DEF Typed

\* A busy command, and what it goes on with.
LEMMA BusyTyped ==
    ASSUME Typed, run.at # "idle"
    PROVE  /\ run \in Running(born, Len(codes)) /\ Chosen(run, Len(codes))
           /\ run.cmd \in AllCommands /\ run.cmd.e \in Entries /\ run.cfg \in Conf(born, Len(codes))
           /\ run.codeId \in 0 .. Len(codes) /\ run.sent \in BOOLEAN
           /\ born \in Nat /\ Len(codes) \in Nat /\ DOMAIN codes = 1 .. Len(codes)
<1>1. run \in Running(born, Len(codes)) /\ Chosen(run, Len(codes))
  BY DEF Typed, RunTyped, Idle
<1>2. born \in Nat /\ Len(codes) \in Nat /\ DOMAIN codes = 1 .. Len(codes)
  BY DEF Typed
<1>3. \A c \in AllCommands : c.e \in Entries
  BY DEF AllCommands
<1> QED
  BY <1>1, <1>2, <1>3 DEF Running

LEMMA GoesOnTyped ==
    ASSUME Typed, run.at # "idle", NEW n \in Nat, NEW m \in Nat, NEW q,
           NEW at \in {"upload", "code", "confirm", "send", "save"}, NEW cfg \in Conf(n, m),
           NEW code \in 0 .. m, NEW sent \in BOOLEAN,
           q = [at |-> at, cmd |-> run.cmd, cfg |-> cfg, codeId |-> code, sent |-> sent],
           at \in {"confirm", "send"} /\ run.cmd.op \in CodeIdUsers =>
               /\ code \in 1 .. m
               /\ run.cmd.op \in ProposalOps => cfg.at[run.cmd.e].codeId = code
    PROVE  RunTyped(q, n, m)
<1>1. run.cmd \in AllCommands
  BY BusyTyped
<1>2. q \in Running(n, m)
  BY <1>1 DEF Running
<1> QED
  BY <1>2 DEF RunTyped, Chosen

\* What a configuration says after it was written.
LEMMA WrittenCodeId ==
    ASSUME NEW n, NEW m, NEW cfg \in Conf(n, m), NEW e \in Entries, NEW c, c.e = e, NEW k
    PROVE  /\ WithCodeId(cfg, c, k).at[e].codeId = k
           /\ WithCodeId(cfg, c, k).at[e].address = cfg.at[e].address
           /\ \A f \in Entries : f # e => WithCodeId(cfg, c, k).at[f] = cfg.at[f]
           /\ WithCodeId(cfg, c, k).base = cfg.base
<1>1. cfg.at \in [Entries -> At(n, m)] /\ cfg.at[e] \in At(n, m)
  BY DEF Conf
<1>2. WithCodeId(cfg, c, k).at = [cfg.at EXCEPT ![e].codeId = k]
      /\ WithCodeId(cfg, c, k).base = cfg.base
  BY DEF Conf, WithCodeId
<1>3. WithCodeId(cfg, c, k).at[e] = [cfg.at[e] EXCEPT !.codeId = k]
  BY <1>1, <1>2
<1> QED
  BY <1>1, <1>2, <1>3 DEF At

LEMMA WrittenAddress ==
    ASSUME NEW n, NEW m, NEW cfg \in Conf(n, m), NEW e \in Entries, NEW c, c.e = e, NEW a
    PROVE  /\ WithAddress(cfg, c, a).at[e].address = a
           /\ WithAddress(cfg, c, a).at[e].codeId = cfg.at[e].codeId
           /\ \A f \in Entries : f # e => WithAddress(cfg, c, a).at[f] = cfg.at[f]
           /\ WithAddress(cfg, c, a).base = cfg.base
<1>1. cfg.at \in [Entries -> At(n, m)] /\ cfg.at[e] \in At(n, m)
  BY DEF Conf
<1>2. WithAddress(cfg, c, a).at = [cfg.at EXCEPT ![e].address = a]
      /\ WithAddress(cfg, c, a).base = cfg.base
  BY DEF Conf, WithAddress
<1>3. WithAddress(cfg, c, a).at[e] = [cfg.at[e] EXCEPT !.address = a]
  BY <1>1, <1>2
<1> QED
  BY <1>1, <1>2, <1>3 DEF At

LEMMA WrittenLast ==
    ASSUME NEW n, NEW m, NEW cfg \in Conf(n, m), NEW c, c.e \in Entries, NEW k
    PROVE  /\ WithLast(cfg, c, k).base[c.e[1]].last = k
           /\ \A name \in Contracts : name # c.e[1] =>
                  WithLast(cfg, c, k).base[name] = cfg.base[name]
           /\ WithLast(cfg, c, k).at = cfg.at
<1>1. cfg.base \in [Contracts -> Base(m)] /\ c.e[1] \in Contracts
      /\ cfg.base[c.e[1]] \in Base(m)
  BY DEF Conf, Contracts
<1>2. WithLast(cfg, c, k).base = [cfg.base EXCEPT ![c.e[1]].last = k]
      /\ WithLast(cfg, c, k).at = cfg.at
  BY DEF Conf, WithLast
<1>3. WithLast(cfg, c, k).base[c.e[1]] = [cfg.base[c.e[1]] EXCEPT !.last = k]
  BY <1>1, <1>2
<1> QED
  BY <1>1, <1>2, <1>3 DEF Base

LEMMA StartTyped == ASSUME Typed, NEW c \in Commands, Start(c) PROVE Typed'
<1>1. c \in AllCommands /\ disk \in Conf(born, Len(codes)) /\ Len(codes) \in Nat
      /\ runs \in Nat
  BY CommandTyped DEF Typed
<1>2. FirstStep(c) \in {"upload", "code", "confirm", "send"}
      /\ (c.op \in CodeIdUsers => FirstStep(c) = "code")
  BY DEF FirstStep, CodeIdUsers
<1>3. run' = [at |-> FirstStep(c), cmd |-> c, cfg |-> disk, codeId |-> 0, sent |-> FALSE]
      /\ UNCHANGED <<job, disk, codes, live, born, proposals, crashes>>
      /\ runs' \in Nat
  BY <1>1 DEF Start, chain
<1>4. run' \in Running(born, Len(codes))
  BY <1>1, <1>2, <1>3 DEF Running
<1>5. RunTyped(run', born, Len(codes))
  BY <1>2, <1>3, <1>4 DEF RunTyped, Chosen
<1> QED
  BY <1>3, <1>5 DEF Typed

\* Steps in which a command only thinks.
LEMMA ThinkTyped ==
    ASSUME Typed, RunTyped(run', born, Len(codes)),
           UNCHANGED <<job, disk, chain, proposals, runs, crashes>>
    PROVE  Typed'
BY DEF Typed, chain

LEMMA UploadTyped == ASSUME Typed, Upload PROVE Typed'
<1> DEFINE c    == run.cmd
           k    == Len(codes) + 1
           bin  == BinaryOf[c.e[1]]
           cfg  == WithLast(run.cfg, c, k)
           here == Predicted(bin, Wallet, SaltOf(c))
           at   == IF c.op = "upload" THEN "save" ELSE "code"
           new  == IF c.inst2 THEN WithAddress(cfg, c, here) ELSE cfg
<1>1. run.at # "idle"
  BY DEF Upload
<1>2. /\ run \in Running(born, Len(codes)) /\ c \in AllCommands /\ c.e \in Entries
      /\ run.cfg \in Conf(born, Len(codes)) /\ run.codeId \in 0 .. Len(codes)
      /\ run.sent \in BOOLEAN /\ born \in Nat /\ Len(codes) \in Nat /\ codes \in Seq(Codes)
  BY <1>1, BusyTyped DEF Typed
<1>3. bin \in Binaries /\ here \in Addr(born)
  BY <1>2, PredictedTyped DEF Binaries
<1>4. codes' = Append(codes, [bin |-> bin, open |-> TRUE]) /\ Len(codes') = k
      /\ codes' \in Seq(Codes) /\ k \in Nat /\ Len(codes) <= k
  BY <1>2, <1>3 DEF Upload, Codes
<1>5. /\ Conf(born, Len(codes)) \subseteq Conf(born, k)
      /\ Built(born, Len(codes)) \subseteq Built(born, k)
      /\ Asked(born, Len(codes)) \subseteq Asked(born, k)
  BY <1>2, <1>4, Grown
<1>6. new \in Conf(born, k)
  <2>1. cfg \in Conf(born, k)
    BY <1>2, <1>3, <1>4, <1>5, ConfigSteps
  <2>2. WithAddress(cfg, c, here) \in Conf(born, k)
    <3> HIDE DEF cfg, here
    <3> QED
      BY <1>2, <1>3, <1>4, <2>1, ConfigSteps
  <2> QED
    BY <2>1, <2>2
<1>7. run' = [at |-> at, cmd |-> c, cfg |-> new, codeId |-> run.codeId, sent |-> run.sent]
  BY <1>2 DEF Upload, Running
<1>8. RunTyped(run', born, k)
  <2>1. run.codeId \in 0 .. k
    BY <1>2
  <2>2. at \in {"save", "code"}
    OBVIOUS
  <2> HIDE DEF new, at, k
  <2> QED
    BY <1>1, <1>2, <1>4, <1>6, <1>7, <2>1, <2>2, GoesOnTyped
<1>9. UNCHANGED <<job, disk, live, born, proposals, runs, crashes>>
  BY DEF Upload
<1> HIDE DEF k
<1> QED
  BY <1>4, <1>5, <1>8, <1>9 DEF Typed

LEMMA ChooseCodeTyped ==
    ASSUME Typed, NEW code \in DOMAIN codes, ChooseCode(code) PROVE Typed'
<1> DEFINE c     == run.cmd
           m     == Len(codes)
           found == IF c.code = Fetch THEN WithLast(run.cfg, c, code) ELSE run.cfg
           noted == IF c.op \in ProposalOps THEN WithCodeId(found, c, code) ELSE found
           there == Predicted(codes[code].bin, c.runAs, SaltOf(c))
           at    == IF c.predictOnly THEN "save" ELSE "confirm"
           new   == IF c.predictOnly THEN WithAddress(noted, c, there) ELSE noted
<1>1. run.at # "idle"
  BY DEF ChooseCode
<1>2. /\ run \in Running(born, m) /\ c \in AllCommands /\ c.e \in Entries
      /\ run.cfg \in Conf(born, m) /\ run.sent \in BOOLEAN
      /\ born \in Nat /\ m \in Nat /\ DOMAIN codes = 1 .. m
  BY <1>1, BusyTyped
<1>3. found \in Conf(born, m)
  <2>1. NoAddress \in Addr(born) /\ code \in 0 .. m
    BY <1>2 DEF Addr
  <2> QED
    BY <1>2, <2>1, ConfigSteps
<1>4. noted \in Conf(born, m)
  <2>1. NoAddress \in Addr(born) /\ code \in 0 .. m
    BY <1>2 DEF Addr
  <2> HIDE DEF found
  <2> QED
    BY <1>2, <1>3, <2>1, ConfigSteps
<1>5. there \in Addr(born)
  <2>1. codes[code] \in Codes
    BY DEF Typed
  <2>2. codes[code].bin \in Binaries
    BY <2>1 DEF Codes
  <2>3. c.runAs \in {Wallet, Governance} \cup Runners
    BY <1>2 DEF AllCommands
  <2> QED
    BY <1>2, <2>2, <2>3, PredictedTyped
<1>6. new \in Conf(born, m)
  <2>1. 0 \in 0 .. m
    BY <1>2
  <2> HIDE DEF noted, there
  <2> QED
    BY <1>2, <1>4, <1>5, <2>1, ConfigSteps
<1>7. run' = [at |-> at, cmd |-> c, cfg |-> new, codeId |-> code, sent |-> run.sent]
  BY <1>2 DEF ChooseCode, Running
<1>8. at = "confirm" /\ c.op \in ProposalOps => new.at[c.e].codeId = code
  <2>1. WithCodeId(found, c, code).at[c.e].codeId = code
    <3> HIDE DEF found
    <3> QED
      BY <1>2, <1>3, WrittenCodeId
  <2> QED
    BY <2>1
<1>9. RunTyped(run', born, m)
  <2>1. at \in {"save", "confirm"} /\ code \in 0 .. m /\ code \in 1 .. m
    BY <1>2
  <2> HIDE DEF new, at
  <2> QED
    BY <1>1, <1>2, <1>6, <1>7, <1>8, <2>1, GoesOnTyped
<1> QED
  BY <1>9, ThinkTyped DEF ChooseCode

LEMMA AnswerTyped == ASSUME Typed, Proceed \/ Decline PROVE Typed'
<1> DEFINE c   == run.cmd
           new == WithCodeId(run.cfg, c, run.codeId)
<1>1. run.at = "confirm"
  BY DEF Proceed, Decline
<1>2. /\ run \in Running(born, Len(codes)) /\ Chosen(run, Len(codes))
      /\ c \in AllCommands /\ c.e \in Entries
      /\ run.cfg \in Conf(born, Len(codes)) /\ run.codeId \in 0 .. Len(codes)
      /\ run.sent \in BOOLEAN /\ born \in Nat /\ Len(codes) \in Nat
  BY <1>1, BusyTyped
<1>3. new \in Conf(born, Len(codes))
  <2>1. NoAddress \in Addr(born)
    BY DEF Addr
  <2> QED
    BY <1>2, <2>1, ConfigSteps
<1>4. c.op \in CodeIdUsers =>
          /\ run.codeId \in 1 .. Len(codes)
          /\ c.op \in ProposalOps => run.cfg.at[c.e].codeId = run.codeId
  BY <1>1, <1>2 DEF Chosen, Idle
<1>5. c.op \in DirectOps => c.op \notin ProposalOps
  BY DEF DirectOps, ProposalOps
<1>6. RunTyped(run', born, Len(codes))
  <2>1. CASE Decline
    <3>1. run' = [at |-> "save", cmd |-> c, cfg |-> run.cfg, codeId |-> run.codeId,
                  sent |-> run.sent]
      BY <1>2, <2>1 DEF Decline, Running
    <3> QED
      BY <1>1, <1>2, <3>1, GoesOnTyped
  <2>2. CASE Proceed /\ c.op \in DirectOps
    <3>1. run' = [at |-> "send", cmd |-> c, cfg |-> new, codeId |-> run.codeId,
                  sent |-> run.sent]
      BY <1>2, <2>2 DEF Proceed, Running
    <3> HIDE DEF new
    <3> QED
      BY <1>1, <1>2, <1>3, <1>4, <1>5, <2>2, <3>1, GoesOnTyped
  <2>3. CASE Proceed /\ c.op \notin DirectOps
    <3>1. run' = [at |-> "send", cmd |-> c, cfg |-> run.cfg, codeId |-> run.codeId,
                  sent |-> run.sent]
      BY <1>2, <2>3 DEF Proceed, Running
    <3> QED
      BY <1>1, <1>2, <1>4, <3>1, GoesOnTyped
  <2> QED
    BY <2>1, <2>2, <2>3
<1> QED
  BY <1>6, ThinkTyped DEF Proceed, Decline

\* The chain adds a contract.
LEMMA InstantiatedTyped ==
    ASSUME Typed, NEW x \in Built(born + 1, Len(codes')),
           NEW addr \in Addr(born + 1) \ {NoAddress}, Instantiated(addr, x),
           \/ codes' = codes
           \/ codes' \in Seq(Codes) /\ Len(codes') = Len(codes) + 1
    PROVE  /\ born' \in Nat /\ born' = born + 1 /\ codes' \in Seq(Codes)
           /\ live' \in [DOMAIN live' -> Built(born', Len(codes'))]
           /\ DOMAIN live' \subseteq Addr(born') \ {NoAddress}
           /\ Conf(born, Len(codes)) \subseteq Conf(born', Len(codes'))
           /\ Asked(born, Len(codes)) \subseteq Asked(born', Len(codes'))
           /\ \A r : RunTyped(r, born, Len(codes)) => RunTyped(r, born', Len(codes'))
<1>1. born \in Nat /\ born + 1 \in Nat /\ born <= born + 1 /\ born' = born + 1
  BY DEF Typed, Instantiated
<1>2. codes' \in Seq(Codes) /\ Len(codes) \in Nat /\ Len(codes') \in Nat
      /\ Len(codes) <= Len(codes')
  BY DEF Typed
<1>3. /\ Conf(born, Len(codes)) \subseteq Conf(born', Len(codes'))
      /\ Asked(born, Len(codes)) \subseteq Asked(born', Len(codes'))
      /\ Built(born, Len(codes)) \subseteq Built(born', Len(codes'))
      /\ Addr(born) \subseteq Addr(born')
      /\ \A r : RunTyped(r, born, Len(codes)) => RunTyped(r, born', Len(codes'))
  BY <1>1, <1>2, Grown
<1>4. live' = [a \in DOMAIN live \cup {addr} |-> IF a = addr THEN x ELSE live[a]]
  BY DEF Instantiated
<1>5. DOMAIN live' = DOMAIN live \cup {addr}
      /\ \A a \in DOMAIN live' : live'[a] \in Built(born', Len(codes'))
  BY <1>1, <1>3, <1>4 DEF Typed
<1>6. live' \in [DOMAIN live' -> Built(born', Len(codes'))]
  BY <1>4, <1>5
<1>7. DOMAIN live' \subseteq Addr(born') \ {NoAddress}
  BY <1>1, <1>3, <1>5 DEF Typed
<1> QED
  BY <1>1, <1>2, <1>3, <1>6, <1>7

\* A contract more counts one address more.
LEMMA AddressForTyped ==
    ASSUME Typed, NEW c \in AllCommands, NEW code \in DOMAIN codes,
           NEW w \in {Wallet, Governance} \cup Runners
    PROVE  AddressFor(c, code, w) \in Addr(born + 1) \ {NoAddress}
<1>1. born + 1 \in 1 .. born + 1
  BY DEF Typed
<1>2. Sequential(born + 1) \in Addr(born + 1) /\ Sequential(born + 1) # NoAddress
  BY <1>1 DEF Addr, Sequential, NoAddress
<1>3. codes[code] \in Codes
  BY DEF Typed
<1>4. codes[code].bin \in Binaries
  BY <1>3 DEF Codes
<1> DEFINE there == Predicted(codes[code].bin, w, SaltOf(c))
<1>5. there \in Addr(born + 1)
  BY <1>4, PredictedTyped
<1>6. there # NoAddress
  BY DEF Predicted, NoAddress
<1> QED
  BY <1>2, <1>5, <1>6 DEF AddressFor

\* What a builder tells a contract.
LEMMA MessageTyped ==
    ASSUME NEW n, NEW m, NEW cfg \in Conf(n, m), NEW e \in Entries
    PROVE  Message(cfg, e) \in Told(n) /\ << >> \in Told(n)
<1>1. Needs(e) \in SUBSET Entries
  BY CosmwasmConstants
<1>2. \A d \in Entries : cfg.at[d].address \in Addr(n)
  BY DEF Conf, At
<1>3. Message(cfg, e) \in [Needs(e) -> Addr(n)]
  BY <1>1, <1>2 DEF Message
<1>4. << >> \in [{} -> Addr(n)]
  OBVIOUS
<1> QED
  BY <1>1, <1>3, <1>4 DEF Told

LEMMA InstantiateContractTyped == ASSUME Typed, InstantiateContract PROVE Typed'
<1> DEFINE c    == run.cmd
           code == run.cfg.at[c.e].codeId
           addr == AddressFor(c, code, Wallet)
           x    == [e |-> c.e, code |-> code, admin |-> Admin, links |-> Message(run.cfg, c.e)]
           new  == WithAddress(run.cfg, c, addr)
<1>1. run.at = "send"
  BY DEF InstantiateContract
<1>2. /\ run \in Running(born, Len(codes)) /\ c \in AllCommands /\ c.e \in Entries
      /\ run.cfg \in Conf(born, Len(codes)) /\ run.codeId \in 0 .. Len(codes)
      /\ born \in Nat /\ Len(codes) \in Nat /\ DOMAIN codes = 1 .. Len(codes)
  BY <1>1, BusyTyped
<1>3. code \in DOMAIN codes /\ Instantiated(addr, x) /\ codes' = codes
      /\ UNCHANGED <<job, disk, proposals, runs, crashes>>
  BY DEF InstantiateContract, CanInstantiate
<1>4. addr \in Addr(born + 1) \ {NoAddress}
  <2> HIDE DEF code
  <2> QED
    BY <1>2, <1>3, AddressForTyped
<1>5. x \in Built(born + 1, Len(codes'))
  <2>1. Message(run.cfg, c.e) \in Told(born + 1)
    <3>1. Told(born) \subseteq Told(born + 1)
      BY <1>2, Grown
    <3> QED
      BY <1>2, <3>1, MessageTyped
  <2> HIDE DEF code
  <2> QED
    BY <1>2, <1>3, <2>1 DEF Built
<1>6. /\ born' \in Nat /\ born' = born + 1
      /\ live' \in [DOMAIN live' -> Built(born', Len(codes'))]
      /\ DOMAIN live' \subseteq Addr(born') \ {NoAddress}
      /\ Conf(born, Len(codes)) \subseteq Conf(born', Len(codes'))
      /\ Asked(born, Len(codes)) \subseteq Asked(born', Len(codes'))
  <2> HIDE DEF x, addr
  <2> QED
    BY <1>3, <1>4, <1>5, InstantiatedTyped
<1>7. new \in Conf(born', Len(codes'))
  <2>1. 0 \in 0 .. Len(codes') /\ run.cfg \in Conf(born', Len(codes'))
    BY <1>2, <1>3, <1>6
  <2> HIDE DEF addr
  <2> QED
    BY <1>2, <1>3, <1>4, <1>6, <2>1, ConfigSteps
<1>8. run' = [at |-> "save", cmd |-> c, cfg |-> new, codeId |-> run.codeId, sent |-> TRUE]
  BY <1>2 DEF InstantiateContract, Running
<1>9. RunTyped(run', born', Len(codes'))
  <2> HIDE DEF new
  <2> QED
    BY <1>1, <1>2, <1>3, <1>6, <1>7, <1>8, GoesOnTyped
<1> QED
  BY <1>3, <1>6, <1>9 DEF Typed

\* The chain puts another code in a contract's place.
LEMMA MigratedTyped ==
    ASSUME Typed, NEW a \in DOMAIN live, NEW code \in DOMAIN codes,
           live' = [live EXCEPT ![a].code = code]
    PROVE  /\ live' \in [DOMAIN live' -> Built(born, Len(codes))]
           /\ DOMAIN live' \subseteq Addr(born) \ {NoAddress}
<1>1. live \in [DOMAIN live -> Built(born, Len(codes))] /\ code \in 1 .. Len(codes)
      /\ DOMAIN live \subseteq Addr(born) \ {NoAddress}
  BY DEF Typed
<1>2. DOMAIN live' = DOMAIN live
  OBVIOUS
<1>3. \A b \in DOMAIN live : live'[b] \in Built(born, Len(codes))
  BY <1>1 DEF Built
<1>4. live' = [b \in DOMAIN live' |-> live'[b]]
  OBVIOUS
<1> QED
  BY <1>1, <1>2, <1>3, <1>4

LEMMA MigrateContractTyped == ASSUME Typed, MigrateContract PROVE Typed'
<1> DEFINE a == run.cfg.at[run.cmd.e]
<1>1. run.at = "send"
  BY DEF MigrateContract
<1>2. /\ run \in Running(born, Len(codes)) /\ run.cfg \in Conf(born, Len(codes))
      /\ run.codeId \in 0 .. Len(codes) /\ born \in Nat /\ Len(codes) \in Nat
  BY <1>1, BusyTyped
<1>3. a.address \in DOMAIN live /\ a.codeId \in DOMAIN codes
      /\ live' = [live EXCEPT ![a.address].code = a.codeId]
      /\ UNCHANGED <<job, disk, codes, born, proposals, runs, crashes>>
  BY DEF MigrateContract, CanMigrate
<1>4. live' \in [DOMAIN live' -> Built(born, Len(codes))]
      /\ DOMAIN live' \subseteq Addr(born) \ {NoAddress}
  <2> HIDE DEF a
  <2> QED
    BY <1>3, MigratedTyped
<1>5. run' = [at |-> "save", cmd |-> run.cmd, cfg |-> run.cfg, codeId |-> run.codeId,
              sent |-> TRUE]
  BY <1>2 DEF MigrateContract, Running
<1>6. RunTyped(run', born, Len(codes))
  BY <1>1, <1>2, <1>5, GoesOnTyped
<1> QED
  BY <1>3, <1>4, <1>6 DEF Typed

LEMMA UpdateCodeIdTyped == ASSUME Typed, UpdateCodeId PROVE Typed'
<1> DEFINE k   == live[run.cfg.at[run.cmd.e].address].code
           new == WithCodeId(run.cfg, run.cmd, k)
<1>1. run.at = "send"
  BY DEF UpdateCodeId
<1>2. /\ run \in Running(born, Len(codes)) /\ run.cfg \in Conf(born, Len(codes))
      /\ run.codeId \in 0 .. Len(codes) /\ born \in Nat /\ Len(codes) \in Nat
      /\ run.cmd.e \in Entries /\ run.sent \in BOOLEAN
  BY <1>1, BusyTyped
<1>3. k \in 0 .. Len(codes)
  <2>1. live[run.cfg.at[run.cmd.e].address] \in Built(born, Len(codes))
    BY DEF UpdateCodeId, Typed
  <2>2. \A b \in Built(born, Len(codes)) : b.code \in 1 .. Len(codes)
    BY DEF Built
  <2>3. 1 .. Len(codes) \subseteq 0 .. Len(codes)
    BY <1>2
  <2> HIDE DEF k
  <2>4. k \in 1 .. Len(codes)
    BY <2>1, <2>2 DEF k
  <2> QED
    BY <2>3, <2>4
<1>4. new \in Conf(born, Len(codes))
  <2>1. NoAddress \in Addr(born)
    BY DEF Addr
  <2> HIDE DEF k
  <2> QED
    BY <1>2, <1>3, <2>1, ConfigSteps
<1>5. run' = [at |-> "save", cmd |-> run.cmd, cfg |-> new, codeId |-> run.codeId,
              sent |-> run.sent]
  BY <1>2 DEF UpdateCodeId, Running
<1>6. RunTyped(run', born, Len(codes))
  <2> HIDE DEF new
  <2> QED
    BY <1>1, <1>2, <1>4, <1>5, GoesOnTyped
<1> QED
  BY <1>6, ThinkTyped DEF UpdateCodeId

\* A proposal is submitted.
LEMMA SubmitTyped ==
    ASSUME Typed, run.at = "send", NEW cfg \in Conf(born, Len(codes)),
           NEW code \in 0 .. Len(codes), NEW target \in Addr(born), NEW links \in Told(born),
           Submit(Proposal(code, target, links), cfg)
    PROVE  Typed'
<1>1. /\ run \in Running(born, Len(codes)) /\ run.cmd \in AllCommands
      /\ run.cmd.e \in Entries /\ run.codeId \in 0 .. Len(codes)
      /\ born \in Nat /\ Len(codes) \in Nat
  BY BusyTyped
<1>2. Proposal(code, target, links) \in Asked(born, Len(codes))
  BY <1>1 DEF Proposal, Asked, Binaries
<1>3. proposals' \in Seq(Asked(born, Len(codes)))
  BY <1>2 DEF Submit, Typed
<1>4. run' = [at |-> "save", cmd |-> run.cmd, cfg |-> cfg, codeId |-> run.codeId,
              sent |-> TRUE]
  BY <1>1 DEF Submit, Running
<1>5. RunTyped(run', born, Len(codes))
  BY <1>1, <1>4, GoesOnTyped
<1> QED
  BY <1>3, <1>5 DEF Submit, Typed, chain

LEMMA SubmissionTyped == ASSUME Typed, Submission PROVE Typed'
<1> DEFINE c    == run.cmd
           a    == run.cfg.at[c.e]
           code == a.codeId
           addr == Predicted(codes[code].bin, c.runAs, SaltOf(c))
<1>1. run.at = "send"
  BY DEF Submission, StoreCode, StoreInstantiate, ProposeInstantiate,
         ProposeMigrate, Execute, RegisterProtocol
<1>2. /\ run \in Running(born, Len(codes)) /\ Chosen(run, Len(codes))
      /\ c \in AllCommands /\ c.e \in Entries
      /\ run.cfg \in Conf(born, Len(codes)) /\ run.codeId \in 0 .. Len(codes)
      /\ born \in Nat /\ Len(codes) \in Nat /\ DOMAIN codes = 1 .. Len(codes)
  BY <1>1, BusyTyped
<1>3. a \in At(born, Len(codes)) /\ a.address \in Addr(born) /\ a.codeId \in 0 .. Len(codes)
      /\ NoAddress \in Addr(born) /\ 0 \in 0 .. Len(codes)
  BY <1>2 DEF Conf, At, Addr
<1>4. WithHash(run.cfg, c) \in Conf(born, Len(codes))
  BY <1>2, <1>3, ConfigSteps
<1>5. ProposedMessage(c) \in Told(born) /\ << >> \in Told(born)
  BY <1>2, MessageTyped DEF ProposedMessage
<1>6. CASE StoreCode
  BY <1>1, <1>3, <1>4, <1>5, <1>6, SubmitTyped DEF StoreCode
<1>7. CASE StoreInstantiate
  BY <1>1, <1>3, <1>4, <1>5, <1>7, SubmitTyped DEF StoreInstantiate
<1>8. CASE ProposeInstantiate
  <2> DEFINE new == IF c.inst2 THEN WithAddress(run.cfg, c, addr) ELSE run.cfg
  <2>1. c.op = "propose-instantiate" /\ Submit(Proposal(code, NoAddress, ProposedMessage(c)), new)
    BY <1>8 DEF ProposeInstantiate
  <2>2. code \in DOMAIN codes
    <3>1. run # Idle
      BY <1>1 DEF Idle
    <3> QED
      BY <1>1, <1>2, <2>1, <3>1 DEF Chosen, CodeIdUsers, ProposalOps
  <2>3. addr \in Addr(born)
    <3>1. codes[code] \in Codes
      BY <2>2 DEF Typed
    <3>2. codes[code].bin \in Binaries
      BY <3>1 DEF Codes
    <3>3. c.runAs \in {Wallet, Governance} \cup Runners
      BY <1>2 DEF AllCommands
    <3> QED
      BY <1>2, <3>2, <3>3, PredictedTyped
  <2>4. new \in Conf(born, Len(codes))
    <3> HIDE DEF addr
    <3> QED
      BY <1>2, <1>3, <2>3, ConfigSteps
  <2> HIDE DEF new, a
  <2> QED
    BY <1>1, <1>3, <1>5, <2>1, <2>4, SubmitTyped
<1>9. CASE ProposeMigrate
  BY <1>1, <1>2, <1>3, <1>5, <1>9, SubmitTyped DEF ProposeMigrate
<1>10. CASE Execute
  BY <1>1, <1>2, <1>3, <1>5, <1>10, SubmitTyped DEF Execute
<1>11. CASE RegisterProtocol
  <2> DEFINE links == [d \in ProtocolContracts |-> run.cfg.at[d].address]
  <2>1. links \in Told(born)
    <3>1. ProtocolContracts \in SUBSET Entries
      BY DEF ProtocolContracts
    <3>2. \A d \in Entries : run.cfg.at[d].address \in Addr(born)
      BY <1>2 DEF Conf, At
    <3>3. links \in [ProtocolContracts -> Addr(born)]
      BY <3>1, <3>2
    <3> HIDE DEF links
    <3> QED
      BY <3>1, <3>3 DEF Told
  <2>2. Submit(Proposal(0, a.address, links), run.cfg)
    BY <1>11 DEF RegisterProtocol
  <2> HIDE DEF links, a
  <2> QED
    BY <1>1, <1>2, <1>3, <2>1, <2>2, SubmitTyped
<1> QED
  BY <1>6, <1>7, <1>8, <1>9, <1>10, <1>11 DEF Submission

LEMMA EndTyped == ASSUME Typed, Fail \/ Crash \/ SaveConfig PROVE Typed'
<1>1. RunTyped(run', born, Len(codes))
  BY DEF Fail, Crash, SaveConfig, RunTyped, Chosen
<1>2. SaveConfig => run.cfg \in Conf(born, Len(codes))
  BY BusyTyped DEF SaveConfig
<1>3. Crash => crashes' \in 0 .. MaxCrashes
  BY CosmwasmConstants DEF Crash, Typed
<1> QED
  BY <1>1, <1>2, <1>3 DEF Fail, Crash, SaveConfig, Typed, chain

\* Governance decides.
LEMMA DecidedTyped ==
    ASSUME Typed, NEW i \in DOMAIN proposals,
           NEW status \in {"executed", "failed", "rejected"}, Decide(i, status),
           NEW n, NEW m, Asked(born, Len(codes)) \subseteq Asked(n, m)
    PROVE  proposals' \in Seq(Asked(n, m))
<1>1. proposals \in Seq(Asked(n, m))
  BY DEF Typed
<1>2. proposals[i] \in Asked(n, m)
  BY <1>1
<1>3. [proposals[i] EXCEPT !.status = status] \in Asked(n, m)
  BY <1>2 DEF Asked
<1>4. proposals' = [proposals EXCEPT ![i] = [proposals[i] EXCEPT !.status = status]]
  BY DEF Decide
<1> QED
  BY <1>1, <1>3, <1>4

LEMMA GovernedTyped == ASSUME Typed, Governed PROVE Typed'
<1>1. PICK i \in DOMAIN proposals :
          \/ Reject(i) \/ PassStore(i) \/ PassStoreInstantiate(i)
          \/ PassInstantiate(i) \/ PassMigrate(i) \/ PassExecute(i)
  BY DEF Governed
<1> DEFINE p     == proposals[i]
           asked == Asked(born, Len(codes))
           k     == Len(codes) + 1
<1>2. /\ p \in asked /\ p.cmd \in AllCommands /\ p.bin \in Binaries
      /\ p.code \in 0 .. Len(codes) /\ p.target \in Addr(born) /\ p.links \in Told(born)
      /\ p.cmd.e \in Entries /\ p.cmd.runAs \in {Wallet, Governance} \cup Runners
  <2>1. p \in asked
    BY DEF Typed
  <2>2. \A c \in AllCommands : c.e \in Entries /\ c.runAs \in Runners \cup {Governance}
    BY DEF AllCommands
  <2> QED
    BY <2>1, <2>2 DEF Asked
<1>3. born \in Nat /\ Len(codes) \in Nat /\ codes \in Seq(Codes)
      /\ DOMAIN codes = 1 .. Len(codes) /\ born + 1 \in Nat
  BY DEF Typed
<1>4. ASSUME NEW status \in {"executed", "failed", "rejected"}, Decide(i, status),
             UNCHANGED chain
      PROVE  Typed'
  <2>1. proposals' \in Seq(asked)
    BY <1>4, DecidedTyped
  <2> QED
    BY <1>4, <2>1 DEF Decide, Typed, chain
<1>5. StoredByGovernance(p) \in Seq(Codes) /\ Len(StoredByGovernance(p)) = k
  <2>1. [bin |-> p.bin, open |-> StoredOpen] \in Codes
    BY <1>2, CosmwasmConstants DEF Codes
  <2> QED
    BY <1>3, <2>1 DEF StoredByGovernance
<1>6. CASE Reject(i) \/ PassExecute(i)
  BY <1>4, <1>6 DEF Reject, PassExecute
<1>7. CASE PassStore(i)
  <2>1. Decide(i, "executed") /\ codes' = StoredByGovernance(p) /\ UNCHANGED <<live, born>>
    BY <1>7 DEF PassStore
  <2>2. k \in Nat /\ Len(codes) <= k
    BY <1>3
  <2>3. /\ Conf(born, Len(codes)) \subseteq Conf(born, k)
        /\ Built(born, Len(codes)) \subseteq Built(born, k)
        /\ asked \subseteq Asked(born, k)
        /\ \A r : RunTyped(r, born, Len(codes)) => RunTyped(r, born, k)
    BY <1>3, <2>2, Grown
  <2>4. proposals' \in Seq(Asked(born, k))
    BY <2>1, <2>3, DecidedTyped
  <2> HIDE DEF k, p
  <2> QED
    BY <1>5, <2>1, <2>3, <2>4 DEF Decide, Typed
<1>8. CASE PassStoreInstantiate(i)
  <2> DEFINE x == [e |-> p.cmd.e, code |-> k, admin |-> Admin, links |-> p.links]
  <2>1. /\ Decide(i, "executed") /\ codes' = StoredByGovernance(p)
        /\ Instantiated(Sequential(born + 1), x)
    BY <1>8 DEF PassStoreInstantiate
  <2>2. Sequential(born + 1) \in Addr(born + 1) \ {NoAddress}
    <3>1. born + 1 \in 1 .. born + 1
      BY <1>3
    <3> QED
      BY <3>1 DEF Addr, Sequential, NoAddress
  <2>3. x \in Built(born + 1, Len(codes'))
    <3>1. Told(born) \subseteq Told(born + 1) /\ k \in 1 .. k
      BY <1>3, Grown
    <3> HIDE DEF k, p
    <3> QED
      BY <1>2, <1>5, <2>1, <3>1 DEF Built
  <2>4. codes' \in Seq(Codes) /\ Len(codes') = Len(codes) + 1
    BY <1>5, <2>1
  <2>5. /\ born' \in Nat /\ live' \in [DOMAIN live' -> Built(born', Len(codes'))]
        /\ DOMAIN live' \subseteq Addr(born') \ {NoAddress}
        /\ Conf(born, Len(codes)) \subseteq Conf(born', Len(codes'))
        /\ asked \subseteq Asked(born', Len(codes'))
        /\ \A r : RunTyped(r, born, Len(codes)) => RunTyped(r, born', Len(codes'))
    <3> HIDE DEF x
    <3> QED
      BY <2>1, <2>2, <2>3, <2>4, InstantiatedTyped
  <2>6. proposals' \in Seq(Asked(born', Len(codes')))
    BY <2>1, <2>5, DecidedTyped
  <2> QED
    BY <2>1, <2>4, <2>5, <2>6 DEF Decide, Typed
<1>9. CASE PassInstantiate(i) /\ CanInstantiate(p.cmd, p.code, p.cmd.runAs)
  <2> DEFINE addr == AddressFor(p.cmd, p.code, p.cmd.runAs)
             x == [e |-> p.cmd.e, code |-> p.code, admin |-> Admin, links |-> p.links]
  <2>1. /\ Decide(i, "executed") /\ Instantiated(addr, x) /\ codes' = codes
        /\ p.code \in DOMAIN codes
    BY <1>9 DEF PassInstantiate, CanInstantiate
  <2>2. addr \in Addr(born + 1) \ {NoAddress}
    BY <1>2, <2>1, AddressForTyped
  <2>3. x \in Built(born + 1, Len(codes'))
    <3>1. Told(born) \subseteq Told(born + 1)
      BY <1>3, Grown
    <3> HIDE DEF p
    <3> QED
      BY <1>2, <1>3, <2>1, <3>1 DEF Built
  <2>4. /\ born' \in Nat /\ live' \in [DOMAIN live' -> Built(born', Len(codes'))]
        /\ DOMAIN live' \subseteq Addr(born') \ {NoAddress}
        /\ Conf(born, Len(codes)) \subseteq Conf(born', Len(codes'))
        /\ asked \subseteq Asked(born', Len(codes'))
        /\ \A r : RunTyped(r, born, Len(codes)) => RunTyped(r, born', Len(codes'))
    <3> HIDE DEF x, addr
    <3> QED
      BY <2>1, <2>2, <2>3, InstantiatedTyped
  <2>5. proposals' \in Seq(Asked(born', Len(codes')))
    BY <2>1, <2>4, DecidedTyped
  <2> QED
    BY <2>1, <2>4, <2>5 DEF Decide, Typed
<1>10. CASE PassInstantiate(i) /\ ~CanInstantiate(p.cmd, p.code, p.cmd.runAs)
  BY <1>4, <1>10 DEF PassInstantiate
<1>11. CASE PassMigrate(i) /\ CanMigrate(p.target, p.code)
  <2>1. /\ Decide(i, "executed") /\ p.target \in DOMAIN live /\ p.code \in DOMAIN codes
        /\ live' = [live EXCEPT ![p.target].code = p.code] /\ UNCHANGED <<codes, born>>
    BY <1>11 DEF PassMigrate, CanMigrate
  <2>2. live' \in [DOMAIN live' -> Built(born, Len(codes))]
        /\ DOMAIN live' \subseteq Addr(born) \ {NoAddress}
    <3> HIDE DEF p
    <3> QED
      BY <2>1, MigratedTyped
  <2>3. proposals' \in Seq(asked)
    BY <2>1, DecidedTyped
  <2> QED
    BY <2>1, <2>2, <2>3 DEF Decide, Typed
<1>12. CASE PassMigrate(i) /\ ~CanMigrate(p.target, p.code)
  BY <1>4, <1>12 DEF PassMigrate
<1> QED
  BY <1>1, <1>6, <1>7, <1>8, <1>9, <1>10, <1>11, <1>12

LEMMA NextTyped == Typed /\ [Next]_vars => Typed'
<1> SUFFICES ASSUME Typed, [Next]_vars PROVE Typed'
  OBVIOUS
<1>1. CASE run = Idle /\ \E c \in Commands : Start(c)
  BY <1>1, StartTyped
<1>2. CASE Upload
  BY <1>2, UploadTyped
<1>3. CASE \E code \in DOMAIN codes : ChooseCode(code)
  BY <1>3, ChooseCodeTyped
<1>4. CASE Proceed \/ Decline
  BY <1>4, AnswerTyped
<1>5. CASE InstantiateContract
  BY <1>5, InstantiateContractTyped
<1>6. CASE MigrateContract
  BY <1>6, MigrateContractTyped
<1>7. CASE UpdateCodeId
  BY <1>7, UpdateCodeIdTyped
<1>8. CASE Submission
  BY <1>8, SubmissionTyped
<1>9. CASE Fail \/ Crash \/ SaveConfig
  BY <1>9, EndTyped
<1>10. CASE Governed
  BY <1>10, GovernedTyped
<1>11. CASE UNCHANGED vars
  BY <1>11 DEF vars, chain, Typed
<1> QED
  BY <1>1, <1>2, <1>3, <1>4, <1>5, <1>6, <1>7, <1>8, <1>9, <1>10, <1>11
     DEF Next, Working, Step, Submission

THEOREM TypedHolds == Spec => []Typed
BY TypedInit, NextTyped, PTL DEF Spec

\* What the file, the commands, the chain and the proposals hold is of its type: every
\* code id is one the chain has given out and every address one it may give, also those
\* that were predicted, copied into a message or noted for a proposal.
THEOREM CosmwasmTypeCorrect == Spec => []TypeOK
<1>1. Typed => TypeOK
  <2> SUFFICES ASSUME Typed PROVE TypeOK
    OBVIOUS
  <2>1. Addr(born) = Addresses /\ Conf(born, Len(codes)) = Configs
        /\ Running(born, Len(codes)) = Commanding
    BY DEF Addr, Addresses, Conf, Base, At, Configs, CodeIds, Running, Commanding
  <2>2. \A x \in Told(born) : IsMessage(x)
    BY <2>1 DEF Told, IsMessage
  <2>3. \A i \in DOMAIN codes : codes[i] \in Codes
    BY DEF Typed
  <2>4. ASSUME NEW a \in DOMAIN live
        PROVE  /\ a \in Addresses \ {NoAddress}
               /\ live[a].e \in Entries /\ live[a].code \in CodeIds \ {0}
               /\ IsMessage(live[a].links)
    <3>1. live[a] \in Built(born, Len(codes)) /\ a \in Addresses \ {NoAddress}
          /\ Len(codes) \in Nat
      BY <2>1 DEF Typed
    <3> QED
      BY <2>2, <3>1 DEF Built, CodeIds
  <2>5. ASSUME NEW i \in DOMAIN proposals
        PROVE  /\ proposals[i].cmd \in AllCommands
               /\ proposals[i].code \in CodeIds /\ proposals[i].target \in Addresses
               /\ IsMessage(proposals[i].links)
               /\ proposals[i].status \in {"open", "executed", "failed", "rejected"}
    <3>1. proposals[i] \in Asked(born, Len(codes))
      BY DEF Typed
    <3> QED
      BY <2>1, <2>2, <3>1 DEF Asked, CodeIds
  <2> QED
    BY <2>1, <2>3, <2>4, <2>5 DEF Typed, RunTyped, TypeOK
<1> QED
  BY <1>1, TypedHolds, PTL
-----------------------------------------------------------------------------
(* What a command that did its work is about to save. *)

\* The migration in a list of proposals, so that it can be said of the next list.
MigratedIn(ps, a, code) ==
    \E i \in DOMAIN ps :
        /\ ps[i].cmd.op = "propose-migrate" /\ ps[i].status = "executed"
        /\ ps[i].target = a /\ ps[i].code = code

LEMMA MigratedIs ==
    /\ \A a, code : MigratedTo(a, code) <=> MigratedIn(proposals, a, code)
    /\ \A a, code : MigratedTo(a, code)' <=> MigratedIn(proposals', a, code)
BY DEF MigratedTo, MigratedIn

\* The code id is the chain's, or governance has migrated the contract since.
CodeSaved ==
    run.cmd.op = "update-code-id" \/ (run.sent /\ run.cmd.op \in DirectOps) =>
        LET place == run.cfg.at[run.cmd.e]
        IN  /\ place.address \in DOMAIN live
            /\ \/ live[place.address].code = place.codeId
               \/ MigratedIn(proposals, place.address, live[place.address].code)

\* The address of a proposal is predicted from the code the proposal names.
AddressSaved ==
    run.sent /\ run.cmd.op = "propose-instantiate" /\ run.cmd.inst2 =>
        LET p == proposals[Len(proposals)]
        IN  /\ Len(proposals) > 0 /\ p.cmd = run.cmd /\ p.code \in DOMAIN codes
            /\ run.cfg.at[run.cmd.e].address =
                   Predicted(codes[p.code].bin, run.cmd.runAs, SaltOf(run.cmd))

SavedOk ==
    run # Idle =>
        /\ run.sent => run.at = "save"
        /\ run.cmd.op = "update-code-id" => run.at \in {"send", "save"}
        /\ run.at = "save" => CodeSaved /\ AddressSaved

\* A command that has sent nothing has nothing to be true to.
LEMMA NothingSent ==
    ASSUME SavedOk, run # Idle, run.at \in {"upload", "code", "confirm"},
           run'.cmd = run.cmd, run'.sent = run.sent
    PROVE  SavedOk'
BY DEF SavedOk, CodeSaved, AddressSaved

LEMMA NotIdle == run.at # "idle" => run # Idle
BY DEF Idle

\* The operations are told apart.
LEMMA Operation ==
    /\ \A op \in DirectOps : op # "update-code-id" /\ op \notin ProposalOps
    /\ \A op \in ProposalOps : op # "update-code-id"
BY DEF DirectOps, ProposalOps

LEMMA StartSaved == ASSUME Typed, SavedOk, NEW c \in Commands, Start(c) PROVE SavedOk'
<1>1. run' = [at |-> FirstStep(c), cmd |-> c, cfg |-> disk, codeId |-> 0, sent |-> FALSE]
  BY DEF Start
<1>2. FirstStep(c) # "save" /\ (c.op = "update-code-id" => FirstStep(c) = "send")
  BY DEF FirstStep, CodeIdUsers
<1> QED
  BY <1>1, <1>2 DEF SavedOk

LEMMA ThinkSaved ==
    ASSUME Typed, SavedOk, Upload \/ (\E code : ChooseCode(code)) \/ Proceed \/ Decline
    PROVE  SavedOk'
<1>1. run.at \in {"upload", "code", "confirm"}
  BY DEF Upload, ChooseCode, Proceed, Decline
<1>2. run \in Running(born, Len(codes))
  BY <1>1, BusyTyped
<1>3. run'.cmd = run.cmd /\ run'.sent = run.sent
  BY <1>2 DEF Upload, ChooseCode, Proceed, Decline, Running
<1> QED
  BY <1>1, <1>3, NotIdle, NothingSent

LEMMA InstantiateContractSaved ==
    ASSUME Typed, SavedOk, InstantiateContract PROVE SavedOk'
<1> DEFINE c    == run.cmd
           code == run.cfg.at[c.e].codeId
           addr == AddressFor(c, code, Wallet)
           new  == WithAddress(run.cfg, c, addr)
<1>1. run.at = "send" /\ c.op \in {"instantiate", "upload-instantiate"}
  BY DEF InstantiateContract
<1>2. /\ run \in Running(born, Len(codes)) /\ c.e \in Entries
      /\ run.cfg \in Conf(born, Len(codes))
  BY <1>1, BusyTyped
<1>3. run'.at = "save" /\ run'.cmd = c /\ run'.cfg = new
  BY <1>2 DEF InstantiateContract, Running
<1>4. new.at[c.e].address = addr /\ new.at[c.e].codeId = code
  <2> HIDE DEF addr
  <2> QED
    BY <1>2, WrittenAddress
<1>5. addr \in DOMAIN live' /\ live'[addr].code = code
  BY DEF InstantiateContract, Instantiated
<1>6. CodeSaved'
  <2> HIDE DEF addr, new, code
  <2> QED
    BY <1>3, <1>4, <1>5 DEF CodeSaved
<1>7. AddressSaved'
  BY <1>1, <1>3 DEF AddressSaved
<1> QED
  BY <1>1, <1>3, <1>6, <1>7 DEF SavedOk

LEMMA MigrateContractSaved == ASSUME Typed, SavedOk, MigrateContract PROVE SavedOk'
<1> DEFINE c == run.cmd
           a == run.cfg.at[c.e]
<1>1. run.at = "send" /\ c.op = "migrate"
  BY DEF MigrateContract
<1>2. run \in Running(born, Len(codes))
  BY <1>1, BusyTyped
<1>3. run'.at = "save" /\ run'.cmd = c /\ run'.cfg = run.cfg
  BY <1>2 DEF MigrateContract, Running
<1>4. a.address \in DOMAIN live' /\ live'[a.address].code = a.codeId
  <2>1. live[a.address] \in Built(born, Len(codes)) /\ a.address \in DOMAIN live
        /\ live' = [live EXCEPT ![a.address].code = a.codeId]
    BY DEF MigrateContract, CanMigrate, Typed
  <2>2. live'[a.address] = [live[a.address] EXCEPT !.code = a.codeId]
        /\ DOMAIN live' = DOMAIN live
    BY <2>1
  <2> QED
    BY <2>1, <2>2 DEF Built
<1>5. CodeSaved'
  BY <1>3, <1>4 DEF CodeSaved
<1>6. AddressSaved'
  BY <1>1, <1>3 DEF AddressSaved
<1> QED
  BY <1>1, <1>3, <1>5, <1>6 DEF SavedOk

LEMMA UpdateCodeIdSaved == ASSUME Typed, SavedOk, UpdateCodeId PROVE SavedOk'
<1> DEFINE c   == run.cmd
           a   == run.cfg.at[c.e].address
           k   == live[a].code
           new == WithCodeId(run.cfg, c, k)
<1>1. run.at = "send" /\ c.op = "update-code-id" /\ a \in DOMAIN live
      /\ live' = live
  BY DEF UpdateCodeId, chain
<1>2. /\ run \in Running(born, Len(codes)) /\ c.e \in Entries
      /\ run.cfg \in Conf(born, Len(codes))
  BY <1>1, BusyTyped
<1>3. run'.at = "save" /\ run'.cmd = c /\ run'.cfg = new
  BY <1>2 DEF UpdateCodeId, Running
<1>4. new.at[c.e].address = a /\ new.at[c.e].codeId = k
  <2> HIDE DEF k
  <2> QED
    BY <1>2, WrittenCodeId
<1>5. CodeSaved'
  <2> HIDE DEF new, a
  <2> QED
    BY <1>1, <1>3, <1>4 DEF CodeSaved
<1>6. AddressSaved'
  BY <1>1, <1>3 DEF AddressSaved
<1> QED
  BY <1>1, <1>3, <1>5, <1>6 DEF SavedOk

LEMMA SubmissionSaved == ASSUME Typed, SavedOk, Submission PROVE SavedOk'
<1> DEFINE c    == run.cmd
           code == run.cfg.at[c.e].codeId
           addr == Predicted(codes[code].bin, c.runAs, SaltOf(c))
<1>1. run.at = "send" /\ c.op \in ProposalOps
  BY DEF Submission, StoreCode, StoreInstantiate, ProposeInstantiate,
         ProposeMigrate, Execute, RegisterProtocol, ProposalOps
<1>2. /\ run \in Running(born, Len(codes)) /\ Chosen(run, Len(codes)) /\ c.e \in Entries
      /\ run.cfg \in Conf(born, Len(codes)) /\ DOMAIN codes = 1 .. Len(codes)
  BY <1>1, BusyTyped
<1>3. run'.at = "save" /\ run'.cmd = c
  BY <1>2 DEF Submission, StoreCode, StoreInstantiate, ProposeInstantiate,
              ProposeMigrate, Execute, RegisterProtocol, Submit, Running
<1>4. CodeSaved'
  BY <1>1, <1>3, Operation DEF CodeSaved
<1>5. AddressSaved'
  <2>1. CASE c.op # "propose-instantiate" \/ ~c.inst2
    BY <1>3, <2>1 DEF AddressSaved
  <2>2. CASE c.op = "propose-instantiate" /\ c.inst2
    <3> DEFINE p   == Proposal(code, NoAddress, ProposedMessage(c))
               new == WithAddress(run.cfg, c, addr)
    <3>1. Submit(p, new)
      BY <2>2 DEF Submission, StoreCode, StoreInstantiate, ProposeInstantiate,
                  ProposeMigrate, Execute, RegisterProtocol
    <3>2. proposals' = Append(proposals, p) /\ run'.cfg = new /\ codes' = codes
      BY <1>2, <3>1 DEF Submit, Running, chain
    <3>3. Len(proposals') > 0 /\ proposals'[Len(proposals')] = p
      BY <3>2 DEF Typed
    <3>4. p.cmd = c /\ p.code = code
      BY DEF Proposal
    <3>5. code \in DOMAIN codes
      <4>1. run # Idle
        BY <1>1, NotIdle
      <4> QED
        BY <1>1, <1>2, <2>2, <4>1 DEF Chosen, CodeIdUsers
    <3>6. new.at[c.e].address = addr
      <4> HIDE DEF addr
      <4> QED
        BY <1>2, WrittenAddress
    <3> HIDE DEF p, new
    <3> QED
      BY <1>3, <3>2, <3>3, <3>4, <3>5, <3>6 DEF AddressSaved
  <2> QED
    BY <2>1, <2>2
<1> QED
  BY <1>1, <1>3, <1>4, <1>5, Operation DEF SavedOk

\* A migration that was executed was, whatever is decided after it; and no decision
\* changes what a proposal asks for.
LEMMA DecidedSaved ==
    ASSUME Typed, NEW i \in DOMAIN proposals,
           NEW status \in {"executed", "failed", "rejected"}, Decide(i, status)
    PROVE  /\ \A a, code : MigratedIn(proposals, a, code) => MigratedIn(proposals', a, code)
           /\ Len(proposals') = Len(proposals) /\ DOMAIN proposals' = DOMAIN proposals
           /\ \A j \in DOMAIN proposals :
                  /\ proposals'[j].cmd = proposals[j].cmd
                  /\ proposals'[j].code = proposals[j].code
                  /\ proposals'[j].target = proposals[j].target
                  /\ proposals'[j].status = IF j = i THEN status ELSE proposals[j].status
<1>1. /\ proposals' = [proposals EXCEPT ![i] = [proposals[i] EXCEPT !.status = status]]
      /\ proposals[i].status = "open"
  BY DEF Decide
<1>2. proposals \in Seq(Asked(born, Len(codes)))
  BY DEF Typed
<1>3. DOMAIN proposals' = DOMAIN proposals /\ Len(proposals') = Len(proposals)
  BY <1>1, <1>2
<1>4. ASSUME NEW j \in DOMAIN proposals
      PROVE  /\ proposals'[j].cmd = proposals[j].cmd
             /\ proposals'[j].code = proposals[j].code
             /\ proposals'[j].target = proposals[j].target
             /\ proposals'[j].status = IF j = i THEN status ELSE proposals[j].status
  <2>1. proposals[j] \in Asked(born, Len(codes))
    BY <1>2
  <2>2. proposals'[j] = IF j = i THEN [proposals[j] EXCEPT !.status = status]
                        ELSE proposals[j]
    BY <1>1
  <2> QED
    BY <2>1, <2>2 DEF Asked
<1>5. \A a, code : MigratedIn(proposals, a, code) => MigratedIn(proposals', a, code)
  BY <1>1, <1>3, <1>4 DEF MigratedIn
<1> QED
  BY <1>3, <1>4, <1>5

LEMMA GovernedSaved == ASSUME Typed, SavedOk, Governed PROVE SavedOk'
<1>1. PICK i \in DOMAIN proposals :
          \/ Reject(i) \/ PassStore(i) \/ PassStoreInstantiate(i)
          \/ PassInstantiate(i) \/ PassMigrate(i) \/ PassExecute(i)
  BY DEF Governed
<1>2. PICK status \in {"executed", "failed", "rejected"} : Decide(i, status)
  BY <1>1 DEF Reject, PassStore, PassStoreInstantiate, PassInstantiate, PassMigrate,
              PassExecute
<1>3. run' = run
  BY <1>2 DEF Decide
<1> SUFFICES ASSUME run # Idle, run.at = "save"
             PROVE  CodeSaved' /\ AddressSaved'
  BY <1>3 DEF SavedOk
<1>4. CodeSaved /\ AddressSaved
  BY DEF SavedOk
\* A code is the contract's as before, or governance has migrated it to that one.
<1>5. \A a \in DOMAIN live : /\ a \in DOMAIN live'
                             /\ live'[a].code = live[a].code \/ MigratedIn(proposals', a, live'[a].code)
  <2> TAKE a \in DOMAIN live
  <2>1. CASE live' = live
    BY <2>1
  <2>2. ASSUME NEW addr, addr \notin DOMAIN live, NEW x, Instantiated(addr, x)
        PROVE  a \in DOMAIN live' /\ live'[a].code = live[a].code
    BY <2>2 DEF Instantiated
  <2>3. CASE PassStoreInstantiate(i)
    <3>1. Sequential(born + 1) \notin DOMAIN live
      <4>1. DOMAIN live \subseteq Addr(born) /\ born \in Nat
        BY DEF Typed
      <4>2. Sequential(born + 1) \notin Addr(born)
        BY <4>1, SequentialShape DEF Addr, Predicted, NoAddress, Sequential
      <4> QED
        BY <4>1, <4>2
    <3> QED
      BY <2>2, <2>3, <3>1 DEF PassStoreInstantiate
  <2>4. CASE PassInstantiate(i)
    BY <2>1, <2>2, <2>4 DEF PassInstantiate, CanInstantiate, chain
  <2>5. CASE PassMigrate(i)
    <3> DEFINE p == proposals[i]
    <3>1. CASE CanMigrate(p.target, p.code)
      <4>1. /\ Decide(i, "executed") /\ p.target \in DOMAIN live /\ p.cmd.op = "propose-migrate"
            /\ live' = [live EXCEPT ![p.target].code = p.code]
        BY <2>5, <3>1 DEF PassMigrate, CanMigrate
      <4>2. /\ proposals'[i].cmd.op = "propose-migrate" /\ proposals'[i].status = "executed"
            /\ proposals'[i].target = p.target /\ proposals'[i].code = p.code
            /\ i \in DOMAIN proposals'
        BY <4>1, DecidedSaved
      <4>3. live[a] \in Built(born, Len(codes))
        BY DEF Typed
      <4>4. CASE a = p.target
        <5>1. live'[a] = [live[a] EXCEPT !.code = p.code] /\ a \in DOMAIN live'
          BY <4>1, <4>4
        <5>2. live'[a].code = p.code
          <6> HIDE DEF p
          <6> QED
            BY <4>3, <5>1 DEF Built
        <5> QED
          BY <4>2, <4>4, <5>1, <5>2 DEF MigratedIn
      <4>5. CASE a # p.target
        BY <4>1, <4>5
      <4> QED
        BY <4>4, <4>5
    <3>2. CASE ~CanMigrate(p.target, p.code)
      BY <2>1, <2>5, <3>2 DEF PassMigrate, chain
    <3> QED
      BY <3>1, <3>2
  <2> QED
    BY <1>1, <2>1, <2>3, <2>4, <2>5 DEF Reject, PassStore, PassExecute, chain
<1>6. CodeSaved'
  <2> SUFFICES ASSUME run.cmd.op = "update-code-id" \/ (run.sent /\ run.cmd.op \in DirectOps),
                      NEW CONSTANT place, place = run.cfg.at[run.cmd.e]
               PROVE  /\ place.address \in DOMAIN live'
                      /\ \/ live'[place.address].code = place.codeId
                         \/ MigratedIn(proposals', place.address, live'[place.address].code)
    BY <1>3 DEF CodeSaved
  <2>1. /\ place.address \in DOMAIN live
        /\ \/ live[place.address].code = place.codeId
           \/ MigratedIn(proposals, place.address, live[place.address].code)
    BY <1>4 DEF CodeSaved
  <2>2. \A a, code : MigratedIn(proposals, a, code) => MigratedIn(proposals', a, code)
    BY <1>2, DecidedSaved
  <2> QED
    BY <1>5, <2>1, <2>2
<1>7. AddressSaved'
  <2>1. codes' = codes \/ (\E x : codes' = Append(codes, x))
    BY <1>1 DEF Reject, PassStore, PassStoreInstantiate, PassInstantiate, PassMigrate,
                PassExecute, StoredByGovernance, chain
  <2>2. \A k \in DOMAIN codes : k \in DOMAIN codes' /\ codes'[k] = codes[k]
    <3>1. codes \in Seq(Codes)
      BY DEF Typed
    <3>2. CASE codes' = codes
      BY <3>2
    <3>3. ASSUME NEW x, codes' = Append(codes, x)
          PROVE  \A k \in DOMAIN codes : k \in DOMAIN codes' /\ codes'[k] = codes[k]
      BY <3>1, <3>3
    <3> QED
      BY <2>1, <3>2, <3>3
  <2>3. Len(proposals) > 0 => Len(proposals) \in DOMAIN proposals
    BY DEF Typed
  <2> QED
    BY <1>2, <1>3, <1>4, <2>2, <2>3, DecidedSaved DEF AddressSaved
<1> QED
  BY <1>6, <1>7

LEMMA NextSaved == Typed /\ SavedOk /\ [Next]_vars => SavedOk'
<1> SUFFICES ASSUME Typed, SavedOk, [Next]_vars PROVE SavedOk'
  OBVIOUS
<1>1. CASE run = Idle /\ \E c \in Commands : Start(c)
  BY <1>1, StartSaved
<1>2. CASE Upload \/ (\E code \in DOMAIN codes : ChooseCode(code)) \/ Proceed \/ Decline
  BY <1>2, ThinkSaved
<1>3. CASE InstantiateContract
  BY <1>3, InstantiateContractSaved
<1>4. CASE MigrateContract
  BY <1>4, MigrateContractSaved
<1>5. CASE UpdateCodeId
  BY <1>5, UpdateCodeIdSaved
<1>6. CASE Submission
  BY <1>6, SubmissionSaved
<1>7. CASE Fail \/ Crash \/ SaveConfig
  BY <1>7 DEF Fail, Crash, SaveConfig, SavedOk
<1>8. CASE Governed
  BY <1>8, GovernedSaved
<1>9. CASE UNCHANGED vars
  BY <1>9 DEF vars, chain, SavedOk, CodeSaved, AddressSaved
<1> QED
  BY <1>1, <1>2, <1>3, <1>4, <1>5, <1>6, <1>7, <1>8, <1>9
     DEF Next, Working, Step, Submission

THEOREM SavedHolds == Spec => []SavedOk
<1>1. Init => SavedOk
  BY DEF Init, SavedOk
<1> QED
  BY <1>1, NextSaved, TypedHolds, PTL DEF Spec

\* When a deploy-contract or update-code-id command that did its work is saved by
\* mainProcessor, the file has the code id the contract runs, unless governance has
\* migrated that contract: however many commands, crashes and decisions came before.
THEOREM SavedCodeIdIsTheChains == Spec => CodeIdIsTheChains
<1> DEFINE Saved == /\ SaveConfig
                    /\ run.cmd.op = "update-code-id" \/ (run.sent /\ run.cmd.op \in DirectOps)
                    => LET place == disk'.at[run.cmd.e]
                           code  == live[place.address].code
                       IN  code = place.codeId \/ MigratedTo(place.address, code)
<1>1. Typed /\ SavedOk => Saved
  <2> SUFFICES ASSUME SavedOk, SaveConfig,
                      run.cmd.op = "update-code-id" \/ (run.sent /\ run.cmd.op \in DirectOps)
               PROVE  LET place == disk'.at[run.cmd.e]
                          code  == live[place.address].code
                      IN  code = place.codeId \/ MigratedTo(place.address, code)
    OBVIOUS
  <2>1. run.at = "save" /\ disk' = run.cfg
    BY DEF SaveConfig
  <2>2. CodeSaved
    BY <2>1, NotIdle DEF SavedOk
  <2> QED
    BY <2>1, <2>2, MigratedIs DEF CodeSaved
<1>2. []Typed /\ []SavedOk => [][Saved]_vars
  BY <1>1, PTL
<1> QED
  BY <1>2, TypedHolds, SavedHolds, PTL DEF CodeIdIsTheChains

\* The address predictAddress saved for a proposal with --instantiate2 is the one the
\* chain will give the contract when the proposal passes, whatever was stored, migrated
\* or decided between the prediction and the save.
THEOREM SavedPredictionHolds == Spec => PredictionHolds
<1> DEFINE Saved == SaveConfig /\ run.sent /\ run.cmd.op = "propose-instantiate" /\ run.cmd.inst2 =>
                        LET p == proposals[Len(proposals)]
                        IN  disk'.at[run.cmd.e].address
                                = AddressFor(p.cmd, p.code, p.cmd.runAs)
<1>1. Typed /\ SavedOk => Saved
  <2> SUFFICES ASSUME SavedOk, SaveConfig, run.sent,
                      run.cmd.op = "propose-instantiate", run.cmd.inst2
               PROVE  LET p == proposals[Len(proposals)]
                      IN  disk'.at[run.cmd.e].address = AddressFor(p.cmd, p.code, p.cmd.runAs)
    OBVIOUS
  <2>1. run.at = "save" /\ disk' = run.cfg
    BY DEF SaveConfig
  <2>2. AddressSaved
    BY <2>1, NotIdle DEF SavedOk
  <2> QED
    BY <2>1, <2>2 DEF AddressSaved, AddressFor
<1>2. []Typed /\ []SavedOk => [][Saved]_vars
  BY <1>1, PTL
<1> QED
  BY <1>2, TypedHolds, SavedHolds, PTL DEF PredictionHolds
-----------------------------------------------------------------------------
(* The documented procedure: every contract of it has one home, the place  *)
(* it was counted out before the job or the address upload predicts for    *)
(* it, and the file, the commands and the chain know it by no other.       *)

PreLive(e) == \E i \in DOMAIN job.live : job.live[i] = e

Home(e) == IF PreLive(e) THEN Sequential(CHOOSE i \in DOMAIN job.live : job.live[i] = e)
           ELSE Predicted(BinaryOf[e[1]], Wallet, e)

\* The last code of a contract is one of its binary.
BinOk(cs, cfg) ==
    \A name \in Contracts :
        LET last == cfg.base[name].last
        IN  last # 0 => last \in DOMAIN cs /\ cs[last].bin = BinaryOf[name]

\* A contract is at home or nowhere; what was live before the job is at home.
HomeOk(cfg) ==
    \A e \in Entries : /\ cfg.at[e].address \in {NoAddress, Home(e)}
                       /\ PreLive(e) => cfg.at[e].address = Home(e) /\ cfg.at[e].codeId # 0

\* The command uploads what has no address yet or instantiates what has one.
Follows(c) ==
    /\ c.e \in job.entries /\ ~PreLive(c.e)
    /\ c.op \in {"upload", "instantiate"} /\ c = Following(c.op, c.e)

DocRun ==
    run # Idle =>
        /\ Follows(run.cmd) /\ BinOk(codes, run.cfg) /\ HomeOk(run.cfg)
        /\ \A e \in Entries : disk.at[e].address # NoAddress => run.cfg.at[e].address # NoAddress
        /\ run.cmd.op = "upload" => run.at \in {"upload", "save"}
        /\ run.cmd.op = "instantiate" =>
               /\ run.at # "upload"
               /\ \A e \in job.entries : disk.at[e].address # NoAddress
               /\ run.at \in {"confirm", "send"} =>
                      codes[run.codeId].bin = BinaryOf[run.cmd.e[1]]
               /\ run.at = "send" => run.cfg.at[run.cmd.e].codeId = run.codeId

\* A live contract is at home and was told the homes of those it needs, which the
\* file has kept.
LiveHome ==
    \A a \in DOMAIN live :
        /\ a = Home(live[a].e)
        /\ \A d \in Needs(live[a].e) \cap job.entries :
               live[a].links[d] = Home(d) /\ disk.at[d].address = Home(d)

DocInv ==
    Documented => /\ proposals = << >> /\ BinOk(codes, disk) /\ HomeOk(disk)
                  /\ DocRun /\ LiveHome

\* No two contracts share a home.
LEMMA HomeIs ==
    ASSUME NEW e \in Entries
    PROVE  /\ Home(e) # NoAddress
           /\ \A f \in Entries : Home(e) = Home(f) => e = f
<1>1. \A i : Sequential(i) # NoAddress
      /\ \A b, w, s : Sequential(i) # Predicted(b, w, s) /\ NoAddress # Predicted(b, w, s)
  BY DEF Sequential, NoAddress, Predicted
<1>2. \A i, j : Sequential(i) = Sequential(j) => i = j
  BY SequentialShape
<1>3. \A b, w, s, b2, w2, s2 : Predicted(b, w, s) = Predicted(b2, w2, s2) => s = s2
  BY DEF Predicted
<1>4. \A f : PreLive(f) => job.live[CHOOSE i \in DOMAIN job.live : job.live[i] = f] = f
  BY DEF PreLive
<1>5. Home(e) # NoAddress
  BY <1>1 DEF Home
<1>6. ASSUME NEW f \in Entries, Home(e) = Home(f) PROVE e = f
  <2>1. CASE PreLive(e) /\ PreLive(f)
    BY <1>2, <1>4, <1>6, <2>1 DEF Home
  <2>2. CASE ~PreLive(e) /\ ~PreLive(f)
    BY <1>3, <1>6, <2>2 DEF Home
  <2>3. CASE PreLive(e) /\ ~PreLive(f)
    BY <1>1, <1>6, <2>3 DEF Home
  <2>4. CASE ~PreLive(e) /\ PreLive(f)
    BY <1>1, <1>6, <2>4 DEF Home
  <2> QED
    BY <2>1, <2>2, <2>3, <2>4
<1> QED
  BY <1>5, <1>6

\* Codes are only added.
LEMMA BinStays ==
    ASSUME NEW cs \in Seq(Codes), NEW x, NEW cfg, BinOk(cs, cfg)
    PROVE  BinOk(Append(cs, x), cfg)
<1>1. \A k \in DOMAIN cs : k \in DOMAIN Append(cs, x) /\ Append(cs, x)[k] = cs[k]
  OBVIOUS
<1> QED
  BY <1>1 DEF BinOk

\* What the procedure's command is.
LEMMA DocBusy ==
    ASSUME Typed, DocInv, Documented, run.at # "idle"
    PROVE  LET c == run.cmd
           IN  /\ DocRun /\ run # Idle /\ Follows(c) /\ c.inst2 /\ SaltOf(c) = c.e /\ c.code = LastOne
               /\ ~c.predictOnly /\ c.e \in Entries
               /\ Home(c.e) = Predicted(BinaryOf[c.e[1]], Wallet, c.e)
<1> DEFINE c == run.cmd
<1>1. DocRun /\ run # Idle /\ Follows(c)
  BY NotIdle DEF DocInv, DocRun
<1>2. c.inst2 /\ c.salt = NoSalt /\ c.code = LastOne /\ ~c.predictOnly
  BY <1>1 DEF Follows, Following
<1>3. c.e \in Entries
  BY BusyTyped
<1> QED
  BY <1>1, <1>2, <1>3 DEF SaltOf, Home, Follows

\* Homes are the job's.
LEMMA HomeStays ==
    ASSUME job' = job
    PROVE  /\ \A e : Home(e)' = Home(e) /\ (PreLive(e)' <=> PreLive(e))
           /\ Documented' <=> Documented
<1>1. \A e : PreLive(e)' <=> PreLive(e)
  BY DEF PreLive
<1>2. \A e : Home(e)' = Home(e)
  BY <1>1 DEF Home
<1> QED
  BY <1>1, <1>2 DEF Documented

\* A step that leaves the file and the chain alone.
LEMMA DocKept ==
    ASSUME DocInv, UNCHANGED <<job, disk, chain, proposals>>, Documented => DocRun'
    PROVE  DocInv'
<1>1. job' = job /\ codes' = codes /\ live' = live /\ disk' = disk /\ proposals' = proposals
  BY DEF chain
<1>2. LiveHome <=> LiveHome'
  BY <1>1, HomeStays DEF LiveHome
<1>3. HomeOk(disk) <=> HomeOk(disk)'
  BY <1>1, HomeStays DEF HomeOk
<1> QED
  BY <1>1, <1>2, <1>3, HomeStays DEF DocInv, BinOk

LEMMA DocInit == Init => DocInv
<1> SUFFICES ASSUME Init, Documented PROVE DocInv
  BY DEF DocInv
<1> DEFINE id(e) == CHOOSE i \in DOMAIN job.live : job.live[i] = e
           addr(e) == IF PreLive(e) THEN Sequential(id(e)) ELSE NoAddress
           ids(name) == {i \in DOMAIN job.live : job.live[i][1] = name}
<1>1. job \in Jobs /\ job.live \in Seq(Entries) /\ Len(job.live) \in Nat
      /\ DOMAIN job.live = 1 .. Len(job.live)
  BY CosmwasmConstants DEF Init
<1>2. codes = [i \in DOMAIN job.live |-> [bin |-> BinaryOf[job.live[i][1]], open |-> TRUE]]
  BY DEF Init
<1>3. disk.at = [e \in Entries |-> [address |-> addr(e),
                                    codeId |-> IF PreLive(e) THEN id(e) ELSE 0]]
      /\ disk.base = [name \in Contracts |-> [hash |-> NoBinary,
                         last |-> IF ids(name) = {} THEN 0 ELSE Max(ids(name))]]
  BY DEF Init, PreLive
<1>4. live = [a \in {Sequential(i) : i \in DOMAIN job.live} |->
                 [e |-> job.live[a[1]], code |-> a[1], admin |-> Governance,
                  links |-> [d \in Needs(job.live[a[1]]) |-> addr(d)]]]
  BY DEF Init, PreLive
<1>5. \A e : PreLive(e) => id(e) \in DOMAIN job.live /\ job.live[id(e)] = e
                           /\ addr(e) = Home(e)
  BY DEF PreLive, Home
<1>6. BinOk(codes, disk)
  <2> SUFFICES ASSUME NEW name \in Contracts, disk.base[name].last # 0
               PROVE  disk.base[name].last \in DOMAIN codes
                      /\ codes[disk.base[name].last].bin = BinaryOf[name]
    BY DEF BinOk
  <2>1. ids(name) # {} /\ disk.base[name].last = Max(ids(name))
    <3> HIDE DEF ids
    <3> QED
      BY <1>3
  <2>2. ids(name) \subseteq 1 .. Len(job.live)
    BY <1>1
  <2>3. Max(ids(name)) \in ids(name)
    <3> HIDE DEF ids
    <3> QED
      BY <1>1, <2>1, <2>2, MaxIn
  <2> QED
    BY <1>2, <2>1, <2>3
<1>7. HomeOk(disk)
  <2> SUFFICES ASSUME NEW e \in Entries
               PROVE  /\ disk.at[e].address \in {NoAddress, Home(e)}
                      /\ PreLive(e) => disk.at[e].address = Home(e) /\ disk.at[e].codeId # 0
    BY DEF HomeOk
  <2>1. disk.at[e].address = addr(e)
        /\ disk.at[e].codeId = IF PreLive(e) THEN id(e) ELSE 0
    <3> HIDE DEF id, addr
    <3> QED
      BY <1>3
  <2>2. PreLive(e) => id(e) # 0 /\ addr(e) = Home(e)
    <3> HIDE DEF id, addr
    <3> QED
      BY <1>1, <1>5
  <2> HIDE DEF id
  <2> QED
    BY <2>1, <2>2
<1>8. LiveHome
  <2> SUFFICES ASSUME NEW a \in DOMAIN live
               PROVE  /\ a = Home(live[a].e)
                      /\ \A d \in Needs(live[a].e) \cap job.entries :
                             live[a].links[d] = Home(d) /\ disk.at[d].address = Home(d)
    BY DEF LiveHome
  <2>1. PICK i \in DOMAIN job.live : a = Sequential(i)
    BY <1>4
  <2>2. a[1] = i
    BY <2>1, SequentialShape
  <2> DEFINE e == job.live[i]
  <2>3. /\ live[a].e = e /\ live[a].links = [d \in Needs(e) |-> addr(d)]
    BY <1>4, <2>2
  <2>4. PreLive(e) /\ id(e) = i /\ e \in Entries
    <3>1. PreLive(e) /\ e \in Entries
      BY <1>1 DEF PreLive
    <3>2. id(e) \in DOMAIN job.live /\ job.live[id(e)] = job.live[i]
      BY <1>5, <3>1
    <3> HIDE DEF id
    <3> QED
      BY <1>1, <3>1, <3>2, CosmwasmConstants
  <2>5. a = Home(e)
    BY <2>1, <2>4 DEF Home
  <2>6. \A d \in Needs(e) : PreLive(d) /\ d \in Entries
    <3>1. Needs(job.live[i]) \subseteq {job.live[y] : y \in DOMAIN job.live}
      BY <1>1, CosmwasmConstants
    <3>2. Needs(e) \subseteq Entries
      BY <2>4, CosmwasmConstants
    <3> QED
      BY <3>1, <3>2 DEF PreLive
  <2>7. \A d \in Needs(e) : addr(d) = Home(d) /\ disk.at[d].address = Home(d)
    BY <1>3, <1>5, <2>6
  <2> HIDE DEF e, addr
  <2> QED
    BY <2>3, <2>5, <2>7
<1>9. proposals = << >> /\ DocRun
  BY DEF Init, DocRun
<1> QED
  BY <1>6, <1>7, <1>8, <1>9 DEF DocInv

LEMMA StartDoc == ASSUME Typed, DocInv, NEW c \in Commands, Start(c) PROVE DocInv'
<1> SUFFICES ASSUME Documented PROVE DocRun'
  BY DocKept DEF Start
<1>1. run' = [at |-> FirstStep(c), cmd |-> c, cfg |-> disk, codeId |-> 0, sent |-> FALSE]
      /\ UNCHANGED <<job, disk, codes>>
  BY DEF Start, chain
<1>2. BinOk(codes, disk) /\ HomeOk(disk) /\ job.entries \subseteq Entries
  BY CosmwasmConstants DEF DocInv, Typed
<1>3. c \in DocumentedCommands
  BY DEF Commands, Documented
<1>4. PICK e \in job.entries :
          \/ disk.at[e].address = NoAddress /\ c = Following("upload", e)
          \/ /\ disk.at[e].codeId = 0 /\ c = Following("instantiate", e)
             /\ \A d \in job.entries : disk.at[d].address # NoAddress
  BY <1>3 DEF DocumentedCommands
<1>5. ~PreLive(e)
  BY <1>2, <1>4, HomeIs DEF HomeOk
<1>6. c.e = e /\ c.op \in {"upload", "instantiate"} /\ c = Following(c.op, c.e)
  BY <1>4 DEF Following
<1>7. Follows(c)
  BY <1>5, <1>6 DEF Follows
<1>8. /\ c.op = "upload" => FirstStep(c) = "upload"
      /\ c.op = "instantiate" => FirstStep(c) = "code"
  BY <1>6 DEF FirstStep, CodeIdUsers
<1>9. c.op = "instantiate" => \A d \in job.entries : disk.at[d].address # NoAddress
  BY <1>4 DEF Following
<1> QED
  BY <1>1, <1>2, <1>7, <1>8, <1>9, HomeStays DEF DocRun, Follows, BinOk, HomeOk

LEMMA UploadDoc == ASSUME Typed, DocInv, Upload PROVE DocInv'
<1> SUFFICES ASSUME Documented PROVE DocInv'
  BY DEF DocInv, Documented, Upload
<1> DEFINE c    == run.cmd
           k    == Len(codes) + 1
           bin  == BinaryOf[c.e[1]]
           cfg  == WithLast(run.cfg, c, k)
           here == Predicted(bin, Wallet, SaltOf(c))
           new  == WithAddress(cfg, c, here)
<1>1. run.at = "upload"
  BY DEF Upload
<1>2. /\ run \in Running(born, Len(codes)) /\ c.e \in Entries
      /\ run.cfg \in Conf(born, Len(codes))
      /\ born \in Nat /\ Len(codes) \in Nat /\ codes \in Seq(Codes)
  BY <1>1, BusyTyped DEF Typed
<1>3. DocRun /\ Follows(c) /\ c.inst2 /\ here = Home(c.e) /\ c.op = "upload" /\ run # Idle
  BY <1>1, DocBusy DEF DocRun, Follows
<1>4. run'.at = "save" /\ run'.cmd = c /\ run'.cfg = new
  BY <1>2, <1>3 DEF Upload, Running
<1>5. /\ codes' = Append(codes, [bin |-> bin, open |-> TRUE])
      /\ UNCHANGED <<job, disk, live, proposals>>
  BY DEF Upload
<1>6. k \in DOMAIN codes' /\ codes'[k].bin = bin /\ k # 0
  BY <1>2, <1>5
<1>7. BinOk(codes', disk) /\ BinOk(codes', run.cfg) /\ HomeOk(run.cfg)
  BY <1>2, <1>3, <1>5, BinStays DEF DocInv, DocRun
<1>8. cfg \in Conf(born, k)
  <2>1. Conf(born, Len(codes)) \subseteq Conf(born, k) /\ k \in 0 .. k /\ NoAddress \in Addr(born)
        /\ k \in Nat
    BY <1>2, Grown DEF Addr
  <2> HIDE DEF k
  <2> QED
    BY <1>2, <2>1, ConfigSteps
<1>9. /\ cfg.base[c.e[1]].last = k /\ cfg.at = run.cfg.at
      /\ \A name \in Contracts : name # c.e[1] => cfg.base[name] = run.cfg.base[name]
  BY <1>2, WrittenLast
<1>10. /\ new.base = cfg.base /\ new.at[c.e].address = here
       /\ \A f \in Entries : f # c.e => new.at[f] = cfg.at[f]
  <2> HIDE DEF cfg, here
  <2> QED
    BY <1>2, <1>8, WrittenAddress
<1> HIDE DEF new, cfg, here, k
<1>11. BinOk(codes', new)
  BY <1>6, <1>7, <1>9, <1>10 DEF BinOk
<1>12. HomeOk(new)
  BY <1>3, <1>7, <1>9, <1>10 DEF HomeOk, Follows
<1>13. \A e \in Entries : disk.at[e].address # NoAddress => new.at[e].address # NoAddress
  BY <1>2, <1>3, <1>9, <1>10, HomeIs DEF DocRun
<1>14. DocRun'
  BY <1>3, <1>4, <1>5, <1>11, <1>12, <1>13, HomeStays DEF DocRun, Follows, HomeOk
<1>15. LiveHome' /\ HomeOk(disk)' /\ proposals' = << >>
  BY <1>5, HomeStays DEF DocInv, LiveHome, HomeOk
<1> QED
  BY <1>5, <1>7, <1>14, <1>15 DEF DocInv

LEMMA ThinkDoc ==
    ASSUME Typed, DocInv, (\E code \in DOMAIN codes : ChooseCode(code)) \/ Proceed \/ Decline
    PROVE  DocInv'
<1> SUFFICES ASSUME Documented PROVE DocRun'
  BY DocKept DEF ChooseCode, Proceed, Decline
<1> DEFINE c == run.cmd
<1>1. run.at \in {"code", "confirm"} /\ run.at # "idle"
  BY DEF ChooseCode, Proceed, Decline
<1>2. /\ run \in Running(born, Len(codes)) /\ c.e \in Entries
      /\ run.cfg \in Conf(born, Len(codes))
  BY <1>1, BusyTyped
<1>3. DocRun /\ Follows(c) /\ c.code = LastOne /\ ~c.predictOnly /\ run # Idle
  BY <1>1, DocBusy
<1>4. c.op = "instantiate" /\ c.op \in DirectOps /\ c.op \notin ProposalOps /\ c.yes
  BY <1>1, <1>3 DEF DocRun, Follows, Following, DirectOps, ProposalOps
<1>5. job' = job /\ disk' = disk /\ codes' = codes
  BY DEF ChooseCode, Proceed, Decline, chain
<1>6. CASE \E code \in DOMAIN codes : ChooseCode(code)
  <2>1. PICK code \in DOMAIN codes : ChooseCode(code)
    BY <1>6
  <2>2. /\ run'.at = "confirm" /\ run'.cmd = c /\ run'.cfg = run.cfg /\ run'.codeId = code
        /\ code \in CodeIdsFor(run.cfg, c)
    BY <1>2, <1>3, <1>4, <2>1 DEF ChooseCode, Running, LastOne, Fetch
  <2>3. code = run.cfg.base[c.e[1]].last /\ code # 0 /\ c.e[1] \in Contracts
    BY <1>2, <1>3, <2>2 DEF CodeIdsFor, LastOne, Fetch, Given, Contracts
  <2>4. codes[code].bin = BinaryOf[c.e[1]]
    BY <1>3, <2>3 DEF DocRun, BinOk
  <2> QED
    BY <1>3, <1>4, <1>5, <2>2, <2>4, HomeStays DEF DocRun, Follows, BinOk, HomeOk
<1>7. CASE Proceed
  <2> DEFINE new == WithCodeId(run.cfg, c, run.codeId)
  <2>1. /\ run.at = "confirm" /\ run'.at = "send" /\ run'.cmd = c /\ run'.cfg = new
        /\ run'.codeId = run.codeId
    BY <1>2, <1>4, <1>7 DEF Proceed, Running
  <2>2. /\ new.at[c.e].codeId = run.codeId /\ new.at[c.e].address = run.cfg.at[c.e].address
        /\ \A f \in Entries : f # c.e => new.at[f] = run.cfg.at[f]
        /\ new.base = run.cfg.base
    BY <1>2, WrittenCodeId
  <2> HIDE DEF new
  <2>3. BinOk(codes, new)
    BY <1>3, <2>2 DEF DocRun, BinOk
  <2>4. HomeOk(new)
    BY <1>3, <2>2 DEF DocRun, HomeOk, Follows
  <2>5. \A e \in Entries : disk.at[e].address # NoAddress => new.at[e].address # NoAddress
    BY <1>3, <2>2 DEF DocRun
  <2> QED
    BY <1>3, <1>4, <1>5, <2>1, <2>2, <2>3, <2>4, <2>5, HomeStays
       DEF DocRun, Follows, HomeOk
<1>8. CASE Decline
  BY <1>4, <1>8 DEF Decline
<1> QED
  BY <1>6, <1>7, <1>8

LEMMA InstantiateContractDoc == ASSUME Typed, DocInv, InstantiateContract PROVE DocInv'
<1> SUFFICES ASSUME Documented PROVE DocInv'
  BY DEF DocInv, Documented, InstantiateContract
<1> DEFINE c    == run.cmd
           code == run.cfg.at[c.e].codeId
           addr == AddressFor(c, code, Wallet)
           x    == [e |-> c.e, code |-> code, admin |-> Admin, links |-> Message(run.cfg, c.e)]
           new  == WithAddress(run.cfg, c, addr)
<1>1. run.at = "send" /\ run.at # "idle"
  BY DEF InstantiateContract
<1>2. /\ run \in Running(born, Len(codes)) /\ c.e \in Entries
      /\ run.cfg \in Conf(born, Len(codes))
  BY <1>1, BusyTyped
<1>3. /\ DocRun /\ Follows(c) /\ c.inst2 /\ SaltOf(c) = c.e /\ run # Idle
      /\ Home(c.e) = Predicted(BinaryOf[c.e[1]], Wallet, c.e)
  BY <1>1, DocBusy
<1>4. c.op = "instantiate"
  BY <1>3 DEF InstantiateContract, Follows
<1>5. addr = Home(c.e)
  <2>1. code = run.codeId /\ codes[run.codeId].bin = BinaryOf[c.e[1]]
    BY <1>1, <1>3, <1>4 DEF DocRun
  <2> QED
    BY <1>3, <2>1 DEF AddressFor
<1>6. /\ Instantiated(addr, x) /\ UNCHANGED <<job, disk, codes, proposals>>
  BY DEF InstantiateContract
<1>7. run'.at = "save" /\ run'.cmd = c /\ run'.cfg = new
  BY <1>2 DEF InstantiateContract, Running
<1>8. /\ new.base = run.cfg.base /\ new.at[c.e].address = addr
      /\ new.at[c.e].codeId = run.cfg.at[c.e].codeId
      /\ \A f \in Entries : f # c.e => new.at[f] = run.cfg.at[f]
  <2> HIDE DEF addr
  <2> QED
    BY <1>2, WrittenAddress
<1>9. \A d \in Needs(c.e) \cap job.entries :
          x.links[d] = Home(d) /\ disk.at[d].address = Home(d)
  <2> TAKE d \in Needs(c.e) \cap job.entries
  <2>1. d \in Entries /\ disk.at[d].address # NoAddress
    BY <1>2, <1>3, <1>4, CosmwasmConstants DEF DocRun
  <2>2. HomeOk(disk) /\ HomeOk(run.cfg) /\ run.cfg.at[d].address # NoAddress
    BY <1>3, <2>1 DEF DocInv, DocRun
  <2>3. disk.at[d].address = Home(d) /\ run.cfg.at[d].address = Home(d)
    BY <2>1, <2>2 DEF HomeOk
  <2> QED
    BY <2>3 DEF Message
<1>10. x.e = c.e
  OBVIOUS
<1> HIDE DEF new, addr, x, code
<1>11. LiveHome'
  <2>1. \A a \in DOMAIN live' : \/ a = addr /\ live'[a] = x
                                \/ a \in DOMAIN live /\ live'[a] = live[a]
    BY <1>6 DEF Instantiated
  <2>2. LiveHome
    BY DEF DocInv
  <2> QED
    BY <1>5, <1>6, <1>9, <1>10, <2>1, <2>2, HomeStays DEF LiveHome
<1>12. BinOk(codes, new)
  BY <1>3, <1>8 DEF DocRun, BinOk
<1>13. HomeOk(new)
  BY <1>3, <1>5, <1>8 DEF DocRun, HomeOk
<1>14. \A e \in Entries : disk.at[e].address # NoAddress => new.at[e].address # NoAddress
  BY <1>2, <1>3, <1>5, <1>8, HomeIs DEF DocRun
<1>15. DocRun'
  BY <1>3, <1>4, <1>6, <1>7, <1>12, <1>13, <1>14, HomeStays DEF DocRun, Follows, HomeOk
<1>16. HomeOk(disk)' /\ BinOk(codes, disk)' /\ proposals' = << >>
  BY <1>6, HomeStays DEF DocInv, HomeOk
<1> QED
  BY <1>11, <1>15, <1>16 DEF DocInv

LEMMA EndDoc == ASSUME Typed, DocInv, Fail \/ Crash \/ SaveConfig PROVE DocInv'
<1>1. run' = Idle /\ UNCHANGED <<job, chain, proposals>>
  BY DEF Fail, Crash, SaveConfig
<1>2. DocRun'
  BY <1>1 DEF DocRun
<1>3. CASE disk' = disk
  BY <1>1, <1>2, <1>3, DocKept
<1>4. CASE SaveConfig
  <2> SUFFICES ASSUME Documented PROVE DocInv'
    BY <1>1, HomeStays DEF DocInv
  <2>1. run.at = "save" /\ disk' = run.cfg
    BY <1>4 DEF SaveConfig
  <2>2. /\ BinOk(codes, run.cfg) /\ HomeOk(run.cfg) /\ LiveHome /\ proposals = << >>
        /\ \A e \in Entries : disk.at[e].address # NoAddress => run.cfg.at[e].address # NoAddress
    BY <2>1, DocBusy DEF DocInv, DocRun
  <2>3. LiveHome'
    <3>1. job.entries \subseteq Entries /\ live' = live /\ job' = job
      BY <1>1, CosmwasmConstants DEF Typed, chain
    <3>2. ASSUME NEW d \in job.entries, disk.at[d].address = Home(d)
          PROVE  run.cfg.at[d].address = Home(d)
      BY <2>2, <3>1, <3>2, HomeIs DEF HomeOk
    <3> QED
      BY <2>1, <2>2, <3>1, <3>2, HomeStays DEF LiveHome
  <2>4. HomeOk(disk)' /\ BinOk(codes, disk)' /\ proposals' = << >>
    BY <1>1, <2>1, <2>2, HomeStays DEF HomeOk, BinOk, chain
  <2> QED
    BY <1>2, <2>3, <2>4 DEF DocInv
<1> QED
  BY <1>3, <1>4 DEF Fail, Crash

\* The procedure does nothing else.
LEMMA OtherDoc ==
    ASSUME Typed, DocInv, MigrateContract \/ UpdateCodeId \/ Submission \/ Governed
    PROVE  DocInv'
<1>1. job' = job
  BY DEF MigrateContract, UpdateCodeId, Submission, StoreCode, StoreInstantiate,
         ProposeInstantiate, ProposeMigrate, Execute, RegisterProtocol, Submit, Governed,
         Reject, PassStore, PassStoreInstantiate, PassInstantiate, PassMigrate,
         PassExecute, Decide
<1> SUFFICES ASSUME Documented PROVE FALSE
  BY <1>1, HomeStays DEF DocInv
<1>2. CASE Governed
  BY <1>2 DEF Governed, DocInv
<1>3. CASE MigrateContract \/ UpdateCodeId \/ Submission
  <2>1. run.at = "send" /\ run.at # "idle"
        /\ run.cmd.op \in {"migrate", "update-code-id"} \cup ProposalOps
    BY <1>3 DEF MigrateContract, UpdateCodeId, Submission, StoreCode, StoreInstantiate,
                ProposeInstantiate, ProposeMigrate, Execute, RegisterProtocol, ProposalOps
  <2>2. run.cmd.op \in {"upload", "instantiate"}
    BY <2>1, DocBusy DEF Follows
  <2> QED
    BY <2>1, <2>2 DEF ProposalOps
<1> QED
  BY <1>2, <1>3

LEMMA NextDoc == Typed /\ DocInv /\ [Next]_vars => DocInv'
<1> SUFFICES ASSUME Typed, DocInv, [Next]_vars PROVE DocInv'
  OBVIOUS
<1>1. CASE run = Idle /\ \E c \in Commands : Start(c)
  BY <1>1, StartDoc
<1>2. CASE Upload
  BY <1>2, UploadDoc
<1>3. CASE (\E code \in DOMAIN codes : ChooseCode(code)) \/ Proceed \/ Decline
  BY <1>3, ThinkDoc
<1>4. CASE InstantiateContract
  BY <1>4, InstantiateContractDoc
<1>5. CASE Fail \/ Crash \/ SaveConfig
  BY <1>5, EndDoc
<1>6. CASE MigrateContract \/ UpdateCodeId \/ Submission \/ Governed
  BY <1>6, OtherDoc
<1>7. CASE UNCHANGED vars
  <2>1. UNCHANGED <<job, disk, chain, proposals, run>>
    BY <1>7 DEF vars
  <2>2. Documented => DocRun'
    BY <2>1, HomeStays DEF DocInv, DocRun, Follows, HomeOk, BinOk, chain
  <2> QED
    BY <2>1, <2>2, DocKept
<1> QED
  BY <1>1, <1>2, <1>3, <1>4, <1>5, <1>6, <1>7 DEF Next, Working, Step, Submission

THEOREM DocHolds == Spec => []DocInv
BY DocInit, NextDoc, TypedHolds, PTL DEF Spec

\* The documented procedure closes every cycle of contracts that need each other's
\* address: whatever needs what, whatever was live before, whatever crashed and was
\* repeated, a contract live where the file says was told the address the file has
\* for each contract of the procedure it needs.
THEOREM CyclesClose == Spec => []CycleCloses
<1>1. Typed /\ DocInv => CycleCloses
  <2> SUFFICES ASSUME Typed, DocInv, Documented,
                      NEW e \in job.entries, disk.at[e].address \in DOMAIN live,
                      NEW d \in Needs(e) \cap job.entries
               PROVE  live[disk.at[e].address].links[d] = disk.at[d].address
    BY DEF CycleCloses
  <2> DEFINE a == disk.at[e].address
  <2>1. HomeOk(disk) /\ LiveHome
    BY DEF DocInv
  <2>2. e \in Entries
    BY CosmwasmConstants DEF Typed
  <2>3. a # NoAddress /\ live[a].e \in Entries
    <3>1. DOMAIN live \subseteq Addr(born) \ {NoAddress}
      BY DEF Typed
    <3>2. live[a] \in Built(born, Len(codes))
      BY DEF Typed
    <3> QED
      BY <3>1, <3>2 DEF Built
  <2>4. live[a].e = e
    BY <2>1, <2>2, <2>3, HomeIs DEF HomeOk, LiveHome
  <2> QED
    BY <2>1, <2>4 DEF LiveHome
<1> QED
  BY <1>1, TypedHolds, DocHolds, PTL

\* A command the operator repeats because the one before it died deploys nothing
\* twice: no two live contracts of the procedure's chain are of one entry.
THEOREM NothingTwice == Spec => []NeverTwice
<1>1. DocInv => NeverTwice
  BY DEF DocInv, LiveHome, NeverTwice
<1> QED
  BY <1>1, DocHolds, PTL
=============================================================================
