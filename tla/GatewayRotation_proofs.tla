------------------------ MODULE GatewayRotation_proofs ------------------------
(***************************************************************************)
(* The scripts implement SignerHandover: for any operators, scenarios and  *)
(* numbers of sets, gateway and prover hand over in turn.                  *)
(*                                                                         *)
(* What is read from the prover is stale when it is sent.  It does no harm *)
(* because the prover moves on only when the gateway has its next set, and *)
(* from then on a gateway takes no set on a wallet's word; and because all *)
(* sessions of one set name the same successor, and none is signed by a    *)
(* set before it is current.  The invariant says so of every transaction   *)
(* that is under way, in the hands of a script or left behind by one.      *)
(*                                                                         *)
(* CareInv adds what checks are good for: what passed the simulation is    *)
(* accepted unless another transaction came between; and the transaction a *)
(* command ends with is the one that has the effect.                       *)
(***************************************************************************)
EXTENDS GatewayRotation, TLAPS

Num(s) == s[2]
MaybeSet == SignerSets \cup {NoSet}
SessionType == [signer : ProverSets, what : {"rotate", "approve"},
                set : ProverSets \cup {NoSet}, signed : BOOLEAN]
Statuses == {"unknown", "in_progress", "failed", "succeeded_on_source_chain"}
CmdType == [name : {"none", "deploy", "update", "submitProof", "confirm", "rotate", "approve",
                    "approveAndExecute", "execute"},
            nonce : 0..MaxNonce, to : WalletSets \cup {NoSet}, id : Nat]
OpType == [pc : PCs, cmd : CmdType, held : MaybeSet, todo : Seq(AllTxs), flight : Flights,
           raced : BOOLEAN]

AxelarTyped ==
    /\ registered \in 1..MaxSets
    /\ prover \in [current : ProverSets \cup {NoSet}, next : ProverSets \cup {NoSet}]
    /\ sessions \in Seq(SessionType) /\ Len(sessions) <= MaxSessions
    /\ polls \in [ProverSets -> [status : Statuses, tx : Nat]]
GatewayTyped ==
    /\ gateway \in Seq(SignerSets)
    /\ message \in {"unknown", "approved", "executed"}
    /\ prepared \subseteq AllTxs /\ late \subseteq AllTxs
Typed ==
    /\ scenario \in Scenarios
    /\ AxelarTyped /\ GatewayTyped
    /\ op \in [Operators -> OpType]
    /\ commands \in [Operators -> Nat] /\ crashes \in Nat

\* The prover's sets are numbered in the order they sign.
ProverOk ==
    /\ prover.current = NoSet => prover.next = NoSet /\ sessions = <<>>
    /\ prover.current # NoSet => Num(prover.current) <= registered
    /\ prover.next # NoSet =>
          Num(prover.current) < Num(prover.next) /\ Num(prover.next) <= registered

\* Does the gateway know a set of the prover?
Official == \E i \in DOMAIN gateway : gateway[i] \in ProverSets

\* A set that may come on a wallet's word, and one that may on a prover set's.
Fresh(set) ==
    \/ set \in WalletSets
    \/ /\ set \in ProverSets /\ prover.current # NoSet
       /\ ~Official => set = prover.current
Successor(signer, set) ==
    /\ signer \in ProverSets /\ set \in ProverSets /\ prover.current # NoSet
    /\ Num(signer) <= Num(prover.current)
    /\ signer = prover.current => set = prover.next
TxOk(tx) ==
    /\ tx.what = "deploy" => Fresh(tx.set)
    /\ tx.what = "rotate" => \/ tx.signer \in WalletSets /\ Fresh(tx.set)
                             \/ Successor(tx.signer, tx.set)

SessionsOk ==
    \A i \in DOMAIN sessions :
        sessions[i].what = "rotate" => Successor(sessions[i].signer, sessions[i].set)

\* Wallet sets come first; the latest set of the prover signs or is the next to.
GatewayOk ==
    /\ \A i \in DOMAIN gateway, j \in DOMAIN gateway :
          i < j /\ gateway[i] \in ProverSets => gateway[j] \in ProverSets
    /\ Official =>
          /\ prover.current \in Range(gateway)
          /\ gateway[Len(gateway)] \in {prover.current, prover.next}
    /\ \A i \in DOMAIN gateway : gateway[i] \in ProverSets =>
          \/ Num(gateway[i]) <= Num(prover.current)
          \/ i = Len(gateway) /\ gateway[i] = prover.next

PollsOk ==
    \A s \in ProverSets :
        polls[s].status = "succeeded_on_source_chain" => s \in Range(gateway)

OpOk(r) ==
    /\ r.pc = "send" => Len(r.todo) > 0
    /\ r.flight # "none" => r.pc = "send"
    /\ \A i \in 1..Len(r.todo) : TxOk(r.todo[i])
    /\ r.pc = "begin" /\ r.cmd.name = "submitProof" => r.cmd.id \in DOMAIN sessions
    /\ r.pc = "update" => prover.current # NoSet
    /\ r.pc = "begin" /\ r.cmd.name = "deploy" /\ kind = "stellar" => r.cmd.to # NoSet

IInv ==
    /\ Typed
    /\ ProverOk /\ SessionsOk /\ GatewayOk /\ PollsOk
    /\ \A o \in Operators : OpOk(op[o])
    /\ \A tx \in late : TxOk(tx)
-----------------------------------------------------------------------------
(* Sets, transactions and commands                                         *)

LEMMA SetsDiffer ==
    /\ ProverSets \cap WalletSets = {} /\ NoSet \notin ProverSets /\ NoSet \notin WalletSets
    /\ \A s \in ProverSets : Num(s) \in 1..MaxSets
    /\ \A s \in ProverSets, t \in ProverSets : Num(s) = Num(t) => s = t
    /\ \A n \in 1..MaxSets : ProverSet(n) \in ProverSets /\ Num(ProverSet(n)) = n
    /\ \A n \in 0..MaxNonce : WalletSet(n) \in WalletSets
    /\ WalletSet(0) \in WalletSets /\ WalletSet(1) \in WalletSets
<1>1. \A n \in 0..MaxNonce : WalletSet(n) \in WalletSets
  BY DEF WalletSets
<1>2. 0 \in 0..MaxNonce /\ 1 \in 0..MaxNonce
  BY ConstantsOK
<1>3. \A s \in ProverSets : \E n \in 1..MaxSets : s = ProverSet(n) /\ Num(s) = n
  BY DEF ProverSets, ProverSet, Num
<1>4. \A s \in WalletSets : s[1] = "wallet"
  BY DEF WalletSets, WalletSet
<1>5. \A s \in ProverSets : s[1] = "prover"
  BY DEF ProverSets, ProverSet
<1>6. \A n \in 1..MaxSets : ProverSet(n) \in ProverSets /\ Num(ProverSet(n)) = n
  BY DEF ProverSets, ProverSet, Num
<1> QED
  BY <1>1, <1>2, <1>3, <1>4, <1>5, <1>6, NoSetIsNone DEF SignerSets

LEMMA IdleOk == Idle \in OpType /\ OpOk(Idle)
BY ConstantsOK DEF Idle, OpType, OpOk, PCs, CmdType, MaybeSet, Flights, Cmd

Whats == {"deploy", "rotate", "approve", "execute"}

\* The transactions a command is made of.
LEMMA OneTx ==
    ASSUME NEW what \in Whats,
           NEW signer \in MaybeSet, NEW set \in MaybeSet,
           NEW txs \in {One(what, signer, set), Flow(what, signer, set)}
    PROVE  /\ txs \in Seq(AllTxs) /\ Len(txs) > 0
           /\ \A i \in 1..Len(txs) : txs[i].what = what /\ txs[i].signer = signer
                                     /\ txs[i].set = set
<1>1. \A i \in 0..Closing : Tx(what, signer, set, i) \in AllTxs
  BY DEF AllTxs, MaybeSet, Whats
<1>2. Parts \in Nat /\ Last \in 0..Closing /\ \A i \in 1..(Parts + 2) : i - 1 \in 0..Closing
  BY ConstantsOK DEF Last, Closing
<1>3. CASE txs = One(what, signer, set)
  BY <1>1, <1>2, <1>3 DEF One, Tx
<1>4. CASE txs = Flow(what, signer, set)
  <2>1. txs = [i \in 1..(Parts + 2) |-> Tx(what, signer, set, i - 1)]
    BY <1>4 DEF Flow
  <2>2. \A i \in 1..(Parts + 2) : txs[i] \in AllTxs
    BY <1>1, <1>2, <2>1
  <2>3. txs \in Seq(AllTxs) /\ Len(txs) = Parts + 2
    BY <1>2, <2>1, <2>2
  <2> QED
    BY <1>2, <2>1, <2>3 DEF Tx
<1> QED
  BY <1>3, <1>4
-----------------------------------------------------------------------------
(* What the gateway does with a transaction                                *)

\* Nothing, or it takes the set: as the first, on a wallet's word, or on that of a
\* set of the prover.
LEMMA EffectOnGateway ==
    ASSUME Typed, NEW tx \in AllTxs, TxOk(tx), Effect(tx)
    PROVE  \/ gateway' = gateway
           \/ /\ gateway' = Append(gateway, tx.set)
              /\ \/ gateway = <<>> /\ Fresh(tx.set)
                 \/ /\ gateway # <<>> /\ tx.signer = gateway[Len(gateway)]
                    /\ tx.set \notin Range(gateway)
                    /\ \/ tx.signer \in WalletSets /\ Fresh(tx.set)
                       \/ Successor(tx.signer, tx.set)
<1>1. ASSUME Accepts(tx), tx.part = Last, tx.what \in {"deploy", "rotate"}
      PROVE  \/ gateway = <<>> /\ Fresh(tx.set)
             \/ /\ gateway # <<>> /\ tx.signer = gateway[Len(gateway)]
                /\ tx.set \notin Range(gateway)
                /\ \/ tx.signer \in WalletSets /\ Fresh(tx.set)
                   \/ Successor(tx.signer, tx.set)
  <2>1. Last # Closing /\ ~(Last <= Parts)
    BY ConstantsOK DEF Last, Closing
  <2>2. CASE tx.what = "deploy"
    BY <1>1, <2>1, <2>2 DEF Accepts, TxOk
  <2>3. CASE tx.what = "rotate"
    <3>1. tx.signer \in Newest(1) /\ ~Repeats(tx)
      BY <1>1, <2>1, <2>3 DEF Accepts
    <3>2. PICK i \in DOMAIN gateway : i > Len(gateway) - 1 /\ tx.signer = gateway[i]
      BY <3>1 DEF Newest
    <3>3. i = Len(gateway) /\ gateway # <<>>
      BY <3>2 DEF Typed, GatewayTyped
    <3>4. tx.set \notin Range(gateway)
      BY <3>1, <1>1, <2>1, <2>3 DEF Repeats
    <3> QED
      BY <3>2, <3>3, <3>4, <2>3 DEF TxOk
  <2> QED
    BY <1>1, <2>2, <2>3
<1> QED
  BY <1>1 DEF Effect

\* What is right to send stays right when the gateway grows.
LEMMA TxStaysOk ==
    ASSUME UNCHANGED prover, Official => Official', NEW tx, TxOk(tx)
    PROVE  TxOk(tx)'
BY DEF TxOk, Fresh, Successor

LEMMA GatewayGrows ==
    ASSUME Typed, ProverOk, GatewayOk, UNCHANGED <<prover, registered>>,
           NEW tx \in AllTxs, TxOk(tx), Effect(tx)
    PROVE  /\ GatewayOk' /\ gateway' \in Seq(SignerSets)
           /\ Official => Official'
           /\ Range(gateway) \subseteq Range(gateway')
           /\ [Handover!Next]_<<gateway, prover.current>>
<1> DEFINE n == Len(gateway)
           s == tx.set
           now == prover.current
<1> USE SetsDiffer
<1>1. gateway \in Seq(SignerSets) /\ n \in Nat /\ DOMAIN gateway = 1..n
      /\ \A i \in 1..n : gateway[i] \in SignerSets
  BY DEF Typed, GatewayTyped
<1>2. CASE gateway' = gateway
  BY <1>1, <1>2 DEF GatewayOk, Official, Handover!vars
<1>3. CASE /\ gateway' = Append(gateway, s)
           /\ \/ gateway = <<>> /\ Fresh(s)
              \/ /\ gateway # <<>> /\ tx.signer = gateway[n] /\ s \notin Range(gateway)
                 /\ \/ tx.signer \in WalletSets /\ Fresh(s)
                    \/ Successor(tx.signer, s)
  <2>1. s \in SignerSets
    BY <1>3 DEF Fresh, Successor, SignerSets
  <2>2. /\ gateway' \in Seq(SignerSets) /\ Len(gateway') = n + 1
        /\ DOMAIN gateway' = 1..(n + 1) /\ gateway'[n + 1] = s
        /\ \A i \in 1..n : gateway'[i] = gateway[i]
    BY <1>1, <1>3, <2>1
  <2>3. (Official => Official') /\ (s \in ProverSets => Official')
    BY <1>1, <2>2 DEF Official
  <2>4. Range(gateway') = Range(gateway) \cup {s}
    BY <1>1, <2>2 DEF Range
  \* Whether the set before the new one is a wallet's says whether all are.
  <2>5. gateway # <<>> /\ gateway[n] \in WalletSets => ~Official
    BY <1>1 DEF GatewayOk, Official
  <2>6. now \in ProverSets \cup {NoSet} /\ prover.next \in ProverSets \cup {NoSet}
    BY DEF Typed, AxelarTyped
  <2>7. CASE gateway = <<>> /\ Fresh(s)
    <3>1. ~Official /\ n = 0
      BY <2>7 DEF Official
    <3>2. s \in WalletSets \/ (s = now /\ now \in ProverSets)
      BY <2>7, <3>1 DEF Fresh
    <3>3. Handover!Found(s)
      BY <1>3, <2>7, <3>2 DEF Handover!Found, Handover!IsSigning
    <3>4. GatewayOk'
      BY <2>2, <2>4, <3>1, <3>2 DEF GatewayOk, Official
    <3>5. Handover!Next
      BY <3>2, <3>3 DEF Handover!Next
    <3> QED
      BY <2>2, <2>3, <2>4, <3>4, <3>5
  <2>8. CASE /\ gateway # <<>> /\ tx.signer = gateway[n] /\ s \notin Range(gateway)
             /\ tx.signer \in WalletSets /\ Fresh(s)
    <3>1. ~Official /\ n > 0
      BY <2>5, <2>8, <1>1
    <3>2. s \in WalletSets \/ (s = now /\ now \in ProverSets)
      BY <2>8, <3>1 DEF Fresh
    <3>3. Handover!Extend(s)
      BY <1>3, <2>8, <3>2 DEF Handover!Extend, Handover!IsSigning, Handover!Latest, Handover!Range, Range
    <3>4. GatewayOk'
      <4>1. \A i \in 1..n : gateway[i] \notin ProverSets
        BY <1>1, <3>1 DEF Official
      <4> QED
        BY <1>1, <2>2, <2>4, <3>2, <4>1, <2>6 DEF GatewayOk, Official
    <3>5. Handover!Next
      BY <2>4, <3>3 DEF Handover!Next, Handover!Range, Range
    <3> QED
      BY <2>2, <2>3, <2>4, <3>4, <3>5
  <2>9. CASE /\ gateway # <<>> /\ tx.signer = gateway[n] /\ s \notin Range(gateway)
             /\ Successor(tx.signer, s)
    <3>1. n > 0 /\ gateway[n] \in ProverSets /\ s \in ProverSets /\ Official
      BY <1>1, <2>9 DEF Successor, Official
    <3>2. gateway[n] = now /\ s = prover.next
      <4>1. gateway[n] \in {now, prover.next}
        BY <3>1 DEF GatewayOk
      <4>2. Num(gateway[n]) <= Num(now) /\ now \in ProverSets
        BY <2>9, <2>6 DEF Successor
      <4>3. gateway[n] # prover.next
        BY <3>1, <4>2, <2>6 DEF ProverOk
      <4> QED
        BY <4>1, <4>3, <2>9 DEF Successor
    <3>3. Handover!Extend(s)
      BY <1>3, <2>9, <3>1, <3>2 DEF Handover!Extend, Handover!Latest, Handover!Range, Range
    <3>4. GatewayOk'
      <4>1. now \in Range(gateway) /\ now \in ProverSets
        BY <3>1, <3>2 DEF GatewayOk
      <4>2. \A i \in 1..n : gateway[i] \in ProverSets => Num(gateway[i]) <= Num(now)
        <5> SUFFICES ASSUME NEW i \in 1..n, gateway[i] \in ProverSets
                     PROVE  Num(gateway[i]) <= Num(now)
          OBVIOUS
        <5>1. Num(gateway[i]) <= Num(now) \/ i = n
          BY <1>1 DEF GatewayOk
        <5> QED
          BY <5>1, <3>2, <4>1
      <4>3. (now \in Range(gateway))' /\ gateway'[Len(gateway')] = prover.next
        BY <2>2, <2>4, <3>2, <4>1
      <4>4. \A i \in 1..(n + 1), j \in 1..(n + 1) :
                i < j /\ gateway'[i] \in ProverSets => gateway'[j] \in ProverSets
        BY <1>1, <2>2, <3>1 DEF GatewayOk
      <4>5. \A i \in 1..(n + 1) : gateway'[i] \in ProverSets =>
                Num(gateway'[i]) <= Num(now) \/ (i = n + 1 /\ gateway'[i] = prover.next)
        BY <1>1, <2>2, <3>2, <4>2
      <4> QED
        BY <2>2, <4>3, <4>4, <4>5 DEF GatewayOk
    <3>5. Handover!Next
      BY <2>4, <3>3 DEF Handover!Next, Handover!Range, Range
    <3> QED
      BY <2>2, <2>3, <2>4, <3>4, <3>5
  <2> QED
    BY <1>3, <2>7, <2>8, <2>9
<1> QED
  BY <1>2, <1>3, EffectOnGateway
-----------------------------------------------------------------------------
(* Steps of the scripts that change nothing but the scripts                *)

\* Such a step keeps the invariant, and is none of the abstract specification.
Goal == IInv' /\ [Handover!Next]_<<gateway, prover.current>>

LEMMA ScriptsMove ==
    ASSUME IInv, UNCHANGED <<scenario, axelarVars, gateway, message, prepared>>,
           op' \in [Operators -> OpType], \A o \in Operators : OpOk(op'[o]),
           late' \subseteq AllTxs, \A tx \in late' : TxOk(tx),
           commands' \in [Operators -> Nat], crashes' \in Nat
    PROVE  Goal
<1>1. UNCHANGED <<registered, prover, sessions, polls>>
  BY DEF axelarVars
<1>2. \A tx : TxOk(tx)' <=> TxOk(tx)
  BY <1>1 DEF TxOk, Fresh, Successor, Official
<1>3. Typed'
  BY <1>1 DEF IInv, Typed, AxelarTyped, GatewayTyped
<1>4. ProverOk' /\ GatewayOk' /\ PollsOk' /\ SessionsOk'
  BY <1>1 DEF IInv, ProverOk, GatewayOk, PollsOk, SessionsOk, Official, Successor
<1>5. \A o \in Operators : OpOk(op[o])'
  BY <1>1, <1>2 DEF OpOk, kind
<1>6. \A tx \in late' : TxOk(tx)'
  BY <1>2
<1> QED
  BY <1>1, <1>3, <1>4, <1>5, <1>6 DEF Goal, IInv

LEMMA QuietlyOk ==
    ASSUME IInv, NEW o \in Operators, NEW new \in OpType, OpOk(new), Quietly(o, new)
    PROVE  op' \in [Operators -> OpType] /\ \A p \in Operators : OpOk(op'[p])
BY DEF IInv, Typed, Quietly

LEMMA RacedOk ==
    ASSUME IInv, NEW p \in Operators
    PROVE  Raced(p) \in OpType /\ OpOk(Raced(p))
<1>1. op[p] \in OpType /\ OpOk(op[p])
  BY DEF IInv, Typed
<1>2. [op[p] EXCEPT !.raced = TRUE] \in OpType
  BY <1>1 DEF OpType
<1>3. OpOk([op[p] EXCEPT !.raced = TRUE])
  BY <1>1 DEF OpOk, OpType
<1> QED
  BY <1>1, <1>2, <1>3 DEF Raced

LEMMA MovesOk ==
    ASSUME IInv, NEW o \in Operators, NEW new \in OpType, OpOk(new), Moves(o, new)
    PROVE  op' \in [Operators -> OpType] /\ \A p \in Operators : OpOk(op'[p])
BY RacedOk DEF Moves

LEMMA QuietStep ==
    ASSUME IInv, NEW o \in Operators, NEW new \in OpType, OpOk(new), Quietly(o, new),
           UNCHANGED <<scenario, axelarVars, gatewayVars, bounds>>
    PROVE  Goal
<1>1. op' \in [Operators -> OpType] /\ \A p \in Operators : OpOk(op'[p])
  BY QuietlyOk
<1>2. UNCHANGED <<gateway, message, prepared, late, commands, crashes>>
  BY DEF gatewayVars, bounds
<1>3. /\ late' \subseteq AllTxs /\ \A tx \in late' : TxOk(tx)
      /\ commands' \in [Operators -> Nat] /\ crashes' \in Nat
  BY <1>2 DEF IInv, Typed, GatewayTyped
<1> QED
  BY <1>1, <1>2, <1>3, ScriptsMove

LEMMA LeaveStep ==
    ASSUME IInv, NEW o \in Operators, Leave(o)
    PROVE  Goal
BY IdleOk, QuietStep DEF Leave

\* A script that found out what to send, and does well to send it.
LEMMA SendIfStep ==
    ASSUME IInv, NEW o \in Operators, op[o].pc # "send", NEW possible, NEW txs,
           possible => /\ txs \in Seq(AllTxs) /\ Len(txs) > 0
                       /\ \A i \in 1..Len(txs) : TxOk(txs[i]),
           SendIf(o, possible, txs)
    PROVE  Goal
<1> DEFINE new == [op[o] EXCEPT !.pc = "send", !.todo = txs]
<1>1. CASE possible
  <2>1. op[o] \in OpType
    BY DEF IInv, Typed
  <2>2. new \in OpType /\ OpOk(new)
    BY <1>1, <2>1 DEF OpType, OpOk, PCs
  <2>3. Quietly(o, new) /\ UNCHANGED <<scenario, axelarVars, gatewayVars, bounds>>
    BY <1>1 DEF SendIf
  <2> QED
    BY <2>2, <2>3, QuietStep
<1>2. CASE ~possible
  BY <1>2, LeaveStep DEF SendIf, Leave
<1> QED
  BY <1>1, <1>2

\* The set a script reads from the command line or the prover may be sent as it is read.
LEMMA ReadOk ==
    ASSUME IInv, NEW o \in Operators,
           NEW set \in {op[o].cmd.to, prover.current}, set # NoSet
    PROVE  set \in MaybeSet /\ Fresh(set)
<1>1. op[o].cmd.to \in WalletSets \cup {NoSet} /\ prover.current \in ProverSets \cup {NoSet}
  BY DEF IInv, Typed, AxelarTyped, OpType, CmdType
<1> QED
  BY <1>1 DEF MaybeSet, SignerSets, Fresh

LEMMA WalletOk ==
    ASSUME IInv, NEW o \in Operators
    PROVE  /\ WalletSet(Nonce(o)) \in WalletSets /\ WalletSet(Nonce(o)) \in MaybeSet
           /\ \A n \in {0, 1} : WalletSet(n) \in WalletSets /\ WalletSet(n) \in MaybeSet
                                /\ Fresh(WalletSet(n))
BY SetsDiffer DEF IInv, Typed, OpType, CmdType, Nonce, MaybeSet, SignerSets, Fresh

\* A command of one or more transactions about the same.
LEMMA AboutOne ==
    ASSUME NEW what \in {"deploy", "rotate", "approve", "execute"},
           NEW signer \in MaybeSet, NEW set \in MaybeSet,
           what = "deploy" => Fresh(set),
           what = "rotate" => (signer \in WalletSets /\ Fresh(set)) \/ Successor(signer, set),
           NEW txs \in {One(what, signer, set), Flow(what, signer, set)}
    PROVE  /\ txs \in Seq(AllTxs) /\ Len(txs) > 0
           /\ \A i \in 1..Len(txs) : TxOk(txs[i])
<1>1. /\ txs \in Seq(AllTxs) /\ Len(txs) > 0
      /\ \A i \in 1..Len(txs) : txs[i].what = what /\ txs[i].signer = signer
                                /\ txs[i].set = set
  <2>1. what \in Whats
    BY DEF Whats
  <2> QED
    BY <2>1, OneTx
<1>2. \A i \in 1..Len(txs) : TxOk(txs[i])
  BY <1>1 DEF TxOk
<1> QED
  BY <1>1, <1>2
-----------------------------------------------------------------------------
(* The handlers                                                            *)

LEMMA DeploySteps ==
    ASSUME IInv, NEW o \in Operators,
           EvmDeploy(o) \/ SuiDeploy(o) \/ StellarDeploy(o) \/ SolanaInit(o) \/ StacksSetup(o)
    PROVE  Goal
<1>1. op[o].pc = "begin"
  BY DEF EvmDeploy, SuiDeploy, StellarDeploy, SolanaInit, StacksSetup, Named
<1>2. PICK possible \in BOOLEAN, set \in {op[o].cmd.to, prover.current} :
          /\ SendIf(o, possible, One("deploy", NoSet, set))
          /\ possible => set # NoSet
  <2>1. CASE EvmDeploy(o)
    BY <2>1 DEF EvmDeploy, WeightedSigners
  <2>2. CASE SuiDeploy(o)
    BY <2>2 DEF SuiDeploy
  <2>3. CASE StellarDeploy(o)
    <3>1. op[o].cmd.to # NoSet
      BY <2>3 DEF StellarDeploy, Named, IInv, OpOk
    <3> QED
      BY <2>3, <3>1 DEF StellarDeploy
  <2>4. CASE SolanaInit(o)
    BY <2>4 DEF SolanaInit, SolanaVerifierSet
  <2>5. CASE StacksSetup(o)
    BY <2>5 DEF StacksSetup
  <2> QED
    BY <2>1, <2>2, <2>3, <2>4, <2>5
<1> DEFINE txs == One("deploy", NoSet, set)
<1>3. possible => /\ txs \in Seq(AllTxs) /\ Len(txs) > 0
                  /\ \A i \in 1..Len(txs) : TxOk(txs[i])
  BY <1>2, ReadOk, AboutOne DEF MaybeSet
<1> QED
  BY <1>1, <1>2, <1>3, SendIfStep

LEMMA RotateSteps ==
    ASSUME IInv, NEW o \in Operators,
           EvmRotateSigners(o) \/ SuiRotate(o) \/ StellarRotate(o) \/ SolanaRotate(o)
    PROVE  Goal
<1>1. op[o].pc = "begin"
  BY DEF EvmRotateSigners, SuiRotate, StellarRotate, SolanaRotate, Named
<1>2. CASE EvmRotateSigners(o)
  <2> DEFINE txs == One("rotate", WalletSet(0), WalletSet(1))
  <2>1. /\ txs \in Seq(AllTxs) /\ Len(txs) > 0
        /\ \A i \in 1..Len(txs) : TxOk(txs[i])
    BY WalletOk, AboutOne
  <2>2. SendIf(o, TRUE, txs)
    BY <1>2 DEF EvmRotateSigners
  <2> QED
    BY <1>1, <2>1, <2>2, SendIfStep
<1>3. CASE SuiRotate(o) \/ StellarRotate(o) \/ SolanaRotate(o)
  <2> DEFINE signer == WalletSet(Nonce(o))
  <2>1. PICK set \in {op[o].cmd.to, prover.current} :
            \E txs \in {One("rotate", signer, set), Flow("rotate", signer, set)} :
                SendIf(o, set # NoSet, txs)
    <3>1. CASE SuiRotate(o)
      BY <3>1 DEF SuiRotate, SuiSigners, SuiProofSigners
    <3>2. CASE StellarRotate(o)
      BY <3>2 DEF StellarRotate, StellarNewSigners, StellarProofSigners
    <3>3. CASE SolanaRotate(o)
      BY <3>3 DEF SolanaRotate, SolanaVerifierSet, SolanaProofSigners
    <3> QED
      BY <1>3, <3>1, <3>2, <3>3
  <2>2. PICK txs \in {One("rotate", signer, set), Flow("rotate", signer, set)} :
            SendIf(o, set # NoSet, txs)
    BY <2>1
  <2>3. set # NoSet => /\ txs \in Seq(AllTxs) /\ Len(txs) > 0
                       /\ \A i \in 1..Len(txs) : TxOk(txs[i])
    <3> SUFFICES ASSUME set # NoSet
                 PROVE  /\ txs \in Seq(AllTxs) /\ Len(txs) > 0
                        /\ \A i \in 1..Len(txs) : TxOk(txs[i])
      OBVIOUS
    <3>1. signer \in WalletSets /\ signer \in MaybeSet
      BY WalletOk
    <3>2. set \in MaybeSet /\ Fresh(set)
      BY ReadOk
    <3> HIDE DEF signer
    <3> QED
      BY <2>2, <3>1, <3>2, AboutOne
  <2> QED
    BY <1>1, <2>2, <2>3, SendIfStep
<1> QED
  BY <1>2, <1>3

LEMMA SubmitProofSteps ==
    ASSUME IInv, NEW o \in Operators,
           \/ EvmSubmitProof(o) \/ SuiSubmitProof(o) \/ StellarSubmitProof(o)
           \/ SolanaSubmitProof(o)
    PROVE  Goal
<1> DEFINE s == Session(o)
<1>1. op[o].pc = "begin" /\ op[o].cmd.name = "submitProof"
  BY DEF EvmSubmitProof, SuiSubmitProof, StellarSubmitProof, SolanaSubmitProof, Named
<1>2. PICK txs \in {One(s.what, s.signer, s.set), Flow(s.what, s.signer, s.set)} :
          SendIf(o, s.signed, txs)
  BY DEF EvmSubmitProof, SuiSubmitProof, StellarSubmitProof, SolanaSubmitProof
<1>3. op[o].cmd.id \in DOMAIN sessions
  BY <1>1 DEF IInv, OpOk
<1>4. s \in SessionType /\ (s.what = "rotate" => Successor(s.signer, s.set))
  BY <1>3 DEF IInv, Typed, AxelarTyped, SessionsOk, Session
<1>5. s.what \in {"rotate", "approve"} /\ s.signer \in MaybeSet /\ s.set \in MaybeSet
  BY <1>4 DEF SessionType, MaybeSet, SignerSets
<1>6. /\ txs \in Seq(AllTxs) /\ Len(txs) > 0
      /\ \A i \in 1..Len(txs) : TxOk(txs[i])
  BY <1>2, <1>4, <1>5, AboutOne
<1> QED
  BY <1>1, <1>2, <1>6, SendIfStep

LEMMA MessageSteps ==
    ASSUME IInv, NEW o \in Operators,
           \/ EvmApprove(o) \/ EvmExecute(o) \/ SuiApprove(o) \/ StellarApprove(o)
           \/ StellarExecute(o) \/ SolanaApprove(o) \/ SolanaExecute(o)
    PROVE  Goal
<1>1. op[o].pc # "send"
  BY DEF EvmApprove, EvmExecute, SuiApprove, StellarApprove, StellarExecute, SolanaApprove,
         SolanaExecute, Named
<1>2. CASE SolanaExecute(o)
  <2> DEFINE flow == Flow("execute", NoSet, NoSet)
             txs == Append(flow, Tx("execute", NoSet, NoSet, Closing))
  <2>1. NoSet \in MaybeSet /\ Closing \in 0..Closing
    BY ConstantsOK DEF MaybeSet, Closing
  <2>2. /\ flow \in Seq(AllTxs) /\ Len(flow) > 0
        /\ \A i \in 1..Len(flow) : TxOk(flow[i])
    BY <2>1, AboutOne
  <2>3. Tx("execute", NoSet, NoSet, Closing) \in AllTxs
    BY <2>1 DEF AllTxs, MaybeSet
  <2>4. TxOk(Tx("execute", NoSet, NoSet, Closing))
    BY DEF TxOk, Tx
  <2> HIDE DEF flow
  <2>5. /\ txs \in Seq(AllTxs) /\ Len(txs) > 0
        /\ \A i \in 1..Len(txs) : TxOk(txs[i])
    BY <2>2, <2>3, <2>4
  <2>6. SendIf(o, TRUE, txs)
    BY <1>2 DEF SolanaExecute, flow
  <2> HIDE DEF txs
  <2> QED
    BY <1>1, <2>5, <2>6, SendIfStep
<1>3. CASE \/ EvmApprove(o) \/ EvmExecute(o) \/ SuiApprove(o) \/ StellarApprove(o)
           \/ StellarExecute(o) \/ SolanaApprove(o)
  <2>1. PICK possible \in BOOLEAN, what \in {"approve", "execute"},
             signer \in {NoSet, WalletSet(0), WalletSet(Nonce(o))} :
            \E txs \in {One(what, signer, NoSet), Flow(what, signer, NoSet)} :
                SendIf(o, possible, txs)
    <3>1. CASE EvmApprove(o)
      BY <3>1 DEF EvmApprove
    <3>2. CASE EvmExecute(o)
      BY <3>2 DEF EvmExecute
    <3>3. CASE SuiApprove(o)
      BY <3>3 DEF SuiApprove, SuiProofSigners
    <3>4. CASE StellarApprove(o)
      BY <3>4 DEF StellarApprove, StellarProofSigners
    <3>5. CASE StellarExecute(o)
      BY <3>5 DEF StellarExecute
    <3>6. CASE SolanaApprove(o)
      BY <3>6 DEF SolanaApprove, SolanaProofSigners
    <3> QED
      BY <1>3, <3>1, <3>2, <3>3, <3>4, <3>5, <3>6
  <2>2. signer \in MaybeSet /\ NoSet \in MaybeSet
    BY <2>1, WalletOk DEF MaybeSet
  <2>3. PICK txs \in {One(what, signer, NoSet), Flow(what, signer, NoSet)} :
            SendIf(o, possible, txs)
    BY <2>1
  <2>4. /\ txs \in Seq(AllTxs) /\ Len(txs) > 0
        /\ \A i \in 1..Len(txs) : TxOk(txs[i])
    BY <2>2, <2>3, AboutOne
  <2> QED
    BY <1>1, <2>3, <2>4, SendIfStep
<1> QED
  BY <1>2, <1>3

LEMMA StartStep ==
    ASSUME IInv, NEW o \in Operators, Start(o)
    PROVE  Goal
<1>1. PICK cmd \in CommandLines : Quietly(o, [Idle EXCEPT !.pc = "begin", !.cmd = cmd])
  BY DEF Start
<1> DEFINE new == [Idle EXCEPT !.pc = "begin", !.cmd = cmd]
           Good(c) == /\ c \in CmdType
                      /\ c.name = "submitProof" => c.id \in DOMAIN sessions
                      /\ kind = "stellar" /\ c.name = "deploy" => c.to # NoSet
<1>2. /\ DOMAIN sessions \subseteq Nat /\ DOMAIN gateway \subseteq Nat /\ 0 \in Nat
      /\ 0 \in 0..MaxNonce /\ Nonces = 0..MaxNonce
      /\ WalletSet(0) \in WalletSets
  <2>1. DOMAIN sessions \subseteq Nat /\ DOMAIN gateway \subseteq Nat
    BY DEF IInv, Typed, AxelarTyped, GatewayTyped
  <2>2. 0 \in 0..MaxNonce
    BY ConstantsOK
  <2>3. WalletSet(0) \in WalletSets
    BY SetsDiffer
  <2> QED
    BY <2>1, <2>2, <2>3 DEF Nonces
<1>3. \A c \in AxelarLines : Good(c)
  BY <1>2 DEF AxelarLines, Line, Plain, CmdType
<1>4. kind = "evm" => \A c \in EvmLines : Good(c)
  BY <1>2 DEF EvmLines, Line, Plain, CmdType
<1>5. kind = "sui" => \A c \in SuiLines : Good(c)
  BY <1>2 DEF SuiLines, Line, Plain, CmdType
<1>6. kind = "stellar" => \A c \in StellarLines : Good(c)
  BY <1>2, NoSetIsNone DEF StellarLines, Line, Plain, CmdType, SignerSets
<1>7. kind = "solana" => \A c \in SolanaLines : Good(c)
  BY <1>2 DEF SolanaLines, Line, Plain, CmdType
<1>8. kind = "stacks" => \A c \in StacksLines : Good(c)
  BY <1>2 DEF StacksLines, Line, Plain, CmdType
<1>9. kind \in {"evm", "sui", "stellar", "solana", "stacks"}
  BY ConstantsOK DEF IInv, Typed, kind
<1>10. Good(cmd)
  BY <1>1, <1>3, <1>4, <1>5, <1>6, <1>7, <1>8, <1>9 DEF CommandLines
<1>11. new \in OpType /\ OpOk(new)
  <2>1. /\ new.pc = "begin" /\ new.cmd = cmd /\ new.todo = <<>> /\ new.flight = "none"
        /\ new \in OpType
    BY <1>10, IdleOk DEF Idle, OpType, PCs
  <2> HIDE DEF new
  <2> QED
    BY <1>10, <2>1 DEF OpOk
<1>12. op' \in [Operators -> OpType] /\ \A q \in Operators : OpOk(op'[q])
  BY <1>1, <1>11, QuietlyOk
<1>13. UNCHANGED <<gateway, message, prepared, late, crashes, scenario, axelarVars>>
  BY DEF Start, gatewayVars
<1>14. /\ late' \subseteq AllTxs /\ \A tx \in late' : TxOk(tx)
       /\ commands' \in [Operators -> Nat] /\ crashes' \in Nat
  BY <1>13 DEF Start, IInv, Typed, GatewayTyped
<1> QED
  BY <1>12, <1>13, <1>14, ScriptsMove

\* What a script reads before it acts on the prover, and the loop over a poll.
LEMMA QuerySteps ==
    ASSUME IInv, NEW o \in Operators, QueryCurrent(o) \/ QueryNext(o) \/ PollEnds(o)
    PROVE  Goal
<1>1. op[o] \in OpType /\ OpOk(op[o])
  BY DEF IInv, Typed
<1>2. CASE Leave(o)
  BY <1>2, LeaveStep
<1>3. CASE ~Leave(o)
  <2>1. PICK new \in OpType :
            /\ Quietly(o, new) /\ UNCHANGED <<scenario, axelarVars, gatewayVars, bounds>>
            /\ new.pc \in {"update", "verify", "confirm"} /\ new.flight = op[o].flight
            /\ new.pc = "update" => prover.current # NoSet
            /\ new.todo = op[o].todo /\ op[o].pc # "send"
    <3>1. CASE QueryCurrent(o)
      <4> DEFINE new == [op[o] EXCEPT !.pc = "update"]
      <4>1. new \in OpType /\ new.pc = "update" /\ new.flight = op[o].flight
            /\ new.todo = op[o].todo
        BY <1>1 DEF OpType, PCs
      <4>2. Quietly(o, new) /\ UNCHANGED <<scenario, axelarVars, gatewayVars, bounds>>
            /\ prover.current # NoSet /\ op[o].pc # "send"
        BY <1>3, <3>1 DEF QueryCurrent
      <4> QED
        BY <4>1, <4>2
    <3>2. CASE QueryNext(o)
      <4> DEFINE new == [op[o] EXCEPT !.pc = "verify", !.held = prover.next]
      <4>1. prover.next \in MaybeSet
        BY DEF IInv, Typed, AxelarTyped, MaybeSet, SignerSets
      <4>2. new \in OpType /\ new.pc = "verify" /\ new.flight = op[o].flight
            /\ new.todo = op[o].todo
        BY <1>1, <4>1 DEF OpType, PCs
      <4>3. Quietly(o, new) /\ UNCHANGED <<scenario, axelarVars, gatewayVars, bounds>>
            /\ op[o].pc # "send"
        BY <1>3, <3>2 DEF QueryNext
      <4> QED
        BY <4>2, <4>3
    <3>3. CASE PollEnds(o)
      <4> DEFINE new == [op[o] EXCEPT !.pc = "confirm"]
      <4>1. new \in OpType /\ new.pc = "confirm" /\ new.flight = op[o].flight
            /\ new.todo = op[o].todo
        BY <1>1 DEF OpType, PCs
      <4>2. Quietly(o, new) /\ UNCHANGED <<scenario, axelarVars, gatewayVars, bounds>>
            /\ op[o].pc # "send"
        BY <1>3, <3>3 DEF PollEnds
      <4> QED
        BY <4>1, <4>2
    <3> QED
      BY <3>1, <3>2, <3>3
  <2>2. OpOk(new)
    BY <1>1, <2>1 DEF OpOk
  <2> QED
    BY <2>1, <2>2, QuietStep
<1> QED
  BY <1>2, <1>3

\* What a script does about the transaction in hand before and after it is decided.
LEMMA SendingSteps ==
    ASSUME IInv, NEW o \in Operators, Send(o) \/ Proceed(o)
    PROVE  Goal
<1>1. /\ op[o] \in OpType /\ OpOk(op[o]) /\ op[o].pc = "send" /\ Len(op[o].todo) > 0
      /\ UNCHANGED <<scenario, axelarVars, gatewayVars, bounds>>
  BY DEF IInv, Typed, OpOk, Send, Proceed
<1>2. CASE Send(o)
  <2> DEFINE answer == Answer(Head(op[o].todo))
             flight == IF answer = "ok" THEN "pending" ELSE answer
             new == [op[o] EXCEPT !.flight = flight]
  <2>1. flight \in Flights
    BY DEF Answer, Flights
  <2> HIDE DEF flight
  <2>2. new \in OpType /\ OpOk(new)
    BY <1>1, <2>1 DEF OpType, OpOk
  <2>3. Quietly(o, new)
    BY <1>2 DEF Send, flight
  <2> QED
    BY <1>1, <2>2, <2>3, QuietStep
<1>3. CASE Proceed(o)
  <2>1. CASE Len(op[o].todo) > 1
    <3> DEFINE new == [op[o] EXCEPT !.todo = Tail(@), !.flight = "none"]
    <3>1. op[o].todo \in Seq(AllTxs) /\ \A i \in 1..Len(op[o].todo) : TxOk(op[o].todo[i])
      BY <1>1 DEF OpType, OpOk
    <3> DEFINE rest == Tail(op[o].todo)
    <3>2. /\ rest \in Seq(AllTxs) /\ Len(rest) = Len(op[o].todo) - 1
          /\ \A i \in 1..Len(rest) : i + 1 \in 1..Len(op[o].todo) /\ rest[i] = op[o].todo[i + 1]
      BY <2>1, <3>1
    <3> HIDE DEF rest
    <3>3. \A i \in 1..Len(rest) : TxOk(rest[i])
      BY <3>1, <3>2
    <3>4. /\ new \in OpType /\ new.pc = "send" /\ new.flight = "none" /\ new.todo = rest
      BY <1>1, <3>2 DEF OpType, Flights, rest
    <3> HIDE DEF new
    <3>5. OpOk(new)
      BY <2>1, <3>1, <3>2, <3>3, <3>4 DEF OpOk
    <3>6. Quietly(o, new)
      BY <1>3, <2>1 DEF Proceed, new
    <3> QED
      BY <1>1, <3>4, <3>5, <3>6, QuietStep
  <2>2. CASE ~(Len(op[o].todo) > 1)
    <3> DEFINE new == [op[o] EXCEPT !.pc = "approved", !.todo = <<>>, !.flight = "none"]
    <3>1. <<>> \in Seq(AllTxs) /\ "approved" \in PCs /\ "none" \in Flights
      BY DEF PCs, Flights
    <3>2. /\ new \in OpType /\ new.pc = "approved" /\ new.flight = "none" /\ new.todo = <<>>
      BY <1>1, <3>1 DEF OpType
    <3>3. Quietly(o, new) \/ Quietly(o, Idle)
      BY <1>3, <2>2 DEF Proceed
    <3> HIDE DEF new
    <3>4. OpOk(new)
      BY <3>2 DEF OpOk
    <3> QED
      BY <1>1, <3>2, <3>3, <3>4, QuietStep, IdleOk
  <2> QED
    BY <2>1, <2>2
<1> QED
  BY <1>2, <1>3

\* A script that is killed, or leaves, leaves behind what it sent.
LEMMA LeavingSteps ==
    ASSUME IInv, NEW o \in Operators, Crash(o) \/ LeaveBehind(o)
    PROVE  Goal
<1>1. op' \in [Operators -> OpType] /\ \A q \in Operators : OpOk(op'[q])
  BY IdleOk, QuietlyOk DEF Crash, LeaveBehind
<1>2. op[o].flight = "pending" => Head(op[o].todo) \in AllTxs /\ TxOk(Head(op[o].todo))
  <2>1. op[o] \in OpType /\ OpOk(op[o])
    BY DEF IInv, Typed
  <2> QED
    BY <2>1 DEF OpType, OpOk
<1>3. late' \subseteq AllTxs /\ \A tx \in late' : TxOk(tx)
  BY <1>2 DEF IInv, Typed, GatewayTyped, Crash, LeaveBehind, StellarGivesUp, StacksReturns
<1>4. UNCHANGED <<scenario, axelarVars, gateway, message, prepared>>
  BY DEF Crash, LeaveBehind
<1>5. commands' \in [Operators -> Nat] /\ crashes' \in Nat
  BY DEF IInv, Typed, Crash, LeaveBehind, bounds
<1> QED
  BY <1>1, <1>3, <1>4, <1>5, ScriptsMove

-----------------------------------------------------------------------------
(* Steps of the contracts, and of the scripts that call them               *)

\* What is right to send stays right when the prover's sets move on, sessions are
\* added or the gateway grows; and so the scripts are right about it.
LEMMA RestStays ==
    ASSUME IInv, UNCHANGED scenario,
           op' \in [Operators -> OpType], \A o \in Operators : OpOk(op'[o]),
           late' \subseteq AllTxs, \A tx \in late' : TxOk(tx),
           DOMAIN sessions \subseteq DOMAIN sessions',
           prover.current # NoSet => prover'.current # NoSet,
           \A tx : TxOk(tx) => TxOk(tx)'
    PROVE  (\A o \in Operators : OpOk(op[o]))' /\ (\A tx \in late : TxOk(tx))'
<1>1. (\A o \in Operators : OpOk(op[o]))'
  BY DEF OpOk, kind
<1> QED
  BY <1>1

LEMMA ScriptsSame ==
    ASSUME IInv, UNCHANGED <<op, late>>
    PROVE  /\ op' \in [Operators -> OpType] /\ \A o \in Operators : OpOk(op'[o])
           /\ late' \subseteq AllTxs /\ \A tx \in late' : TxOk(tx)
BY DEF IInv, Typed, GatewayTyped

\* A step on Axelar that leaves the prover's sets alone.
LEMMA AxelarStays ==
    ASSUME IInv, UNCHANGED <<scenario, prover, gatewayVars, bounds>>,
           op' \in [Operators -> OpType], \A o \in Operators : OpOk(op'[o]),
           AxelarTyped', registered <= registered', DOMAIN sessions \subseteq DOMAIN sessions',
           prover.current = NoSet => sessions' = <<>>,
           SessionsOk', PollsOk'
    PROVE  Goal
<1>1. UNCHANGED <<gateway, message, prepared, late, commands, crashes>>
  BY DEF gatewayVars, bounds
<1>2. \A tx : TxOk(tx) => TxOk(tx)'
  BY <1>1 DEF TxOk, Fresh, Successor, Official
<1>3. late' \subseteq AllTxs /\ \A tx \in late' : TxOk(tx)
  BY <1>1 DEF IInv, Typed, GatewayTyped
<1>4. (\A o \in Operators : OpOk(op[o]))' /\ (\A tx \in late : TxOk(tx))'
  BY <1>2, <1>3, RestStays
<1>5. Typed'
  BY <1>1 DEF IInv, Typed, GatewayTyped
<1>6. registered \in Int /\ registered' \in Int
      /\ (prover.current # NoSet => Num(prover.current) \in Int)
      /\ (prover.next # NoSet => Num(prover.next) \in Int)
  <2>1. registered \in 1..MaxSets /\ registered' \in 1..MaxSets
        /\ prover.current \in ProverSets \cup {NoSet} /\ prover.next \in ProverSets \cup {NoSet}
    BY DEF IInv, Typed, AxelarTyped
  <2>2. 1..MaxSets \subseteq Int
    OBVIOUS
  <2> QED
    BY <2>1, <2>2, SetsDiffer
<1>7. ProverOk'
  BY <1>6 DEF IInv, ProverOk
<1>8. GatewayOk'
  BY <1>1 DEF IInv, GatewayOk, Official
<1> QED
  BY <1>1, <1>4, <1>5, <1>7, <1>8 DEF Goal, IInv

LEMMA RegisterStep ==
    ASSUME IInv, Register
    PROVE  Goal
<1>1. registered \in Nat /\ registered' = registered + 1 /\ registered' \in 1..MaxSets
  BY ConstantsOK DEF IInv, Typed, AxelarTyped, Register
<1>2. UNCHANGED <<scenario, prover, sessions, polls, gatewayVars, gateway, op, late, bounds>>
  BY DEF Register, gatewayVars
<1>3. AxelarTyped'
  BY <1>1, <1>2 DEF IInv, Typed, AxelarTyped
<1>4. SessionsOk' /\ PollsOk' /\ (prover.current = NoSet => sessions' = <<>>)
  BY <1>2 DEF IInv, SessionsOk, PollsOk, Successor, ProverOk
<1> QED
  BY <1>1, <1>2, <1>3, <1>4, ScriptsSame, AxelarStays

LEMMA ConstructProofStep ==
    ASSUME IInv, ConstructProof
    PROVE  Goal
<1> DEFINE new == [signer |-> prover.current, what |-> "approve", set |-> NoSet,
                   signed |-> FALSE]
<1>1. UNCHANGED <<scenario, registered, prover, polls, gatewayVars, gateway, op, late, bounds>>
      /\ prover.current # NoSet /\ Len(sessions) < MaxSessions
      /\ sessions' = Append(sessions, new)
  BY DEF ConstructProof, gatewayVars
<1>2. new \in SessionType /\ new.what = "approve"
  BY <1>1 DEF IInv, Typed, AxelarTyped, SessionType
<1> HIDE DEF new
<1>3. sessions \in Seq(SessionType) /\ MaxSessions \in Nat
  BY ConstantsOK DEF IInv, Typed, AxelarTyped
<1>4. /\ sessions' \in Seq(SessionType) /\ Len(sessions') <= MaxSessions
      /\ DOMAIN sessions \subseteq DOMAIN sessions'
      /\ \A i \in DOMAIN sessions' : (i \in DOMAIN sessions /\ sessions'[i] = sessions[i])
                                     \/ sessions'[i] = new
  BY <1>1, <1>2, <1>3
<1>5. AxelarTyped'
  BY <1>1, <1>4 DEF IInv, Typed, AxelarTyped
<1>6. SessionsOk'
  BY <1>1, <1>2, <1>4 DEF IInv, SessionsOk, Successor
<1>7. PollsOk' /\ registered <= registered'
  BY <1>1, ConstantsOK DEF IInv, Typed, AxelarTyped, PollsOk
<1> QED
  BY <1>1, <1>4, <1>5, <1>6, <1>7, ScriptsSame, AxelarStays

LEMMA SignSessionStep ==
    ASSUME IInv, NEW i \in DOMAIN sessions, SignSession(i)
    PROVE  Goal
<1>1. UNCHANGED <<scenario, registered, prover, polls, gatewayVars, gateway, op, late, bounds>>
      /\ sessions' = [sessions EXCEPT ![i].signed = TRUE]
  BY DEF SignSession, gatewayVars
<1> DEFINE new == [sessions[i] EXCEPT !.signed = TRUE]
<1>2. sessions \in Seq(SessionType) /\ DOMAIN sessions' = DOMAIN sessions
      /\ \A j \in DOMAIN sessions : sessions'[j] = IF j = i THEN new ELSE sessions[j]
  BY <1>1 DEF IInv, Typed, AxelarTyped
<1>3. /\ \A j \in DOMAIN sessions : sessions[j] \in SessionType
      /\ new \in SessionType /\ new.what = sessions[i].what
      /\ new.signer = sessions[i].signer /\ new.set = sessions[i].set
  <2>1. \A j \in DOMAIN sessions : sessions[j] \in SessionType
    BY <1>2
  <2>2. sessions[i] \in SessionType
    BY <2>1
  <2> QED
    BY <2>1, <2>2 DEF SessionType
<1>4. \A j \in DOMAIN sessions : /\ sessions'[j] \in SessionType
                                  /\ sessions'[j].what = sessions[j].what
                                  /\ sessions'[j].signer = sessions[j].signer
                                  /\ sessions'[j].set = sessions[j].set
  <2> HIDE DEF new
  <2> QED
    BY <1>2, <1>3
<1>5. sessions' \in Seq(SessionType) /\ Len(sessions') = Len(sessions)
  <2>1. Len(sessions) \in Nat /\ DOMAIN sessions = 1..Len(sessions)
    BY <1>2
  <2>2. sessions' \in [1..Len(sessions) -> SessionType]
    BY <1>1, <1>2, <1>4, <2>1
  <2> QED
    BY <2>1, <2>2
<1>6. AxelarTyped'
  BY <1>1, <1>5 DEF IInv, Typed, AxelarTyped
<1>7. SessionsOk'
  BY <1>1, <1>2, <1>4 DEF IInv, SessionsOk, Successor
<1>8. PollsOk' /\ registered <= registered'
  BY <1>1, ConstantsOK DEF IInv, Typed, AxelarTyped, PollsOk
<1>9. prover.current = NoSet => sessions' = <<>>
  BY <1>1 DEF IInv, ProverOk
<1> QED
  BY <1>1, <1>2, <1>6, <1>7, <1>8, <1>9, ScriptsSame, AxelarStays

LEMMA EndPollStep ==
    ASSUME IInv, NEW s \in ProverSets, EndPoll(s)
    PROVE  Goal
<1>1. PICK status \in {"failed", "succeeded_on_source_chain"} :
          /\ status = "succeeded_on_source_chain" =>
                polls[s].tx \in DOMAIN gateway /\ gateway[polls[s].tx] = s
          /\ polls' = [polls EXCEPT ![s].status = status]
  BY DEF EndPoll
<1>2. UNCHANGED <<scenario, registered, prover, sessions, gatewayVars, gateway, op, late, bounds>>
  BY DEF EndPoll, gatewayVars
<1> DEFINE new == [polls[s] EXCEPT !.status = status]
<1>3. polls[s] \in [status : Statuses, tx : Nat] /\ status \in Statuses
  BY DEF IInv, Typed, AxelarTyped, Statuses
<1>4. new \in [status : Statuses, tx : Nat] /\ new.status = status
  BY <1>3
<1>5. polls' = [polls EXCEPT ![s] = new]
  BY <1>1
<1> HIDE DEF new
<1>6. AxelarTyped'
  BY <1>2, <1>4, <1>5 DEF IInv, Typed, AxelarTyped
<1>7. status = "succeeded_on_source_chain" => s \in Range(gateway)
  BY <1>1 DEF Range
<1>8. PollsOk'
  BY <1>2, <1>4, <1>5, <1>7 DEF IInv, Typed, AxelarTyped, PollsOk
<1>9. SessionsOk' /\ (prover.current = NoSet => sessions' = <<>>) /\ registered <= registered'
  BY <1>2, ConstantsOK DEF IInv, Typed, AxelarTyped, SessionsOk, Successor, ProverOk
<1> QED
  BY <1>2, <1>6, <1>8, <1>9, ScriptsSame, AxelarStays

LEMMA VerifyStep ==
    ASSUME IInv, NEW o \in Operators, VerifyVerifierSet(o)
    PROVE  Goal
<1> DEFINE new == [op[o] EXCEPT !.pc = "poll"]
           asked == [status |-> "in_progress", tx |-> op[o].cmd.id]
<1>1. UNCHANGED <<scenario, registered, prover, sessions, gatewayVars, gateway, late, bounds>>
      /\ Moves(o, new) /\ op[o].pc = "verify"
      /\ polls' \in {polls, [polls EXCEPT ![op[o].held] = asked]}
  BY DEF VerifyVerifierSet, gatewayVars
<1>2. op[o] \in OpType /\ OpOk(op[o]) /\ op[o].cmd.id \in Nat
  BY DEF IInv, Typed, OpType, CmdType
<1>3. new \in OpType /\ new.pc = "poll" /\ new.flight = op[o].flight /\ new.todo = op[o].todo
  BY <1>2 DEF OpType, PCs
<1>4. asked \in [status : Statuses, tx : Nat] /\ asked.status = "in_progress"
  BY <1>2 DEF Statuses
<1> HIDE DEF new, asked
<1>5. OpOk(new)
  BY <1>1, <1>2, <1>3 DEF OpOk
<1>6. op' \in [Operators -> OpType] /\ \A p \in Operators : OpOk(op'[p])
  BY <1>1, <1>3, <1>5, MovesOk
<1>7. polls' \in [ProverSets -> [status : Statuses, tx : Nat]]
  BY <1>1, <1>4 DEF IInv, Typed, AxelarTyped
<1>8. AxelarTyped'
  BY <1>1, <1>7 DEF IInv, Typed, AxelarTyped
<1>9. PollsOk'
  BY <1>1, <1>4 DEF IInv, Typed, AxelarTyped, PollsOk
<1>10. SessionsOk' /\ (prover.current = NoSet => sessions' = <<>>) /\ registered <= registered'
  BY <1>1, ConstantsOK DEF IInv, Typed, AxelarTyped, SessionsOk, Successor, ProverOk
<1> QED
  BY <1>1, <1>6, <1>9, <1>10, <1>8, AxelarStays

\* Before the prover has a set, none is known or under way.
LEMMA GenesisStep ==
    ASSUME IInv, Genesis
    PROVE  Goal
<1> DEFINE s == ProverSet(registered)
<1>1. /\ prover.current = NoSet /\ prover.next = NoSet /\ sessions = <<>>
      /\ prover' = [prover EXCEPT !.current = s]
      /\ UNCHANGED <<scenario, registered, sessions, polls, gateway, message, prepared, op,
                     late, commands, crashes>>
  BY DEF IInv, ProverOk, Genesis, gatewayVars, bounds
<1>2. s \in ProverSets /\ Num(s) = registered /\ s # NoSet
  BY SetsDiffer DEF IInv, Typed, AxelarTyped
<1>3. prover' \in [current : ProverSets \cup {NoSet}, next : ProverSets \cup {NoSet}]
      /\ prover'.current = s /\ prover'.next = NoSet
  BY <1>1, <1>2 DEF IInv, Typed, AxelarTyped
<1> HIDE DEF s
<1>4. ~Official
  <2>1. NoSet \notin Range(gateway)
    BY NoSetIsNone DEF IInv, Typed, GatewayTyped, Range
  <2> QED
    BY <1>1, <2>1 DEF IInv, GatewayOk
<1>5. \A tx : TxOk(tx) => TxOk(tx)'
  BY <1>1 DEF TxOk, Fresh, Successor
<1>6. (\A o \in Operators : OpOk(op[o]))' /\ (\A tx \in late : TxOk(tx))'
  BY <1>1, <1>5, ScriptsSame, RestStays
<1>7. Typed'
  BY <1>1, <1>3 DEF IInv, Typed, AxelarTyped, GatewayTyped
<1>8. registered \in Int
  <2>1. 1..MaxSets \subseteq Int
    OBVIOUS
  <2> QED
    BY <2>1 DEF IInv, Typed, AxelarTyped
<1>9. ProverOk' /\ SessionsOk' /\ PollsOk'
  BY <1>1, <1>2, <1>3, <1>8 DEF IInv, ProverOk, SessionsOk, PollsOk
<1>10. GatewayOk'
  BY <1>1, <1>4 DEF GatewayOk, Official
<1>11. Handover!Next
  <2>1. Handover!Begin(prover'.current)
    BY <1>1, <1>2, <1>3, SetsDiffer DEF Handover!Begin
  <2> QED
    BY <2>1 DEF Handover!Next
<1> QED
  BY <1>6, <1>7, <1>9, <1>10, <1>11 DEF Goal, IInv

\* The prover takes a successor: the one it has, if it has one.
LEMMA UpdateStep ==
    ASSUME IInv, NEW o \in Operators, UpdateVerifierSet(o)
    PROVE  Goal
<1>1. CASE Leave(o)
  BY <1>1, LeaveStep
<1>2. CASE ~Leave(o)
  <2> DEFINE s == ProverSet(registered)
             now == prover.current
             new == [signer |-> now, what |-> "rotate", set |-> s, signed |-> FALSE]
  <2>1. /\ CanUpdate /\ prover' = [prover EXCEPT !.next = s]
        /\ sessions' = Append(sessions, new) /\ Moves(o, Idle) /\ op[o].pc = "update"
        /\ UNCHANGED <<scenario, registered, polls, gateway, message, prepared, late,
                       commands, crashes>>
    BY <1>2 DEF UpdateVerifierSet, gatewayVars, bounds
  <2>2. now # NoSet
    BY <2>1 DEF IInv, OpOk
  <2>3. now \in ProverSets /\ prover.next \in ProverSets \cup {NoSet}
        /\ prover'.current = now /\ prover'.next = s
    BY <2>1, <2>2 DEF IInv, Typed, AxelarTyped
  <2>4. s \in ProverSets /\ Num(s) = registered /\ s # NoSet
    BY SetsDiffer DEF IInv, Typed, AxelarTyped
  <2>5. now # s /\ (prover.next = NoSet \/ prover.next = s) /\ Len(sessions) < MaxSessions
    BY <2>1 DEF CanUpdate
  <2>6. Num(now) \in 1..MaxSets /\ Num(now) <= registered /\ registered \in 1..MaxSets
        /\ Num(now) # registered
    BY <2>2, <2>3, <2>4, <2>5, SetsDiffer DEF IInv, ProverOk, Typed, AxelarTyped
  <2>7. new \in SessionType /\ new.signer = now /\ new.set = s
    BY <2>3, <2>4 DEF SessionType
  <2> HIDE DEF s, new
  <2>8. Num(now) < Num(s) /\ Num(s) <= registered /\ Num(now) <= Num(now)
    BY <2>4, <2>6
  <2>9. ProverOk'
    BY <2>1, <2>2, <2>3, <2>6, <2>8 DEF ProverOk
  <2>10. \A t, u : Successor(t, u) => Successor(t, u)'
    BY <2>1, <2>3, <2>5, SetsDiffer DEF Successor
  <2>11. \A t, u : t = now /\ u = s => Successor(t, u)'
    BY <2>1, <2>2, <2>3, <2>4, <2>8 DEF Successor
  <2>12. \A tx : TxOk(tx) => TxOk(tx)'
    BY <2>1, <2>3, <2>10 DEF TxOk, Fresh, Official
  <2>13. sessions \in Seq(SessionType) /\ MaxSessions \in Nat
    BY ConstantsOK DEF IInv, Typed, AxelarTyped
  <2>14. /\ sessions' \in Seq(SessionType) /\ Len(sessions') <= MaxSessions
         /\ DOMAIN sessions \subseteq DOMAIN sessions'
         /\ \A i \in DOMAIN sessions' :
               (i \in DOMAIN sessions /\ sessions'[i] = sessions[i]) \/ sessions'[i] = new
    BY <2>1, <2>5, <2>7, <2>13
  <2>15. SessionsOk'
    <3>1. ASSUME NEW i \in DOMAIN sessions', sessions'[i].what = "rotate",
                 NEW t, t = sessions'[i].signer, NEW u, u = sessions'[i].set
          PROVE  Successor(t, u)'
      <4>1. CASE sessions'[i] = new
        BY <3>1, <4>1, <2>7, <2>11
      <4>2. CASE i \in DOMAIN sessions /\ sessions'[i] = sessions[i]
        BY <3>1, <4>2, <2>10 DEF IInv, SessionsOk
      <4> QED
        BY <2>14, <4>1, <4>2
    <3> QED
      BY <3>1 DEF SessionsOk
  <2>16. Typed'
    <3>1. prover' \in [current : ProverSets \cup {NoSet}, next : ProverSets \cup {NoSet}]
      BY <2>1, <2>4 DEF IInv, Typed, AxelarTyped
    <3>2. op' \in [Operators -> OpType]
      BY <2>1, IdleOk, MovesOk
    <3> QED
      BY <2>1, <2>14, <3>1, <3>2 DEF IInv, Typed, AxelarTyped, GatewayTyped
  <2>17. GatewayOk' /\ PollsOk'
    <3>1. \A i \in DOMAIN gateway : gateway[i] # NoSet
      BY NoSetIsNone DEF IInv, Typed, GatewayTyped
    <3>2. Official => Len(gateway) \in DOMAIN gateway
      BY DEF IInv, Typed, GatewayTyped, Official
    <3>3. PollsOk'
      BY <2>1 DEF IInv, PollsOk
    <3>4. GatewayOk'
      BY <2>1, <2>3, <2>5, <3>1, <3>2 DEF IInv, GatewayOk, Official
    <3> QED
      BY <3>3, <3>4
  <2>18. op' \in [Operators -> OpType] /\ (\A p \in Operators : OpOk(op'[p]))
         /\ late' \subseteq AllTxs /\ (\A tx \in late' : TxOk(tx))
    BY <2>1, IdleOk, MovesOk DEF IInv, Typed, GatewayTyped
  <2>19. (\A p \in Operators : OpOk(op[p]))' /\ (\A tx \in late : TxOk(tx))'
    BY <2>1, <2>3, <2>12, <2>14, <2>18, RestStays
  <2>20. UNCHANGED <<gateway, prover.current>>
    BY <2>1, <2>3
  <2> QED
    BY <2>9, <2>15, <2>16, <2>17, <2>19, <2>20 DEF Goal, IInv
<1> QED
  BY <1>1, <1>2

\* The prover changes to its next set: the gateway has it, as its latest.
LEMMA ConfirmStep ==
    ASSUME IInv, NEW o \in Operators, ConfirmVerifierSet(o)
    PROVE  Goal
<1>1. CASE Leave(o)
  BY <1>1, LeaveStep
<1>2. CASE ~Leave(o)
  <2> DEFINE now == prover.current
             next == prover.next
  <2>1. /\ CanConfirm /\ prover' = [current |-> next, next |-> NoSet] /\ Moves(o, Idle)
        /\ UNCHANGED <<scenario, registered, sessions, polls, gateway, message, prepared, late,
                       commands, crashes>>
    BY <1>2 DEF ConfirmVerifierSet, gatewayVars, bounds
  <2>2. next \in ProverSets /\ now \in ProverSets /\ next # NoSet /\ now # NoSet
    BY <2>1 DEF CanConfirm, IInv, ProverOk, Typed, AxelarTyped
  <2>3. prover'.current = next /\ prover'.next = NoSet
        /\ prover' \in [current : ProverSets \cup {NoSet}, next : ProverSets \cup {NoSet}]
    BY <2>1, <2>2
  <2>4. Num(now) < Num(next) /\ Num(next) <= registered /\ Num(now) \in Nat /\ Num(next) \in Nat
        /\ registered \in Nat /\ \A s \in ProverSets : Num(s) \in Nat
    <3>1. 1..MaxSets \subseteq Nat
      OBVIOUS
    <3> QED
      BY <2>2, <3>1, SetsDiffer DEF IInv, ProverOk, Typed, AxelarTyped
  <2>5. PICK i \in DOMAIN gateway : gateway[i] = next
    BY <2>1, <2>2 DEF CanConfirm, IInv, PollsOk, Range
  <2>6. Official
    BY <2>2, <2>5 DEF Official
  <2>7. i = Len(gateway) /\ now \in Range(gateway) /\ next \in Range(gateway)
    BY <2>2, <2>4, <2>5, <2>6 DEF IInv, GatewayOk, Range
  <2>8. ProverOk'
    BY <2>1, <2>2, <2>3, <2>4 DEF ProverOk
  <2>9. \A t, u : Successor(t, u) => Successor(t, u)'
    BY <2>1, <2>2, <2>3, <2>4 DEF Successor
  <2>10. \A tx : TxOk(tx) => TxOk(tx)'
    BY <2>1, <2>2, <2>3, <2>6, <2>9 DEF TxOk, Fresh, Official
  <2>11. SessionsOk' /\ PollsOk'
    BY <2>1, <2>9 DEF IInv, SessionsOk, PollsOk
  <2>12. GatewayOk'
    <3>1. \A j \in DOMAIN gateway : gateway[j] \in ProverSets => Num(gateway[j]) <= Num(next)
      BY <2>4 DEF IInv, GatewayOk
    <3>2. gateway[Len(gateway)] = next
      BY <2>5, <2>7
    <3> QED
      BY <2>1, <2>3, <2>7, <3>1, <3>2 DEF IInv, GatewayOk, Official
  <2>13. op' \in [Operators -> OpType] /\ (\A p \in Operators : OpOk(op'[p]))
         /\ late' \subseteq AllTxs /\ (\A tx \in late' : TxOk(tx))
    BY <2>1, IdleOk, MovesOk DEF IInv, Typed, GatewayTyped
  <2>14. (\A p \in Operators : OpOk(op[p]))' /\ (\A tx \in late : TxOk(tx))'
    BY <2>1, <2>2, <2>3, <2>10, <2>13, RestStays
  <2>15. Typed'
    BY <2>1, <2>3, <2>13 DEF IInv, Typed, AxelarTyped, GatewayTyped
  <2>16. Handover!Next
    <3>1. gateway[Len(gateway)] = next /\ gateway # <<>> /\ next \notin WalletSets /\ now # next
      BY <2>2, <2>4, <2>5, <2>7, SetsDiffer DEF IInv, Typed, GatewayTyped
    <3>2. Handover!HandOver
      BY <2>1, <2>3, <2>7, <3>1 DEF Handover!HandOver, Handover!Latest, Handover!Range, Range
    <3> QED
      BY <3>2 DEF Handover!Next
  <2> QED
    BY <2>8, <2>11, <2>12, <2>14, <2>15, <2>16 DEF Goal, IInv
<1> QED
  BY <1>1, <1>2

\* The gateway decides on a transaction that is under way.
LEMMA EffectStep ==
    ASSUME IInv, UNCHANGED <<scenario, axelarVars, bounds>>, NEW tx \in AllTxs, TxOk(tx),
           Effect(tx), late' \subseteq late,
           op' \in [Operators -> OpType], \A o \in Operators : OpOk(op'[o])
    PROVE  Goal
<1>1. UNCHANGED <<registered, prover, sessions, polls, commands, crashes>>
  BY DEF axelarVars, bounds
<1>2. /\ GatewayOk' /\ gateway' \in Seq(SignerSets) /\ (Official => Official')
      /\ Range(gateway) \subseteq Range(gateway')
      /\ [Handover!Next]_<<gateway, prover.current>>
  BY <1>1, GatewayGrows DEF IInv
<1>3. \A t : TxOk(t) => TxOk(t)'
  BY <1>1, <1>2, TxStaysOk
<1>4. late' \subseteq AllTxs /\ \A t \in late' : TxOk(t)
  BY DEF IInv, Typed, GatewayTyped
<1>5. (\A o \in Operators : OpOk(op[o]))' /\ (\A t \in late : TxOk(t))'
  BY <1>1, <1>3, <1>4, RestStays
<1>6. message' \in {"unknown", "approved", "executed"} /\ prepared' \subseteq AllTxs
  <2>1. message \in {"unknown", "approved", "executed"} /\ prepared \subseteq AllTxs
    BY DEF IInv, Typed, GatewayTyped
  <2>2. message' \in {message, "approved", "executed"}
    BY DEF Effect
  <2>3. prepared' \subseteq prepared \cup {tx}
    BY DEF Effect
  <2> QED
    BY <2>1, <2>2, <2>3
<1>7. Typed'
  BY <1>1, <1>2, <1>4, <1>6 DEF IInv, Typed, AxelarTyped, GatewayTyped
<1>8. ProverOk' /\ SessionsOk' /\ PollsOk'
  BY <1>1, <1>2 DEF IInv, ProverOk, SessionsOk, Successor, PollsOk
<1> QED
  BY <1>2, <1>5, <1>7, <1>8 DEF Goal, IInv

LEMMA IncludeStep ==
    ASSUME IInv, NEW o \in Operators, Include(o)
    PROVE  Goal
<1> DEFINE tx == Head(op[o].todo)
           flight == IF Answer(tx) = "rejected" THEN "reverted" ELSE Answer(tx)
           new == [op[o] EXCEPT !.flight = flight]
<1>1. op[o] \in OpType /\ OpOk(op[o]) /\ op[o].flight = "pending"
  BY DEF IInv, Typed, Include
<1>2. op[o].pc = "send" /\ Len(op[o].todo) > 0 /\ op[o].todo \in Seq(AllTxs)
  BY <1>1 DEF OpOk, OpType
<1>3. tx = op[o].todo[1] /\ tx \in AllTxs /\ 1 \in 1..Len(op[o].todo)
  BY <1>2
<1>4. TxOk(tx)
  BY <1>1, <1>3 DEF OpOk
<1>5. flight \in Flights
  BY DEF Answer, Flights
<1> HIDE DEF flight
<1>6. new \in OpType /\ new.pc = "send" /\ new.flight = flight /\ new.todo = op[o].todo
  BY <1>1, <1>2, <1>5 DEF OpType
<1>7. UNCHANGED <<scenario, axelarVars, late, bounds>> /\ Moves(o, new) /\ Effect(tx)
  BY DEF Include, flight
<1> HIDE DEF new, tx
<1>8. OpOk(new)
  BY <1>1, <1>2, <1>6 DEF OpOk
<1>9. op' \in [Operators -> OpType] /\ \A p \in Operators : OpOk(op'[p])
  BY <1>6, <1>7, <1>8, MovesOk
<1> QED
  BY <1>3, <1>4, <1>7, <1>9, EffectStep

LEMMA IncludeLateStep ==
    ASSUME IInv, NEW tx \in late, IncludeLate(tx)
    PROVE  Goal
<1>1. tx \in AllTxs /\ TxOk(tx)
  BY DEF IInv, Typed, GatewayTyped
<1>2. op' \in [Operators -> OpType] /\ \A o \in Operators : OpOk(op'[o])
  BY RacedOk DEF IncludeLate
<1> QED
  BY <1>1, <1>2, EffectStep DEF IncludeLate
-----------------------------------------------------------------------------
(* The theorems                                                            *)

LEMMA InitOk == Init => IInv /\ Handover!Init
<1> SUFFICES ASSUME Init PROVE IInv /\ Handover!Init
  OBVIOUS
<1>1. AxelarTyped
  <2>1. 1 \in 1..MaxSets /\ MaxSessions \in Nat
    BY ConstantsOK
  <2>2. <<>> \in Seq(SessionType) /\ Len(<<>>) = 0
    OBVIOUS
  <2> QED
    BY <2>1, <2>2 DEF Init, AxelarTyped, Statuses
<1>2. GatewayTyped
  BY DEF Init, GatewayTyped
<1>3. Typed
  BY <1>1, <1>2, IdleOk, ConstantsOK DEF Init, Typed
<1>4. ProverOk /\ SessionsOk /\ PollsOk
  BY DEF Init, ProverOk, SessionsOk, PollsOk
<1>5. GatewayOk
  BY DEF Init, GatewayOk, Official
<1>6. \A o \in Operators : OpOk(op[o])
  BY IdleOk DEF Init
<1> QED
  BY <1>3, <1>4, <1>5, <1>6 DEF Init, IInv, Handover!Init

LEMMA ScriptSteps ==
    ASSUME IInv, NEW o \in Operators, ScriptStep(o)
    PROVE  Goal
<1>1. CASE \/ EvmDeploy(o) \/ SuiDeploy(o) \/ StellarDeploy(o) \/ SolanaInit(o)
           \/ StacksSetup(o)
  BY <1>1, DeploySteps
<1>2. CASE EvmRotateSigners(o) \/ SuiRotate(o) \/ StellarRotate(o) \/ SolanaRotate(o)
  BY <1>2, RotateSteps
<1>3. CASE \/ EvmSubmitProof(o) \/ SuiSubmitProof(o) \/ StellarSubmitProof(o)
           \/ SolanaSubmitProof(o)
  BY <1>3, SubmitProofSteps
<1>4. CASE \/ EvmApprove(o) \/ EvmExecute(o) \/ SuiApprove(o) \/ StellarApprove(o)
           \/ StellarExecute(o) \/ SolanaApprove(o) \/ SolanaExecute(o)
  BY <1>4, MessageSteps
<1>5. CASE QueryCurrent(o) \/ QueryNext(o) \/ PollEnds(o)
  BY <1>5, QuerySteps
<1>6. CASE UpdateVerifierSet(o)
  BY <1>6, UpdateStep
<1>7. CASE VerifyVerifierSet(o)
  BY <1>7, VerifyStep
<1>8. CASE ConfirmVerifierSet(o)
  BY <1>8, ConfirmStep
<1>9. CASE Send(o) \/ Proceed(o)
  BY <1>9, SendingSteps
<1>10. CASE Stop(o)
  BY <1>10, LeaveStep DEF Stop
<1> QED
  BY <1>1, <1>2, <1>3, <1>4, <1>5, <1>6, <1>7, <1>8, <1>9, <1>10 DEF ScriptStep

LEMMA NextOk ==
    ASSUME IInv, [Next]_vars
    PROVE  Goal
<1>1. CASE UNCHANGED vars
  <2>1. UNCHANGED <<scenario, axelarVars, gateway, message, prepared, op, late, commands,
                    crashes>>
    BY <1>1 DEF vars, gatewayVars, bounds
  <2>2. commands' \in [Operators -> Nat] /\ crashes' \in Nat
    BY <2>1 DEF IInv, Typed
  <2> QED
    BY <2>1, <2>2, ScriptsSame, ScriptsMove
<1>2. CASE AxelarStep
  BY <1>2, RegisterStep, GenesisStep, ConstructProofStep, SignSessionStep DEF AxelarStep
<1>3. CASE \E s \in ProverSets : EndPoll(s)
  BY <1>3, EndPollStep
<1>4. CASE \E tx \in late : IncludeLate(tx)
  BY <1>4, IncludeLateStep
<1>5. ASSUME NEW o \in Operators,
             \/ Start(o) \/ Decline(o) \/ ScriptStep(o)
             \/ Include(o) \/ Drop(o) \/ Crash(o) \/ LeaveBehind(o)
      PROVE  Goal
  <2>1. CASE Start(o)
    BY <2>1, StartStep
  <2>2. CASE Decline(o) \/ Drop(o)
    BY <2>2, LeaveStep DEF Decline, Drop
  <2>3. CASE ScriptStep(o)
    BY <2>3, ScriptSteps
  <2>4. CASE Include(o)
    BY <2>4, IncludeStep
  <2>5. CASE Crash(o) \/ LeaveBehind(o)
    BY <2>5, LeavingSteps
  <2> QED
    BY <1>5, <2>1, <2>2, <2>3, <2>4, <2>5
<1> QED
  BY <1>1, <1>2, <1>3, <1>4, <1>5 DEF Next

\* Every reachable state is as the invariant says.
THEOREM InvariantHolds == Spec => []IInv
<1>1. IInv /\ [Next]_vars => IInv'
  BY NextOk DEF Goal
<1> QED
  BY InitOk, <1>1, PTL DEF Spec

\* Whatever the commands do, the contracts and the scripts hold values of their types.
\* In particular no gateway is ever given a set that is none, though a command may ask
\* the prover before it has one (getWeightedSigners and the getSigners of the scripts).
THEOREM TypeCorrect == Spec => []TypeOK
<1>1. IInv => TypeOK
  <2> SUFFICES ASSUME IInv PROVE TypeOK
    OBVIOUS
  <2>1. Range(gateway) \subseteq SignerSets
    BY DEF IInv, Typed, GatewayTyped, Range
  <2>2. \A i \in DOMAIN sessions : sessions[i] \in SessionType
    BY DEF IInv, Typed, AxelarTyped
  <2>3. ASSUME NEW o \in Operators
        PROVE  /\ op[o].pc \in PCs /\ op[o].flight \in Flights
               /\ op[o].raced \in BOOLEAN /\ op[o].held \in SignerSets \cup {NoSet}
               /\ Range(op[o].todo) \subseteq AllTxs
    BY DEF IInv, Typed, OpType, MaybeSet, Range
  <2> QED
    BY <2>1, <2>2, <2>3 DEF IInv, Typed, AxelarTyped, GatewayTyped, TypeOK, SessionType, Statuses
<1> QED
  BY <1>1, InvariantHolds, PTL

\* Gateway and prover hand over in turn: the commands of deploy, rotate, submitProof and
\* confirm, however they interleave and wherever they are killed, implement SignerHandover.
THEOREM HandoverCorrect == Spec => ImplementsHandover
<1>1. IInv /\ [Next]_vars => [Handover!Next]_(Handover!vars)
  BY NextOk DEF Goal, Handover!vars
<1> QED
  BY InitOk, <1>1, InvariantHolds, PTL DEF Spec, ImplementsHandover, Handover!Spec
-----------------------------------------------------------------------------
(* What the abstract specification promises holds of gateway and prover.    *)

\* A proof made by the set that signs today is accepted today.
SignedIsAccepted ==
    Official =>
        \A tx \in AllTxs :
            tx.what = "approve" /\ tx.signer = prover.current /\ tx.part = Last /\ Complete(tx)
                => Accepts(tx)

\* The gateway takes one more set.
LEMMA OneMoreInTurn ==
    ASSUME IInv, Handover!InTurn, UNCHANGED prover.current, NEW s \in SignerSets,
           gateway' = Append(gateway, s), s \notin Range(gateway),
           s \in WalletSets => gateway = <<>> \/ gateway[Len(gateway)] \in WalletSets,
           s \notin WalletSets =>
              \/ s = prover.current
              \/ gateway # <<>> /\ gateway[Len(gateway)] = prover.current
    PROVE  Handover!InTurn'
<1> DEFINE n == Len(gateway)
<1>1. gateway \in Seq(SignerSets) /\ n \in Nat /\ DOMAIN gateway = 1..n
  BY DEF IInv, Typed, GatewayTyped
<1>2. /\ Len(gateway') = n + 1 /\ DOMAIN gateway' = 1..(n + 1)
      /\ gateway'[n + 1] = s /\ \A i \in 1..n : gateway'[i] = gateway[i]
  BY <1>1
<1>3. gateway # <<>> => n > 0
  BY <1>1
<1>4. \A i \in 1..n, j \in 1..n : gateway[i] = gateway[j] => i = j
  BY <1>1 DEF Handover!InTurn
<1>5. \A i \in 1..n : gateway[i] # s
  BY <1>1 DEF Range
<1>6. \A i, j \in 1..(n + 1) : gateway'[i] = gateway'[j] => i = j
  BY <1>1, <1>2, <1>4, <1>5
<1>7. \A i, j \in 1..n : i < j /\ gateway[i] \notin WalletSets => gateway[j] \notin WalletSets
  BY <1>1 DEF Handover!InTurn
<1>8. ASSUME NEW i \in 1..n, gateway[i] \notin WalletSets
      PROVE  s \notin WalletSets
  <2>1. n > 0 /\ gateway # <<>> /\ gateway[n] \notin WalletSets
    BY <1>1, <1>7, <1>8
  <2> QED
    BY <2>1
<1>9. \A i, j \in 1..(n + 1) :
          i < j /\ gateway'[i] \notin WalletSets => gateway'[j] \notin WalletSets
  BY <1>1, <1>2, <1>7, <1>8
<1>10. ASSUME s \notin WalletSets
       PROVE  \E i \in 1..(n + 1) : i >= n /\ gateway'[i] = prover'.current
  <2>1. CASE s = prover.current
    <3>1. n + 1 \in 1..(n + 1) /\ n + 1 >= n /\ gateway'[n + 1] = prover'.current
      BY <1>1, <1>2, <2>1
    <3> QED
      BY <3>1
  <2>2. CASE gateway # <<>> /\ gateway[n] = prover.current
    <3>1. n \in 1..n /\ n \in 1..(n + 1) /\ n >= n
      BY <1>1, <1>3, <2>2
    <3>2. gateway'[n] = prover'.current
      BY <1>2, <2>2, <3>1
    <3> QED
      BY <3>1, <3>2
  <2> QED
    BY <1>10, <2>1, <2>2
<1>11. (n + 1) - 1 = n
  BY <1>1
<1> HIDE DEF n
<1> QED
  BY <1>2, <1>6, <1>9, <1>10, <1>11 DEF Handover!InTurn, Handover!Latest

LEMMA AppendedIsSet ==
    ASSUME IInv, IInv', NEW s, gateway' = Append(gateway, s)
    PROVE  s \in SignerSets
<1>1. gateway \in Seq(SignerSets) /\ gateway' \in Seq(SignerSets)
  BY DEF IInv, Typed, GatewayTyped
<1>2. Len(gateway') = Len(gateway) + 1 /\ gateway'[Len(gateway) + 1] = s
  BY <1>1
<1>3. Len(gateway) + 1 \in DOMAIN gateway'
  BY <1>1, <1>2
<1> QED
  BY <1>1, <1>2, <1>3

\* Every step of the abstract specification keeps the two in turn.
LEMMA TurnKept ==
    ASSUME IInv, IInv', Handover!InTurn, [Handover!Next]_<<gateway, prover.current>>
    PROVE  Handover!InTurn'
<1>1. CASE UNCHANGED <<gateway, prover.current>>
  BY <1>1 DEF Handover!InTurn, Handover!Latest
<1>2. ASSUME NEW s, Handover!Begin(s)
      PROVE  Handover!InTurn'
  <2>1. gateway' = gateway /\ prover.current = NoSet
    BY <1>2 DEF Handover!Begin
  <2>2. gateway # <<>> => Handover!Latest \in WalletSets
    <3>1. \A i \in DOMAIN gateway : gateway[i] # NoSet
      BY NoSetIsNone DEF IInv, Typed, GatewayTyped
    <3> QED
      BY <2>1, <3>1 DEF Handover!InTurn
  <2> QED
    BY <2>1, <2>2 DEF Handover!InTurn, Handover!Latest
<1>3. ASSUME NEW s, Handover!Found(s)
      PROVE  Handover!InTurn'
  <2>1. gateway = <<>> /\ gateway' = Append(gateway, s) /\ UNCHANGED prover.current
        /\ s \notin Range(gateway) /\ (s \notin WalletSets => s = prover.current)
    BY <1>3 DEF Handover!Found, Handover!IsSigning, Range
  <2>2. s \in SignerSets
    BY <2>1, AppendedIsSet
  <2> QED
    BY <2>1, <2>2, OneMoreInTurn
<1>4. ASSUME NEW s, Handover!Extend(s)
      PROVE  Handover!InTurn'
  <2>1. /\ gateway # <<>> /\ s \notin Range(gateway) /\ UNCHANGED prover.current
        /\ gateway' = Append(gateway, s)
        /\ \/ gateway[Len(gateway)] \in WalletSets /\ (s \in WalletSets \/ s = prover.current)
           \/ gateway[Len(gateway)] = prover.current /\ s \notin WalletSets
    BY <1>4 DEF Handover!Extend, Handover!IsSigning, Handover!Latest, Handover!Range, Range
  <2>2. s \in SignerSets
    BY <2>1, AppendedIsSet
  <2> QED
    BY <2>1, <2>2, OneMoreInTurn
<1>5. ASSUME Handover!HandOver
      PROVE  Handover!InTurn'
  <2>1. gateway # <<>> /\ gateway' = gateway /\ prover'.current = gateway[Len(gateway)]
    BY <1>5 DEF Handover!HandOver, Handover!Latest
  <2>2. Len(gateway) \in DOMAIN gateway /\ Len(gateway) >= Len(gateway) - 1
    BY <2>1 DEF IInv, Typed, GatewayTyped
  <2> QED
    BY <2>1, <2>2 DEF Handover!InTurn, Handover!Latest
<1> QED
  BY <1>1, <1>2, <1>3, <1>4, <1>5 DEF Handover!Next

\* Gateway and prover stay in turn, as SignerHandover promises: no set is taken twice, no
\* wallet after the prover's sets, and from then on the set that signs is the gateway's
\* latest or the one before, whatever the scripts read too early or send too late.
THEOREM StaysInTurn == Spec => [](Handover!InTurn)
<1>1. Init => Handover!InTurn
  BY DEF Init, Handover!InTurn
<1>2. IInv /\ Handover!InTurn /\ [Next]_vars => Handover!InTurn'
  BY NextOk, TurnKept DEF Goal
<1> QED
  BY <1>1, <1>2, InvariantHolds, PTL DEF Spec

\* With previousSignersRetention of one or more (the chains have 15), a proof the prover's
\* current set makes is accepted by every gateway that knows one of the prover's sets, also
\* between the rotation of the gateway and the confirmation on Axelar.
THEOREM SignedTodayAcceptedToday ==
    ASSUME Retention > 0
    PROVE  Spec => []SignedIsAccepted
<1>1. ASSUME IInv, Handover!InTurn
      PROVE  SignedIsAccepted
  <2> SUFFICES ASSUME Official, NEW tx \in AllTxs, tx.what = "approve", tx.part = Last,
                      tx.signer = prover.current, Complete(tx)
               PROVE  Accepts(tx)
    BY DEF SignedIsAccepted
  <2>1. gateway \in Seq(SignerSets) /\ Retention \in Nat /\ Len(gateway) \in Nat
        /\ DOMAIN gateway = 1..Len(gateway)
    BY <1>1, ConstantsOK DEF IInv, Typed, GatewayTyped
  <2>2. gateway # <<>> /\ Handover!Latest \notin WalletSets
    <3>1. PICK i \in 1..Len(gateway) : gateway[i] \in ProverSets
      BY <2>1 DEF Official
    <3>2. i <= Len(gateway) /\ Len(gateway) \in 1..Len(gateway)
      BY <2>1
    <3>3. \A j \in DOMAIN gateway :
              i < j /\ gateway[i] \notin WalletSets => gateway[j] \notin WalletSets
      BY <1>1, <2>1 DEF Handover!InTurn
    <3>4. gateway[i] \notin WalletSets
      BY <3>1, SetsDiffer
    <3>5. gateway[Len(gateway)] \notin WalletSets
      BY <2>1, <3>2, <3>3, <3>4
    <3> QED
      BY <2>1, <3>2, <3>5 DEF Handover!Latest
  <2>3. PICK i \in 1..Len(gateway) : i >= Len(gateway) - 1 /\ gateway[i] = prover.current
    BY <1>1, <2>1, <2>2 DEF Handover!InTurn
  <2>4. i > Len(gateway) - (Retention + 1)
    BY <2>1, <2>3
  <2>5. tx.signer \in Newest(Retention + 1)
    BY <2>1, <2>3, <2>4 DEF Newest
  <2> QED
    BY <2>5 DEF Accepts
<1> QED
  BY <1>1, StaysInTurn, InvariantHolds, PTL
-----------------------------------------------------------------------------
(* What a command that is about to end has achieved                        *)

\* The effect tx was sent for is there.
Done(tx) ==
    CASE tx.what = "deploy"  -> gateway # <<>>
      [] tx.what = "rotate"  -> tx.set \in Range(gateway)
      [] tx.what = "approve" -> message # "unknown"
      [] tx.what = "execute" -> message = "executed"

\* What passed the simulation is accepted, unless somebody else got in between.
FlightOk(r) ==
    /\ r.flight = "pending" /\ ~r.raced => Accepts(Head(r.todo))
    /\ r.flight = "reverted" => r.raced
    /\ r.flight = "rejected" /\ r.cmd.name = "execute" /\ kind # "solana" => r.raced
    /\ r.flight \in {"ok", "recoverable"} /\ Head(r.todo).part = Last => Done(Head(r.todo))

\* A command ends with the transaction that has its effect, on Solana possibly with
\* one more that cleans up after it.
TodoOk(r) ==
    r.pc = "send" =>
        /\ r.todo[Len(r.todo)].part \in {Last, Closing}
        /\ \A i \in 1..Len(r.todo) : r.todo[i].part = Closing =>
              /\ r.todo[i].what = "execute" /\ kind = "solana"
              /\ i = 1 => message = "executed"
              /\ i # 1 => r.todo[i - 1].part = Last /\ r.todo[i - 1].what = "execute"
        /\ r.cmd.name = "execute" /\ kind # "solana" =>
              /\ r.todo = One("execute", NoSet, NoSet)
              /\ ~r.raced /\ r.flight = "none" => message = "approved"

\* The set that is confirmed is still the next one, and its poll is on or over.
ConfirmOk(r) ==
    ~r.raced =>
        /\ r.pc \in {"verify", "poll"} => r.held = prover.next /\ r.held # NoSet
        /\ r.pc = "poll" => polls[r.held].status # "unknown"
        /\ r.pc = "confirm" => CanConfirm

Careful(r) == FlightOk(r) /\ TodoOk(r) /\ ConfirmOk(r)
CareInv == \A o \in Operators : Careful(op[o])

LEMMA Operator ==
    ASSUME IInv, NEW o \in Operators
    PROVE  op[o] \in OpType /\ OpOk(op[o])
BY DEF IInv, Typed

\* An operator who is not sending is careful if the next set is as it was read.
LEMMA NotSending ==
    ASSUME NEW r, r.flight = "none", r.pc # "send", ConfirmOk(r)
    PROVE  Careful(r)
BY DEF Careful, FlightOk, TodoOk

LEMMA IdleCareful == Careful(Idle) /\ Careful(Idle)'
<1>1. Idle.pc = "idle" /\ Idle.flight = "none"
  BY DEF Idle
<1> HIDE DEF Idle
<1> QED
  BY <1>1 DEF Careful, FlightOk, TodoOk, ConfirmOk

\* Nothing of what a command relies on has changed.
LEMMA SameWorld ==
    ASSUME UNCHANGED <<scenario, prover, polls, gateway, message, prepared>>,
           NEW CONSTANT r, Careful(r)
    PROVE  Careful(r)'
<1>1. kind' = kind /\ CanConfirm' = CanConfirm
  BY DEF kind, CanConfirm
<1>2. \A tx : Accepts(tx)' = Accepts(tx)
  BY DEF Accepts, Repeats, Complete, Newest, kind
<1>3. \A tx : Done(tx)' = Done(tx)
  BY DEF Done
<1> QED
  BY <1>1, <1>2, <1>3 DEF Careful, FlightOk, TodoOk, ConfirmOk

\* What is done stays done, so that an operator who knows somebody got in between
\* stays careful.
Lasting ==
    /\ gateway # <<>> => gateway' # <<>>
    /\ Range(gateway) \subseteq Range(gateway')
    /\ message # "unknown" => message' # "unknown"
    /\ message = "executed" => message' = "executed"

LEMMA DoneLasts ==
    ASSUME Lasting, NEW CONSTANT tx \in AllTxs, Done(tx)
    PROVE  Done(tx)'
<1>1. tx.what \in Whats
  BY DEF AllTxs, Tx, Whats
<1> QED
  BY <1>1 DEF Lasting, Done, Whats

LEMMA RacedCareful ==
    ASSUME IInv, CareInv, Lasting, UNCHANGED scenario, NEW o \in Operators,
           NEW CONSTANT r, r = Raced(o)
    PROVE  Careful(r)'
<1>1. op[o] \in OpType /\ OpOk(op[o]) /\ Careful(op[o])
  BY Operator DEF CareInv
<1>2. CASE op[o].pc = "idle"
  <2>1. r = op[o]
    BY <1>2 DEF Raced
  <2> QED
    BY <1>1, <1>2, <2>1 DEF Careful, FlightOk, TodoOk, ConfirmOk, OpOk
<1>3. CASE op[o].pc # "idle"
  <2>1. /\ r.raced /\ r.pc = op[o].pc /\ r.flight = op[o].flight /\ r.todo = op[o].todo
        /\ r.cmd = op[o].cmd
    BY <1>1, <1>3 DEF Raced, OpType
  <2>2. FlightOk(r)'
    <3>1. r.flight # "none" => Head(r.todo) \in AllTxs
      BY <1>1, <2>1 DEF OpOk, OpType
    <3>2. r.flight \in {"ok", "recoverable"} /\ Head(r.todo).part = Last => Done(Head(r.todo))
      BY <1>1, <2>1 DEF Careful, FlightOk
    <3> QED
      BY <2>1, <3>1, <3>2, DoneLasts DEF FlightOk
  <2>3. TodoOk(r)'
    <3>1. kind' = kind
      BY DEF kind
    <3>2. TodoOk(op[o])
      BY <1>1 DEF Careful
    <3> QED
      BY <2>1, <3>1, <3>2 DEF TodoOk, Lasting
  <2>4. ConfirmOk(r)'
    BY <2>1 DEF ConfirmOk
  <2> QED
    BY <2>2, <2>3, <2>4 DEF Careful
<1> QED
  BY <1>2, <1>3

\* A step of one operator that the others do not notice, or that all are told of.
LEMMA QuietCareful ==
    ASSUME IInv, CareInv, NEW o \in Operators, NEW CONSTANT new, Quietly(o, new),
           UNCHANGED <<scenario, prover, polls, gateway, message, prepared>>,
           Careful(new)
    PROVE  CareInv'
<1>1. \A p \in Operators : op'[p] = IF p = o THEN new ELSE op[p]
  BY DEF Quietly, IInv, Typed
<1>2. \A r : Careful(r) => Careful(r)'
  BY SameWorld
<1>3. \A p \in Operators : Careful(op'[p])
  BY <1>1 DEF CareInv
<1> QED
  BY <1>2, <1>3 DEF CareInv

LEMMA MovesCareful ==
    ASSUME IInv, CareInv, NEW o \in Operators, NEW CONSTANT new, Moves(o, new), Lasting,
           UNCHANGED scenario, Careful(new)'
    PROVE  CareInv'
<1>1. \A p \in Operators : op'[p] = IF p = o THEN new ELSE Raced(p)
  BY DEF Moves
<1>2. \A p \in Operators : \A r : r = Raced(p) => Careful(r)'
  BY RacedCareful
<1>3. \A p \in Operators : \A r : r = op'[p] => Careful(r)'
  BY <1>1, <1>2
<1> QED
  BY <1>3 DEF CareInv

\* What a command called name does well to send.
Fine(name, txs) ==
    /\ txs[Len(txs)].part \in {Last, Closing}
    /\ \A i \in 1..Len(txs) : txs[i].part = Closing =>
          /\ txs[i].what = "execute" /\ kind = "solana"
          /\ i # 1 /\ txs[i - 1].part = Last /\ txs[i - 1].what = "execute"
    /\ name = "execute" /\ kind # "solana" =>
          txs = One("execute", NoSet, NoSet) /\ message = "approved"

LEMMA EndsWithLast ==
    ASSUME NEW what, NEW signer, NEW set,
           NEW txs \in {One(what, signer, set), Flow(what, signer, set)}
    PROVE  /\ Len(txs) \in Nat \ {0} /\ txs[Len(txs)].part = Last
           /\ txs[Len(txs)].what = what
           /\ \A i \in 1..Len(txs) : txs[i].part # Closing
<1>1. Parts \in Nat /\ Last = Parts + 1 /\ Closing = Parts + 2
  BY ConstantsOK DEF Last, Closing
<1>2. CASE txs = One(what, signer, set)
  BY <1>1, <1>2 DEF One, Tx
<1>3. CASE txs = Flow(what, signer, set)
  <2>1. txs = [i \in 1..(Parts + 2) |-> Tx(what, signer, set, i - 1)]
    BY <1>3 DEF Flow
  <2>2. Len(txs) = Parts + 2 /\ DOMAIN txs = 1..(Parts + 2)
    BY <1>1, <2>1
  <2>3. \A i \in 1..(Parts + 2) : txs[i].part = i - 1 /\ txs[i].what = what
    BY <2>1 DEF Tx
  <2> QED
    BY <1>1, <2>2, <2>3
<1> QED
  BY <1>2, <1>3

LEMMA OneFine ==
    ASSUME NEW what, NEW signer, NEW set, NEW name,
           NEW txs \in {One(what, signer, set), Flow(what, signer, set)},
           name = "execute" /\ kind # "solana" =>
              txs = One("execute", NoSet, NoSet) /\ message = "approved"
    PROVE  Fine(name, txs)
BY EndsWithLast DEF Fine

LEMMA SendIfCareful ==
    ASSUME IInv, CareInv, NEW o \in Operators, op[o].pc # "send", NEW possible,
           NEW txs, SendIf(o, possible, txs), possible => Fine(op[o].cmd.name, txs)
    PROVE  CareInv'
<1>1. UNCHANGED <<scenario, prover, polls, gateway, message, prepared>>
  BY DEF SendIf, axelarVars, gatewayVars
<1>2. op[o] \in OpType /\ op[o].flight = "none"
  BY Operator DEF OpOk
<1>3. CASE ~possible
  <2>1. Quietly(o, Idle)
    BY <1>3 DEF SendIf
  <2> QED
    BY <1>1, <2>1, IdleCareful, QuietCareful
<1>4. CASE possible
  <2> SUFFICES ASSUME NEW CONSTANT new, new = [op[o] EXCEPT !.pc = "send", !.todo = txs]
               PROVE  CareInv'
    OBVIOUS
  <2>1. Quietly(o, new)
    BY <1>4 DEF SendIf
  <2>2. /\ new.pc = "send" /\ new.todo = txs /\ new.flight = "none"
        /\ new.cmd = op[o].cmd
    BY <1>2 DEF OpType
  <2>3. Careful(new)
    BY <1>4, <2>2 DEF Careful, FlightOk, TodoOk, ConfirmOk, Fine
  <2> QED
    BY <1>1, <2>1, <2>3, QuietCareful
<1> QED
  BY <1>3, <1>4

\* Every command but execute, and submitProof whatever it submits.
LEMMA SendersCareful ==
    ASSUME IInv, CareInv, NEW o \in Operators,
           \/ EvmDeploy(o) \/ SuiDeploy(o) \/ StellarDeploy(o) \/ SolanaInit(o)
           \/ StacksSetup(o) \/ EvmRotateSigners(o) \/ SuiRotate(o) \/ StellarRotate(o)
           \/ SolanaRotate(o) \/ EvmSubmitProof(o) \/ SuiSubmitProof(o)
           \/ StellarSubmitProof(o) \/ SolanaSubmitProof(o) \/ EvmApprove(o)
           \/ SuiApprove(o) \/ StellarApprove(o) \/ SolanaApprove(o)
    PROVE  CareInv'
<1>1. op[o].pc = "begin"
      /\ op[o].cmd.name \in {"deploy", "rotate", "submitProof", "approve", "approveAndExecute"}
  BY DEF EvmDeploy, SuiDeploy, StellarDeploy, SolanaInit, StacksSetup, EvmRotateSigners,
         SuiRotate, StellarRotate, SolanaRotate, EvmSubmitProof, SuiSubmitProof,
         StellarSubmitProof, SolanaSubmitProof, EvmApprove, SuiApprove, StellarApprove,
         SolanaApprove, Named
<1>2. ASSUME NEW possible, NEW what, NEW signer, NEW set,
             \/ SendIf(o, possible, One(what, signer, set))
             \/ SendIf(o, possible, Flow(what, signer, set))
      PROVE  CareInv'
  <2>1. PICK txs \in {One(what, signer, set), Flow(what, signer, set)} :
            SendIf(o, possible, txs)
    BY <1>2
  <2>2. Fine(op[o].cmd.name, txs)
    BY <1>1, OneFine
  <2> QED
    BY <1>1, <2>1, <2>2, SendIfCareful
<1>3. CASE EvmDeploy(o) \/ SuiDeploy(o) \/ StellarDeploy(o) \/ SolanaInit(o) \/ StacksSetup(o)
  BY <1>2, <1>3 DEF EvmDeploy, SuiDeploy, StellarDeploy, SolanaInit, StacksSetup
<1>4. CASE EvmRotateSigners(o) \/ SuiRotate(o) \/ StellarRotate(o) \/ SolanaRotate(o)
  BY <1>2, <1>4 DEF EvmRotateSigners, SuiRotate, StellarRotate, SolanaRotate
<1>5. CASE \/ EvmSubmitProof(o) \/ SuiSubmitProof(o) \/ StellarSubmitProof(o)
           \/ SolanaSubmitProof(o)
  BY <1>2, <1>5 DEF EvmSubmitProof, SuiSubmitProof, StellarSubmitProof, SolanaSubmitProof
<1>6. CASE EvmApprove(o) \/ SuiApprove(o) \/ StellarApprove(o) \/ SolanaApprove(o)
  BY <1>2, <1>6 DEF EvmApprove, SuiApprove, StellarApprove, SolanaApprove
<1> QED
  BY <1>3, <1>4, <1>5, <1>6

LEMMA ExecuteCareful ==
    ASSUME IInv, CareInv, NEW o \in Operators,
           EvmExecute(o) \/ StellarExecute(o) \/ SolanaExecute(o)
    PROVE  CareInv'
<1>1. op[o].pc # "send"
  BY DEF EvmExecute, StellarExecute, SolanaExecute, Named
<1> DEFINE one == One("execute", NoSet, NoSet)
<1>2. CASE EvmExecute(o) \/ StellarExecute(o)
  <2>1. SendIf(o, message = "approved", one)
    BY <1>2 DEF EvmExecute, StellarExecute
  <2>2. message = "approved" => Fine(op[o].cmd.name, one)
    BY OneFine
  <2> QED
    BY <1>1, <2>1, <2>2, SendIfCareful
<1>3. CASE SolanaExecute(o)
  <2> DEFINE flow == Flow("execute", NoSet, NoSet)
             last == Tx("execute", NoSet, NoSet, Closing)
             txs == Append(flow, last)
  <2>1. /\ Len(flow) \in Nat \ {0} /\ flow[Len(flow)].part = Last
        /\ flow[Len(flow)].what = "execute"
        /\ \A i \in 1..Len(flow) : flow[i].part # Closing
    BY EndsWithLast
  <2>2. last.part = Closing /\ last.what = "execute"
    BY DEF Tx
  <2>3. flow \in Seq(AllTxs) /\ last \in AllTxs
    <3>1. NoSet \in MaybeSet /\ Closing \in 0..Closing
      BY ConstantsOK DEF MaybeSet, Closing
    <3>2. "execute" \in Whats
      BY DEF Whats
    <3>3. flow \in Seq(AllTxs)
      BY <3>1, <3>2, OneTx
    <3>4. last \in AllTxs
      BY <3>1 DEF AllTxs, MaybeSet
    <3> QED
      BY <3>3, <3>4
  <2>4. kind = "solana" /\ SendIf(o, TRUE, txs)
    BY <1>3 DEF SolanaExecute, Named
  <2> HIDE DEF flow, last
  <2>5. /\ Len(txs) = Len(flow) + 1 /\ txs[Len(txs)] = last
        /\ \A i \in 1..Len(flow) : txs[i] = flow[i]
    BY <2>3
  <2>6. Fine(op[o].cmd.name, txs)
    <3> DEFINE n == Len(flow)
    <3> HIDE DEF txs, n
    <3>1. /\ n \in Nat \ {0} /\ Len(txs) = n + 1 /\ txs[n + 1] = last
          /\ \A i \in 1..n : txs[i] = flow[i] /\ flow[i].part # Closing
          /\ txs[n].part = Last /\ txs[n].what = "execute"
      BY <2>1, <2>5 DEF n
    <3>2. ASSUME NEW i \in 1..(n + 1), txs[i].part = Closing
          PROVE  i = n + 1 /\ i # 1 /\ i - 1 = n
      BY <3>1, <3>2
    <3>3. txs[Len(txs)].part = Closing
      BY <2>2, <3>1
    <3> QED
      BY <2>2, <2>4, <3>1, <3>2, <3>3 DEF Fine
  <2> QED
    BY <1>1, <2>4, <2>6, SendIfCareful
<1> QED
  BY <1>2, <1>3

LEMMA StillLasting ==
    ASSUME UNCHANGED <<gateway, message>>
    PROVE  Lasting
BY DEF Lasting

LEMMA EffectLasts ==
    ASSUME IInv, NEW tx \in AllTxs, TxOk(tx), Effect(tx)
    PROVE  Lasting
<1>1. gateway' = gateway \/ gateway' = Append(gateway, tx.set)
  BY EffectOnGateway DEF IInv
<1>2. gateway \in Seq(SignerSets)
  BY DEF IInv, Typed, GatewayTyped
<1>3. gateway # <<>> => gateway' # <<>>
  BY <1>1, <1>2
<1>4. Range(gateway) \subseteq Range(gateway')
  <2>1. CASE gateway' = Append(gateway, tx.set)
    <3>1. \A i \in DOMAIN gateway : i \in DOMAIN gateway' /\ gateway'[i] = gateway[i]
      BY <1>2, <2>1
    <3> QED
      BY <3>1 DEF Range
  <2> QED
    BY <1>1, <2>1
<1>5. message = "executed" => message' = "executed"
  BY DEF Effect
<1>6. message # "unknown" => message' # "unknown"
  BY DEF Effect
<1> QED
  BY <1>3, <1>4, <1>5, <1>6 DEF Lasting

\* The program tells what is there already; and what is accepted is there then.
LEMMA RecoverableDone ==
    ASSUME NEW tx \in AllTxs, tx.part = Last, Answer(tx) = "recoverable"
    PROVE  Done(tx)
<1>1. Repeats(tx)
  BY DEF Answer
<1>2. tx.what \in Whats
  BY DEF AllTxs, Tx, Whats
<1> QED
  BY <1>1, <1>2 DEF Repeats, Done, Whats

LEMMA AcceptedDone ==
    ASSUME IInv, NEW CONSTANT tx \in AllTxs, tx.part = Last, Answer(tx) = "ok", Effect(tx)
    PROVE  Done(tx)'
<1>1. Accepts(tx)
  BY DEF Answer
<1>2. tx.what \in Whats /\ gateway \in Seq(SignerSets) /\ tx.set \in MaybeSet
  BY DEF AllTxs, Tx, Whats, IInv, Typed, GatewayTyped, MaybeSet
<1>3. CASE tx.what \in {"deploy", "rotate"}
  <2>1. gateway' = Append(gateway, tx.set)
    BY <1>1, <1>3 DEF Effect
  <2>2. gateway' # <<>> /\ tx.set \in Range(gateway')
    <3>1. /\ Len(gateway) \in Nat /\ Len(gateway) + 1 \in DOMAIN gateway'
          /\ gateway'[Len(gateway) + 1] = tx.set
      BY <1>2, <2>1
    <3>2. gateway' # <<>>
      BY <3>1
    <3> QED
      BY <3>1, <3>2 DEF Range
  <2> QED
    BY <1>3, <2>2 DEF Done
<1>4. CASE tx.what = "execute"
  BY <1>1, <1>4 DEF Effect, Done
<1>5. CASE tx.what = "approve"
  <2>1. message' = IF message = "unknown" THEN "approved" ELSE message
    BY <1>1, <1>5 DEF Effect
  <2> QED
    BY <1>5, <2>1 DEF Done
<1> QED
  BY <1>2, <1>3, <1>4, <1>5 DEF Whats

LEMMA Sending ==
    ASSUME IInv, CareInv, NEW o \in Operators, op[o].pc = "send"
    PROVE  /\ op[o] \in OpType /\ Len(op[o].todo) \in Nat \ {0}
           /\ op[o].todo \in Seq(AllTxs) /\ Head(op[o].todo) = op[o].todo[1]
           /\ Head(op[o].todo) \in AllTxs /\ TxOk(Head(op[o].todo))
           /\ FlightOk(op[o]) /\ TodoOk(op[o])
<1>1. op[o] \in OpType /\ Len(op[o].todo) > 0 /\ op[o].todo \in Seq(AllTxs)
  BY Operator DEF OpOk, OpType
<1>2. Head(op[o].todo) = op[o].todo[1] /\ Head(op[o].todo) \in AllTxs
  BY <1>1
<1>3. TxOk(Head(op[o].todo))
  <2>1. 1 \in 1..Len(op[o].todo)
    BY <1>1
  <2> QED
    BY <1>2, <2>1, Operator DEF OpOk
<1> QED
  BY <1>1, <1>2, <1>3 DEF CareInv, Careful

LEMMA IncludeCareful ==
    ASSUME IInv, CareInv, NEW o \in Operators, Include(o)
    PROVE  CareInv'
<1> SUFFICES ASSUME NEW CONSTANT tx, tx = Head(op[o].todo), NEW CONSTANT new,
                    new = [op[o] EXCEPT !.flight =
                              IF Answer(tx) = "rejected" THEN "reverted" ELSE Answer(tx)]
             PROVE  CareInv'
  OBVIOUS
<1>1. op[o].flight = "pending" /\ Effect(tx) /\ Moves(o, new) /\ UNCHANGED <<scenario>>
  BY DEF Include
<1>2. op[o].pc = "send"
  BY <1>1, Operator DEF OpOk
<1>3. tx \in AllTxs /\ TxOk(tx) /\ op[o] \in OpType
  BY <1>2, Sending
<1>4. Lasting
  BY <1>1, <1>3, EffectLasts
<1>5. /\ new.pc = "send" /\ new.todo = op[o].todo /\ new.cmd = op[o].cmd
      /\ new.raced = op[o].raced
      /\ new.flight = IF Answer(tx) = "rejected" THEN "reverted" ELSE Answer(tx)
  BY <1>2, <1>3 DEF OpType
<1>6. Answer(tx) \in {"ok", "recoverable", "rejected"}
  BY DEF Answer
<1>7. FlightOk(new)'
  <2>1. ~op[o].raced => Answer(tx) = "ok"
    BY <1>1, <1>2, Sending DEF FlightOk, Answer
  <2>2. tx.part = Last /\ Answer(tx) \in {"ok", "recoverable"} => Done(tx)'
    BY <1>1, <1>3, <1>4, RecoverableDone, AcceptedDone, DoneLasts
  <2>3. new.flight \notin {"pending", "rejected"} /\ (new.flight = "reverted" => new.raced)
    BY <1>5, <1>6, <2>1
  <2>4. Head(new.todo) = tx
    BY <1>5
  <2>5. new.flight \in {"ok", "recoverable"} => Answer(tx) \in {"ok", "recoverable"}
    BY <1>5, <1>6
  <2> QED
    BY <2>2, <2>3, <2>4, <2>5 DEF FlightOk
<1>8. TodoOk(new)'
  <2>1. TodoOk(op[o]) /\ kind' = kind /\ new.flight # "none"
    BY <1>1, <1>2, <1>5, <1>6, Sending DEF kind
  <2> QED
    BY <1>2, <1>4, <1>5, <2>1 DEF TodoOk, Lasting
<1>9. Careful(new)'
  BY <1>5, <1>7, <1>8 DEF Careful, ConfirmOk
<1> QED
  BY <1>1, <1>4, <1>9, MovesCareful

LEMMA SendCareful ==
    ASSUME IInv, CareInv, NEW o \in Operators, Send(o)
    PROVE  CareInv'
<1> SUFFICES ASSUME NEW CONSTANT tx, tx = Head(op[o].todo), NEW CONSTANT new,
                    new = [op[o] EXCEPT !.flight = IF Answer(tx) = "ok" THEN "pending"
                                                   ELSE Answer(tx)]
             PROVE  CareInv'
  OBVIOUS
<1>1. /\ op[o].pc = "send" /\ op[o].flight = "none" /\ Quietly(o, new)
      /\ UNCHANGED <<scenario, prover, polls, gateway, message, prepared>>
  BY DEF Send, axelarVars, gatewayVars
<1>2. /\ tx \in AllTxs /\ op[o] \in OpType /\ TodoOk(op[o]) /\ tx = op[o].todo[1]
  BY <1>1, Sending
<1>3. /\ new.pc = "send" /\ new.todo = op[o].todo /\ new.cmd = op[o].cmd
      /\ new.raced = op[o].raced
      /\ new.flight = IF Answer(tx) = "ok" THEN "pending" ELSE Answer(tx)
  BY <1>1, <1>2 DEF OpType
<1>4. /\ Answer(tx) \in {"ok", "recoverable", "rejected"}
      /\ Answer(tx) = "ok" => Accepts(tx)
      /\ Accepts(tx) => Answer(tx) = "ok"
  BY DEF Answer
<1>5. op[o].cmd.name = "execute" /\ kind # "solana" /\ ~op[o].raced => Accepts(tx)
  <2> SUFFICES ASSUME op[o].cmd.name = "execute", kind # "solana", ~op[o].raced
               PROVE  Accepts(tx)
    OBVIOUS
  <2>1. op[o].todo = One("execute", NoSet, NoSet) /\ message = "approved"
    BY <1>1, <1>2 DEF TodoOk
  <2>2. tx.part = Last /\ tx.what = "execute"
    BY <1>2, <2>1 DEF One, Tx
  <2> QED
    BY <2>1, <2>2 DEF Accepts, Complete
<1>6. FlightOk(new)
  <2>1. Answer(tx) = "recoverable" /\ tx.part = Last => Done(tx)
    BY <1>2, RecoverableDone
  <2>2. /\ new.flight = "pending" => Accepts(tx)
        /\ new.flight \in {"pending", "recoverable", "rejected"}
        /\ new.flight = "recoverable" => Answer(tx) = "recoverable"
        /\ new.flight = "rejected" => ~Accepts(tx)
    BY <1>3, <1>4
  <2>3. Head(new.todo) = tx
    BY <1>3
  <2> QED
    BY <1>3, <1>5, <2>1, <2>2, <2>3 DEF FlightOk
<1>7. TodoOk(new)
  <2>1. new.flight # "none"
    BY <1>3, <1>4
  <2> QED
    BY <1>1, <1>2, <1>3, <2>1 DEF TodoOk
<1>8. Careful(new)
  BY <1>3, <1>6, <1>7 DEF Careful, ConfirmOk
<1> QED
  BY <1>1, <1>8, QuietCareful

\* Where a script goes on, what it sent is done, or somebody got in between.
LEMMA GoesOnDone ==
    ASSUME IInv, CareInv, NEW o \in Operators, op[o].pc = "send", GoesOn(o),
           kind # "stacks", kind = "sui" => ~op[o].raced,
           op[o].todo[1].part = Last
    PROVE  Done(op[o].todo[1])
<1>1. /\ Head(op[o].todo) = op[o].todo[1] /\ FlightOk(op[o])
  BY Sending
<1>2. kind \in {"evm", "sui", "stellar", "solana"}
  BY ConstantsOK DEF IInv, Typed, kind
<1>3. op[o].flight \in {"ok", "recoverable"}
  BY <1>1, <1>2 DEF GoesOn, EvmGoesOn, SuiGoesOn, StellarGoesOn, SolanaGoesOn, FlightOk
<1> QED
  BY <1>1, <1>3 DEF FlightOk

LEMMA ProceedCareful ==
    ASSUME IInv, CareInv, NEW o \in Operators, Proceed(o)
    PROVE  CareInv'
<1> DEFINE todo == op[o].todo
<1>1. /\ op[o].pc = "send" /\ GoesOn(o)
      /\ UNCHANGED <<scenario, prover, polls, gateway, message, prepared>>
  BY DEF Proceed, axelarVars, gatewayVars
<1>2. /\ op[o] \in OpType /\ TodoOk(op[o]) /\ todo \in Seq(AllTxs) /\ Len(todo) \in Nat \ {0}
  BY <1>1, Sending
<1>3. CASE Len(todo) > 1
  <2> SUFFICES ASSUME NEW CONSTANT new,
                      new = [op[o] EXCEPT !.todo = Tail(@), !.flight = "none"]
               PROVE  CareInv'
    OBVIOUS
  <2>1. Quietly(o, new)
    BY <1>3 DEF Proceed
  <2>2. /\ new.pc = "send" /\ new.todo = Tail(todo) /\ new.cmd = op[o].cmd
        /\ new.raced = op[o].raced /\ new.flight = "none"
    BY <1>1, <1>2 DEF OpType
  <2>3. /\ Len(new.todo) = Len(todo) - 1
        /\ \A i \in 1..Len(new.todo) : new.todo[i] = todo[i + 1]
    BY <1>2, <1>3, <2>2
  <2>4. ASSUME new.todo[1].part = Closing
        PROVE  message = "executed"
    <3>1. todo[2].part = Closing /\ 2 \in 1..Len(todo)
      BY <1>2, <1>3, <2>3, <2>4
    <3>2. todo[1].part = Last /\ todo[1].what = "execute" /\ kind = "solana"
      BY <1>1, <1>2, <3>1 DEF TodoOk
    <3> QED
      BY <1>1, <3>2, GoesOnDone DEF Done
  <2>5. TodoOk(new)
    <3>1. new.todo[Len(new.todo)] = todo[Len(todo)]
      BY <1>2, <1>3, <2>3
    <3>2. ASSUME NEW i \in 1..Len(new.todo), new.todo[i].part = Closing
          PROVE  /\ new.todo[i].what = "execute" /\ kind = "solana"
                 /\ i = 1 => message = "executed"
                 /\ i # 1 => new.todo[i - 1].part = Last /\ new.todo[i - 1].what = "execute"
      <4>1. /\ i + 1 \in 1..Len(todo) /\ i + 1 # 1 /\ new.todo[i] = todo[i + 1]
            /\ i # 1 => i - 1 \in 1..Len(new.todo) /\ new.todo[i - 1] = todo[i]
        BY <1>2, <2>3
      <4>2. /\ todo[i + 1].what = "execute" /\ kind = "solana"
            /\ todo[i].part = Last /\ todo[i].what = "execute"
        <5> SUFFICES ASSUME NEW j, j = i + 1
                     PROVE  /\ todo[j].what = "execute" /\ kind = "solana"
                            /\ todo[i].part = Last /\ todo[i].what = "execute"
          OBVIOUS
        <5>1. j \in 1..Len(todo) /\ j # 1 /\ j - 1 = i /\ todo[j].part = Closing
          BY <3>2, <4>1
        <5> QED
          BY <1>1, <1>2, <5>1 DEF TodoOk
      <4> QED
        BY <2>4, <3>2, <4>1, <4>2
    <3>3. ~(op[o].cmd.name = "execute" /\ kind # "solana")
      <4>1. Len(One("execute", NoSet, NoSet)) = 1
        BY DEF One
      <4> QED
        BY <1>1, <1>2, <1>3, <4>1 DEF TodoOk
    <3> QED
      BY <1>1, <1>2, <2>2, <3>1, <3>2, <3>3 DEF TodoOk
  <2>6. Careful(new)
    BY <2>2, <2>5 DEF Careful, FlightOk, ConfirmOk
  <2> QED
    BY <1>1, <2>1, <2>6, QuietCareful
<1>4. CASE ~(Len(todo) > 1) /\ Quietly(o, Idle)
  BY <1>1, <1>4, IdleCareful, QuietCareful
<1>5. CASE Quietly(o, [op[o] EXCEPT !.pc = "approved", !.todo = <<>>, !.flight = "none"])
  <2> SUFFICES ASSUME NEW CONSTANT new,
                      new = [op[o] EXCEPT !.pc = "approved", !.todo = <<>>, !.flight = "none"]
               PROVE  CareInv'
    OBVIOUS
  <2>1. new.pc = "approved" /\ new.flight = "none"
    BY <1>2 DEF OpType
  <2>2. Careful(new)
    BY <2>1 DEF Careful, FlightOk, TodoOk, ConfirmOk
  <2> QED
    BY <1>1, <1>5, <2>2, QuietCareful
<1> QED
  BY <1>3, <1>4, <1>5 DEF Proceed

LEMMA LeaveCareful ==
    ASSUME IInv, CareInv, NEW o \in Operators,
           Leave(o) \/ Crash(o) \/ LeaveBehind(o)
    PROVE  CareInv'
<1>1. Quietly(o, Idle)
      /\ UNCHANGED <<scenario, prover, polls, gateway, message, prepared>>
  BY DEF Leave, Crash, LeaveBehind, axelarVars, gatewayVars
<1> QED
  BY <1>1, IdleCareful, QuietCareful

LEMMA StartCareful ==
    ASSUME IInv, CareInv, NEW o \in Operators, Start(o)
    PROVE  CareInv'
<1>1. PICK cmd \in CommandLines : Quietly(o, [Idle EXCEPT !.pc = "begin", !.cmd = cmd])
  BY DEF Start
<1> SUFFICES ASSUME NEW CONSTANT new, new = [Idle EXCEPT !.pc = "begin", !.cmd = cmd]
             PROVE  CareInv'
  OBVIOUS
<1>2. UNCHANGED <<scenario, prover, polls, gateway, message, prepared>>
  BY DEF Start, axelarVars, gatewayVars
<1>3. new.pc = "begin" /\ new.flight = "none"
  BY DEF Idle
<1>4. Careful(new)
  BY <1>3 DEF Careful, FlightOk, TodoOk, ConfirmOk
<1> QED
  BY <1>1, <1>2, <1>4, QuietCareful

LEMMA QueryCareful ==
    ASSUME IInv, CareInv, NEW o \in Operators, QueryCurrent(o) \/ QueryNext(o) \/ PollEnds(o)
    PROVE  CareInv'
<1>1. op[o] \in OpType /\ op[o].pc \in {"begin", "poll"} /\ op[o].flight = "none"
      /\ ConfirmOk(op[o])
  BY Operator DEF QueryCurrent, QueryNext, PollEnds, OpOk, CareInv, Careful
<1>2. CASE Leave(o)
  BY <1>2, LeaveCareful
<1>3. UNCHANGED <<scenario, prover, polls, gateway, message, prepared>>
  BY DEF QueryCurrent, QueryNext, PollEnds, Leave, axelarVars, gatewayVars
<1>4. CASE ~Leave(o) /\ QueryCurrent(o)
  <2> SUFFICES ASSUME NEW CONSTANT new, new = [op[o] EXCEPT !.pc = "update"]
               PROVE  CareInv'
    OBVIOUS
  <2>1. Quietly(o, new)
    BY <1>4 DEF QueryCurrent
  <2>2. new.pc = "update" /\ new.flight = "none"
    BY <1>1 DEF OpType
  <2> QED
    BY <1>3, <2>1, <2>2, NotSending, QuietCareful DEF ConfirmOk
<1>5. CASE ~Leave(o) /\ QueryNext(o)
  <2> SUFFICES ASSUME NEW CONSTANT new,
                      new = [op[o] EXCEPT !.pc = "verify", !.held = prover.next]
               PROVE  CareInv'
    OBVIOUS
  <2>1. Quietly(o, new) /\ prover.next # NoSet
    BY <1>5 DEF QueryNext
  <2>2. new.pc = "verify" /\ new.flight = "none" /\ new.held = prover.next
    BY <1>1 DEF OpType
  <2> QED
    BY <1>3, <2>1, <2>2, NotSending, QuietCareful DEF ConfirmOk
<1>6. CASE ~Leave(o) /\ PollEnds(o)
  <2> SUFFICES ASSUME NEW CONSTANT new, new = [op[o] EXCEPT !.pc = "confirm"]
               PROVE  CareInv'
    OBVIOUS
  <2>1. /\ Quietly(o, new) /\ op[o].pc = "poll"
        /\ polls[op[o].held].status \notin {"in_progress", "failed"}
    BY <1>6 DEF PollEnds, PollAgain
  <2>2. /\ new.pc = "confirm" /\ new.flight = "none" /\ new.held = op[o].held
        /\ new.raced = op[o].raced
    BY <1>1 DEF OpType
  <2>3. ASSUME ~op[o].raced
        PROVE  CanConfirm
    <3>1. /\ op[o].held = prover.next /\ op[o].held # NoSet
          /\ polls[op[o].held].status # "unknown"
      BY <1>1, <2>1, <2>3 DEF ConfirmOk
    <3>2. prover.next \in ProverSets
      BY <3>1 DEF IInv, Typed, AxelarTyped
    <3>3. polls[prover.next].status \in Statuses
      BY <3>2 DEF IInv, Typed, AxelarTyped
    <3> QED
      BY <2>1, <3>1, <3>3 DEF CanConfirm, Statuses
  <2> QED
    BY <1>3, <2>1, <2>2, <2>3, NotSending, QuietCareful DEF ConfirmOk
<1> QED
  BY <1>2, <1>4, <1>5, <1>6

LEMMA VerifyCareful ==
    ASSUME IInv, CareInv, NEW o \in Operators, VerifyVerifierSet(o)
    PROVE  CareInv'
<1> SUFFICES ASSUME NEW CONSTANT new, new = [op[o] EXCEPT !.pc = "poll"]
             PROVE  CareInv'
  OBVIOUS
<1>1. /\ op[o] \in OpType /\ op[o].pc = "verify" /\ op[o].flight = "none"
      /\ ConfirmOk(op[o]) /\ Moves(o, new)
      /\ UNCHANGED <<scenario, prover, gateway, message>>
  BY Operator DEF VerifyVerifierSet, OpOk, CareInv, Careful, gatewayVars
<1>2. /\ new.pc = "poll" /\ new.flight = "none" /\ new.held = op[o].held
      /\ new.raced = op[o].raced
  BY <1>1 DEF OpType
<1>3. Careful(new)'
  <2>1. ASSUME ~op[o].raced
        PROVE  /\ op[o].held = prover.next /\ op[o].held # NoSet
               /\ polls'[op[o].held].status # "unknown"
    <3>1. op[o].held = prover.next /\ op[o].held # NoSet
      BY <1>1, <2>1 DEF ConfirmOk
    <3>2. op[o].held \in ProverSets
      BY <3>1 DEF IInv, Typed, AxelarTyped
    <3>3. polls'[op[o].held].status # "unknown"
      BY <3>2 DEF VerifyVerifierSet, IInv, Typed, AxelarTyped
    <3> QED
      BY <3>1, <3>3
  <2> QED
    BY <1>1, <1>2, <2>1 DEF Careful, FlightOk, TodoOk, ConfirmOk
<1> QED
  BY <1>1, <1>3, StillLasting, MovesCareful

LEMMA ProverCareful ==
    ASSUME IInv, CareInv, NEW o \in Operators, UpdateVerifierSet(o) \/ ConfirmVerifierSet(o)
    PROVE  CareInv'
<1>1. CASE Leave(o)
  BY <1>1, LeaveCareful
<1>2. CASE ~Leave(o)
  <2>1. Moves(o, Idle) /\ UNCHANGED <<scenario, gateway, message>>
    BY <1>2 DEF UpdateVerifierSet, ConfirmVerifierSet, gatewayVars
  <2> QED
    BY <2>1, IdleCareful, StillLasting, MovesCareful
<1> QED
  BY <1>1, <1>2

LEMMA LateCareful ==
    ASSUME IInv, CareInv, NEW tx \in late, IncludeLate(tx)
    PROVE  CareInv'
<1>1. tx \in AllTxs /\ TxOk(tx) /\ Effect(tx) /\ UNCHANGED scenario
  BY DEF IInv, Typed, GatewayTyped, IncludeLate
<1>2. Lasting
  BY <1>1, EffectLasts
<1>3. \A o \in Operators : op'[o] = Raced(o)
  BY DEF IncludeLate
<1>4. \A o \in Operators : \A r : r = Raced(o) => Careful(r)'
  BY <1>1, <1>2, RacedCareful
<1>5. \A o \in Operators : \A r : r = op'[o] => Careful(r)'
  BY <1>3, <1>4
<1> QED
  BY <1>5 DEF CareInv

\* The steps on Axelar nobody tells an operator of.
LEMMA AxelarCareful ==
    ASSUME IInv, CareInv, AxelarStep \/ \E s \in ProverSets : EndPoll(s)
    PROVE  CareInv'
<1>1. UNCHANGED <<scenario, op, gateway, message, prepared>>
  BY DEF AxelarStep, Register, Genesis, ConstructProof, SignSession, EndPoll, gatewayVars
<1>2. prover'.next = prover.next
  <2>1. prover \in [current : ProverSets \cup {NoSet}, next : ProverSets \cup {NoSet}]
    BY DEF IInv, Typed, AxelarTyped
  <2> QED
    BY <2>1 DEF AxelarStep, Register, Genesis, ConstructProof, SignSession, EndPoll
<1>3. \A s \in ProverSets : \/ polls'[s] = polls[s]
                            \/ /\ polls[s].status = "in_progress"
                               /\ polls'[s].status # "unknown"
  <2>1. CASE AxelarStep
    BY <2>1 DEF AxelarStep, Register, Genesis, ConstructProof, SignSession
  <2>2. CASE \E s \in ProverSets : EndPoll(s)
    <3>1. PICK s \in ProverSets : EndPoll(s)
      BY <2>2
    <3> QED
      BY <3>1 DEF EndPoll, IInv, Typed, AxelarTyped
  <2> QED
    BY <2>1, <2>2
<1>4. \A tx : (Accepts(tx)' = Accepts(tx)) /\ (Done(tx)' = Done(tx))
  BY <1>1 DEF Accepts, Repeats, Complete, Newest, kind, Done
<1>5. CanConfirm => CanConfirm'
  <2> SUFFICES ASSUME CanConfirm
               PROVE  CanConfirm'
    OBVIOUS
  <2>1. prover.next \in ProverSets
    BY DEF CanConfirm, IInv, Typed, AxelarTyped
  <2> QED
    BY <1>2, <1>3, <2>1 DEF CanConfirm
<1>6. ASSUME NEW o \in Operators, NEW CONSTANT r, r = op[o]
      PROVE  Careful(r)'
  <2>1. Careful(r) /\ r \in OpType
    BY <1>6, Operator DEF CareInv
  <2>2. FlightOk(r)' /\ TodoOk(r)'
    <3>1. kind' = kind
      BY <1>1 DEF kind
    <3>2. FlightOk(r)'
      BY <1>4, <2>1, <3>1 DEF Careful, FlightOk
    <3>3. TodoOk(r)'
      BY <1>1, <2>1, <3>1 DEF Careful, TodoOk
    <3> QED
      BY <3>2, <3>3
  <2>3. ConfirmOk(r)'
    <3> SUFFICES ASSUME ~r.raced
                 PROVE  /\ r.pc \in {"verify", "poll"} => r.held = prover'.next /\ r.held # NoSet
                        /\ r.pc = "poll" => polls'[r.held].status # "unknown"
                        /\ r.pc = "confirm" => CanConfirm'
      BY DEF ConfirmOk
    <3>1. /\ r.pc \in {"verify", "poll"} => r.held = prover.next /\ r.held # NoSet
          /\ r.pc = "poll" => polls[r.held].status # "unknown"
          /\ r.pc = "confirm" => CanConfirm
      BY <2>1 DEF Careful, ConfirmOk
    <3>2. r.pc = "poll" => r.held \in ProverSets
      BY <3>1 DEF IInv, Typed, AxelarTyped
    <3> QED
      BY <1>2, <1>3, <1>5, <3>1, <3>2
  <2> QED
    BY <2>2, <2>3 DEF Careful
<1>7. \A o \in Operators : \A r : r = op'[o] => Careful(r)'
  BY <1>1, <1>6
<1> QED
  BY <1>7 DEF CareInv

LEMMA CareInit == Init => CareInv
<1> SUFFICES ASSUME Init, NEW o \in Operators PROVE Careful(op[o])
  BY DEF CareInv
<1>1. op[o] = Idle
  BY DEF Init
<1> QED
  BY <1>1, IdleCareful

LEMMA CareNext == IInv /\ CareInv /\ [Next]_vars => CareInv'
<1> SUFFICES ASSUME IInv, CareInv, [Next]_vars PROVE CareInv'
  OBVIOUS
<1>1. CASE UNCHANGED vars
  <2>1. UNCHANGED <<scenario, prover, polls, gateway, message, prepared, op>>
    BY <1>1 DEF vars, axelarVars, gatewayVars
  <2>2. \A r : Careful(r) => Careful(r)'
    BY <2>1, SameWorld
  <2> QED
    BY <2>1, <2>2 DEF CareInv
<1>2. CASE AxelarStep \/ \E s \in ProverSets : EndPoll(s)
  BY <1>2, AxelarCareful
<1>3. CASE \E tx \in late : IncludeLate(tx)
  BY <1>3, LateCareful
<1>4. ASSUME NEW o \in Operators, ScriptStep(o)
      PROVE  CareInv'
  <2>1. CASE \/ EvmDeploy(o) \/ SuiDeploy(o) \/ StellarDeploy(o) \/ SolanaInit(o)
             \/ StacksSetup(o) \/ EvmRotateSigners(o) \/ SuiRotate(o) \/ StellarRotate(o)
             \/ SolanaRotate(o) \/ EvmSubmitProof(o) \/ SuiSubmitProof(o)
             \/ StellarSubmitProof(o) \/ SolanaSubmitProof(o) \/ EvmApprove(o)
             \/ SuiApprove(o) \/ StellarApprove(o) \/ SolanaApprove(o)
    BY <2>1, SendersCareful
  <2>2. CASE EvmExecute(o) \/ StellarExecute(o) \/ SolanaExecute(o)
    BY <2>2, ExecuteCareful
  <2>3. CASE QueryCurrent(o) \/ QueryNext(o) \/ PollEnds(o)
    BY <2>3, QueryCareful
  <2>4. CASE VerifyVerifierSet(o)
    BY <2>4, VerifyCareful
  <2>5. CASE UpdateVerifierSet(o) \/ ConfirmVerifierSet(o)
    BY <2>5, ProverCareful
  <2>6. CASE Send(o)
    BY <2>6, SendCareful
  <2>7. CASE Proceed(o)
    BY <2>7, ProceedCareful
  <2>8. CASE Stop(o)
    BY <2>8, LeaveCareful DEF Stop
  <2> QED
    BY <1>4, <2>1, <2>2, <2>3, <2>4, <2>5, <2>6, <2>7, <2>8 DEF ScriptStep
<1>5. ASSUME NEW o \in Operators,
             Start(o) \/ Decline(o) \/ Include(o) \/ Drop(o) \/ Crash(o) \/ LeaveBehind(o)
      PROVE  CareInv'
  <2>1. CASE Start(o)
    BY <2>1, StartCareful
  <2>2. CASE Decline(o) \/ Drop(o)
    BY <2>2, LeaveCareful DEF Decline, Drop
  <2>3. CASE Include(o)
    BY <2>3, IncludeCareful
  <2>4. CASE Crash(o) \/ LeaveBehind(o)
    BY <2>4, LeaveCareful
  <2> QED
    BY <1>5, <2>1, <2>2, <2>3, <2>4
<1> QED
  BY <1>1, <1>2, <1>3, <1>4, <1>5 DEF Next

\* Every running command is careful in every reachable state.
THEOREM CareHolds == Spec => []CareInv
BY CareInit, CareNext, InvariantHolds, PTL DEF Spec

\* Whoever asks first is refused only if somebody got in between: the confirmation of a
\* rotation after its poll (rotate-signers.js:66-78), and the execution of a message the
\* gateway was asked about (evm/gateway.js:306, stellar/gateway.js:167), at the
\* simulation and on the chain.
THEOREM NeverRefusedAlone == Spec => []CheckedNotRejected
<1>1. IInv /\ CareInv => CheckedNotRejected
  <2> SUFFICES ASSUME IInv, CareInv, NEW o \in Operators,
                      \/ op[o].pc = "confirm" /\ ~CanConfirm
                      \/ /\ op[o].cmd.name = "execute" /\ kind # "solana"
                         /\ op[o].flight \in {"rejected", "reverted"}
               PROVE  op[o].raced
    BY DEF CheckedNotRejected
  <2>1. FlightOk(op[o]) /\ ConfirmOk(op[o])
    BY DEF CareInv, Careful
  <2> QED
    BY <2>1 DEF FlightOk, ConfirmOk
<1> QED
  BY <1>1, InvariantHolds, CareHolds, PTL

\* A command that ends well has had its effect: handle_transaction_error of the Solana
\* program (send.rs:148-183) passes over an error only where the last transaction is
\* preceded or followed by one that did the same, for any number of parts, whatever was
\* left on the chain by commands that were killed; the other scripts go on after an
\* accepted transaction only, Sui's after any that was executed.
THEOREM DoneIsDone == Spec => []DoneHasEffect
<1>1. IInv /\ CareInv => DoneHasEffect
  <2> SUFFICES ASSUME IInv, CareInv, NEW o \in Operators,
                      op[o].pc = "send", GoesOn(o), Len(op[o].todo) = 1,
                      kind = "sui" => ~op[o].raced, kind # "stacks"
               PROVE  Done(op[o].todo[1])
    BY DEF DoneHasEffect, Done
  <2>1. TodoOk(op[o])
    BY DEF CareInv, Careful
  <2>2. op[o].todo[1].part \in {Last, Closing} /\ 1 \in 1..Len(op[o].todo)
    BY <2>1 DEF TodoOk
  <2>3. CASE op[o].todo[1].part = Last
    BY <2>3, GoesOnDone
  <2>4. CASE op[o].todo[1].part = Closing
    BY <2>1, <2>2, <2>4 DEF TodoOk, Done
  <2> QED
    BY <2>2, <2>3, <2>4
<1> QED
  BY <1>1, InvariantHolds, CareHolds, PTL
=============================================================================
