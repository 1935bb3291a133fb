------------------------- MODULE OfflineSigning_proofs -------------------------
(***************************************************************************)
(* Proofs about the two offline signing flows: EvmOfflineTx, for any       *)
(* signing runs, broadcasters and bound, and SolanaOffline, for any        *)
(* commands, signers and bounds.                                           *)
(***************************************************************************)
EXTENDS EvmOfflineTx, SolanaOffline, TLAPS

LEMMA NoncesAreNat == Nonces \subseteq Nat
BY OfflineConstants DEF Nonces

\* The broadcaster that stores a file leaves a file of that path behind.
LEMMA StoreType ==
    ASSUME TypeOK, NEW b \in Broadcasters, held[b] # None,
           NEW status \in Status, Store(b, status)
    PROVE  /\ files' \in [Paths -> Files \cup {None}]
           /\ held' \in [Broadcasters -> Held \cup {None}]
           /\ pc' \in [Broadcasters -> Active \cup {"idle", "done", "crashed"}]
<1>1. held[b].path \in Paths /\ held[b].file \in Files
    BY DEF TypeOK, Held
<1>2. [held[b].file EXCEPT !.status = status] \in Files
    BY <1>1 DEF Files
<1>3. files' \in [Paths -> Files \cup {None}]
    BY <1>1, <1>2 DEF Store, TypeOK
<1>4. held' \in [Broadcasters -> Held \cup {None}]
    BY DEF Store, TypeOK
<1>5. pc' \in [Broadcasters -> Active \cup {"idle", "done", "crashed"}]
    BY DEF Store, TypeOK, Active
<1> QED
    BY <1>3, <1>4, <1>5

\* A broadcaster that sends or waits has read a file.
Holding == \A b \in Broadcasters : pc[b] \in {"sending", "waiting"} => held[b] # None

\* Files are given by name and never removed.
TodoExists == \A b \in Broadcasters : \A f \in todo[b] : files[f] # None

BaseInv == TypeOK /\ Holding /\ TodoExists

LEMMA HeldType ==
    ASSUME BaseInv, NEW b \in Broadcasters, pc[b] \in {"sending", "waiting"}
    PROVE  /\ held[b] \in Held
           /\ held[b].path \in Paths /\ held[b].file \in Files
           /\ TxOf(held[b]) \in Txs
<1>1. held[b] \in Held
    BY DEF BaseInv, TypeOK, Holding
<1> QED
    BY <1>1 DEF Held, Paths, Files, Txs, TxOf

\* The five ways a broadcaster ends its work on a file.
Stores(b, status) ==
    /\ pc[b] \in {"sending", "waiting"}
    /\ Store(b, status)
    /\ UNCHANGED <<nonce, ledger>>
    /\ pool' \in SUBSET Txs
    /\ status = "SUCCESS" => /\ pc[b] = "waiting"
                             /\ Receipt(b) = [pay |-> held[b].file.pay, ok |-> TRUE]

LEMMA Endings ==
    ASSUME BaseInv, NEW b \in Broadcasters,
           Refused(b) \/ RpcError(b) \/ Confirmed(b) \/ Reverted(b)
    PROVE  Stores(b, "FAILED") \/ Stores(b, "SUCCESS")
<1>1. pool \in SUBSET Txs
    BY DEF BaseInv, TypeOK
<1>2. CASE Refused(b) \/ Reverted(b)
    BY <1>1, <1>2 DEF Refused, Reverted, Stores, chainVars
<1>3. CASE Confirmed(b)
    BY <1>1, <1>3 DEF Confirmed, Stores, chainVars
<1>4. CASE RpcError(b)
  <2>1. pc[b] \in {"sending", "waiting"}
      BY <1>4 DEF RpcError
  <2>2. pool' \in SUBSET Txs
      BY <1>1, <1>4, <2>1, HeldType DEF RpcError
  <2> QED
      BY <1>4, <2>1, <2>2 DEF RpcError, Stores
<1> QED
    BY <1>2, <1>3, <1>4

LEMMA FaultyType == TypeOK /\ [Next]_vars => faulty' \in BOOLEAN
<1> SUFFICES ASSUME TypeOK, [Next]_vars, faulty' # faulty PROVE faulty' = TRUE
    BY DEF TypeOK
<1>1. UpdateNonce \/ Include \/ (\E s \in Signings : Sign(s)) => UNCHANGED faulty
    BY DEF UpdateNonce, Include, Sign, bcastVars
<1>2. ASSUME NEW b \in Broadcasters, Start(b) \/ BroadcastStep(b) \/ Crash(b)
      PROVE  UNCHANGED faulty
    BY <1>2 DEF BroadcastStep, Start, Crash, Skip, Take, Finish, Accepted, Refused,
                Confirmed, Reverted
<1>3. ASSUME NEW b \in Broadcasters, RpcError(b) \/ \E f \in Paths : Decline(b, f)
      PROVE  faulty' = TRUE
    BY <1>3 DEF RpcError, Decline
<1> QED
    BY <1>1, <1>2, <1>3 DEF Next, vars, bcastVars

LEMMA BaseInductive == BaseInv /\ [Next]_vars => BaseInv'
<1> SUFFICES ASSUME BaseInv, [Next]_vars PROVE BaseInv'
    OBVIOUS
<1>0. TypeOK /\ Holding /\ TodoExists /\ faulty' \in BOOLEAN
    BY FaultyType DEF BaseInv
<1>1. CASE UpdateNonce
    BY <1>0, <1>1 DEF UpdateNonce, BaseInv, TypeOK, Holding, TodoExists, bcastVars, chainVars
<1>2. ASSUME NEW s \in Signings, Sign(s) PROVE BaseInv'
  <2>1. PICK f \in Paths, file \in Files : files' = [files EXCEPT ![f] = file]
    <3>1. [kind |-> KindOf[s], nonce |-> NonceFor(s)] \in Paths
        BY <1>2, OfflineConstants DEF Sign, Paths
    <3>2. PaysOf[s] \in Seq(Payloads) /\ signing[s].signed \in Nat
        BY <1>0, OfflineConstants DEF TypeOK
    <3>3. signing[s].signed + 1 \in 1 .. Len(PaysOf[s])
        BY <1>2, <3>2 DEF Sign
    <3>4. [pay |-> PaysOf[s][signing[s].signed + 1], status |-> "PENDING"] \in Files
        BY <3>2, <3>3 DEF Files, Status
    <3> QED
        BY <1>2, <3>1, <3>4 DEF Sign
  <2>2. files' \in [Paths -> Files \cup {None}]
      BY <1>0, <2>1 DEF TypeOK
  <2>3. signing' \in [Signings -> [signed : Nat, offset : Nat]]
    <3>1. signing[s] \in [signed : Nat, offset : Nat]
        BY <1>0 DEF TypeOK
    <3>2. [signing[s] EXCEPT !.signed = @ + 1] \in [signed : Nat, offset : Nat]
        BY <3>1
    <3> QED
        BY <1>0, <1>2, <3>2 DEF Sign, TypeOK
  <2>4. TodoExists'
      BY <1>0, <1>2, <2>1, NoneIsNoFile DEF Sign, TypeOK, TodoExists, bcastVars
  <2> QED
      BY <1>0, <1>2, <2>2, <2>3, <2>4 DEF Sign, BaseInv, TypeOK, Holding, bcastVars, chainVars
<1>3. ASSUME NEW b \in Broadcasters, Start(b) \/ Finish(b) \/ Crash(b) PROVE BaseInv'
  <2>1. UNCHANGED <<local, signing, files, nonce, pool, ledger>>
      BY <1>3 DEF Start, Finish, Crash, signVars, chainVars
  <2>2. PICK to \in {"picking", "done", "crashed"} : pc' = [pc EXCEPT ![b] = to]
      BY <1>3 DEF Start, Finish, Crash
  <2>3. PICK fs \in SUBSET Existing : todo' = [todo EXCEPT ![b] = fs]
    <3>1. CASE Start(b)
        BY <3>1 DEF Start
    <3>2. CASE Crash(b)
        BY <3>2 DEF Crash
    <3>3. CASE Finish(b)
      <4>1. todo' = [todo EXCEPT ![b] = {}]
          BY <1>0, <3>3 DEF Finish, TypeOK
      <4> QED
          BY <4>1
    <3> QED
        BY <1>3, <3>1, <3>2, <3>3
  <2>4. held' = held \/ held' = [held EXCEPT ![b] = None]
      BY <1>3 DEF Start, Finish, Crash
  <2>5. pc' \in [Broadcasters -> Active \cup {"idle", "done", "crashed"}]
      BY <1>0, <2>2 DEF TypeOK, Active
  <2>6. todo' \in [Broadcasters -> SUBSET Paths]
    <3>1. fs \in SUBSET Paths
        BY DEF Existing
    <3> QED
        BY <1>0, <2>3, <3>1 DEF TypeOK
  <2>7. held' \in [Broadcasters -> Held \cup {None}]
      BY <1>0, <2>4 DEF TypeOK
  <2>8. TypeOK'
      BY <1>0, <2>1, <2>5, <2>6, <2>7 DEF TypeOK
  <2>9. Holding'
      BY <1>0, <2>2, <2>4 DEF TypeOK, Holding
  <2>10. TodoExists'
      BY <1>0, <2>1, <2>3 DEF TypeOK, TodoExists, Existing
  <2> QED
      BY <2>8, <2>9, <2>10 DEF BaseInv
<1>4. ASSUME NEW b \in Broadcasters, NEW f \in Paths, Skip(b, f) \/ Decline(b, f) \/ Take(b, f)
      PROVE  BaseInv'
  <2>1. /\ UNCHANGED <<local, signing, files, nonce, pool, ledger>>
        /\ f \in todo[b]
        /\ todo' = [todo EXCEPT ![b] = @ \ {f}]
      BY <1>4 DEF Skip, Decline, Take, Pick, signVars, chainVars
  <2>2. todo' \in [Broadcasters -> SUBSET Paths] /\ TodoExists'
    <3>1. todo[b] \ {f} \in SUBSET Paths
        BY <1>0 DEF TypeOK
    <3> QED
        BY <1>0, <2>1, <3>1 DEF TypeOK, TodoExists
  <2>3. CASE Skip(b, f) \/ Decline(b, f)
      BY <1>0, <2>1, <2>2, <2>3 DEF Skip, Decline, BaseInv, TypeOK, Holding
  <2>4. CASE Take(b, f)
    <3>1. [path |-> f, file |-> files[f]] \in Held
        BY <1>0, <2>1 DEF TodoExists, TypeOK, Held
    <3>2. /\ held' = [held EXCEPT ![b] = [path |-> f, file |-> files[f]]]
          /\ pc' = [pc EXCEPT ![b] = "sending"]
        BY <2>4 DEF Take
    <3>3. held' \in [Broadcasters -> Held \cup {None}]
        BY <1>0, <3>1, <3>2 DEF TypeOK
    <3>4. pc' \in [Broadcasters -> Active \cup {"idle", "done", "crashed"}]
        BY <1>0, <3>2 DEF TypeOK, Active
    <3>5. Holding'
        BY <1>0, <3>1, <3>2, NoneIsNoFile DEF Holding, TypeOK
    <3> QED
        BY <1>0, <2>1, <2>2, <3>3, <3>4, <3>5 DEF BaseInv, TypeOK
  <2> QED
      BY <1>4, <2>3, <2>4
<1>5. ASSUME NEW b \in Broadcasters, Accepted(b) PROVE BaseInv'
  <2>1. /\ UNCHANGED <<local, signing, files, todo, held, nonce, ledger>>
        /\ pc[b] = "sending"
        /\ pc' = [pc EXCEPT ![b] = "waiting"]
        /\ pool' = pool \cup {TxOf(held[b])}
      BY <1>5 DEF Accepted, signVars
  <2>2. pool' \in SUBSET Txs
      BY <1>0, <2>1, HeldType DEF TypeOK
  <2>3. pc' \in [Broadcasters -> Active \cup {"idle", "done", "crashed"}]
      BY <1>0, <2>1 DEF TypeOK, Active
  <2>4. Holding'
      BY <1>0, <2>1 DEF Holding, TypeOK
  <2> QED
      BY <1>0, <2>1, <2>2, <2>3, <2>4 DEF BaseInv, TypeOK, TodoExists
<1>6. ASSUME NEW b \in Broadcasters,
             Refused(b) \/ RpcError(b) \/ Confirmed(b) \/ Reverted(b)
      PROVE  BaseInv'
  <2>1. PICK status \in Status : Stores(b, status)
      BY <1>6, Endings DEF Status
  <2>2. held[b] \in Held /\ held[b] # None
      BY <2>1, HeldType, NoneIsNoFile DEF Stores
  <2>3. /\ files' \in [Paths -> Files \cup {None}]
        /\ held' \in [Broadcasters -> Held \cup {None}]
        /\ pc' \in [Broadcasters -> Active \cup {"idle", "done", "crashed"}]
      BY <1>0, <2>1, <2>2, StoreType DEF Stores
  <2>4. Holding'
      BY <1>0, <2>1 DEF Stores, Store, Holding, TypeOK
  <2>5. TodoExists'
    <3>1. \A f \in Paths : files[f] # None => files'[f] # None
      <4>1. [held[b].file EXCEPT !.status = status] \in Files
          BY <2>2 DEF Held, Files
      <4> QED
          BY <1>0, <2>1, <4>1, NoneIsNoFile DEF Stores, Store, TypeOK
    <3> QED
        BY <1>0, <2>1, <3>1 DEF Stores, Store, TodoExists, TypeOK
  <2> QED
      BY <1>0, <2>1, <2>3, <2>4, <2>5 DEF Stores, Store, BaseInv, TypeOK, signVars
<1>7. CASE Include
  <2>1. PICK t \in pool, ok \in BOOLEAN :
           /\ t.nonce = nonce
           /\ ledger' = [ledger EXCEPT ![nonce] = [pay |-> t.pay, ok |-> ok]]
           /\ pool' = pool \ {t}
      BY <1>7 DEF Include
  <2>2. t \in Txs
      BY <1>0 DEF TypeOK
  <2>3. ledger' \in [Nonces -> Outcome \cup {None}]
    <3>1. [pay |-> t.pay, ok |-> ok] \in Outcome
        BY <2>2 DEF Txs, Outcome
    <3> QED
        BY <1>0, <2>1, <3>1 DEF TypeOK
  <2> QED
      BY <1>0, <1>7, <2>1, <2>3
         DEF Include, BaseInv, TypeOK, Holding, TodoExists, signVars, bcastVars
<1>8. CASE UNCHANGED vars
    BY <1>0, <1>8 DEF vars, signVars, bcastVars, chainVars, BaseInv, TypeOK, Holding, TodoExists
<1> QED
    BY <1>1, <1>2, <1>3, <1>4, <1>5, <1>6, <1>7, <1>8 DEF Next, BroadcastStep

LEMMA BaseInitially == Init => BaseInv
<1> SUFFICES ASSUME Init PROVE BaseInv
    OBVIOUS
<1>1. signing \in [Signings -> [signed : Nat, offset : Nat]]
    BY DEF Init
<1> QED
    BY <1>1 DEF Init, BaseInv, TypeOK, Holding, TodoExists

\* Every state has the type TypeOK declares.
THEOREM OfflineTypeCorrect == Spec => []TypeOK
<1>1. BaseInv => TypeOK
    BY DEF BaseInv
<1> QED
    BY <1>1, BaseInitially, BaseInductive, PTL DEF Spec

------------------------------------------------------------------------------
(* The ledger is written in nonce order, so what a SUCCESS rests on stays. *)

LedgerAhead == \A n \in Nonces : nonce <= n => ledger[n] = None

SuccessInv == BaseInv /\ LedgerAhead /\ SuccessIsExecuted

LEMMA SuccessInductive == SuccessInv /\ [Next]_vars => SuccessInv'
<1> SUFFICES ASSUME SuccessInv, [Next]_vars PROVE SuccessInv'
    OBVIOUS
<1>0. BaseInv /\ BaseInv' /\ LedgerAhead /\ SuccessIsExecuted /\ TypeOK
    BY BaseInductive DEF SuccessInv, BaseInv
<1>1. CASE UNCHANGED <<files, nonce, ledger>>
    BY <1>0, <1>1 DEF SuccessInv, LedgerAhead, SuccessIsExecuted, Existing
<1>2. ASSUME NEW s \in Signings, Sign(s) PROVE SuccessInv'
  <2>1. PICK f \in Paths, file \in [pay : {PaysOf[s][signing[s].signed + 1]}, status : {"PENDING"}] :
           files' = [files EXCEPT ![f] = file]
      BY <1>2, OfflineConstants DEF Sign, Paths
  <2>2. UNCHANGED <<nonce, ledger>>
      BY <1>2 DEF Sign, chainVars
  <2>3. \A g \in Paths : files'[g] = files[g] \/ files'[g].status = "PENDING"
      BY <1>0, <2>1 DEF TypeOK
  <2> QED
      BY <1>0, <2>2, <2>3 DEF SuccessInv, LedgerAhead, SuccessIsExecuted, Existing
<1>3. ASSUME NEW b \in Broadcasters,
             Refused(b) \/ RpcError(b) \/ Confirmed(b) \/ Reverted(b)
      PROVE  SuccessInv'
  <2>1. PICK status \in Status : Stores(b, status)
      BY <1>0, <1>3, Endings DEF Status
  <2>2. held[b].path \in Paths /\ held[b].file \in Files /\ UNCHANGED <<nonce, ledger>>
      BY <1>0, <2>1, HeldType DEF Stores
  <2>3. \A g \in Paths : g # held[b].path => files'[g] = files[g]
      BY <1>0, <2>1 DEF Stores, Store, TypeOK
  <2>4. /\ files'[held[b].path].status = status
        /\ files'[held[b].path].pay = held[b].file.pay
    <3>1. files'[held[b].path] = [held[b].file EXCEPT !.status = status]
        BY <1>0, <2>1, <2>2 DEF Stores, Store, TypeOK
    <3> QED
        BY <2>2, <3>1 DEF Files
  <2>5. SuccessIsExecuted'
      BY <1>0, <2>1, <2>2, <2>3, <2>4 DEF SuccessIsExecuted, Existing, Stores, Receipt
  <2> QED
      BY <1>0, <2>2, <2>5 DEF SuccessInv, LedgerAhead
<1>4. CASE Include
  <2>1. PICK t \in pool, ok \in BOOLEAN :
           /\ t.nonce = nonce
           /\ ledger' = [ledger EXCEPT ![nonce] = [pay |-> t.pay, ok |-> ok]]
      BY <1>4 DEF Include
  <2>2. nonce \in Nat /\ nonce' = nonce + 1 /\ UNCHANGED files
      BY <1>0, <1>4 DEF Include, TypeOK
  <2>3. \A n \in Nonces : n # nonce => ledger'[n] = ledger[n]
      BY <1>0, <2>1 DEF TypeOK
  <2>4. LedgerAhead'
      BY <1>0, <2>2, <2>3, NoncesAreNat DEF LedgerAhead
  <2>5. ASSUME NEW f \in Existing, files[f].status = "SUCCESS" PROVE f.nonce # nonce
    <3>1. f.nonce \in Nonces /\ ledger[f.nonce] # None
      <4>1. ledger[f.nonce] = [pay |-> files[f].pay, ok |-> TRUE]
          BY <1>0, <2>5 DEF SuccessIsExecuted
      <4>2. files[f] \in Files /\ f \in Paths
          BY <1>0 DEF TypeOK, Existing
      <4>3. [pay |-> files[f].pay, ok |-> TRUE] \in Outcome
          BY <4>2 DEF Files, Outcome
      <4> QED
          BY <4>1, <4>2, <4>3, NoneIsNoFile DEF Paths
    <3> QED
        BY <1>0, <2>2, <3>1, NoncesAreNat DEF LedgerAhead
  <2>6. SuccessIsExecuted'
    <3> SUFFICES ASSUME NEW f \in Existing, files[f].status = "SUCCESS"
                 PROVE  ledger'[f.nonce] = [pay |-> files[f].pay, ok |-> TRUE]
        BY <2>2 DEF SuccessIsExecuted, Existing
    <3>1. f.nonce \in Nonces
        BY DEF Existing, Paths
    <3> QED
        BY <1>0, <2>3, <2>5, <3>1 DEF SuccessIsExecuted
  <2> QED
      BY <1>0, <2>4, <2>6 DEF SuccessInv
<1> QED
  <2>1. ASSUME NEW b \in Broadcasters, Start(b) \/ Finish(b) \/ Crash(b) \/ Accepted(b)
        PROVE  UNCHANGED <<files, nonce, ledger>>
      BY <2>1 DEF Start, Finish, Crash, Accepted, chainVars
  <2>2. ASSUME NEW b \in Broadcasters, NEW f \in Paths, Skip(b, f) \/ Decline(b, f) \/ Take(b, f)
        PROVE  UNCHANGED <<files, nonce, ledger>>
      BY <2>2 DEF Skip, Decline, Take, chainVars
  <2>3. UpdateNonce \/ UNCHANGED vars => UNCHANGED <<files, nonce, ledger>>
      BY DEF UpdateNonce, vars, chainVars
  <2> QED
      BY <1>1, <1>2, <1>3, <1>4, <2>1, <2>2, <2>3 DEF Next, BroadcastStep

\* A SUCCESS in a file is never a mistake, however many commands share a nonce
\* and however broadcasters overlap, crash and repeat.
THEOREM SuccessIsExecutedCorrect == Spec => []SuccessIsExecuted
<1>1. Init => SuccessInv
  <2>1. Init => LedgerAhead /\ SuccessIsExecuted
      BY DEF Init, LedgerAhead, SuccessIsExecuted, Existing
  <2> QED
      BY <2>1, BaseInitially DEF SuccessInv
<1>2. SuccessInv => SuccessIsExecuted
    BY DEF SuccessInv
<1> QED
    BY <1>1, <1>2, SuccessInductive, PTL DEF Spec

------------------------------------------------------------------------------
(* One broadcaster at a time: nobody else settles the file it works on. *)

HeldIsUnsettled ==
    \A b \in Broadcasters :
        pc[b] \in {"sending", "waiting"} => files[held[b].path].status # "SUCCESS"

OneBroadcaster ==
    \A a, b \in Broadcasters : pc[a] \in Active /\ pc[b] \in Active => a = b

SerialInv == BaseInv /\ HeldIsUnsettled /\ OneBroadcaster

\* A step that starts none and moves none of the others.
LEMMA SerialInductive ==
    ASSUME Serial
    PROVE  SerialInv /\ [Next]_vars => SerialInv'
<1> SUFFICES ASSUME SerialInv, [Next]_vars PROVE SerialInv'
    OBVIOUS
<1>0. BaseInv /\ BaseInv' /\ HeldIsUnsettled /\ OneBroadcaster /\ TypeOK
    BY BaseInductive DEF SerialInv, BaseInv
<1>1. ASSUME UNCHANGED <<files, pc, held>> PROVE SerialInv'
    BY <1>0, <1>1 DEF SerialInv, HeldIsUnsettled, OneBroadcaster
<1>2. ASSUME NEW s \in Signings, Sign(s) PROVE SerialInv'
  <2>1. PICK f \in Paths, file \in [pay : {PaysOf[s][signing[s].signed + 1]}, status : {"PENDING"}] :
           files' = [files EXCEPT ![f] = file]
      BY <1>2, OfflineConstants DEF Sign, Paths
  <2>2. \A g \in Paths : files'[g] = files[g] \/ files'[g].status = "PENDING"
      BY <1>0, <2>1 DEF TypeOK
  <2>3. UNCHANGED <<pc, held>>
      BY <1>2 DEF Sign, bcastVars
  <2>4. HeldIsUnsettled'
    <3> SUFFICES ASSUME NEW b \in Broadcasters, pc[b] \in {"sending", "waiting"}
                 PROVE  files'[held[b].path].status # "SUCCESS"
        BY <2>3 DEF HeldIsUnsettled
    <3>1. held[b].path \in Paths
        BY <1>0, HeldType
    <3> QED
        BY <1>0, <2>2, <3>1 DEF HeldIsUnsettled
  <2> QED
      BY <1>0, <2>3, <2>4 DEF SerialInv, OneBroadcaster
<1>3. ASSUME NEW b \in Broadcasters, Start(b) PROVE SerialInv'
  <2>1. /\ UNCHANGED <<files, held>>
        /\ pc' = [pc EXCEPT ![b] = "picking"]
        /\ \A a \in Broadcasters : pc[a] \notin Active
      BY <1>3 DEF Start
  <2> QED
      BY <1>0, <2>1 DEF SerialInv, HeldIsUnsettled, OneBroadcaster, TypeOK, Active
<1>4. ASSUME NEW b \in Broadcasters, Finish(b) \/ Crash(b) PROVE SerialInv'
  <2>1. PICK to \in {"done", "crashed"} : pc' = [pc EXCEPT ![b] = to]
      BY <1>4 DEF Finish, Crash
  <2>2. UNCHANGED files /\ \A a \in Broadcasters \ {b} : held'[a] = held[a]
      BY <1>0, <1>4 DEF Finish, Crash, TypeOK
  <2> QED
      BY <1>0, <2>1, <2>2 DEF SerialInv, HeldIsUnsettled, OneBroadcaster, TypeOK, Active
<1>5. ASSUME NEW b \in Broadcasters, NEW f \in Paths, Skip(b, f) \/ Decline(b, f) \/ Take(b, f)
      PROVE  SerialInv'
  <2>1. CASE Skip(b, f) \/ Decline(b, f)
      BY <1>1, <2>1 DEF Skip, Decline
  <2>2. CASE Take(b, f)
    <3>1. /\ UNCHANGED files
          /\ pc[b] = "picking"
          /\ files[f].status # "SUCCESS"
          /\ held' = [held EXCEPT ![b] = [path |-> f, file |-> files[f]]]
          /\ pc' = [pc EXCEPT ![b] = "sending"]
        BY <2>2 DEF Take, Pick
    <3>2. OneBroadcaster'
        BY <1>0, <3>1 DEF OneBroadcaster, TypeOK, Active
    <3>3. HeldIsUnsettled'
        BY <1>0, <3>1 DEF HeldIsUnsettled, TypeOK
    <3> QED
        BY <1>0, <3>2, <3>3 DEF SerialInv
  <2> QED
      BY <1>5, <2>1, <2>2
<1>6. ASSUME NEW b \in Broadcasters, Accepted(b) PROVE SerialInv'
  <2>1. /\ UNCHANGED <<files, held>>
        /\ pc[b] = "sending"
        /\ pc' = [pc EXCEPT ![b] = "waiting"]
      BY <1>6 DEF Accepted
  <2> QED
      BY <1>0, <2>1 DEF SerialInv, HeldIsUnsettled, OneBroadcaster, TypeOK, Active
<1>7. ASSUME NEW b \in Broadcasters,
             Refused(b) \/ RpcError(b) \/ Confirmed(b) \/ Reverted(b)
      PROVE  SerialInv'
  <2>1. PICK status \in Status : Stores(b, status)
      BY <1>0, <1>7, Endings DEF Status
  <2>2. pc[b] \in Active /\ pc' = [pc EXCEPT ![b] = "picking"]
      BY <2>1 DEF Stores, Store, Active
  <2>3. OneBroadcaster'
      BY <1>0, <2>2 DEF OneBroadcaster, TypeOK, Active
  <2>4. \A a \in Broadcasters : pc'[a] \notin {"sending", "waiting"}
      BY <1>0, <2>2 DEF OneBroadcaster, TypeOK, Active
  <2> QED
      BY <1>0, <2>3, <2>4 DEF SerialInv, HeldIsUnsettled
<1>8. UpdateNonce \/ Include \/ UNCHANGED vars => UNCHANGED <<files, pc, held>>
    BY DEF UpdateNonce, Include, vars, bcastVars
<1> QED
    BY <1>1, <1>2, <1>3, <1>4, <1>5, <1>6, <1>7, <1>8 DEF Next, BroadcastStep

LEMMA SerialStep ==
    SerialInv /\ [Next]_vars =>
        \A f \in Existing : files[f].status = "SUCCESS" => files'[f].status # "FAILED"
<1> SUFFICES ASSUME SerialInv, [Next]_vars, NEW f \in Existing, files[f].status = "SUCCESS"
             PROVE  files'[f].status # "FAILED"
    OBVIOUS
<1>0. BaseInv /\ TypeOK /\ HeldIsUnsettled /\ f \in Paths
    BY DEF SerialInv, BaseInv, Existing
<1>1. ASSUME NEW s \in Signings, Sign(s) PROVE files'[f].status # "FAILED"
  <2>1. PICK g \in Paths, file \in [pay : {PaysOf[s][signing[s].signed + 1]}, status : {"PENDING"}] :
           files' = [files EXCEPT ![g] = file]
      BY <1>1, OfflineConstants DEF Sign, Paths
  <2> QED
      BY <1>0, <2>1 DEF TypeOK
<1>2. ASSUME NEW b \in Broadcasters,
             Refused(b) \/ RpcError(b) \/ Confirmed(b) \/ Reverted(b)
      PROVE  files'[f].status # "FAILED"
  <2>1. PICK status \in Status : Stores(b, status)
      BY <1>0, <1>2, Endings DEF Status
  <2>2. held[b].path # f
      BY <1>0, <2>1 DEF Stores, HeldIsUnsettled
  <2> QED
      BY <1>0, <2>1, <2>2 DEF Stores, Store, TypeOK
<1>3. CASE UNCHANGED files
    BY <1>3
<1>4. ASSUME NEW b \in Broadcasters, Start(b) \/ Finish(b) \/ Crash(b) \/ Accepted(b)
      PROVE  UNCHANGED files
    BY <1>4 DEF Start, Finish, Crash, Accepted
<1>5. ASSUME NEW b \in Broadcasters, NEW g \in Paths, Skip(b, g) \/ Decline(b, g) \/ Take(b, g)
      PROVE  UNCHANGED files
    BY <1>5 DEF Skip, Decline, Take
<1>6. UpdateNonce \/ Include \/ UNCHANGED vars => UNCHANGED files
    BY DEF UpdateNonce, Include, vars
<1> QED
    BY <1>1, <1>2, <1>3, <1>4, <1>5, <1>6 DEF Next, BroadcastStep

\* With one broadcaster at a time no file goes from SUCCESS to FAILED.
THEOREM NeverDowngradedCorrect ==
    ASSUME Serial
    PROVE  Spec => NeverDowngraded
<1>1. Init => SerialInv
  <2>1. Init => HeldIsUnsettled /\ OneBroadcaster
      BY DEF Init, HeldIsUnsettled, OneBroadcaster, Active
  <2> QED
      BY <2>1, BaseInitially DEF SerialInv
<1>2. SerialInv /\ [Next]_vars =>
          [\A f \in Existing : files[f].status = "SUCCESS" => files'[f].status # "FAILED"]_vars
    BY SerialStep
<1> QED
    BY <1>1, <1>2, SerialInductive, PTL DEF Spec, NeverDowngraded

------------------------------------------------------------------------------
(* Solana: what generate, sign, combine and broadcast leave behind.          *)

LEMMA MessageType ==
    ASSUME SolanaTypeOK, NEW c \in Commands, NEW i \in 1 .. Len(InstructionsOf[c])
    PROVE  Message(c, i) \in Messages /\ Message(c, i).advances
<1>1. InstructionsOf[c][i] \in Instructions
    BY SolanaConstants
<1> QED
    BY <1>1 DEF Message, Messages, SolanaTypeOK

\* What generate leaves in a file is what was there or a message of its own.
LEMMA Generated ==
    ASSUME SolanaTypeOK, NEW c \in Commands, Generate(c), NEW p \in TxPaths
    PROVE  \/ unsigned'[p] = unsigned[p]
           \/ unsigned'[p] \in Messages /\ unsigned'[p].advances
<1>1. PICK written \in 1 .. Len(InstructionsOf[c]) :
          unsigned' = [q \in TxPaths |->
             IF \E i \in 1 .. written : q = PathOf(c, i)
             THEN Message(c, CHOOSE i \in 1 .. written : q = PathOf(c, i))
             ELSE unsigned[q]]
    BY DEF Generate
<1>2. CASE \E i \in 1 .. written : p = PathOf(c, i)
  <2> DEFINE n == CHOOSE i \in 1 .. written : p = PathOf(c, i)
  <2>1. n \in 1 .. written
      BY <1>2
  <2>2. n \in 1 .. Len(InstructionsOf[c])
      BY <2>1, SolanaConstants
  <2>3. unsigned'[p] = Message(c, n)
      BY <1>1, <1>2
  <2> HIDE DEF n
  <2> QED
      BY <2>2, <2>3, MessageType
<1>3. CASE ~ \E i \in 1 .. written : p = PathOf(c, i)
    BY <1>1, <1>3
<1> QED
    BY <1>2, <1>3

------------------------------------------------------------------------------
(* Types, and that every message everywhere begins by advancing the nonce. *)

Advancing ==
    /\ \A p \in TxPaths : unsigned[p] # Absent => unsigned[p].advances
    /\ \A p \in TxPaths : signed[p] # Absent => signed[p].msg.advances
    /\ \A m \in inFlight : m.advances

\* What has landed used up its nonce.
Spent == \A i \in 1 .. Len(landed) : landed[i].nonce < durableNonce

NonceInv == SolanaTypeOK /\ Advancing /\ Spent /\ OnePerNonce /\ CombinedReconstructs

LEMMA NonceInitially == SolanaInit => NonceInv
<1> SUFFICES ASSUME SolanaInit PROVE NonceInv
    OBVIOUS
<1>1. SolanaTypeOK
    BY DEF SolanaInit, SolanaTypeOK
<1>2. Len(landed) = 0
    BY DEF SolanaInit
<1> QED
    BY <1>1, <1>2 DEF SolanaInit, NonceInv, Advancing, Spent, OnePerNonce, CombinedReconstructs

LEMMA NonceInductive == NonceInv /\ [SolanaNext]_solanaVars => NonceInv'
<1> SUFFICES ASSUME NonceInv, [SolanaNext]_solanaVars PROVE NonceInv'
    OBVIOUS
<1>0. SolanaTypeOK /\ Advancing /\ Spent /\ OnePerNonce /\ CombinedReconstructs
    BY DEF NonceInv
<1>1. ASSUME NEW c \in Commands, Generate(c) PROVE NonceInv'
  <2>1. UNCHANGED <<sigs, signed, durableNonce, inFlight, landed>>
      BY <1>1 DEF Generate, chain
  <2>2. DOMAIN unsigned' = TxPaths /\ unsigned' = [p \in TxPaths |-> unsigned'[p]]
      BY <1>1 DEF Generate
  <2>3. unsigned' \in [TxPaths -> Messages \cup {Absent}]
    <3>1. \A p \in TxPaths : unsigned'[p] \in Messages \cup {Absent}
        BY <1>0, <1>1, Generated DEF SolanaTypeOK
    <3> QED
        BY <2>2, <3>1
  <2>4. Advancing'
      BY <1>0, <1>1, <2>1, Generated DEF Advancing
  <2> QED
      BY <1>0, <2>1, <2>3, <2>4
         DEF NonceInv, SolanaTypeOK, Spent, OnePerNonce, CombinedReconstructs, Reconstructs
<1>2. ASSUME NEW p \in TxPaths, NEW k \in Keys, SignFile(p, k) PROVE NonceInv'
  <2>1. sigs' = [sigs EXCEPT ![<<p, k>>] = unsigned[p]]
        /\ UNCHANGED <<unsigned, signed, durableNonce, inFlight, landed>>
      BY <1>2 DEF SignFile, chain
  <2>2. sigs' \in [TxPaths \X Keys -> Messages \cup {Absent}]
      BY <1>0, <2>1 DEF SolanaTypeOK
  <2> QED
      BY <1>0, <2>1, <2>2
         DEF NonceInv, SolanaTypeOK, Advancing, Spent, OnePerNonce, CombinedReconstructs,
             Reconstructs
<1>3. ASSUME NEW p \in TxPaths, Combine(p) PROVE NonceInv'
  <2>1. unsigned[p] # Absent /\ UNCHANGED <<unsigned, sigs, durableNonce, inFlight, landed>>
      BY <1>3 DEF Combine, chain
  <2>2. PICK S \in SUBSET (TxPaths \X Keys) :
           /\ Fitting(p, S)
           /\ signed' = [signed EXCEPT ![p] =
                [msg |-> unsigned[p], sigs |-> {[key |-> x[2], over |-> sigs[x]] : x \in S}]]
      BY <1>3 DEF Combine
  <2> DEFINE joined == {[key |-> x[2], over |-> sigs[x]] : x \in S}
             made   == [msg |-> unsigned[p], sigs |-> joined]
  <2>3. \A x \in S : x[2] \in Keys /\ sigs[x] = unsigned[p]
      BY <2>2 DEF Fitting
  <2>4. unsigned[p] \in Messages
      BY <1>0, <2>1 DEF SolanaTypeOK
  <2>5. joined \in SUBSET Signatures
      BY <2>3, <2>4 DEF Signatures
  <2>6. made \in SignedFiles
      BY <2>4, <2>5 DEF SignedFiles
  <2>7. Reconstructs(made)
    <3>1. \A s \in joined : s.over = unsigned[p]
        BY <2>3
    <3>2. ASSUME NEW k \in Required PROVE \E s \in joined : s.key = k
      <4>1. PICK x \in S : x[2] = k
          BY <2>2 DEF Fitting
      <4>2. [key |-> x[2], over |-> sigs[x]] \in joined
          OBVIOUS
      <4> QED
          BY <4>1, <4>2
    <3> QED
        BY <3>1, <3>2 DEF Reconstructs
  <2>8. signed' = [signed EXCEPT ![p] = made]
      BY <2>2
  <2>9. made.msg.advances
      BY <1>0, <2>1 DEF Advancing
  <2> HIDE DEF made
  <2>10. signed' \in [TxPaths -> SignedFiles \cup {Absent}]
      BY <1>0, <2>6, <2>8 DEF SolanaTypeOK
  <2>11. \A q \in TxPaths : signed'[q] = signed[q] \/ signed'[q] = made
      BY <1>0, <2>8 DEF SolanaTypeOK
  <2>12. CombinedReconstructs'
      BY <1>0, <2>7, <2>11 DEF CombinedReconstructs, Reconstructs
  <2>13. Advancing'
      BY <1>0, <2>1, <2>9, <2>11 DEF Advancing
  <2> QED
      BY <1>0, <2>1, <2>10, <2>12, <2>13 DEF NonceInv, SolanaTypeOK, Spent, OnePerNonce
<1>4. ASSUME NEW p \in TxPaths, Broadcast(p) PROVE NonceInv'
  <2>1. /\ signed[p] # Absent
        /\ inFlight' = inFlight \cup {signed[p].msg}
        /\ UNCHANGED <<unsigned, sigs, signed, durableNonce, landed>>
      BY <1>4 DEF Broadcast, fileVars
  <2>2. signed[p].msg \in Messages /\ signed[p].msg.advances
      BY <1>0, <2>1 DEF SolanaTypeOK, SignedFiles, Advancing
  <2>3. inFlight' \in SUBSET Messages
      BY <1>0, <2>1, <2>2 DEF SolanaTypeOK
  <2> QED
      BY <1>0, <2>1, <2>2, <2>3
         DEF NonceInv, SolanaTypeOK, Advancing, Spent, OnePerNonce, CombinedReconstructs,
             Reconstructs
<1>5. CASE Land
  <2>1. PICK m \in inFlight :
           /\ m.nonce = durableNonce
           /\ landed' = Append(landed, m)
           /\ durableNonce' = IF m.advances THEN durableNonce + 1 ELSE durableNonce
           /\ inFlight' = inFlight \ {m}
      BY <1>5 DEF Land, Valid
  <2>2. UNCHANGED <<unsigned, sigs, signed>>
      BY <1>5 DEF Land, fileVars
  <2>3. m \in Messages /\ durableNonce \in Nat /\ durableNonce' = durableNonce + 1
      BY <1>0, <2>1 DEF SolanaTypeOK, Advancing
  <2>4. landed \in Seq(Messages) /\ landed' \in Seq(Messages)
      BY <1>0, <2>1, <2>3 DEF SolanaTypeOK
  <2>5. /\ Len(landed') = Len(landed) + 1
        /\ \A i \in 1 .. Len(landed) : landed'[i] = landed[i]
        /\ landed'[Len(landed')] = m
      BY <2>1, <2>4
  <2>6. \A i \in 1 .. Len(landed) : landed[i].nonce \in Nat
    <3>1. \A i \in 1 .. Len(landed) : landed[i] \in Messages
        BY <2>4
    <3> QED
        BY <3>1 DEF Messages
  <2>7. Spent'
      BY <1>0, <2>1, <2>3, <2>4, <2>5, <2>6 DEF Spent
  <2>8. OnePerNonce'
      BY <1>0, <2>1, <2>3, <2>4, <2>5, <2>6 DEF Spent, OnePerNonce
  <2>9. SolanaTypeOK'
      BY <1>0, <2>1, <2>2, <2>3, <2>4 DEF SolanaTypeOK
  <2> QED
      BY <1>0, <2>1, <2>2, <2>7, <2>8, <2>9
         DEF NonceInv, Advancing, CombinedReconstructs, Reconstructs
<1>6. CASE UNCHANGED solanaVars
    BY <1>0, <1>6 DEF solanaVars, fileVars, chain, NonceInv, SolanaTypeOK, Advancing, Spent,
                      OnePerNonce, CombinedReconstructs, Reconstructs
<1> QED
    BY <1>1, <1>2, <1>3, <1>4, <1>5, <1>6 DEF SolanaNext

\* Every state has the type TypeOK declares.
THEOREM SolanaTypeCorrect == SolanaSpec => []SolanaTypeOK
<1>1. NonceInv => SolanaTypeOK
    BY DEF NonceInv
<1> QED
    BY <1>1, NonceInitially, NonceInductive, PTL DEF SolanaSpec

\* No signed file has a signature that does not hold for its message, however
\* often and in whatever order its transaction was generated, signed and combined.
THEOREM CombinedReconstructsCorrect == SolanaSpec => []CombinedReconstructs
<1>1. NonceInv => CombinedReconstructs
    BY DEF NonceInv
<1> QED
    BY <1>1, NonceInitially, NonceInductive, PTL DEF SolanaSpec

\* No value of the nonce is used by two of the transactions processed.
THEOREM OnePerNonceCorrect == SolanaSpec => []OnePerNonce
<1>1. NonceInv => OnePerNonce
    BY DEF NonceInv
<1> QED
    BY <1>1, NonceInitially, NonceInductive, PTL DEF SolanaSpec
==============================================================================
