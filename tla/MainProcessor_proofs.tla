------------------------- MODULE MainProcessor_proofs -------------------------
(***************************************************************************)
(* Proofs about MainProcessor for any number of runs and chains.           *)
(***************************************************************************)
EXTENDS MainProcessor, TLAPS

\* What every step of a task leaves alone, apart from its own state.
LEMMA AdvanceType ==
    ASSUME TypeOK, NEW r \in Runs, NEW c \in Chains,
           NEW from \in TaskStates, NEW to \in TaskStates, Advance(r, c, from, to)
    PROVE  /\ task' \in [Runs -> [Chains -> TaskStates]]
           /\ UNCHANGED <<file, phase, opts, nonce, code>>
BY DEF Advance, TypeOK, chainVars

LEMMA ReportType ==
    ASSUME TypeOK, NEW r \in Runs, NEW c \in Chains,
           UNCHANGED erred \/ Report(r, c)
    PROVE  erred' \in [Runs -> SUBSET Chains]
<1>1. erred \in [Runs -> SUBSET Chains]
    BY DEF TypeOK
<1>2. erred[r] \cup {c} \in SUBSET Chains
    BY <1>1
<1> QED
    BY <1>1, <1>2 DEF Report

LEMMA AddressAtType == \A n \in Nat : AddressAt(n) \in Address
BY DEF AddressAt, Address

\* A transaction's fate: its states stay transaction states.
LEMMA IncludedType ==
    ASSUME TypeOK, NEW r \in Runs, NEW c \in Chains, NEW outcome \in TxStates
    PROVE  Included(r, c, outcome) \in [Runs -> [Chains -> [nonce : Nat, state : TxStates]]]
<1>1. tx \in [Runs -> [Chains -> [nonce : Nat, state : TxStates]]]
    BY DEF TypeOK
<1> SUFFICES ASSUME NEW q \in Runs
             PROVE  Included(r, c, outcome)[q] \in [Chains -> [nonce : Nat, state : TxStates]]
    BY DEF Included
<1> DEFINE old == tx[q][c].state
           new == IF q = r THEN outcome
                  ELSE IF old = "pending" /\ tx[q][c].nonce = tx[r][c].nonce THEN "dropped"
                  ELSE old
<1>2. tx[q] \in [Chains -> [nonce : Nat, state : TxStates]]
    BY <1>1
<1>3. tx[q][c] \in [nonce : Nat, state : TxStates]
    BY <1>2
<1>4. new \in TxStates
    BY <1>3 DEF TxStates
<1>5. Included(r, c, outcome)[q] = [tx[q] EXCEPT ![c] = [tx[q][c] EXCEPT !.state = new]]
    BY DEF Included
<1>6. [tx[q][c] EXCEPT !.state = new] \in [nonce : Nat, state : TxStates]
    BY <1>3, <1>4
<1> QED
    BY <1>2, <1>5, <1>6

LEMMA TypeInductive == TypeOK /\ [Next]_vars => TypeOK'
<1> SUFFICES ASSUME TypeOK, [Next]_vars PROVE TypeOK'
    OBVIOUS
<1>1. CASE \E r \in Runs : Start(r)
  <2> PICK r \in Runs : Start(r)
      BY <1>1
  <2>1. /\ phase' \in [Runs -> Phases]
        /\ opts' \in [Runs -> Options \cup {NoOptions}]
        /\ mem' \in [Runs -> [Chains -> MaybeAddr]]
      BY DEF Start, TypeOK, Phases
  <2>2. task' \in [Runs -> [Chains -> TaskStates]]
      BY DEF Start, TypeOK, TaskStates
  <2> QED
      BY <2>1, <2>2 DEF Start, TypeOK, chainVars
<1>2. CASE \E r \in Runs : Finish(r) \/ Crash(r)
  <2> PICK r \in Runs : Finish(r) \/ Crash(r)
      BY <1>2
  <2>a. Unknown \in [Chains -> MaybeAddr]
      BY DEF Unknown, MaybeAddr
  <2>1. /\ phase' \in [Runs -> Phases]
        /\ opts' \in [Runs -> Options \cup {NoOptions}]
        /\ mem' \in [Runs -> [Chains -> MaybeAddr]]
        /\ target' \in [Runs -> [Chains -> MaybeAddr]]
        /\ UNCHANGED <<tx, nonce, code>>
    <3>1. PICK to \in Phases : Exit(r, to)
        BY DEF Finish, Crash, Phases
    <3>2. phase' \in [Runs -> Phases]
        BY <3>1 DEF Exit, TypeOK
    <3>3. opts' \in [Runs -> Options \cup {NoOptions}]
        BY <3>1 DEF Exit, TypeOK
    <3>4. mem' \in [Runs -> [Chains -> MaybeAddr]]
        BY <2>a, <3>1 DEF Exit, TypeOK
    <3>5. target' \in [Runs -> [Chains -> MaybeAddr]]
        BY <2>a, <3>1 DEF Exit, TypeOK
    <3> QED
        BY <3>1, <3>2, <3>3, <3>4, <3>5 DEF Exit, chainVars
  <2>2. file' \in [Chains -> MaybeAddr]
      BY DEF Finish, Crash, TypeOK
  <2>3. /\ task' \in [Runs -> [Chains -> TaskStates]]
        /\ erred' \in [Runs -> SUBSET Chains]
    <3>1. [d \in Chains |-> "unselected"] \in [Chains -> TaskStates]
        BY DEF TaskStates
    <3>2. task \in [Runs -> [Chains -> TaskStates]] /\ erred \in [Runs -> SUBSET Chains]
        BY DEF TypeOK
    <3>3. CASE UNCHANGED <<task, erred>>
        BY <3>2, <3>3
    <3>4. CASE /\ task' = [task EXCEPT ![r] = [d \in Chains |-> "unselected"]]
               /\ erred' = [erred EXCEPT ![r] = {}]
        BY <3>1, <3>2, <3>4
    <3> QED
        BY <3>3, <3>4 DEF Finish, Crash
  <2> QED
      BY <2>1, <2>2, <2>3 DEF TypeOK
<1>3. CASE \E r \in Runs, c \in Chains : TaskStep(r, c) \/ Throw(r, c)
  <2> PICK r \in Runs, c \in Chains : TaskStep(r, c) \/ Throw(r, c)
      BY <1>3
  <2>1. PICK from \in TaskStates, to \in TaskStates : Advance(r, c, from, to)
      BY DEF TaskStep, Throw, SkipExisting, Predict, AlreadyDeployed, Check,
             Decline, Proceed, ReuseExisting, SendTx, Confirm, TxRejected,
             Record, Return, TaskStates
  <2>2. UNCHANGED erred \/ Report(r, c)
      BY DEF TaskStep, Throw, SkipExisting, Predict, AlreadyDeployed, Check,
             Decline, Proceed, ReuseExisting, SendTx, Confirm, TxRejected,
             Record, Return
  <2>3. mem' \in [Runs -> [Chains -> MaybeAddr]]
    <3>1. CASE Record(r, c)
        BY <3>1 DEF Record, TypeOK
    <3>2. CASE UNCHANGED mem
        BY <3>2 DEF TypeOK
    <3> QED
        BY <3>1, <3>2 DEF TaskStep, Throw, SkipExisting, Predict, AlreadyDeployed, Check,
               Decline, Proceed, ReuseExisting, SendTx, Confirm, TxRejected, Return
  <2>4. target' \in [Runs -> [Chains -> MaybeAddr]]
    <3>1. AddressAt(nonce[c]) \in MaybeAddr /\ AddressAt(tx[r][c].nonce) \in MaybeAddr
        BY AddressAtType DEF TypeOK, MaybeAddr
    <3>2. CASE Predict(r, c) \/ Proceed(r, c) \/ Confirm(r, c)
      <4>1. PICK a \in MaybeAddr : target' = [target EXCEPT ![r][c] = a]
          BY <3>1, <3>2 DEF Predict, Proceed, Confirm
      <4> QED
          BY <4>1 DEF TypeOK
    <3>3. CASE UNCHANGED target
        BY <3>3 DEF TypeOK
    <3> QED
        BY <3>2, <3>3 DEF TaskStep, Throw, SkipExisting, AlreadyDeployed, Check,
               Decline, ReuseExisting, SendTx, TxRejected, Record, Return
  <2>5. tx' \in [Runs -> [Chains -> [nonce : Nat, state : TxStates]]]
    <3>1. NextNonces(c) \subseteq Nat
        BY DEF NextNonces, TypeOK
    <3>2. CASE SendTx(r, c)
      <4> PICK n \in NextNonces(c) :
             tx' = [tx EXCEPT ![r][c] = [nonce |-> n, state |-> "pending"]]
          BY <3>2 DEF SendTx
      <4> QED
          BY <3>1 DEF TypeOK, TxStates
    <3>3. CASE UNCHANGED tx
        BY <3>3 DEF TypeOK
    <3> QED
        BY <3>2, <3>3 DEF TaskStep, Throw, SkipExisting, Predict, AlreadyDeployed, Check,
               Decline, Proceed, ReuseExisting, Confirm, TxRejected, Record, Return
  <2> QED
      BY <2>1, <2>2, <2>3, <2>4, <2>5, AdvanceType, ReportType DEF TypeOK
<1>4. CASE \E r \in Runs, c \in Chains : ChainStep(r, c)
  <2> PICK r \in Runs, c \in Chains : ChainStep(r, c)
      BY <1>4
  <2>1. tx' \in [Runs -> [Chains -> [nonce : Nat, state : TxStates]]]
    <3>1. {"mined", "reverted"} \subseteq TxStates
        BY DEF TxStates
    <3>2. tx' \in {Included(r, c, "mined"), Included(r, c, "reverted")}
        BY DEF ChainStep, Mine, Revert
    <3> QED
        BY <3>1, <3>2, IncludedType
  <2>2. nonce' \in [Chains -> Nat] /\ code' \in [Chains -> SUBSET Address]
    <3>1. nonce \in [Chains -> Nat] /\ code \in [Chains -> SUBSET Address]
        BY DEF TypeOK
    <3>2. code[c] \cup {AddressAt(nonce[c])} \in SUBSET Address
        BY <3>1, AddressAtType
    <3> QED
        BY <3>1, <3>2 DEF ChainStep, Mine, Revert
  <2> QED
      BY <2>1, <2>2 DEF ChainStep, Mine, Revert, TypeOK, runVars
<1>5. CASE UNCHANGED vars
    BY <1>5 DEF TypeOK, vars, runVars, chainVars
<1> QED
    BY <1>1, <1>2, <1>3, <1>4, <1>5 DEF Next, Terminated

\* Every state has the type TypeOK declares.
THEOREM TypeCorrect == Spec => []TypeOK
<1>1. Init => TypeOK
    BY ConstantsOK DEF Init, TypeOK, Unknown, NoTx, MaybeAddr, Phases, TaskStates,
           TxStates, Address
<1> QED
    BY <1>1, TypeInductive, PTL DEF Spec

------------------------------------------------------------------------------
(* What single steps do *)

\* Inclusion settles one transaction, drops its rivals and changes no nonce.
LEMMA IncludedEffect ==
    ASSUME TypeOK, NEW r \in Runs, NEW c \in Chains, NEW outcome \in TxStates,
           tx' = Included(r, c, outcome), NEW q \in Runs, NEW d \in Chains
    PROVE  /\ tx'[q][d].nonce = tx[q][d].nonce
           /\ d # c => tx'[q][d].state = tx[q][d].state
           /\ q = r => tx'[q][c].state = outcome
           /\ q # r => IF /\ tx[q][c].state = "pending"
                          /\ tx[q][c].nonce = tx[r][c].nonce
                       THEN tx'[q][c].state = "dropped"
                       ELSE tx'[q][c].state = tx[q][c].state
<1> DEFINE old == tx[q][c].state
           new == IF q = r THEN outcome
                  ELSE IF old = "pending" /\ tx[q][c].nonce = tx[r][c].nonce THEN "dropped"
                  ELSE old
<1>1. tx[q] \in [Chains -> [nonce : Nat, state : TxStates]]
    BY DEF TypeOK
<1>2. tx[q][c] \in [nonce : Nat, state : TxStates]
    BY <1>1
<1>3. tx'[q] = [tx[q] EXCEPT ![c] = [tx[q][c] EXCEPT !.state = new]]
    BY DEF Included
<1>4. CASE d # c
    BY <1>1, <1>3, <1>4
<1>5. tx'[q][c] = [tx[q][c] EXCEPT !.state = new]
    BY <1>1, <1>3
<1>6. tx'[q][c].nonce = tx[q][c].nonce /\ tx'[q][c].state = new
    BY <1>2, <1>5
<1> QED
    BY <1>4, <1>6

\* A step of task c of run r touches that task only.
LEMMA TaskFrame ==
    ASSUME TypeOK, NEW r \in Runs, NEW c \in Chains,
           TaskStep(r, c) \/ Throw(r, c),
           NEW q \in Runs, NEW d \in Chains, <<q, d>> # <<r, c>>
    PROVE  /\ task'[q][d] = task[q][d]
           /\ target'[q][d] = target[q][d]
           /\ mem'[q][d] = mem[q][d]
           /\ tx'[q][d] = tx[q][d]
           /\ d \in erred'[q] <=> d \in erred[q]
<1>1. \E from, to \in TaskStates : Advance(r, c, from, to)
    BY DEF TaskStep, Throw, SkipExisting, Predict, AlreadyDeployed, Check,
           Decline, Proceed, ReuseExisting, SendTx, Confirm, TxRejected,
           Record, Return, TaskStates
<1>2. task'[q][d] = task[q][d]
    BY <1>1 DEF Advance, TypeOK
<1>3. /\ UNCHANGED target \/ \E a : target' = [target EXCEPT ![r][c] = a]
      /\ UNCHANGED mem \/ \E a : mem' = [mem EXCEPT ![r][c] = a]
      /\ UNCHANGED erred \/ Report(r, c)
  <2>1. CASE Predict(r, c) \/ Proceed(r, c) \/ Confirm(r, c)
      BY <2>1 DEF Predict, Proceed, Confirm
  <2>2. CASE Record(r, c)
      BY <2>2 DEF Record
  <2>3. CASE \/ SkipExisting(r, c) \/ AlreadyDeployed(r, c) \/ Check(r, c)
             \/ Decline(r, c) \/ ReuseExisting(r, c) \/ SendTx(r, c)
             \/ TxRejected(r, c) \/ Return(r, c) \/ Throw(r, c)
      BY <2>3 DEF SkipExisting, AlreadyDeployed, Check, Decline, ReuseExisting,
                  SendTx, TxRejected, Return, Throw
  <2> QED
      BY <2>1, <2>2, <2>3 DEF TaskStep
<1>4. UNCHANGED tx \/ \E t : tx' = [tx EXCEPT ![r][c] = t]
    BY DEF TaskStep, Throw, SkipExisting, Predict, AlreadyDeployed, Check,
           Decline, Proceed, ReuseExisting, SendTx, Confirm, TxRejected,
           Record, Return
<1>5. target'[q][d] = target[q][d]
    BY <1>3 DEF TypeOK
<1>6. mem'[q][d] = mem[q][d]
    BY <1>3 DEF TypeOK
<1>7. tx'[q][d] = tx[q][d]
    BY <1>4 DEF TypeOK
<1>8. d \in erred'[q] <=> d \in erred[q]
  <2>1. CASE UNCHANGED erred
      BY <2>1
  <2>2. CASE Report(r, c)
    <3>1. erred \in [Runs -> SUBSET Chains]
        BY DEF TypeOK
    <3>2. CASE q = r
        BY <2>2, <3>1, <3>2 DEF Report
    <3>3. CASE q # r
        BY <2>2, <3>1, <3>3 DEF Report
    <3> QED
        BY <3>2, <3>3
  <2> QED
      BY <1>3, <2>1, <2>2
<1> QED
    BY <1>2, <1>5, <1>6, <1>7, <1>8

------------------------------------------------------------------------------
(* Only deployed contracts are recorded, whether or not runs overlap. *)

MemIsDeployed ==
    \A r \in Runs, c \in Chains : mem[r][c] # None => mem[r][c] \in code[c]

TargetIsDeployed ==
    \A r \in Runs, c \in Chains : task[r][c] = "deployed" => target[r][c] \in code[c]

MinedIsDeployed ==
    \A r \in Runs, c \in Chains :
        tx[r][c].state = "mined" => AddressAt(tx[r][c].nonce) \in code[c]

DeployedInv ==
    TypeOK /\ RecordedIsDeployed /\ MemIsDeployed /\ TargetIsDeployed /\ MinedIsDeployed

LEMMA DeployedInductive == DeployedInv /\ [Next]_vars => DeployedInv'
<1> SUFFICES ASSUME DeployedInv, [Next]_vars PROVE DeployedInv'
    OBVIOUS
<1>0. TypeOK /\ TypeOK'
    BY TypeInductive DEF DeployedInv
<1> USE <1>0
<1>1. ASSUME NEW r \in Runs, Start(r) PROVE DeployedInv'
  <2>1. RecordedIsDeployed' /\ MinedIsDeployed'
      BY <1>1 DEF Start, DeployedInv, RecordedIsDeployed, MinedIsDeployed, chainVars
  <2>2. MemIsDeployed'
      BY <1>1 DEF Start, DeployedInv, RecordedIsDeployed, MemIsDeployed, chainVars, TypeOK
  <2>3. TargetIsDeployed'
      BY <1>1 DEF Start, DeployedInv, TargetIsDeployed, chainVars, TypeOK
  <2> QED
      BY <2>1, <2>2, <2>3 DEF DeployedInv
<1>2. ASSUME NEW r \in Runs, Finish(r) \/ Crash(r) PROVE DeployedInv'
  <2>1. UNCHANGED <<tx, nonce, code>>
      BY <1>2 DEF Finish, Crash, Exit, chainVars
  <2>2. RecordedIsDeployed'
      BY <1>2, <2>1 DEF Finish, Crash, DeployedInv, RecordedIsDeployed, MemIsDeployed
  <2>3. MemIsDeployed'
    <3>1. mem' = [mem EXCEPT ![r] = Unknown]
        BY <1>2 DEF Finish, Crash, Exit
    <3>2. \A c \in Chains : mem'[r][c] = None
        BY <3>1 DEF Unknown, TypeOK
    <3>3. \A q \in Runs \ {r} : mem'[q] = mem[q]
        BY <3>1 DEF TypeOK
    <3> QED
        BY <2>1, <3>2, <3>3 DEF DeployedInv, MemIsDeployed
  <2>4. TargetIsDeployed'
    <3>1. \A c \in Chains : task'[r][c] # "deployed"
      <4>1. CASE Finish(r)
          BY <4>1 DEF Finish, Ended
      <4>2. CASE Crash(r)
          BY <4>2 DEF Crash, TypeOK
      <4> QED
          BY <1>2, <4>1, <4>2
    <3>2. \A q \in Runs \ {r} : task'[q] = task[q] /\ target'[q] = target[q]
        BY <1>2 DEF Finish, Crash, Exit, TypeOK
    <3> QED
        BY <2>1, <3>1, <3>2 DEF DeployedInv, TargetIsDeployed
  <2> QED
      BY <2>1, <2>2, <2>3, <2>4 DEF DeployedInv, MinedIsDeployed
<1>3. ASSUME NEW r \in Runs, NEW c \in Chains, TaskStep(r, c) \/ Throw(r, c)
      PROVE  DeployedInv'
  <2>1. UNCHANGED <<file, nonce, code>>
      BY <1>3 DEF TaskStep, Throw, SkipExisting, Predict, AlreadyDeployed, Check,
             Decline, Proceed, ReuseExisting, SendTx, Confirm, TxRejected,
             Record, Return, Advance, chainVars
  <2>2. tx'[r][c].state = "mined" => AddressAt(tx'[r][c].nonce) \in code[c]
    <3>1. CASE SendTx(r, c)
        BY <3>1 DEF SendTx, TypeOK
    <3>2. CASE UNCHANGED tx
        BY <3>2 DEF DeployedInv, MinedIsDeployed
    <3> QED
        BY <1>3, <3>1, <3>2 DEF TaskStep, Throw, SkipExisting, Predict, AlreadyDeployed,
               Check, Decline, Proceed, ReuseExisting, Confirm, TxRejected, Record, Return
  <2>3. mem'[r][c] # None => mem'[r][c] \in code[c]
    <3>1. CASE Record(r, c)
        BY <3>1 DEF Record, Advance, DeployedInv, TargetIsDeployed, TypeOK
    <3>2. CASE UNCHANGED mem
        BY <3>2 DEF DeployedInv, MemIsDeployed
    <3> QED
        BY <1>3, <3>1, <3>2 DEF TaskStep, Throw, SkipExisting, Predict, AlreadyDeployed,
               Check, Decline, Proceed, ReuseExisting, SendTx, Confirm, TxRejected, Return
  <2>4. task'[r][c] = "deployed" => target'[r][c] \in code[c]
    <3>1. CASE ReuseExisting(r, c)
        BY <3>1 DEF ReuseExisting
    <3>2. CASE Confirm(r, c)
        BY <3>2 DEF Confirm, DeployedInv, MinedIsDeployed, TypeOK
    <3>3. CASE ~ ReuseExisting(r, c) /\ ~ Confirm(r, c)
      <4>1. \E from \in TaskStates, to \in TaskStates \ {"deployed"} : Advance(r, c, from, to)
          BY <1>3, <3>3 DEF TaskStep, Throw, SkipExisting, Predict, AlreadyDeployed, Check,
             Decline, Proceed, SendTx, TxRejected, Record, Return, TaskStates
      <4> QED
          BY <4>1 DEF Advance, TypeOK
    <3> QED
        BY <3>1, <3>2, <3>3
  <2>5. RecordedIsDeployed'
      BY <2>1 DEF DeployedInv, RecordedIsDeployed
  <2>6. MemIsDeployed' /\ TargetIsDeployed' /\ MinedIsDeployed'
    <3> SUFFICES ASSUME NEW q \in Runs, NEW d \in Chains
                 PROVE  /\ mem'[q][d] # None => mem'[q][d] \in code'[d]
                        /\ task'[q][d] = "deployed" => target'[q][d] \in code'[d]
                        /\ tx'[q][d].state = "mined" => AddressAt(tx'[q][d].nonce) \in code'[d]
        BY DEF MemIsDeployed, TargetIsDeployed, MinedIsDeployed, AddressAt
    <3>1. CASE <<q, d>> = <<r, c>>
        BY <2>1, <2>2, <2>3, <2>4, <3>1
    <3>2. CASE <<q, d>> # <<r, c>>
        BY <1>3, <2>1, <3>2, TaskFrame
           DEF DeployedInv, MemIsDeployed, TargetIsDeployed, MinedIsDeployed
    <3> QED
        BY <3>1, <3>2
  <2> QED
      BY <2>5, <2>6 DEF DeployedInv
<1>4. ASSUME NEW r \in Runs, NEW c \in Chains, ChainStep(r, c)
      PROVE  DeployedInv'
  <2>1. UNCHANGED <<file, mem, task, target>> /\ \A d \in Chains : code[d] \subseteq code'[d]
    <3>1. CASE Mine(r, c)
      <4>1. code \in [Chains -> SUBSET Address]
          BY DEF TypeOK
      <4> QED
          BY <3>1, <4>1 DEF Mine, runVars
    <3>2. CASE Revert(r, c)
        BY <3>2 DEF Revert, runVars
    <3> QED
        BY <1>4, <3>1, <3>2 DEF ChainStep
  <2>2. RecordedIsDeployed' /\ MemIsDeployed' /\ TargetIsDeployed'
      BY <2>1 DEF DeployedInv, RecordedIsDeployed, MemIsDeployed, TargetIsDeployed
  <2>3. MinedIsDeployed'
    <3> SUFFICES ASSUME NEW q \in Runs, NEW d \in Chains, tx'[q][d].state = "mined"
                 PROVE  AddressAt(tx'[q][d].nonce) \in code'[d]
        BY DEF MinedIsDeployed, AddressAt
    <3>1. PICK outcome \in TxStates : /\ tx' = Included(r, c, outcome)
                                      /\ outcome = "mined" => Mine(r, c)
        BY <1>4 DEF ChainStep, Mine, Revert, TxStates
    <3>2. tx'[q][d].nonce = tx[q][d].nonce
        BY <3>1, IncludedEffect
    <3>3. CASE q = r /\ d = c
      <4>1. Mine(r, c)
          BY <3>1, <3>3, IncludedEffect
      <4>2. AddressAt(tx[r][c].nonce) \in code'[c]
          BY <4>1 DEF Mine, Executable, TypeOK
      <4> QED
          BY <3>2, <3>3, <4>2
    <3>4. CASE ~ (q = r /\ d = c)
      <4>1. tx[q][d].state = "mined"
          BY <3>1, <3>4, IncludedEffect
      <4> QED
          BY <2>1, <3>2, <4>1 DEF DeployedInv, MinedIsDeployed
    <3> QED
        BY <3>3, <3>4
  <2> QED
      BY <2>2, <2>3 DEF DeployedInv
<1>5. CASE UNCHANGED vars
    BY <1>5 DEF vars, runVars, chainVars, DeployedInv, RecordedIsDeployed, MemIsDeployed,
                TargetIsDeployed, MinedIsDeployed
<1> QED
    BY <1>1, <1>2, <1>3, <1>4, <1>5 DEF Next, Terminated

\* No run, overlapping, failing or killed, leaves an address in the file that
\* holds no contract: saving everything on failure is safe.
THEOREM RecordedIsDeployedCorrect == Spec => []RecordedIsDeployed
<1>1. Init => DeployedInv
    BY ConstantsOK DEF Init, DeployedInv, TypeOK, RecordedIsDeployed, MemIsDeployed,
           TargetIsDeployed, MinedIsDeployed, Unknown, NoTx, MaybeAddr, Phases,
           TaskStates, TxStates, Address
<1>2. DeployedInv => RecordedIsDeployed
    BY DEF DeployedInv
<1> QED
    BY <1>1, <1>2, DeployedInductive, PTL DEF Spec

------------------------------------------------------------------------------
(* Runs that do not overlap keep every record and only advance it.  While a *)
(* run is processing nobody else writes the file, so its copy differs from  *)
(* the file only where it has deployed something later.                     *)

\* Address a would not take chain c's record back.
Later(c, a) == file[c] = None \/ a >= file[c]

OneAtATime ==
    \A q, r \in Runs : phase[q] = "processing" /\ phase[r] = "processing" => q = r

CodeBelow == \A c \in Chains : \A a \in code[c] : a <= AddressAt(nonce[c])

PendingAhead ==
    \A r \in Runs, c \in Chains : tx[r][c].state = "pending" => nonce[c] <= tx[r][c].nonce

IdleSentNothing ==
    \A r \in Runs, c \in Chains : phase[r] = "idle" => tx[r][c].state = "none"

MemAhead(r, c) ==
    mem[r][c] = file[c] \/ (mem[r][c] \in code[c] /\ Later(c, mem[r][c]))

TargetAhead(r, c) ==
    task[r][c] \in {"predicted", "checked", "repredicted", "deployed"}
    => target[r][c] \in Address /\ Later(c, target[r][c])

SentAhead(r, c) == tx[r][c].state # "none" => Later(c, AddressAt(tx[r][c].nonce))

\* Where the address of a transaction is while its task has reported no error.
Kept(r, c) ==
    tx[r][c].state # "none" /\ c \notin erred[r]
    => \/ task[r][c] = "sent"
       \/ task[r][c] = "deployed" /\ target[r][c] = AddressAt(tx[r][c].nonce)
       \/ /\ task[r][c] \in {"recorded", "returned"}
          /\ mem[r][c] = AddressAt(tx[r][c].nonce)

ProcessingInv ==
    \A r \in Runs, c \in Chains : phase[r] = "processing" =>
        MemAhead(r, c) /\ TargetAhead(r, c) /\ SentAhead(r, c) /\ Kept(r, c)

DoneKept ==
    \A r \in Runs, c \in Chains :
        phase[r] = "done" /\ tx[r][c].state # "none" /\ c \notin erred[r]
        => file[c] # None /\ file[c] >= AddressAt(tx[r][c].nonce)

OrderInv ==
    /\ OneAtATime /\ CodeBelow /\ PendingAhead /\ IdleSentNothing
    /\ ProcessingInv /\ DoneKept

LEMMA AddressMonotone ==
    ASSUME NEW m \in Nat, NEW n \in Nat, m <= n
    PROVE  AddressAt(m) <= AddressAt(n)
BY DEF AddressAt

\* The address of a transaction not yet included cannot take a record back.
LEMMA FutureIsLater ==
    ASSUME DeployedInv, OrderInv, NEW c \in Chains, NEW n \in Nat, nonce[c] <= n
    PROVE  Later(c, AddressAt(n))
<1>1. CASE file[c] = None
    BY <1>1 DEF Later
<1>2. CASE file[c] # None
  <2>1. file[c] \in code[c] /\ nonce[c] \in Nat /\ file[c] \in Nat
      BY <1>2 DEF DeployedInv, RecordedIsDeployed, TypeOK, MaybeAddr, Address
  <2>2. file[c] <= AddressAt(nonce[c])
      BY <2>1 DEF OrderInv, CodeBelow
  <2>3. AddressAt(nonce[c]) <= AddressAt(n)
      BY <2>1, AddressMonotone
  <2>4. AddressAt(nonce[c]) \in Nat /\ AddressAt(n) \in Nat
      BY <2>1 DEF AddressAt
  <2> QED
      BY <2>1, <2>2, <2>3, <2>4 DEF Later
<1> QED
    BY <1>1, <1>2

\* Starting: the copy in memory is the file and nothing was sent yet.
LEMMA StartOrder ==
    ASSUME ~ Overlap, DeployedInv, OrderInv, NEW r \in Runs, Start(r)
    PROVE  OrderInv'
<1>0. TypeOK
    BY DEF DeployedInv
<1>1. UNCHANGED <<file, target, erred, tx, nonce, code>>
    BY DEF Start, chainVars
<1>2. /\ phase[r] = "idle" /\ phase'[r] = "processing"
      /\ \A q \in Runs \ {r} : phase'[q] = phase[q] /\ phase'[q] # "processing"
    BY <1>0 DEF Start, TypeOK
<1>3. \A q \in Runs \ {r} : mem'[q] = mem[q] /\ task'[q] = task[q]
    BY <1>0 DEF Start, TypeOK
<1>4. mem'[r] = file /\ \A c \in Chains : task'[r][c] \in {"pending", "unselected"}
    BY <1>0 DEF Start, TypeOK
<1>5. OneAtATime'
    BY <1>2 DEF OneAtATime
<1>6. CodeBelow' /\ PendingAhead'
    BY <1>1 DEF OrderInv, CodeBelow, PendingAhead, AddressAt
<1>7. IdleSentNothing'
    BY <1>1, <1>2 DEF OrderInv, IdleSentNothing
<1>8. ProcessingInv'
  <2> SUFFICES ASSUME NEW q \in Runs, NEW c \in Chains, phase'[q] = "processing"
               PROVE  MemAhead(q, c)' /\ TargetAhead(q, c)' /\ SentAhead(q, c)' /\ Kept(q, c)'
      BY DEF ProcessingInv
  <2>1. q = r
      BY <1>2
  <2>2. tx'[r][c].state = "none"
      BY <1>1, <1>2 DEF OrderInv, IdleSentNothing
  <2> QED
      BY <1>1, <1>4, <2>1, <2>2 DEF MemAhead, TargetAhead, SentAhead, Kept
<1>9. DoneKept'
    BY <1>1, <1>2 DEF OrderInv, DoneKept, AddressAt
<1> QED
    BY <1>5, <1>6, <1>7, <1>8, <1>9 DEF OrderInv

\* What a finishing run saves is, chain by chain, what was there or something
\* later; it is the only run processing, so no other claim about the file rests
\* on a copy.
LEMMA ExitOrder ==
    ASSUME DeployedInv, OrderInv, NEW r \in Runs, Finish(r) \/ Crash(r)
    PROVE  /\ OrderInv'
           /\ \A c \in Chains : \/ file'[c] = file[c]
                                \/ file'[c] \in code[c] /\ Later(c, file'[c])
<1>0. TypeOK
    BY DEF DeployedInv
<1>1. UNCHANGED <<tx, nonce, code>> /\ phase[r] = "processing"
    BY DEF Finish, Crash, Exit, chainVars
<1>2. /\ phase'[r] \in {"done", "crashed"}
      /\ \A q \in Runs \ {r} : phase'[q] = phase[q] /\ phase[q] # "processing"
  <2>1. PICK to \in {"done", "crashed"} : phase' = [phase EXCEPT ![r] = to]
      BY DEF Finish, Crash, Exit
  <2> QED
      BY <1>0, <1>1, <2>1 DEF TypeOK, OrderInv, OneAtATime
<1>3. \A c \in Chains : file'[c] = file[c] \/ (file'[c] \in code[c] /\ Later(c, file'[c]))
  <2>1. CASE Finish(r)
      BY <1>1, <2>1 DEF Finish, OrderInv, ProcessingInv, MemAhead
  <2>2. CASE Crash(r)
      BY <2>2 DEF Crash
  <2> QED
      BY <2>1, <2>2
<1>4. OneAtATime' /\ ProcessingInv'
    BY <1>2 DEF OneAtATime, ProcessingInv
<1>5. CodeBelow' /\ PendingAhead'
    BY <1>1 DEF OrderInv, CodeBelow, PendingAhead, AddressAt
<1>6. IdleSentNothing'
    BY <1>1, <1>2 DEF OrderInv, IdleSentNothing
<1>7. DoneKept'
  <2> SUFFICES ASSUME NEW q \in Runs, NEW c \in Chains,
                      phase'[q] = "done", tx[q][c].state # "none", c \notin erred'[q]
               PROVE  file'[c] # None /\ file'[c] >= AddressAt(tx[q][c].nonce)
      BY <1>1 DEF DoneKept, AddressAt
  <2>0. AddressAt(tx[q][c].nonce) \in Nat
      BY <1>0 DEF TypeOK, AddressAt
  <2>1. CASE q = r
    <3>1. Finish(r) /\ c \notin erred[r]
      <4>1. phase'[r] = "done"
          BY <2>1
      <4>2. ~ Crash(r)
          BY <1>0, <4>1 DEF Crash, Exit, TypeOK
      <4> QED
          BY <2>1, <4>2 DEF Finish
    <3>2. task[r][c] \in Ended /\ file'[c] = mem[r][c]
        BY <3>1 DEF Finish
    <3>3. mem[r][c] = AddressAt(tx[r][c].nonce)
        BY <1>1, <2>1, <3>1, <3>2 DEF Ended, OrderInv, ProcessingInv, Kept
    <3> QED
        BY <2>0, <2>1, <3>2, <3>3, ConstantsOK
  <2>2. CASE q # r
    <3>1. phase[q] = "done" /\ c \notin erred[q]
      <4>1. phase'[q] = phase[q]
          BY <1>2, <2>2
      <4>2. erred'[q] = erred[q]
          BY <1>0, <2>2 DEF Finish, Crash, TypeOK
      <4> QED
          BY <4>1, <4>2
    <3>2. file[c] # None /\ file[c] >= AddressAt(tx[q][c].nonce)
        BY <3>1 DEF OrderInv, DoneKept
    <3>3. file[c] \in Nat /\ code[c] \subseteq Nat
        BY <1>0, <3>2 DEF TypeOK, MaybeAddr, Address
    <3>4. file'[c] = file[c] \/ (file'[c] \in Nat /\ file'[c] >= file[c])
        BY <1>3, <3>2, <3>3 DEF Later
    <3> QED
        BY <2>0, <3>2, <3>3, <3>4, ConstantsOK
  <2> QED
      BY <2>1, <2>2
<1> QED
    BY <1>3, <1>4, <1>5, <1>6, <1>7 DEF OrderInv

\* The four claims about the task that moves, one action at a time.
LEMMA TaskKeeps ==
    ASSUME DeployedInv, OrderInv, NEW r \in Runs, NEW c \in Chains,
           TaskStep(r, c) \/ Throw(r, c)
    PROVE  /\ MemAhead(r, c)' /\ TargetAhead(r, c)' /\ SentAhead(r, c)' /\ Kept(r, c)'
           /\ tx'[r][c].state = "pending" => nonce[c] <= tx'[r][c].nonce
<1>0. TypeOK
    BY DEF DeployedInv
<1>1. /\ MemAhead(r, c) /\ TargetAhead(r, c) /\ SentAhead(r, c) /\ Kept(r, c)
      /\ tx[r][c].state = "pending" => nonce[c] <= tx[r][c].nonce
  <2>1. phase[r] = "processing"
      BY DEF TaskStep, Throw, SkipExisting, Predict, AlreadyDeployed, Check,
             Decline, Proceed, ReuseExisting, SendTx, Confirm, TxRejected,
             Record, Return, Advance
  <2> QED
      BY <2>1 DEF OrderInv, ProcessingInv, PendingAhead
<1>2. nonce[c] \in Nat /\ tx[r][c] \in [nonce : Nat, state : TxStates]
    BY <1>0 DEF TypeOK
<1>3. c \notin erred'[r] => c \notin erred[r]
  <2>1. erred \in [Runs -> SUBSET Chains]
      BY <1>0 DEF TypeOK
  <2>2. UNCHANGED erred \/ Report(r, c)
      BY DEF TaskStep, Throw, SkipExisting, Predict, AlreadyDeployed, Check,
             Decline, Proceed, ReuseExisting, SendTx, Confirm, TxRejected,
             Record, Return
  <2> QED
      BY <2>1, <2>2 DEF Report
<1>4. ASSUME Report(r, c) PROVE c \in erred'[r]
    BY <1>0, <1>4 DEF Report, TypeOK
<1>5. UNCHANGED <<file, nonce, code>>
    BY DEF TaskStep, Throw, SkipExisting, Predict, AlreadyDeployed, Check,
           Decline, Proceed, ReuseExisting, SendTx, Confirm, TxRejected,
           Record, Return, Advance, chainVars
<1>a. CASE Predict(r, c) \/ Proceed(r, c)
  <2>1. /\ task[r][c] \in {"pending", "checked"}
        /\ target'[r][c] = AddressAt(nonce[c])
        /\ UNCHANGED <<mem, tx>>
      BY <1>0, <1>a DEF Predict, Proceed, Advance, TypeOK
  <2>2. AddressAt(nonce[c]) \in Address /\ Later(c, AddressAt(nonce[c]))
      BY <1>2, AddressAtType, FutureIsLater
  <2> QED
      BY <1>1, <1>3, <1>5, <2>1, <2>2
         DEF MemAhead, TargetAhead, SentAhead, Kept, Later, AddressAt
<1>b. CASE SkipExisting(r, c) \/ AlreadyDeployed(r, c) \/ Check(r, c) \/ Decline(r, c)
  <2>1. /\ task[r][c] \in {"pending", "predicted", "checked"}
        /\ task'[r][c] = "checked" => task[r][c] = "predicted"
        /\ task'[r][c] \in {"returned", "checked", "declined"}
        /\ UNCHANGED <<mem, target, tx>>
      BY <1>0, <1>b DEF SkipExisting, AlreadyDeployed, Check, Decline, Advance, TypeOK
  <2> QED
      BY <1>1, <1>3, <1>5, <2>1
         DEF MemAhead, TargetAhead, SentAhead, Kept, Later, AddressAt
<1>c. CASE ReuseExisting(r, c)
  <2>1. /\ task[r][c] = "repredicted"
        /\ c \in erred'[r]
        /\ UNCHANGED <<mem, target, tx>>
      BY <1>c, <1>4 DEF ReuseExisting, Advance
  <2> QED
      BY <1>1, <1>5, <2>1 DEF MemAhead, TargetAhead, SentAhead, Kept, Later, AddressAt
<1>d. CASE SendTx(r, c)
  <2>1. PICK n \in NextNonces(c) :
           tx' = [tx EXCEPT ![r][c] = [nonce |-> n, state |-> "pending"]]
      BY <1>d DEF SendTx
  <2>2. n \in Nat /\ nonce[c] <= n
    <3>1. CASE n = nonce[c]
        BY <1>2, <3>1
    <3>2. CASE \E q \in Runs : tx[q][c].state = "pending" /\ n = tx[q][c].nonce + 1
      <4> PICK q \in Runs : tx[q][c].state = "pending" /\ n = tx[q][c].nonce + 1
          BY <3>2
      <4>1. tx[q][c].nonce \in Nat /\ nonce[c] <= tx[q][c].nonce
          BY <1>0 DEF OrderInv, PendingAhead, TypeOK
      <4> QED
          BY <1>2, <4>1
    <3> QED
        BY <3>1, <3>2 DEF NextNonces
  <2>3. /\ tx'[r][c].nonce = n
        /\ task'[r][c] = "sent"
        /\ UNCHANGED <<mem, target>>
      BY <1>0, <1>d, <2>1 DEF SendTx, Advance, TypeOK
  <2>4. Later(c, AddressAt(n))
      BY <2>2, FutureIsLater
  <2> QED
      BY <1>1, <1>5, <2>2, <2>3, <2>4
         DEF MemAhead, TargetAhead, SentAhead, Kept, Later, AddressAt
<1>e. CASE Confirm(r, c)
  <2>1. /\ tx[r][c].state = "mined"
        /\ task[r][c] = "sent" /\ task'[r][c] = "deployed"
        /\ target'[r][c] = AddressAt(tx[r][c].nonce)
        /\ UNCHANGED <<mem, tx>>
      BY <1>0, <1>e DEF Confirm, Advance, TypeOK
  <2>2. AddressAt(tx[r][c].nonce) \in Address /\ Later(c, AddressAt(tx[r][c].nonce))
      BY <1>1, <1>2, <2>1, AddressAtType DEF SentAhead
  <2> QED
      BY <1>1, <1>5, <2>1, <2>2
         DEF MemAhead, TargetAhead, SentAhead, Kept, Later, AddressAt
<1>f. CASE Record(r, c)
  <2>1. /\ task[r][c] = "deployed" /\ task'[r][c] = "recorded"
        /\ mem'[r][c] = target[r][c]
        /\ UNCHANGED <<target, erred, tx>>
      BY <1>0, <1>f DEF Record, Advance, TypeOK
  <2>2. target[r][c] \in code[c]
      BY <2>1 DEF DeployedInv, TargetIsDeployed
  <2> QED
      BY <1>1, <1>5, <2>1, <2>2
         DEF MemAhead, TargetAhead, SentAhead, Kept, Later, AddressAt
<1>g. CASE TxRejected(r, c) \/ Throw(r, c)
  <2>1. task'[r][c] = "returned" /\ c \in erred'[r] /\ UNCHANGED <<mem, target, tx>>
      BY <1>0, <1>g, <1>4 DEF TxRejected, Throw, Advance, TypeOK
  <2> QED
      BY <1>1, <1>5, <2>1 DEF MemAhead, TargetAhead, SentAhead, Kept, Later, AddressAt
<1>h. CASE Return(r, c)
  <2>1. /\ task[r][c] = "recorded" /\ task'[r][c] = "returned"
        /\ UNCHANGED <<mem, target, tx>>
      BY <1>0, <1>h DEF Return, Advance, TypeOK
  <2> QED
      BY <1>1, <1>3, <1>5, <2>1
         DEF MemAhead, TargetAhead, SentAhead, Kept, Later, AddressAt
<1> QED
    BY <1>a, <1>b, <1>c, <1>d, <1>e, <1>f, <1>g, <1>h DEF TaskStep

LEMMA TaskOrder ==
    ASSUME DeployedInv, OrderInv, NEW r \in Runs, NEW c \in Chains,
           TaskStep(r, c) \/ Throw(r, c)
    PROVE  OrderInv'
<1>0. TypeOK
    BY DEF DeployedInv
<1>1. UNCHANGED <<file, phase, nonce, code>> /\ phase[r] = "processing"
    BY DEF TaskStep, Throw, SkipExisting, Predict, AlreadyDeployed, Check,
           Decline, Proceed, ReuseExisting, SendTx, Confirm, TxRejected,
           Record, Return, Advance, chainVars
<1>2. OneAtATime' /\ CodeBelow'
    BY <1>1 DEF OrderInv, OneAtATime, CodeBelow, AddressAt
<1>3. PendingAhead'
  <2> SUFFICES ASSUME NEW q \in Runs, NEW d \in Chains, tx'[q][d].state = "pending"
               PROVE  nonce[d] <= tx'[q][d].nonce
      BY <1>1 DEF PendingAhead
  <2>1. CASE <<q, d>> = <<r, c>>
      BY <2>1, TaskKeeps
  <2>2. CASE <<q, d>> # <<r, c>>
      BY <1>0, <2>2, TaskFrame DEF OrderInv, PendingAhead
  <2> QED
      BY <2>1, <2>2
<1>4. IdleSentNothing'
  <2> SUFFICES ASSUME NEW q \in Runs, NEW d \in Chains, phase[q] = "idle"
               PROVE  tx'[q][d].state = "none"
      BY <1>1 DEF IdleSentNothing
  <2>1. <<q, d>> # <<r, c>>
      BY <1>1
  <2> QED
      BY <1>0, <2>1, TaskFrame DEF OrderInv, IdleSentNothing
<1>5. ProcessingInv'
  <2> SUFFICES ASSUME NEW q \in Runs, NEW d \in Chains, phase[q] = "processing"
               PROVE  MemAhead(q, d)' /\ TargetAhead(q, d)' /\ SentAhead(q, d)' /\ Kept(q, d)'
      BY <1>1 DEF ProcessingInv
  <2>1. CASE <<q, d>> = <<r, c>>
      BY <2>1, TaskKeeps
  <2>2. CASE <<q, d>> # <<r, c>>
    <3>1. MemAhead(q, d) /\ TargetAhead(q, d) /\ SentAhead(q, d) /\ Kept(q, d)
        BY DEF OrderInv, ProcessingInv
    <3>2. /\ task'[q][d] = task[q][d]
          /\ target'[q][d] = target[q][d]
          /\ mem'[q][d] = mem[q][d]
          /\ tx'[q][d] = tx[q][d]
          /\ d \in erred'[q] <=> d \in erred[q]
        BY <1>0, <2>2, TaskFrame
    <3> QED
        BY <1>1, <3>1, <3>2 DEF MemAhead, TargetAhead, SentAhead, Kept, Later, AddressAt
  <2> QED
      BY <2>1, <2>2
<1>6. DoneKept'
  <2> SUFFICES ASSUME NEW q \in Runs, NEW d \in Chains,
                      phase[q] = "done", tx'[q][d].state # "none", d \notin erred'[q]
               PROVE  file[d] # None /\ file[d] >= AddressAt(tx'[q][d].nonce)
      BY <1>1 DEF DoneKept, AddressAt
  <2>1. <<q, d>> # <<r, c>>
      BY <1>1
  <2>2. tx'[q][d] = tx[q][d] /\ (d \in erred'[q] <=> d \in erred[q])
      BY <1>0, <2>1, TaskFrame
  <2> QED
      BY <2>2 DEF OrderInv, DoneKept
<1> QED
    BY <1>2, <1>3, <1>4, <1>5, <1>6 DEF OrderInv

LEMMA ChainOrder ==
    ASSUME DeployedInv, OrderInv, NEW r \in Runs, NEW c \in Chains, ChainStep(r, c)
    PROVE  OrderInv'
<1>0. TypeOK
    BY DEF DeployedInv
<1>1. /\ UNCHANGED <<file, phase, mem, task, target, erred>>
      /\ Executable(r, c)
      /\ nonce' = [nonce EXCEPT ![c] = @ + 1]
      /\ nonce \in [Chains -> Nat]
    BY <1>0 DEF ChainStep, Mine, Revert, runVars, TypeOK
<1>2. PICK outcome \in {"mined", "reverted"} : tx' = Included(r, c, outcome)
    BY DEF ChainStep, Mine, Revert
<1>3. ASSUME NEW q \in Runs, NEW d \in Chains
      PROVE  /\ tx'[q][d].nonce = tx[q][d].nonce
             /\ tx'[q][d].state = "none" <=> tx[q][d].state = "none"
             /\ tx'[q][d].state = "pending" =>
                   tx[q][d].state = "pending" /\ (d = c => tx[q][d].nonce # nonce[c])
  <2>1. outcome \in TxStates
      BY DEF TxStates
  <2>2. tx[r][c].state = "pending" /\ tx[r][c].nonce = nonce[c]
      BY <1>1 DEF Executable
  <2>3. /\ tx'[q][d].nonce = tx[q][d].nonce
        /\ d # c => tx'[q][d].state = tx[q][d].state
        /\ q = r => tx'[q][c].state = outcome
        /\ q # r => IF /\ tx[q][c].state = "pending"
                       /\ tx[q][c].nonce = tx[r][c].nonce
                    THEN tx'[q][c].state = "dropped"
                    ELSE tx'[q][c].state = tx[q][c].state
      BY <1>0, <1>2, <2>1, IncludedEffect
  <2>4. CASE d # c
      BY <2>3, <2>4
  <2>5. CASE d = c
      BY <2>2, <2>3, <2>5
  <2> QED
      BY <2>4, <2>5
<1>4. OneAtATime'
    BY <1>1 DEF OrderInv, OneAtATime
<1>5. CodeBelow'
  <2> SUFFICES ASSUME NEW d \in Chains, NEW a \in code'[d]
               PROVE  a <= AddressAt(nonce'[d])
      BY DEF CodeBelow, AddressAt
  <2>1. nonce[d] \in Nat /\ nonce'[d] \in Nat /\ nonce[d] <= nonce'[d]
      BY <1>1
  <2>2. AddressAt(nonce[d]) <= AddressAt(nonce'[d])
      BY <2>1, AddressMonotone
  <2>3. a \in code[d] \/ a = AddressAt(nonce[d])
    <3>1. code \in [Chains -> SUBSET Address]
        BY <1>0 DEF TypeOK
    <3>2. CASE Mine(r, c)
      <4>1. code' = [code EXCEPT ![c] = @ \cup {AddressAt(nonce[c])}]
          BY <3>2 DEF Mine
      <4>2. CASE d = c
          BY <3>1, <4>1, <4>2
      <4>3. CASE d # c
          BY <3>1, <4>1, <4>3
      <4> QED
          BY <4>2, <4>3
    <3>3. CASE Revert(r, c)
        BY <3>3 DEF Revert
    <3> QED
        BY <3>2, <3>3 DEF ChainStep
  <2>4. a \in Nat /\ AddressAt(nonce[d]) \in Nat /\ AddressAt(nonce'[d]) \in Nat
    <3>1. code[d] \subseteq Nat
        BY <1>0 DEF TypeOK, Address
    <3> QED
        BY <2>1, <2>3, <3>1 DEF AddressAt
  <2>5. a <= AddressAt(nonce[d])
      BY <2>3, <2>4 DEF OrderInv, CodeBelow
  <2> QED
      BY <2>2, <2>4, <2>5
<1>6. PendingAhead'
  <2> SUFFICES ASSUME NEW q \in Runs, NEW d \in Chains, tx'[q][d].state = "pending"
               PROVE  nonce'[d] <= tx'[q][d].nonce
      BY DEF PendingAhead
  <2>1. tx[q][d].nonce \in Nat /\ nonce[d] <= tx[q][d].nonce
    <3>1. tx[q][d] \in [nonce : Nat, state : TxStates]
        BY <1>0 DEF TypeOK
    <3>2. tx[q][d].state = "pending"
        BY <1>3
    <3> QED
        BY <3>1, <3>2 DEF OrderInv, PendingAhead
  <2>2. tx'[q][d].nonce = tx[q][d].nonce /\ (d = c => tx[q][d].nonce # nonce[c])
      BY <1>3
  <2>3. CASE d = c
      BY <1>1, <2>1, <2>2, <2>3
  <2>4. CASE d # c
      BY <1>1, <2>1, <2>2, <2>4
  <2> QED
      BY <2>3, <2>4
<1>7. IdleSentNothing'
    BY <1>1, <1>3 DEF OrderInv, IdleSentNothing
<1>8. \A d \in Chains : code[d] \subseteq code'[d]
  <2>1. code \in [Chains -> SUBSET Address]
      BY <1>0 DEF TypeOK
  <2> QED
      BY <2>1 DEF ChainStep, Mine, Revert
<1>9. ProcessingInv'
  <2> SUFFICES ASSUME NEW q \in Runs, NEW d \in Chains, phase[q] = "processing"
               PROVE  MemAhead(q, d)' /\ TargetAhead(q, d)' /\ SentAhead(q, d)' /\ Kept(q, d)'
      BY <1>1 DEF ProcessingInv
  <2>1. MemAhead(q, d) /\ TargetAhead(q, d) /\ SentAhead(q, d) /\ Kept(q, d)
      BY DEF OrderInv, ProcessingInv
  <2> QED
      BY <1>1, <1>3, <1>8, <2>1 DEF MemAhead, TargetAhead, SentAhead, Kept, Later, AddressAt
<1>10. DoneKept'
    BY <1>1, <1>3 DEF OrderInv, DoneKept, AddressAt
<1> QED
    BY <1>4, <1>5, <1>6, <1>7, <1>9, <1>10 DEF OrderInv

LEMMA OrderInductive ==
    ASSUME ~ Overlap
    PROVE  DeployedInv /\ OrderInv /\ [Next]_vars => OrderInv'
<1> SUFFICES ASSUME DeployedInv, OrderInv, [Next]_vars PROVE OrderInv'
    OBVIOUS
<1>1. CASE UNCHANGED vars
    BY <1>1 DEF vars, runVars, chainVars, OrderInv, OneAtATime, CodeBelow, PendingAhead,
                IdleSentNothing, ProcessingInv, DoneKept, MemAhead, TargetAhead,
                SentAhead, Kept, Later, AddressAt
<1> QED
    BY <1>1, StartOrder, ExitOrder, TaskOrder, ChainOrder DEF Next, Terminated

LEMMA OrderInitially == Init => DeployedInv /\ OrderInv
<1> SUFFICES ASSUME Init PROVE DeployedInv /\ OrderInv
    OBVIOUS
<1>1. DeployedInv
    BY ConstantsOK DEF Init, DeployedInv, TypeOK, RecordedIsDeployed, MemIsDeployed,
           TargetIsDeployed, MinedIsDeployed, Unknown, NoTx, MaybeAddr, Phases,
           TaskStates, TxStates, Address
<1>2. OrderInv
    BY DEF Init, OrderInv, OneAtATime, CodeBelow, PendingAhead, IdleSentNothing,
           ProcessingInv, DoneKept, NoTx
<1> QED
    BY <1>1, <1>2

\* A run that reports a chain as succeeded and whose deployment there was mined
\* leaves that deployment or a later one in the file, for good, when runs do
\* not overlap.
THEOREM SuccessIsRecordedCorrect ==
    ASSUME ~ Overlap
    PROVE  Spec => []SuccessIsRecorded
<1>1. DeployedInv /\ OrderInv => SuccessIsRecorded
    BY DEF OrderInv, DoneKept, SuccessIsRecorded
<1> QED
    BY <1>1, OrderInitially, DeployedInductive, OrderInductive, PTL DEF Spec

\* Runs that do not overlap implement the registry of deployed contracts: only
\* a save changes the file, and it loses no entry and goes back to none.
THEOREM RegistryCorrect ==
    ASSUME ~ Overlap
    PROVE  Spec => ImplementsRegistry
<1>1. Init => Registry!Init
    BY DEF Init, Registry!Init, Unknown
<1>2. DeployedInv /\ OrderInv /\ [Next]_vars => [Registry!Next]_(Registry!vars)
  <2> SUFFICES ASSUME DeployedInv, OrderInv, [Next]_vars
               PROVE  [Registry!Next]_(Registry!vars)
      OBVIOUS
  <2>0. TypeOK
      BY DEF DeployedInv
  <2>1. ASSUME NEW r \in Runs, Finish(r) PROVE Registry!Publish
    <3>1. UNCHANGED code /\ file' = mem[r]
        BY <2>1 DEF Finish, Exit, chainVars
    <3>2. DOMAIN file' = Chains
        BY <2>0, <3>1 DEF TypeOK
    <3>3. ASSUME NEW c \in Chains PROVE Registry!Advances(c, file[c], file'[c])
      <4>1. file'[c] = file[c] \/ (file'[c] \in code[c] /\ Later(c, file'[c]))
          BY <2>1, ExitOrder
      <4>2. code[c] \subseteq Nat /\ file[c] \in Nat \cup {None}
          BY <2>0 DEF TypeOK, MaybeAddr, Address
      <4> QED
          BY <4>1, <4>2 DEF Registry!Advances, Later
    <3> QED
        BY <3>1, <3>2, <3>3 DEF Registry!Publish
  <2>2. ASSUME NEW r \in Runs, NEW c \in Chains, Mine(r, c) PROVE Registry!Deploy(c)
    <3>1. code' = [code EXCEPT ![c] = @ \cup {AddressAt(nonce[c])}] /\ UNCHANGED file
        BY <2>2 DEF Mine
    <3>2. AddressAt(nonce[c]) \in code'[c]
        BY <2>0, <3>1 DEF TypeOK
    <3> QED
        BY <3>1, <3>2 DEF Registry!Deploy
  <2>3. ASSUME NEW r \in Runs, Start(r) \/ Crash(r) PROVE UNCHANGED <<file, code>>
      BY <2>3 DEF Start, Crash, Exit, chainVars
  <2>4. ASSUME NEW r \in Runs, NEW c \in Chains, TaskStep(r, c) \/ Throw(r, c)
        PROVE  UNCHANGED <<file, code>>
      BY <2>4 DEF TaskStep, Throw, SkipExisting, Predict, AlreadyDeployed, Check,
             Decline, Proceed, ReuseExisting, SendTx, Confirm, TxRejected,
             Record, Return, Advance, chainVars
  <2>5. ASSUME NEW r \in Runs, NEW c \in Chains, Revert(r, c) PROVE UNCHANGED <<file, code>>
      BY <2>5 DEF Revert
  <2>6. CASE UNCHANGED vars
      BY <2>6 DEF vars, chainVars, Registry!vars
  <2> QED
      BY <2>1, <2>2, <2>3, <2>4, <2>5, <2>6
         DEF Next, Terminated, ChainStep, Registry!Next, Registry!vars
<1> QED
    BY <1>1, <1>2, OrderInitially, DeployedInductive, OrderInductive, PTL
       DEF Spec, ImplementsRegistry, Registry!Spec
==============================================================================
