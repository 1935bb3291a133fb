---------------------------- MODULE MainProcessor ----------------------------
(***************************************************************************)
(* Invocations of an EVM command line script over the shared chain         *)
(* configuration file: mainProcessor and asyncChainTask of evm/utils.js    *)
(* with processCommand of evm/deploy-contract.js as the command.           *)
(*                                                                         *)
(* A run loads the whole file, works on the selected chains one after the  *)
(* other or all at once, each task writing what it deployed into the run's *)
(* copy in memory, and saves the whole file once at the end.  A task sends *)
(* at most one deployment transaction; the chain decides what becomes of   *)
(* it, whether or not the run that sent it is still alive.                 *)
(*                                                                         *)
(* One contract name is deployed by all runs, from one wallet.             *)
(***************************************************************************)
EXTENDS Integers

CONSTANTS
    Runs,           \* the invocations of the script, each used once
    Chains,         \* the EVM chains of the configuration
    None,           \* no address
    Options,        \* the combinations of options a run may be started with
    Deterministic,  \* TRUE: create2 or create3; FALSE: create
    Overlap         \* may a run start while another one is in progress?

ASSUME ConstantsOK ==
    /\ None \notin Nat
    /\ Deterministic \in BOOLEAN
    /\ Overlap \in BOOLEAN
    /\ Options \subseteq
          [parallel : BOOLEAN, skipExisting : BOOLEAN, reuseProxy : BOOLEAN]

VARIABLES
    file,    \* the address saved for each chain in info/<env>.json
    phase,   \* how far a run is
    opts,    \* the options a run was started with
    mem,     \* a run's config.chains, loaded from the file
    task,    \* how far a run's processCommand is on a chain
    target,  \* the address that task predicted, then the one it deployed
    erred,   \* the chains whose loggerError is not empty, per run
    tx,      \* the deployment transaction a task has sent
    nonce,   \* the wallet's next nonce on each chain
    code     \* the addresses holding a contract on each chain

runVars   == <<phase, opts, mem, task, target, erred>>
chainVars == <<nonce, code>>
vars == <<file, runVars, tx, chainVars>>

Phases     == {"idle", "processing", "done", "crashed"}
TaskStates == {"unselected", "pending", "predicted", "checked", "repredicted",
               "sent", "deployed", "recorded", "returned", "declined"}
Ended      == {"unselected", "returned", "declined"}
TxStates   == {"none", "pending", "mined", "reverted", "dropped"}

Address    == Nat
MaybeAddr  == Address \cup {None}

\* The contract a transaction with nonce n creates: one that depends on the
\* nonce with create, one and the same with create2 and create3.
AddressAt(n) == IF Deterministic THEN 0 ELSE n

NoOptions == [parallel |-> FALSE, skipExisting |-> FALSE, reuseProxy |-> FALSE]
Unknown == [c \in Chains |-> None]
NoTx == [nonce |-> 0, state |-> "none"]

TypeOK ==
    /\ file   \in [Chains -> MaybeAddr]
    /\ phase  \in [Runs -> Phases]
    /\ opts   \in [Runs -> Options \cup {NoOptions}]
    /\ mem    \in [Runs -> [Chains -> MaybeAddr]]
    /\ task   \in [Runs -> [Chains -> TaskStates]]
    /\ target \in [Runs -> [Chains -> MaybeAddr]]
    /\ erred  \in [Runs -> SUBSET Chains]
    /\ tx     \in [Runs -> [Chains -> [nonce : Nat, state : TxStates]]]
    /\ nonce  \in [Chains -> Nat]
    /\ code   \in [Chains -> SUBSET Address]

Init ==
    /\ file   = Unknown
    /\ phase  = [r \in Runs |-> "idle"]
    /\ opts   = [r \in Runs |-> NoOptions]
    /\ mem    = [r \in Runs |-> Unknown]
    /\ task   = [r \in Runs |-> [c \in Chains |-> "unselected"]]
    /\ target = [r \in Runs |-> Unknown]
    /\ erred  = [r \in Runs |-> {}]
    /\ tx     = [r \in Runs |-> [c \in Chains |-> NoTx]]
    /\ nonce  = [c \in Chains |-> 0]
    /\ code   = [c \in Chains |-> {}]

------------------------------------------------------------------------------
(* mainProcessor *)

\* loadConfig, getChains, and one task per selected chain.
Start(r) ==
    /\ phase[r] = "idle"
    /\ Overlap \/ \A q \in Runs : phase[q] # "processing"
    /\ phase' = [phase EXCEPT ![r] = "processing"]
    /\ mem' = [mem EXCEPT ![r] = file]
    /\ \E o \in Options : opts' = [opts EXCEPT ![r] = o]
    /\ \E S \in SUBSET Chains \ {{}} :
          task' = [task EXCEPT ![r] =
                     [c \in Chains |-> IF c \in S THEN "pending" ELSE "unselected"]]
    /\ UNCHANGED <<file, target, erred, tx, chainVars>>

\* Mutant: a declined chain holds up the loop.
TurnAfterReturned(r, c) ==
    \/ opts[r].parallel
    \/ \A d \in Chains \ {c} : task[r][d] \in {"unselected", "returned", "pending"}

\* The sequential loop awaits a chain's task before it creates the next one;
\* with --parallel all tasks exist at once.
Turn(r, c) ==
    \/ opts[r].parallel
    \/ \A d \in Chains \ {c} : task[r][d] \in Ended \cup {"pending"}

\* Task c of run r moves from one state to another; the run and the other
\* tasks stay where they are.
Advance(r, c, from, to) ==
    /\ phase[r] = "processing"
    /\ task[r][c] = from
    /\ task' = [task EXCEPT ![r][c] = to]
    /\ UNCHANGED <<file, phase, opts, chainVars>>

\* Mutants: the error is filed under the wrong name, or swallowed.
ReportRun(r, c) == erred' = [erred EXCEPT ![r] = @ \cup {r}]
ReportNothing(r, c) == UNCHANGED erred

Report(r, c) == erred' = [erred EXCEPT ![r] = @ \cup {c}]

\* The process exits and its memory is gone.
Exit(r, to) ==
    /\ phase[r] = "processing"
    /\ phase' = [phase EXCEPT ![r] = to]
    /\ opts' = [opts EXCEPT ![r] = NoOptions]
    /\ mem' = [mem EXCEPT ![r] = Unknown]
    /\ target' = [target EXCEPT ![r] = Unknown]
    /\ UNCHANGED <<tx, chainVars>>

\* Mutant: only the chains the run worked on are saved.
FinishSelected(r) ==
    /\ \A c \in Chains : task[r][c] \in Ended
    /\ Exit(r, "done")
    /\ file' = [c \in Chains |-> IF task[r][c] = "unselected" THEN None ELSE mem[r][c]]
    /\ UNCHANGED <<task, erred>>

\* Everything awaited, or Promise.allSettled: failed chains are reported, and
\* the whole configuration is saved whatever the outcome.
Finish(r) ==
    /\ \A c \in Chains : task[r][c] \in Ended
    /\ Exit(r, "done")
    /\ file' = mem[r]
    /\ UNCHANGED <<task, erred>>

\* The process dies; what it sent to the chains lives on.
Crash(r) ==
    /\ Exit(r, "crashed")
    /\ task' = [task EXCEPT ![r] = [c \in Chains |-> "unselected"]]
    /\ erred' = [erred EXCEPT ![r] = {}]
    /\ UNCHANGED file

------------------------------------------------------------------------------
(* processCommand and deployContract: every step ends at an await, where the *)
(* other tasks, other runs and the chain may move.                           *)

SkipExisting(r, c) ==
    /\ Turn(r, c)
    /\ opts[r].skipExisting /\ mem[r][c] # None
    /\ Advance(r, c, "pending", "returned")
    /\ UNCHANGED <<mem, target, erred, tx>>

\* printWalletInfo logs a zero balance as an error and goes on.
Predict(r, c) ==
    /\ Turn(r, c)
    /\ ~ (opts[r].skipExisting /\ mem[r][c] # None)
    /\ Advance(r, c, "pending", "predicted")
    /\ target' = [target EXCEPT ![r][c] = AddressAt(nonce[c])]
    /\ UNCHANGED erred \/ Report(r, c)
    /\ UNCHANGED <<mem, tx>>

\* A contract at the predicted address ends the task without an error, and
\* without a record.
AlreadyDeployed(r, c) ==
    /\ target[r][c] \in code[c] /\ ~ opts[r].reuseProxy
    /\ Advance(r, c, "predicted", "returned")
    /\ UNCHANGED <<mem, target, erred, tx>>

Check(r, c) ==
    /\ target[r][c] \notin code[c] \/ opts[r].reuseProxy
    /\ Advance(r, c, "predicted", "checked")
    /\ UNCHANGED <<mem, target, erred, tx>>

\* --predictOnly, or the prompt answered with anything but y.
Decline(r, c) ==
    /\ Advance(r, c, "checked", "declined")
    /\ UNCHANGED <<mem, target, erred, tx>>

\* deployContract predicts again: the nonce may have moved.
Proceed(r, c) ==
    /\ Advance(r, c, "checked", "repredicted")
    /\ target' = [target EXCEPT ![r][c] = AddressAt(nonce[c])]
    /\ UNCHANGED <<mem, erred, tx>>

\* deployContract logs an error and hands back the contract it found.
ReuseExisting(r, c) ==
    /\ target[r][c] \in code[c]
    /\ Advance(r, c, "repredicted", "deployed")
    /\ Report(r, c)
    /\ UNCHANGED <<mem, target, tx>>

\* The nonces the node may answer for the wallet: the confirmed one, or one
\* after a transaction it still holds.
NextNonces(c) ==
    {nonce[c]} \cup
    {tx[q][c].nonce + 1 : q \in {p \in Runs : tx[p][c].state = "pending"}}

SendTx(r, c) ==
    /\ target[r][c] \notin code[c]
    /\ Advance(r, c, "repredicted", "sent")
    /\ \E n \in NextNonces(c) :
          tx' = [tx EXCEPT ![r][c] = [nonce |-> n, state |-> "pending"]]
    /\ UNCHANGED <<mem, target, erred>>

\* Mutant: the receipt is not awaited.
ConfirmUnmined(r, c) ==
    /\ Advance(r, c, "sent", "deployed")
    /\ target' = [target EXCEPT ![r][c] = AddressAt(tx[r][c].nonce)]
    /\ UNCHANGED <<mem, erred, tx>>

\* The receipt arrives; the contract is where the transaction put it.  A failed
\* source verification is logged as an error and nothing else.
Confirm(r, c) ==
    /\ tx[r][c].state = "mined"
    /\ Advance(r, c, "sent", "deployed")
    /\ target' = [target EXCEPT ![r][c] = AddressAt(tx[r][c].nonce)]
    /\ UNCHANGED erred \/ Report(r, c)
    /\ UNCHANGED <<mem, tx>>

TxRejected(r, c) ==
    /\ tx[r][c].state \in {"reverted", "dropped"}
    /\ Advance(r, c, "sent", "returned")
    /\ Report(r, c)
    /\ UNCHANGED <<mem, target, tx>>

\* After getBytecodeHash the address goes into the run's configuration.
Record(r, c) ==
    /\ Advance(r, c, "deployed", "recorded")
    /\ mem' = [mem EXCEPT ![r][c] = target[r][c]]
    /\ UNCHANGED <<target, erred, tx>>

\* checkContract logs every mismatch as an error.
Return(r, c) ==
    /\ Advance(r, c, "recorded", "returned")
    /\ UNCHANGED erred \/ Report(r, c)
    /\ UNCHANGED <<mem, target, tx>>

\* Any awaited call may reject; asyncChainTask logs it and ends the task.
Throw(r, c) ==
    /\ \E from \in TaskStates \ (Ended \cup {"pending"}) :
          Advance(r, c, from, "returned")
    /\ Report(r, c)
    /\ UNCHANGED <<mem, target, tx>>

------------------------------------------------------------------------------
(* The chain (external): one transaction per nonce, in nonce order. *)

\* What becomes of the transactions of chain c when run r's one is included
\* with the given outcome: one waiting with the same nonce never will be.
Included(r, c, outcome) ==
    [q \in Runs |->
       [tx[q] EXCEPT ![c].state =
          IF q = r THEN outcome
          ELSE IF @ = "pending" /\ tx[q][c].nonce = tx[r][c].nonce THEN "dropped"
          ELSE @]]

Executable(r, c) == tx[r][c].state = "pending" /\ tx[r][c].nonce = nonce[c]

Mine(r, c) ==
    /\ Executable(r, c)
    /\ AddressAt(nonce[c]) \notin code[c]
    /\ tx' = Included(r, c, "mined")
    /\ code' = [code EXCEPT ![c] = @ \cup {AddressAt(nonce[c])}]
    /\ nonce' = [nonce EXCEPT ![c] = @ + 1]
    /\ UNCHANGED <<file, runVars>>

\* The constructor or the deployer contract reverts; the latter always does
\* when its target address is taken.
Revert(r, c) ==
    /\ Executable(r, c)
    /\ tx' = Included(r, c, "reverted")
    /\ nonce' = [nonce EXCEPT ![c] = @ + 1]
    /\ UNCHANGED <<file, runVars, code>>

------------------------------------------------------------------------------
\* What a task does on its own; fair.
TaskStep(r, c) ==
    \/ SkipExisting(r, c) \/ Predict(r, c) \/ AlreadyDeployed(r, c)
    \/ Check(r, c) \/ Decline(r, c) \/ Proceed(r, c) \/ ReuseExisting(r, c)
    \/ SendTx(r, c) \/ Confirm(r, c) \/ TxRejected(r, c)
    \/ Record(r, c) \/ Return(r, c)

ChainStep(r, c) == Mine(r, c) \/ Revert(r, c)

Terminated ==
    /\ \A r \in Runs : phase[r] \in {"done", "crashed"}
    /\ \A r \in Runs, c \in Chains : tx[r][c].state # "pending"
    /\ UNCHANGED vars

Next ==
    \/ \E r \in Runs : Start(r) \/ Finish(r) \/ Crash(r)
    \/ \E r \in Runs, c \in Chains :
          TaskStep(r, c) \/ Throw(r, c) \/ ChainStep(r, c)
    \/ Terminated

Spec == Init /\ [][Next]_vars

\* The event loop serves every task, the operator answers every prompt, and
\* the chains include what was sent to them.
Fairness ==
    /\ \A r \in Runs : WF_vars(Finish(r))
    /\ \A r \in Runs, c \in Chains :
          WF_vars(TaskStep(r, c)) /\ WF_vars(ChainStep(r, c))

FairSpec == Spec /\ Fairness

------------------------------------------------------------------------------
(* Properties *)

\* Every address in the configuration file holds a contract: the run saves the
\* whole file even when chains failed, timed out or were half way, and runs
\* overwrite each other's file, yet no predicted or reverted deployment is ever
\* published (deploy-contract.js:441 comes after the receipt is awaited).
RecordedIsDeployed ==
    \A c \in Chains : file[c] # None => file[c] \in code[c]

\* A run that reported no failure for a chain and whose own deployment there was
\* mined has left that deployment, or a later one, in the file: parallel tasks
\* share the one config object the run saves, and nothing saved later by another
\* run takes the entry back (evm/utils.js:706-771).
SuccessIsRecorded ==
    \A r \in Runs, c \in Chains :
        /\ phase[r] = "done"
        /\ tx[r][c].state = "mined" /\ c \notin erred[r]
        => file[c] # None /\ file[c] >= AddressAt(tx[r][c].nonce)

\* Every run that is not killed ends, also when chains fail: a failing task
\* neither stops the loop nor rejects the batch (evm/utils.js:726, 798-801).
RunEnds ==
    \A r \in Runs : phase[r] = "processing" ~> phase[r] \in {"done", "crashed"}

\* Runs that do not overlap keep the promise of the configuration file: entries
\* are never lost and only move to contracts that exist and are newer.
Registry == INSTANCE ConfigRegistry
            WITH file <- file, code <- code, Chains <- Chains, None <- None
ImplementsRegistry == Registry!Spec
==============================================================================
