--------------------------- MODULE GatewayRotation ---------------------------
(***************************************************************************)
(* The scripts that set up the gateway of one chain, rotate its signers,   *)
(* approve a message and execute it: cosmwasm/rotate-signers.js, the       *)
(* gateway scripts of EVM, Sui, Stellar and Solana, and the parts of the   *)
(* deployment scripts that choose the first signers.                       *)
(*                                                                         *)
(* Operators run one command after the other, at the same time as each     *)
(* other.  A command reads the prover, the verifier or the gateway first   *)
(* and sends its transactions later.  The contracts are external: the      *)
(* prover with its signing sessions, the voting verifier with its polls,   *)
(* and the gateway.  One message is approved and executed.                 *)
(***************************************************************************)
EXTENDS Integers, Sequences, Functions

CONSTANTS
    Operators,     \* the people, each running one command at a time
    Scenarios,     \* bound: which commands are run, see below
    NoSet,         \* no signer set
    MaxSets,       \* bound: verifier sets that ever are registered
    MaxNonce,      \* bound: nonces of wallet sets, from 0
    MaxSessions,   \* bound: signing sessions of the prover
    Retention,     \* previousSignersRetention of the gateway
    Parts          \* Solana: transactions between the first and the last one

\* In a scenario, the gateway is on a chain of a certain kind, and each operator
\* runs a number of commands among those named, some of which may be killed.
ASSUME ConstantsOK ==
    /\ \A sc \in Scenarios :
          /\ sc.kind \in {"evm", "sui", "stellar", "solana", "stacks"}
          /\ sc.names \subseteq {"deploy", "update", "submitProof", "confirm",
                                 "rotate", "approve", "approveAndExecute", "execute"}
          /\ sc.budget \in [Operators -> Nat] /\ sc.crashes \in Nat
    /\ {MaxSets, MaxNonce} \subseteq Nat \ {0}  \* at least two wallet sets
    /\ {MaxSessions, Retention, Parts} \subseteq Nat

VARIABLES
    scenario,    \* the scenario of this behaviour, chosen at the start
    registered,  \* the number of the set the registered verifiers would form
    prover,      \* MultisigProver: its current set and the next one
    sessions,    \* its signing sessions
    polls,       \* VotingVerifier: the poll about each verifier set
    gateway,     \* the signer sets the gateway accepted, oldest first
    message,     \* what the gateway knows of the message
    prepared,    \* Solana: the parts of proofs and payloads on the chain
    op,          \* what each operator is doing
    late,        \* transactions nobody waits for that may still be included
    commands,    \* commands each operator may still run
    crashes      \* commands that may still be killed

axelarVars == <<registered, prover, sessions, polls>>
gatewayVars == <<gateway, message, prepared, late>>
bounds == <<commands, crashes>>
vars == <<scenario, axelarVars, gatewayVars, op, bounds>>

kind == scenario.kind

ProverSet(n) == <<"prover", n>>
WalletSet(n) == <<"wallet", n>>
ProverSets == {ProverSet(n) : n \in 1..MaxSets}
WalletSets == {WalletSet(n) : n \in 0..MaxNonce}
SignerSets == ProverSets \cup WalletSets
ASSUME NoSetIsNone == NoSet \notin SignerSets

\* A transaction: the one that has the effect of its command has part Last; on
\* Solana parts 0..Parts prepare it, and Closing cleans up after an execution.
Last == Parts + 1
Closing == Parts + 2
Tx(what, signer, set, part) ==
    [what |-> what, signer |-> signer, set |-> set, part |-> part]
One(what, signer, set) == <<Tx(what, signer, set, Last)>>

\* Solana: a verification session or payload account is set up, filled, and used.
Flow(what, signer, set) ==
    [i \in 1..(Parts + 2) |-> Tx(what, signer, set, i - 1)]

AllTxs == {Tx(w, s, t, i) : w \in {"deploy", "rotate", "approve", "execute"},
              s \in SignerSets \cup {NoSet}, t \in SignerSets \cup {NoSet},
              i \in 0..Closing}

\* A command line: the wallet nonce of the proof, the signers given (none: the
\* prover's current set), the session or the transaction named.
Cmd(name, nonce, to, id) == [name |-> name, nonce |-> nonce, to |-> to, id |-> id]

PCs == {"idle", "begin", "send", "approved", "update", "verify", "poll", "confirm"}
Flights == {"none", "pending", "ok", "recoverable", "rejected", "reverted"}

Idle == [pc |-> "idle", cmd |-> Cmd("none", 0, NoSet, 0), held |-> NoSet,
         todo |-> <<>>, flight |-> "none", raced |-> FALSE]

TypeOK ==
    /\ scenario \in Scenarios
    /\ registered \in 1..MaxSets
    /\ prover \in [current : ProverSets \cup {NoSet}, next : ProverSets \cup {NoSet}]
    /\ Len(sessions) <= MaxSessions
    /\ \A i \in DOMAIN sessions :
          sessions[i] \in [signer : ProverSets, what : {"rotate", "approve"},
                           set : ProverSets \cup {NoSet}, signed : BOOLEAN]
    /\ polls \in [ProverSets -> [status : {"unknown", "in_progress", "failed",
                                           "succeeded_on_source_chain"}, tx : Nat]]
    /\ Range(gateway) \subseteq SignerSets
    /\ message \in {"unknown", "approved", "executed"}
    /\ prepared \subseteq AllTxs /\ late \subseteq AllTxs
    /\ \A o \in Operators :
          /\ op[o].pc \in PCs /\ op[o].flight \in Flights
          /\ op[o].raced \in BOOLEAN /\ op[o].held \in SignerSets \cup {NoSet}
          /\ Range(op[o].todo) \subseteq AllTxs
    /\ commands \in [Operators -> Nat] /\ crashes \in Nat

Init ==
    /\ scenario \in Scenarios
    /\ registered = 1
    /\ prover = [current |-> NoSet, next |-> NoSet]
    /\ sessions = <<>>
    /\ polls = [s \in ProverSets |-> [status |-> "unknown", tx |-> 0]]
    /\ gateway = <<>>
    /\ message = "unknown"
    /\ prepared = {}
    /\ op = [o \in Operators |-> Idle]
    /\ late = {}
    /\ commands = scenario.budget
    /\ crashes = scenario.crashes
-----------------------------------------------------------------------------
(* The contracts on Axelar. *)

\* The registered verifiers change.
Register ==
    /\ registered < MaxSets
    /\ registered' = registered + 1
    /\ UNCHANGED <<scenario, prover, sessions, polls, gatewayVars, op, bounds>>

\* The first update_verifier_set, sent with axelard, needs no confirmation.
Genesis ==
    /\ prover.current = NoSet
    /\ prover' = [prover EXCEPT !.current = ProverSet(registered)]
    /\ UNCHANGED <<scenario, registered, sessions, polls, gatewayVars, op, bounds>>

\* A relayer asks for a proof of the message (of interest to some scenarios only).
ConstructProof ==
    /\ "execute" \in scenario.names
    /\ prover.current # NoSet /\ Len(sessions) < MaxSessions
    /\ ~\E i \in DOMAIN sessions : sessions[i].what = "approve"
    /\ sessions' = Append(sessions, [signer |-> prover.current, what |-> "approve",
                                     set |-> NoSet, signed |-> FALSE])
    /\ UNCHANGED <<scenario, registered, prover, polls, gatewayVars, op, bounds>>

\* Enough verifiers have signed session i.
SignSession(i) ==
    /\ ~sessions[i].signed
    /\ sessions' = [sessions EXCEPT ![i].signed = TRUE]
    /\ UNCHANGED <<scenario, registered, prover, polls, gatewayVars, op, bounds>>

\* A poll ends: it succeeds if the named transaction rotated the gateway to
\* the set, and fails otherwise or when it expires.
EndPoll(s) ==
    /\ polls[s].status = "in_progress"
    /\ \E status \in {"failed", "succeeded_on_source_chain"} :
          /\ status = "succeeded_on_source_chain" =>
                polls[s].tx \in DOMAIN gateway /\ gateway[polls[s].tx] = s
          /\ polls' = [polls EXCEPT ![s].status = status]
    /\ UNCHANGED <<scenario, registered, prover, sessions, gatewayVars, op, bounds>>

\* May the prover take the registered verifiers as its next set?
CanUpdate ==
    /\ prover.current # ProverSet(registered)
    /\ prover.next \in {NoSet, ProverSet(registered)}
    /\ Len(sessions) < MaxSessions

CanConfirm ==
    /\ prover.next # NoSet
    /\ polls[prover.next].status = "succeeded_on_source_chain"
-----------------------------------------------------------------------------
(* The gateway. *)

Newest(n) == {gateway[i] : i \in {j \in DOMAIN gateway : j > Len(gateway) - n}}

\* What stands on the chain before the last transaction of a Solana command.
Complete(tx) ==
    kind = "solana" =>
        tx.what = "deploy" \/ \A i \in 0..Parts : [tx EXCEPT !.part = i] \in prepared

\* Does tx ask for what is there already?
Repeats(tx) ==
    IF tx.part # Last THEN tx.part # Closing /\ tx \in prepared
    ELSE \/ tx.what = "deploy" /\ gateway # <<>>
         \/ tx.what = "rotate" /\ tx.set \in Range(gateway)
         \/ tx.what = "approve" /\ message # "unknown"
         \/ tx.what = "execute" /\ message = "executed"

Accepts(tx) ==
    \/ tx.part <= Parts /\ ~Repeats(tx)
    \/ tx.part = Closing /\ [tx EXCEPT !.part = 0] \in prepared
    \/ /\ tx.part = Last /\ Complete(tx)
       /\ \/ tx.what = "deploy" /\ gateway = <<>>
          \/ tx.what = "rotate" /\ tx.signer \in Newest(1) /\ ~Repeats(tx)
          \/ tx.what = "approve" /\ tx.signer \in Newest(Retention + 1)
          \/ tx.what = "execute" /\ message = "approved"

\* The answer to tx.  The Solana program tells a repetition from other errors,
\* and should_relayer_proceed holds of it.
Answer(tx) ==
    IF Accepts(tx) THEN "ok"
    ELSE IF kind = "solana" /\ Repeats(tx) THEN "recoverable" ELSE "rejected"

\* The effect of tx on the chain, none if it is refused.
Effect(tx) ==
    /\ gateway' = IF Accepts(tx) /\ tx.part = Last /\ tx.what \in {"deploy", "rotate"}
                  THEN Append(gateway, tx.set) ELSE gateway
    /\ message' = IF ~Accepts(tx) \/ tx.part # Last THEN message
                  ELSE CASE tx.what = "approve" /\ message = "unknown" -> "approved"
                         [] tx.what = "execute" -> "executed"
                         [] OTHER -> message
    /\ prepared' = IF tx.part <= Parts THEN prepared \cup {tx}
                   ELSE IF tx.part = Closing
                   THEN {t \in prepared : t.what # "execute"} ELSE prepared
-----------------------------------------------------------------------------
(* The commands. *)

\* Operator o moves on as given; commands of others had somebody get in between.
Raced(p) == IF op[p].pc = "idle" THEN op[p] ELSE [op[p] EXCEPT !.raced = TRUE]
Moves(o, new) == op' = [p \in Operators |-> IF p = o THEN new ELSE Raced(p)]
Quietly(o, new) == op' = [op EXCEPT ![o] = new]

\* The command lines of each script.
Line(name, nonces, tos, ids) == [name : {name}, nonce : nonces, to : tos, id : ids]
Plain(name) == Line(name, {0}, {NoSet}, {0})
Nonces == 0..MaxNonce

AxelarLines ==
    Plain("update") \cup Line("confirm", {0}, {NoSet}, {0} \cup DOMAIN gateway)

EvmLines ==
    Line("deploy", {0}, {NoSet, WalletSet(0)}, {0})
    \cup Line("submitProof", {0}, {NoSet}, DOMAIN sessions)
    \cup UNION {Plain(name) : name \in {"rotate", "approve", "approveAndExecute", "execute"}}

SuiLines ==
    Line("deploy", {0}, {NoSet} \cup WalletSets, {0})
    \cup Line("submitProof", {0}, {NoSet}, DOMAIN sessions)
    \cup Line("rotate", Nonces, {NoSet} \cup WalletSets, {0})
    \cup Line("approve", Nonces, {NoSet}, {0})

StellarLines ==
    Line("deploy", {0}, WalletSets, {0})
    \cup Line("submitProof", {0}, {NoSet}, DOMAIN sessions)
    \cup Line("rotate", Nonces, {NoSet} \cup WalletSets, {0})
    \cup Line("approve", Nonces, {NoSet}, {0}) \cup Plain("execute")

SolanaLines ==
    Line("deploy", {0}, {NoSet} \cup WalletSets, {0})
    \cup Line("submitProof", {0}, {NoSet}, DOMAIN sessions)
    \cup Line("rotate", Nonces, {NoSet} \cup WalletSets, {0})
    \cup Line("approve", Nonces, {NoSet}, {0}) \cup Plain("execute")

StacksLines == Plain("deploy")

CommandLines ==
    AxelarLines \cup CASE kind = "evm"     -> EvmLines
                       [] kind = "sui"     -> SuiLines
                       [] kind = "stellar" -> StellarLines
                       [] kind = "solana"  -> SolanaLines
                       [] kind = "stacks"  -> StacksLines

Start(o) ==
    /\ op[o].pc = "idle" /\ commands[o] > 0
    /\ \E cmd \in CommandLines :
          /\ cmd.name \in scenario.names
          /\ Quietly(o, [Idle EXCEPT !.pc = "begin", !.cmd = cmd])
    /\ commands' = [commands EXCEPT ![o] = @ - 1]
    /\ UNCHANGED <<scenario, axelarVars, gatewayVars, crashes>>

Named(o, chain, names) ==
    kind = chain /\ op[o].pc = "begin" /\ op[o].cmd.name \in names
Session(o) == sessions[op[o].cmd.id]
Nonce(o) == op[o].cmd.nonce

\* The command ends: it is done, declined at the prompt, refused or failing.
Leave(o) ==
    /\ Quietly(o, Idle)
    /\ UNCHANGED <<scenario, axelarVars, gatewayVars, bounds>>

Decline(o) ==
    /\ \/ /\ kind \in {"evm", "sui"}
          /\ Named(o, kind, {op[o].cmd.name} \ {"update", "confirm"})
       \/ Named(o, "stellar", {"deploy"})
    /\ Leave(o)

\* The command found out what to send, if anything.
SendIf(o, possible, txs) ==
    /\ Quietly(o, IF possible THEN [op[o] EXCEPT !.pc = "send", !.todo = txs] ELSE Idle)
    /\ UNCHANGED <<scenario, axelarVars, gatewayVars, bounds>>

-----------------------------------------------------------------------------
(* The handlers of the EVM scripts. *)

\* Mutant: the set the prover is about to change to.
NextSigners(cmd) ==
    IF cmd.to # NoSet THEN cmd.to
    ELSE IF prover.next # NoSet THEN prover.next ELSE prover.current

\* getWeightedSigners: --keyID, or the current set of the prover.
WeightedSigners(cmd) == IF cmd.to # NoSet THEN cmd.to ELSE prover.current

\* Mutant: whatever the prover answered.
EvmDeployUnchecked(o) ==
    /\ Named(o, "evm", {"deploy"})
    /\ SendIf(o, TRUE, One("deploy", NoSet, WeightedSigners(op[o].cmd)))

EvmDeploy(o) ==
    /\ Named(o, "evm", {"deploy"})
    /\ LET signers == WeightedSigners(op[o].cmd)
       IN  SendIf(o, signers # NoSet, One("deploy", NoSet, signers))

\* The wallet rotates to itself, with another nonce.
EvmRotateSigners(o) ==
    /\ Named(o, "evm", {"rotate"})
    /\ SendIf(o, TRUE, One("rotate", WalletSet(0), WalletSet(1)))

EvmSubmitProof(o) ==
    /\ Named(o, "evm", {"submitProof"})
    /\ SendIf(o, Session(o).signed, One(Session(o).what, Session(o).signer, Session(o).set))

\* isCommandExecuted is asked first.
EvmApprove(o) ==
    /\ Named(o, "evm", {"approve", "approveAndExecute"})
    /\ SendIf(o, message = "unknown", One("approve", WalletSet(0), NoSet))

\* isContractCallApproved is asked first.
EvmExecute(o) ==
    /\ Named(o, "evm", {"execute"}) \/ op[o].pc = "approved"
    /\ SendIf(o, message = "approved", One("execute", NoSet, NoSet))

(* The handlers of the Sui scripts. *)

\* postDeployAxelarGateway hands getSigners the chain, not its id: without
\* --signers the query of the prover throws.
SuiDeploy(o) ==
    /\ Named(o, "sui", {"deploy"})
    /\ SendIf(o, op[o].cmd.to # NoSet, One("deploy", NoSet, op[o].cmd.to))

SuiSigners(cmd) == IF cmd.to # NoSet THEN cmd.to ELSE prover.current
SuiProofSigners(o) == WalletSet(Nonce(o))

SuiRotate(o) ==
    /\ Named(o, "sui", {"rotate"})
    /\ LET signers == SuiSigners(op[o].cmd)
       IN  SendIf(o, signers # NoSet, One("rotate", SuiProofSigners(o), signers))

SuiSubmitProof(o) ==
    /\ Named(o, "sui", {"submitProof"})
    /\ SendIf(o, Session(o).signed, One(Session(o).what, Session(o).signer, Session(o).set))

SuiApprove(o) ==
    /\ Named(o, "sui", {"approve"})
    /\ SendIf(o, TRUE, One("approve", SuiProofSigners(o), NoSet))

(* The handlers of the Stellar scripts. *)

\* The constructor is always given the wallet.
StellarDeploy(o) ==
    /\ Named(o, "stellar", {"deploy"})
    /\ SendIf(o, TRUE, One("deploy", NoSet, op[o].cmd.to))

StellarNewSigners(cmd) == IF cmd.to # NoSet THEN cmd.to ELSE prover.current
StellarProofSigners(o) == WalletSet(Nonce(o))

StellarRotate(o) ==
    /\ Named(o, "stellar", {"rotate"})
    /\ LET signers == StellarNewSigners(op[o].cmd)
       IN  SendIf(o, signers # NoSet, One("rotate", StellarProofSigners(o), signers))

StellarSubmitProof(o) ==
    /\ Named(o, "stellar", {"submitProof"})
    /\ SendIf(o, Session(o).signed, One(Session(o).what, Session(o).signer, Session(o).set))

StellarApprove(o) ==
    /\ Named(o, "stellar", {"approve"})
    /\ SendIf(o, TRUE, One("approve", StellarProofSigners(o), NoSet))

\* is_message_approved is asked first.
StellarExecute(o) ==
    /\ Named(o, "stellar", {"execute"})
    /\ SendIf(o, message = "approved", One("execute", NoSet, NoSet))

(* The handlers of the Solana program's commands, and of Stacks. *)

SolanaVerifierSet(cmd) == IF cmd.to # NoSet THEN cmd.to ELSE prover.current
SolanaProofSigners(o) == WalletSet(Nonce(o))

SolanaInit(o) ==
    /\ Named(o, "solana", {"deploy"})
    /\ LET signers == SolanaVerifierSet(op[o].cmd)
       IN  SendIf(o, signers # NoSet, One("deploy", NoSet, signers))

SolanaRotate(o) ==
    /\ Named(o, "solana", {"rotate"})
    /\ LET signers == SolanaVerifierSet(op[o].cmd)
       IN  SendIf(o, signers # NoSet, Flow("rotate", SolanaProofSigners(o), signers))

SolanaSubmitProof(o) ==
    /\ Named(o, "solana", {"submitProof"})
    /\ SendIf(o, Session(o).signed, Flow(Session(o).what, Session(o).signer, Session(o).set))

SolanaApprove(o) ==
    /\ Named(o, "solana", {"approve"})
    /\ SendIf(o, TRUE, Flow("approve", SolanaProofSigners(o), NoSet))

SolanaExecute(o) ==
    /\ Named(o, "solana", {"execute"})
    /\ SendIf(o, TRUE, Append(Flow("execute", NoSet, NoSet),
                              Tx("execute", NoSet, NoSet, Closing)))

StacksSetup(o) ==
    /\ Named(o, "stacks", {"deploy"})
    /\ SendIf(o, prover.current # NoSet, One("deploy", NoSet, prover.current))
-----------------------------------------------------------------------------
(* cosmwasm/rotate-signers.js *)

\* update-verifier-set prints the current set and starts a rotation.
QueryCurrent(o) ==
    /\ op[o].pc = "begin" /\ op[o].cmd.name = "update"
    /\ IF prover.current = NoSet THEN Leave(o)
       ELSE /\ Quietly(o, [op[o] EXCEPT !.pc = "update"])
            /\ UNCHANGED <<scenario, axelarVars, gatewayVars, bounds>>

UpdateVerifierSet(o) ==
    /\ op[o].pc = "update"
    /\ IF ~CanUpdate THEN Leave(o)
       ELSE /\ prover' = [prover EXCEPT !.next = ProverSet(registered)]
            /\ sessions' = Append(sessions,
                  [signer |-> prover.current, what |-> "rotate",
                   set |-> ProverSet(registered), signed |-> FALSE])
            /\ Moves(o, Idle)
            /\ UNCHANGED <<scenario, registered, polls, gatewayVars, bounds>>

\* confirm-verifier-rotation: the next set is read once and kept.
QueryNext(o) ==
    /\ op[o].pc = "begin" /\ op[o].cmd.name = "confirm"
    /\ IF prover.next = NoSet THEN Leave(o)
       ELSE /\ Quietly(o, [op[o] EXCEPT !.pc = "verify", !.held = prover.next])
            /\ UNCHANGED <<scenario, axelarVars, gatewayVars, bounds>>

VerifyVerifierSet(o) ==
    /\ op[o].pc = "verify"
    /\ polls' = IF polls[op[o].held].status \in {"unknown", "failed"}
                THEN [polls EXCEPT ![op[o].held] = [status |-> "in_progress",
                                                    tx |-> op[o].cmd.id]]
                ELSE polls
    /\ Moves(o, [op[o] EXCEPT !.pc = "poll"])
    /\ UNCHANGED <<scenario, registered, prover, sessions, gatewayVars, bounds>>

\* Mutants: one look is enough; only success is an end.
PollOnce(status) == FALSE
PollOn(status) == status # "succeeded_on_source_chain"

\* The loop that asks every second leaves at any other answer than in_progress.
PollAgain(status) == status = "in_progress"

PollEnds(o) ==
    /\ op[o].pc = "poll"
    /\ ~PollAgain(polls[op[o].held].status)
    /\ IF polls[op[o].held].status = "failed" THEN Leave(o)
       ELSE /\ Quietly(o, [op[o] EXCEPT !.pc = "confirm"])
            /\ UNCHANGED <<scenario, axelarVars, gatewayVars, bounds>>

ConfirmVerifierSet(o) ==
    /\ op[o].pc = "confirm"
    /\ IF ~CanConfirm THEN Leave(o)
       ELSE /\ prover' = [current |-> prover.next, next |-> NoSet]
            /\ Moves(o, Idle)
            /\ UNCHANGED <<scenario, registered, sessions, polls, gatewayVars, bounds>>
-----------------------------------------------------------------------------
(* Sending. *)

\* The node simulates the transaction, and takes it if the simulation passes.
Send(o) ==
    /\ op[o].pc = "send" /\ op[o].flight = "none"
    /\ LET answer == Answer(Head(op[o].todo))
       IN  Quietly(o, [op[o] EXCEPT !.flight = IF answer = "ok" THEN "pending" ELSE answer])
    /\ UNCHANGED <<scenario, axelarVars, gatewayVars, bounds>>

\* The chain includes the transaction; meanwhile the answer may have changed.
Include(o) ==
    /\ op[o].flight = "pending"
    /\ Effect(Head(op[o].todo))
    /\ LET answer == Answer(Head(op[o].todo))
       IN  Moves(o, [op[o] EXCEPT !.flight =
                        IF answer = "rejected" THEN "reverted" ELSE answer])
    /\ UNCHANGED <<scenario, axelarVars, late, bounds>>

\* It runs out of gas, comes too soon for minimumRotationDelay, expires.
Drop(o) ==
    /\ op[o].flight = "pending"
    /\ Leave(o)

\* Which answers a script goes on after.  Nobody looks at the effects of a
\* transaction Sui has executed, nor at what becomes of a call on Stacks.
EvmGoesOn(flight) == flight = "ok"
SuiGoesOn(flight) == flight \in {"ok", "reverted"}
StellarGoesOn(flight) == flight = "ok"
StacksGoesOn(flight) == flight \notin {"none", "pending"}

\* Mutant: every error of a Solana transaction is taken for a repetition.
SolanaGoesOnAnyway(flight) == flight \in {"ok", "recoverable", "rejected", "reverted"}

\* handle_transaction_error: a repetition is no error.
SolanaGoesOn(flight) == flight \in {"ok", "recoverable"}

GoesOn(o) ==
    CASE kind = "evm"     -> EvmGoesOn(op[o].flight)
      [] kind = "sui"     -> SuiGoesOn(op[o].flight)
      [] kind = "stellar" -> StellarGoesOn(op[o].flight)
      [] kind = "solana"  -> SolanaGoesOn(op[o].flight)
      [] kind = "stacks"  -> StacksGoesOn(op[o].flight)

Proceed(o) ==
    /\ op[o].pc = "send" /\ GoesOn(o)
    /\ IF Len(op[o].todo) > 1
       THEN Quietly(o, [op[o] EXCEPT !.todo = Tail(@), !.flight = "none"])
       ELSE IF op[o].todo[1].what = "approve" /\ op[o].cmd.name = "approveAndExecute"
       THEN Quietly(o, [op[o] EXCEPT !.pc = "approved", !.todo = <<>>, !.flight = "none"])
       ELSE Quietly(o, Idle)
    /\ UNCHANGED <<scenario, axelarVars, gatewayVars, bounds>>

Stop(o) ==
    /\ op[o].pc = "send" /\ op[o].flight \notin {"none", "pending"} /\ ~GoesOn(o)
    /\ Leave(o)

\* The script is killed: what it sent may still be included.
Crash(o) ==
    /\ op[o].pc # "idle" /\ crashes > 0
    /\ crashes' = crashes - 1
    /\ Quietly(o, Idle)
    /\ late' = IF op[o].flight = "pending" THEN late \cup {Head(op[o].todo)} ELSE late
    /\ UNCHANGED <<scenario, axelarVars, gateway, message, prepared, commands>>

\* A Stellar script has asked MAX_RETRIES times and throws.
StellarGivesUp(o) == kind = "stellar" /\ op[o].flight = "pending"

\* sendContractCallTransaction does not wait for what it broadcast.
StacksReturns(o) == kind = "stacks" /\ op[o].flight = "pending"

LeaveBehind(o) ==
    /\ StellarGivesUp(o) \/ StacksReturns(o)
    /\ Quietly(o, Idle)
    /\ late' = late \cup {Head(op[o].todo)}
    /\ UNCHANGED <<scenario, axelarVars, gateway, message, prepared, bounds>>

IncludeLate(tx) ==
    /\ Effect(tx)
    /\ late' = late \ {tx}
    /\ op' = [o \in Operators |-> Raced(o)]
    /\ UNCHANGED <<scenario, axelarVars, bounds>>
-----------------------------------------------------------------------------
ScriptStep(o) ==
    \/ EvmDeploy(o) \/ EvmRotateSigners(o) \/ EvmSubmitProof(o)
    \/ EvmApprove(o) \/ EvmExecute(o)
    \/ SuiDeploy(o) \/ SuiRotate(o) \/ SuiSubmitProof(o) \/ SuiApprove(o)
    \/ StellarDeploy(o) \/ StellarRotate(o) \/ StellarSubmitProof(o)
    \/ StellarApprove(o) \/ StellarExecute(o)
    \/ SolanaInit(o) \/ SolanaRotate(o) \/ SolanaSubmitProof(o)
    \/ SolanaApprove(o) \/ SolanaExecute(o) \/ StacksSetup(o)
    \/ QueryCurrent(o) \/ UpdateVerifierSet(o)
    \/ QueryNext(o) \/ VerifyVerifierSet(o) \/ PollEnds(o) \/ ConfirmVerifierSet(o)
    \/ Send(o) \/ Proceed(o) \/ Stop(o)

AxelarStep ==
    \/ Register \/ Genesis \/ ConstructProof
    \/ \E i \in DOMAIN sessions : SignSession(i)

Next ==
    \/ AxelarStep
    \/ \E s \in ProverSets : EndPoll(s)
    \/ \E tx \in late : IncludeLate(tx)
    \/ \E o \in Operators :
          \/ Start(o) \/ Decline(o) \/ ScriptStep(o)
          \/ Include(o) \/ Drop(o) \/ Crash(o) \/ LeaveBehind(o)

Spec == Init /\ [][Next]_vars

\* A running script goes on, polls end, and transactions are decided.
FairSpec ==
    /\ Spec
    /\ \A o \in Operators : WF_vars(ScriptStep(o)) /\ WF_vars(Include(o))
    /\ \A s \in ProverSets : WF_vars(EndPoll(s))
-----------------------------------------------------------------------------
(* Properties. *)

\* The gateway and the prover change their signers in turn, and both in the
\* order SignerHandover says, whichever commands the operators run, however
\* they interleave and wherever they are killed.
Handover == INSTANCE SignerHandover
               WITH accepted <- gateway, signing <- prover.current, Debug <- WalletSets
ImplementsHandover == Handover!Spec

\* The queries that come before a transaction are worth what they cost:
\* confirm-verifier-rotation (rotate-signers.js:66-78) and the execute actions
\* (evm/gateway.js:306, stellar/gateway.js:167) are only ever refused by the
\* contract when somebody else got in between.
CheckedNotRejected ==
    \A o \in Operators :
        \/ op[o].pc = "confirm" /\ ~CanConfirm
        \/ /\ op[o].cmd.name = "execute" /\ kind # "solana"
           /\ op[o].flight \in {"rejected", "reverted"}
        => op[o].raced

\* A command that is about to end well has had its effect, also on Solana, where
\* it takes several transactions, some may be left over from a run that was
\* killed, and errors that say so are passed over (send.rs:148-183); on Sui,
\* where nobody looks at the effects, unless somebody else got in between.  On
\* Stacks a command promises nothing.
DoneHasEffect ==
    \A o \in Operators :
        /\ op[o].pc = "send" /\ GoesOn(o) /\ Len(op[o].todo) = 1
        /\ kind = "sui" => ~op[o].raced
        /\ kind # "stacks"
        => CASE op[o].todo[1].what = "deploy"  -> gateway # <<>>
             [] op[o].todo[1].what = "rotate"  -> op[o].todo[1].set \in Range(gateway)
             [] op[o].todo[1].what = "approve" -> message # "unknown"
             [] op[o].todo[1].what = "execute" -> message = "executed"

\* Every command that is started ends: the loop of confirm-verifier-rotation,
\* which has no limit, ends with the poll it waits for.
CommandEnds == \A o \in Operators : op[o].pc # "idle" ~> op[o].pc = "idle"
==============================================================================
