----------------------------- MODULE Governance -----------------------------
(***************************************************************************)
(* Who controls the contracts of an EVM chain: proposals to the governance *)
(* contract (evm/governance.js), votes of a multisig (evm/multisig.js),    *)
(* the governance and mint limiter of the gateway (evm/gateway.js), and    *)
(* the owner and operators of other contracts (evm/ownership.js,           *)
(* evm/operators.js).                                                      *)
(*                                                                         *)
(* People run one command after the other, at the same time as each other. *)
(* A command looks at the chain, asks, sends one transaction, waits for it *)
(* and notes the outcome in its copy of the configuration, which is saved  *)
(* when it ends.  The governance contract executes calls that Axelar voted *)
(* for once their time has come; Axelar's vote, the relayer, the contracts *)
(* and time are external.                                                  *)
(***************************************************************************)
EXTENDS Integers, Sequences, FiniteSets

CONSTANTS
    People,       \* those who run commands; each is a signer of the multisig
    Threshold,    \* votes it takes to execute a multisig action
    Commands,     \* the commands there are, see Command
    Scenarios,    \* bound: who runs which commands how often, see below
    MaxCalls,     \* bound: calls Axelar ever votes for
    MaxReleases   \* bound: gateway implementations ever deployed

Nobody == "none"
Accounts == {"wallet", "timelock", "multisig", "dao"}

\* What newGovernance and newMintLimiter default to: InterchainGovernance and
\* Multisig of the configuration.
NewGovernance == "timelock"
NewMintLimiter == "multisig"

GovernanceOps == {"schedule", "submit", "execute", "cancel",
                  "scheduleMultisig", "cancelMultisig", "submitMultisig"}
MultisigOps == {"transferMintLimiter", "setTokenMintLimits", "withdraw", "setFlowLimits",
                "executeMultisigProposal"}
GatewayOps == {"gatewayGovernance", "gatewayMintLimiter"}
OwnerOps == {"transferOwnership", "proposeOwnership", "acceptOwnership"}
OperatorOps == {"addOperator", "removeOperator", "collectFees", "refund"}

\* The action a proposal is about, the account in it or given to it, the account
\* of the private key, --date, --commandId and, for --proposal, the call whose
\* payload is given (0 for none).
Command ==
    [op : GovernanceOps \cup MultisigOps \cup GatewayOps \cup OwnerOps \cup OperatorOps,
     action : {"upgrade", "transferGovernance"}, to : Accounts, by : Accounts,
     date : Nat, id : 0..MaxCalls, proposal : 0..MaxCalls]

\* In a scenario, each person runs some commands a number of times, and repeats
\* execute for as long as a proposal waits to be executed, or does not.
ASSUME ScenariosOK ==
    /\ Threshold \in Nat \ {0} /\ MaxCalls \in Nat /\ MaxReleases \in Nat \ {0}
    /\ Commands \subseteq Command
    /\ \A sc \in Scenarios :
          /\ sc.commands \in [People -> SUBSET Commands]
          /\ sc.runs \in [People -> Nat] /\ sc.faults \in Nat
          /\ sc.repeat \in BOOLEAN /\ sc.release \in BOOLEAN
          /\ {sc.governance, sc.limiter} \subseteq Accounts

VARIABLES
    scenario,  \* the scenario of this behaviour
    gateway,   \* its governance, mint limiter and implementation
    owned,     \* another contract: owner, pending owner and operators
    locks,     \* governance contract: calls scheduled, and whether it is time
    approvals, \* governance contract: calls approved for the multisig
    funds,     \* multisig: withdrawals it has the funds for
    votes,     \* votes of the multisig's signers on what is not executed yet
    calls,     \* calls Axelar voted for, and whether they were used
    drafts,    \* payloads to be proposed on Axelar
    executed,  \* calls the governance contract has executed
    past,      \* who ever had the gateway's governance and mint limiter, who
               \* ever owned the other contract
    file,      \* the configuration
    run,       \* what each person is doing
    runs,      \* commands each person may still start
    faults     \* commands that may still be killed

targets == <<gateway, owned>>
contracts == <<targets, locks, approvals, funds, votes>>
axelarVars == <<calls, drafts>>
bounds == <<runs, faults>>
vars == <<scenario, contracts, axelarVars, executed, past, file, run, bounds>>

\* A call by the governance contract, and what is voted for on Axelar.
Call(action, impl, gov, lim) ==
    [action |-> action, implementation |-> impl, governance |-> gov, limiter |-> lim]
Payload(type, call, eta) == [type |-> type, call |-> call, eta |-> eta]
NoCall == Call("none", 0, Nobody, Nobody)

NoEntry == [governance |-> "wallet", limiter |-> "wallet", owner |-> "wallet",
            implementation |-> 1]
NoCommand == [op |-> "none"]
Idle == [pc |-> "idle", cmd |-> NoCommand, mem |-> NoEntry, call |-> NoCall,
         yes |-> TRUE, seen |-> <<>>, ok |-> TRUE]
Entry == [governance : Accounts, limiter : Accounts, owner : Accounts,
          implementation : 1..MaxReleases]
Calls ==
    [action : {"none", "upgrade", "transferGovernance"}, implementation : 0..MaxReleases,
     governance : Accounts \cup {Nobody}, limiter : Accounts \cup {Nobody}]

TypeOK ==
    /\ gateway \in [governance : Accounts, limiter : Accounts,
                    implementation : 1..MaxReleases]
    /\ owned.owner \in Accounts /\ owned.pending \in Accounts \cup {Nobody}
    /\ owned.operators \subseteq Accounts
    /\ \A l \in locks : /\ l.call \in Calls /\ l.due \in BOOLEAN
                        /\ \A m \in locks : m.call = l.call => m = l
    /\ approvals \subseteq Calls
    /\ \A v \in votes : Cardinality({w \in votes : w[1] = v[1]}) < Threshold
    /\ funds \in 0..1
    /\ Len(calls) <= MaxCalls
    /\ file \in Entry
    /\ \A p \in People : /\ run[p].pc \in {"idle", "check", "prompt", "sent", "record"}
                         /\ run[p].mem \in Entry /\ run[p].call \in Calls

Init ==
    /\ scenario \in Scenarios
    /\ gateway = [governance |-> scenario.governance, limiter |-> scenario.limiter,
                  implementation |-> 1]
    /\ owned = [owner |-> "wallet", pending |-> Nobody, operators |-> {}]
    /\ locks = {} /\ approvals = {} /\ funds = 1 /\ votes = {}
    /\ calls = <<>> /\ drafts = {} /\ executed = {}
    /\ past = [governance |-> {gateway.governance}, limiter |-> {gateway.limiter},
               owner |-> {owned.owner}]
    /\ file = [governance |-> gateway.governance, limiter |-> gateway.limiter,
               owner |-> owned.owner, implementation |-> 1]
    /\ run = [p \in People |-> Idle]
    /\ runs = scenario.runs /\ faults = scenario.faults
-----------------------------------------------------------------------------
(* The contracts.  A step of theirs is enabled when it does not revert.     *)

\* The gateway obeys a call of its governor only; nobody stands for no change.
Obeys == gateway.governance = "timelock"

Apply(call) ==
    /\ gateway' = [governance |-> IF call.governance = Nobody THEN gateway.governance
                                  ELSE call.governance,
                   limiter |-> IF call.limiter = Nobody THEN gateway.limiter
                               ELSE call.limiter,
                   implementation |-> IF call.implementation = 0 THEN gateway.implementation
                                      ELSE call.implementation]
    /\ past' = [past EXCEPT !.governance = @ \cup {gateway'.governance},
                            !.limiter = @ \cup {gateway'.limiter}]
    /\ executed' = executed \cup {call}

LockOf(call) == {l \in locks : l.call = call}

\* The governance contract accepts a payload that Axelar sent, once.
Accepts(p) == p.type = "schedule" => LockOf(p.call) = {}

Accept(i) ==
    LET p == calls[i].payload
    IN  /\ locks' = CASE p.type = "schedule" -> locks \cup {[call |-> p.call, due |-> FALSE]}
                      [] p.type = "cancel" -> locks \ LockOf(p.call)
                      [] OTHER -> locks
        /\ approvals' = CASE p.type = "approve" -> approvals \cup {p.call}
                          [] p.type = "cancelApproval" -> approvals \ {p.call}
                          [] OTHER -> approvals
        /\ calls' = [calls EXCEPT ![i].used = TRUE]

\* Votes that have not led to an execution yet.
Voters(topic) == {v \in votes : v[1] = topic}

\* Mutant: the votes are counted without the one that is cast.
DecidesLate(topic) == Cardinality(Voters(topic)) = Threshold

\* The next vote reaches the threshold.
Decides(topic) == Cardinality(Voters(topic)) + 1 = Threshold
-----------------------------------------------------------------------------
(* External steps. *)

Vote ==
    /\ Len(calls) < MaxCalls
    /\ \E d \in drafts : /\ drafts' = drafts \ {d}
                         /\ calls' = Append(calls, [payload |-> d, used |-> FALSE])
    /\ UNCHANGED <<scenario, contracts, executed, past, file, run, bounds>>

Relay ==
    /\ \E i \in DOMAIN calls : ~calls[i].used /\ Accepts(calls[i].payload) /\ Accept(i)
    /\ UNCHANGED <<scenario, targets, funds, votes, drafts, executed, past, file, run, bounds>>

Mature ==
    /\ \E l \in locks : ~l.due /\ locks' = (locks \ {l}) \cup {[l EXCEPT !.due = TRUE]}
    /\ UNCHANGED <<scenario, targets, approvals, funds, votes, axelarVars, executed, past,
                   file, run, bounds>>

\* A new gateway implementation is deployed and entered.
Release ==
    /\ scenario.release /\ file.implementation < MaxReleases
    /\ file' = [file EXCEPT !.implementation = @ + 1]
    /\ UNCHANGED <<scenario, contracts, axelarVars, executed, past, run, bounds>>
-----------------------------------------------------------------------------
(* The course of a command. *)

StartWith(p, c) ==
    /\ run[p].pc = "idle" /\ c \in scenario.commands[p]
    /\ IF scenario.repeat /\ locks # {} /\ c.op = "execute" THEN UNCHANGED runs
       ELSE runs[p] > 0 /\ runs' = [runs EXCEPT ![p] = @ - 1]
    /\ run' = [run EXCEPT ![p] = [Idle EXCEPT !.pc = "check", !.cmd = c, !.mem = file]]
    /\ UNCHANGED <<scenario, contracts, axelarVars, executed, past, file, faults>>

Start(p) == \E c \in Commands : StartWith(p, c)

Doing(p, op, pc) == run[p].pc = pc /\ run[p].cmd.op = op

\* The process ends and, except for multisig.js, saves its configuration.
Ends(p, mem) ==
    /\ file' = IF run[p].cmd.op \in MultisigOps THEN file ELSE mem
    /\ run' = [run EXCEPT ![p] = Idle]

Throws(p) ==
    /\ Ends(p, run[p].mem)
    /\ UNCHANGED <<scenario, contracts, axelarVars, executed, past, bounds>>

\* What the signers of the multisig vote on.
TopicOf(p, call) == <<run[p].cmd.op, run[p].cmd.to, call>>

\* What the transaction of a command depends on.
Relevant(p, call) ==
    CASE run[p].cmd.op = "execute" -> <<LockOf(call)>>
      [] run[p].cmd.op = "gatewayGovernance" -> <<gateway.governance>>
      [] run[p].cmd.op = "gatewayMintLimiter" -> <<gateway.limiter>>
      [] run[p].cmd.op \in MultisigOps -> <<Voters(TopicOf(p, call)), funds, owned>>
      [] run[p].cmd.op \in OwnerOps \cup OperatorOps -> <<owned>>
      [] OTHER -> <<locks, calls>>

GoesOn(p, call) ==
    /\ run' = [run EXCEPT ![p].pc = "prompt", ![p].call = call,
                          ![p].seen = Relevant(p, call)]
    /\ UNCHANGED <<scenario, contracts, axelarVars, executed, past, file, bounds>>

\* A prompt that is declined ends the command.  Those of ownership.js and
\* operators.js come before their checks.
Decline(p) ==
    /\ run[p].pc = IF run[p].cmd.op \in OwnerOps \cup OperatorOps THEN "check" ELSE "prompt"
    /\ Throws(p)

Send(p) ==
    /\ run[p].pc = "prompt"
    /\ run' = [run EXCEPT ![p].pc = "sent"]
    /\ UNCHANGED <<scenario, contracts, axelarVars, executed, past, file, bounds>>

\* The process is killed.  If it has sent its transaction, that may have been
\* included before or never is.
Crash(p) ==
    /\ run[p].pc # "idle" /\ faults > 0
    /\ faults' = faults - 1
    /\ run' = [run EXCEPT ![p] = Idle]
    /\ UNCHANGED <<scenario, contracts, axelarVars, executed, past, file, runs>>
-----------------------------------------------------------------------------
(* governance.js *)

\* getProposalCalldata: every command computes the call anew, from the gateway and
\* the configuration it finds.  What would not change is left out.
UpgradeCall(p) ==
    Call("upgrade", run[p].mem.implementation,
         IF gateway.governance = NewGovernance THEN Nobody ELSE NewGovernance,
         IF gateway.limiter = NewMintLimiter THEN Nobody ELSE NewMintLimiter)

ProposalCall(p) ==
    IF run[p].cmd.action = "upgrade" THEN UpgradeCall(p)
    ELSE Call("transferGovernance", 0, run[p].cmd.to, Nobody)

\* A payload is printed for the file of proposals, and nothing is sent.
Propose(p, payload) ==
    /\ drafts' = drafts \cup {payload}
    /\ Ends(p, run[p].mem)
    /\ UNCHANGED <<scenario, contracts, calls, executed, past, bounds>>

Schedule(p) ==
    /\ Doing(p, "schedule", "check")
    /\ IF LockOf(ProposalCall(p)) # {} THEN Throws(p)
       ELSE Propose(p, Payload("schedule", ProposalCall(p), run[p].cmd.date))

\* The contract has no function geteta, which cancel calls.
Cancel(p) == Doing(p, "cancel", "check") /\ Throws(p)

ScheduleMultisig(p) ==
    /\ Doing(p, "scheduleMultisig", "check")
    /\ Propose(p, Payload("approve", ProposalCall(p), 0))

CancelMultisig(p) ==
    /\ Doing(p, "cancelMultisig", "check")
    /\ Propose(p, Payload("cancelApproval", ProposalCall(p), 0))

SubmitCheck(p) ==
    /\ run[p].pc = "check" /\ run[p].cmd.op \in {"submit", "submitMultisig"}
    /\ GoesOn(p, ProposalCall(p))

Submitted(p) ==
    Payload(IF run[p].cmd.op = "submit" THEN "schedule" ELSE "approve",
            run[p].call, run[p].cmd.date)

\* Axelar's command is accepted with the payload that was voted for.
SubmitWorks(p) ==
    LET i == run[p].cmd.id
    IN  /\ i \in DOMAIN calls /\ ~calls[i].used
        /\ calls[i].payload = Submitted(p) /\ Accepts(Submitted(p))


\* With --proposal the call is that of the payload.  (multisig.js is given it.)
ExecuteCall(p) ==
    LET i == run[p].cmd.proposal
    IN  IF i \in DOMAIN calls THEN calls[i].payload.call ELSE ProposalCall(p)

\* Mutant: nobody looks whether the time has come.
ExecuteCheckEarly(p) ==
    /\ Doing(p, "execute", "check")
    /\ LET call == ExecuteCall(p)
       IN  IF LockOf(call) = {} THEN Throws(p) ELSE GoesOn(p, call)

ExecuteCheck(p) ==
    /\ Doing(p, "execute", "check")
    /\ LET call == ExecuteCall(p)
       IN  IF \E l \in LockOf(call) : l.due THEN GoesOn(p, call) ELSE Throws(p)

ExecuteWorks(p) == Obeys /\ \E l \in LockOf(run[p].call) : l.due
-----------------------------------------------------------------------------
(* multisig.js *)

MayTransferMintLimiter == gateway.limiter = "multisig"
MaySetTokenMintLimits == gateway.limiter = "multisig"
MayWithdraw == funds > 0
MaySetFlowLimits == "multisig" \in owned.operators
MayExecuteApproved(call) == call \in approvals /\ Obeys

\* The scripts look at the balance and the operator role only.
Offered(p) == CASE run[p].cmd.op = "withdraw" -> MayWithdraw
                [] run[p].cmd.op = "setFlowLimits" -> MaySetFlowLimits
                [] OTHER -> TRUE

\* preExecutionChecks: when nobody has voted, the answer to its prompt ends the
\* checks and not the command; when one vote is missing, it does nothing.
MultisigCheck(p) ==
    /\ run[p].pc = "check" /\ run[p].cmd.op \in MultisigOps
    /\ \E yes \in BOOLEAN :
          LET call  == IF run[p].cmd.op = "executeMultisigProposal"
                       THEN ExecuteCall(p) ELSE NoCall
              topic == TopicOf(p, call)
              asked == Voters(topic) = {} \/ Decides(topic)
          IN  IF <<topic, p>> \in votes \/ ~Offered(p) THEN yes /\ Throws(p)
              ELSE /\ yes \/ asked
                   /\ run' = [run EXCEPT ![p].pc = "prompt", ![p].call = call,
                                         ![p].yes = yes, ![p].seen = Relevant(p, call)]
                   /\ UNCHANGED <<scenario, contracts, axelarVars, executed, past, file,
                                  bounds>>

Topic(p) == TopicOf(p, run[p].call)

\* A vote that decides reverts when the action it decides cannot be done.
VoteWorks(p) ==
    /\ <<Topic(p), p>> \notin votes
    /\ Decides(Topic(p)) =>
          CASE run[p].cmd.op = "transferMintLimiter" -> MayTransferMintLimiter
            [] run[p].cmd.op = "setTokenMintLimits" -> MaySetTokenMintLimits
            [] run[p].cmd.op = "withdraw" -> MayWithdraw
            [] run[p].cmd.op = "setFlowLimits" -> MaySetFlowLimits
            [] OTHER -> MayExecuteApproved(run[p].call)
-----------------------------------------------------------------------------
(* gateway.js, ownership.js and operators.js check what the contract will   *)
(* check.                                                                    *)

MayTransferGatewayGovernance == gateway.governance = "wallet"
MayTransferGatewayMintLimiter == gateway.limiter = "wallet"
MayTransferOwnership(c) == owned.owner = c.by
MayProposeOwnership(c) == owned.owner = c.by
MayAcceptOwnership(c) == owned.pending = c.by
MayAddOperator(c) == owned.owner = c.by /\ c.to \notin owned.operators
MayRemoveOperator(c) == owned.owner = c.by /\ c.to \in owned.operators
MayCollectFees(c) == c.by \in owned.operators
MayRefund(c) == c.by \in owned.operators

CallerMay(p) ==
    LET c == run[p].cmd
    IN  CASE c.op = "gatewayGovernance" -> MayTransferGatewayGovernance
          [] c.op = "gatewayMintLimiter" -> MayTransferGatewayMintLimiter
          [] c.op = "transferOwnership" -> MayTransferOwnership(c)
          [] c.op = "proposeOwnership" -> MayProposeOwnership(c)
          [] c.op = "acceptOwnership" -> MayAcceptOwnership(c)
          [] c.op = "addOperator" -> MayAddOperator(c)
          [] c.op = "removeOperator" -> MayRemoveOperator(c)
          [] c.op = "collectFees" -> MayCollectFees(c)
          [] c.op = "refund" -> MayRefund(c)

DirectOps == GatewayOps \cup OwnerOps \cup OperatorOps

DirectCheck(p) ==
    /\ run[p].pc = "check" /\ run[p].cmd.op \in DirectOps
    /\ IF CallerMay(p) THEN GoesOn(p, NoCall) ELSE Throws(p)
-----------------------------------------------------------------------------
(* The transaction is included: it has its effect, or reverts. *)

Mined(p, ok) == run' = [run EXCEPT ![p].pc = "record", ![p].ok = ok]

SubmitSent(p) ==
    /\ run[p].pc = "sent" /\ run[p].cmd.op \in {"submit", "submitMultisig"}
    /\ Mined(p, SubmitWorks(p))
    /\ IF SubmitWorks(p) THEN Accept(run[p].cmd.id)
       ELSE UNCHANGED <<locks, approvals, calls>>
    /\ UNCHANGED <<scenario, targets, funds, votes, drafts, executed, past, file, bounds>>

ExecuteSent(p) ==
    /\ Doing(p, "execute", "sent")
    /\ Mined(p, ExecuteWorks(p))
    /\ IF ExecuteWorks(p)
       THEN locks' = locks \ LockOf(run[p].call) /\ Apply(run[p].call)
       ELSE UNCHANGED <<locks, gateway, past, executed>>
    /\ UNCHANGED <<scenario, owned, approvals, funds, votes, axelarVars, file, bounds>>

\* A vote of multisig.js, which is the last one or not.
Votes(p, op) ==
    /\ Doing(p, op, "sent")
    /\ Mined(p, VoteWorks(p))
    /\ votes' = IF ~VoteWorks(p) THEN votes
                ELSE IF Decides(Topic(p)) THEN votes \ Voters(Topic(p))
                ELSE votes \cup {<<Topic(p), p>>}
    /\ UNCHANGED <<scenario, owned, locks, axelarVars, file, bounds>>
Decided(p) == VoteWorks(p) /\ Decides(Topic(p))

TransferMintLimiterSent(p) ==
    /\ Votes(p, "transferMintLimiter")
    /\ IF Decided(p) THEN /\ gateway' = [gateway EXCEPT !.limiter = run[p].cmd.to]
                          /\ past' = [past EXCEPT !.limiter = @ \cup {run[p].cmd.to}]
       ELSE UNCHANGED <<gateway, past>>
    /\ UNCHANGED <<approvals, funds, executed>>

SetLimitsSent(p) ==
    /\ \E op \in {"setTokenMintLimits", "setFlowLimits"} : Votes(p, op)
    /\ UNCHANGED <<gateway, approvals, funds, executed, past>>

WithdrawSent(p) ==
    /\ Votes(p, "withdraw")
    /\ funds' = IF Decided(p) THEN funds - 1 ELSE funds
    /\ UNCHANGED <<gateway, approvals, executed, past>>

ExecuteApprovedSent(p) ==
    /\ Votes(p, "executeMultisigProposal")
    /\ IF Decided(p) THEN approvals' = approvals \ {run[p].call} /\ Apply(run[p].call)
       ELSE UNCHANGED <<approvals, gateway, past, executed>>
    /\ UNCHANGED funds

\* A call of the gateway by its governor or mint limiter.
CallsGateway(p, op, field) ==
    /\ Doing(p, op, "sent")
    /\ Mined(p, CallerMay(p))
    /\ IF CallerMay(p) THEN /\ gateway' = [gateway EXCEPT ![field] = run[p].cmd.to]
                            /\ past' = [past EXCEPT ![field] = @ \cup {run[p].cmd.to}]
       ELSE UNCHANGED <<gateway, past>>
    /\ UNCHANGED <<scenario, owned, locks, approvals, funds, votes, axelarVars, executed,
                   file, bounds>>

GatewayGovernanceSent(p) == CallsGateway(p, "gatewayGovernance", "governance")
GatewayMintLimiterSent(p) == CallsGateway(p, "gatewayMintLimiter", "limiter")

\* A call of the other contract, after which it is new.
CallsOwned(p, op, new) ==
    /\ Doing(p, op, "sent")
    /\ Mined(p, CallerMay(p))
    /\ owned' = IF CallerMay(p) THEN new ELSE owned
    /\ past' = [past EXCEPT !.owner = @ \cup {owned'.owner}]
    /\ UNCHANGED <<scenario, gateway, locks, approvals, funds, votes, axelarVars, executed,
                   file, bounds>>

TransferOwnershipSent(p) ==
    CallsOwned(p, "transferOwnership",
               [owned EXCEPT !.owner = run[p].cmd.to, !.pending = Nobody])
ProposeOwnershipSent(p) ==
    CallsOwned(p, "proposeOwnership", [owned EXCEPT !.pending = run[p].cmd.to])
AcceptOwnershipSent(p) ==
    CallsOwned(p, "acceptOwnership",
               [owned EXCEPT !.owner = run[p].cmd.by, !.pending = Nobody])
AddOperatorSent(p) ==
    CallsOwned(p, "addOperator", [owned EXCEPT !.operators = @ \cup {run[p].cmd.to}])
RemoveOperatorSent(p) ==
    CallsOwned(p, "removeOperator", [owned EXCEPT !.operators = @ \ {run[p].cmd.to}])
ExecuteContractSent(p) == \E op \in {"collectFees", "refund"} : CallsOwned(p, op, owned)
-----------------------------------------------------------------------------
(* The receipt is there: some commands look again, and note what they did. *)

\* After a change of owner or operators the scripts look at the contract again.
OwnerIs(account) == owned.owner = account

Noted(p) ==
    LET c == run[p].cmd
    IN  CASE c.op = "gatewayGovernance" -> [run[p].mem EXCEPT !.governance = c.to]
          [] c.op = "gatewayMintLimiter" -> [run[p].mem EXCEPT !.limiter = c.to]
          [] c.op = "transferOwnership" /\ OwnerIs(c.to) -> [run[p].mem EXCEPT !.owner = c.to]
          [] c.op = "acceptOwnership" /\ OwnerIs(c.by) -> [run[p].mem EXCEPT !.owner = c.by]
          [] OTHER -> run[p].mem

\* Mutant: the outcome is noted whether or not the transaction went through.
RecordAnyway(p) ==
    /\ run[p].pc = "record"
    /\ Ends(p, Noted(p))
    /\ UNCHANGED <<scenario, contracts, axelarVars, executed, past, bounds>>

Record(p) ==
    /\ run[p].pc = "record"
    /\ Ends(p, IF run[p].ok THEN Noted(p) ELSE run[p].mem)
    /\ UNCHANGED <<scenario, contracts, axelarVars, executed, past, bounds>>
-----------------------------------------------------------------------------
Check(p) ==
    \/ Schedule(p) \/ Cancel(p) \/ ScheduleMultisig(p) \/ CancelMultisig(p)
    \/ SubmitCheck(p) \/ ExecuteCheck(p) \/ MultisigCheck(p) \/ DirectCheck(p)

Sent(p) ==
    \/ SubmitSent(p) \/ ExecuteSent(p)
    \/ TransferMintLimiterSent(p) \/ SetLimitsSent(p) \/ WithdrawSent(p)
    \/ ExecuteApprovedSent(p)
    \/ GatewayGovernanceSent(p) \/ GatewayMintLimiterSent(p)
    \/ TransferOwnershipSent(p) \/ ProposeOwnershipSent(p) \/ AcceptOwnershipSent(p)
    \/ AddOperatorSent(p) \/ RemoveOperatorSent(p) \/ ExecuteContractSent(p)

Next ==
    \/ Vote \/ Relay \/ Mature \/ Release
    \/ \E p \in People : \/ Start(p) \/ Check(p) \/ Decline(p) \/ Send(p) \/ Sent(p)
                         \/ Record(p) \/ Crash(p)

Spec == Init /\ [][Next]_vars

\* Where somebody repeats execute, relayers bring what was voted for, time passes,
\* what was sent is included, and whoever repeats the command starts it again and
\* confirms it in the end.  Nothing is promised, and nothing assumed, elsewhere.
Runs(p) == scenario.repeat /\ (Check(p) \/ Sent(p) \/ Record(p))
Confirms(p) == scenario.repeat /\ Send(p)
Repeats(p) == scenario.repeat /\ \E c \in Commands : c.op = "execute" /\ StartWith(p, c)

FairSpec ==
    /\ Spec
    /\ WF_vars(scenario.repeat /\ Relay) /\ WF_vars(scenario.repeat /\ Mature)
    /\ \A p \in People :
          WF_vars(Runs(p)) /\ SF_vars(Confirms(p)) /\ SF_vars(Repeats(p))
-----------------------------------------------------------------------------
(* Properties. *)

\* What a script checked before it sent its transaction is what the contract
\* checks (governance.js:391, gateway.js:366, ownership.js:86): a transaction is
\* refused only if somebody else changed what was checked in between, or if the
\* scripts never look at it: that the gateway obeys the governance contract or
\* the multisig, and that a proposal is approved for the multisig.
Unchecked(p) ==
    LET c == run[p].cmd
    IN  \/ c.op \in {"submit", "submitMultisig"}
        \/ c.op \in {"transferMintLimiter", "setTokenMintLimits"} /\ ~MayTransferMintLimiter
        \/ c.op = "execute" /\ ~Obeys
        \/ c.op = "executeMultisigProposal" /\ ~MayExecuteApproved(run[p].call)
RefusedOnlyByOthers ==
    [][\A p \in People :
          run[p].pc = "sent" /\ run'[p].pc = "record" /\ ~run'[p].ok =>
              Unchecked(p) \/ Relevant(p, run[p].call) # run[p].seen]_vars

\* The file never names a governor, mint limiter or owner that was not one: what
\* is noted happened, although commands overlap, save whole files over each other,
\* are refused and killed, and Axelar and the multisig change the same contracts.
RecordedWasTrue ==
    /\ file.governance \in past.governance
    /\ file.limiter \in past.limiter
    /\ file.owner \in past.owner


\* multisig.js:56 asks "Proceed with ${action}?" before a vote that opens a new
\* proposal, and line 72 before one that executes it: who says no casts no vote.
\* It does not hold: the answer ends the checks and not the command.
DeclinedCastsNoVote == \A p \in People : run[p].pc = "sent" => run[p].yes
=============================================================================
