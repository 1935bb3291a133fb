-------------------------- MODULE Governance_proofs --------------------------
(***************************************************************************)
(* Proofs about Governance for any people, commands, scenarios, thresholds *)
(* and bounds.                                                             *)
(***************************************************************************)
EXTENDS Governance, FiniteSetTheorems, TLAPS

(* The inductive invariant. *)

Proposals == [type : {"schedule", "cancel", "approve", "cancelApproval"},
              call : Calls, eta : Nat]

\* What a person is doing.  What was seen has no type of its own.
RunOK(r) ==
    /\ r \in [pc : {"idle", "check", "prompt", "sent", "record"},
              cmd : Commands \cup {NoCommand}, mem : Entry, call : Calls,
              yes : BOOLEAN, seen : {r.seen}, ok : BOOLEAN]
    /\ r.pc # "idle" => r.cmd \in Commands

RunsTyped == run = [p \in People |-> run[p]] /\ \A p \in People : RunOK(run[p])

TargetsTyped ==
    /\ gateway \in [governance : Accounts, limiter : Accounts,
                    implementation : 1..MaxReleases]
    /\ owned \in [owner : Accounts, pending : Accounts \cup {Nobody},
                  operators : SUBSET Accounts]
    /\ past \in [governance : SUBSET Accounts, limiter : SUBSET Accounts,
                 owner : SUBSET Accounts]

LocksTyped ==
    /\ locks \subseteq [call : Calls, due : BOOLEAN]
    /\ \A l, m \in locks : m.call = l.call => m = l

VotesTyped ==
    IsFiniteSet(votes) /\ \A v \in votes : Cardinality(Voters(v[1])) < Threshold

AxelarTyped ==
    /\ calls \in Seq([payload : Proposals, used : BOOLEAN]) /\ Len(calls) <= MaxCalls
    /\ drafts \subseteq Proposals

WorldTyped ==
    /\ TargetsTyped /\ LocksTyped /\ approvals \subseteq Calls
    /\ VotesTyped /\ funds \in 0..1 /\ AxelarTyped

Typed == scenario \in Scenarios /\ RunsTyped /\ WorldTyped /\ file \in Entry

\* What an entry names was true once, if ever says who had what so far.
WasTrue(e, ever) ==
    /\ e.governance \in ever.governance
    /\ e.limiter \in ever.limiter
    /\ e.owner \in ever.owner

\* A command that changed the gateway and still has to note it.
Effected(r, ever) ==
    r.pc = "record" /\ r.ok =>
        /\ r.cmd.op = "gatewayGovernance" => r.cmd.to \in ever.governance
        /\ r.cmd.op = "gatewayMintLimiter" => r.cmd.to \in ever.limiter

TrueInv ==
    /\ WasTrue(file, past) /\ owned.owner \in past.owner
    /\ \A p \in People :
          run[p].pc # "idle" => WasTrue(run[p].mem, past) /\ Effected(run[p], past)

\* The condition of the contract, on the other contract as a script saw it.
OwnedMay(c, o) ==
    /\ c.op \in {"transferOwnership", "proposeOwnership"} => o.owner = c.by
    /\ c.op = "acceptOwnership" => o.pending = c.by
    /\ c.op = "addOperator" => o.owner = c.by /\ c.to \notin o.operators
    /\ c.op = "removeOperator" => o.owner = c.by /\ c.to \in o.operators
    /\ c.op \in {"collectFees", "refund"} => c.by \in o.operators

\* What a script saw, before it asks and sends, is what the contract asks for.
Vouched(p, r) ==
    r.pc \in {"prompt", "sent"} =>
        /\ r.cmd.op = "execute" => \E l \in r.seen[1] : l.due
        /\ r.cmd.op \in GatewayOps => r.seen[1] = "wallet"
        /\ r.cmd.op \in MultisigOps =>
              /\ <<<<r.cmd.op, r.cmd.to, r.call>>, p>> \notin r.seen[1]
              /\ r.cmd.op = "withdraw" => r.seen[2] > 0
              /\ r.cmd.op = "setFlowLimits" => "multisig" \in r.seen[3].operators
        /\ r.cmd.op \in OwnerOps \cup OperatorOps => OwnedMay(r.cmd, r.seen[1])

VouchedInv == \A p \in People : Vouched(p, run[p])
-----------------------------------------------------------------------------
(* What the steps do to one person's run. *)

LEMMA CommandFields ==
    ASSUME NEW c \in Commands
    PROVE  /\ c.to \in Accounts /\ c.by \in Accounts /\ c.date \in Nat
           /\ c.action \in {"upgrade", "transferGovernance"}
           /\ c.op \in GovernanceOps \cup MultisigOps \cup DirectOps
BY ScenariosOK DEF Command, DirectOps

LEMMA IdleOK == RunOK(Idle)
<1>1. NoEntry \in Entry
    BY ScenariosOK DEF NoEntry, Entry, Accounts
<1>2. NoCall \in Calls
    BY ScenariosOK DEF NoCall, Call, Calls
<1> QED
    BY <1>1, <1>2 DEF RunOK, Idle

\* Whoever takes a step changes his own run only.
LEMMA RunSet ==
    ASSUME RunsTyped, NEW p \in People, NEW r, RunOK(r), run' = [run EXCEPT ![p] = r]
    PROVE  RunsTyped' /\ run'[p] = r /\ \A q \in People \ {p} : run'[q] = run[q]
<1>1. run'[p] = r /\ \A q \in People \ {p} : run'[q] = run[q]
    BY DEF RunsTyped
<1>2. run' = [q \in People |-> run'[q]]
    BY DEF RunsTyped
<1>3. \A q \in People : RunOK(run'[q])
    BY <1>1 DEF RunsTyped
<1> QED
    BY <1>1, <1>2, <1>3 DEF RunsTyped

\* The fields of a run that are typed.
LEMMA RunFields ==
    ASSUME RunsTyped, NEW p \in People
    PROVE  /\ run[p].pc \in {"idle", "check", "prompt", "sent", "record"}
           /\ run[p].mem \in Entry /\ run[p].call \in Calls
           /\ run[p].yes \in BOOLEAN /\ run[p].ok \in BOOLEAN
           /\ run[p].cmd \in Commands \cup {NoCommand}
           /\ run[p].pc # "idle" => run[p].cmd \in Commands
BY DEF RunsTyped, RunOK

\* The process ends.
LEMMA EndsRun ==
    ASSUME RunsTyped, NEW p \in People, run' = [run EXCEPT ![p] = Idle]
    PROVE  /\ RunsTyped' /\ \A q \in People \ {p} : run'[q] = run[q]
           /\ run'[p].pc = "idle"
<1>1. RunsTyped' /\ run'[p] = Idle /\ \A q \in People \ {p} : run'[q] = run[q]
    BY IdleOK, RunSet
<1> QED
    BY <1>1 DEF Idle

\* The checks are passed, and the script asks.
LEMMA AsksRun ==
    ASSUME RunsTyped, NEW p \in People, run[p].pc # "idle", NEW call \in Calls, NEW seen,
           \/ run' = [run EXCEPT ![p].pc = "prompt", ![p].call = call, ![p].seen = seen]
           \/ \E yes \in BOOLEAN :
                 run' = [run EXCEPT ![p].pc = "prompt", ![p].call = call, ![p].yes = yes,
                                    ![p].seen = seen]
    PROVE  /\ RunsTyped' /\ \A q \in People \ {p} : run'[q] = run[q]
           /\ run'[p].pc = "prompt" /\ run'[p].call = call /\ run'[p].seen = seen
           /\ run'[p].cmd = run[p].cmd /\ run'[p].mem = run[p].mem
<1>1. RunOK(run[p])
    BY DEF RunsTyped
<1>2. CASE run' = [run EXCEPT ![p].pc = "prompt", ![p].call = call, ![p].seen = seen]
  <2> DEFINE e == [run[p] EXCEPT !.pc = "prompt", !.call = call, !.seen = seen]
  <2>1. RunOK(e) /\ e.pc = "prompt" /\ e.call = call /\ e.seen = seen
        /\ e.cmd = run[p].cmd /\ e.mem = run[p].mem
      BY <1>1 DEF RunOK
  <2>2. run' = [run EXCEPT ![p] = e]
      BY <1>2, Zenon
  <2> HIDE DEF e
  <2>3. RunsTyped' /\ run'[p] = e /\ \A q \in People \ {p} : run'[q] = run[q]
      BY <2>1, <2>2, RunSet
  <2> QED
      BY <2>1, <2>3
<1>3. CASE \E yes \in BOOLEAN :
              run' = [run EXCEPT ![p].pc = "prompt", ![p].call = call, ![p].yes = yes,
                                 ![p].seen = seen]
  <2>1. PICK yes \in BOOLEAN :
              run' = [run EXCEPT ![p].pc = "prompt", ![p].call = call, ![p].yes = yes,
                                 ![p].seen = seen]
      BY <1>3
  <2> DEFINE e == [run[p] EXCEPT !.pc = "prompt", !.call = call, !.yes = yes,
                                 !.seen = seen]
  <2>2. RunOK(e) /\ e.pc = "prompt" /\ e.call = call /\ e.seen = seen
        /\ e.cmd = run[p].cmd /\ e.mem = run[p].mem
      BY <1>1 DEF RunOK
  <2>3. run' = [run EXCEPT ![p] = e]
      BY <2>1, Zenon
  <2> HIDE DEF e
  <2>4. RunsTyped' /\ run'[p] = e /\ \A q \in People \ {p} : run'[q] = run[q]
      BY <2>2, <2>3, RunSet
  <2> QED
      BY <2>2, <2>4
<1> QED
    BY <1>2, <1>3

\* The transaction is sent.
LEMMA SendsRun ==
    ASSUME RunsTyped, NEW p \in People, run[p].pc # "idle",
           run' = [run EXCEPT ![p].pc = "sent"]
    PROVE  /\ RunsTyped' /\ \A q \in People \ {p} : run'[q] = run[q]
           /\ run'[p].pc = "sent" /\ run'[p].call = run[p].call
           /\ run'[p].seen = run[p].seen /\ run'[p].cmd = run[p].cmd
           /\ run'[p].mem = run[p].mem
<1> DEFINE e == [run[p] EXCEPT !.pc = "sent"]
<1>1. RunOK(run[p])
    BY DEF RunsTyped
<1>2. RunOK(e) /\ e.pc = "sent" /\ e.call = run[p].call /\ e.seen = run[p].seen
      /\ e.cmd = run[p].cmd /\ e.mem = run[p].mem
    BY <1>1 DEF RunOK
<1>3. run' = [run EXCEPT ![p] = e]
    BY Zenon
<1> HIDE DEF e
<1>4. RunsTyped' /\ run'[p] = e /\ \A q \in People \ {p} : run'[q] = run[q]
    BY <1>2, <1>3, RunSet
<1> QED
    BY <1>2, <1>4

\* The transaction is included.
LEMMA MinedRun ==
    ASSUME RunsTyped, NEW p \in People, run[p].pc # "idle", NEW ok \in BOOLEAN, Mined(p, ok)
    PROVE  /\ RunsTyped' /\ \A q \in People \ {p} : run'[q] = run[q]
           /\ run'[p].pc = "record" /\ run'[p].ok = ok
           /\ run'[p].cmd = run[p].cmd /\ run'[p].mem = run[p].mem
<1> DEFINE e == [run[p] EXCEPT !.pc = "record", !.ok = ok]
<1>1. RunOK(run[p])
    BY DEF RunsTyped
<1>2. RunOK(e) /\ e.pc = "record" /\ e.ok = ok /\ e.cmd = run[p].cmd /\ e.mem = run[p].mem
    BY <1>1 DEF RunOK
<1>3. run' = [run EXCEPT ![p] = e]
    BY Zenon DEF Mined
<1> HIDE DEF e
<1>4. RunsTyped' /\ run'[p] = e /\ \A q \in People \ {p} : run'[q] = run[q]
    BY <1>2, <1>3, RunSet
<1> QED
    BY <1>2, <1>4

\* A command is started.
LEMMA StartsRun ==
    ASSUME RunsTyped, file \in Entry, NEW p \in People, NEW c \in Commands,
           run' = [run EXCEPT ![p] = [Idle EXCEPT !.pc = "check", !.cmd = c, !.mem = file]]
    PROVE  /\ RunsTyped' /\ \A q \in People \ {p} : run'[q] = run[q]
           /\ run'[p].pc = "check" /\ run'[p].cmd = c /\ run'[p].mem = file
<1> DEFINE e == [Idle EXCEPT !.pc = "check", !.cmd = c, !.mem = file]
<1>1. RunOK(Idle)
    BY IdleOK
<1>2. RunOK(e) /\ e.pc = "check" /\ e.cmd = c /\ e.mem = file
    BY <1>1 DEF RunOK
<1>3. run' = [run EXCEPT ![p] = e]
    BY Zenon
<1> HIDE DEF e
<1>4. RunsTyped' /\ run'[p] = e /\ \A q \in People \ {p} : run'[q] = run[q]
    BY <1>2, <1>3, RunSet
<1> QED
    BY <1>2, <1>4
-----------------------------------------------------------------------------
(* What the calls of the contracts do to their state. *)

\* A payload that is accepted schedules, cancels or approves a call, once.
LEMMA AcceptTyped ==
    ASSUME LocksTyped, AxelarTyped, approvals \subseteq Calls, NEW i \in DOMAIN calls,
           Accepts(calls[i].payload), Accept(i), drafts' = drafts
    PROVE  LocksTyped' /\ AxelarTyped' /\ approvals' \subseteq Calls
<1> DEFINE p == calls[i].payload
<1>1. calls \in Seq([payload : Proposals, used : BOOLEAN]) /\ i \in 1..Len(calls)
    BY DEF AxelarTyped
<1>2. calls[i] \in [payload : Proposals, used : BOOLEAN]
  <2> DEFINE S == [payload : Proposals, used : BOOLEAN]
  <2>1. calls \in Seq(S)
      BY <1>1
  <2> HIDE DEF S
  <2>2. calls[i] \in S
      BY <1>1, <2>1
  <2> QED
      BY <2>2 DEF S
<1>3. p.call \in Calls /\ p \in Proposals
    BY <1>2 DEF Proposals
<1>4. LocksTyped'
  <2>1. CASE p.type = "schedule"
    <3>1. /\ locks' = locks \cup {[call |-> p.call, due |-> FALSE]}
          /\ {l \in locks : l.call = p.call} = {}
        BY <2>1 DEF Accept, Accepts, LockOf
    <3>2. LocksTyped' <=> /\ locks' \subseteq [call : Calls, due : BOOLEAN]
                          /\ \A l, m \in locks' : m.call = l.call => m = l
        BY DEF LocksTyped
    <3> DEFINE new == [call |-> p.call, due |-> FALSE]
    <3>3. new \in [call : Calls, due : BOOLEAN] /\ new.call = p.call
        BY <1>3
    <3>4. locks' = locks \cup {new}
        BY <3>1
    <3> HIDE DEF p, new
    <3>5. \A l \in locks : l.call # new.call
        BY <3>1, <3>3
    <3> QED
        BY <3>2, <3>3, <3>4, <3>5 DEF LocksTyped
  <2>2. CASE p.type # "schedule"
    <3>1. locks' \subseteq locks
        BY <2>2 DEF Accept, LockOf
    <3> QED
        BY <3>1 DEF LocksTyped
  <2> QED
      BY <2>1, <2>2
<1>5. approvals' \subseteq Calls
    BY <1>3 DEF Accept
<1>6. AxelarTyped'
  <2> DEFINE e == [calls[i] EXCEPT !.used = TRUE]
  <2>1. e \in [payload : Proposals, used : BOOLEAN]
      BY <1>2
  <2>2. calls' = [calls EXCEPT ![i] = e]
      BY Zenon DEF Accept
  <2> HIDE DEF e
  <2>3. calls' \in Seq([payload : Proposals, used : BOOLEAN]) /\ Len(calls') = Len(calls)
      BY <1>1, <2>1, <2>2
  <2> QED
      BY <2>3 DEF AxelarTyped
<1> QED
    BY <1>4, <1>5, <1>6

\* What somebody was, he was for ever.
PastGrows ==
    /\ past.governance \subseteq past'.governance
    /\ past.limiter \subseteq past'.limiter
    /\ past.owner \subseteq past'.owner

\* The gateway obeys the governance contract.
LEMMA ApplyTyped ==
    ASSUME TargetsTyped, NEW call \in Calls, Apply(call), UNCHANGED owned
    PROVE  TargetsTyped' /\ PastGrows
<1>1. gateway' \in [governance : Accounts, limiter : Accounts,
                    implementation : 1..MaxReleases]
    BY DEF TargetsTyped, Apply, Calls
<1>2. past' = [past EXCEPT !.governance = @ \cup {gateway'.governance},
                           !.limiter = @ \cup {gateway'.limiter}]
    BY DEF Apply
<1>3. gateway'.governance \in Accounts /\ gateway'.limiter \in Accounts
    BY <1>1
<1> QED
    BY <1>1, <1>2, <1>3 DEF TargetsTyped, PastGrows

\* A vote that does not decide leaves less votes than decide.
LEMMA VoteTyped ==
    ASSUME VotesTyped, NEW p,
           votes' = IF ~VoteWorks(p) THEN votes
                    ELSE IF Decides(Topic(p)) THEN votes \ Voters(Topic(p))
                    ELSE votes \cup {<<Topic(p), p>>}
    PROVE  VotesTyped'
<1> DEFINE t == Topic(p)
           few(V) == \A v \in V : Cardinality({w \in V : w[1] = v[1]}) < Threshold
<1>1. IsFiniteSet(votes) /\ few(votes) /\ Threshold \in Nat \ {0}
    BY ScenariosOK DEF VotesTyped, Voters
<1>2. VotesTyped' <=> IsFiniteSet(votes') /\ few(votes')
    BY DEF VotesTyped, Voters
<1>3. CASE ~VoteWorks(p)
    BY <1>1, <1>2, <1>3
<1>4. CASE VoteWorks(p) /\ Decides(t)
  <2>1. votes' \subseteq votes
      BY <1>4
  <2>2. IsFiniteSet(votes')
      BY <1>1, <2>1, FS_Subset
  <2>3. ASSUME NEW v \in votes'
        PROVE  Cardinality({w \in votes' : w[1] = v[1]}) < Threshold
    <3> DEFINE A == {w \in votes' : w[1] = v[1]}
               B == {w \in votes : w[1] = v[1]}
    <3>1. A \subseteq B /\ B \subseteq votes
        BY <2>1
    <3>2. IsFiniteSet(B) /\ IsFiniteSet(A)
        BY <1>1, <3>1, FS_Subset
    <3>3. Cardinality(A) <= Cardinality(B)
        BY <3>1, <3>2, FS_Subset
    <3>4. Cardinality(B) < Threshold
        BY <1>1, <2>1, <2>3
    <3>5. Cardinality(A) \in Nat /\ Cardinality(B) \in Nat
        BY <3>2, FS_CardinalityType
    <3> HIDE DEF A, B
    <3>6. Cardinality(A) < Threshold
        BY <1>1, <3>3, <3>4, <3>5
    <3> QED
        BY <3>6 DEF A
  <2> QED
      BY <1>2, <2>2, <2>3
<1>5. CASE VoteWorks(p) /\ ~Decides(t)
  <2> DEFINE V == {w \in votes : w[1] = t}
  <2>1. votes' = votes \cup {<<t, p>>}
      BY <1>5
  <2>2. IsFiniteSet(votes') /\ IsFiniteSet(V)
      BY <1>1, <2>1, FS_AddElement, FS_Subset
  <2>3. <<t, p>> \notin votes /\ <<t, p>>[1] = t /\ <<t, p>> \notin V
      BY <1>5 DEF VoteWorks
  <2>4. Cardinality(V \cup {<<t, p>>}) = Cardinality(V) + 1
      BY <2>2, <2>3, FS_AddElement
  <2>5. Cardinality(V) + 1 # Threshold
      BY <1>5 DEF Decides, Voters
  <2>6. Cardinality(V) < Threshold
    <3>1. CASE V = {}
      <4> HIDE DEF V
      <4>1. Cardinality(V) = 0
          BY <3>1, FS_EmptySet
      <4> QED
          BY <1>1, <4>1
    <3>2. CASE V # {}
      <4>1. PICK v \in V : TRUE
          BY <3>2
      <4>2. v \in votes /\ {w \in votes : w[1] = v[1]} = V
          BY <4>1
      <4> QED
          BY <1>1, <4>2
    <3> QED
        BY <3>1, <3>2
  <2>7. Cardinality(V \cup {<<t, p>>}) < Threshold
      BY <1>1, <2>2, <2>4, <2>5, <2>6, FS_CardinalityType
  <2>8. ASSUME NEW v \in votes'
        PROVE  Cardinality({w \in votes' : w[1] = v[1]}) < Threshold
    <3>1. CASE v[1] = t
      <4>1. {w \in votes' : w[1] = v[1]} = V \cup {<<t, p>>}
          BY <2>1, <2>3, <3>1
      <4> QED
          BY <2>7, <4>1
    <3>2. CASE v[1] # t
      <4>1. v \in votes /\ {w \in votes' : w[1] = v[1]} = {w \in votes : w[1] = v[1]}
          BY <2>1, <2>3, <2>8, <3>2
      <4> QED
          BY <1>1, <4>1
    <3> QED
        BY <3>1, <3>2
  <2> QED
      BY <1>2, <2>2, <2>8
<1> QED
    BY <1>3, <1>4, <1>5
-----------------------------------------------------------------------------
(* The checks of a command: it ends, or it asks. *)

LEMMA ProposalCallTyped ==
    ASSUME Typed, NEW p \in People, run[p].pc # "idle"
    PROVE  ProposalCall(p) \in Calls
<1>1. run[p].cmd \in Commands /\ run[p].mem \in Entry
    BY RunFields DEF Typed
<1>2. run[p].mem.implementation \in 1..MaxReleases /\ run[p].cmd.to \in Accounts
    BY <1>1, CommandFields DEF Entry
<1>3. UpgradeCall(p) \in Calls
    BY <1>2, ScenariosOK DEF UpgradeCall, Call, Calls, NewGovernance, NewMintLimiter, Accounts
<1> QED
    BY <1>2, <1>3, ScenariosOK DEF ProposalCall, Call, Calls

LEMMA ExecuteCallTyped ==
    ASSUME Typed, NEW p \in People, run[p].pc # "idle"
    PROVE  ExecuteCall(p) \in Calls
<1> DEFINE i == run[p].cmd.proposal
           S == [payload : Proposals, used : BOOLEAN]
<1>1. CASE i \in DOMAIN calls
  <2>1. calls \in Seq(S)
      BY DEF Typed, WorldTyped, AxelarTyped
  <2> HIDE DEF S, i
  <2>2. calls[i] \in S
      BY <1>1, <2>1
  <2>3. calls[i].payload.call \in Calls
      BY <2>2 DEF S, Proposals
  <2> QED
      BY <1>1, <2>3 DEF ExecuteCall, i
<1>2. CASE i \notin DOMAIN calls
    BY <1>2, ProposalCallTyped DEF ExecuteCall
<1> QED
    BY <1>1, <1>2

\* What a script has checked when it asks.
Passed(p, call) ==
    /\ run[p].cmd.op = "execute" => \E l \in LockOf(call) : l.due
    /\ run[p].cmd.op \in DirectOps => CallerMay(p)
    /\ run[p].cmd.op \in MultisigOps => <<TopicOf(p, call), p>> \notin votes /\ Offered(p)

Asks(p, call) ==
    /\ \/ run' = [run EXCEPT ![p].pc = "prompt", ![p].call = call,
                             ![p].seen = Relevant(p, call)]
       \/ \E yes \in BOOLEAN :
             run' = [run EXCEPT ![p].pc = "prompt", ![p].call = call, ![p].yes = yes,
                                ![p].seen = Relevant(p, call)]
    /\ UNCHANGED <<scenario, contracts, axelarVars, past, file>>

LEMMA AskedRun ==
    ASSUME RunsTyped, NEW p \in People, run[p].pc # "idle", NEW call \in Calls, Asks(p, call)
    PROVE  /\ RunsTyped' /\ \A q \in People \ {p} : run'[q] = run[q]
           /\ run'[p].pc = "prompt" /\ run'[p].call = call
           /\ run'[p].seen = Relevant(p, call)
           /\ run'[p].cmd = run[p].cmd /\ run'[p].mem = run[p].mem
<1> DEFINE seen == Relevant(p, call)
<1>1. \/ run' = [run EXCEPT ![p].pc = "prompt", ![p].call = call, ![p].seen = seen]
      \/ \E yes \in BOOLEAN :
            run' = [run EXCEPT ![p].pc = "prompt", ![p].call = call, ![p].yes = yes,
                               ![p].seen = seen]
    BY DEF Asks
<1> HIDE DEF seen
<1>2. /\ RunsTyped' /\ \A q \in People \ {p} : run'[q] = run[q]
      /\ run'[p].pc = "prompt" /\ run'[p].call = call /\ run'[p].seen = seen
      /\ run'[p].cmd = run[p].cmd /\ run'[p].mem = run[p].mem
    BY <1>1, AsksRun
<1> QED
    BY <1>2 DEF seen

\* Whatever was drafted is a proposal.
Stops(p) ==
    /\ Ends(p, run[p].mem) /\ drafts' \subseteq drafts \cup Proposals
    /\ UNCHANGED <<scenario, contracts, calls, past>>

LEMMA CheckStep ==
    ASSUME Typed, NEW p \in People, Check(p)
    PROVE  /\ run[p].pc = "check"
           /\ Stops(p) \/ \E call \in Calls : Asks(p, call) /\ Passed(p, call)
<1>1. run[p].pc = "check"
    BY DEF Check, Schedule, Cancel, ScheduleMultisig, CancelMultisig, SubmitCheck,
           ExecuteCheck, MultisigCheck, DirectCheck, Doing
<1>2. run[p].cmd.date \in Nat
    BY <1>1, RunFields, CommandFields DEF Typed
<1>3. ProposalCall(p) \in Calls /\ ExecuteCall(p) \in Calls /\ NoCall \in Calls
    BY <1>1, ProposalCallTyped, ExecuteCallTyped, ScenariosOK DEF NoCall, Call, Calls
<1>4. Throws(p) => Stops(p)
    BY DEF Throws, Stops, axelarVars
<1>5. ASSUME NEW type \in {"schedule", "cancel", "approve", "cancelApproval"},
             NEW eta \in Nat, Propose(p, Payload(type, ProposalCall(p), eta))
      PROVE  Stops(p)
    BY <1>3, <1>5 DEF Propose, Stops, Payload, Proposals
<1>6. ASSUME NEW call, GoesOn(p, call) PROVE Asks(p, call)
    BY <1>6 DEF GoesOn, Asks
<1>7. CASE Schedule(p) \/ Cancel(p) \/ ScheduleMultisig(p) \/ CancelMultisig(p)
    BY <1>1, <1>2, <1>4, <1>5, <1>7 DEF Schedule, Cancel, ScheduleMultisig, CancelMultisig
<1>8. CASE SubmitCheck(p)
  <2>1. Asks(p, ProposalCall(p)) /\ run[p].cmd.op \in {"submit", "submitMultisig"}
      BY <1>6, <1>8 DEF SubmitCheck
  <2>2. Passed(p, ProposalCall(p))
      BY <2>1 DEF Passed, DirectOps, GatewayOps, OwnerOps, OperatorOps, MultisigOps
  <2> QED
      BY <1>1, <1>3, <2>1, <2>2
<1>9. CASE ExecuteCheck(p)
  <2>1. CASE \E l \in LockOf(ExecuteCall(p)) : l.due
    <3>1. Asks(p, ExecuteCall(p)) /\ run[p].cmd.op = "execute"
        BY <1>6, <1>9, <2>1 DEF ExecuteCheck, Doing
    <3>2. Passed(p, ExecuteCall(p))
        BY <2>1, <3>1 DEF Passed, DirectOps, GatewayOps, OwnerOps, OperatorOps, MultisigOps
    <3> QED
        BY <1>1, <1>3, <3>1, <3>2
  <2>2. CASE ~ \E l \in LockOf(ExecuteCall(p)) : l.due
      BY <1>1, <1>4, <1>9, <2>2 DEF ExecuteCheck
  <2> QED
      BY <2>1, <2>2
<1>10. CASE MultisigCheck(p)
  <2> DEFINE call == IF run[p].cmd.op = "executeMultisigProposal"
                     THEN ExecuteCall(p) ELSE NoCall
  <2>1. call \in Calls /\ run[p].cmd.op \in MultisigOps
      BY <1>3, <1>10 DEF MultisigCheck
  <2>2. CASE <<TopicOf(p, call), p>> \in votes \/ ~Offered(p)
      BY <1>1, <1>4, <1>10, <2>2 DEF MultisigCheck
  <2>3. CASE ~(<<TopicOf(p, call), p>> \in votes \/ ~Offered(p))
    <3>1. Asks(p, call)
        BY <1>10, <2>3 DEF MultisigCheck, Asks
    <3>2. Passed(p, call)
        BY <2>1, <2>3 DEF Passed, DirectOps, GatewayOps, OwnerOps, OperatorOps, MultisigOps
    <3> QED
        BY <1>1, <2>1, <3>1, <3>2
  <2> QED
      BY <2>2, <2>3
<1>11. CASE DirectCheck(p)
  <2>1. CASE CallerMay(p)
    <3>1. Asks(p, NoCall) /\ run[p].cmd.op \in DirectOps
        BY <1>6, <1>11, <2>1 DEF DirectCheck
    <3>2. Passed(p, NoCall)
        BY <2>1, <3>1 DEF Passed, DirectOps, GatewayOps, OwnerOps, OperatorOps, MultisigOps
    <3> QED
        BY <1>1, <1>3, <3>1, <3>2
  <2>2. CASE ~CallerMay(p)
      BY <1>1, <1>4, <1>11, <2>2 DEF DirectCheck
  <2> QED
      BY <2>1, <2>2
<1> QED
    BY <1>7, <1>8, <1>9, <1>10, <1>11 DEF Check
-----------------------------------------------------------------------------
(* The transaction of a command is included. *)

\* What follows for the contracts, and for what the script notes afterwards.
Included(p, ok) ==
    /\ Mined(p, ok) /\ WorldTyped' /\ PastGrows
    /\ owned.owner \in past.owner => owned'.owner \in past'.owner
    /\ ok => /\ run[p].cmd.op = "gatewayGovernance" => run[p].cmd.to \in past'.governance
             /\ run[p].cmd.op = "gatewayMintLimiter" => run[p].cmd.to \in past'.limiter
    /\ UNCHANGED <<scenario, file>>

LEMMA PastStays == UNCHANGED past => PastGrows
BY DEF PastGrows

\* The multisig counts a vote, or refuses it.
LEMMA VotesIncluded ==
    ASSUME Typed, NEW p \in People, NEW op \in MultisigOps, Votes(p, op),
           TargetsTyped', PastGrows, approvals' \subseteq Calls, funds' \in 0..1
    PROVE  \E ok \in BOOLEAN : Included(p, ok)
<1>1. VoteWorks(p) \in BOOLEAN /\ Mined(p, VoteWorks(p))
    BY DEF Votes, VoteWorks
<1>2. VotesTyped'
    BY VoteTyped DEF Votes, Typed, WorldTyped
<1>3. UNCHANGED <<scenario, owned, locks, calls, drafts, file>>
    BY DEF Votes, axelarVars
<1>4. WorldTyped'
    BY <1>2, <1>3 DEF Typed, WorldTyped, LocksTyped, AxelarTyped
<1>5. run[p].cmd.op \in MultisigOps
    BY DEF Votes, Doing
<1>6. run[p].cmd.op # "gatewayGovernance" /\ run[p].cmd.op # "gatewayMintLimiter"
    BY <1>5 DEF MultisigOps
<1>7. owned.owner \in past.owner => owned'.owner \in past'.owner
    BY <1>3 DEF PastGrows
<1>8. Included(p, VoteWorks(p))
    BY <1>1, <1>3, <1>4, <1>6, <1>7 DEF Included
<1> QED
    BY <1>1, <1>8

\* A call of the gateway by its governor or mint limiter.
LEMMA GatewayIncluded ==
    ASSUME Typed, NEW p \in People, run[p].pc = "sent",
           GatewayGovernanceSent(p) \/ GatewayMintLimiterSent(p)
    PROVE  \E ok \in BOOLEAN : Included(p, ok)
<1> DEFINE to == run[p].cmd.to
<1>1. to \in Accounts
    BY RunFields, CommandFields DEF Typed
<1>2. CallerMay(p) \in BOOLEAN
    BY DEF CallerMay, MayTransferGatewayGovernance, MayTransferGatewayMintLimiter,
           GatewayGovernanceSent, GatewayMintLimiterSent, CallsGateway, Doing
<1>3. /\ Mined(p, CallerMay(p))
      /\ UNCHANGED <<scenario, owned, locks, approvals, funds, votes, calls, drafts, file>>
    BY DEF GatewayGovernanceSent, GatewayMintLimiterSent, CallsGateway, axelarVars
<1>4. /\ TargetsTyped' /\ PastGrows
      /\ CallerMay(p) => /\ run[p].cmd.op = "gatewayGovernance" => to \in past'.governance
                         /\ run[p].cmd.op = "gatewayMintLimiter" => to \in past'.limiter
  <2>1. CASE ~CallerMay(p)
    <3>1. UNCHANGED <<gateway, past>>
        BY <2>1 DEF GatewayGovernanceSent, GatewayMintLimiterSent, CallsGateway
    <3> QED
        BY <1>3, <2>1, <3>1, PastStays DEF TargetsTyped, Typed, WorldTyped
  <2>2. CASE GatewayGovernanceSent(p) /\ CallerMay(p)
    <3>1. /\ run[p].cmd.op = "gatewayGovernance"
          /\ gateway' = [gateway EXCEPT !["governance"] = to]
          /\ past' = [past EXCEPT !["governance"] = @ \cup {to}]
        BY <2>2 DEF GatewayGovernanceSent, CallsGateway, Doing
    <3> QED
        BY <1>1, <1>3, <3>1 DEF TargetsTyped, Typed, WorldTyped, PastGrows
  <2>3. CASE GatewayMintLimiterSent(p) /\ CallerMay(p)
    <3>1. /\ run[p].cmd.op = "gatewayMintLimiter"
          /\ gateway' = [gateway EXCEPT !["limiter"] = to]
          /\ past' = [past EXCEPT !["limiter"] = @ \cup {to}]
        BY <2>3 DEF GatewayMintLimiterSent, CallsGateway, Doing
    <3> QED
        BY <1>1, <1>3, <3>1 DEF TargetsTyped, Typed, WorldTyped, PastGrows
  <2> QED
      BY <2>1, <2>2, <2>3
<1>5. WorldTyped'
    BY <1>3, <1>4 DEF Typed, WorldTyped, LocksTyped, VotesTyped, Voters, AxelarTyped
<1>6. owned.owner \in past.owner => owned'.owner \in past'.owner
    BY <1>3, <1>4 DEF PastGrows
<1>7. Included(p, CallerMay(p))
    BY <1>3, <1>4, <1>5, <1>6 DEF Included
<1> QED
    BY <1>2, <1>7

\* A call of the other contract by its owner or an operator.
LEMMA OwnedIncluded ==
    ASSUME Typed, NEW p \in People, NEW op \in OwnerOps \cup OperatorOps, NEW new,
           CallsOwned(p, op, new),
           new \in [owner : Accounts, pending : Accounts \cup {Nobody},
                    operators : SUBSET Accounts]
    PROVE  \E ok \in BOOLEAN : Included(p, ok)
<1>1. run[p].cmd.op = op /\ run[p].pc = "sent"
    BY DEF CallsOwned, Doing
<1>2. CallerMay(p) \in BOOLEAN
  <2> DEFINE c == run[p].cmd
  <2>1. /\ MayTransferOwnership(c) \in BOOLEAN /\ MayProposeOwnership(c) \in BOOLEAN
        /\ MayAcceptOwnership(c) \in BOOLEAN /\ MayAddOperator(c) \in BOOLEAN
        /\ MayRemoveOperator(c) \in BOOLEAN /\ MayCollectFees(c) \in BOOLEAN
        /\ MayRefund(c) \in BOOLEAN
      BY DEF MayTransferOwnership, MayProposeOwnership, MayAcceptOwnership,
             MayAddOperator, MayRemoveOperator, MayCollectFees, MayRefund
  <2>2. c.op = op
      BY <1>1
  <2> QED
      BY <2>1, <2>2 DEF CallerMay, OwnerOps, OperatorOps
<1>3. /\ Mined(p, CallerMay(p))
      /\ past' = [past EXCEPT !.owner = @ \cup {owned'.owner}]
      /\ UNCHANGED <<scenario, gateway, locks, approvals, funds, votes, calls, drafts, file>>
    BY DEF CallsOwned, axelarVars
<1>4. owned' \in [owner : Accounts, pending : Accounts \cup {Nobody},
                  operators : SUBSET Accounts]
    BY DEF CallsOwned, Typed, WorldTyped, TargetsTyped
<1>5. owned'.owner \in Accounts
    BY <1>4
<1>6. TargetsTyped' /\ PastGrows /\ owned'.owner \in past'.owner
    BY <1>3, <1>4, <1>5 DEF Typed, WorldTyped, TargetsTyped, PastGrows
<1>7. WorldTyped'
    BY <1>3, <1>6 DEF Typed, WorldTyped, LocksTyped, VotesTyped, Voters, AxelarTyped
<1>8. run[p].cmd.op # "gatewayGovernance" /\ run[p].cmd.op # "gatewayMintLimiter"
    BY <1>1 DEF OwnerOps, OperatorOps
<1>9. Included(p, CallerMay(p))
    BY <1>3, <1>6, <1>7, <1>8 DEF Included
<1> QED
    BY <1>2, <1>9

LEMMA SubmitIncluded ==
    ASSUME Typed, NEW p \in People, SubmitSent(p)
    PROVE  \E ok \in BOOLEAN : Included(p, ok)
<1>1. SubmitWorks(p) \in BOOLEAN /\ Mined(p, SubmitWorks(p))
    BY DEF SubmitSent, SubmitWorks
<1>2. UNCHANGED <<scenario, gateway, owned, funds, votes, drafts, past, file>>
    BY DEF SubmitSent, targets
<1>3. LocksTyped' /\ AxelarTyped' /\ approvals' \subseteq Calls
  <2>1. CASE SubmitWorks(p)
    <3>1. /\ run[p].cmd.id \in DOMAIN calls /\ Accept(run[p].cmd.id)
          /\ Accepts(calls[run[p].cmd.id].payload)
        BY <2>1 DEF SubmitSent, SubmitWorks
    <3> QED
        BY <1>2, <3>1, AcceptTyped DEF Typed, WorldTyped
  <2>2. CASE ~SubmitWorks(p)
    <3>1. UNCHANGED <<locks, approvals, calls>>
        BY <2>2 DEF SubmitSent
    <3> QED
        BY <1>2, <3>1 DEF Typed, WorldTyped, LocksTyped, AxelarTyped
  <2> QED
      BY <2>1, <2>2
<1>4. WorldTyped' /\ PastGrows
    BY <1>2, <1>3, PastStays DEF Typed, WorldTyped, TargetsTyped, VotesTyped, Voters
<1>5. run[p].cmd.op # "gatewayGovernance" /\ run[p].cmd.op # "gatewayMintLimiter"
    BY DEF SubmitSent
<1>6. Included(p, SubmitWorks(p))
    BY <1>1, <1>2, <1>4, <1>5 DEF Included
<1> QED
    BY <1>1, <1>6

LEMMA ExecuteIncluded ==
    ASSUME Typed, NEW p \in People, ExecuteSent(p)
    PROVE  \E ok \in BOOLEAN : Included(p, ok)
<1>1. ExecuteWorks(p) \in BOOLEAN /\ Mined(p, ExecuteWorks(p))
    BY DEF ExecuteSent, ExecuteWorks
<1>2. UNCHANGED <<scenario, owned, approvals, funds, votes, calls, drafts, file>>
    BY DEF ExecuteSent, axelarVars
<1>3. LocksTyped' /\ TargetsTyped' /\ PastGrows
  <2>1. CASE ExecuteWorks(p)
    <3>1. locks' \subseteq locks /\ Apply(run[p].call)
        BY <2>1 DEF ExecuteSent
    <3>2. run[p].call \in Calls
        BY RunFields DEF Typed
    <3> QED
        BY <1>2, <3>1, <3>2, ApplyTyped DEF Typed, WorldTyped, LocksTyped
  <2>2. CASE ~ExecuteWorks(p)
    <3>1. UNCHANGED <<locks, gateway, past>>
        BY <2>2 DEF ExecuteSent
    <3> QED
        BY <1>2, <3>1, PastStays DEF Typed, WorldTyped, LocksTyped, TargetsTyped
  <2> QED
      BY <2>1, <2>2
<1>4. WorldTyped'
    BY <1>2, <1>3 DEF Typed, WorldTyped, VotesTyped, Voters, AxelarTyped
<1>5. run[p].cmd.op # "gatewayGovernance" /\ run[p].cmd.op # "gatewayMintLimiter"
    BY DEF ExecuteSent, Doing
<1>6. owned.owner \in past.owner => owned'.owner \in past'.owner
    BY <1>2, <1>3 DEF PastGrows
<1>7. Included(p, ExecuteWorks(p))
    BY <1>1, <1>2, <1>4, <1>5, <1>3, <1>6 DEF Included
<1> QED
    BY <1>1, <1>7

LEMMA MultisigIncluded ==
    ASSUME Typed, NEW p \in People, run[p].pc = "sent",
           \/ TransferMintLimiterSent(p) \/ SetLimitsSent(p) \/ WithdrawSent(p)
           \/ ExecuteApprovedSent(p)
    PROVE  \E ok \in BOOLEAN : Included(p, ok)
<1>1. run[p].cmd.to \in Accounts /\ run[p].call \in Calls
    BY RunFields, CommandFields DEF Typed
<1>2. /\ TargetsTyped /\ approvals \subseteq Calls /\ funds \in 0..1
    BY DEF Typed, WorldTyped
<1>3. UNCHANGED owned
    BY DEF Votes, TransferMintLimiterSent, SetLimitsSent, WithdrawSent, ExecuteApprovedSent
<1>4. CASE TransferMintLimiterSent(p)
  <2>1. Votes(p, "transferMintLimiter") /\ UNCHANGED <<approvals, funds>>
      BY <1>4 DEF TransferMintLimiterSent
  <2>2. TargetsTyped' /\ PastGrows
    <3>1. CASE Decided(p)
      <4>1. /\ gateway' = [gateway EXCEPT !.limiter = run[p].cmd.to]
            /\ past' = [past EXCEPT !.limiter = @ \cup {run[p].cmd.to}]
          BY <1>4, <3>1 DEF TransferMintLimiterSent
      <4> QED
          BY <1>1, <1>2, <1>3, <4>1 DEF TargetsTyped, PastGrows
    <3>2. CASE ~Decided(p)
      <4>1. UNCHANGED <<gateway, past>>
          BY <1>4, <3>2 DEF TransferMintLimiterSent
      <4> QED
          BY <1>2, <1>3, <4>1, PastStays DEF TargetsTyped
    <3> QED
        BY <3>1, <3>2
  <2> QED
      BY <1>2, <2>1, <2>2, VotesIncluded DEF MultisigOps
<1>5. CASE SetLimitsSent(p)
  <2>1. PICK op \in {"setTokenMintLimits", "setFlowLimits"} : Votes(p, op)
      BY <1>5 DEF SetLimitsSent
  <2>2. UNCHANGED <<gateway, past, approvals, funds>>
      BY <1>5 DEF SetLimitsSent
  <2>3. TargetsTyped' /\ PastGrows
      BY <1>2, <1>3, <2>2, PastStays DEF TargetsTyped
  <2> QED
      BY <1>2, <2>1, <2>2, <2>3, VotesIncluded DEF MultisigOps
<1>6. CASE WithdrawSent(p)
  <2>1. Votes(p, "withdraw") /\ UNCHANGED <<gateway, past, approvals>>
      BY <1>6 DEF WithdrawSent
  <2>2. TargetsTyped' /\ PastGrows
      BY <1>2, <1>3, <2>1, PastStays DEF TargetsTyped
  <2>3. funds' \in 0..1
    <3>1. CASE Decided(p)
      <4>1. funds > 0 /\ funds' = funds - 1
          BY <1>6, <2>1, <3>1 DEF WithdrawSent, Decided, VoteWorks, Votes, Doing, MayWithdraw
      <4> QED
          BY <1>2, <4>1
    <3>2. CASE ~Decided(p)
        BY <1>2, <1>6, <3>2 DEF WithdrawSent
    <3> QED
        BY <3>1, <3>2
  <2> QED
      BY <1>2, <2>1, <2>2, <2>3, VotesIncluded DEF MultisigOps
<1>7. CASE ExecuteApprovedSent(p)
  <2>1. Votes(p, "executeMultisigProposal") /\ UNCHANGED funds
      BY <1>7 DEF ExecuteApprovedSent
  <2>2. TargetsTyped' /\ PastGrows /\ approvals' \subseteq Calls
    <3>1. CASE Decided(p)
        BY <1>1, <1>2, <1>3, <1>7, <3>1, ApplyTyped DEF ExecuteApprovedSent
    <3>2. CASE ~Decided(p)
      <4>1. UNCHANGED <<gateway, past, approvals>>
          BY <1>7, <3>2 DEF ExecuteApprovedSent
      <4> QED
          BY <1>2, <1>3, <4>1, PastStays DEF TargetsTyped
    <3> QED
        BY <3>1, <3>2
  <2> QED
      BY <1>2, <2>1, <2>2, VotesIncluded DEF MultisigOps
<1> QED
    BY <1>4, <1>5, <1>6, <1>7

\* Every transaction is included, or refused, in this way.
LEMMA SentStep ==
    ASSUME Typed, NEW p \in People, Sent(p)
    PROVE  run[p].pc = "sent" /\ \E ok \in BOOLEAN : Included(p, ok)
<1>1. run[p].pc = "sent"
    BY DEF Sent, SubmitSent, ExecuteSent, TransferMintLimiterSent, SetLimitsSent, WithdrawSent,
           ExecuteApprovedSent, GatewayGovernanceSent, GatewayMintLimiterSent,
           TransferOwnershipSent, ProposeOwnershipSent, AcceptOwnershipSent, AddOperatorSent,
           RemoveOperatorSent, ExecuteContractSent, Votes, CallsGateway, CallsOwned, Doing
<1> DEFINE Owneds == [owner : Accounts, pending : Accounts \cup {Nobody},
                      operators : SUBSET Accounts]
<1>2. run[p].cmd.to \in Accounts /\ run[p].cmd.by \in Accounts /\ owned \in Owneds
    BY <1>1, RunFields, CommandFields DEF Typed, WorldTyped, TargetsTyped
<1>3. CASE SubmitSent(p)
    BY <1>1, <1>3, SubmitIncluded
<1>4. CASE ExecuteSent(p)
    BY <1>1, <1>4, ExecuteIncluded
<1>5. CASE TransferMintLimiterSent(p) \/ SetLimitsSent(p) \/ WithdrawSent(p)
           \/ ExecuteApprovedSent(p)
    BY <1>1, <1>5, MultisigIncluded
<1>6. CASE GatewayGovernanceSent(p) \/ GatewayMintLimiterSent(p)
    BY <1>1, <1>6, GatewayIncluded
<1>7. CASE TransferOwnershipSent(p) \/ ProposeOwnershipSent(p) \/ AcceptOwnershipSent(p)
           \/ AddOperatorSent(p) \/ RemoveOperatorSent(p) \/ ExecuteContractSent(p)
  <2>1. PICK op \in OwnerOps \cup OperatorOps, new \in Owneds : CallsOwned(p, op, new)
    <3>1. /\ [owned EXCEPT !.owner = run[p].cmd.to, !.pending = Nobody] \in Owneds
          /\ [owned EXCEPT !.pending = run[p].cmd.to] \in Owneds
          /\ [owned EXCEPT !.owner = run[p].cmd.by, !.pending = Nobody] \in Owneds
          /\ [owned EXCEPT !.operators = @ \cup {run[p].cmd.to}] \in Owneds
          /\ [owned EXCEPT !.operators = @ \ {run[p].cmd.to}] \in Owneds
        BY <1>2
    <3> HIDE DEF Owneds
    <3>2. {"transferOwnership", "proposeOwnership", "acceptOwnership", "addOperator",
           "removeOperator", "collectFees", "refund"} \subseteq OwnerOps \cup OperatorOps
        BY DEF OwnerOps, OperatorOps
    <3> QED
        BY <1>2, <1>7, <3>1, <3>2, Zenon
           DEF TransferOwnershipSent, ProposeOwnershipSent, AcceptOwnershipSent,
               AddOperatorSent, RemoveOperatorSent, ExecuteContractSent
  <2> QED
      BY <1>1, <2>1, OwnedIncluded
<1> QED
    BY <1>3, <1>4, <1>5, <1>6, <1>7 DEF Sent
-----------------------------------------------------------------------------
(* Types *)

LEMMA TypedInitially == Init => Typed
<1> SUFFICES ASSUME Init PROVE Typed
    OBVIOUS
<1>1. scenario \in Scenarios /\ gateway.governance \in Accounts
      /\ gateway.limiter \in Accounts
    BY ScenariosOK DEF Init
<1>2. RunsTyped
  <2>1. run = [p \in People |-> Idle]
      BY DEF Init
  <2>2. \A p \in People : run[p] = Idle
      BY <2>1
  <2> QED
      BY <2>1, <2>2, IdleOK DEF RunsTyped
<1>3. TargetsTyped
    BY <1>1, ScenariosOK DEF Init, TargetsTyped, Accounts
<1>4. LocksTyped /\ approvals \subseteq Calls /\ funds \in 0..1
    BY DEF Init, LocksTyped
<1>5. VotesTyped
    BY FS_EmptySet DEF Init, VotesTyped
<1>6. AxelarTyped
    BY ScenariosOK DEF Init, AxelarTyped
<1>7. file \in Entry
    BY <1>1, ScenariosOK DEF Init, Entry, Accounts
<1> QED
    BY <1>1, <1>2, <1>3, <1>4, <1>5, <1>6, <1>7 DEF Typed, WorldTyped

LEMMA WorldStays ==
    ASSUME WorldTyped, UNCHANGED <<contracts, axelarVars, past>>
    PROVE  WorldTyped'
BY DEF contracts, targets, axelarVars, WorldTyped, TargetsTyped, LocksTyped, VotesTyped,
       Voters, AxelarTyped

\* Axelar's vote, the relayer, time and a new implementation.
LEMMA TypedExternal ==
    ASSUME Typed, Vote \/ Relay \/ Mature \/ Release
    PROVE  Typed' /\ UNCHANGED <<run, past, owned, scenario>>
<1>1. scenario \in Scenarios /\ RunsTyped /\ WorldTyped /\ file \in Entry
    BY DEF Typed
<1>2. UNCHANGED <<run, past, owned, gateway, scenario>>
    BY DEF Vote, Relay, Mature, Release, contracts, targets
<1>3. RunsTyped' /\ TargetsTyped'
    BY <1>1, <1>2 DEF RunsTyped, WorldTyped, TargetsTyped
<1>4. CASE Vote
  <2>1. PICK d \in drafts : /\ drafts' = drafts \ {d}
                            /\ calls' = Append(calls, [payload |-> d, used |-> FALSE])
      BY <1>4 DEF Vote
  <2>2. UNCHANGED <<locks, approvals, funds, votes, file>> /\ Len(calls) < MaxCalls
      BY <1>4 DEF Vote, contracts
  <2> DEFINE S == [payload : Proposals, used : BOOLEAN]
             e == [payload |-> d, used |-> FALSE]
  <2>3. calls \in Seq(S) /\ e \in S /\ drafts \subseteq Proposals
      BY <1>1 DEF WorldTyped, AxelarTyped
  <2> HIDE DEF S, e
  <2>4. calls' \in Seq(S) /\ Len(calls') = Len(calls) + 1 /\ Len(calls) \in Nat
      BY <2>1, <2>3 DEF e
  <2>5. AxelarTyped'
      BY <2>1, <2>2, <2>3, <2>4, ScenariosOK DEF AxelarTyped, S
  <2> QED
      BY <1>1, <1>2, <1>3, <2>2, <2>5
         DEF Typed, WorldTyped, LocksTyped, VotesTyped, Voters
<1>5. CASE Relay
  <2>1. PICK i \in DOMAIN calls : Accepts(calls[i].payload) /\ Accept(i)
      BY <1>5 DEF Relay
  <2>2. UNCHANGED <<drafts, funds, votes, file>>
      BY <1>5 DEF Relay
  <2>3. LocksTyped' /\ AxelarTyped' /\ approvals' \subseteq Calls
      BY <1>1, <2>1, <2>2, AcceptTyped DEF WorldTyped
  <2> QED
      BY <1>1, <1>2, <1>3, <2>2, <2>3 DEF Typed, WorldTyped, VotesTyped, Voters
<1>6. CASE Mature
  <2>1. PICK l \in locks : locks' = (locks \ {l}) \cup {[l EXCEPT !.due = TRUE]}
      BY <1>6 DEF Mature
  <2>2. UNCHANGED <<approvals, funds, votes, calls, drafts, file>>
      BY <1>6 DEF Mature, axelarVars
  <2> DEFINE m == [l EXCEPT !.due = TRUE]
  <2>3. l \in [call : Calls, due : BOOLEAN]
      BY <1>1 DEF WorldTyped, LocksTyped
  <2>4. m \in [call : Calls, due : BOOLEAN] /\ m.call = l.call
      BY <2>3
  <2>5. locks' = (locks \ {l}) \cup {m}
      BY <2>1
  <2> HIDE DEF m
  <2>6. LocksTyped'
      BY <1>1, <2>4, <2>5 DEF WorldTyped, LocksTyped
  <2> QED
      BY <1>1, <1>2, <1>3, <2>2, <2>6 DEF Typed, WorldTyped, VotesTyped, Voters, AxelarTyped
<1>7. CASE Release
  <2>1. file' \in Entry
      BY <1>1, <1>7, ScenariosOK DEF Release, Entry
  <2>2. WorldTyped'
      BY <1>1, <1>7, WorldStays DEF Release
  <2> QED
      BY <1>1, <1>2, <1>3, <2>1, <2>2 DEF Typed
<1> QED
    BY <1>2, <1>4, <1>5, <1>6, <1>7

\* The process ends with an entry, which is saved or not.
LEMMA TypedEnds ==
    ASSUME Typed, NEW p \in People, NEW mem \in Entry, Ends(p, mem), WorldTyped',
           UNCHANGED scenario
    PROVE  Typed'
<1>1. RunsTyped'
    BY EndsRun DEF Typed, Ends
<1>2. file' \in Entry
    BY DEF Typed, Ends
<1> QED
    BY <1>1, <1>2 DEF Typed

LEMMA NotedTyped ==
    ASSUME Typed, NEW p \in People, run[p].pc # "idle"
    PROVE  Noted(p) \in Entry
<1>1. run[p].mem \in Entry /\ run[p].cmd.to \in Accounts /\ run[p].cmd.by \in Accounts
    BY RunFields, CommandFields DEF Typed
<1> DEFINE mem == run[p].mem
           c == run[p].cmd
<1>2. /\ [mem EXCEPT !.governance = c.to] \in Entry
      /\ [mem EXCEPT !.limiter = c.to] \in Entry
      /\ [mem EXCEPT !.owner = c.to] \in Entry
      /\ [mem EXCEPT !.owner = c.by] \in Entry
    BY <1>1 DEF Entry
<1> QED
    BY <1>1, <1>2 DEF Noted

LEMMA TypedPerson ==
    ASSUME Typed, NEW p \in People,
           Start(p) \/ Check(p) \/ Decline(p) \/ Send(p) \/ Sent(p) \/ Record(p) \/ Crash(p)
    PROVE  Typed'
<1>1. scenario \in Scenarios /\ RunsTyped /\ WorldTyped /\ file \in Entry
      /\ run[p].mem \in Entry
    BY RunFields DEF Typed
<1>2. CASE Start(p)
  <2>1. PICK c \in Commands : StartWith(p, c)
      BY <1>2 DEF Start
  <2>2. RunsTyped'
      BY <1>1, <2>1, StartsRun DEF StartWith
  <2>3. WorldTyped' /\ UNCHANGED <<scenario, file>>
      BY <1>1, <2>1, WorldStays DEF StartWith
  <2> QED
      BY <1>1, <2>2, <2>3 DEF Typed
<1>3. CASE Check(p)
  <2>1. run[p].pc = "check"
      BY <1>3, CheckStep
  <2>2. CASE Stops(p)
    <3>1. AxelarTyped'
        BY <1>1, <2>2 DEF Stops, WorldTyped, AxelarTyped
    <3>2. UNCHANGED <<gateway, owned, past, locks, approvals, funds, votes, scenario>>
        BY <2>2 DEF Stops, contracts, targets
    <3>3. WorldTyped'
        BY <1>1, <3>1, <3>2 DEF WorldTyped, TargetsTyped, LocksTyped, VotesTyped, Voters
    <3> QED
        BY <1>1, <2>2, <3>2, <3>3, TypedEnds DEF Stops
  <2>3. CASE \E call \in Calls : Asks(p, call)
    <3>1. PICK call \in Calls : Asks(p, call)
        BY <2>3
    <3>2. RunsTyped'
        BY <1>1, <2>1, <3>1, AskedRun
    <3>3. WorldTyped' /\ UNCHANGED <<scenario, file>>
        BY <1>1, <3>1, WorldStays DEF Asks
    <3> QED
        BY <1>1, <3>2, <3>3 DEF Typed
  <2> QED
      BY <1>3, <2>2, <2>3, CheckStep
<1>4. CASE Decline(p)
  <2>1. Ends(p, run[p].mem) /\ UNCHANGED <<scenario, contracts, axelarVars, past>>
      BY <1>4 DEF Decline, Throws
  <2> QED
      BY <1>1, <2>1, WorldStays, TypedEnds
<1>5. CASE Send(p)
  <2>1. RunsTyped'
      BY <1>1, <1>5, SendsRun DEF Send
  <2>2. WorldTyped' /\ UNCHANGED <<scenario, file>>
      BY <1>1, <1>5, WorldStays DEF Send
  <2> QED
      BY <1>1, <2>1, <2>2 DEF Typed
<1>6. CASE Sent(p)
  <2>1. PICK ok \in BOOLEAN : Included(p, ok)
      BY <1>6, SentStep
  <2>2. run[p].pc = "sent"
      BY <1>6, SentStep
  <2>3. RunsTyped'
      BY <1>1, <2>1, <2>2, MinedRun DEF Included
  <2> QED
      BY <1>1, <2>1, <2>3 DEF Included, Typed
<1>7. CASE Record(p)
  <2>1. PICK mem \in Entry : Ends(p, mem)
      BY <1>1, <1>7, NotedTyped DEF Record
  <2>2. WorldTyped' /\ UNCHANGED scenario
      BY <1>1, <1>7, WorldStays DEF Record
  <2> QED
      BY <2>1, <2>2, TypedEnds
<1>8. CASE Crash(p)
  <2>1. RunsTyped'
      BY <1>1, <1>8, EndsRun DEF Crash
  <2>2. WorldTyped' /\ UNCHANGED <<scenario, file>>
      BY <1>1, <1>8, WorldStays DEF Crash
  <2> QED
      BY <1>1, <2>1, <2>2 DEF Typed
<1> QED
    BY <1>2, <1>3, <1>4, <1>5, <1>6, <1>7, <1>8

LEMMA TypedInductive == Typed /\ [Next]_vars => Typed'
<1> SUFFICES ASSUME Typed, [Next]_vars PROVE Typed'
    OBVIOUS
<1>1. CASE UNCHANGED vars
  <2>1. WorldTyped' /\ UNCHANGED <<scenario, run, file>>
      BY <1>1, WorldStays DEF vars, Typed
  <2> QED
      BY <2>1 DEF Typed, RunsTyped
<1>2. CASE Next
    BY <1>2, TypedExternal, TypedPerson DEF Next
<1> QED
    BY <1>1, <1>2

LEMMA TypedTypeOK == Typed => TypeOK
<1> SUFFICES ASSUME Typed PROVE TypeOK
    OBVIOUS
<1>1. \A p \in People : /\ run[p].pc \in {"idle", "check", "prompt", "sent", "record"}
                        /\ run[p].mem \in Entry /\ run[p].call \in Calls
    BY RunFields DEF Typed
<1>2. \A v \in votes : Cardinality({w \in votes : w[1] = v[1]}) < Threshold
    BY DEF Typed, WorldTyped, VotesTyped, Voters
<1>3. \A l \in locks : /\ l.call \in Calls /\ l.due \in BOOLEAN
                       /\ \A m \in locks : m.call = l.call => m = l
    BY DEF Typed, WorldTyped, LocksTyped
<1>4. /\ gateway \in [governance : Accounts, limiter : Accounts,
                      implementation : 1..MaxReleases]
      /\ owned.owner \in Accounts /\ owned.pending \in Accounts \cup {Nobody}
      /\ owned.operators \subseteq Accounts
    BY DEF Typed, WorldTyped, TargetsTyped
<1>5. approvals \subseteq Calls /\ funds \in 0..1 /\ Len(calls) <= MaxCalls /\ file \in Entry
    BY DEF Typed, WorldTyped, AxelarTyped
<1> QED
    BY <1>1, <1>2, <1>3, <1>4, <1>5 DEF TypeOK

\* Every state has the type TypeOK declares: in particular no call is scheduled
\* twice, and the votes on one topic never reach the threshold without being
\* executed and counted anew (multisig.js:46-82).
THEOREM TypeCorrect == Spec => []TypeOK
<1>1. Typed => TypeOK
    BY TypedTypeOK
<1> QED
    BY <1>1, TypedInitially, TypedInductive, PTL DEF Spec
-----------------------------------------------------------------------------
(* What the configuration names was true. *)

LEMMA StillTrue ==
    ASSUME PastGrows
    PROVE  /\ \A e : WasTrue(e, past) => WasTrue(e, past')
           /\ \A r : Effected(r, past) => Effected(r, past')
BY DEF PastGrows, WasTrue, Effected

\* A step that changes no run but that of p.
LEMMA TrueOthers ==
    ASSUME TrueInv, PastGrows, NEW p \in People,
           \A q \in People \ {p} : run'[q] = run[q],
           WasTrue(file', past'), owned'.owner \in past'.owner,
           run'[p].pc # "idle" => WasTrue(run'[p].mem, past') /\ Effected(run'[p], past')
    PROVE  TrueInv'
<1>1. ASSUME NEW q \in People, run'[q].pc # "idle"
      PROVE  WasTrue(run'[q].mem, past') /\ Effected(run'[q], past')
  <2>1. CASE q = p
      BY <1>1, <2>1
  <2>2. CASE q # p
      BY <1>1, <2>2, StillTrue DEF TrueInv
  <2> QED
      BY <2>1, <2>2
<1> QED
    BY <1>1 DEF TrueInv

LEMMA TrueInitially == Init => TrueInv
<1> SUFFICES ASSUME Init PROVE TrueInv
    OBVIOUS
<1>1. \A p \in People : run[p].pc = "idle"
    BY DEF Init, Idle
<1> QED
    BY <1>1 DEF Init, TrueInv, WasTrue

\* What is noted of a transaction that had its effect.
LEMMA NotedTrue ==
    ASSUME Typed, TrueInv, NEW p \in People, run[p].pc = "record", run[p].ok
    PROVE  WasTrue(Noted(p), past)
<1> DEFINE mem == run[p].mem
           c == run[p].cmd
<1>1. mem \in Entry
    BY RunFields DEF Typed
<1>2. WasTrue(mem, past) /\ Effected(run[p], past) /\ owned.owner \in past.owner
    BY DEF TrueInv
<1>3. CASE c.op = "gatewayGovernance"
  <2>1. Noted(p) = [mem EXCEPT !.governance = c.to]
      BY <1>3 DEF Noted
  <2> QED
      BY <1>1, <1>2, <1>3, <2>1 DEF WasTrue, Effected, Entry
<1>4. CASE c.op = "gatewayMintLimiter"
  <2>1. Noted(p) = [mem EXCEPT !.limiter = c.to]
      BY <1>4 DEF Noted
  <2> QED
      BY <1>1, <1>2, <1>4, <2>1 DEF WasTrue, Effected, Entry
<1>5. CASE c.op = "transferOwnership" /\ OwnerIs(c.to)
  <2>1. Noted(p) = [mem EXCEPT !.owner = c.to] /\ c.to \in past.owner
      BY <1>2, <1>5 DEF Noted, OwnerIs
  <2> QED
      BY <1>1, <1>2, <2>1 DEF WasTrue, Entry
<1>6. CASE c.op = "acceptOwnership" /\ OwnerIs(c.by)
  <2>1. Noted(p) = [mem EXCEPT !.owner = c.by] /\ c.by \in past.owner
      BY <1>2, <1>6 DEF Noted, OwnerIs
  <2> QED
      BY <1>1, <1>2, <2>1 DEF WasTrue, Entry
<1>7. CASE /\ c.op # "gatewayGovernance" /\ c.op # "gatewayMintLimiter"
           /\ ~(c.op = "transferOwnership" /\ OwnerIs(c.to))
           /\ ~(c.op = "acceptOwnership" /\ OwnerIs(c.by))
  <2>1. Noted(p) = mem
      BY <1>7 DEF Noted
  <2> QED
      BY <1>2, <2>1
<1> QED
    BY <1>3, <1>4, <1>5, <1>6, <1>7

\* The process ends, and may save an entry that was true.
LEMMA TrueEnds ==
    ASSUME Typed, TrueInv, NEW p \in People, NEW mem, WasTrue(mem, past), Ends(p, mem),
           UNCHANGED <<past, owned>>
    PROVE  TrueInv'
<1>1. run'[p].pc = "idle" /\ \A q \in People \ {p} : run'[q] = run[q]
    BY EndsRun DEF Typed, Ends
<1>2. WasTrue(file', past')
    BY DEF Ends, TrueInv
<1>3. PastGrows /\ owned'.owner \in past'.owner
    BY PastStays DEF TrueInv
<1> QED
    BY <1>1, <1>2, <1>3, TrueOthers

LEMMA TruePerson ==
    ASSUME Typed, TrueInv, NEW p \in People,
           Start(p) \/ Check(p) \/ Decline(p) \/ Send(p) \/ Sent(p) \/ Record(p) \/ Crash(p)
    PROVE  TrueInv'
<1>1. /\ RunsTyped /\ file \in Entry /\ WasTrue(file, past) /\ owned.owner \in past.owner
      /\ run[p].pc # "idle" => WasTrue(run[p].mem, past)
    BY DEF Typed, TrueInv
<1>2. CASE Start(p)
  <2>1. PICK c \in Commands : StartWith(p, c)
      BY <1>2 DEF Start
  <2>2. /\ \A q \in People \ {p} : run'[q] = run[q]
        /\ run'[p].pc = "check" /\ run'[p].mem = file
      BY <1>1, <2>1, StartsRun DEF StartWith
  <2>3. UNCHANGED <<past, owned, file>>
      BY <2>1 DEF StartWith, contracts, targets
  <2> QED
      BY <1>1, <2>2, <2>3, PastStays, TrueOthers DEF Effected
<1>3. CASE Check(p)
  <2>1. run[p].pc = "check"
      BY <1>3, CheckStep
  <2>2. CASE Stops(p)
      BY <1>1, <2>1, <2>2, TrueEnds DEF Stops, contracts, targets
  <2>3. CASE \E call \in Calls : Asks(p, call)
    <3>1. PICK call \in Calls : Asks(p, call)
        BY <2>3
    <3>2. /\ \A q \in People \ {p} : run'[q] = run[q]
          /\ run'[p].pc = "prompt" /\ run'[p].mem = run[p].mem
        BY <1>1, <2>1, <3>1, AskedRun
    <3>3. UNCHANGED <<past, owned, file>>
        BY <3>1 DEF Asks, contracts, targets
    <3> QED
        BY <1>1, <2>1, <3>2, <3>3, PastStays, TrueOthers DEF Effected
  <2> QED
      BY <1>3, <2>2, <2>3, CheckStep
<1>4. CASE Decline(p)
  <2>1. Ends(p, run[p].mem) /\ UNCHANGED <<past, owned>> /\ run[p].pc # "idle"
      BY <1>4 DEF Decline, Throws, contracts, targets
  <2> QED
      BY <1>1, <2>1, TrueEnds
<1>5. CASE Send(p)
  <2>1. /\ \A q \in People \ {p} : run'[q] = run[q]
        /\ run'[p].pc = "sent" /\ run'[p].mem = run[p].mem
      BY <1>1, <1>5, SendsRun DEF Send
  <2>2. UNCHANGED <<past, owned, file>> /\ run[p].pc # "idle"
      BY <1>5 DEF Send, contracts, targets
  <2> QED
      BY <1>1, <2>1, <2>2, PastStays, TrueOthers DEF Effected
<1>6. CASE Sent(p)
  <2>1. PICK ok \in BOOLEAN : Included(p, ok)
      BY <1>6, SentStep
  <2>2. run[p].pc = "sent"
      BY <1>6, SentStep
  <2>3. /\ \A q \in People \ {p} : run'[q] = run[q]
        /\ run'[p].pc = "record" /\ run'[p].ok = ok
        /\ run'[p].cmd = run[p].cmd /\ run'[p].mem = run[p].mem
      BY <1>1, <2>1, <2>2, MinedRun DEF Included
  <2>4. PastGrows /\ file' = file /\ owned'.owner \in past'.owner
      BY <1>1, <2>1 DEF Included
  <2>5. Effected(run'[p], past')
      BY <2>1, <2>3 DEF Effected, Included
  <2>6. WasTrue(run'[p].mem, past') /\ WasTrue(file', past')
      BY <1>1, <2>2, <2>3, <2>4, StillTrue
  <2> QED
      BY <2>3, <2>4, <2>5, <2>6, TrueOthers
<1>7. CASE Record(p)
  <2>1. run[p].pc = "record" /\ UNCHANGED <<past, owned>>
      BY <1>7 DEF Record, contracts, targets
  <2>2. PICK mem : Ends(p, mem) /\ WasTrue(mem, past)
      BY <1>1, <1>7, <2>1, NotedTrue DEF Record
  <2> QED
      BY <2>1, <2>2, TrueEnds
<1>8. CASE Crash(p)
  <2>1. run'[p].pc = "idle" /\ \A q \in People \ {p} : run'[q] = run[q]
      BY <1>1, <1>8, EndsRun DEF Crash
  <2>2. UNCHANGED <<past, owned, file>>
      BY <1>8 DEF Crash, contracts, targets
  <2> QED
      BY <1>1, <2>1, <2>2, PastStays, TrueOthers
<1> QED
    BY <1>2, <1>3, <1>4, <1>5, <1>6, <1>7, <1>8

LEMMA TrueInductive == Typed /\ TrueInv /\ [Next]_vars => TrueInv'
<1> SUFFICES ASSUME Typed, TrueInv, [Next]_vars PROVE TrueInv'
    OBVIOUS
<1>1. CASE UNCHANGED vars
  <2>1. UNCHANGED <<run, past, owned, file>>
      BY <1>1 DEF vars, contracts, targets
  <2> QED
      BY <2>1 DEF TrueInv
<1>2. CASE Vote \/ Relay \/ Mature \/ Release
  <2>1. UNCHANGED <<run, past, owned>>
      BY <1>2, TypedExternal
  <2>2. WasTrue(file', past')
    <3>1. file \in Entry /\ WasTrue(file, past)
        BY DEF Typed, TrueInv
    <3>2. file' = file \/ file' = [file EXCEPT !.implementation = @ + 1]
        BY <1>2 DEF Vote, Relay, Mature, Release
    <3> QED
        BY <2>1, <3>1, <3>2 DEF WasTrue, Entry
  <2> QED
      BY <2>1, <2>2 DEF TrueInv
<1>3. CASE \E p \in People : \/ Start(p) \/ Check(p) \/ Decline(p) \/ Send(p) \/ Sent(p)
                             \/ Record(p) \/ Crash(p)
    BY <1>3, TruePerson
<1> QED
    BY <1>1, <1>2, <1>3 DEF Next

\* The file never names a governor, mint limiter or owner that was not one, for any
\* commands of any number of people in any order, killed anywhere: the governance
\* and limiter that gateway.js:391 and the owner that ownership.js:86 note.
THEOREM RecordedWasOnceTrue == Spec => []RecordedWasTrue
<1>1. Typed /\ TrueInv => RecordedWasTrue
    BY DEF TrueInv, WasTrue, RecordedWasTrue
<1> QED
    BY <1>1, TypedInitially, TypedInductive, TrueInitially, TrueInductive, PTL DEF Spec
-----------------------------------------------------------------------------
(* What a script checked is what the contract checks. *)

LEMMA RelevantIs ==
    ASSUME NEW p, NEW call
    PROVE  LET op == run[p].cmd.op
               r == Relevant(p, call)
           IN  /\ op = "execute" => r = <<LockOf(call)>>
               /\ op = "gatewayGovernance" => r = <<gateway.governance>>
               /\ op = "gatewayMintLimiter" => r = <<gateway.limiter>>
               /\ op \in MultisigOps => r = <<Voters(TopicOf(p, call)), funds, owned>>
               /\ op \in OwnerOps \cup OperatorOps => r = <<owned>>
<1> DEFINE op == run[p].cmd.op
           r == Relevant(p, call)
           lock == <<LockOf(call)>>
           governor == <<gateway.governance>>
           limiter == <<gateway.limiter>>
           vote == <<Voters(TopicOf(p, call)), funds, owned>>
           other == <<owned>>
           all == <<locks, calls>>
<1>1. r = CASE op = "execute" -> lock
            [] op = "gatewayGovernance" -> governor
            [] op = "gatewayMintLimiter" -> limiter
            [] op \in MultisigOps -> vote
            [] op \in OwnerOps \cup OperatorOps -> other
            [] OTHER -> all
    BY Zenon DEF Relevant
<1> HIDE DEF op, r, lock, governor, limiter, vote, other, all
<1>2. /\ op = "execute" => r = lock
      /\ op = "gatewayGovernance" => r = governor
      /\ op = "gatewayMintLimiter" => r = limiter
      /\ op \in MultisigOps => r = vote
      /\ op \in OwnerOps \cup OperatorOps => r = other
    BY <1>1 DEF MultisigOps, OwnerOps, OperatorOps
<1> QED
    BY <1>2, Zenon DEF op, r, lock, governor, limiter, vote, other

\* Whoever asks has seen what the contract will ask for.
LEMMA VouchedAsks ==
    ASSUME Typed, NEW p \in People, run[p].pc = "check", NEW call \in Calls, Asks(p, call),
           Passed(p, call)
    PROVE  Vouched(p, run'[p])
<1> DEFINE c == run[p].cmd
           seen == Relevant(p, call)
<1>1. /\ run'[p].cmd = c /\ run'[p].call = call /\ run'[p].seen = seen
    BY AskedRun DEF Typed
<1>2. CASE c.op = "execute"
  <2>1. seen = <<LockOf(call)>> /\ \E l \in LockOf(call) : l.due
      BY <1>2, RelevantIs DEF Passed
  <2>2. c.op \notin GatewayOps \cup MultisigOps \cup OwnerOps \cup OperatorOps
      BY <1>2 DEF GatewayOps, MultisigOps, OwnerOps, OperatorOps
  <2> HIDE DEF seen
  <2>3. \E l \in seen[1] : l.due
      BY <2>1
  <2> QED
      BY <1>1, <2>2, <2>3 DEF Vouched
<1>3. CASE c.op \in GatewayOps
  <2>1. CallerMay(p)
      BY <1>3 DEF Passed, DirectOps
  <2>2. seen = <<"wallet">>
    <3>1. CASE c.op = "gatewayGovernance"
        BY <2>1, <3>1, RelevantIs DEF CallerMay, MayTransferGatewayGovernance
    <3>2. CASE c.op = "gatewayMintLimiter"
        BY <2>1, <3>2, RelevantIs DEF CallerMay, MayTransferGatewayMintLimiter
    <3> QED
        BY <1>3, <3>1, <3>2 DEF GatewayOps
  <2>3. c.op \notin {"execute"} \cup MultisigOps \cup OwnerOps \cup OperatorOps
      BY <1>3 DEF GatewayOps, MultisigOps, OwnerOps, OperatorOps
  <2> QED
      BY <1>1, <2>2, <2>3 DEF Vouched
<1>4. CASE c.op \in MultisigOps
  <2>1. <<TopicOf(p, call), p>> \notin votes /\ Offered(p)
      BY <1>4 DEF Passed
  <2>2. seen = <<Voters(TopicOf(p, call)), funds, owned>>
      BY <1>4, RelevantIs
  <2>3. <<TopicOf(p, call), p>> \notin seen[1]
      BY <2>1, <2>2 DEF Voters
  <2>4. /\ c.op = "withdraw" => seen[2] > 0
        /\ c.op = "setFlowLimits" => "multisig" \in seen[3].operators
      BY <2>1, <2>2 DEF Offered, MayWithdraw, MaySetFlowLimits
  <2>5. c.op \notin {"execute"} \cup GatewayOps \cup OwnerOps \cup OperatorOps
      BY <1>4 DEF GatewayOps, MultisigOps, OwnerOps, OperatorOps
  <2> HIDE DEF seen
  <2> QED
      BY <1>1, <2>3, <2>4, <2>5 DEF Vouched, TopicOf
<1>5. CASE c.op \in OwnerOps \cup OperatorOps
  <2>1. CallerMay(p)
      BY <1>5 DEF Passed, DirectOps
  <2>2. c.op \notin {"execute"} \cup GatewayOps \cup MultisigOps
      BY <1>5 DEF GatewayOps, MultisigOps, OwnerOps, OperatorOps
  <2>3. seen = <<owned>>
      BY <1>5, RelevantIs
  <2>4. OwnedMay(c, owned)
      BY <1>5, <2>1
         DEF CallerMay, OwnedMay, OwnerOps, OperatorOps, MayTransferOwnership,
             MayProposeOwnership, MayAcceptOwnership, MayAddOperator, MayRemoveOperator,
             MayCollectFees, MayRefund
  <2> QED
      BY <1>1, <2>2, <2>3, <2>4 DEF Vouched
<1>6. CASE c.op \notin {"execute"} \cup GatewayOps \cup MultisigOps
                     \cup OwnerOps \cup OperatorOps
    BY <1>1, <1>6 DEF Vouched
<1> QED
    BY <1>2, <1>3, <1>4, <1>5, <1>6

LEMMA VouchedPerson ==
    ASSUME Typed, VouchedInv, NEW p \in People,
           Start(p) \/ Check(p) \/ Decline(p) \/ Send(p) \/ Sent(p) \/ Record(p) \/ Crash(p)
    PROVE  /\ VouchedInv' /\ \A q \in People \ {p} : run'[q] = run[q]
           /\ run'[p].pc = "record" => Sent(p)
<1>1. RunsTyped /\ file \in Entry /\ Vouched(p, run[p])
    BY DEF Typed, VouchedInv
<1>2. SUFFICES /\ \A q \in People \ {p} : run'[q] = run[q]
               /\ Vouched(p, run'[p]) /\ (run'[p].pc = "record" => Sent(p))
    BY DEF VouchedInv
<1>3. CASE Start(p)
  <2>1. PICK c \in Commands : StartWith(p, c)
      BY <1>3 DEF Start
  <2>2. run'[p].pc = "check" /\ \A q \in People \ {p} : run'[q] = run[q]
      BY <1>1, <2>1, StartsRun DEF StartWith
  <2> QED
      BY <2>2 DEF Vouched
<1>4. CASE Check(p)
  <2>1. run[p].pc = "check"
      BY <1>4, CheckStep
  <2>2. CASE Stops(p)
    <3>1. run'[p].pc = "idle" /\ \A q \in People \ {p} : run'[q] = run[q]
        BY <1>1, <2>2, EndsRun DEF Stops, Ends
    <3> QED
        BY <3>1 DEF Vouched
  <2>3. CASE \E call \in Calls : Asks(p, call) /\ Passed(p, call)
    <3>1. PICK call \in Calls : Asks(p, call) /\ Passed(p, call)
        BY <2>3
    <3>2. run'[p].pc = "prompt" /\ \A q \in People \ {p} : run'[q] = run[q]
        BY <1>1, <2>1, <3>1, AskedRun
    <3>3. Vouched(p, run'[p])
        BY <2>1, <3>1, VouchedAsks
    <3> QED
        BY <3>2, <3>3
  <2> QED
      BY <1>4, <2>2, <2>3, CheckStep
<1>5. CASE Decline(p) \/ Record(p) \/ Crash(p)
  <2>1. run' = [run EXCEPT ![p] = Idle]
      BY <1>5 DEF Decline, Throws, Record, Crash, Ends
  <2>2. run'[p].pc = "idle" /\ \A q \in People \ {p} : run'[q] = run[q]
      BY <1>1, <2>1, EndsRun
  <2> QED
      BY <2>2 DEF Vouched
<1>6. CASE Send(p)
  <2>1. /\ \A q \in People \ {p} : run'[q] = run[q]
        /\ run'[p].pc = "sent" /\ run'[p].call = run[p].call
        /\ run'[p].seen = run[p].seen /\ run'[p].cmd = run[p].cmd
      BY <1>1, <1>6, SendsRun DEF Send
  <2>2. run[p].pc = "prompt"
      BY <1>6 DEF Send
  <2> QED
      BY <1>1, <2>1, <2>2 DEF Vouched
<1>7. CASE Sent(p)
  <2>1. PICK ok \in BOOLEAN : Included(p, ok)
      BY <1>7, SentStep
  <2>2. run[p].pc = "sent"
      BY <1>7, SentStep
  <2>3. run'[p].pc = "record" /\ \A q \in People \ {p} : run'[q] = run[q]
      BY <1>1, <2>1, <2>2, MinedRun DEF Included
  <2> QED
      BY <1>7, <2>3 DEF Vouched
<1> QED
    BY <1>3, <1>4, <1>5, <1>6, <1>7

LEMMA VouchedInitially == Init => VouchedInv
<1> SUFFICES ASSUME Init PROVE VouchedInv
    OBVIOUS
<1>1. \A p \in People : run[p].pc = "idle"
    BY DEF Init, Idle
<1> QED
    BY <1>1 DEF VouchedInv, Vouched

LEMMA VouchedInductive == Typed /\ VouchedInv /\ [Next]_vars => VouchedInv'
<1> SUFFICES ASSUME Typed, VouchedInv, [Next]_vars PROVE VouchedInv'
    OBVIOUS
<1>1. CASE run' = run
    BY <1>1 DEF VouchedInv
<1>2. CASE \E p \in People : \/ Start(p) \/ Check(p) \/ Decline(p) \/ Send(p) \/ Sent(p)
                             \/ Record(p) \/ Crash(p)
    BY <1>2, VouchedPerson
<1>3. UNCHANGED vars => run' = run
    BY DEF vars
<1> QED
    BY <1>1, <1>2, <1>3, TypedExternal DEF Next

\* The outcome noted is whether the contract accepted.
LEMMA RefusedNot ==
    ASSUME Typed, NEW p \in People, run[p].pc = "sent", NEW ok \in BOOLEAN, Mined(p, ok),
           ~run'[p].ok
    PROVE  ~ok
BY MinedRun DEF Typed

LEMMA MultisigRefuses ==
    ASSUME Typed, NEW p \in People, Vouched(p, run[p]), run[p].cmd.op \in MultisigOps,
           run[p].pc = "sent", Relevant(p, run[p].call) = run[p].seen, ~VoteWorks(p)
    PROVE  Unchecked(p)
<1> DEFINE c == run[p].cmd
           t == Topic(p)
           seen == run[p].seen
<1>1. seen = <<Voters(t), funds, owned>>
    BY RelevantIs DEF Topic
<1>2. <<t, p>> \notin votes
    BY <1>1 DEF Vouched, Voters, Topic, TopicOf
<1>3. c.op = "withdraw" => MayWithdraw
    BY <1>1 DEF Vouched, MayWithdraw
<1>4. c.op = "setFlowLimits" => MaySetFlowLimits
    BY <1>1 DEF Vouched, MaySetFlowLimits
<1>5. ~ CASE c.op = "transferMintLimiter" -> MayTransferMintLimiter
          [] c.op = "setTokenMintLimits" -> MaySetTokenMintLimits
          [] c.op = "withdraw" -> MayWithdraw
          [] c.op = "setFlowLimits" -> MaySetFlowLimits
          [] OTHER -> MayExecuteApproved(run[p].call)
    BY <1>2 DEF VoteWorks
<1>6. c.op \in {"transferMintLimiter", "setTokenMintLimits", "executeMultisigProposal"}
    BY <1>3, <1>4, <1>5 DEF MultisigOps
<1> QED
    BY <1>5, <1>6 DEF Unchecked, MayTransferMintLimiter, MaySetTokenMintLimits

LEMMA DirectAccepts ==
    ASSUME Typed, NEW p \in People, Vouched(p, run[p]), run[p].cmd.op \in DirectOps,
           run[p].pc = "sent", Relevant(p, run[p].call) = run[p].seen
    PROVE  CallerMay(p)
<1> DEFINE c == run[p].cmd
           seen == run[p].seen
<1>1. CASE c.op \in GatewayOps
  <2>1. seen[1] = "wallet"
      BY <1>1 DEF Vouched
  <2>2. CASE c.op = "gatewayGovernance"
    <3>1. seen = <<gateway.governance>>
        BY <2>2, RelevantIs
    <3>2. gateway.governance = "wallet"
        BY <2>1, <3>1
    <3> QED
        BY <2>2, <3>2 DEF CallerMay, MayTransferGatewayGovernance
  <2>3. CASE c.op = "gatewayMintLimiter"
    <3>1. seen = <<gateway.limiter>>
        BY <2>3, RelevantIs
    <3>2. gateway.limiter = "wallet"
        BY <2>1, <3>1
    <3> QED
        BY <2>3, <3>2 DEF CallerMay, MayTransferGatewayMintLimiter
  <2> QED
      BY <1>1, <2>2, <2>3 DEF GatewayOps
<1>2. CASE c.op \in OwnerOps \cup OperatorOps
  <2>1. seen = <<owned>>
      BY <1>2, RelevantIs
  <2>2. OwnedMay(c, owned)
      BY <1>2, <2>1 DEF Vouched
  <2> QED
      BY <1>2, <2>2
         DEF CallerMay, OwnedMay, OwnerOps, OperatorOps, MayTransferOwnership,
             MayProposeOwnership, MayAcceptOwnership, MayAddOperator, MayRemoveOperator,
             MayCollectFees, MayRefund
<1> QED
    BY <1>1, <1>2 DEF DirectOps

\* A transaction that is refused although nothing it depends on has changed.
LEMMA SentRefused ==
    ASSUME Typed, NEW p \in People, Vouched(p, run[p]), Sent(p), ~run'[p].ok,
           Relevant(p, run[p].call) = run[p].seen
    PROVE  Unchecked(p)
<1>1. run[p].pc = "sent"
    BY SentStep
<1>2. CASE SubmitSent(p)
    BY <1>2 DEF SubmitSent, Unchecked
<1>3. CASE ExecuteSent(p)
  <2>1. ExecuteWorks(p) \in BOOLEAN /\ Mined(p, ExecuteWorks(p)) /\ run[p].cmd.op = "execute"
      BY <1>3 DEF ExecuteSent, ExecuteWorks, Doing
  <2>2. ~ExecuteWorks(p)
      BY <1>1, <2>1, RefusedNot
  <2>3. run[p].seen = <<LockOf(run[p].call)>>
      BY <2>1, RelevantIs
  <2>4. \E l \in LockOf(run[p].call) : l.due
      BY <1>1, <2>1, <2>3 DEF Vouched
  <2> QED
      BY <2>1, <2>2, <2>4 DEF ExecuteWorks, Unchecked
<1>4. CASE TransferMintLimiterSent(p) \/ SetLimitsSent(p) \/ WithdrawSent(p)
           \/ ExecuteApprovedSent(p)
  <2>1. PICK op \in MultisigOps : Votes(p, op)
      BY <1>4 DEF TransferMintLimiterSent, SetLimitsSent, WithdrawSent, ExecuteApprovedSent,
                  MultisigOps
  <2>2. /\ VoteWorks(p) \in BOOLEAN /\ Mined(p, VoteWorks(p))
        /\ run[p].cmd.op \in MultisigOps
      BY <2>1 DEF Votes, VoteWorks, Doing
  <2>3. ~VoteWorks(p)
      BY <1>1, <2>2, RefusedNot
  <2> QED
      BY <1>1, <2>2, <2>3, MultisigRefuses
<1>5. CASE \/ GatewayGovernanceSent(p) \/ GatewayMintLimiterSent(p)
           \/ TransferOwnershipSent(p) \/ ProposeOwnershipSent(p) \/ AcceptOwnershipSent(p)
           \/ AddOperatorSent(p) \/ RemoveOperatorSent(p) \/ ExecuteContractSent(p)
  <2>1. Mined(p, CallerMay(p)) /\ run[p].cmd.op \in DirectOps
      BY <1>5 DEF GatewayGovernanceSent, GatewayMintLimiterSent, TransferOwnershipSent,
                  ProposeOwnershipSent, AcceptOwnershipSent, AddOperatorSent,
                  RemoveOperatorSent, ExecuteContractSent, CallsGateway, CallsOwned, Doing,
                  DirectOps, GatewayOps, OwnerOps, OperatorOps
  <2>2. CallerMay(p)
      BY <1>1, <2>1, DirectAccepts
  <2>3. CallerMay(p) = TRUE
      BY <2>2
  <2>4. Mined(p, TRUE)
      BY <2>1, <2>3, Zenon
  <2> QED
      BY <1>1, <2>4, RefusedNot
<1> QED
    BY <1>2, <1>3, <1>4, <1>5 DEF Sent

LEMMA RefusedStep ==
    ASSUME Typed, VouchedInv, [Next]_vars, NEW p \in People, run[p].pc = "sent",
           run'[p].pc = "record", ~run'[p].ok
    PROVE  Unchecked(p) \/ Relevant(p, run[p].call) # run[p].seen
<1>1. run' # run
    OBVIOUS
<1>2. PICK q \in People : \/ Start(q) \/ Check(q) \/ Decline(q) \/ Send(q) \/ Sent(q)
                          \/ Record(q) \/ Crash(q)
    BY <1>1, TypedExternal DEF Next, vars
<1>3. q = p
    BY <1>2, VouchedPerson
<1>4. Sent(p)
    BY <1>2, <1>3, VouchedPerson
<1> QED
    BY <1>4, SentRefused DEF VouchedInv

\* A transaction is refused only if somebody else changed what the script checked,
\* or for a reason no script looks at, whatever else people run at the same time:
\* the checks of governance.js:389, gateway.js:369, ownership.js:77, operators.js
\* and multisig.js:67 ask for what the contracts ask for, and for all of it.
THEOREM NeverRefusedByItself == Spec => RefusedOnlyByOthers
<1>1. Typed /\ VouchedInv /\ [Next]_vars =>
          [\A p \in People :
              run[p].pc = "sent" /\ run'[p].pc = "record" /\ ~run'[p].ok =>
                  Unchecked(p) \/ Relevant(p, run[p].call) # run[p].seen]_vars
    BY RefusedStep
<1> QED
    BY <1>1, TypedInitially, TypedInductive, VouchedInitially, VouchedInductive, PTL
       DEF Spec, RefusedOnlyByOthers
=============================================================================
