---------------------------- MODULE MCGovernance ----------------------------
(* Instances of Governance for TLC. *)
EXTENDS Governance, TLC

CONSTANTS ann, bob, cyd

Three == {ann, bob, cyd}

Cmd(op) == [op |-> op, action |-> "upgrade", to |-> "dao", by |-> "wallet", date |-> 1,
            id |-> 1, proposal |-> 0]
Given(op) == [Cmd(op) EXCEPT !.proposal = 1]
Hand(op) == [Cmd(op) EXCEPT !.action = "transferGovernance"]
ByDao(op) == [Cmd(op) EXCEPT !.by = "dao"]

Scene(a, b, c, n, f) ==
    [commands |-> ann :> a @@ bob :> b @@ cyd :> c,
     runs |-> ann :> n[1] @@ bob :> n[2] @@ cyd :> n[3], faults |-> f,
     repeat |-> FALSE, release |-> FALSE, governance |-> "timelock", limiter |-> "multisig"]

\* The steps of evm/README.md, by one person while nobody else does anything.
Documented ==
    {[Scene({Cmd("schedule"), Cmd("submit"), Cmd("execute")}, {}, {}, <<2, 0, 0>>, 1)
          EXCEPT !.repeat = TRUE, !.limiter = l] : l \in {"multisig", "wallet"}}

\* The mint limiter and the configuration change while a proposal is under way.
Disturbed ==
    {[Scene({Cmd("schedule"), Given("execute")}, {Cmd("transferMintLimiter")},
            {Cmd("transferMintLimiter")}, <<1, 1, 1>>, 1)
          EXCEPT !.repeat = TRUE],
     [Scene({Cmd("schedule"), Given("execute")}, {Cmd("gatewayMintLimiter")},
            {}, <<1, 1, 0>>, 1)
          EXCEPT !.repeat = TRUE, !.release = TRUE, !.limiter = "wallet"]}

Racing ==
    {Scene({Cmd("schedule"), Hand("schedule")}, {Cmd("execute")},
           {Hand("execute")}, <<2, 1, 1>>, 0),
     Scene({Cmd("schedule"), Cmd("cancel")}, {Cmd("execute")},
           {Cmd("execute"), Cmd("submit")}, <<2, 1, 1>>, 0),
     Scene({Cmd("transferMintLimiter")}, {Cmd("transferMintLimiter")},
           {Cmd("transferMintLimiter")}, <<2, 1, 1>>, 1),
     Scene({Cmd("withdraw"), Cmd("setTokenMintLimits")}, {Cmd("withdraw"), Cmd("setTokenMintLimits")},
           {Cmd("withdraw")}, <<2, 1, 1>>, 0),
     Scene({[Cmd("addOperator") EXCEPT !.to = "multisig"],
            [Cmd("removeOperator") EXCEPT !.to = "multisig"]},
           {Cmd("setFlowLimits")}, {Cmd("setFlowLimits")}, <<2, 1, 1>>, 0),
     Scene({[Cmd("scheduleMultisig") EXCEPT !.date = 0], Cmd("cancelMultisig"),
            [Cmd("submitMultisig") EXCEPT !.date = 0]},
           {Given("executeMultisigProposal")}, {Given("executeMultisigProposal")},
           <<3, 1, 1>>, 0)}

Direct ==
    {[Scene({Cmd("gatewayGovernance"), Cmd("gatewayMintLimiter")},
            {[Cmd("gatewayGovernance") EXCEPT !.to = "multisig"],
             [Cmd("gatewayMintLimiter") EXCEPT !.to = "multisig"]}, {}, <<2, 2, 0>>, 1)
          EXCEPT !.governance = "wallet", !.limiter = "wallet"],
     Scene({Cmd("transferOwnership"), Cmd("proposeOwnership"), Cmd("addOperator"),
            Cmd("removeOperator")},
           {ByDao("acceptOwnership"), ByDao("collectFees"), ByDao("refund"),
            [ByDao("transferOwnership") EXCEPT !.to = "multisig"]}, {}, <<2, 2, 0>>, 1)}

EveryScene == Documented \cup Disturbed \cup Racing \cup Direct
EveryCommand == UNION {UNION {sc.commands[p] : p \in Three} : sc \in EveryScene}

\* Signers of the multisig who heed its warnings.
VoteScenes == {Scene({Cmd("transferMintLimiter")}, {Cmd("transferMintLimiter")},
                     {Cmd("transferMintLimiter")}, <<1, 1, 1>>, 0)}
=============================================================================
