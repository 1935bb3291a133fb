---------------------------- MODULE MCEvmOfflineTx ----------------------------
(* Instances of EvmOfflineTx for TLC. *)
EXTENDS EvmOfflineTx, TLC

CONSTANTS s1, s2, b1, b2, p1, p2

OneRun == {s1}
TwoRuns == {s1, s2}
TwoBroadcasters == {b1, b2}
TwoPayloads == {p1, p2}

\* One transaction per run, signed by different commands.
SingleKind == s1 :> "multisig" @@ s2 :> "send-tokens"
SinglePays == s1 :> <<p1>> @@ s2 :> <<p2>>

\* One send-tokens run with two recipients.
SendKind == s1 :> "send-tokens"
SendPays == s1 :> <<p1, p2>>
===============================================================================
