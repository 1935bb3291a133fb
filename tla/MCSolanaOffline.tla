---------------------------- MODULE MCSolanaOffline ----------------------------
(* Instances of SolanaOffline for TLC. *)
EXTENDS SolanaOffline, TLC

CONSTANTS c1, c2, p1, p2, p3, k1, k2, k3

\* A call and its corrected version, which have the same file name.
CallCommands == {c1, c2}
CallName == c1 :> "call" @@ c2 :> "call"
CallPays == c1 :> <<p1>> @@ c2 :> <<p2, p3>>

AllPayloads == {p1, p2, p3}
AllKeys == {k1, k2, k3}
RequiredKeys == {k1, k2}
TwoKeys == {k1, k2}
===============================================================================
