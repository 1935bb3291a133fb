--------------------------- MODULE MCMainProcessor ---------------------------
(* Instances of MainProcessor for TLC. *)
EXTENDS MainProcessor, TLC

CONSTANTS r1, r2, c1, c2

TwoRuns == {r1, r2}
TwoChains == {c1, c2}
OneChain == {c1}

\* Each option on and off.
EachOption == {[parallel |-> FALSE, skipExisting |-> FALSE, reuseProxy |-> FALSE],
               [parallel |-> TRUE, skipExisting |-> TRUE, reuseProxy |-> TRUE]}
==============================================================================
