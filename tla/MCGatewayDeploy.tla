--------------------------- MODULE MCGatewayDeploy ---------------------------
(* Instances of GatewayDeploy for TLC. *)
EXTENDS GatewayDeploy, TLC

CONSTANTS salt1, salt2, keyID

TwoSalts == {salt1, salt2}

Plain(script) ==
    [script |-> script, upgrade |-> FALSE, skipExisting |-> FALSE, reuseProxy |-> FALSE,
     reuseAuth |-> FALSE, keyID |-> FALSE, salt |-> NoSalt, operator |-> Nobody,
     governance |-> Nobody]
Scene(o, r, f) == [options |-> o, runs |-> r, faults |-> f, repeat |-> FALSE]
Repeat(o, f) == [options |-> {o}, runs |-> 1, faults |-> f, repeat |-> TRUE]

Amplifier(s) == [Plain("amplifier") EXCEPT !.salt = s]
Consensus == Plain("consensus")

AmplifierScenes ==
    {Repeat([Amplifier(salt1) EXCEPT !.operator = p, !.skipExisting = b, !.keyID = k], 3) :
        p \in {Nobody, "operator"}, b \in BOOLEAN, k \in BOOLEAN}
    \cup
    {Scene({Amplifier(s) : s \in {salt1, salt2}}
           \cup {[Amplifier(salt1) EXCEPT !.skipExisting = TRUE, !.operator = "operator"],
                 [Amplifier(NoSalt) EXCEPT !.reuseProxy = TRUE],
                 [Amplifier(NoSalt) EXCEPT !.governance = "dao"],
                 [Amplifier(salt1) EXCEPT !.upgrade = TRUE]}, 3, 1)}

ConsensusScenes ==
    {Scene({Consensus, [Consensus EXCEPT !.skipExisting = TRUE],
            [Consensus EXCEPT !.reuseProxy = TRUE],
            [Consensus EXCEPT !.reuseProxy = TRUE, !.reuseAuth = TRUE],
            [Consensus EXCEPT !.upgrade = TRUE],
            [Consensus EXCEPT !.upgrade = TRUE, !.governance = "dao"]}, 4, 2)}

EveryScene == AmplifierScenes \cup ConsensusScenes

\* The consensus gateway with create3 implementations.
Create3Scene ==
    {Scene({Consensus, [Consensus EXCEPT !.reuseProxy = TRUE, !.salt = salt1],
            [Consensus EXCEPT !.upgrade = TRUE]}, 4, 1)}
==============================================================================
