-------------------------- MODULE MCGatewayRotation --------------------------
(* Instances of GatewayRotation for TLC. *)
EXTENDS GatewayRotation, TLC

CONSTANTS alice, bob

TwoOperators == {alice, bob}

Scene(k, n, a, b, c) ==
    [kind |-> k, names |-> n, crashes |-> c,
     budget |-> [o \in TwoOperators |-> IF o = alice THEN a ELSE b]]

Official == {"deploy", "update", "submitProof", "confirm"}

EveryScenario ==
    {Scene("evm", Official, 4, 1, 0), Scene("evm", Official, 4, 0, 1),
     Scene("evm", {"deploy", "approve", "approveAndExecute", "execute"}, 2, 1, 0),
     Scene("evm", {"deploy", "rotate", "submitProof", "execute"}, 3, 0, 1),
     Scene("sui", {"deploy", "rotate", "update", "submitProof"}, 4, 0, 0),
     Scene("sui", {"deploy", "approve"}, 2, 1, 0),
     Scene("stellar", {"deploy", "rotate", "submitProof", "execute"}, 4, 0, 0),
     Scene("stellar", {"deploy", "approve", "execute"}, 3, 0, 0),
     Scene("stellar", {"deploy", "approve", "execute"}, 1, 1, 0),
     Scene("solana", {"deploy", "update", "submitProof"}, 4, 0, 1),
     Scene("solana", {"deploy", "rotate"}, 2, 0, 1),
     Scene("solana", {"deploy", "approve"}, 1, 1, 0),
     Scene("solana", {"deploy", "approve", "execute"}, 3, 0, 0),
     Scene("stacks", {"deploy", "update"}, 2, 1, 1)}
==============================================================================
