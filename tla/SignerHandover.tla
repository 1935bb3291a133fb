--------------------------- MODULE SignerHandover ---------------------------
(***************************************************************************)
(* What the rotation of a chain's verifier set promises.  The gateway      *)
(* accepts one signer set after the other; the prover's current set is the *)
(* one that signs.  The two move in turn: the gateway takes the successor  *)
(* on the word of the set that is signing, and only then does the          *)
(* successor start to sign.  So what is signed today is accepted today.    *)
(* Debug sets, one wallet each, may come before the first set of the       *)
(* prover and never after it.  GatewayRotation implements this.            *)
(***************************************************************************)
EXTENDS Sequences, Integers, Functions

CONSTANTS Debug,  \* the signer sets of a single wallet
          NoSet   \* no set is signing yet

VARIABLES accepted,  \* the sets the gateway took, oldest first
          signing    \* the set that signs for the prover

vars == <<accepted, signing>>

Latest == accepted[Len(accepted)]

Init == accepted = <<>> /\ signing = NoSet

\* The first verifiers are registered and form a set.
Begin(s) ==
    /\ signing = NoSet /\ s \notin Debug \cup {NoSet}
    /\ signing' = s
    /\ UNCHANGED accepted

\* The first set of the prover is one that signs already.
IsSigning(s) == s = signing /\ s # NoSet

\* The gateway is set up with the signing set or with a wallet.
Found(s) ==
    /\ accepted = <<>>
    /\ s \in Debug \/ IsSigning(s)
    /\ accepted' = <<s>>
    /\ UNCHANGED signing

\* A debug set makes way for another one or for the signing set; the signing
\* set for its successor.
Extend(s) ==
    /\ accepted # <<>>
    /\ s \notin Range(accepted)
    /\ \/ Latest \in Debug /\ (s \in Debug \/ IsSigning(s))
       \/ Latest = signing /\ s \notin Debug \cup {NoSet}
    /\ accepted' = Append(accepted, s)
    /\ UNCHANGED signing

\* The successor starts to sign, once the gateway knows it.
HandOver ==
    /\ accepted # <<>>
    /\ Latest \notin Debug
    /\ signing \in Range(accepted) \ {Latest}
    /\ signing' = Latest
    /\ UNCHANGED accepted

Next ==
    \/ \E s \in Debug \cup {signing} : Found(s)
    \/ \E s \in {signing'} : Begin(s)
    \/ \E s \in Range(accepted') : Extend(s)
    \/ HandOver

Spec == Init /\ [][Next]_vars

\* What this is good for.  No set is accepted twice and no wallet after the prover's
\* sets, and from the first of these on the signing set is the gateway's latest or
\* the one before.
InTurn ==
    /\ \A i, j \in DOMAIN accepted : accepted[i] = accepted[j] => i = j
    /\ \A i, j \in DOMAIN accepted :
          i < j /\ accepted[i] \notin Debug => accepted[j] \notin Debug
    /\ accepted # <<>> /\ Latest \notin Debug =>
          \E i \in DOMAIN accepted : i >= Len(accepted) - 1 /\ accepted[i] = signing
=============================================================================
