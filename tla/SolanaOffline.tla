----------------------------- MODULE SolanaOffline -----------------------------
(***************************************************************************)
(* The offline signing flow of solana-axelar-cli on one durable nonce      *)
(* account: generate writes the transactions of a command to files, sign   *)
(* writes a signature file per signer, combine joins signatures with the   *)
(* transaction they were made for, and broadcast sends the result.  Files  *)
(* stay where they are: any of these may be repeated, by anybody, while    *)
(* older files are still around.                                           *)
(*                                                                         *)
(* Sources: solana/src generate.rs, sign.rs, combine.rs, broadcast.rs and  *)
(* utils.rs.                                                               *)
(***************************************************************************)
EXTENDS Integers, Sequences

CONSTANTS
    Absent,         \* no file, no value
    Commands,       \* invocations of generate with their arguments
    Names,          \* the file names generate derives from the command
    NameOf,         \* the name of a command
    Instructions,   \* what an instruction does
    InstructionsOf, \* a command's instructions: one transaction is made of each
    MaxTxs,         \* no command has more of them
    Keys,           \* the keys people sign with
    Required,       \* fee payer, nonce authority and the instructions' signers
    MaxAdvances     \* bound: how often the nonce account advances

ASSUME SolanaConstants ==
    /\ NameOf \in [Commands -> Names]
    /\ InstructionsOf \in [Commands -> Seq(Instructions)]
    /\ MaxTxs \in Nat
    /\ \A c \in Commands : Len(InstructionsOf[c]) <= MaxTxs
    /\ Required \subseteq Keys
    /\ MaxAdvances \in Nat

VARIABLES
    unsigned,      \* <name>[.<i>].unsigned.json
    sigs,          \* <name>[.<i>].<key>.partial.sig: the message that was signed
    signed,        \* <name>[.<i>].signed.json: a transaction and its signatures
    durableNonce,  \* the value of the durable nonce
    inFlight,      \* the transactions sent and not yet decided
    landed         \* the transactions the chain has processed, in order

fileVars   == <<unsigned, sigs, signed>>
chain      == <<durableNonce, inFlight, landed>>
solanaVars == <<fileVars, chain>>

\* The index (1 for the code's 0) is part of the name only if a command has
\* several transactions.
TxPaths == Names \X (0 .. MaxTxs)
PathOf(c, i) == <<NameOf[c], IF Len(InstructionsOf[c]) > 1 THEN i ELSE 0>>

\* Instructions, the nonce in place of a recent blockhash, and whether the
\* first instruction advances the nonce account.
Messages == [pay : Instructions, nonce : Nat, advances : BOOLEAN]

\* A signature holds for the message it was made of, and for no other.
Signatures  == [key : Keys, over : Messages]
SignedFiles == [msg : Messages, sigs : SUBSET Signatures]

ASSUME AbsentIsNothing == Absent \notin Messages /\ Absent \notin SignedFiles

SolanaTypeOK ==
    /\ unsigned \in [TxPaths -> Messages \cup {Absent}]
    /\ sigs     \in [TxPaths \X Keys -> Messages \cup {Absent}]
    /\ signed   \in [TxPaths -> SignedFiles \cup {Absent}]
    /\ durableNonce \in Nat
    /\ inFlight \in SUBSET Messages
    /\ landed   \in Seq(Messages)

SolanaInit ==
    /\ unsigned = [p \in TxPaths |-> Absent]
    /\ sigs = [x \in TxPaths \X Keys |-> Absent]
    /\ signed = [p \in TxPaths |-> Absent]
    /\ durableNonce = 0
    /\ inFlight = {}
    /\ landed = << >>

------------------------------------------------------------------------------
(* generate *)

\* Mutants: the nonce account is not read; it is not advanced.
MessageWithoutNonce(c, i) ==
    [pay |-> InstructionsOf[c][i], nonce |-> Absent, advances |-> TRUE]
MessageNotAdvancing(c, i) ==
    [pay |-> InstructionsOf[c][i], nonce |-> durableNonce, advances |-> FALSE]

\* generate_from_transactions puts the same nonce and the same first instruction
\* into every transaction of the command.
Message(c, i) == [pay |-> InstructionsOf[c][i], nonce |-> durableNonce, advances |-> TRUE]

\* The files are written one by one; a failure leaves the rest as it was.
Generate(c) ==
    /\ \E written \in 1 .. Len(InstructionsOf[c]) :
          unsigned' = [p \in TxPaths |->
             IF \E i \in 1 .. written : p = PathOf(c, i)
             THEN Message(c, CHOOSE i \in 1 .. written : p = PathOf(c, i))
             ELSE unsigned[p]]
    /\ UNCHANGED <<sigs, signed, chain>>

------------------------------------------------------------------------------
(* sign and combine, offline *)

\* A key that is not required gets a warning, and its file.
SignFile(p, k) ==
    /\ unsigned[p] # Absent
    /\ sigs' = [sigs EXCEPT ![<<p, k>>] = unsigned[p]]
    /\ UNCHANGED <<unsigned, signed, chain>>

\* Mutant: signatures are counted and not verified.
FittingUnverified(p, S) ==
    /\ \A x \in S : sigs[x] # Absent
    /\ \A x, y \in S : x[2] = y[2] => sigs[x] = sigs[y]
    /\ \A k \in Required : \E x \in S : x[2] = k

\* combine is given signature files, of this transaction or of others: no two
\* that disagree about a signer, one of each required signer, and all of them,
\* also those of other signers, must hold for the message.
Fitting(p, S) ==
    /\ \A x \in S : sigs[x] # Absent
    /\ \A x, y \in S : x[2] = y[2] => sigs[x] = sigs[y]
    /\ \A k \in Required : \E x \in S : x[2] = k
    /\ \A x \in S : sigs[x] = unsigned[p]

Combine(p) ==
    /\ unsigned[p] # Absent
    /\ \E S \in SUBSET (TxPaths \X Keys) \ {{}} :
          /\ Fitting(p, S)
          /\ signed' = [signed EXCEPT ![p] =
                [msg |-> unsigned[p], sigs |-> {[key |-> x[2], over |-> sigs[x]] : x \in S}]]
    /\ UNCHANGED <<unsigned, sigs, chain>>

------------------------------------------------------------------------------
(* broadcast, and the chain (external) *)

\* construct_transaction: a signature of each required signer, all valid.
Reconstructs(f) ==
    \A k \in Required :
        /\ \E s \in f.sigs : s.key = k
        /\ \A s \in f.sigs : s.key = k => s.over = f.msg

Valid(m) == m.nonce = durableNonce

\* A node takes what passes its preflight check.  broadcast writes no file: its
\* answer, or the loss of it, changes nothing else.
Broadcast(p) ==
    /\ signed[p] # Absent /\ Reconstructs(signed[p])
    /\ Valid(signed[p].msg)
    /\ inFlight' = inFlight \cup {signed[p].msg}
    /\ UNCHANGED <<fileVars, durableNonce, landed>>

\* Whether the instructions succeed or fail, the nonce advances.
Land ==
    /\ durableNonce < MaxAdvances
    /\ \E m \in inFlight :
          /\ Valid(m)
          /\ landed' = Append(landed, m)
          /\ durableNonce' = IF m.advances THEN durableNonce + 1 ELSE durableNonce
          /\ inFlight' = inFlight \ {m}
    /\ UNCHANGED fileVars

SolanaNext ==
    \/ \E c \in Commands : Generate(c)
    \/ \E p \in TxPaths, k \in Keys : SignFile(p, k)
    \/ \E p \in TxPaths : Combine(p) \/ Broadcast(p)
    \/ Land

SolanaSpec == SolanaInit /\ [][SolanaNext]_solanaVars

------------------------------------------------------------------------------
(* Properties *)

\* What combine wrote, broadcast can send: although transactions are generated
\* anew between signing, combining and broadcasting, and signature files of
\* other transactions and former versions lie next to the right ones, no signed
\* file ever has a signature that does not hold for its own message
\* (combine.rs:75-98).
CombinedReconstructs ==
    \A p \in TxPaths : signed[p] # Absent => Reconstructs(signed[p])

\* Of all the transactions made for one value of the nonce at most one is ever
\* processed, and that once: repeating a broadcast whose answer was lost, or
\* generating and signing a corrected version of the command, never executes
\* both (generate.rs:39-43).
OnePerNonce ==
    \A i, j \in 1 .. Len(landed) : landed[i].nonce = landed[j].nonce => i = j
===============================================================================
