--------------------------- MODULE ConfigRegistry ---------------------------
(***************************************************************************)
(* What the chain configuration file promises its readers: it names the    *)
(* deployed contract of every chain.  An entry, once written, is never     *)
(* taken back, and it only ever moves to a contract that exists and was    *)
(* deployed later.  Addresses are numbers in deployment order.             *)
(* MainProcessor implements this when its runs do not overlap.             *)
(***************************************************************************)
EXTENDS Integers

CONSTANTS Chains, None

VARIABLES file,   \* the address the configuration file names for each chain
          code    \* the addresses that hold a contract on each chain

vars == <<file, code>>

Init ==
    /\ file = [c \in Chains |-> None]
    /\ code = [c \in Chains |-> {}]

\* A contract appears on chain c; the file does not know it yet.
Deploy(c) ==
    /\ \E a \in code'[c] : code' = [code EXCEPT ![c] = @ \cup {a}]
    /\ UNCHANGED file

\* The new entry of a chain is the old one or a deployed, later contract.
Advances(c, old, new) ==
    \/ new = old
    \/ new \in code[c] /\ (old = None \/ new > old)

\* One save of the whole file.
Publish ==
    /\ DOMAIN file' = Chains
    /\ \A c \in Chains : Advances(c, file[c], file'[c])
    /\ UNCHANGED code

Next == Publish \/ \E c \in Chains : Deploy(c)

Spec == Init /\ [][Next]_vars
=============================================================================
