----------------------------- MODULE EvmOfflineTx -----------------------------
(***************************************************************************)
(* The offline signing flow of the EVM scripts, for one signer on one      *)
(* chain: update-nonces copies the account nonce into nonces.json, signing *)
(* runs (send-tokens, multisig, ... with --offline) write signed           *)
(* transactions to files named after the command and the nonce, and        *)
(* broadcast-transactions sends the files it is given and notes in each    *)
(* what became of it.                                                      *)
(*                                                                         *)
(* Sources: evm/sign-utils.js, evm/send-tokens.js,                         *)
(* evm/broadcast-transactions.js.                                          *)
(***************************************************************************)
EXTENDS Integers, Sequences

CONSTANTS
    None,
    Signings,       \* runs of a signing command
    Kinds,          \* the command names that appear in file names
    KindOf,         \* the command of a signing run
    Payloads,       \* what a transaction does, apart from its nonce
    PaysOf,         \* the payloads a signing run signs, in order
    Broadcasters,   \* runs of broadcast-transactions
    MaxNonce,       \* bound: the largest nonce signed
    Sorted,         \* are the files given in the order of their nonces?
    Serial          \* at most one broadcaster at a time?

ASSUME OfflineConstants ==
    /\ None \notin Nat /\ None \notin Payloads
    /\ KindOf \in [Signings -> Kinds]
    /\ PaysOf \in [Signings -> Seq(Payloads)]
    /\ MaxNonce \in Nat
    /\ Sorted \in BOOLEAN /\ Serial \in BOOLEAN

VARIABLES
    local,   \* the signer's nonce in nonces.json
    signing, \* how many payloads a signing run has signed, and its --nonceOffset
    files,   \* the file at each path: the signed transaction and its status
    pc,      \* what a broadcaster is doing
    todo,    \* the files a broadcaster has not come to yet
    held,    \* the path and the content of the file it is working on
    faulty,  \* history: was a prompt declined, or did an RPC call fail?
    nonce,   \* the account's nonce on the chain
    pool,    \* the transactions nodes hold and have not included
    ledger   \* the transaction included with each nonce

signVars  == <<local, signing>>
bcastVars == <<pc, todo, held, faulty>>
chainVars == <<nonce, pool, ledger>>
vars == <<signVars, files, bcastVars, chainVars>>

Nonces  == 0 .. MaxNonce
Paths   == [kind : Kinds, nonce : Nonces]
Status  == {"PENDING", "SUCCESS", "FAILED"}
Files   == [pay : Payloads, status : Status]
Txs     == [nonce : Nonces, pay : Payloads]
Held    == [path : Paths, file : Files]
Outcome == [pay : Payloads, ok : BOOLEAN]
Active  == {"picking", "sending", "waiting"}

ASSUME NoneIsNoFile == None \notin Files /\ None \notin Held /\ None \notin Outcome

TypeOK ==
    /\ local   \in Nat \cup {None}
    /\ signing \in [Signings -> [signed : Nat, offset : Nat]]
    /\ files   \in [Paths -> Files \cup {None}]
    /\ pc      \in [Broadcasters -> Active \cup {"idle", "done", "crashed"}]
    /\ todo    \in [Broadcasters -> SUBSET Paths]
    /\ held    \in [Broadcasters -> Held \cup {None}]
    /\ faulty  \in BOOLEAN
    /\ nonce   \in Nat
    /\ pool    \in SUBSET Txs
    /\ ledger  \in [Nonces -> Outcome \cup {None}]

Init ==
    /\ local = None
    /\ signing \in [Signings -> [signed : {0}, offset : {0, 1}]]
    /\ files = [f \in Paths |-> None]
    /\ pc = [b \in Broadcasters |-> "idle"]
    /\ todo = [b \in Broadcasters |-> {}]
    /\ held = [b \in Broadcasters |-> None]
    /\ faulty = FALSE
    /\ nonce = 0
    /\ pool = {}
    /\ ledger = [n \in Nonces |-> None]

------------------------------------------------------------------------------
(* Signing, offline *)

\* update-nonces: the account's confirmed nonce.
UpdateNonce ==
    /\ local' = nonce
    /\ UNCHANGED <<signing, files, bcastVars, chainVars>>

\* signTransaction takes the local nonce plus the offset given to the command,
\* for every payload of the run; nobody advances the local nonce.
NonceFor(s) == local + signing[s].offset

\* Without a local nonce signTransaction throws and the run signs nothing more.
Sign(s) ==
    /\ signing[s].signed < Len(PaysOf[s])
    /\ local # None /\ NonceFor(s) \in Nonces
    /\ files' = [files EXCEPT ![[kind |-> KindOf[s], nonce |-> NonceFor(s)]] =
                   [pay |-> PaysOf[s][signing[s].signed + 1], status |-> "PENDING"]]
    /\ signing' = [signing EXCEPT ![s].signed = @ + 1]
    /\ UNCHANGED <<local, bcastVars, chainVars>>

------------------------------------------------------------------------------
(* broadcast-transactions *)

Existing == {f \in Paths : files[f] # None}

Start(b) ==
    /\ pc[b] = "idle"
    /\ Serial => \A a \in Broadcasters : pc[a] \notin Active
    /\ \E fs \in SUBSET Existing \ {{}} : todo' = [todo EXCEPT ![b] = fs]
    /\ pc' = [pc EXCEPT ![b] = "picking"]
    /\ UNCHANGED <<signVars, files, held, faulty, chainVars>>

\* The next file of the list given with --files.
Pick(b, f) ==
    /\ pc[b] = "picking"
    /\ f \in todo[b]
    /\ Sorted => \A g \in todo[b] : f.nonce <= g.nonce
    /\ todo' = [todo EXCEPT ![b] = @ \ {f}]

Skip(b, f) ==
    /\ Pick(b, f)
    /\ files[f].status = "SUCCESS"
    /\ UNCHANGED <<signVars, files, pc, held, faulty, chainVars>>

\* The operator declines the prompt; the loop goes on with the next file.
Decline(b, f) ==
    /\ Pick(b, f)
    /\ faulty' = TRUE
    /\ UNCHANGED <<signVars, files, pc, held, chainVars>>

\* Mutant: files are sent whatever their status.
TakeAny(b, f) ==
    /\ Pick(b, f)
    /\ held' = [held EXCEPT ![b] = [path |-> f, file |-> files[f]]]
    /\ pc' = [pc EXCEPT ![b] = "sending"]
    /\ UNCHANGED <<signVars, files, faulty, chainVars>>

Take(b, f) ==
    /\ Pick(b, f)
    /\ files[f].status # "SUCCESS"
    /\ held' = [held EXCEPT ![b] = [path |-> f, file |-> files[f]]]
    /\ pc' = [pc EXCEPT ![b] = "sending"]
    /\ UNCHANGED <<signVars, files, faulty, chainVars>>

Finish(b) ==
    /\ pc[b] = "picking" /\ todo[b] = {}
    /\ pc' = [pc EXCEPT ![b] = "done"]
    /\ UNCHANGED <<signVars, files, todo, held, faulty, chainVars>>

TxOf(h) == [nonce |-> h.path.nonce, pay |-> h.file.pay]

\* Nodes refuse a used nonce, a transaction they know, and a second one with
\* the nonce of one they hold.
Acceptable(t) == t.nonce >= nonce /\ \A u \in pool : u.nonce # t.nonce

Accepted(b) ==
    /\ pc[b] = "sending" /\ Acceptable(TxOf(held[b]))
    /\ pool' = pool \cup {TxOf(held[b])}
    /\ pc' = [pc EXCEPT ![b] = "waiting"]
    /\ UNCHANGED <<signVars, files, todo, held, faulty, nonce, ledger>>

\* Mutant: a status nobody else knows.
StoreStatus(b, status) ==
    /\ files' = [files EXCEPT ![held[b].path] =
                   [held[b].file EXCEPT !.status = IF status = "SUCCESS" THEN "MINED" ELSE @]]
    /\ pc' = [pc EXCEPT ![b] = "picking"]
    /\ held' = [held EXCEPT ![b] = None]
    /\ UNCHANGED <<signVars, todo>>

\* The object read from the file is written back with its new status.
Store(b, status) ==
    /\ files' = [files EXCEPT ![held[b].path] = [held[b].file EXCEPT !.status = status]]
    /\ pc' = [pc EXCEPT ![b] = "picking"]
    /\ held' = [held EXCEPT ![b] = None]
    /\ UNCHANGED <<signVars, todo>>

\* Mutant: a refused transaction is sent again and again.
RefusedRetried(b) ==
    /\ pc[b] = "sending" /\ ~ Acceptable(TxOf(held[b]))
    /\ UNCHANGED vars

Refused(b) ==
    /\ pc[b] = "sending" /\ ~ Acceptable(TxOf(held[b]))
    /\ Store(b, "FAILED")
    /\ UNCHANGED <<faulty, chainVars>>

\* The call fails on its way there, or on its way back, or while waiting.
RpcError(b) ==
    /\ faulty' = TRUE
    /\ \/ pc[b] \in {"sending", "waiting"} /\ UNCHANGED pool
       \/ /\ pc[b] = "sending" /\ Acceptable(TxOf(held[b]))
          /\ pool' = pool \cup {TxOf(held[b])}
    /\ Store(b, "FAILED")
    /\ UNCHANGED <<nonce, ledger>>

Receipt(b) == ledger[held[b].path.nonce]

\* Mutant: success as soon as the node took the transaction.
ConfirmedAtOnce(b) ==
    /\ pc[b] = "waiting"
    /\ Store(b, "SUCCESS")
    /\ UNCHANGED <<faulty, chainVars>>

\* response.wait returns the receipt, with no time limit; it throws for a
\* transaction that reverted.
Confirmed(b) ==
    /\ pc[b] = "waiting"
    /\ Receipt(b) = [pay |-> held[b].file.pay, ok |-> TRUE]
    /\ Store(b, "SUCCESS")
    /\ UNCHANGED <<faulty, chainVars>>

Reverted(b) ==
    /\ pc[b] = "waiting"
    /\ Receipt(b) # None /\ ~ Receipt(b).ok
    /\ Store(b, "FAILED")
    /\ UNCHANGED <<faulty, chainVars>>

Crash(b) ==
    /\ pc[b] \in Active
    /\ pc' = [pc EXCEPT ![b] = "crashed"]
    /\ todo' = [todo EXCEPT ![b] = {}]
    /\ held' = [held EXCEPT ![b] = None]
    /\ UNCHANGED <<signVars, files, faulty, chainVars>>

------------------------------------------------------------------------------
(* The chain (external) *)

Include ==
    /\ \E t \in pool, ok \in BOOLEAN :
          /\ t.nonce = nonce
          /\ ledger' = [ledger EXCEPT ![nonce] = [pay |-> t.pay, ok |-> ok]]
          /\ pool' = pool \ {t}
    /\ nonce' = nonce + 1
    /\ UNCHANGED <<signVars, files, bcastVars>>

------------------------------------------------------------------------------
BroadcastStep(b) ==
    \/ \E f \in Paths : Skip(b, f) \/ Take(b, f)
    \/ Finish(b) \/ Accepted(b) \/ Refused(b) \/ Confirmed(b) \/ Reverted(b)

Next ==
    \/ UpdateNonce
    \/ \E s \in Signings : Sign(s)
    \/ \E b \in Broadcasters :
          \/ Start(b) \/ BroadcastStep(b) \/ RpcError(b) \/ Crash(b)
          \/ \E f \in Paths : Decline(b, f)
    \/ Include

Spec == Init /\ [][Next]_vars

\* A running broadcaster goes on, and the chain includes what it can.
FairSpec ==
    Spec /\ WF_vars(Include) /\ \A b \in Broadcasters : WF_vars(BroadcastStep(b))

------------------------------------------------------------------------------
(* Properties *)

\* A file marked SUCCESS holds the very transaction that was executed with its
\* nonce, and it did not revert: although several commands sign with the same
\* nonce, files are signed anew while being broadcast, and broadcasters crash,
\* compete and repeat (broadcast-transactions.js:42-55).
SuccessIsExecuted ==
    \A f \in Existing :
        files[f].status = "SUCCESS" =>
            ledger[f.nonce] = [pay |-> files[f].pay, ok |-> TRUE]

\* Broadcasting again never turns SUCCESS into FAILED, though the second attempt
\* would be refused as "nonce too low" (broadcast-transactions.js:42); only
\* signing the same path anew replaces it.  Needs Serial: two broadcasters that
\* both read PENDING disagree about the outcome.
NeverDowngraded ==
    [][\A f \in Existing :
          files[f].status = "SUCCESS" => files'[f].status # "FAILED"]_vars

\* Nonces from the account's own up to the last file's are all in the list or
\* already on their way.
Contiguous(b) ==
    \A f \in todo[b], n \in Nonces :
        nonce <= n /\ n <= f.nonce =>
            \/ \E g \in todo[b] : g.nonce = n
            \/ \E t \in pool : t.nonce = n

\* "Broadcast all the pending signed transactions of the signer"
\* (broadcast-transactions.js:78): a run given files without a gap comes to its
\* end, also after another one crashed half way, as long as no call fails and no
\* prompt is declined.  Only so when the files come in nonce order (Sorted): the
\* wait for a receipt has no time limit, and a file before its predecessor, or
\* after one that was not sent, is waited for forever.
BroadcastEnds ==
    \A b \in Broadcasters :
        pc[b] = "picking" /\ Contiguous(b) /\ ~ faulty
        ~> pc[b] \in {"done", "crashed"} \/ faulty

\* 'comma-separated recipients of tokens' (send-tokens.js:101): once a signing
\* run has signed for all its recipients, and before anything is broadcast, there
\* is a signed transaction for each of them.
EveryRecipientSigned ==
    \A s \in Signings :
        signing[s].signed = Len(PaysOf[s]) /\ (\A b \in Broadcasters : pc[b] = "idle")
        => \A i \in 1 .. Len(PaysOf[s]) :
              \E f \in Existing : f.kind = KindOf[s] /\ files[f].pay = PaysOf[s][i]
===============================================================================
