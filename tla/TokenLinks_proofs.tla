-------------------------- MODULE TokenLinks_proofs --------------------------
(***************************************************************************)
(* The configuration names only Sui tokens that are registered as it says, *)
(* for any chains, people, lists of commands, faults and bounds.           *)
(*                                                                         *)
(* The invariant says it of the file and of the copy every running command *)
(* will save.  A coin in a script's hands between its two transactions is  *)
(* in no entry and in nobody else's hands, so what is done to it cannot    *)
(* make an entry wrong; and nothing but a gift is ever taken from a coin.  *)
(*                                                                         *)
(* Type correctness follows for commands that give the scripts what their  *)
(* options allow, with what Sound adds of the services and the messages.   *)
(***************************************************************************)
EXTENDS TokenLinks, TLAPS

Modes == Types \cup {"give", NoType}
CoinStates == Modes \cup {"published", "taken", "missed"}
PCs == {"idle", "approve", "ready", "each", "register"}
Entry == [coin : Nat, type : Modes]
Run == [pc : PCs, left : SUBSET (Chains \cup {"all"}), ok : BOOLEAN, coin : Nat,
        copy : [Symbols -> Entry]]

CoinsOk(x) == "coins" \in DOMAIN x /\ x.coins \in Seq(CoinStates)

MessageOk(m) ==
    /\ {"kind", "at"} \subseteq DOMAIN m
    /\ m.kind \in {"metadata", "deploy", "link", "transfer"}
    /\ m.at = "dest" => m.kind # "metadata"

Typed ==
    /\ scenario \in Scenarios
    /\ CoinsOk(its)
    /\ \A m \in msgs : MessageOk(m)
    /\ \A t \in late : t \in Command /\ t.op \in TrustOps
    /\ file \in [Symbols -> Entry]
    /\ run \in [People -> Run]
    /\ at \in [People -> Nat \ {0}]

\* An entry is true of the coins.
True(entry, coins) ==
    entry.coin # 0 =>
        /\ entry.coin \in 1..Len(coins)
        /\ \/ coins[entry.coin] = entry.type
           \/ entry.type = "give" /\ coins[entry.coin] \in {"taken", "missed"}

AllTrue(entries, coins) == \A s \in Symbols : True(entries[s], coins)

\* Who is between the two transactions has a coin of his own.
InHand(p) == run[p].pc = "register"
HandsOk ==
    /\ \A p \in People : InHand(p) =>
          run[p].coin \in 1..Len(its.coins) /\ its.coins[run[p].coin] = "published"
    /\ \A p \in People, q \in People :
          p # q /\ InHand(p) /\ InHand(q) => run[p].coin # run[q].coin

\* Who goes chain by chain is about trust.
EachOk == \A p \in People : run[p].pc = "each" => Cmd(p).op \in TrustOps

IInv ==
    /\ Typed
    /\ AllTrue(file, its.coins)
    /\ \A p \in People : AllTrue(run[p].copy, its.coins)
    /\ HandsOk
    /\ EachOk
-----------------------------------------------------------------------------
(* Coins that stay, but for gifts                                          *)

Stays(x, y) ==
    /\ CoinsOk(y)
    /\ Len(y.coins) = Len(x.coins)
    /\ \A i \in 1..Len(x.coins) :
          \/ y.coins[i] = x.coins[i]
          \/ x.coins[i] = "give" /\ y.coins[i] = "taken"

LEMMA CommandIn ==
    ASSUME Typed, NEW p \in People, ~Done(p)
    PROVE  Cmd(p) \in Command
<1>1. Steps(p) \in Seq(Command)
  BY ScenariosOK DEF Typed, Steps
<1>2. at[p] \in 1..Len(Steps(p))
  BY <1>1 DEF Typed, Done
<1> QED
  BY <1>1, <1>2 DEF Cmd

LEMMA SameCoins ==
    ASSUME CoinsOk(its), NEW y, "coins" \in DOMAIN y, y.coins = its.coins
    PROVE  Stays(its, y)
BY DEF CoinsOk, Stays

LEMMA StaysTrue ==
    ASSUME CoinsOk(its), NEW y, Stays(its, y), NEW entry \in Entry, True(entry, its.coins)
    PROVE  True(entry, y.coins)
BY DEF CoinsOk, Stays, True, Entry, Modes, Types, NoType

LEMMA MessageIsOk ==
    ASSUME NEW kind \in {"metadata", "deploy", "link", "transfer"},
           NEW cmd, NEW type, NEW enc
    PROVE  MessageOk(Message(kind, cmd, type, enc))
BY DEF Message, MessageOk

LEMMA ArrivalStays ==
    ASSUME CoinsOk(its), NEW m, MessageOk(m), m.at = "dest", NEW new \in Arrival(m)
    PROVE  Stays(its, new)
<1> DEFINE c == m.to
           man == The(c, m.id)
<1>1. CASE m.kind = "deploy" /\ Kind[c] = "sui"
  <2>1. PICK n \in Given : new = [its EXCEPT !.coins[n] = "taken",
                               !.managers = Adding(c, m.id, m.id, "native")]
    BY <1>1 DEF Arrival
  <2>2. n \in 1..Len(its.coins) /\ its.coins[n] = "give"
    BY DEF Given
  <2>3. "coins" \in DOMAIN new /\ new.coins = [its.coins EXCEPT ![n] = "taken"]
    BY <2>1 DEF CoinsOk
  <2>4. "taken" \in CoinStates
    BY DEF CoinStates
  <2> QED
    BY <2>2, <2>3, <2>4 DEF CoinsOk, Stays
<1>2. CASE m.kind = "deploy" /\ Kind[c] # "sui"
  <2>1. new = [its EXCEPT !.managers = Adding(c, m.id, m.id, "native")]
    BY <1>2 DEF Arrival
  <2> QED
    BY <2>1, SameCoins DEF CoinsOk
<1>3. CASE m.kind = "link"
  <2>1. new = [its EXCEPT !.managers = Adding(c, m.id, Own, m.type)]
    BY <1>3 DEF Arrival
  <2> QED
    BY <2>1, SameCoins DEF CoinsOk
<1>4. CASE m.kind = "transfer"
  <2>1. new = [its EXCEPT !.wallet = Put(@, c, man.token),
                          !.vault = IF man.type = "lock" THEN Take(@, c, man.token) ELSE @]
    BY <1>4 DEF Arrival
  <2> QED
    BY <2>1, SameCoins DEF CoinsOk
<1> QED
  BY <1>1, <1>2, <1>3, <1>4 DEF MessageOk

LEMMA EffectsStay ==
    ASSUME CoinsOk(its), \A m \in msgs : MessageOk(m),
           NEW cmd \in Command, OneTransaction(cmd), NEW e \in Effects(cmd)
    PROVE  Stays(its, e.its) /\ \A m \in e.out : MessageOk(m)
<1> DEFINE plain == "coins" \in DOMAIN e.its /\ e.its.coins = its.coins
           told(kind) == \E type, enc : e.out \subseteq {Message(kind, cmd, type, enc)}
<1> USE DEF CoinsOk
<1>1. CASE cmd.op \in TrustOps
  <2>1. \E chains : e \in Trusting(cmd, chains)
    BY <1>1 DEF Effects, TrustOps
  <2> QED
    BY <2>1, SameCoins DEF Trusting, Effect
<1>2. CASE cmd.op \in {"pause", "unpause"}
  <2>1. e \in Pausing(cmd)
    BY <1>2 DEF Effects, TrustOps
  <2> QED
    BY <2>1, SameCoins DEF Pausing, Effect
<1>3. CASE cmd.op \in {"limit", "unlimit"}
  <2>1. e \in Limiting(cmd)
    BY <1>3 DEF Effects, TrustOps
  <2> QED
    BY <2>1, SameCoins DEF Limiting, Effect
<1>4. CASE cmd.op = "deploy"
  <2>1. e \in Deploying(cmd)
    BY <1>4 DEF Effects, TrustOps
  <2>2. /\ e.out = {}
        /\ e.its = [its EXCEPT !.managers = Adding(cmd.on, cmd.id, cmd.id, "native"),
                               !.wallet = Put(@, cmd.on, cmd.id)]
    BY <2>1 DEF Deploying, Effect
  <2> QED
    BY <2>2, SameCoins
<1>5. CASE cmd.op \in {"canonical", "custom"}
  <2>1. \E type : e \in Registering(cmd, type)
    BY <1>5 DEF Effects, TrustOps
  <2> QED
    BY <2>1, SameCoins DEF Registering, Effect
<1>6. CASE cmd.op \in {"metadata", "deployRemote", "deployRemoteCanonical", "link", "linkIts"}
  <2>1. \E kind \in {"metadata", "deploy", "link"} : e \in Telling(cmd, kind)
    BY <1>6 DEF Effects, TrustOps
  <2>2. PICK kind \in {"metadata", "deploy", "link"} : e \in Telling(cmd, kind)
    BY <2>1
  <2>3. plain /\ told(kind)
    BY <2>2 DEF Telling, Effect
  <2> QED
    BY <2>3, SameCoins, MessageIsOk
<1>7. CASE cmd.op = "transfer"
  <2>1. e \in Departing(cmd)
    BY <1>7 DEF Effects, TrustOps
  <2> DEFINE c == cmd.on
             m == The(c, cmd.id)
             new == [its EXCEPT !.wallet = Take(@, c, m.token), !.used = @ \cup {<<c, m.id>>},
                           !.allowed = IF m.type \in {"lock", "mintBurnFrom"}
                                       THEN @ \ {<<c, m.token>>} ELSE @,
                           !.vault = IF m.type = "lock" THEN Put(@, c, m.token) ELSE @]
             out == {Message("transfer", cmd, m.type, EncodeITSDestination(Destination(cmd)))}
  <2>2. e = [its |-> new, gone |-> {}, out |-> out]
    BY <2>1, Zenon DEF Departing, Effect
  <2>3. "coins" \in DOMAIN new /\ new.coins = its.coins
    OBVIOUS
  <2>4. \A x \in out : MessageOk(x)
    BY MessageIsOk
  <2> HIDE DEF new, out
  <2> QED
    BY <2>2, <2>3, <2>4, SameCoins
<1>8. CASE cmd.op = "mint"
  <2>1. e \in Minting(cmd)
    BY <1>8 DEF Effects, TrustOps
  <2> QED
    BY <2>1, SameCoins DEF Minting, Effect
<1>9. CASE cmd.op \in {"giveMinter", "addMinter"}
  <2>1. e \in Handing(cmd)
    BY <1>9 DEF Effects, TrustOps
  <2> QED
    BY <2>1, SameCoins DEF Handing, Effect
<1>10. CASE cmd.op = "takeAdmin"
  <2>1. e \in TakingAdmin(cmd)
    BY <1>10 DEF Effects, TrustOps
  <2> QED
    BY <2>1, SameCoins DEF TakingAdmin, Effect
<1>11. CASE cmd.op = "createAsset"
  <2>1. e \in CreatingAsset(cmd)
    BY <1>11 DEF Effects, TrustOps
  <2> QED
    BY <2>1, SameCoins DEF CreatingAsset, Effect
<1>12. CASE cmd.op = "changeTrust"
  <2>1. e \in ChangingTrust(cmd)
    BY <1>12 DEF Effects, TrustOps
  <2> QED
    BY <2>1, SameCoins DEF ChangingTrust, Effect
<1>13. CASE cmd.op = "sendCoin"
  <2>1. e \in SendingCoin(cmd)
    BY <1>13 DEF Effects, TrustOps
  <2>2. plain /\ \E tok : e.out \subseteq {Message("transfer", tok, "lock", "raw")}
    BY <2>1 DEF SendingCoin, Effect
  <2> QED
    BY <2>2, SameCoins, MessageIsOk
<1>14. CASE cmd.op = "sendDeployment"
  <2>1. e \in SendingDeployment(cmd)
    BY <1>14 DEF Effects, TrustOps
  <2>2. plain /\ \E tok : e.out \subseteq {Message("deploy", tok, "native", "raw")}
    BY <2>1 DEF SendingDeployment, Effect
  <2> QED
    BY <2>2, SameCoins, MessageIsOk
<1>15. CASE cmd.op = "execute"
  <2>1. \E m \in msgs : \E new : /\ m.at = "dest" /\ new \in Arrival(m)
                                     /\ e = [its |-> new, gone |-> {m}, out |-> {}]
    BY <1>15 DEF Effects, TrustOps
  <2> QED
    BY <2>1, ArrivalStays
<1>16. cmd.op \in Ops \ (HubOps \cup {"publish"})
  BY DEF Command, OneTransaction
<1> QED
  BY <1>1, <1>2, <1>3, <1>4, <1>5, <1>6, <1>7, <1>8, <1>9, <1>10, <1>11, <1>12, <1>13,
     <1>14, <1>15, <1>16 DEF Ops, HubOps, TrustOps
-----------------------------------------------------------------------------
(* The steps                                                               *)

LEMMA IdleIsRun == Idle \in Run /\ \A coins : AllTrue(Idle.copy, coins)
BY DEF Idle, Run, PCs, Entry, Modes, NoEntry, AllTrue, True

LEMMA CoinsStay ==
    ASSUME CoinsOk(its), its' = its
    PROVE  Stays(its, its')
BY DEF CoinsOk, Stays

\* Steps after which nobody has a coin in hand who had none, no entry is new and
\* nothing is done to a coin but taking a gift.
LEMMA Preserved ==
    ASSUME IInv, scenario' = scenario, Stays(its, its'), \A m \in msgs' : MessageOk(m),
           \A t \in late' : t \in Command /\ t.op \in TrustOps,
           at' \in [People -> Nat \ {0}], run' \in [People -> Run],
           file' = file \/ \E p \in People : file' = run[p].copy,
           \A p \in People : /\ run'[p].copy \in {run[p].copy, file, Idle.copy}
                             /\ run'[p].pc = "register" => /\ run[p].pc = "register"
                                                           /\ run'[p].coin = run[p].coin
                             /\ run'[p].pc = "each" => /\ Cmd(p).op \in TrustOps
                                                       /\ at'[p] = at[p]
    PROVE  IInv'
<1>1. /\ file' \in [Symbols -> Entry] /\ AllTrue(file', its.coins)
      /\ \A p \in People : run'[p].copy \in [Symbols -> Entry] /\ AllTrue(run'[p].copy, its.coins)
  BY IdleIsRun DEF IInv, Typed, Run
<1>2. CoinsOk(its') /\ CoinsOk(its)
  BY DEF Stays, IInv, Typed
<1>3. \A entries \in [Symbols -> Entry] :
          AllTrue(entries, its.coins) => AllTrue(entries, its'.coins)
  BY <1>2, StaysTrue DEF AllTrue
<1>4. Typed'
  BY <1>1, <1>2 DEF IInv, Typed
<1>5. HandsOk'
  BY DEF IInv, HandsOk, InHand, Stays
<1>6. EachOk'
  BY DEF EachOk, Cmd, Steps
<1>7. AllTrue(file', its'.coins) /\ \A p \in People : AllTrue(run'[p].copy, its'.coins)
  BY <1>1, <1>3
<1> QED
  BY <1>4, <1>5, <1>6, <1>7 DEF IInv

LEMMA EndsOk ==
    ASSUME Typed, NEW p \in People, NEW ok, Ends(p, ok)
    PROVE  /\ at' \in [People -> Nat \ {0}] /\ run' \in [People -> Run]
           /\ \A q \in People : run'[q] = Idle \/ (run'[q] = run[q] /\ at'[q] = at[q])
BY IdleIsRun DEF Typed, Ends

\* An end of a command, its effects and those of the calls before it aside.
LEMMA EndPreserves ==
    ASSUME IInv, NEW p \in People, NEW ok, Ends(p, ok), scenario' = scenario,
           Stays(its, its'), \A m \in msgs' : MessageOk(m), late' = late,
           file' = file \/ file' = run[p].copy
    PROVE  IInv'
<1>1. /\ at' \in [People -> Nat \ {0}] /\ run' \in [People -> Run]
      /\ \A q \in People : run'[q] = Idle \/ (run'[q] = run[q] /\ at'[q] = at[q])
  BY EndsOk DEF IInv
<1>2. \A q \in People : /\ run'[q].copy \in {run[q].copy, file, Idle.copy}
                        /\ run'[q].pc = "register" => /\ run[q].pc = "register"
                                                      /\ run'[q].coin = run[q].coin
                        /\ run'[q].pc = "each" => /\ Cmd(q).op \in TrustOps
                                                  /\ at'[q] = at[q]
  BY <1>1 DEF Idle, IInv, EachOk
<1>3. \A t \in late' : t \in Command /\ t.op \in TrustOps
  BY DEF IInv, Typed
<1> QED
  BY <1>1, <1>2, <1>3, Preserved

\* A step of a command that goes on and takes no coin in hand.
LEMMA GoesPreserves ==
    ASSUME IInv, NEW p \in People, NEW new \in Run, run' = [run EXCEPT ![p] = new], at' = at,
           new.copy \in {run[p].copy, file}, new.pc # "register", scenario' = scenario,
           new.pc = "each" => Cmd(p).op \in TrustOps,
           Stays(its, its'), \A m \in msgs' : MessageOk(m),
           \A t \in late' : t \in Command /\ t.op \in TrustOps, file' = file
    PROVE  IInv'
<1>1. at' \in [People -> Nat \ {0}] /\ run' \in [People -> Run]
  BY DEF IInv, Typed
<1>2. \A q \in People : /\ run'[q].copy \in {run[q].copy, file, Idle.copy}
                        /\ run'[q].pc = "register" => /\ run[q].pc = "register"
                                                      /\ run'[q].coin = run[q].coin
                        /\ run'[q].pc = "each" => /\ Cmd(q).op \in TrustOps
                                                  /\ at'[q] = at[q]
  BY DEF IInv, Typed, EachOk
<1> QED
  BY <1>1, <1>2, Preserved

\* A step of the world changes nobody's run.
LEMMA WorldPreserves ==
    ASSUME IInv, UNCHANGED <<scenario, file, run, at>>, Stays(its, its'),
           \A m \in msgs' : MessageOk(m),
           \A t \in late' : t \in Command /\ t.op \in TrustOps
    PROVE  IInv'
<1>1. at' \in [People -> Nat \ {0}] /\ run' \in [People -> Run]
  BY DEF IInv, Typed
<1>2. \A q \in People : /\ run'[q].copy \in {run[q].copy, file, Idle.copy}
                        /\ run'[q].pc = "register" => /\ run[q].pc = "register"
                                                      /\ run'[q].coin = run[q].coin
                        /\ run'[q].pc = "each" => /\ Cmd(q).op \in TrustOps
                                                  /\ at'[q] = at[q]
  BY DEF IInv, EachOk
<1> QED
  BY <1>1, <1>2, Preserved

LEMMA HappensOk ==
    ASSUME Typed, NEW cmd \in Command, OneTransaction(cmd),
           \E e \in Effects(cmd) : Happens(cmd, e)
    PROVE  Stays(its, its') /\ \A m \in msgs' : MessageOk(m)
BY EffectsStay DEF Typed, Happens

LEMMA NothingOk ==
    ASSUME Typed, Nothing
    PROVE  Stays(its, its') /\ \A m \in msgs' : MessageOk(m)
BY CoinsStay DEF Typed, Nothing
-----------------------------------------------------------------------------
LEMMA InitInv == Init => IInv
<1> SUFFICES ASSUME Init PROVE IInv
  OBVIOUS
<1>1. CoinsOk(its) /\ its.coins = <<>>
  BY DEF Init, CoinsOk
<1>2. file \in [Symbols -> Entry] /\ AllTrue(file, its.coins)
  BY DEF Init, Entry, Modes, NoEntry, AllTrue, True
<1>3. run \in [People -> Run] /\ \A p \in People : run[p] = Idle
  BY IdleIsRun DEF Init
<1>4. Typed
  BY <1>1, <1>2, <1>3 DEF Init, Typed
<1>5. HandsOk
  BY <1>3 DEF HandsOk, InHand, Idle
<1>6. EachOk
  BY <1>3 DEF EachOk, Idle
<1> QED
  BY <1>2, <1>3, <1>4, <1>5, <1>6, IdleIsRun DEF IInv

\* Whoever starts does so with the file as it is.
LEMMA StartPreserves ==
    ASSUME IInv, NEW p \in People, Start(p)
    PROVE  IInv'
<1> DEFINE cmd == Cmd(p)
<1>1. cmd \in Command /\ run \in [People -> Run] /\ file \in [Symbols -> Entry]
  BY CommandIn DEF Start, Doing, IInv, Typed
<1>2. PICK pc \in {"approve", "each", "ready"}, left \in {ParseTrustedChains(cmd.to), {}} :
          run' = [run EXCEPT ![p] = [pc |-> pc, left |-> left, ok |-> TRUE, coin |-> 0,
                                     copy |-> file]]
  BY DEF Start
<1>3. left \subseteq Chains \cup {"all"}
  BY <1>1, ScenariosOK DEF Command, ParseTrustedChains, ItsEdgeChains
<1> DEFINE new == [pc |-> pc, left |-> left, ok |-> TRUE, coin |-> 0, copy |-> file]
<1>4. run'[p].pc = pc
  BY <1>1, <1>2
<1>5. new \in Run
  BY <1>1, <1>3 DEF Run, PCs
<1>6. run' = [run EXCEPT ![p] = new] /\ new.copy = file /\ new.pc # "register"
  BY <1>2
<1>7. new.pc = "each" => cmd.op \in TrustOps
  <2>1. run'[p] = [pc |-> IF NeedsApproval(cmd) THEN "approve"
                      ELSE IF cmd.op \in TrustOps /\ On(cmd, {"stellar", "stacks"}) THEN "each"
                      ELSE "ready",
               left |-> IF cmd.op \in TrustOps /\ On(cmd, {"stellar", "stacks"})
                        THEN ParseTrustedChains(cmd.to) ELSE {},
               ok |-> TRUE, coin |-> 0, copy |-> file]
    BY <1>1 DEF Start
  <2> QED
    BY <2>1, <1>4
<1>8. Stays(its, its') /\ \A m \in msgs' : MessageOk(m)
  BY NothingOk DEF Start, IInv
<1>9. (\A t \in late' : t \in Command /\ t.op \in TrustOps)
      /\ at' = at /\ scenario' = scenario /\ file' = file
  BY DEF Start, IInv, Typed
<1> QED
  BY <1>5, <1>6, <1>7, <1>8, <1>9, GoesPreserves

\* A command that ends with a transaction, or without.
LEMMA EndingsPreserve ==
    ASSUME IInv, NEW p \in People,
           \/ Refuse(p) \/ Decline(p) \/ Transact(p) \/ Revert(p) \/ AllSent(p) \/ Propose(p)
           \/ Fail(p) \/ Lose(p) \/ (FailUnseen(p) /\ ~InHand(p))
    PROVE  IInv'
<1>1. Cmd(p) \in Command
  BY CommandIn DEF IInv, Refuse, Decline, Transact, Revert, AllSent, Propose, Fail, Lose, FailUnseen, Doing
<1>2. Stays(its, its') /\ \A m \in msgs' : MessageOk(m)
  BY <1>1, NothingOk, HappensOk
     DEF IInv, Refuse, Decline, Transact, Revert, AllSent, Propose, Fail, Lose, FailUnseen,
         InHand, Doing, Nothing
<1>3. \E ok : Ends(p, ok)
  BY DEF Refuse, Decline, Transact, Revert, AllSent, Propose, Fail, Lose, FailUnseen, EndsWell
<1>4. file' = file \/ file' = run[p].copy
  BY DEF Refuse, Decline, Transact, Revert, AllSent, Propose, Fail, Lose, FailUnseen, EndsWell,
         InHand, Doing
<1>5. scenario' = scenario /\ late' = late
  BY DEF Refuse, Decline, Transact, Revert, AllSent, Propose, Fail, Lose, FailUnseen
<1> QED
  BY <1>2, <1>3, <1>4, <1>5, EndPreserves

LEMMA SkipPreserves ==
    ASSUME IInv, NEW p \in People, Skip(p)
    PROVE  IInv'
<1>1. at' \in [People -> Nat \ {0}] /\ run' = run /\ run' \in [People -> Run]
  BY DEF Skip, IInv, Typed
<1>2. Stays(its, its') /\ \A m \in msgs' : MessageOk(m)
  BY NothingOk DEF Skip, IInv
<1>3. \A t \in late' : t \in Command /\ t.op \in TrustOps
  BY DEF Skip, IInv, Typed
<1>4. \A q \in People : run[q].pc = "each" => Cmd(q).op \in TrustOps /\ at'[q] = at[q]
  BY DEF Skip, Doing, IInv, Typed, EachOk
<1> QED
  BY <1>1, <1>2, <1>3, <1>4, Preserved DEF Skip

LEMMA ApprovePreserves ==
    ASSUME IInv, NEW p \in People, Approve(p)
    PROVE  IInv'
<1> DEFINE new == [run[p] EXCEPT !.pc = "ready"]
<1>1. run[p] \in Run /\ CoinsOk(its)
  BY DEF IInv, Typed
<1>2. new \in Run /\ new.copy = run[p].copy
      /\ new.pc # "register" /\ new.pc # "each"
  BY <1>1 DEF Run, PCs
<1>3. run' = [run EXCEPT ![p] = new] /\ at' = at
  BY DEF Approve, Goes
<1>4. "coins" \in DOMAIN its' /\ its'.coins = its.coins
  BY <1>1 DEF Approve, CoinsOk
<1>5. Stays(its, its')
  BY <1>1, <1>4, SameCoins
<1>6. (\A m \in msgs' : MessageOk(m)) /\ \A t \in late' : t \in Command /\ t.op \in TrustOps
  BY DEF Approve, IInv, Typed
<1> QED
  BY <1>2, <1>3, <1>5, <1>6, GoesPreserves DEF Approve

\* One turn of a loop over the chains to trust.
LEMMA EachPreserves ==
    ASSUME IInv, NEW p \in People, NEW c \in Chains,
           TrustEach(p, c) \/ TrustCaught(p, c) \/ BroadcastEach(p, c)
    PROVE  IInv'
<1> DEFINE one == [Cmd(p) EXCEPT !.to = {c}]
<1>1. /\ Cmd(p) \in Command /\ Cmd(p).op \in TrustOps
      /\ run[p] \in Run /\ run[p].pc = "each"
  BY CommandIn DEF TrustEach, TrustCaught, BroadcastEach, Doing, IInv, Typed, EachOk
<1>2. one \in Command /\ one.op \in TrustOps /\ OneTransaction(one)
  BY <1>1 DEF Command, OneTransaction, TrustOps, HubOps
<1>3. PICK new \in Run : /\ run' = [run EXCEPT ![p] = new] /\ new.copy = run[p].copy
                         /\ new.pc = "each"
  <2>1. CASE TrustEach(p, c)
    <3> DEFINE new == [run[p] EXCEPT !.left = @ \ {c}, !.ok = @ /\ Effects(one) # {}]
    <3>1. run' = [run EXCEPT ![p] = new]
      BY <2>1, Zenon DEF TrustEach
    <3>2. (run[p].ok /\ Effects(one) # {}) \in BOOLEAN
      OBVIOUS
    <3>3. new \in Run /\ new.copy = run[p].copy /\ new.pc = "each"
      BY <1>1, <3>2 DEF Run
    <3> QED
      BY <3>1, <3>3
  <2>2. CASE TrustCaught(p, c)
    <3> DEFINE new == [run[p] EXCEPT !.left = @ \ {c}, !.ok = FALSE]
    <3>1. new \in Run /\ new.copy = run[p].copy /\ new.pc = "each"
      BY <1>1 DEF Run
    <3>2. run' = [run EXCEPT ![p] = new]
      BY <2>2 DEF TrustCaught
    <3> QED
      BY <3>1, <3>2
  <2>3. CASE BroadcastEach(p, c)
    <3> DEFINE new == [run[p] EXCEPT !.left = @ \ {c}]
    <3>1. new \in Run /\ new.copy = run[p].copy /\ new.pc = "each"
      BY <1>1 DEF Run
    <3>2. run' = [run EXCEPT ![p] = new]
      BY <2>3 DEF BroadcastEach
    <3> QED
      BY <3>1, <3>2
  <2> QED
    BY <2>1, <2>2, <2>3
<1>4. Stays(its, its') /\ \A m \in msgs' : MessageOk(m)
  BY <1>2, NothingOk, HappensOk DEF IInv, TrustEach, TrustCaught, BroadcastEach
<1>5. \A t \in late' : t \in Command /\ t.op \in TrustOps
  BY <1>2 DEF IInv, Typed, TrustEach, TrustCaught, BroadcastEach
<1>6. scenario' = scenario /\ file' = file /\ at' = at
  BY DEF TrustEach, TrustCaught, BroadcastEach
<1> QED
  BY <1>1, <1>3, <1>4, <1>5, <1>6, GoesPreserves

\* A published coin is nobody's and in no entry.
LEMMA PublishPreserves ==
    ASSUME IInv, NEW p \in People, Publish(p)
    PROVE  IInv'
<1> DEFINE n == Len(its.coins) + 1
<1>1. /\ CoinsOk(its) /\ CoinsOk(its') /\ its'.coins = Append(its.coins, "published")
      /\ run[p] \in Run /\ n \in Nat /\ run \in [People -> Run]
  BY DEF Publish, IInv, Typed, CoinsOk, CoinStates
<1>2. /\ Len(its'.coins) = n /\ its'.coins[n] = "published"
      /\ \A i \in 1..Len(its.coins) : its'.coins[i] = its.coins[i]
  BY <1>1 DEF CoinsOk
<1> DEFINE new == [run[p] EXCEPT !.pc = "register", !.coin = n]
<1>3. run' = [run EXCEPT ![p] = new]
  BY DEF Publish
<1>4. /\ new \in Run /\ new.pc = "register" /\ new.coin = n /\ new.copy = run[p].copy
      /\ run' \in [People -> Run]
  BY <1>1, <1>3 DEF Run, PCs
<1>5. \A q \in People : run'[q] = IF q = p THEN new ELSE run[q]
  BY <1>1, <1>3
<1> HIDE DEF new
<1>6. Typed'
  BY <1>1, <1>4 DEF IInv, Typed, Publish
<1>7. \A entry : True(entry, its.coins) => True(entry, its'.coins)
  BY <1>1, <1>2 DEF True, CoinsOk
<1>8. AllTrue(file', its'.coins) /\ \A q \in People : AllTrue(run'[q].copy, its'.coins)
  BY <1>4, <1>5, <1>7 DEF AllTrue, IInv, Publish
<1>9. HandsOk'
  BY <1>1, <1>2, <1>4, <1>5 DEF IInv, HandsOk, InHand, CoinsOk
<1>10. EachOk'
  BY <1>4, <1>5 DEF IInv, EachOk, Cmd, Steps, Publish
<1> QED
  BY <1>6, <1>8, <1>9, <1>10 DEF IInv

\* What is done to a coin in hand makes no entry wrong, and the new one, if it is noted, true.
LEMMA HandPreserves ==
    ASSUME IInv, NEW p \in People, InHand(p), NEW state \in Modes \cup {"missed"},
           "coins" \in DOMAIN its', its'.coins = [its.coins EXCEPT ![run[p].coin] = state],
           UNCHANGED <<scenario, msgs, late>>, \E ok : Ends(p, ok),
           \/ file' = file
           \/ /\ file' = Noted(p) /\ Cmd(p).type \in Modes
              /\ state = Cmd(p).type \/ (Cmd(p).type = "give" /\ state = "missed")
    PROVE  IInv'
<1> DEFINE n == run[p].coin
           type == Cmd(p).type
<1>1. /\ CoinsOk(its) /\ run[p] \in Run /\ file \in [Symbols -> Entry]
      /\ n \in 1..Len(its.coins) /\ its.coins[n] = "published"
  BY DEF IInv, Typed, HandsOk, InHand
<1>2. CoinsOk(its')
  BY <1>1 DEF CoinsOk, CoinStates
<1>3. \A i \in 1..Len(its'.coins) : its'.coins[i] = IF i = n THEN state ELSE its.coins[i]
  BY <1>1 DEF CoinsOk
<1>4. Len(its'.coins) = Len(its.coins)
  BY <1>1 DEF CoinsOk
<1>5. \A entry \in Entry : True(entry, its.coins) => True(entry, its'.coins)
  BY <1>1, <1>3, <1>4 DEF True, Entry, Modes, Types, NoType
<1>6. /\ at' \in [People -> Nat \ {0}] /\ run' \in [People -> Run]
      /\ \A q \in People : run'[q] = Idle \/ (run'[q] = run[q] /\ at'[q] = at[q])
      /\ run'[p] = Idle
  BY EndsOk DEF IInv, Typed, Ends
<1>7. file' \in [Symbols -> Entry] /\ AllTrue(file', its'.coins)
  <2>1. CASE file' = file
    BY <1>1, <1>5, <2>1 DEF IInv, AllTrue
  <2>2. CASE file' = Noted(p) /\ file' # file
    <3> DEFINE new == [coin |-> n, type |-> type]
               copy == run[p].copy
    <3>1. type \in Modes /\ (state = type \/ (type = "give" /\ state = "missed"))
      BY <2>2
    <3>2. new \in Entry
      BY <1>1, <3>1 DEF Entry, CoinsOk
    <3>3. True(new, its'.coins)
      BY <1>1, <1>3, <1>4, <3>1 DEF True, CoinsOk
    <3>4. copy \in [Symbols -> Entry] /\ AllTrue(copy, its'.coins)
      BY <1>1, <1>5 DEF Run, AllTrue, IInv
    <3>5. file' = [copy EXCEPT ![Cmd(p).id] = new]
      BY <2>2 DEF Noted
    <3> HIDE DEF new, copy
    <3> QED
      BY <3>2, <3>3, <3>4, <3>5 DEF AllTrue
  <2> QED
    BY <2>1, <2>2
<1>8. \A q \in People : AllTrue(run'[q].copy, its'.coins)
  <2>1. \A q \in People : run[q].copy \in [Symbols -> Entry] /\ AllTrue(run[q].copy, its.coins)
    BY DEF IInv, Typed, Run
  <2>2. \A q \in People : AllTrue(run[q].copy, its'.coins)
    BY <2>1, <1>5 DEF AllTrue
  <2> QED
    BY <2>2, <1>6, IdleIsRun
<1>9. Typed'
  BY <1>2, <1>6, <1>7 DEF IInv, Typed
<1>10. HandsOk'
  <2>1. InHand(p) /\ HandsOk
    BY DEF IInv
  <2>2. \A q \in People : InHand(q)' => q # p /\ InHand(q) /\ run'[q] = run[q]
    BY <1>6 DEF InHand, Idle
  <2> QED
    BY <2>1, <2>2, <1>3, <1>4 DEF HandsOk
<1>11. EachOk'
  BY <1>6 DEF IInv, EachOk, Cmd, Steps, Idle
<1> QED
  BY <1>7, <1>8, <1>9, <1>10, <1>11 DEF IInv

LEMMA RegisteredSets ==
    ASSUME IInv, NEW p \in People, Registered(p)
    PROVE  /\ InHand(p) /\ Cmd(p).type \in Modes
           /\ "coins" \in DOMAIN its'
           /\ its'.coins = [its.coins EXCEPT ![run[p].coin] = Cmd(p).type]
           /\ UNCHANGED <<scenario, msgs, late>>
<1>1. CoinsOk(its)
  BY DEF IInv, Typed
<1>2. InHand(p) /\ Cmd(p).type \in Modes
  BY CommandIn DEF IInv, Registered, Doing, InHand, Command, Modes
<1>3. "coins" \in DOMAIN its' /\ its'.coins = [its.coins EXCEPT ![run[p].coin] = Cmd(p).type]
  BY <1>1 DEF Registered, CoinsOk
<1> QED
  BY <1>2, <1>3 DEF Registered

\* The second transaction of deploy-token: it works, its answer is lost, or it fails unseen.
LEMMA RegisterPreserves ==
    ASSUME IInv, NEW p \in People,
           Register(p) \/ LoseRegistered(p) \/ (FailUnseen(p) /\ InHand(p))
    PROVE  IInv'
<1>1. CASE Register(p)
  <2>1. (\E ok : Ends(p, ok)) /\ file' = Noted(p)
    BY <1>1 DEF Register
  <2> QED
    BY <1>1, <2>1, RegisteredSets, HandPreserves DEF Register
<1>2. CASE LoseRegistered(p)
  <2>1. (\E ok : Ends(p, ok)) /\ file' = file
    BY <1>2 DEF LoseRegistered
  <2> QED
    BY <1>2, <2>1, RegisteredSets, HandPreserves DEF LoseRegistered
<1>3. CASE FailUnseen(p) /\ InHand(p)
  <2>1. /\ its' = [its EXCEPT !.coins[run[p].coin] = "missed"]
        /\ Cmd(p).type = "give" /\ file' = Noted(p)
        /\ (\E ok : Ends(p, ok)) /\ UNCHANGED <<scenario, msgs, late>>
    BY <1>3 DEF FailUnseen, InHand, Doing
  <2>2. "coins" \in DOMAIN its' /\ its'.coins = [its.coins EXCEPT ![run[p].coin] = "missed"]
    BY <2>1 DEF IInv, Typed, CoinsOk
  <2>3. "give" \in Modes
    BY DEF Modes
  <2> QED
    BY <1>3, <2>1, <2>2, <2>3, HandPreserves
<1> QED
  BY <1>1, <1>2, <1>3
-----------------------------------------------------------------------------
\* The world: transactions of Stacks, messages, time and votes.
LEMMA WorldKeeps ==
    ASSUME IInv,
           \/ \E t \in late : Mine(t)
           \/ \E m \in msgs : Learn(m) \/ Relay(m) \/ Deliver(m)
           \/ Epoch
           \/ \E pr \in hub.proposals : Pass(pr)
           \/ Finished \/ UNCHANGED vars
    PROVE  IInv'
<1>1. CoinsOk(its) /\ Typed
  BY DEF IInv, Typed
<1>2. UNCHANGED <<scenario, file, run, at>>
  BY DEF Mine, Learn, Relay, Deliver, Epoch, Pass, Finished, vars
<1>3. \A t \in late' : t \in Command /\ t.op \in TrustOps
  BY <1>1 DEF Typed, Mine, Learn, Relay, Deliver, Epoch, Pass, Finished, vars
<1>4. Stays(its, its') /\ \A m \in msgs' : MessageOk(m)
  <2>1. CASE \E t \in late : Mine(t)
    <3>1. PICK t \in late : Mine(t)
      BY <2>1
    <3>2. t \in Command /\ OneTransaction(t)
      BY <1>1 DEF Typed, OneTransaction, TrustOps, HubOps
    <3> QED
      BY <1>1, <3>1, <3>2, HappensOk, NothingOk DEF Mine
  <2>2. CASE \E m \in msgs : Learn(m)
    BY <1>1, <2>2, CoinsStay DEF Learn, Typed
  <2>3. CASE \E m \in msgs : Relay(m)
    <3>1. PICK m \in msgs : Relay(m)
      BY <2>3
    <3>2. MessageOk(m) /\ m.kind # "metadata"
      BY <1>1, <3>1 DEF Typed, Relay
    <3>3. MessageOk([m EXCEPT !.at = "dest"])
      BY <3>2 DEF MessageOk
    <3> QED
      BY <1>1, <3>1, <3>3, CoinsStay DEF Relay, Typed
  <2>4. CASE \E m \in msgs : Deliver(m)
    BY <1>1, <2>4, ArrivalStays DEF Deliver, Typed
  <2>5. CASE Epoch
    <3>1. "coins" \in DOMAIN its' /\ its'.coins = its.coins
      BY <1>1, <2>5 DEF Epoch, CoinsOk
    <3> QED
      BY <1>1, <2>5, <3>1, SameCoins DEF Epoch, Typed
  <2>6. CASE \E pr \in hub.proposals : Pass(pr)
    BY <1>1, <2>6, CoinsStay DEF Pass, Typed
  <2>7. CASE Finished \/ UNCHANGED vars
    BY <1>1, <2>7, CoinsStay DEF Finished, vars, Typed
  <2> QED
    BY <2>1, <2>2, <2>3, <2>4, <2>5, <2>6, <2>7
<1> QED
  BY <1>2, <1>3, <1>4, WorldPreserves

LEMMA NextInv == IInv /\ [Next]_vars => IInv'
<1> SUFFICES ASSUME IInv, [Next]_vars PROVE IInv'
  OBVIOUS
<1>1. CASE \E p \in People : Works(p) \/ Falters(p)
  BY <1>1, SkipPreserves, StartPreserves, EndingsPreserve, ApprovePreserves, EachPreserves,
     PublishPreserves, RegisterPreserves DEF Works, Falters
<1>2. CASE Next /\ ~\E p \in People : Works(p) \/ Falters(p)
  BY <1>2, WorldKeeps DEF Next, Carries
<1>3. CASE UNCHANGED vars
  BY <1>3, WorldKeeps
<1> QED
  BY <1>1, <1>2, <1>3

\* For any chains, people, lists of commands and faults: the file is only ever what a
\* command saved, and a command notes a coin of an origin only after the transaction that
\* registered it in the mode noted (sui/its-example.js:216), and a given one after one that
\* was executed, which may have failed unseen (sui/its-example.js:223, sui/utils/sign-utils.js:172).
THEOREM RecordedIsRegisteredCorrect == Spec => []RecordedIsRegistered
<1>1. IInv => RecordedIsRegistered
  BY DEF IInv, AllTrue, True, RecordedIsRegistered
<1> QED
  BY <1>1, InitInv, NextInv, PTL DEF Spec
-----------------------------------------------------------------------------
(* Type correctness.  It needs that people give the scripts what these can  *)
(* be given; and that a coin between its two transactions is named by no    *)
(* manager and no message, else registering it would make it a second one.  *)

\* The ids that a script derives from a salt or a token: it never names a coin so.
TokenIds == {"native", "canonical", "custom"} \X Chains

\* The options of the scripts: a type is one of the choices (evm/its.js:840,
\* stellar/its.js:545, sui/its-example.js:370); only the scripts that parse "all" get it
\* (common/utils.js:695).
Fits(cmd) ==
    /\ cmd.op \in {"deploy", "canonical", "custom"} => cmd.id \in TokenIds
    /\ cmd.op \in {"custom", "link", "linkIts"} => cmd.type \in Types
    /\ cmd.op = "publish" => cmd.id \in Symbols /\ cmd.type \in Types \cup {"give"}
    /\ cmd.op \in TrustOps =>
          \/ cmd.to \subseteq Chains
          \/ cmd.to = {"all"} /\ ~On(cmd, {"evm"})

OneManager(managers) ==
    \A m \in managers, n \in managers : m.chain = n.chain /\ m.id = n.id => m = n

ScenariosFit ==
    /\ MaxCoins \in Nat
    /\ \A sc \in Scenarios :
          /\ \A p \in People : \A i \in 1..Len(sc.steps[p]) : Fits(sc.steps[p][i])
          /\ OneManager(sc.managers) /\ \A m \in sc.managers : m.id \in TokenIds

Fields == {"trust", "paused", "managers", "minters", "wallet", "vault", "allowed", "limited",
           "used", "assets", "lines", "coins"}

\* A coin that an id names is out of its publisher's hands.
CoinKnown(id, coins) ==
    \A n \in Nat : id = <<"coin", n>> => n \in 1..Len(coins) /\ coins[n] # "published"

Manager == [chain : Chains, id : Ids, token : Tokens, type : Types]

ManagersOk(managers, coins) ==
    /\ managers \subseteq Manager
    /\ OneManager(managers)
    /\ \A m \in managers : CoinKnown(m.id, coins)

BagOk(bag) == IsABag(bag) /\ BagToSet(bag) \subseteq Chains \X Tokens

ItsOk(x) ==
    /\ Fields \subseteq DOMAIN x
    /\ x.coins \in Seq(CoinStates) /\ Len(x.coins) <= MaxCoins
    /\ x.trust \subseteq Chains \X Chains /\ x.paused \subseteq Chains
    /\ ManagersOk(x.managers, x.coins)
    /\ x.minters \subseteq Chains \X (Ids \cup {Wallet})
    /\ BagOk(x.wallet) /\ BagOk(x.vault)

\* A message between chains is about a token its sender has a manager for.
Addressed(m, coins) ==
    /\ {"from", "to", "id", "type"} \subseteq DOMAIN m
    /\ m.from \in Chains
    /\ m.kind # "metadata" => m.to \in Chains /\ m.id \in Ids /\ CoinKnown(m.id, coins)
    /\ m.kind = "link" => m.type \in Types

HubOk ==
    /\ {"edge", "meta", "proposals", "instances"} \subseteq DOMAIN hub
    /\ hub.edge \in [Chains -> {"none", "old", "live"}] /\ hub.meta \subseteq Chains

MessagesOk == \A m \in msgs : Addressed(m, its.coins)
LateOk == \A t \in late : Fits(t)
LeftOk == \A p \in People : run[p].left \subseteq Chains
HandIsPublishing == \A p \in People : InHand(p) => ~Done(p) /\ Cmd(p).op = "publish"

Sound ==
    /\ ItsOk(its) /\ HubOk
    /\ MessagesOk /\ LateOk
    /\ LeftOk /\ HandIsPublishing

LEMMA CommandFits ==
    ASSUME ScenariosFit, Typed, NEW p \in People, ~Done(p)
    PROVE  Fits(Cmd(p))
<1>1. Steps(p) \in Seq(Command)
  BY ScenariosOK DEF Typed, Steps
<1>2. at[p] \in 1..Len(Steps(p))
  BY <1>1 DEF Typed, Done
<1> QED
  BY <1>2 DEF Cmd, Steps, ScenariosFit, Typed

LEMMA PutOk ==
    ASSUME NEW bag, BagOk(bag), NEW c \in Chains, NEW t \in Tokens
    PROVE  BagOk(Put(bag, c, t))
<1> DEFINE one == SetToBag({<<c, t>>})
           new == Put(bag, c, t)
<1>1. one = [x \in {<<c, t>>} |-> 1] /\ DOMAIN one = {<<c, t>>}
  BY DEF SetToBag
<1>2. new = [x \in (DOMAIN bag) \cup (DOMAIN one) |->
               (IF x \in DOMAIN bag THEN bag[x] ELSE 0) + (IF x \in DOMAIN one THEN one[x] ELSE 0)]
  BY Zenon DEF Put, (+)
<1>3. bag \in [DOMAIN bag -> {n \in Nat : n > 0}] /\ DOMAIN bag \subseteq Chains \X Tokens
  BY DEF BagOk, IsABag, BagToSet
<1>4. DOMAIN new = DOMAIN bag \cup {<<c, t>>}
  BY <1>1, <1>2
<1>5. \A x \in DOMAIN new : new[x] \in {n \in Nat : n > 0}
  BY <1>1, <1>2, <1>3
<1>6. new = [x \in DOMAIN new |-> new[x]]
  BY <1>2
<1> HIDE DEF new
<1>7. new \in [DOMAIN new -> {n \in Nat : n > 0}]
  BY <1>5, <1>6
<1>8. DOMAIN new \subseteq Chains \X Tokens
  BY <1>3, <1>4
<1> QED
  BY <1>7, <1>8 DEF BagOk, IsABag, BagToSet, new

LEMMA TakeOk ==
    ASSUME NEW bag, BagOk(bag), NEW c, NEW t
    PROVE  BagOk(Take(bag, c, t))
<1> DEFINE one == SetToBag({<<c, t>>})
           less == [x \in DOMAIN bag |-> IF x \in DOMAIN one THEN bag[x] - one[x] ELSE bag[x]]
           new == Take(bag, c, t)
<1>1. one = [x \in {<<c, t>>} |-> 1] /\ DOMAIN one = {<<c, t>>}
  BY DEF SetToBag
<1>2. new = [x \in {d \in DOMAIN less : less[d] > 0} |-> less[x]]
  BY Zenon DEF Take, (-)
<1>3. bag \in [DOMAIN bag -> {n \in Nat : n > 0}] /\ DOMAIN bag \subseteq Chains \X Tokens
  BY DEF BagOk, IsABag, BagToSet
<1>4. \A x \in DOMAIN less : less[x] \in Int
  BY <1>1, <1>3
<1>5. DOMAIN less \subseteq Chains \X Tokens
  BY <1>3
<1> HIDE DEF less
<1>6. new \in [DOMAIN new -> {n \in Nat : n > 0}] /\ DOMAIN new \subseteq DOMAIN less
  BY <1>2, <1>4
<1> QED
  BY <1>5, <1>6 DEF BagOk, IsABag, BagToSet

LEMMA AddOk ==
    ASSUME ItsOk(its), NEW c \in Chains, NEW id \in Ids, NEW token \in Tokens, NEW type \in Types,
           ~Has(c, id), NEW coins, CoinKnown(id, coins),
           \A m \in its.managers : CoinKnown(m.id, coins)
    PROVE  ManagersOk(Adding(c, id, token, type), coins)
<1> DEFINE new == [chain |-> c, id |-> id, token |-> token, type |-> type]
<1>1. Adding(c, id, token, type) = its.managers \cup {new} /\ new \in Manager
  BY DEF Adding, Manager
<1>2. \A m \in its.managers : ~(m.chain = new.chain /\ m.id = new.id)
  BY DEF Has, Managers
<1>3. new.id = id
  OBVIOUS
<1> HIDE DEF new
<1> QED
  BY <1>1, <1>2, <1>3 DEF ItsOk, ManagersOk, OneManager

LEMMA TheOk ==
    ASSUME ItsOk(its), NEW c, NEW id, Has(c, id)
    PROVE  /\ The(c, id) \in its.managers /\ The(c, id) \in Manager
           /\ The(c, id).chain = c /\ The(c, id).id = id
           /\ id \in Ids /\ CoinKnown(id, its.coins)
<1>1. The(c, id) \in Managers(c, id)
  BY DEF The, Has
<1> QED
  BY <1>1 DEF Managers, ItsOk, ManagersOk, Manager

LEMMA StaysKnown ==
    ASSUME CoinsOk(its), NEW y, Stays(its, y), NEW id, CoinKnown(id, its.coins)
    PROVE  CoinKnown(id, y.coins)
BY DEF CoinsOk, Stays, CoinKnown

LEMMA TokenIdsOk ==
    ASSUME NEW id \in TokenIds, NEW coins
    PROVE  id \in Ids /\ id \in Tokens /\ CoinKnown(id, coins)
BY DEF TokenIds, Ids, Tokens, CoinKnown

\* A message that arrives gives a chain a manager it did not have, or a unit.
LEMMA ArrivalFits ==
    ASSUME ItsOk(its), NEW m, MessageOk(m), Addressed(m, its.coins), m.at = "dest",
           NEW new \in Arrival(m)
    PROVE  ItsOk(new)
<1> DEFINE c == m.to
           man == The(c, m.id)
<1>1. /\ c \in Chains /\ m.id \in Ids /\ m.id \in Tokens /\ CoinKnown(m.id, its.coins)
      /\ m.kind = "link" => m.type \in Types
  BY DEF MessageOk, Addressed, Tokens
<1>2. "native" \in Types /\ Own \in Tokens /\ CoinsOk(its)
  BY DEF Types, Tokens, ItsOk, CoinsOk, Fields
<1>3. CASE m.kind = "deploy" /\ Kind[c] = "sui"
  <2>1. PICK n \in Given : new = [its EXCEPT !.coins[n] = "taken",
                               !.managers = Adding(c, m.id, m.id, "native")]
    BY <1>3 DEF Arrival
  <2>2. ~Has(c, m.id)
    BY <1>3 DEF Arrival
  <2>3. /\ Fields \subseteq DOMAIN new /\ new.coins = [its.coins EXCEPT ![n] = "taken"]
        /\ new.managers = Adding(c, m.id, m.id, "native")
        /\ new.trust = its.trust /\ new.paused = its.paused /\ new.minters = its.minters
        /\ new.wallet = its.wallet /\ new.vault = its.vault
    BY <2>1 DEF ItsOk, Fields
  <2>4. n \in 1..Len(its.coins) /\ "taken" \in CoinStates
    BY DEF Given, CoinStates
  <2>5. new.coins \in Seq(CoinStates) /\ Len(new.coins) = Len(its.coins)
    BY <2>3, <2>4 DEF ItsOk
  <2>6. \A id : CoinKnown(id, its.coins) => CoinKnown(id, new.coins)
    BY <2>3, <2>4, <2>5 DEF CoinKnown, ItsOk
  <2>7. ManagersOk(new.managers, new.coins)
    BY <1>1, <1>2, <2>2, <2>3, <2>6, AddOk DEF ItsOk, ManagersOk
  <2> QED
    BY <2>3, <2>5, <2>7 DEF ItsOk
<1>4. CASE m.kind = "link" \/ (m.kind = "deploy" /\ Kind[c] # "sui")
  <2>1. PICK token \in Tokens, type \in Types :
            new = [its EXCEPT !.managers = Adding(c, m.id, token, type)]
    BY <1>1, <1>2, <1>4 DEF Arrival
  <2>2. ~Has(c, m.id)
    BY <1>4 DEF Arrival
  <2>3. /\ Fields \subseteq DOMAIN new /\ new.coins = its.coins
        /\ new.managers = Adding(c, m.id, token, type)
        /\ new.trust = its.trust /\ new.paused = its.paused /\ new.minters = its.minters
        /\ new.wallet = its.wallet /\ new.vault = its.vault
    BY <2>1 DEF ItsOk, Fields
  <2>4. ManagersOk(new.managers, new.coins)
    BY <1>1, <2>2, <2>3, AddOk DEF ItsOk, ManagersOk
  <2> QED
    BY <2>3, <2>4 DEF ItsOk
<1>5. CASE m.kind = "transfer"
  <2>1. Has(c, m.id) /\ new = [its EXCEPT !.wallet = Put(@, c, man.token),
                          !.vault = IF man.type = "lock" THEN Take(@, c, man.token) ELSE @]
    BY <1>5 DEF Arrival
  <2>2. man.token \in Tokens
    BY <2>1, TheOk DEF Manager
  <2>3. /\ Fields \subseteq DOMAIN new /\ new.coins = its.coins
        /\ new.managers = its.managers
        /\ new.trust = its.trust /\ new.paused = its.paused /\ new.minters = its.minters
        /\ new.wallet = Put(its.wallet, c, man.token)
        /\ new.vault \in {its.vault, Take(its.vault, c, man.token)}
    BY <2>1 DEF ItsOk, Fields
  <2>4. BagOk(new.wallet) /\ BagOk(new.vault)
    BY <1>1, <2>2, <2>3, PutOk, TakeOk DEF ItsOk
  <2> QED
    BY <2>3, <2>4 DEF ItsOk
<1> QED
  BY <1>3, <1>4, <1>5 DEF MessageOk

\* A new state of the services that differs from the old one in those fields.
Kept(new, changed) ==
    Fields \subseteq DOMAIN new /\ \A f \in Fields \ changed : new[f] = its[f]

LEMMA KeptOk ==
    ASSUME ItsOk(its), NEW new,
           Kept(new, {"allowed", "limited", "used", "assets", "lines"})
    PROVE  ItsOk(new)
BY DEF ItsOk, Kept, Fields

\* A message between chains goes from a chain with a manager to one it trusts.
LEMMA MessageAddressed ==
    ASSUME ItsOk(its), NEW cmd, cmd.on \in Chains, NEW kind, NEW type, NEW enc,
           kind # "metadata" => Has(cmd.on, cmd.id) /\ Trusts(cmd.on, Destination(cmd)),
           kind = "link" => type \in Types
    PROVE  Addressed(Message(kind, cmd, type, enc), its.coins)
<1>1. kind # "metadata" => /\ Destination(cmd) \in Chains /\ cmd.id \in Ids
                           /\ CoinKnown(cmd.id, its.coins)
  BY TheOk DEF Trusts, ItsOk
<1> QED
  BY <1>1 DEF Addressed, Message

LEMMA EffectsFit ==
    ASSUME ScenariosOK, ItsOk(its), \A m \in msgs : MessageOk(m), MessagesOk,
           NEW cmd \in Command, Fits(cmd), OneTransaction(cmd), NEW e \in Effects(cmd)
    PROVE  ItsOk(e.its) /\ \A m \in e.out : Addressed(m, its.coins)
<1> DEFINE c == cmd.on
           others == {"allowed", "limited", "used", "assets", "lines"}
<1>0. c \in Chains /\ Own \in Tokens
  BY DEF Command, Tokens
<1>1. CASE cmd.op \in TrustOps
  <2>1. PICK chains : /\ e \in Trusting(cmd, chains)
                      /\ cmd.op = "trust" => chains \subseteq Chains
    BY <1>1, ScenariosOK DEF Effects, TrustOps, ParseTrustedChains, ItsEdgeChains, Fits
  <2> DEFINE trust == IF cmd.op = "trust" THEN its.trust \cup {cmd.on} \X chains
                      ELSE its.trust \ ({cmd.on} \X chains)
             new == [its EXCEPT !.trust = trust]
  <2>2. e = [its |-> new, gone |-> {}, out |-> {}]
    BY <2>1, Zenon DEF Trusting, Effect
  <2>3. Kept(new, {"trust"}) /\ new.trust = trust
    BY DEF Kept, ItsOk, Fields
  <2>4. Kept(e.its, {"trust"}) /\ e.out = {} /\ e.its.trust = trust
    BY <2>2, <2>3
  <2>5. e.its.trust \subseteq Chains \X Chains
    BY <1>0, <2>1, <2>4 DEF ItsOk
  <2> QED
    BY <2>4, <2>5 DEF ItsOk, Kept, Fields
<1>2. CASE cmd.op \in {"pause", "unpause"}
  <2>1. e \in Pausing(cmd)
    BY <1>2 DEF Effects, TrustOps
  <2>2. /\ Kept(e.its, {"paused"}) /\ e.out = {}
        /\ e.its.paused \subseteq its.paused \cup {c}
    BY <2>1 DEF Pausing, Effect, Kept, ItsOk, Fields
  <2> QED
    BY <1>0, <2>2 DEF ItsOk, Kept, Fields
<1>3. CASE cmd.op \in {"limit", "unlimit"}
  <2>1. e \in Limiting(cmd)
    BY <1>3 DEF Effects, TrustOps
  <2>2. Kept(e.its, others) /\ e.out = {}
    BY <2>1 DEF Limiting, Effect, Kept, ItsOk, Fields
  <2> QED
    BY <2>2, KeptOk
<1>4. CASE cmd.op = "deploy"
  <2>1. e \in Deploying(cmd)
    BY <1>4 DEF Effects, TrustOps
  <2> DEFINE new == [its EXCEPT !.managers = Adding(c, cmd.id, cmd.id, "native"),
                                !.wallet = Put(@, c, cmd.id)]
  <2>2. e = [its |-> new, gone |-> {}, out |-> {}] /\ ~Has(c, cmd.id)
    BY <2>1, Zenon DEF Deploying, Effect
  <2>3. /\ Kept(new, {"managers", "wallet"})
        /\ new.managers = Adding(c, cmd.id, cmd.id, "native")
        /\ new.wallet = Put(its.wallet, c, cmd.id)
    BY DEF Kept, ItsOk, Fields
  <2>4. /\ Kept(e.its, {"managers", "wallet"}) /\ e.out = {} /\ ~Has(c, cmd.id)
        /\ e.its.managers = Adding(c, cmd.id, cmd.id, "native")
        /\ e.its.wallet = Put(its.wallet, c, cmd.id)
    BY <2>2, <2>3
  <2>5. cmd.id \in Ids /\ cmd.id \in Tokens /\ CoinKnown(cmd.id, its.coins)
    BY <1>4, TokenIdsOk DEF Fits
  <2>6. ManagersOk(e.its.managers, its.coins) /\ BagOk(e.its.wallet)
    BY <1>0, <2>4, <2>5, AddOk, PutOk DEF ItsOk, ManagersOk, Types
  <2> QED
    BY <2>4, <2>6 DEF ItsOk, Kept, Fields
<1>5. CASE cmd.op \in {"canonical", "custom"}
  <2>1. PICK type \in Types : e \in Registering(cmd, type)
    BY <1>5 DEF Effects, TrustOps, Fits, Types
  <2>2. /\ Kept(e.its, {"managers"}) /\ e.out = {} /\ ~Has(c, cmd.id)
        /\ e.its.managers = Adding(c, cmd.id, Own, type)
    BY <2>1 DEF Registering, Effect, Kept, ItsOk, Fields
  <2>3. cmd.id \in Ids /\ CoinKnown(cmd.id, its.coins)
    BY <1>5, TokenIdsOk DEF Fits
  <2>4. ManagersOk(e.its.managers, its.coins)
    BY <1>0, <2>2, <2>3, AddOk DEF ItsOk, ManagersOk
  <2> QED
    BY <2>2, <2>4 DEF ItsOk, Kept, Fields
<1>6. CASE cmd.op \in {"metadata", "deployRemote", "deployRemoteCanonical", "link", "linkIts"}
  <2>1. PICK kind \in {"metadata", "deploy", "link"} :
            e \in Telling(cmd, kind) /\ (kind = "link" => cmd.op \in {"link", "linkIts"})
    BY <1>6 DEF Effects, TrustOps
  <2>2. /\ kind # "metadata" => Has(c, cmd.id) /\ Trusts(c, Destination(cmd))
        /\ e = [its |-> its, gone |-> {},
                out |-> {Message(kind, cmd, IF kind = "link" THEN cmd.type ELSE "native",
                                 EncodeITSDestination(Destination(cmd)))}]
    BY <2>1, Zenon DEF Telling, Effect
  <2>3. e.its = its /\ \A m \in e.out : Addressed(m, its.coins)
    BY <1>0, <2>1, <2>2, MessageAddressed DEF Fits
  <2> QED
    BY <2>3
<1>7. CASE cmd.op = "transfer"
  <2> DEFINE m == The(c, cmd.id)
             new == [its EXCEPT !.wallet = Take(@, c, m.token), !.used = @ \cup {<<c, m.id>>},
                           !.allowed = IF m.type \in {"lock", "mintBurnFrom"}
                                       THEN @ \ {<<c, m.token>>} ELSE @,
                           !.vault = IF m.type = "lock" THEN Put(@, c, m.token) ELSE @]
             out == {Message("transfer", cmd, m.type, EncodeITSDestination(Destination(cmd)))}
  <2>1. e \in Departing(cmd)
    BY <1>7 DEF Effects, TrustOps
  <2>2. /\ e = [its |-> new, gone |-> {}, out |-> out]
        /\ Has(c, cmd.id) /\ Trusts(c, Destination(cmd))
    BY <2>1, Zenon DEF Departing, Effect
  <2>3. m.token \in Tokens
    BY <2>2, TheOk DEF Manager
  <2>4. /\ Kept(new, others \cup {"wallet", "vault"})
        /\ new.wallet = Take(its.wallet, c, m.token)
        /\ new.vault \in {its.vault, Put(its.vault, c, m.token)}
    BY DEF Kept, ItsOk, Fields
  <2>5. BagOk(new.wallet) /\ BagOk(new.vault)
    BY <1>0, <2>3, <2>4, PutOk, TakeOk DEF ItsOk
  <2>6. \A x \in out : Addressed(x, its.coins)
    BY <1>0, <2>2, MessageAddressed
  <2> HIDE DEF new, out
  <2>7. ItsOk(new)
    BY <2>4, <2>5 DEF ItsOk, Kept, Fields
  <2> QED
    BY <2>2, <2>6, <2>7
<1>8. CASE cmd.op = "mint"
  <2>1. e \in Minting(cmd)
    BY <1>8 DEF Effects, TrustOps
  <2>2. Kept(e.its, {"wallet"}) /\ e.out = {} /\ e.its.wallet = Put(its.wallet, c, Own)
    BY <2>1 DEF Minting, Effect, Kept, ItsOk, Fields
  <2>3. BagOk(e.its.wallet)
    BY <1>0, <2>2, PutOk DEF ItsOk
  <2> QED
    BY <2>2, <2>3 DEF ItsOk, Kept, Fields
<1>9. CASE cmd.op \in {"giveMinter", "addMinter"}
  <2>1. e \in Handing(cmd)
    BY <1>9 DEF Effects, TrustOps
  <2>2. /\ Kept(e.its, {"minters"}) /\ e.out = {} /\ Has(c, cmd.id)
        /\ e.its.minters \subseteq its.minters \cup {<<c, cmd.id>>}
    BY <2>1 DEF Handing, Effect, Kept, ItsOk, Fields
  <2>3. e.its.minters \subseteq Chains \X (Ids \cup {Wallet})
    BY <1>0, <2>2, TheOk DEF ItsOk
  <2> QED
    BY <2>2, <2>3 DEF ItsOk, Kept, Fields
<1>10. CASE cmd.op = "takeAdmin"
  <2>1. e \in TakingAdmin(cmd)
    BY <1>10 DEF Effects, TrustOps
  <2>2. /\ Kept(e.its, {"minters"}) /\ e.out = {}
        /\ e.its.minters \subseteq its.minters \cup {<<c, Wallet>>}
    BY <2>1 DEF TakingAdmin, Effect, Kept, ItsOk, Fields
  <2>3. e.its.minters \subseteq Chains \X (Ids \cup {Wallet})
    BY <1>0, <2>2 DEF ItsOk
  <2> QED
    BY <2>2, <2>3 DEF ItsOk, Kept, Fields
<1>11. CASE cmd.op \in {"createAsset", "changeTrust"}
  <2>1. e \in CreatingAsset(cmd) \cup ChangingTrust(cmd)
    BY <1>11 DEF Effects, TrustOps
  <2>2. Kept(e.its, others) /\ e.out = {}
    BY <2>1 DEF CreatingAsset, ChangingTrust, Effect, Kept, ItsOk, Fields
  <2> QED
    BY <2>2, KeptOk
<1>12. CASE cmd.op = "sendCoin"
  <2> DEFINE tok == [cmd EXCEPT !.id = CoinId(cmd)]
  <2>1. e \in SendingCoin(cmd)
    BY <1>12 DEF Effects, TrustOps
  <2>2. tok.on = c /\ tok.to = cmd.to /\ tok.id = CoinId(cmd)
    BY DEF Command
  <2>3. /\ Trusts(c, Destination(cmd)) /\ Has(c, tok.id)
        /\ e = [its |-> [its EXCEPT !.vault = Put(@, c, tok.id)], gone |-> {},
                out |-> {Message("transfer", tok, "lock", "raw")}]
    BY <2>1, Zenon DEF SendingCoin, Effect
  <2>4. Destination(tok) = Destination(cmd)
    BY <2>2 DEF Destination
  <2> HIDE DEF tok
  <2>5. tok.id \in Tokens
    BY <2>3, TheOk DEF Tokens
  <2>6. /\ Kept(e.its, {"vault"}) /\ e.its.vault = Put(its.vault, c, tok.id)
        /\ e.out = {Message("transfer", tok, "lock", "raw")}
    BY <2>3 DEF Kept, ItsOk, Fields
  <2>7. BagOk(e.its.vault)
    BY <1>0, <2>5, <2>6, PutOk DEF ItsOk
  <2>8. \A m \in e.out : Addressed(m, its.coins)
    BY <1>0, <2>2, <2>3, <2>4, <2>6, MessageAddressed
  <2> QED
    BY <2>6, <2>7, <2>8 DEF ItsOk, Kept, Fields
<1>13. CASE cmd.op = "sendDeployment"
  <2> DEFINE tok == [cmd EXCEPT !.id = CoinId(cmd)]
  <2>1. e \in SendingDeployment(cmd)
    BY <1>13 DEF Effects, TrustOps
  <2>2. tok.on = c /\ tok.to = cmd.to
    BY DEF Command
  <2>3. /\ Trusts(c, Destination(cmd)) /\ Has(c, tok.id)
        /\ e = [its |-> its, gone |-> {}, out |-> {Message("deploy", tok, "native", "raw")}]
    BY <2>1, Zenon DEF SendingDeployment, Effect
  <2>4. Destination(tok) = Destination(cmd)
    BY <2>2 DEF Destination
  <2> HIDE DEF tok
  <2>5. e.its = its /\ \A m \in e.out : Addressed(m, its.coins)
    BY <1>0, <2>2, <2>3, <2>4, MessageAddressed
  <2> QED
    BY <2>5
<1>14. CASE cmd.op = "execute"
  <2>1. \E m \in msgs : \E new : /\ m.at = "dest" /\ new \in Arrival(m)
                                     /\ e = [its |-> new, gone |-> {m}, out |-> {}]
    BY <1>14 DEF Effects, TrustOps
  <2> QED
    BY <2>1, ArrivalFits DEF MessagesOk
<1>15. cmd.op \in Ops \ (HubOps \cup {"publish"})
  BY DEF Command, OneTransaction
<1> QED
  BY <1>1, <1>2, <1>3, <1>4, <1>5, <1>6, <1>7, <1>8, <1>9, <1>10, <1>11, <1>12, <1>13,
     <1>14, <1>15 DEF Ops, HubOps, TrustOps

LEMMA AddressedStays ==
    ASSUME CoinsOk(its), NEW y, Stays(its, y), NEW m, Addressed(m, its.coins)
    PROVE  Addressed(m, y.coins)
BY StaysKnown DEF Addressed

LEMMA HappensFit ==
    ASSUME ScenariosOK, Typed, ItsOk(its), MessagesOk, NEW cmd \in Command, Fits(cmd),
           OneTransaction(cmd), \E e \in Effects(cmd) : Happens(cmd, e)
    PROVE  ItsOk(its') /\ MessagesOk'
<1>1. PICK e \in Effects(cmd) : its' = e.its /\ msgs' = (msgs \ e.gone) \cup e.out
  BY DEF Happens
<1>2. /\ ItsOk(its') /\ \A m \in e.out : Addressed(m, its.coins)
  BY <1>1, EffectsFit DEF Typed
<1>3. CoinsOk(its) /\ Stays(its, its')
  BY <1>1, EffectsStay DEF Typed
<1>4. \A m \in msgs' : Addressed(m, its.coins)
  BY <1>1, <1>2 DEF MessagesOk
<1>5. \A m \in msgs' : Addressed(m, its'.coins)
  BY <1>3, <1>4, AddressedStays
<1> QED
  BY <1>2, <1>5 DEF MessagesOk

LEMMA NothingFits ==
    ASSUME ItsOk(its), MessagesOk, its' = its, msgs' = msgs
    PROVE  ItsOk(its') /\ MessagesOk'
BY DEF MessagesOk

\* Nobody gets chains to go through or takes a coin in hand.
LEMMA RunsFit ==
    ASSUME LeftOk, HandIsPublishing, scenario' = scenario,
           \A q \in People : /\ run'[q].left \subseteq Chains
                             /\ run'[q].pc = "register" => /\ run[q].pc = "register"
                                                           /\ at'[q] = at[q]
    PROVE  LeftOk' /\ HandIsPublishing'
BY DEF LeftOk, HandIsPublishing, InHand, Done, Cmd, Steps

LEMMA EndsFit ==
    ASSUME Typed, LeftOk, HandIsPublishing, scenario' = scenario,
           NEW p \in People, NEW ok, Ends(p, ok)
    PROVE  LeftOk' /\ HandIsPublishing'
<1>1. \A q \in People : run'[q] = Idle \/ (run'[q] = run[q] /\ at'[q] = at[q])
  BY EndsOk
<1>2. \A q \in People : /\ run'[q].left \subseteq Chains
                        /\ run'[q].pc = "register" => /\ run[q].pc = "register"
                                                      /\ at'[q] = at[q]
  BY <1>1 DEF Idle, LeftOk
<1> QED
  BY <1>2, RunsFit

\* A step of one who goes on and takes no coin in hand.
LEMMA GoesFit ==
    ASSUME Typed, LeftOk, HandIsPublishing, scenario' = scenario, at' = at,
           NEW p \in People, NEW new, run' = [run EXCEPT ![p] = new],
           new.left \subseteq Chains, new.pc # "register"
    PROVE  LeftOk' /\ HandIsPublishing'
<1>1. \A q \in People : /\ run'[q].left \subseteq Chains
                        /\ run'[q].pc = "register" => /\ run[q].pc = "register"
                                                      /\ at'[q] = at[q]
  BY DEF LeftOk, Typed
<1> QED
  BY <1>1, RunsFit
-----------------------------------------------------------------------------
LEMMA InitSound == ScenariosOK /\ ScenariosFit /\ Init => Sound
<1> SUFFICES ASSUME ScenariosOK, ScenariosFit, Init PROVE Sound
  OBVIOUS
<1>1. /\ scenario \in Scenarios /\ scenario.trusting \subseteq Chains \X Chains
      /\ scenario.edge \in [Chains -> {"none", "old", "live"}]
      /\ scenario.managers \subseteq Manager /\ OneManager(scenario.managers)
      /\ \A m \in scenario.managers : m.id \in TokenIds
  BY DEF ScenariosOK, ScenariosFit, Init, Manager
<1>2. ManagersOk(scenario.managers, <<>>)
  BY <1>1, TokenIdsOk DEF ManagersOk
<1>3. BagOk(SetToBag(Chains \X {Own})) /\ BagOk(EmptyBag)
  BY DEF BagOk, SetToBag, EmptyBag, IsABag, BagToSet, Tokens
<1>4. /\ Fields \subseteq DOMAIN its
      /\ its.coins = <<>> /\ its.trust = scenario.trusting /\ its.paused = {}
      /\ its.managers = scenario.managers /\ its.minters = Chains \X {Wallet}
      /\ its.wallet = SetToBag(Chains \X {Own}) /\ its.vault = EmptyBag
  BY DEF Init, Fields
<1>5. ItsOk(its)
  BY <1>1, <1>2, <1>3, <1>4 DEF ItsOk, ScenariosFit
<1>6. HubOk
  BY <1>1 DEF Init, HubOk
<1>7. LeftOk /\ HandIsPublishing /\ MessagesOk /\ LateOk
  BY DEF Init, Idle, LeftOk, HandIsPublishing, InHand, MessagesOk, LateOk
<1> QED
  BY <1>5, <1>6, <1>7 DEF Sound

LEMMA StartFits ==
    ASSUME ScenariosOK, ScenariosFit, IInv, Sound, NEW p \in People, Start(p)
    PROVE  Sound'
<1> DEFINE cmd == Cmd(p)
           loops == cmd.op \in TrustOps /\ On(cmd, {"stellar", "stacks"})
           pc == IF NeedsApproval(cmd) THEN "approve" ELSE IF loops THEN "each" ELSE "ready"
           left == IF loops THEN ParseTrustedChains(cmd.to) ELSE {}
           new == [pc |-> pc, left |-> left, ok |-> TRUE, coin |-> 0, copy |-> file]
<1>1. Typed /\ Fits(cmd)
  BY CommandFits DEF Start, Doing, IInv
<1>2. left \subseteq Chains
  BY <1>1, ScenariosOK DEF Fits, ParseTrustedChains, ItsEdgeChains
<1>3. run' = [run EXCEPT ![p] = new] /\ at' = at /\ scenario' = scenario
  BY Zenon DEF Start
<1>4. new.left \subseteq Chains /\ new.pc # "register"
  BY <1>2
<1> HIDE DEF new
<1>5. LeftOk' /\ HandIsPublishing'
  BY <1>1, <1>3, <1>4, GoesFit DEF Sound
<1> QED
  BY <1>5, NothingFits DEF Start, Nothing, Sound, HubOk, LateOk

LEMMA EndingsFit ==
    ASSUME ScenariosOK, ScenariosFit, IInv, Sound, NEW p \in People,
           \/ Refuse(p) \/ Decline(p) \/ Transact(p) \/ Revert(p) \/ AllSent(p) \/ Propose(p)
           \/ Fail(p) \/ Lose(p) \/ (FailUnseen(p) /\ ~InHand(p))
    PROVE  Sound'
<1>1. Typed /\ Cmd(p) \in Command /\ Fits(Cmd(p))
  BY CommandIn, CommandFits
     DEF IInv, Refuse, Decline, Transact, Revert, AllSent, Propose, Fail, Lose, FailUnseen, Doing
<1>2. ItsOk(its') /\ MessagesOk'
  BY <1>1, NothingFits, HappensFit
     DEF Sound, Nothing, Refuse, Decline, Transact, Revert, AllSent, Propose, Fail, Lose, FailUnseen,
         InHand, Doing
<1>3. \E ok : Ends(p, ok)
  BY DEF Refuse, Decline, Transact, Revert, AllSent, Propose, Fail, Lose, FailUnseen, EndsWell
<1>4. LeftOk' /\ HandIsPublishing'
  BY <1>1, <1>3, EndsFit
     DEF Sound, Refuse, Decline, Transact, Revert, AllSent, Propose, Fail, Lose, FailUnseen
<1>5. HubOk' /\ LateOk'
  <2>1. CASE Propose(p)
    BY <2>1 DEF Propose, Sound, HubOk, LateOk
  <2>2. CASE ~Propose(p)
    BY <2>2 DEF Sound, HubOk, LateOk, Refuse, Decline, Transact, Revert, AllSent, Fail, Lose,
                FailUnseen
  <2> QED
    BY <2>1, <2>2
<1> QED
  BY <1>2, <1>4, <1>5 DEF Sound

LEMMA SkipFits ==
    ASSUME IInv, Sound, NEW p \in People, Skip(p)
    PROVE  Sound'
<1>1. \A q \in People : /\ run'[q].left \subseteq Chains
                        /\ run'[q].pc = "register" => /\ run[q].pc = "register"
                                                      /\ at'[q] = at[q]
  BY DEF Skip, Doing, IInv, Typed, Sound, LeftOk
<1>2. LeftOk' /\ HandIsPublishing'
  BY <1>1, RunsFit DEF Skip, Sound
<1> QED
  BY <1>2, NothingFits DEF Skip, Nothing, Sound, HubOk, LateOk

LEMMA ApproveFits ==
    ASSUME IInv, Sound, NEW p \in People, Approve(p)
    PROVE  Sound'
<1> DEFINE new == [run[p] EXCEPT !.pc = "ready"]
<1>1. new.left \subseteq Chains /\ new.pc # "register"
  BY DEF IInv, Typed, Run, Sound, LeftOk
<1>2. run' = [run EXCEPT ![p] = new]
  BY DEF Approve, Goes
<1> HIDE DEF new
<1>3. LeftOk' /\ HandIsPublishing'
  BY <1>1, <1>2, GoesFit DEF Approve, Goes, IInv, Sound
<1>4. Kept(its', {"allowed"}) /\ its'.coins = its.coins
  BY DEF Approve, Sound, ItsOk, Kept, Fields
<1>5. ItsOk(its')
  BY <1>4, KeptOk DEF Sound, Kept
<1>6. MessagesOk'
  BY <1>4 DEF Approve, Sound, MessagesOk
<1> QED
  BY <1>3, <1>5, <1>6 DEF Approve, Sound, HubOk, LateOk

LEMMA EachFits ==
    ASSUME ScenariosOK, ScenariosFit, IInv, Sound, NEW p \in People, NEW c \in Chains,
           TrustEach(p, c) \/ TrustCaught(p, c) \/ BroadcastEach(p, c)
    PROVE  Sound'
<1> DEFINE one == [Cmd(p) EXCEPT !.to = {c}]
<1>1. /\ Typed /\ Cmd(p) \in Command /\ Cmd(p).op \in TrustOps
      /\ run[p] \in Run /\ run[p].pc = "each"
  BY CommandIn DEF TrustEach, TrustCaught, BroadcastEach, Doing, IInv, Typed, EachOk
<1>2. one \in Command /\ one.op \in TrustOps /\ one.to = {c} /\ OneTransaction(one)
  BY <1>1 DEF Command, OneTransaction, TrustOps, HubOps
<1> HIDE DEF one
<1>3. Fits(one)
  BY <1>2 DEF Fits, TrustOps
<1>4. ItsOk(its') /\ MessagesOk'
  <2>1. CASE TrustEach(p, c)
    BY <1>1, <1>2, <1>3, <2>1, NothingFits, HappensFit DEF TrustEach, Nothing, Sound, one
  <2>2. CASE TrustCaught(p, c) \/ BroadcastEach(p, c)
    BY <2>2, NothingFits DEF TrustCaught, BroadcastEach, Nothing, Sound
  <2> QED
    BY <2>1, <2>2
<1>5. PICK new : /\ run' = [run EXCEPT ![p] = new]
                 /\ new.left \subseteq Chains /\ new.pc = "each"
  <2>1. CASE TrustEach(p, c)
    <3> DEFINE new == [run[p] EXCEPT !.left = @ \ {c}, !.ok = @ /\ Effects([Cmd(p) EXCEPT !.to = {c}]) # {}]
    <3>1. run' = [run EXCEPT ![p] = new]
      BY <2>1, Zenon DEF TrustEach
    <3>2. new.left = run[p].left \ {c} /\ new.pc = "each"
      BY <1>1 DEF Run
    <3> HIDE DEF new
    <3> QED
      BY <3>1, <3>2 DEF Sound, LeftOk
  <2>2. CASE TrustCaught(p, c)
    <3> DEFINE new == [run[p] EXCEPT !.left = @ \ {c}, !.ok = FALSE]
    <3>1. run' = [run EXCEPT ![p] = new]
      BY <2>2 DEF TrustCaught
    <3>2. new.left = run[p].left \ {c} /\ new.pc = "each"
      BY <1>1 DEF Run
    <3> HIDE DEF new
    <3> QED
      BY <3>1, <3>2 DEF Sound, LeftOk
  <2>3. CASE BroadcastEach(p, c)
    <3> DEFINE new == [run[p] EXCEPT !.left = @ \ {c}]
    <3>1. run' = [run EXCEPT ![p] = new]
      BY <2>3 DEF BroadcastEach
    <3>2. new.left = run[p].left \ {c} /\ new.pc = "each"
      BY <1>1 DEF Run
    <3> HIDE DEF new
    <3> QED
      BY <3>1, <3>2 DEF Sound, LeftOk
  <2> QED
    BY <2>1, <2>2, <2>3
<1>6. LeftOk' /\ HandIsPublishing'
  <2>1. at' = at /\ scenario' = scenario
    BY DEF TrustEach, TrustCaught, BroadcastEach
  <2> QED
    BY <1>1, <1>5, <2>1, GoesFit DEF Sound
<1>7. HubOk' /\ LateOk'
  BY <1>3 DEF TrustEach, TrustCaught, BroadcastEach, Sound, HubOk, LateOk, one
<1> QED
  BY <1>4, <1>6, <1>7 DEF Sound

\* A published coin is one more, which no manager and no message names yet.
LEMMA PublishFits ==
    ASSUME ScenariosFit, IInv, Sound, NEW p \in People, Publish(p)
    PROVE  Sound'
<1> DEFINE n == Len(its.coins) + 1
           new == [run[p] EXCEPT !.pc = "register", !.coin = n]
<1>1. /\ its.coins \in Seq(CoinStates) /\ Len(its.coins) < MaxCoins
      /\ run[p] \in Run /\ run \in [People -> Run]
      /\ scenario' = scenario /\ at' = at /\ msgs' = msgs
  BY DEF Publish, Sound, ItsOk, IInv, Typed
<1>2. Kept(its', {"coins"}) /\ its'.coins = Append(its.coins, "published")
  BY DEF Publish, Sound, ItsOk, Kept, Fields
<1>3. /\ its'.coins \in Seq(CoinStates) /\ Len(its'.coins) = n
      /\ \A i \in 1..Len(its.coins) : its'.coins[i] = its.coins[i]
  BY <1>1, <1>2 DEF CoinStates
<1>4. \A id : CoinKnown(id, its.coins) => CoinKnown(id, its'.coins)
  BY <1>1, <1>3 DEF CoinKnown
<1>5. ItsOk(its')
  <2>1. Len(its'.coins) <= MaxCoins
    BY <1>1, <1>3 DEF ScenariosFit
  <2> QED
    BY <1>2, <1>3, <1>4, <2>1 DEF Sound, ItsOk, ManagersOk, Kept, Fields
<1>6. MessagesOk'
  BY <1>1, <1>4 DEF Sound, MessagesOk, Addressed
<1>7. run' = [run EXCEPT ![p] = new]
  BY DEF Publish
<1>8. new.left = run[p].left
  BY <1>1 DEF Run
<1> HIDE DEF new
<1>9. LeftOk'
  BY <1>1, <1>7, <1>8 DEF Sound, LeftOk
<1>10. HandIsPublishing'
  <2>1. ~Done(p) /\ Cmd(p).op = "publish"
    BY DEF Publish, Doing
  <2> QED
    BY <1>1, <1>7, <2>1 DEF Sound, HandIsPublishing, InHand, Done, Cmd, Steps
<1> QED
  BY <1>5, <1>6, <1>9, <1>10 DEF Publish, Sound, HubOk, LateOk

\* The coin in hand gets its only manager, or is given to the service.
LEMMA RegisterFits ==
    ASSUME ScenariosOK, ScenariosFit, IInv, Sound, NEW p \in People,
           Register(p) \/ LoseRegistered(p)
    PROVE  Sound'
<1> DEFINE n == run[p].coin
           cmd == Cmd(p)
           id == <<"coin", n>>
<1>0. Registered(p) /\ \E ok : Ends(p, ok)
  BY DEF Register, LoseRegistered
<1>1. /\ Typed /\ cmd \in Command /\ Fits(cmd) /\ InHand(p) /\ cmd.op = "publish"
      /\ n \in 1..Len(its.coins) /\ its.coins[n] = "published"
  BY <1>0, CommandIn, CommandFits
     DEF IInv, Sound, HandsOk, InHand, Registered, Doing, HandIsPublishing
<1>2. cmd.type \in Types \cup {"give"} /\ cmd.on \in Chains
  BY <1>1 DEF Fits, Command
<1>3. /\ its.coins \in Seq(CoinStates) /\ Len(its.coins) <= MaxCoins /\ MaxCoins \in Nat
  BY DEF Sound, ItsOk, ScenariosFit
<1>4. id \in Ids /\ id \in Tokens
  BY <1>1, <1>3 DEF Ids, Tokens
<1>5. /\ Kept(its', {"coins", "managers", "minters"})
      /\ its'.coins = [its.coins EXCEPT ![n] = cmd.type]
      /\ its'.managers = IF cmd.type = "give" THEN its.managers
                         ELSE Adding(cmd.on, id, id, cmd.type)
      /\ its'.minters \subseteq its.minters \cup {<<cmd.on, id>>}
  BY <1>0 DEF Registered, Sound, ItsOk, Kept, Fields
<1>6. /\ its'.coins \in Seq(CoinStates) /\ Len(its'.coins) = Len(its.coins)
      /\ \A i \in 1..Len(its.coins) : its'.coins[i] = IF i = n THEN cmd.type ELSE its.coins[i]
  BY <1>1, <1>2, <1>3, <1>5 DEF CoinStates, Modes
<1>7. \A x : CoinKnown(x, its.coins) => CoinKnown(x, its'.coins)
  BY <1>1, <1>2, <1>3, <1>6 DEF CoinKnown, Types
<1>8. CoinKnown(id, its'.coins)
  BY <1>1, <1>2, <1>3, <1>6 DEF CoinKnown, Types
<1>9. ~Has(cmd.on, id)
  <2>1. ~CoinKnown(id, its.coins)
    BY <1>1, <1>3 DEF CoinKnown
  <2> QED
    BY <2>1, TheOk DEF Sound
<1>10. ManagersOk(its'.managers, its'.coins)
  <2>1. CASE cmd.type = "give"
    BY <1>5, <1>7, <2>1 DEF Sound, ItsOk, ManagersOk
  <2>2. CASE cmd.type # "give"
    <3>1. \A m \in its.managers : CoinKnown(m.id, its'.coins)
      BY <1>7 DEF Sound, ItsOk, ManagersOk
    <3> QED
      BY <1>2, <1>4, <1>5, <1>8, <1>9, <2>2, <3>1, AddOk DEF Sound
  <2> QED
    BY <2>1, <2>2
<1>11. its'.minters \subseteq Chains \X (Ids \cup {Wallet})
  <2>1. its.minters \subseteq Chains \X (Ids \cup {Wallet})
    BY DEF Sound, ItsOk
  <2>2. <<cmd.on, id>> \in Chains \X (Ids \cup {Wallet})
    BY <1>2, <1>4
  <2> QED
    BY <1>5, <2>1, <2>2
<1>12. ItsOk(its')
  BY <1>3, <1>5, <1>6, <1>10, <1>11 DEF Sound, ItsOk, Kept, Fields
<1>13. MessagesOk'
  BY <1>0, <1>7 DEF Registered, Sound, MessagesOk, Addressed
<1>14. LeftOk' /\ HandIsPublishing'
  BY <1>0, <1>1, EndsFit DEF Registered, Sound
<1> QED
  BY <1>0, <1>12, <1>13, <1>14 DEF Registered, Sound, HubOk, LateOk

\* The coin in hand misses its service: it has no manager, and gets none.
LEMMA MissedFits ==
    ASSUME ScenariosOK, ScenariosFit, IInv, Sound, NEW p \in People,
           FailUnseen(p), InHand(p)
    PROVE  Sound'
<1> DEFINE n == run[p].coin
<1>1. /\ Typed /\ n \in 1..Len(its.coins) /\ its.coins[n] = "published"
      /\ its.coins \in Seq(CoinStates)
  BY DEF IInv, Sound, ItsOk, HandsOk
<1>2. /\ its' = [its EXCEPT !.coins[n] = "missed"]
      /\ \E ok : Ends(p, ok)
      /\ UNCHANGED <<scenario, hub, msgs, late>>
  BY DEF FailUnseen, InHand, Doing
<1>3. Kept(its', {"coins"}) /\ its'.coins = [its.coins EXCEPT ![n] = "missed"]
  BY <1>2 DEF Sound, ItsOk, Kept, Fields
<1>4. /\ its'.coins \in Seq(CoinStates) /\ Len(its'.coins) = Len(its.coins)
      /\ \A i \in 1..Len(its.coins) : its'.coins[i] = IF i = n THEN "missed" ELSE its.coins[i]
  BY <1>1, <1>3 DEF CoinStates
<1>5. \A x : CoinKnown(x, its.coins) => CoinKnown(x, its'.coins)
  BY <1>1, <1>4 DEF CoinKnown, Types
<1>6. ItsOk(its')
  BY <1>3, <1>4, <1>5 DEF Sound, ItsOk, ManagersOk, Kept, Fields
<1>7. MessagesOk'
  BY <1>2, <1>5 DEF Sound, MessagesOk, Addressed
<1>8. LeftOk' /\ HandIsPublishing'
  BY <1>1, <1>2, EndsFit DEF Sound
<1> QED
  BY <1>2, <1>6, <1>7, <1>8 DEF Sound, HubOk, LateOk

LEMMA WorldFits ==
    ASSUME ScenariosOK, IInv, Sound,
           \/ \E t \in late : Mine(t)
           \/ \E m \in msgs : Learn(m) \/ Relay(m) \/ Deliver(m)
           \/ Epoch
           \/ \E pr \in hub.proposals : Pass(pr)
           \/ Finished \/ UNCHANGED vars
    PROVE  Sound'
<1>1. Typed /\ CoinsOk(its) /\ ItsOk(its) /\ MessagesOk
  BY DEF IInv, Typed, Sound
<1>2. LeftOk' /\ HandIsPublishing'
  BY DEF Mine, Learn, Relay, Deliver, Epoch, Pass, Finished, vars, Sound, LeftOk,
         HandIsPublishing, InHand, Done, Cmd, Steps
<1>3. LateOk'
  BY DEF Mine, Learn, Relay, Deliver, Epoch, Pass, Finished, vars, Sound, LateOk
<1>4. HubOk'
  <2>1. CASE \E m \in msgs : Learn(m)
    BY <1>1, <2>1 DEF Learn, Sound, HubOk, MessagesOk, Addressed
  <2>2. CASE \E m \in msgs : Relay(m)
    BY <2>2 DEF Relay, Sound, HubOk
  <2>3. CASE \E pr \in hub.proposals : Pass(pr)
    <3>1. PICK pr \in hub.proposals : Pass(pr)
      BY <2>3
    <3> DEFINE passed == [c \in Chains |-> IF c \in pr[2] THEN "live" ELSE hub.edge[c]]
    <3>2. PICK edge \in {passed, hub.edge} :
              hub' = [hub EXCEPT !.proposals = @ \ {pr}, !.edge = edge]
      BY <3>1, Zenon DEF Pass
    <3>3. passed \in [Chains -> {"none", "old", "live"}]
      BY DEF Sound, HubOk
    <3> QED
      BY <3>2, <3>3 DEF Sound, HubOk
  <2>4. CASE hub' = hub
    BY <2>4 DEF Sound, HubOk
  <2> QED
    BY <2>1, <2>2, <2>3, <2>4 DEF Mine, Deliver, Epoch, Finished, vars
<1>5. ItsOk(its') /\ MessagesOk'
  <2>1. CASE \E t \in late : Mine(t)
    <3>1. PICK t \in late : Mine(t)
      BY <2>1
    <3>2. t \in Command /\ Fits(t) /\ OneTransaction(t)
      BY <1>1 DEF Typed, OneTransaction, TrustOps, HubOps, Sound, LateOk
    <3> QED
      BY <1>1, <3>1, <3>2, HappensFit, NothingFits DEF Mine, Nothing
  <2>2. CASE \E m \in msgs : Learn(m)
    BY <1>1, <2>2 DEF Learn, MessagesOk
  <2>3. CASE \E m \in msgs : Relay(m)
    <3>1. PICK m \in msgs : Relay(m)
      BY <2>3
    <3>2. Addressed([m EXCEPT !.at = "dest"], its.coins)
      BY <1>1, <3>1 DEF Typed, MessageOk, MessagesOk, Addressed
    <3> QED
      BY <1>1, <3>1, <3>2 DEF Relay, MessagesOk
  <2>4. CASE \E m \in msgs : Deliver(m)
    <3>1. PICK m \in msgs : Deliver(m)
      BY <2>4
    <3>2. ItsOk(its') /\ Stays(its, its')
      BY <1>1, <3>1, ArrivalFits, ArrivalStays DEF Deliver, Typed, MessagesOk
    <3>3. \A x \in msgs : Addressed(x, its'.coins)
      BY <1>1, <3>2, AddressedStays DEF MessagesOk
    <3> QED
      BY <3>1, <3>2, <3>3 DEF Deliver, MessagesOk
  <2>5. CASE Epoch
    <3>1. Kept(its', {"used"}) /\ its'.coins = its.coins /\ msgs' = msgs
      BY <1>1, <2>5 DEF Epoch, ItsOk, Kept, Fields
    <3> QED
      BY <1>1, <3>1, KeptOk DEF MessagesOk, Kept
  <2>6. CASE its' = its /\ msgs' = msgs
    BY <1>1, <2>6, NothingFits
  <2> QED
    BY <2>1, <2>2, <2>3, <2>4, <2>5, <2>6 DEF Pass, Finished, vars
<1> QED
  BY <1>2, <1>3, <1>4, <1>5 DEF Sound

LEMMA NextSound ==
    ASSUME ScenariosOK, ScenariosFit, IInv, Sound, [Next]_vars
    PROVE  Sound'
<1>1. CASE \E p \in People : Works(p) \/ Falters(p)
  BY <1>1, SkipFits, StartFits, EndingsFit, ApproveFits, EachFits, PublishFits, RegisterFits,
     MissedFits DEF Works, Falters
<1>2. CASE Next /\ ~\E p \in People : Works(p) \/ Falters(p)
  BY <1>2, WorldFits DEF Next, Carries
<1>3. CASE UNCHANGED vars
  BY <1>3, WorldFits
<1> QED
  BY <1>1, <1>2, <1>3

\* The services, the hub, the messages and the file keep their shape, whatever is sent,
\* lost and repeated, when people give the scripts what their options allow: no token of
\* a chain gets two managers, no message goes where nobody is, and no entry of the file
\* names a coin that was never published (evm/its.js, sui/its-example.js, stellar/its.js).
THEOREM TypeCorrect == ScenariosFit => (Spec => []TypeOK)
<1> SUFFICES ASSUME ScenariosFit PROVE Spec => []TypeOK
  OBVIOUS
<1>1. Init => IInv /\ Sound
  BY ScenariosOK, InitInv, InitSound
<1>2. IInv /\ Sound /\ [Next]_vars => (IInv /\ Sound)'
  BY ScenariosOK, NextInv, NextSound
<1>3. IInv /\ Sound => TypeOK
  <2> SUFFICES ASSUME IInv, Sound PROVE TypeOK
    OBVIOUS
  <2>1. /\ its.trust \subseteq Chains \X Chains /\ its.paused \subseteq Chains
        /\ its.managers \subseteq Manager /\ OneManager(its.managers)
        /\ its.minters \subseteq Chains \X (Ids \cup {Wallet})
        /\ BagOk(its.wallet) /\ BagOk(its.vault)
    BY DEF Sound, ItsOk, ManagersOk
  <2>2. \A s \in Symbols : file[s].coin \in 0..Len(its.coins)
    BY DEF IInv, Typed, CoinsOk, AllTrue, True, Entry
  <2>3. late \subseteq Command
    BY DEF IInv, Typed
  <2>4. \A p \in People : /\ run[p].pc \in {"idle", "approve", "ready", "each", "register"}
                          /\ run[p].left \subseteq Chains
    BY DEF IInv, Typed, Run, PCs, Sound, LeftOk
  <2> QED
    BY <2>1, <2>2, <2>3, <2>4 DEF TypeOK, Manager, OneManager, BagOk, Sound, HubOk
<1> QED
  BY <1>1, <1>2, <1>3, PTL DEF Spec
=============================================================================
