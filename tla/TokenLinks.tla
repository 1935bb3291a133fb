----------------------------- MODULE TokenLinks -----------------------------
(***************************************************************************)
(* Tokens across chains, by the scripts of the Interchain Token Service:   *)
(* evm/its.js, evm/interchainTokenFactory.js, stellar/its.js,              *)
(* stellar/token-utils.js, sui/its.js, sui/its-example.js, stacks/its.js   *)
(* and the its-hub proposals of cosmwasm/submit-proposal.js.               *)
(*                                                                         *)
(* People follow lists of commands.  A command looks at the service of its *)
(* chain, or not, and sends transactions; the services trust chains, keep  *)
(* managers of tokens and send each other messages through the hub on      *)
(* Axelar.  Services, hub, relayer and governance are external.  Amounts   *)
(* are one unit.  The token that the service deploys for an id is named by *)
(* the id; Own is the token a chain had before.                          *)
(***************************************************************************)
EXTENDS Integers, Sequences, FiniteSets, Bags

CONSTANTS
    Chains, Kind,  \* the chains, and of which of Kinds each is
    Deployed,      \* the chains whose configuration has an InterchainTokenService
    People,        \* those who run commands
    Scenarios,     \* bound: who runs which commands, see ScenariosOK
    MaxCoins,      \* bound: coins ever published on Sui
    MaxUnits       \* bound: minting stops at this balance

Kinds == {"evm", "stellar", "sui", "stacks"}
Types == {"native", "mintBurnFrom", "lock", "mintBurn"}
Ids == {"native", "canonical", "custom"} \X Chains \cup {"coin"} \X (1..MaxCoins)
Own == <<"own">>        \* the token of a chain
Wallet == <<"wallet">>  \* a minter other than a manager
Tokens == {Own} \cup Ids
Symbols == {<<"origin">>, <<"empty">>}  \* tokens of Sui, by the configuration's key
NoType == "none"

TrustOps == {"trust", "distrust"}
HubOps == {"register", "update"}
Ops == TrustOps \cup HubOps \cup
       {"pause", "unpause", "limit", "unlimit", "deploy", "deployRemote", "canonical",
        "deployRemoteCanonical", "metadata", "custom", "link", "linkIts", "transfer",
        "execute", "createAsset", "changeTrust", "giveMinter", "addMinter", "takeAdmin",
        "mint", "publish", "sendCoin", "sendDeployment"}

\* A command: the chain it runs on; the chains to trust, to register or to send to;
\* the type of a manager; the token; whether the key is the owner's; and a number that
\* tells transfers apart.
Command ==
    [op : Ops, on : Chains, to : SUBSET (Chains \cup {"all"}), type : Types \cup {"give", NoType},
     id : Ids \cup Symbols, owner : BOOLEAN, n : Nat]

\* In a scenario each person has a list of commands, which one who persists follows
\* until every command has succeeded; some chains trust each other, are on the hub with
\* the contract they have or had, and have managers already.
ASSUME ScenariosOK ==
    /\ Kind \in [Chains -> Kinds] /\ Deployed \subseteq Chains
    /\ \A sc \in Scenarios :
          /\ sc.steps \in [People -> Seq(Command)]
          /\ sc.again \in BOOLEAN /\ sc.faults \in Nat
          /\ sc.trusting \subseteq Chains \X Chains
          /\ sc.edge \in [Chains -> {"none", "old", "live"}]
          /\ sc.managers \subseteq [chain : Chains, id : Ids, token : Tokens, type : Types]

VARIABLES
    scenario,  \* the scenario of this behaviour
    its,       \* the services and the tokens of all chains
    hub,       \* the hub: edge contracts, token metadata, token instances, proposals
    msgs,      \* messages on their way
    sent,      \* the numbers of the transfers sent so far
    late,      \* transactions of Stacks that nobody waits for
    file,      \* the configuration: the Sui tokens
    run, at,   \* what each person is doing, and where in the list
    faults     \* calls and commands that may still fail or be killed

vars == <<scenario, its, hub, msgs, sent, late, file, run, at, faults>>

NoEntry == [coin |-> 0, type |-> NoType]
Idle == [pc |-> "idle", left |-> {}, ok |-> TRUE, coin |-> 0, copy |-> [s \in Symbols |-> NoEntry]]

TypeOK ==
    /\ its.trust \subseteq Chains \X Chains /\ its.paused \subseteq Chains
    /\ its.managers \subseteq [chain : Chains, id : Ids, token : Tokens, type : Types]
    /\ \A m \in its.managers, n \in its.managers :
          m.chain = n.chain /\ m.id = n.id => m = n
    /\ its.minters \subseteq Chains \X (Ids \cup {Wallet})
    /\ IsABag(its.wallet) /\ BagToSet(its.wallet) \subseteq Chains \X Tokens
    /\ IsABag(its.vault) /\ BagToSet(its.vault) \subseteq Chains \X Tokens
    /\ hub.edge \in [Chains -> {"none", "old", "live"}] /\ hub.meta \subseteq Chains
    /\ late \subseteq Command
    /\ \A s \in Symbols : file[s].coin \in 0..Len(its.coins)
    /\ \A p \in People : run[p].pc \in {"idle", "approve", "ready", "each", "register"}
                         /\ run[p].left \subseteq Chains

Init ==
    /\ scenario \in Scenarios
    /\ its = [trust |-> scenario.trusting, paused |-> {}, managers |-> scenario.managers,
              minters |-> Chains \X {Wallet}, wallet |-> SetToBag(Chains \X {Own}),
              vault |-> EmptyBag, allowed |-> {}, limited |-> {}, used |-> {},
              assets |-> {}, lines |-> {}, coins |-> <<>>]
    /\ hub = [edge |-> scenario.edge, meta |-> {}, proposals |-> {},
              instances |-> {<<m.chain, m.id>> : m \in scenario.managers}]
    /\ msgs = {} /\ sent = {} /\ late = {}
    /\ file = [s \in Symbols |-> NoEntry]
    /\ run = [p \in People |-> Idle] /\ at = [p \in People |-> 1]
    /\ faults = scenario.faults
-----------------------------------------------------------------------------
(* What the scripts compute and check                                      *)

ItsEdgeChains == Deployed

\* Mutant for TypeOK: the tag "all" is passed on like a chain's name.
TagAsName(to) == to

ParseTrustedChains(to) == IF to = {"all"} THEN ItsEdgeChains ELSE to

\* The managers to which a token of a chain of that kind may be linked.
LinkTypes(kind) ==
    CASE kind = "evm" -> {"mintBurnFrom", "lock", "mintBurn"}
      [] kind = "stellar" -> {"lock", "mintBurn", "mintBurnFrom"}
      [] OTHER -> {}

EncodeITSDestination(to) ==
    CASE Kind[to] = "stellar" -> "ascii"
      [] Kind[to] = "stacks" -> "principal"
      [] OTHER -> "raw"

Managers(c, id) == {m \in its.managers : m.chain = c /\ m.id = id}
Has(c, id) == Managers(c, id) # {}
The(c, id) == CHOOSE m \in Managers(c, id) : TRUE
Balance(c, t) == IF BagIn(<<c, t>>, its.wallet) THEN its.wallet[<<c, t>>] ELSE 0
Trusts(c, to) == <<c, to>> \in its.trust
Destination(cmd) == CHOOSE c \in cmd.to : TRUE
On(cmd, kinds) == Kind[cmd.on] \in kinds

\* The token commands of EVM look at the service before they send.
EvmSees(cmd) ==
    CASE cmd.op \in TrustOps \cup {"pause", "unpause"} -> cmd.owner
      [] cmd.op \in {"deployRemote", "link", "execute"} -> Trusts(cmd.on, Destination(cmd))
      [] cmd.op \in {"limit", "unlimit"} -> Has(cmd.on, cmd.id)
      [] cmd.op = "linkIts" -> /\ Kind[Destination(cmd)] = "evm"
                               /\ cmd.type \in LinkTypes(Kind[Destination(cmd)])
                               /\ Has(cmd.on, cmd.id)
      [] cmd.op = "transfer" -> /\ Has(cmd.on, cmd.id)
                                /\ Balance(cmd.on, The(cmd.on, cmd.id).token) > 0
      [] OTHER -> TRUE

\* Those of Stellar leave it to the simulation, except for the type of a manager.
StellarSees(cmd) ==
    CASE cmd.op = "custom" -> cmd.type \in LinkTypes("stellar")
      [] cmd.op = "link" -> cmd.type \in LinkTypes(Kind[Destination(cmd)])
      [] OTHER -> TRUE

\* Those of Sui need the token in the configuration.
SuiSees(cmd) == cmd.op \in {"sendCoin", "sendDeployment"} => file[cmd.id].coin # 0

\* A registration needs the contract of every chain; an update a change for each.
HubSees(cmd) ==
    \A c \in cmd.to : c \in Deployed /\ (cmd.op = "update" => hub.edge[c] = "old")

Sees(cmd) ==
    IF cmd.op \in HubOps THEN HubSees(cmd)
    ELSE CASE On(cmd, {"evm"}) -> EvmSees(cmd)
           [] On(cmd, {"stellar"}) -> StellarSees(cmd)
           [] On(cmd, {"sui"}) -> SuiSees(cmd)
           [] OTHER -> cmd.on \in Deployed

\* Mutant for LinkCompletes: a manager that burns from the sender goes without approval.
ApprovesLocksOnly(cmd) ==
    cmd.op = "transfer" /\ On(cmd, {"evm"}) /\ The(cmd.on, cmd.id).type = "lock"

NeedsApproval(cmd) ==
    cmd.op = "transfer" /\ On(cmd, {"evm"})
    /\ The(cmd.on, cmd.id).type \notin {"mintBurn", "native"}
-----------------------------------------------------------------------------
(* What the services and the tokens do with a transaction: nothing, when it *)
(* reverts, or a new state and messages                                     *)

Effect(works, new, out) == IF works THEN {[its |-> new, gone |-> {}, out |-> out]} ELSE {}

Message(kind, cmd, type, enc) ==
    [kind |-> kind, from |-> cmd.on, to |-> Destination(cmd), id |-> cmd.id,
     type |-> type, enc |-> enc, n |-> cmd.n, at |-> "hub"]

Put(bag, c, t) == bag (+) SetToBag({<<c, t>>})
Take(bag, c, t) == bag (-) SetToBag({<<c, t>>})

Trusting(cmd, chains) ==
    Effect(cmd.owner, [its EXCEPT !.trust = IF cmd.op = "trust" THEN @ \cup {cmd.on} \X chains
                                            ELSE @ \ ({cmd.on} \X chains)], {})

Pausing(cmd) ==
    Effect(cmd.owner, [its EXCEPT !.paused = IF cmd.op = "pause" THEN @ \cup {cmd.on}
                                             ELSE @ \ {cmd.on}], {})

Limiting(cmd) ==
    Effect(cmd.owner /\ Has(cmd.on, cmd.id),
           [its EXCEPT !.limited = IF cmd.op = "limit" THEN @ \cup {<<cmd.on, cmd.id>>}
                                   ELSE @ \ {<<cmd.on, cmd.id>>}], {})

Adding(c, id, token, type) == its.managers \cup {[chain |-> c, id |-> id, token |-> token, type |-> type]}

\* A new token, its supply with who deploys it.
Deploying(cmd) ==
    Effect(~Has(cmd.on, cmd.id) /\ cmd.on \notin its.paused,
           [its EXCEPT !.managers = Adding(cmd.on, cmd.id, cmd.id, "native"),
                       !.wallet = Put(@, cmd.on, cmd.id)], {})

\* The token the chain has gets a manager: to lock it, or of the type chosen.
Registering(cmd, type) ==
    Effect(/\ ~Has(cmd.on, cmd.id) /\ cmd.on \notin its.paused
           /\ On(cmd, {"stellar"}) => cmd.on \in its.assets,
           [its EXCEPT !.managers = Adding(cmd.on, cmd.id, Own, type)], {})

\* The service tells the hub of a token, or the destination to deploy or to link one.
Telling(cmd, kind) ==
    Effect(/\ cmd.on \notin its.paused
           /\ IF kind = "metadata" THEN On(cmd, {"stellar"}) => cmd.on \in its.assets
              ELSE Has(cmd.on, cmd.id) /\ Trusts(cmd.on, Destination(cmd)),
           its, {Message(kind, cmd, IF kind = "link" THEN cmd.type ELSE "native",
                         EncodeITSDestination(Destination(cmd)))})

Within(c, id) == <<c, id>> \in its.limited => <<c, id>> \notin its.used

\* A unit leaves: a lock keeps it, the others burn it; on EVM a lock and a burn-from
\* spend the approval, and a burn takes the minter's right.
Departing(cmd) ==
    LET c == cmd.on
        m == The(c, cmd.id)
    IN  Effect(/\ Has(c, cmd.id) /\ Trusts(c, Destination(cmd)) /\ c \notin its.paused
               /\ Balance(c, m.token) > 0 /\ Within(c, cmd.id)
               /\ On(cmd, {"evm"}) =>
                     CASE m.type = "native" -> TRUE
                       [] m.type = "mintBurn" -> <<c, m.id>> \in its.minters
                       [] OTHER -> <<c, m.token>> \in its.allowed,
               [its EXCEPT !.wallet = Take(@, c, m.token), !.used = @ \cup {<<c, m.id>>},
                           !.allowed = IF m.type \in {"lock", "mintBurnFrom"}
                                       THEN @ \ {<<c, m.token>>} ELSE @,
                           !.vault = IF m.type = "lock" THEN Put(@, c, m.token) ELSE @],
               {Message("transfer", cmd, m.type, EncodeITSDestination(Destination(cmd)))})

\* The tokens' own rights: to mint, and for whom.
Minting(cmd) ==
    Effect(<<cmd.on, Wallet>> \in its.minters /\ Balance(cmd.on, Own) < MaxUnits
           /\ cmd.on \in its.assets,
           [its EXCEPT !.wallet = Put(@, cmd.on, Own)], {})

Handing(cmd) ==
    Effect(<<cmd.on, Wallet>> \in its.minters /\ Has(cmd.on, cmd.id),
           [its EXCEPT !.minters = (@ \cup {<<cmd.on, cmd.id>>})
                                   \ (IF cmd.op = "giveMinter" THEN {<<cmd.on, Wallet>>} ELSE {})], {})

TakingAdmin(cmd) ==
    Effect(cmd.owner /\ <<cmd.on, cmd.id>> \in its.minters,
           [its EXCEPT !.minters = (@ \ {<<cmd.on, cmd.id>>}) \cup {<<cmd.on, Wallet>>}], {})

CreatingAsset(cmd) ==
    Effect(cmd.on \notin its.assets, [its EXCEPT !.assets = @ \cup {cmd.on}], {})

ChangingTrust(cmd) == Effect(TRUE, [its EXCEPT !.lines = @ \cup {cmd.on}], {})

\* The scripts of Sui's example mint what they send, which only the holder of the
\* treasury cap can, and name the token by what registering it recorded.
CoinId(cmd) == <<"coin", file[cmd.id].coin>>

SendingCoin(cmd) ==
    LET tok == [cmd EXCEPT !.id = CoinId(cmd)]
    IN  Effect(/\ file[cmd.id].type = "lock" /\ Trusts(cmd.on, Destination(cmd))
               /\ cmd.on \notin its.paused /\ Has(cmd.on, tok.id),
               [its EXCEPT !.vault = Put(@, cmd.on, tok.id)],
               {Message("transfer", tok, "lock", "raw")})

SendingDeployment(cmd) ==
    LET tok == [cmd EXCEPT !.id = CoinId(cmd)]
    IN  Effect(/\ file[cmd.id].type # "give" /\ Trusts(cmd.on, Destination(cmd))
               /\ Has(cmd.on, tok.id),
               its, {Message("deploy", tok, "native", "raw")})

\* A message arrives: from a chain trusted by a service that runs, it gives the chain a
\* manager, of the coin given for it on Sui, or a unit to whom it is addressed.
Given == {n \in 1..Len(its.coins) : its.coins[n] = "give"}

Arrival(m) ==
    LET c == m.to
        man == The(c, m.id)
        open == Trusts(c, m.from) /\ c \notin its.paused /\ m.enc = EncodeITSDestination(c)
    IN  CASE m.kind = "deploy" /\ Kind[c] = "sui" ->
               IF open /\ ~Has(c, m.id) /\ Given # {}
               THEN LET n == CHOOSE n \in Given : TRUE
                    IN  {[its EXCEPT !.coins[n] = "taken",
                                     !.managers = Adding(c, m.id, m.id, "native")]}
               ELSE {}
          [] m.kind = "deploy" /\ Kind[c] # "sui" ->
               IF open /\ ~Has(c, m.id)
               THEN {[its EXCEPT !.managers = Adding(c, m.id, m.id, "native")]} ELSE {}
          [] m.kind = "link" ->
               IF open /\ ~Has(c, m.id)
               THEN {[its EXCEPT !.managers = Adding(c, m.id, Own, m.type)]} ELSE {}
          [] m.kind = "transfer" ->
               IF /\ open /\ Has(c, m.id)
                  /\ Kind[c] = "stellar" /\ man.token = Own => c \in its.lines
                  /\ man.type \in {"mintBurn", "mintBurnFrom"} => <<c, m.id>> \in its.minters
                  /\ man.type = "lock" => BagIn(<<c, man.token>>, its.vault)
               THEN {[its EXCEPT !.wallet = Put(@, c, man.token),
                                 !.vault = IF man.type = "lock" THEN Take(@, c, man.token) ELSE @]}
               ELSE {}

\* What a transaction of a command does; a script that goes chain by chain sends one for
\* each.
Effects(cmd) ==
    CASE cmd.op \in TrustOps -> Trusting(cmd, IF cmd.op = "trust" /\ ~On(cmd, {"evm"})
                                              THEN ParseTrustedChains(cmd.to) ELSE cmd.to)
      [] cmd.op \in {"pause", "unpause"} -> Pausing(cmd)
      [] cmd.op \in {"limit", "unlimit"} -> Limiting(cmd)
      [] cmd.op = "deploy" -> Deploying(cmd)
      [] cmd.op = "canonical" -> Registering(cmd, "lock")
      [] cmd.op = "custom" -> Registering(cmd, cmd.type)
      [] cmd.op = "metadata" -> Telling(cmd, "metadata")
      [] cmd.op \in {"deployRemote", "deployRemoteCanonical"} -> Telling(cmd, "deploy")
      [] cmd.op \in {"link", "linkIts"} -> Telling(cmd, "link")
      [] cmd.op = "transfer" -> Departing(cmd)
      [] cmd.op = "mint" -> Minting(cmd)
      [] cmd.op \in {"giveMinter", "addMinter"} -> Handing(cmd)
      [] cmd.op = "takeAdmin" -> TakingAdmin(cmd)
      [] cmd.op = "createAsset" -> CreatingAsset(cmd)
      [] cmd.op = "changeTrust" -> ChangingTrust(cmd)
      [] cmd.op = "sendCoin" -> SendingCoin(cmd)
      [] cmd.op = "sendDeployment" -> SendingDeployment(cmd)
      [] cmd.op = "execute" ->
            UNION {{[its |-> new, gone |-> {m}, out |-> {}] : new \in Arrival(m)} :
                   m \in {m \in msgs : m.at = "dest" /\ m.to = cmd.on /\ m.n = cmd.n}}
-----------------------------------------------------------------------------
(* The commands                                                            *)

Steps(p) == scenario.steps[p]
Done(p) == at[p] > Len(Steps(p))
Cmd(p) == Steps(p)[at[p]]
Doing(p, pc) == ~Done(p) /\ run[p].pc = pc

\* What who persists looks up before following a step again, on the chain that shows it:
\* a step that failed unseen is not achieved.
Achieved(cmd) ==
    LET c == cmd.on
        id == IF cmd.op = "sendDeployment" THEN CoinId(cmd) ELSE cmd.id
    IN  CASE cmd.op = "trust" -> \A d \in ParseTrustedChains(cmd.to) : Trusts(c, d)
          [] cmd.op = "distrust" -> \A d \in cmd.to : ~Trusts(c, d)
          [] cmd.op \in {"pause", "unpause"} -> (c \in its.paused) = (cmd.op = "pause")
          [] cmd.op \in {"limit", "unlimit"} -> (<<c, id>> \in its.limited) = (cmd.op = "limit")
          [] cmd.op \in {"deploy", "canonical", "custom"} -> Has(c, id)
          [] cmd.op \in {"deployRemote", "deployRemoteCanonical", "link", "linkIts",
                         "sendDeployment"} -> Has(Destination(cmd), id)
          [] cmd.op = "metadata" -> c \in hub.meta
          [] cmd.op \in {"transfer", "sendCoin", "execute"} -> cmd.n \in sent
          [] cmd.op \in {"giveMinter", "addMinter"} -> <<c, id>> \in its.minters
          [] cmd.op = "takeAdmin" -> <<c, Wallet>> \in its.minters
          [] cmd.op = "mint" -> Balance(c, Own) > 0
          [] cmd.op = "createAsset" -> c \in its.assets
          [] cmd.op = "changeTrust" -> c \in its.lines
          [] cmd.op = "publish" -> file[id].coin # 0 /\ its.coins[file[id].coin] # "missed"
          [] cmd.op \in HubOps -> \A d \in cmd.to : hub.edge[d] = "live"

\* A command that succeeds writes the configuration it loaded, those of token-utils.js
\* excepted; who persists repeats one that does not, or that printed an error.
Saves(cmd) ==
    ~(On(cmd, {"stellar"}) /\ cmd.op \in {"createAsset", "changeTrust", "giveMinter",
                                          "addMinter", "mint"})

Ends(p, ok) ==
    /\ run' = [run EXCEPT ![p] = Idle]
    /\ at' = [at EXCEPT ![p] = IF ok \/ ~scenario.again THEN @ + 1 ELSE @]

EndsWell(p) ==
    Ends(p, run[p].ok) /\ file' = IF Saves(Cmd(p)) THEN run[p].copy ELSE file

Goes(p, pc) == run' = [run EXCEPT ![p].pc = pc] /\ at' = at

Happens(cmd, e) ==
    /\ its' = e.its /\ msgs' = (msgs \ e.gone) \cup e.out
    /\ sent' = IF cmd.op \in {"transfer", "sendCoin", "execute"} THEN sent \cup {cmd.n} ELSE sent

Nothing == UNCHANGED <<its, msgs, sent>>

\* The step is done already, as is-trusted-chain, deployed-token-manager, token-config,
\* admin and the like tell.
Skip(p) ==
    /\ Doing(p, "idle") /\ scenario.again /\ Achieved(Cmd(p))
    /\ at' = [at EXCEPT ![p] = @ + 1]
    /\ Nothing /\ UNCHANGED <<scenario, hub, late, file, run, faults>>

\* The command loads the configuration and makes its checks.
Start(p) ==
    LET cmd == Cmd(p)
    IN  /\ Doing(p, "idle") /\ Sees(cmd) /\ ~(scenario.again /\ Achieved(cmd))
        /\ at' = at
        /\ run' = [run EXCEPT ![p] =
              [pc |-> IF NeedsApproval(cmd) THEN "approve"
                      ELSE IF cmd.op \in TrustOps /\ On(cmd, {"stellar", "stacks"}) THEN "each"
                      ELSE "ready",
               left |-> IF cmd.op \in TrustOps /\ On(cmd, {"stellar", "stacks"})
                        THEN ParseTrustedChains(cmd.to) ELSE {},
               ok |-> TRUE, coin |-> 0, copy |-> file]]
        /\ Nothing /\ UNCHANGED <<scenario, hub, late, file, faults>>

Refuse(p) ==
    /\ Doing(p, "idle") /\ ~Sees(Cmd(p)) /\ ~(scenario.again /\ Achieved(Cmd(p)))
    /\ Ends(p, FALSE)
    /\ Nothing /\ UNCHANGED <<scenario, hub, late, file, faults>>

\* These commands of EVM ask once more after their checks.
Decline(p) ==
    /\ Doing(p, "ready") /\ ~scenario.again /\ On(Cmd(p), {"evm"})
    /\ Cmd(p).op \in TrustOps \cup {"linkIts"}
    /\ EndsWell(p)
    /\ Nothing /\ UNCHANGED <<scenario, hub, late, faults>>

\* The approval sets the allowance to the amount: it does not add to one that is there.
Approve(p) ==
    LET cmd == Cmd(p)
    IN  /\ Doing(p, "approve")
        /\ its' = [its EXCEPT !.allowed = @ \cup {<<cmd.on, The(cmd.on, cmd.id).token>>}]
        /\ Goes(p, "ready")
        /\ UNCHANGED <<scenario, hub, msgs, sent, late, file, faults>>

OneTransaction(cmd) == cmd.op \notin HubOps \cup {"publish"}

Transact(p) ==
    /\ Doing(p, "ready") /\ OneTransaction(Cmd(p))
    /\ \E e \in Effects(Cmd(p)) : Happens(Cmd(p), e)
    /\ EndsWell(p)
    /\ UNCHANGED <<scenario, hub, late, faults>>

Revert(p) ==
    /\ Doing(p, "ready") /\ OneTransaction(Cmd(p)) /\ Effects(Cmd(p)) = {}
    /\ Ends(p, FALSE)
    /\ Nothing /\ UNCHANGED <<scenario, hub, late, file, faults>>

\* Stellar goes chain by chain: it reads whether the chain is trusted and writes when
\* that is not what it should be; an error is caught and printed, the next chain follows
\* and the command ends as if all had gone well.
TrustEach(p, c) ==
    LET one == [Cmd(p) EXCEPT !.to = {c}]
    IN  /\ Doing(p, "each") /\ On(one, {"stellar"}) /\ c \in run[p].left
        /\ \/ /\ Trusts(one.on, c) # (one.op = "trust")
              /\ \E e \in Effects(one) : Happens(one, e)
           \/ (Trusts(one.on, c) = (one.op = "trust") \/ Effects(one) = {}) /\ Nothing
        /\ run' = [run EXCEPT ![p].left = @ \ {c}, ![p].ok = @ /\ Effects(one) # {}]
        /\ UNCHANGED <<scenario, hub, late, file, at, faults>>

TrustCaught(p, c) ==
    /\ Doing(p, "each") /\ On(Cmd(p), {"stellar"}) /\ c \in run[p].left /\ faults > 0
    /\ faults' = faults - 1
    /\ run' = [run EXCEPT ![p].left = @ \ {c}, ![p].ok = FALSE]
    /\ Nothing /\ UNCHANGED <<scenario, hub, late, file, at>>

\* Stacks broadcasts a transaction for each chain and waits for none of them.
BroadcastEach(p, c) ==
    /\ Doing(p, "each") /\ On(Cmd(p), {"stacks"}) /\ c \in run[p].left
    /\ late' = late \cup {[Cmd(p) EXCEPT !.to = {c}]}
    /\ run' = [run EXCEPT ![p].left = @ \ {c}]
    /\ Nothing /\ UNCHANGED <<scenario, hub, file, at, faults>>

AllSent(p) ==
    /\ Doing(p, "each") /\ run[p].left = {}
    /\ EndsWell(p)
    /\ Nothing /\ UNCHANGED <<scenario, hub, late, faults>>

\* register-its-chain proposes; a proposal that passes holds for all of its chains or none.
Propose(p) ==
    /\ Doing(p, "ready") /\ Cmd(p).op \in HubOps
    /\ hub' = [hub EXCEPT !.proposals = @ \cup {<<Cmd(p).op, Cmd(p).to>>}]
    /\ EndsWell(p)
    /\ Nothing /\ UNCHANGED <<scenario, late, faults>>

\* Mutant for RecordedIsRegistered: the token is noted as soon as it is published.
NotesBeforeRegistering(p) ==
    /\ Doing(p, "ready") /\ Cmd(p).op = "publish" /\ Len(its.coins) < MaxCoins
    /\ its' = [its EXCEPT !.coins = Append(@, "published")]
    /\ run' = [run EXCEPT ![p].pc = "register", ![p].coin = Len(its.coins) + 1]
    /\ file' = [file EXCEPT ![Cmd(p).id] = [coin |-> Len(its.coins) + 1, type |-> Cmd(p).type]]
    /\ UNCHANGED <<scenario, hub, msgs, sent, late, at, faults>>

\* deploy-token publishes the coin, and registers it with the service in a second
\* transaction, or gives it to the service; only then is it noted.
Publish(p) ==
    /\ Doing(p, "ready") /\ Cmd(p).op = "publish" /\ Len(its.coins) < MaxCoins
    /\ its' = [its EXCEPT !.coins = Append(@, "published")]
    /\ run' = [run EXCEPT ![p].pc = "register", ![p].coin = Len(its.coins) + 1]
    /\ UNCHANGED <<scenario, hub, msgs, sent, late, file, at, faults>>

Noted(p) == [run[p].copy EXCEPT ![Cmd(p).id] = [coin |-> run[p].coin, type |-> Cmd(p).type]]

\* What the second transaction does: the coin has a manager, or waits for its token.
Registered(p) ==
    LET cmd == Cmd(p)
        n == run[p].coin
    IN  /\ Doing(p, "register")
        /\ its' = [its EXCEPT !.coins[n] = cmd.type,
                              !.managers = IF cmd.type = "give" THEN @
                                           ELSE Adding(cmd.on, <<"coin", n>>, <<"coin", n>>, cmd.type),
                              !.minters = IF cmd.type = "mintBurn"
                                          THEN @ \cup {<<cmd.on, <<"coin", n>>>>} ELSE @]
        /\ UNCHANGED <<scenario, hub, msgs, sent, late>>

Register(p) == Registered(p) /\ Ends(p, TRUE) /\ file' = Noted(p) /\ faults' = faults

\* A call fails, or the command is killed before its next one.
Fail(p) ==
    /\ ~Done(p) /\ run[p].pc # "idle" /\ faults > 0
    /\ faults' = faults - 1 /\ Ends(p, FALSE)
    /\ Nothing /\ UNCHANGED <<scenario, hub, late, file>>

\* It is killed after the transaction, or the answer is lost.  Who persists repeats it
\* when the transaction is included or past its time bound, on Stellar half a minute.
Lose(p) ==
    /\ Doing(p, "ready") /\ OneTransaction(Cmd(p)) /\ faults > 0
    /\ \E e \in Effects(Cmd(p)) : Happens(Cmd(p), e)
    /\ faults' = faults - 1 /\ Ends(p, FALSE)
    /\ UNCHANGED <<scenario, hub, late, file>>

LoseRegistered(p) ==
    Registered(p) /\ faults > 0 /\ faults' = faults - 1 /\ Ends(p, FALSE) /\ file' = file

\* On Sui a transaction may be executed and fail: no script looks at the effects, and it
\* saves as if all had gone well.  Only the registration of an origin reads what the
\* transaction gave, and throws: that is Fail.  The token of a give is noted although the
\* service never got its coin.
FailUnseen(p) ==
    /\ ~Done(p) /\ On(Cmd(p), {"sui"}) /\ faults > 0
    /\ \/ /\ Doing(p, "ready") /\ OneTransaction(Cmd(p))
          /\ its' = its /\ file' = run[p].copy
       \/ /\ Doing(p, "register") /\ Cmd(p).type = "give"
          /\ its' = [its EXCEPT !.coins[run[p].coin] = "missed"] /\ file' = Noted(p)
    /\ faults' = faults - 1 /\ Ends(p, FALSE)
    /\ UNCHANGED <<scenario, hub, msgs, sent, late>>
-----------------------------------------------------------------------------
(* The rest of the world                                                   *)

Mine(t) ==
    /\ t \in late /\ late' = late \ {t}
    /\ \/ \E e \in Effects(t) : Happens(t, e)
       \/ Effects(t) = {} /\ Nothing
    /\ UNCHANGED <<scenario, hub, file, run, at, faults>>

\* The hub learns of a token, or passes on what is between two chains it knows with the
\* contract they have: a deployment or a link once, a link when it knows both tokens,
\* a transfer between instances.
Live(m) == hub.edge[m.from] = "live" /\ hub.edge[m.to] = "live"
Instance(c, id) == <<c, id>> \in hub.instances

Learn(m) ==
    /\ m \in msgs /\ m.at = "hub" /\ m.kind = "metadata" /\ Live(m)
    /\ hub' = [hub EXCEPT !.meta = @ \cup {m.from}] /\ msgs' = msgs \ {m}
    /\ UNCHANGED <<scenario, its, sent, late, file, run, at, faults>>

Relay(m) ==
    /\ m \in msgs /\ m.at = "hub" /\ Live(m)
    /\ \/ /\ m.kind \in {"deploy", "link"} /\ ~Instance(m.to, m.id)
          /\ m.kind = "link" => {m.from, m.to} \subseteq hub.meta
          /\ hub' = [hub EXCEPT !.instances = @ \cup {<<m.from, m.id>>, <<m.to, m.id>>}]
       \/ /\ m.kind = "transfer" /\ Instance(m.from, m.id) /\ Instance(m.to, m.id)
          /\ hub' = hub
    /\ msgs' = (msgs \ {m}) \cup {[m EXCEPT !.at = "dest"]}
    /\ UNCHANGED <<scenario, its, sent, late, file, run, at, faults>>

Deliver(m) ==
    /\ m \in msgs /\ m.at = "dest"
    /\ its' \in Arrival(m) /\ msgs' = msgs \ {m}
    /\ UNCHANGED <<scenario, hub, sent, late, file, run, at, faults>>

Epoch ==
    /\ its.used # {} /\ its' = [its EXCEPT !.used = {}]
    /\ UNCHANGED <<scenario, hub, msgs, sent, late, file, run, at, faults>>

Pass(pr) ==
    /\ pr \in hub.proposals
    /\ hub' = [hub EXCEPT
          !.proposals = @ \ {pr},
          !.edge = IF \A c \in pr[2] : (@[c] = "none") = (pr[1] = "register")
                   THEN [c \in Chains |-> IF c \in pr[2] THEN "live" ELSE @[c]] ELSE @]
    /\ UNCHANGED <<scenario, its, msgs, sent, late, file, run, at, faults>>

Finished ==
    /\ \A p \in People : Done(p)
    /\ UNCHANGED vars

Works(p) ==
    \/ Skip(p) \/ Start(p) \/ Refuse(p) \/ Approve(p) \/ Transact(p) \/ Revert(p)
    \/ \E c \in Chains : TrustEach(p, c) \/ BroadcastEach(p, c)
    \/ AllSent(p) \/ Propose(p) \/ Publish(p) \/ Register(p)

Falters(p) ==
    \/ Decline(p) \/ Fail(p) \/ Lose(p) \/ LoseRegistered(p) \/ FailUnseen(p)
    \/ \E c \in Chains : TrustCaught(p, c)

Carries == \E m \in msgs : Learn(m) \/ Relay(m) \/ Deliver(m)

Next ==
    \/ \E p \in People : Works(p) \/ Falters(p)
    \/ \E t \in late : Mine(t)
    \/ Carries \/ Epoch
    \/ \E pr \in hub.proposals : Pass(pr)
    \/ Finished

\* In a scenario whose people persist, each goes on, messages are carried, each as long as
\* it can be, transactions of Stacks are mined, epochs end and proposals pass.
Persistent(A) == scenario.again /\ A

Fairness ==
    /\ \A p \in People : WF_vars(Persistent(Works(p)))
    /\ \A k \in {"metadata", "link", "deploy", "transfer"}, c \in Chains :
          WF_vars(Persistent(\E m \in {m \in msgs : m.kind = k /\ m.from = c} :
                                Learn(m) \/ Relay(m) \/ Deliver(m)))
    /\ WF_vars(Persistent(\E t \in late : Mine(t)))
    /\ WF_vars(Persistent(Epoch))
    /\ WF_vars(Persistent(\E pr \in hub.proposals : Pass(pr)))

Spec == Init /\ [][Next]_vars /\ Fairness
-----------------------------------------------------------------------------
(* Properties                                                              *)

\* What the configuration says of a Sui token holds of its coin, after failures and kills
\* between the two transactions, and copies saved by others: a coin noted with the mode of
\* an origin is registered with the service in that mode, whatever failed.  Of a coin
\* noted as given, which the script notes without a look at the transaction, it says no
\* more than that the transaction was executed: the coin was given, has its token, or the
\* give failed unseen (sui/its-example.js deployToken, sui/utils/sign-utils.js
\* broadcastFromTxBuilder).
RecordedIsRegistered ==
    \A s \in Symbols : file[s].coin # 0 =>
        \/ its.coins[file[s].coin] = file[s].type
        \/ file[s].type = "give" /\ its.coins[file[s].coin] \in {"taken", "missed"}

\* Who follows the documented steps of a link, a deployment or a registration, and
\* repeats a step that failed, gets to the end of them, and every transfer sent arrives
\* (stellar/docs/link-token.md).
Settled ==
    (\A p \in People : Done(p)) /\ \A m \in msgs : m.kind # "transfer"
LinkCompletes == scenario.again ~> Settled
=============================================================================
