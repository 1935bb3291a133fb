---------------------------- MODULE CosmwasmDeploy ----------------------------
(***************************************************************************)
(* Deploying the Amplifier contracts: deploy-contract sends transactions   *)
(* from a wallet, submit-proposal asks governance for the same things, and *)
(* both keep code ids and addresses in the configuration file.  One        *)
(* operator runs the commands, one after the other; between two steps of a *)
(* command governance may decide a proposal, and the command may die, in   *)
(* which case nothing it learnt is saved.                                  *)
(*                                                                         *)
(* The ids of submitted proposals, which the code saves for people to read *)
(* and never reads itself, are left out.                                   *)
(*                                                                         *)
(* Sources: cosmwasm/deploy-contract.js, submit-proposal.js,               *)
(* update-code-id.js, utils.js and cli-utils.js.                           *)
(***************************************************************************)
EXTENDS Integers, Sequences, FiniteSets, FiniteSetsExt, CosmwasmContracts

CONSTANTS
    Entries,     \* what the configuration has an object for
    BinaryOf,    \* a contract's compiled binary
    Wallet,      \* the account deploy-contract signs with
    Governance,  \* the governance module's account
    Runners,     \* what --runAs may be
    Admin,       \* what --admin is
    CustomSalts, \* what --salt may be
    StoredOpen,  \* may the wallet instantiate what governance stored?
    Jobs,        \* what the operator is about to do, see below
    MaxCrashes   \* bound: commands that die

NoSalt   == "no salt"
NoBinary == "no binary"
NoAddress == << >>

Binaries == {BinaryOf[e[1]] : e \in Entries}
Salts    == Entries \cup {<<s>> : s \in CustomSalts}

\* instantiate2 derives an address from the binary, the creator and a salt;
\* instantiate from a counter of the chain.
Predicted(bin, creator, salt) == <<bin, creator, salt>>
Sequential(n) == <<n>>

DirectOps   == {"upload", "instantiate", "upload-instantiate", "migrate"}
ProposalOps == {"store", "storeInstantiate", "propose-instantiate",
                "propose-migrate", "execute", "register-protocol"}
Operations  == DirectOps \cup ProposalOps \cup {"update-code-id"}

\* A job names the procedure ("free" or "documented"), the entries
\* the operator works on, those deployed before it starts, in their order and
\* with what they need, and for an operator without a procedure the operations
\* tried and how many.
ASSUME CosmwasmConstants ==
    /\ IsFiniteSet(Entries)
    /\ \A e \in Entries : InScope(e)
    /\ \A e \in Entries : Needs(e) \subseteq Entries
    /\ NoBinary \notin Binaries
    /\ StoredOpen \in BOOLEAN
    /\ MaxCrashes \in Nat
    /\ \A j \in Jobs : /\ j.procedure \in {"free", "documented"}
                       /\ j.entries \subseteq Entries /\ j.live \in Seq(Entries)
                       /\ \A x, y \in DOMAIN j.live :
                              j.live[x] = j.live[y] => x = y
                       /\ \A x \in DOMAIN j.live :
                              Needs(j.live[x]) \subseteq {j.live[y] : y \in DOMAIN j.live}
                       /\ j.ops \subseteq Operations /\ j.runs \in Nat

VARIABLES
    job,       \* the operator's job
    disk,      \* the configuration file
    run,       \* the command being executed
    codes,     \* the codes stored on chain: a code id is an index
    live,      \* address -> the contract instantiated there
    born,      \* how many contracts were ever instantiated
    proposals, \* governance proposals, in the order they were submitted
    runs,      \* commands started
    crashes    \* commands that died

chain == <<codes, live, born>>
vars  == <<job, disk, run, chain, proposals, runs, crashes>>

-----------------------------------------------------------------------------
(* Commands, as the option tables allow them. *)

Given   == "--codeId"
Fetch   == "--fetchCodeId"
LastOne == "neither"

Instantiations == {"instantiate", "upload-instantiate", "propose-instantiate"}
CodeIdUsers    == {"instantiate", "migrate", "propose-instantiate", "propose-migrate"}

Accepts(c) ==
    /\ c.inst2              => c.op \in Instantiations \cup {"upload"}
    /\ c.salt # NoSalt      => c.inst2
    /\ c.code # LastOne     => c.op \in CodeIdUsers
    /\ c.runAs # Governance => c.op \in {"storeInstantiate", "propose-instantiate"}
    /\ c.predictOnly        => c.op = "propose-instantiate" /\ c.inst2
    /\ c.op = "register-protocol" => c.e = <<"Coordinator", NoChain>>

AllCommands ==
    {c \in [op : Operations, e : Entries, inst2 : BOOLEAN, salt : CustomSalts \cup {NoSalt},
            code : {LastOne, Fetch, Given}, runAs : Runners \cup {Governance},
            predictOnly : BOOLEAN, yes : BOOLEAN] : Accepts(c)}

\* A command with --instantiate2 and --yes, everything else left out.
Following(op, e) ==
    [op |-> op, e |-> e, inst2 |-> TRUE, salt |-> NoSalt, code |-> LastOne,
     runAs |-> Governance, predictOnly |-> FALSE, yes |-> TRUE]

\* "Some of the contracts depend on each other": upload every contract of the
\* job with --instantiate2 until its address is known, then instantiate them
\* with --instantiate2 until their code id is.
DocumentedCommands ==
    LET unknown == {e \in job.entries : disk.at[e].address = NoAddress}
    IN  IF unknown # {}
        THEN {Following("upload", e) : e \in unknown}
        ELSE {Following("instantiate", e) :
                  e \in {x \in job.entries : disk.at[x].codeId = 0}}

Commands ==
    CASE job.procedure = "free" ->
             {c \in AllCommands : /\ c.e \in job.entries /\ c.op \in job.ops
                                /\ ~c.yes /\ runs < job.runs}
      [] job.procedure = "documented" -> DocumentedCommands

-----------------------------------------------------------------------------
(* The configuration: base holds what a contract's chains share, at what   *)
(* one instance has.                                                       *)

Contracts == {e[1] : e \in Entries}

\* The addresses there can be: one the chain gave out, or a predicted one.
Addresses == {NoAddress} \cup {Sequential(n) : n \in 1 .. born}
                 \cup {Predicted(b, w, s) : b \in Binaries, s \in Salts,
                           w \in {Wallet, Governance} \cup Runners}

\* A code id, 0 for none.
CodeIds == 0 .. Len(codes)

Configs == [base : [Contracts -> [last : CodeIds, hash : Binaries \cup {NoBinary}]],
            at   : [Entries -> [address : Addresses, codeId : CodeIds]]]

Codes == [bin : Binaries, open : BOOLEAN]

Idle == [at |-> "idle"]

\* at is the step a command does next; codeId what getCodeId returned; sent
\* whether what the operator was asked about has been sent.
Commanding == [at : {"upload", "code", "confirm", "send", "save"},
               cmd : AllCommands, cfg : Configs, codeId : CodeIds, sent : BOOLEAN]

\* The addresses a message carries.
IsMessage(links) == DOMAIN links \subseteq Entries
                    /\ \A d \in DOMAIN links : links[d] \in Addresses

\* Mutant: a chain's contract salted like its siblings, by the contract's name
\* alone, as cosmwasm/README.md and the help of --salt say it is
SaltWithoutChain(c) == IF c.salt = NoSalt THEN <<c.e[1]>> ELSE <<c.salt>>

\* The salt is --salt, or the contract's name and the chain's.
SaltOf(c) == IF c.salt = NoSalt THEN c.e ELSE <<c.salt>>

\* Mutant: a builder that wants its contracts deployed, not just known
BuildableIfLive(cfg, e) == \A d \in Needs(e) : cfg.at[d].address \in DOMAIN live

Buildable(cfg, e) == \A d \in Needs(e) : cfg.at[d].address # NoAddress
Message(cfg, e) == [d \in Needs(e) |-> cfg.at[d].address]

\* The newest code on chain with the hash of the last store proposal, or 0.
FetchedCodeId(cfg, contract) ==
    LET same == {i \in 1 .. Len(codes) : codes[i].bin = cfg.base[contract].hash}
    IN  IF same = {} THEN 0 ELSE Max(same)

\* What getCodeId may return; it throws if that is nothing.  An operator gives
\* the id of a code that exists.
CodeIdsFor(cfg, c) ==
    (CASE c.code = Given   -> DOMAIN codes
       [] c.code = Fetch   -> {FetchedCodeId(cfg, c.e[1])}
       [] c.code = LastOne -> {cfg.base[c.e[1]].last}) \ {0}

-----------------------------------------------------------------------------
(* The chain: what a transaction or an executed proposal does to it.       *)

\* Mutant: --instantiate2 only used to predict
AddressAlwaysNew(c, code, creator) == Sequential(born + 1)

\* instantiate2 fails when something is already there.
AddressFor(c, code, creator) ==
    IF c.inst2 THEN Predicted(codes[code].bin, creator, SaltOf(c))
               ELSE Sequential(born + 1)

CanInstantiate(c, code, creator) ==
    /\ code \in DOMAIN codes
    /\ AddressFor(c, code, creator) \notin DOMAIN live

Instantiated(address, instance) ==
    /\ live' = [a \in DOMAIN live \cup {address} |->
                    IF a = address THEN instance ELSE live[a]]
    /\ born' = born + 1

CanMigrate(address, code) == code \in DOMAIN codes /\ address \in DOMAIN live

-----------------------------------------------------------------------------
(* A command, step by step. *)

FirstStep(c) ==
    CASE c.op \in {"upload", "upload-instantiate"} -> "upload"
      [] c.op \in CodeIdUsers -> "code"
      [] c.op = "update-code-id" -> "send"
      [] OTHER -> "confirm"

\* mainProcessor reads the file; initContractConfig adds what is missing.
Start(c) ==
    /\ run = Idle /\ c \in Commands
    /\ run' = [at |-> FirstStep(c), cmd |-> c, cfg |-> disk, codeId |-> 0,
               sent |-> FALSE]
    /\ runs' = IF job.procedure = "documented" THEN runs ELSE runs + 1
    /\ UNCHANGED <<job, disk, chain, proposals, crashes>>

\* What the file would hold after a step.
WithLast(cfg, c, code) == [cfg EXCEPT !.base[c.e[1]].last = code]
WithCodeId(cfg, c, code) == [cfg EXCEPT !.at[c.e].codeId = code]
WithAddress(cfg, c, addr) == [cfg EXCEPT !.at[c.e].address = addr]
WithHash(cfg, c) == [cfg EXCEPT !.base[c.e[1]].hash = BinaryOf[c.e[1]]]

\* Mutant: the address is predicted for governance, as submit-proposal does
UploadForGovernance ==
    LET c   == run.cmd
        bin == BinaryOf[c.e[1]]
        cfg == WithLast(run.cfg, c, Len(codes) + 1)
    IN  /\ run.at = "upload"
        /\ codes' = Append(codes, [bin |-> bin, open |-> TRUE])
        /\ run' = [run EXCEPT
               !.at  = IF c.op = "upload" THEN "save" ELSE "code",
               !.cfg = IF c.inst2
                       THEN WithAddress(cfg, c, Predicted(bin, Governance, SaltOf(c)))
                       ELSE cfg]
        /\ UNCHANGED <<job, disk, live, born, proposals, runs, crashes>>

\* Mutant: what the upload would have answered is kept before it is sent.
UploadNotAwaited ==
    LET c == run.cmd
    IN  /\ run.at = "upload"
        /\ run' = [run EXCEPT !.at  = "save",
                              !.cfg = WithLast(run.cfg, c, Len(codes) + 1)]
        /\ UNCHANGED <<job, disk, chain, proposals, runs, crashes>>

\* deploy-contract's upload; with --instantiate2 the address is computed for
\* the wallet.
Upload ==
    LET c    == run.cmd
        code == Len(codes) + 1
        cfg  == WithLast(run.cfg, c, code)
        bin  == BinaryOf[c.e[1]]
    IN  /\ run.at = "upload"
        /\ codes' = Append(codes, [bin |-> bin, open |-> TRUE])
        /\ run' = [run EXCEPT
               !.at  = IF c.op = "upload" THEN "save" ELSE "code",
               !.cfg = IF c.inst2
                       THEN WithAddress(cfg, c, Predicted(bin, Wallet, SaltOf(c)))
                       ELSE cfg]
        /\ UNCHANGED <<job, disk, live, born, proposals, runs, crashes>>

\* getCodeId, which throws without a code id.  --fetchCodeId also remembers
\* what it found.  The proposals write the code id down before anybody is
\* asked; with --predictOnly they then save the address it would get.
ChooseCode(code) ==
    LET c     == run.cmd
        found == IF c.code = Fetch THEN WithLast(run.cfg, c, code) ELSE run.cfg
        noted == IF c.op \in ProposalOps THEN WithCodeId(found, c, code) ELSE found
        there == Predicted(codes[code].bin, c.runAs, SaltOf(c))
    IN  /\ run.at = "code" /\ code \in CodeIdsFor(run.cfg, c)
        /\ run' = [run EXCEPT
               !.at     = IF c.predictOnly THEN "save" ELSE "confirm",
               !.codeId = code,
               !.cfg    = IF c.predictOnly THEN WithAddress(noted, c, there)
                                           ELSE noted]
        /\ UNCHANGED <<job, disk, chain, proposals, runs, crashes>>

\* A builder that proposals call before the prompt throws if an address is
\* missing.
MayAsk(c) ==
    c.op \in {"storeInstantiate", "propose-instantiate"} /\ ~BuilderIsAsync(c.e)
        => Buildable(run.cfg, c.e)

Proceed ==
    LET c == run.cmd
    IN  /\ run.at = "confirm" /\ MayAsk(c)
        /\ run' = [run EXCEPT !.at = "send",
               !.cfg = IF c.op \in DirectOps THEN WithCodeId(run.cfg, c, run.codeId)
                                             ELSE run.cfg]
        /\ UNCHANGED <<job, disk, chain, proposals, runs, crashes>>

\* A declined prompt returns to mainProcessor, which saves what there is.
Decline ==
    /\ run.at = "confirm" /\ MayAsk(run.cmd) /\ ~run.cmd.yes
    /\ run' = [run EXCEPT !.at = "save"]
    /\ UNCHANGED <<job, disk, chain, proposals, runs, crashes>>

InstantiateContract ==
    LET c    == run.cmd
        code == run.cfg.at[c.e].codeId
        addr == AddressFor(c, code, Wallet)
    IN  /\ run.at = "send" /\ c.op \in {"instantiate", "upload-instantiate"}
        /\ Buildable(run.cfg, c.e)
        /\ CanInstantiate(c, code, Wallet) /\ codes[code].open
        /\ Instantiated(addr, [e |-> c.e, code |-> code, admin |-> Admin,
                               links |-> Message(run.cfg, c.e)])
        /\ run' = [run EXCEPT !.at = "save", !.sent = TRUE,
                              !.cfg = WithAddress(run.cfg, c, addr)]
        /\ UNCHANGED <<job, disk, codes, proposals, runs, crashes>>

\* Mutant: migrated to the last uploaded code, whatever --codeId says.
MigrateToLast ==
    LET c == run.cmd
        a == run.cfg.at[c.e]
    IN  /\ run.at = "send" /\ c.op = "migrate"
        /\ CanMigrate(a.address, a.codeId) /\ codes[a.codeId].open
        /\ live[a.address].admin = Wallet
        /\ live' = [live EXCEPT ![a.address].code = run.cfg.base[c.e[1]].last]
        /\ run' = [run EXCEPT !.at = "save", !.sent = TRUE]
        /\ UNCHANGED <<job, disk, codes, born, proposals, runs, crashes>>

MigrateContract ==
    LET c == run.cmd
        a == run.cfg.at[c.e]
    IN  /\ run.at = "send" /\ c.op = "migrate"
        /\ CanMigrate(a.address, a.codeId) /\ codes[a.codeId].open
        /\ live[a.address].admin = Wallet
        /\ live' = [live EXCEPT ![a.address].code = a.codeId]
        /\ run' = [run EXCEPT !.at = "save", !.sent = TRUE]
        /\ UNCHANGED <<job, disk, codes, born, proposals, runs, crashes>>

\* update-code-id: what the chain says the contract runs.
UpdateCodeId ==
    LET c    == run.cmd
        addr == run.cfg.at[c.e].address
    IN  /\ run.at = "send" /\ c.op = "update-code-id" /\ addr \in DOMAIN live
        /\ run' = [run EXCEPT !.at = "save",
                              !.cfg = WithCodeId(run.cfg, c, live[addr].code)]
        /\ UNCHANGED <<job, disk, chain, proposals, runs, crashes>>

\* A submitted proposal and what its command then keeps in the configuration.
Submit(proposal, cfg) ==
    /\ proposals' = Append(proposals, proposal)
    /\ run' = [run EXCEPT !.at = "save", !.sent = TRUE, !.cfg = cfg]
    /\ UNCHANGED <<job, disk, chain, runs, crashes>>

Proposal(code, target, links) ==
    [cmd |-> run.cmd, bin |-> BinaryOf[run.cmd.e[1]], code |-> code,
     target |-> target, links |-> links, status |-> "open"]

\* The message of an async builder is not awaited: it arrives empty.
ProposedMessage(c) ==
    IF BuilderIsAsync(c.e) THEN << >> ELSE Message(run.cfg, c.e)

StoreCode ==
    /\ run.at = "send" /\ run.cmd.op = "store"
    /\ Submit(Proposal(0, NoAddress, << >>), WithHash(run.cfg, run.cmd))

StoreInstantiate ==
    /\ run.at = "send" /\ run.cmd.op = "storeInstantiate"
    /\ Submit(Proposal(0, NoAddress, ProposedMessage(run.cmd)),
              WithHash(run.cfg, run.cmd))

\* Mutant: predicted for the wallet that submits, as deploy-contract does
ProposeForWallet ==
    LET c    == run.cmd
        code == run.cfg.at[c.e].codeId
    IN  /\ run.at = "send" /\ c.op = "propose-instantiate"
        /\ Submit(Proposal(code, NoAddress, ProposedMessage(c)),
                  IF c.inst2
                  THEN WithAddress(run.cfg, c,
                           Predicted(codes[code].bin, Wallet, SaltOf(c)))
                  ELSE run.cfg)

\* predictAddress, for the account the proposal will run as; without
\* --instantiate2 no address is saved.
ProposeInstantiate ==
    LET c    == run.cmd
        code == run.cfg.at[c.e].codeId
    IN  /\ run.at = "send" /\ c.op = "propose-instantiate"
        /\ Submit(Proposal(code, NoAddress, ProposedMessage(c)),
                  IF c.inst2
                  THEN WithAddress(run.cfg, c,
                           Predicted(codes[code].bin, c.runAs, SaltOf(c)))
                  ELSE run.cfg)

ProposeMigrate ==
    LET a == run.cfg.at[run.cmd.e]
    IN  /\ run.at = "send" /\ run.cmd.op = "propose-migrate"
        /\ Submit(Proposal(a.codeId, a.address, << >>), run.cfg)

\* execute, and registerProtocol, which has the Coordinator told the addresses
\* of the core contracts as the configuration has them.  A chain's contract is
\* looked up under the chain's axelarId, which is taken to be its key in the
\* file, as it is for the chains that have Amplifier contracts.
ProtocolContracts == Global({"ServiceRegistry", "Router", "Multisig"}) \cap Entries

Execute ==
    /\ run.at = "send" /\ run.cmd.op = "execute"
    /\ Submit(Proposal(0, run.cfg.at[run.cmd.e].address, << >>), run.cfg)

RegisterProtocol ==
    /\ run.at = "send" /\ run.cmd.op = "register-protocol"
    /\ Submit(Proposal(0, run.cfg.at[run.cmd.e].address,
                       [d \in ProtocolContracts |-> run.cfg.at[d].address]),
              run.cfg)

\* The steps that throw: the process ends and the file stays as it was.
Throws ==
    LET c == run.cmd
        a == run.cfg.at[c.e]
    IN  \/ run.at = "code" /\ CodeIdsFor(run.cfg, c) = {}
        \/ run.at = "confirm" /\ ~MayAsk(c)
        \/ /\ run.at = "send" /\ c.op \in {"instantiate", "upload-instantiate"}
           /\ ~(/\ Buildable(run.cfg, c.e) /\ CanInstantiate(c, a.codeId, Wallet)
                /\ codes[a.codeId].open)
        \/ /\ run.at = "send" /\ c.op = "migrate"
           /\ ~(/\ CanMigrate(a.address, a.codeId) /\ codes[a.codeId].open
                /\ live[a.address].admin = Wallet)
        \/ run.at = "send" /\ c.op = "update-code-id" /\ a.address \notin DOMAIN live

Fail ==
    /\ run # Idle /\ Throws
    /\ run' = Idle
    /\ UNCHANGED <<job, disk, chain, proposals, runs, crashes>>

\* mainProcessor saves once the command has returned.
SaveConfig ==
    /\ run.at = "save"
    /\ disk' = run.cfg
    /\ run' = Idle
    /\ UNCHANGED <<job, chain, proposals, runs, crashes>>

Crash ==
    /\ run # Idle /\ crashes < MaxCrashes
    /\ run' = Idle /\ crashes' = crashes + 1
    /\ UNCHANGED <<job, disk, chain, proposals, runs>>

-----------------------------------------------------------------------------
(* Governance decides the open proposals, in any order. *)

Decide(i, status) ==
    /\ proposals[i].status = "open"
    /\ proposals' = [proposals EXCEPT ![i].status = status]
    /\ UNCHANGED <<job, disk, run, runs, crashes>>

Reject(i) == Decide(i, "rejected") /\ UNCHANGED chain

StoredByGovernance(p) == Append(codes, [bin |-> p.bin, open |-> StoredOpen])

PassStore(i) ==
    /\ proposals[i].cmd.op = "store"
    /\ Decide(i, "executed")
    /\ codes' = StoredByGovernance(proposals[i])
    /\ UNCHANGED <<live, born>>

PassStoreInstantiate(i) ==
    LET p == proposals[i]
    IN  /\ p.cmd.op = "storeInstantiate"
        /\ Decide(i, "executed")
        /\ codes' = StoredByGovernance(p)
        /\ Instantiated(Sequential(born + 1),
               [e |-> p.cmd.e, code |-> Len(codes) + 1, admin |-> Admin,
                links |-> p.links])

PassInstantiate(i) ==
    LET p == proposals[i]
    IN  /\ p.cmd.op = "propose-instantiate"
        /\ IF CanInstantiate(p.cmd, p.code, p.cmd.runAs)
           THEN /\ Decide(i, "executed")
                /\ Instantiated(AddressFor(p.cmd, p.code, p.cmd.runAs),
                       [e |-> p.cmd.e, code |-> p.code, admin |-> Admin,
                        links |-> p.links])
                /\ UNCHANGED codes
           ELSE Decide(i, "failed") /\ UNCHANGED chain

PassMigrate(i) ==
    LET p == proposals[i]
    IN  /\ p.cmd.op = "propose-migrate"
        /\ IF CanMigrate(p.target, p.code)
           THEN /\ Decide(i, "executed")
                /\ live' = [live EXCEPT ![p.target].code = p.code]
                /\ UNCHANGED <<codes, born>>
           ELSE Decide(i, "failed") /\ UNCHANGED chain

\* What the called contract does is not modelled.
PassExecute(i) ==
    /\ proposals[i].cmd.op \in {"execute", "register-protocol"}
    /\ Decide(i, IF proposals[i].target \in DOMAIN live THEN "executed" ELSE "failed")
    /\ UNCHANGED chain

Governed ==
    \E i \in DOMAIN proposals :
        \/ Reject(i) \/ PassStore(i) \/ PassStoreInstantiate(i)
        \/ PassInstantiate(i) \/ PassMigrate(i) \/ PassExecute(i)

-----------------------------------------------------------------------------
\* The contracts that were deployed before the job, one code each, with the
\* configuration that deploying them left behind.
Init ==
    /\ job \in Jobs
    /\ LET id(e) == CHOOSE i \in DOMAIN job.live : job.live[i] = e
           isLive(e) == \E i \in DOMAIN job.live : job.live[i] = e
           addr(e) == IF isLive(e) THEN Sequential(id(e)) ELSE NoAddress
           ids(name) == {i \in DOMAIN job.live : job.live[i][1] = name}
       IN  /\ codes = [i \in DOMAIN job.live |->
                           [bin |-> BinaryOf[job.live[i][1]], open |-> TRUE]]
           /\ live = [a \in {Sequential(i) : i \in DOMAIN job.live} |->
                          LET e == job.live[a[1]]
                          IN  [e |-> e, code |-> a[1], admin |-> Governance,
                               links |-> [d \in Needs(e) |-> addr(d)]]]
           /\ disk = [at |-> [e \in Entries |->
                                 [address |-> addr(e),
                                  codeId |-> IF isLive(e) THEN id(e) ELSE 0]],
                      base |-> [name \in Contracts |->
                                   [hash |-> NoBinary,
                                    last |-> IF ids(name) = {} THEN 0
                                             ELSE Max(ids(name))]]]
    /\ born = Len(job.live)
    /\ run = Idle /\ proposals = << >> /\ runs = 0 /\ crashes = 0

Step == \/ Upload \/ (\E code \in DOMAIN codes : ChooseCode(code))
        \/ Proceed \/ Decline
        \/ InstantiateContract \/ MigrateContract \/ UpdateCodeId
        \/ StoreCode \/ StoreInstantiate \/ ProposeInstantiate \/ ProposeMigrate
        \/ Execute \/ RegisterProtocol
        \/ Fail \/ SaveConfig

Working == (run = Idle /\ \E c \in Commands : Start(c)) \/ Step

Next == Working \/ Crash \/ Governed

\* A command ends, the operator goes on, and one who follows the procedure
\* comes back to every contract that is not done, not only to one whose
\* instantiation keeps failing.  Governance owes nothing.
Fairness ==
    /\ WF_vars(Working)
    /\ \A e \in Entries : SF_vars(Start(Following("instantiate", e)))

Spec == Init /\ [][Next]_vars /\ Fairness

-----------------------------------------------------------------------------
TypeOK ==
    /\ job \in Jobs
    /\ disk \in Configs
    /\ run \in Commanding \cup {Idle}
    /\ \A i \in DOMAIN codes : codes[i] \in Codes
    /\ \A a \in DOMAIN live :
           /\ a \in Addresses \ {NoAddress}
           /\ live[a].e \in Entries /\ live[a].code \in CodeIds \ {0}
           /\ IsMessage(live[a].links)
    /\ born \in Nat /\ runs \in Nat /\ crashes \in 0 .. MaxCrashes
    /\ \A i \in DOMAIN proposals :
           /\ proposals[i].cmd \in AllCommands
           /\ proposals[i].code \in CodeIds /\ proposals[i].target \in Addresses
           /\ IsMessage(proposals[i].links)
           /\ proposals[i].status \in {"open", "executed", "failed", "rejected"}

Documented == job.procedure = "documented"

\* Two contracts that need each other's address get it: once a contract of the
\* documented procedure is live where the file says, it was told the address
\* the file has for every other contract of the procedure, whatever crashed
\* and was repeated in between (upload's predicted addresses).
CycleCloses ==
    Documented /\ run = Idle =>
        \A e \in job.entries : disk.at[e].address \in DOMAIN live =>
            \A d \in Needs(e) \cap job.entries :
                live[disk.at[e].address].links[d] = disk.at[d].address

\* A command repeated because the one before it died deploys nothing twice.
NeverTwice ==
    Documented => \A a, b \in DOMAIN live : live[a].e = live[b].e => a = b

\* The procedure ends with every contract live where the file says, however
\* the contracts depend on each other and whatever crashed on the way.
DeployedEventually ==
    Documented ~> [](\A e \in job.entries : disk.at[e].address \in DOMAIN live)

CustomSalted(a) == Len(a) = 3 /\ a[3] \in {<<s>> : s \in CustomSalts}

\* Unless the operator chose the salt, no address serves two entries: neither
\* two lines of the file, nor an entry and the contract that lives where it
\* points (the chains of one contract share its binary and its creator, so it
\* is the chain in getSalt's default, which the README and the help of --salt
\* leave out, that keeps them apart).
AddressesAreUnshared ==
    \A e \in Entries :
        LET a == disk.at[e].address
        IN  ~CustomSalted(a) /\ a # NoAddress =>
                /\ \A f \in Entries : disk.at[f].address = a => f = e
                /\ a \in DOMAIN live => live[a].e = e

\* When a command of deploy-contract or update-code-id that did its work is
\* saved, the file has the code id the chain has, unless governance has
\* meanwhile migrated that contract.
MigratedTo(a, code) ==
    \E i \in DOMAIN proposals :
        /\ proposals[i].cmd.op = "propose-migrate" /\ proposals[i].status = "executed"
        /\ proposals[i].target = a /\ proposals[i].code = code

CodeIdIsTheChains ==
    [][/\ SaveConfig
       /\ run.cmd.op = "update-code-id" \/ (run.sent /\ run.cmd.op \in DirectOps)
       => LET place == disk'.at[run.cmd.e]
               code  == live[place.address].code
           IN  code = place.codeId \/ MigratedTo(place.address, code)]_vars

\* The address saved for a proposal with --instantiate2 is the one the chain
\* will give the contract when the proposal passes.
PredictionHolds ==
    [][SaveConfig /\ run.sent /\ run.cmd.op = "propose-instantiate" /\ run.cmd.inst2 =>
           LET p == proposals[Len(proposals)]
           IN  disk'.at[run.cmd.e].address = AddressFor(p.cmd, p.code, p.cmd.runAs)]_vars

===============================================================================
