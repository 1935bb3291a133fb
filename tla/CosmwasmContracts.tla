--------------------------- MODULE CosmwasmContracts ---------------------------
(***************************************************************************)
(* The Amplifier contracts the CosmWasm scripts know: their scope and the  *)
(* addresses of other contracts each instantiate message carries.  An      *)
(* entry <<contract, chain>> of the configuration file is one instance to  *)
(* deploy; chain is NoChain for the contracts deployed once.               *)
(*                                                                         *)
(* A builder also checks values the operator writes by hand (governance    *)
(* address, thresholds, the external gateway's address); they are taken    *)
(* to be there, and only what other runs must have written is kept.        *)
(*                                                                         *)
(* Source: cosmwasm/utils.js.                                              *)
(***************************************************************************)

NoChain == "undefined"

GlobalContracts ==
    {"Coordinator", "ServiceRegistry", "Multisig", "Rewards", "Router",
     "AxelarnetGateway", "InterchainTokenService", "ItsAbiTranslator"}

ChainContracts ==
    {"VotingVerifier", "XrplVotingVerifier", "StacksVotingVerifier",
     "SolanaVotingVerifier", "Gateway", "XrplGateway", "SolanaGateway",
     "MultisigProver", "XrplMultisigProver", "StacksMultisigProver",
     "SolanaMultisigProver", "ItsStacksTranslator"}

\* What addContractOptions lets through: a chain for the contracts of chain
\* scope, none for the others.
InScope(e) ==
    \/ e[1] \in GlobalContracts /\ e[2] = NoChain
    \/ e[1] \in ChainContracts /\ e[2] # NoChain

Global(names) == {<<name, NoChain>> : name \in names}

VerifierContract(chain) ==
    CASE chain = "stacks" -> "StacksVotingVerifier"
      [] chain = "solana" -> "SolanaVotingVerifier"
      [] OTHER            -> "VotingVerifier"

GatewayContract(chain) ==
    IF chain = "solana" THEN "SolanaGateway" ELSE "Gateway"

\* The core contracts: Coordinator, ServiceRegistry, Multisig, Rewards, Router.
CoreNeeds(contract) ==
    CASE contract = "Multisig" -> Global({"Rewards", "Coordinator"})
      [] contract = "Router"   -> Global({"AxelarnetGateway", "Coordinator"})
      [] OTHER                 -> {}

HubNeeds(contract) ==
    CASE contract = "AxelarnetGateway"       -> Global({"Router"})
      [] contract = "InterchainTokenService" -> Global({"AxelarnetGateway"})
      [] OTHER                               -> {}

VerifierNeeds == Global({"ServiceRegistry", "Rewards"})

XrplGatewayNeeds(chain) ==
    Global({"Router", "InterchainTokenService"})
        \cup {<<"XrplVotingVerifier", chain>>}

GatewayNeeds(chain) ==
    Global({"Router"}) \cup {<<VerifierContract(chain), chain>>}

XrplProverNeeds(chain) ==
    Global({"Router", "Coordinator", "Multisig", "ServiceRegistry"})
        \cup {<<"XrplVotingVerifier", chain>>, <<"XrplGateway", chain>>}

ProverNeeds(chain) ==
    Global({"Router", "Coordinator", "Multisig", "ServiceRegistry"})
        \cup {<<VerifierContract(chain), chain>>, <<GatewayContract(chain), chain>>}

\* The entries whose address the instantiate message of e carries; its builder
\* throws while one of them is missing from the configuration.
Needs(e) ==
    LET contract == e[1]
        chain    == e[2]
    IN  CASE contract \in {"VotingVerifier", "XrplVotingVerifier",
                           "StacksVotingVerifier", "SolanaVotingVerifier"}
                                              -> VerifierNeeds
          [] contract = "XrplGateway"         -> XrplGatewayNeeds(chain)
          [] contract \in {"Gateway", "SolanaGateway"}
                                              -> GatewayNeeds(chain)
          [] contract = "XrplMultisigProver"  -> XrplProverNeeds(chain)
          [] contract \in {"MultisigProver", "StacksMultisigProver",
                           "SolanaMultisigProver"}
                                              -> ProverNeeds(chain)
          [] contract \in {"AxelarnetGateway", "InterchainTokenService"}
                                              -> HubNeeds(contract)
          [] OTHER                            -> CoreNeeds(contract)

\* The one builder that is async: a proposal encodes what it returns without
\* awaiting it, and a promise is serialised as {}.
BuilderIsAsync(e) == e[1] = "XrplMultisigProver"
===============================================================================
