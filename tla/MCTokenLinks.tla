---------------------------- MODULE MCTokenLinks ----------------------------
(***************************************************************************)
(* Scenarios of TokenLinks over one chain of each kind: the documented     *)
(* links and deployments, followed by people who persist, and the other    *)
(* commands among people who do not.                                       *)
(***************************************************************************)
EXTENDS TokenLinks, TLC

CONSTANTS e, s, u, k, alice, bob

MCChains == {e, s, u, k}
MCKind == (e :> "evm") @@ (s :> "stellar") @@ (u :> "sui") @@ (k :> "stacks")
MCDeployed == MCChains
MCPeople == {alice, bob}

C(op, on, to, type, id, n) ==
    [op |-> op, on |-> on, to |-> to, type |-> type, id |-> id, owner |-> TRUE, n |-> n]
\* A command without a destination, and one about no token.
T(op, on, id) == C(op, on, {on}, NoType, id, 0)
A(op, on, to) == C(op, on, to, NoType, <<"origin">>, 0)
Stranger(cmd) == [cmd EXCEPT !.owner = FALSE]

AllTrust == {<<c, d>> \in MCChains \X MCChains : c # d}
Live4 == [c \in MCChains |-> "live"]

Scene(again, faulty, a, b, trusting, edge, managers) ==
    [again |-> again, faults |-> faulty, steps |-> (alice :> a) @@ (bob :> b),
     trusting |-> trusting, edge |-> edge, managers |-> managers]

Cs == <<"custom", s>>
Ce == <<"custom", e>>
Ne == <<"native", e>>
Ns == <<"native", s>>
Ke == <<"canonical", e>>

\* Example 1 and 2 of stellar/docs/link-token.md, with a transfer there and back.
LinkFromStellar(type) ==
    Scene(TRUE, 2,
       <<A("changeTrust", s, {s}), T("createAsset", s, Cs), T("metadata", s, Cs), T("metadata", e, Cs),
         C("custom", s, {s}, type, Cs, 0), C("link", s, {e}, "lock", Cs, 0),
         T(IF type = "mintBurn" THEN "giveMinter" ELSE "addMinter", s, Cs)>>,
       <<C("transfer", e, {s}, NoType, Cs, 1), C("transfer", s, {e}, NoType, Cs, 2)>>,
       AllTrust, Live4, {})

\* A link from EVM, to a token that is locked on Stellar.
LinkFromEvm(type) ==
    Scene(TRUE, 2,
       <<T("createAsset", s, Ce), T("metadata", s, Ce), T("metadata", e, Ce),
         C("custom", e, {e}, type, Ce, 0), C("link", e, {s}, "lock", Ce, 0), T("giveMinter", e, Ce),
         A("changeTrust", s, {s}), C("transfer", s, {e}, NoType, Ce, 1),
         C("transfer", e, {s}, NoType, Ce, 2)>>,
       <<>>, AllTrust, Live4, {})

\* Chains are registered or updated on the hub and trusted while a token is deployed.
Opening ==
    Scene(TRUE, 2,
       <<A("register", e, {e}), A("update", e, {s}), A("trust", s, {"all"}), A("trust", k, {e, s}),
         C("deploy", e, {e}, NoType, Ne, 0), C("deployRemote", e, {s}, NoType, Ne, 0),
         C("transfer", e, {s}, NoType, Ne, 1)>>,
       <<A("trust", e, {s, u}), T("unpause", e, Ne), T("unlimit", s, Ne),
         C("transfer", s, {e}, NoType, Ne, 2)>>,
       {}, (e :> "none") @@ (s :> "old") @@ (u :> "live") @@ (k :> "none"), {})

\* A Sui token is deployed, sent as it is and as a token.
FromSui(type) ==
    Scene(TRUE, 2,
       <<C("publish", u, {u}, type, <<"origin">>, 0), C("sendDeployment", u, {e}, NoType, <<"origin">>, 0)>>
       \o (IF type = "lock" THEN <<C("sendCoin", u, {e}, NoType, <<"origin">>, 1)>> ELSE <<>>),
       <<>>, AllTrust, Live4, {})

\* A token of EVM gets the coin published for it on Sui.
ToSui ==
    Scene(TRUE, 2,
       <<C("publish", u, {u}, "give", <<"empty">>, 0), T("canonical", e, Ke),
         C("deployRemoteCanonical", e, {u}, NoType, Ke, 0), C("transfer", e, {u}, NoType, Ke, 1)>>,
       <<C("transfer", u, {e}, NoType, Ke, 2)>>,
       AllTrust, Live4, {})

\* Two wallets' worth of commands against each other.
Locked == {[chain |-> e, id |-> Ke, token |-> Own, type |-> "lock"],
           [chain |-> s, id |-> Ke, token |-> Ke, type |-> "native"]}

Chaos ==
    {Scene(FALSE, 1,
        <<A("trust", e, {s}), Stranger(A("distrust", e, {s})), A("pause", e, {e}),
          C("transfer", e, {s}, NoType, Ke, 1), T("limit", s, Ke)>>,
        <<A("distrust", s, {e}), A("trust", s, {"all"}), C("transfer", s, {e}, NoType, Ke, 2),
          C("execute", s, {e}, NoType, Ke, 1)>>,
        AllTrust, Live4, Locked),
     Scene(FALSE, 1,
        <<A("trust", u, {"all"}), C("publish", u, {u}, "lock", <<"origin">>, 0),
          C("publish", u, {u}, "give", <<"empty">>, 0)>>,
        <<C("publish", u, {u}, "mintBurn", <<"origin">>, 0), C("sendCoin", u, {e}, NoType, <<"origin">>, 1),
          A("distrust", u, {e})>>,
        {}, Live4, {}),
     Scene(FALSE, 1,
        <<T("createAsset", s, Cs), C("custom", s, {s}, "mintBurn", Cs, 0), T("giveMinter", s, Cs),
          T("takeAdmin", s, Cs), T("mint", s, Cs)>>,
        <<C("custom", s, {s}, "native", Ns, 0), C("deploy", s, {s}, NoType, Ns, 0),
          C("deployRemote", s, {e}, NoType, Ns, 0)>>,
        AllTrust, Live4, {}),
     Scene(FALSE, 1,
        <<C("linkIts", e, {s}, "lock", Ke, 0), A("trust", k, {"all"}), A("distrust", k, {e, s})>>,
        <<C("linkIts", e, {e}, "lock", Ke, 0), A("update", e, {e, s}), A("register", e, {k})>>,
        {}, (e :> "old") @@ (s :> "live") @@ (u :> "live") @@ (k :> "none"), Locked)}

MCScenarios ==
    {LinkFromStellar(t) : t \in {"mintBurn", "mintBurnFrom"}}
    \cup {LinkFromEvm(t) : t \in {"mintBurn", "mintBurnFrom"}}
    \cup {FromSui(t) : t \in {"lock", "mintBurn"}}
    \cup {Opening, ToSui} \cup Chaos
=============================================================================
