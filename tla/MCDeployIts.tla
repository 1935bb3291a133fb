------------------------------ MODULE MCDeployIts ------------------------------
(* Instances of DeployIts for TLC. *)
EXTENDS DeployIts

\* One salt per release.
OwnSalt == [r \in Releases |-> r]

Run(release) ==
    [release |-> release, upgrade |-> FALSE, skipExisting |-> FALSE, reuseProxy |-> FALSE]

\* The first release is deployed with its proxies, the second reuses them, with
\* and without --skipExisting, and then the proxies are upgraded.
ReleaseOptions ==
    {[Run("v1") EXCEPT !.skipExisting = x] : x \in BOOLEAN} \cup
    {[Run("v2") EXCEPT !.reuseProxy = TRUE, !.skipExisting = x] : x \in BOOLEAN} \cup
    {[Run("v2") EXCEPT !.upgrade = TRUE]}

SkipOptions == {[Run("v1") EXCEPT !.skipExisting = TRUE]}
===============================================================================
