\* Two releases on a Hyperliquid chain with the default deployment methods.
CONSTANTS
    None = None
    Releases = {"v1", "v2"}
    SaltOf <- OwnSalt
    ProxySalt = "v0"
    DeployMethod = "create2"
    ProxyMethod = "create3"
    Hyperliquid = TRUE
    Options <- ReleaseOptions
    MaxRuns = 4
SPECIFICATION Spec
CHECK_DEADLOCK FALSE
INVARIANTS TypeOK LiveIsWired RecordedIsWired UpgradeInStep BlocksRestored
