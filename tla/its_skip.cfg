\* A fresh chain and --skipExisting.
CONSTANTS
    None = None
    Releases = {"v1", "v2"}
    SaltOf <- OwnSalt
    ProxySalt = "v0"
    DeployMethod = "create2"
    ProxyMethod = "create3"
    Hyperliquid = FALSE
    Options <- SkipOptions
    MaxRuns = 1
SPECIFICATION Spec
CHECK_DEADLOCK FALSE
INVARIANTS SkippedIsDeployed
