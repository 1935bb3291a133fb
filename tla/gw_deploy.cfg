\* The deployment and upgrade of both EVM gateways.
CONSTANTS
    salt1 = salt1
    salt2 = salt2
    keyID = keyID
    Scenarios <- EveryScene
    NoSalt = NoSalt
    Salts <- TwoSalts
    MaxSets = 3
    Debug = keyID
SPECIFICATION FairSpec
INVARIANTS TypeOK StartsWithSigning AuthIsOwned
PROPERTIES DeploymentLands
CHECK_DEADLOCK FALSE
