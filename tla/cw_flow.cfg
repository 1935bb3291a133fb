CONSTANTS
    Entries <- FlowEntries
    BinaryOf <- OneBinaryEach
    Wallet = "wallet"
    Governance = "governance"
    Runners = {"governance"}
    Admin = "wallet"
    CustomSalts = {"s"}
    StoredOpen = FALSE
    Jobs <- FlowJobs
    MaxCrashes = 1
SPECIFICATION Spec
CHECK_DEADLOCK FALSE
INVARIANTS TypeOK CycleCloses NeverTwice AddressesAreUnshared
PROPERTIES DeployedEventually CodeIdIsTheChains PredictionHolds
