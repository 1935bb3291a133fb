\* Two runs, one after the other, over two chains; nonce-dependent addresses.
CONSTANTS
    r1 = r1
    r2 = r2
    c1 = c1
    c2 = c2
    Runs <- TwoRuns
    Chains <- TwoChains
    None = None
    Options <- EachOption
    Deterministic = FALSE
    Overlap = FALSE
SPECIFICATION FairSpec
INVARIANTS TypeOK RecordedIsDeployed SuccessIsRecorded
PROPERTIES ImplementsRegistry RunEnds
