\* Two operators, two verifier sets, every kind of chain.
CONSTANTS
    alice = alice
    bob = bob
    Operators <- TwoOperators
    Scenarios <- EveryScenario
    NoSet = NoSet
    MaxSets = 2
    MaxNonce = 1
    MaxSessions = 2
    Retention = 1
    Parts = 1
SPECIFICATION FairSpec
INVARIANTS TypeOK CheckedNotRejected DoneHasEffect
PROPERTIES ImplementsHandover CommandEnds
CHECK_DEADLOCK FALSE
