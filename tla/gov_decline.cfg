\* Signers who decline.
CONSTANTS
    ann = ann
    bob = bob
    cyd = cyd
    People <- Three
    Threshold = 2
    Commands <- EveryCommand
    Scenarios <- VoteScenes
    MaxCalls = 2
    MaxReleases = 2
SPECIFICATION Spec
INVARIANTS DeclinedCastsNoVote
CHECK_DEADLOCK FALSE
