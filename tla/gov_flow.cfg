\* Proposals, votes, transfers and their races.
CONSTANTS
    ann = ann
    bob = bob
    cyd = cyd
    People <- Three
    Threshold = 2
    Commands <- EveryCommand
    Scenarios <- EveryScene
    MaxCalls = 2
    MaxReleases = 2
SPECIFICATION FairSpec
INVARIANTS TypeOK RecordedWasTrue
PROPERTIES RefusedOnlyByOthers 
CHECK_DEADLOCK FALSE
