\* Two commands sign; broadcasters follow one another, crash and fail.
CONSTANTS
    s1 = s1
    s2 = s2
    b1 = b1
    b2 = b2
    p1 = p1
    p2 = p2
    None = None
    Signings <- TwoRuns
    Kinds = {"multisig", "send-tokens"}
    KindOf <- SingleKind
    Payloads <- TwoPayloads
    PaysOf <- SinglePays
    Broadcasters <- TwoBroadcasters
    MaxNonce = 2
    Sorted = TRUE
    Serial = TRUE
SPECIFICATION FairSpec
CHECK_DEADLOCK FALSE
INVARIANTS TypeOK SuccessIsExecuted
PROPERTIES NeverDowngraded BroadcastEnds
