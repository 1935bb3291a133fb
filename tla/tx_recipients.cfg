\* One send-tokens run with two recipients.
CONSTANTS
    s1 = s1
    s2 = s2
    b1 = b1
    b2 = b2
    p1 = p1
    p2 = p2
    None = None
    Signings <- OneRun
    Kinds = {"multisig", "send-tokens"}
    KindOf <- SendKind
    Payloads <- TwoPayloads
    PaysOf <- SendPays
    Broadcasters <- TwoBroadcasters
    MaxNonce = 2
    Sorted = TRUE
    Serial = TRUE
SPECIFICATION Spec
CHECK_DEADLOCK FALSE
INVARIANTS EveryRecipientSigned
