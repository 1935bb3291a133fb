\* A command and its corrected version, signed by two people.
CONSTANTS
    c1 = c1
    c2 = c2
    p1 = p1
    p2 = p2
    p3 = p3
    k1 = k1
    k2 = k2
    k3 = k3
    Absent = Absent
    Commands <- CallCommands
    Names = {"call"}
    NameOf <- CallName
    Instructions <- AllPayloads
    InstructionsOf <- CallPays
    MaxTxs = 2
    Keys <- TwoKeys
    Required <- RequiredKeys
    MaxAdvances = 2
SPECIFICATION SolanaSpec
CHECK_DEADLOCK FALSE
INVARIANTS SolanaTypeOK CombinedReconstructs OnePerNonce
