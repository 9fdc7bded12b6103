SPECIFICATION Spec
CONSTANTS
    m1 = m1
    m2 = m2
    m3 = m3
    MintOrder <- MCMintOrder
    MaxSessions = 1
    Failures = {}
    MaxRows = 1
INVARIANT
    ShutdownSummaries
CHECK_DEADLOCK FALSE
