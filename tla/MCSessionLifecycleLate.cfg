SPECIFICATION Spec
CONSTANTS
    m1 = m1
    m2 = m2
    m3 = m3
    MintOrder <- MCMintOrder
    MaxSessions = 1
    Failures = {}
    MaxRows = 2
INVARIANT
    SummaryLast
CHECK_DEADLOCK FALSE
