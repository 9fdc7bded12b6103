SPECIFICATION Spec
CONSTANTS
    m1 = m1
    m2 = m2
    m3 = m3
    MintOrder <- MCMintOrder
    MaxSessions = 1
    Failures = {"start", "close"}
    MaxRows = 1
INVARIANTS
    LifecycleTypeOK
    ReceiptShape
PROPERTIES
    SlotsAreALane
    WatchedKept
    StopEnds
CHECK_DEADLOCK FALSE
