SPECIFICATION Safety
CONSTANTS
    r1 = r1
    r2 = r2
    r3 = r3
    Requests <- MCRequests
    Limits <- MCLimits
INVARIANTS
    StreamReleasesSlot
CHECK_DEADLOCK FALSE
