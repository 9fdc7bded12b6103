SPECIFICATION GateSpec
CONSTANTS
    r1 = r1
    r2 = r2
    r3 = r3
    r4 = r4
    Requests <- MCRequests
    Limits <- MCLimits
INVARIANTS
    GateTypeOK
    SlotConservation
    PermitNotStranded
PROPERTIES
    Fifo
    ImplementsLane
    WaitEnds
