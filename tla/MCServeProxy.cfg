SPECIFICATION Spec
CONSTANTS
    r1 = r1
    r2 = r2
    r3 = r3
    Requests <- MCRequests
    Limits <- MCLimits
INVARIANTS
    ProxyTypeOK
    SingleFlight
    SlotComesBack
    MetricsBalance
    BusyIsHonest
PROPERTIES
    ReceiptBeforeRelease
    JsonSlotReturns
    DisconnectFreesSlot
CHECK_DEADLOCK FALSE
