SPECIFICATION Spec
CONSTANTS
    MaxMints = 2
    c1 = c1
    c2 = c2
    Sockets = {c1, c2}
    MaxUtterances = 2
    MaxMessages = 3
    Size = 4
    ChunksPerFrame = 2
    MaxTicks = 12
    RaiseLimit = 2
INVARIANTS
    PartsTypeOK
    RendererReady
    OutboxKept
    EndAfterStart
    StallRows
PROPERTIES
    WatchedSeesAll
    PartsProgress
CHECK_DEADLOCK FALSE
