SPECIFICATION Spec
CONSTANTS
    s1 = s1
    s2 = s2
    Streams = {s1, s2}
    QueueSize = 1
    MaxChunks = 3
    Longest <- LongAndShort
INVARIANTS
    TtsTypeOK
    ReceiptsHonest
    ThreadBounded
PROPERTIES
    ImplementsStream
    SynthesisEnds
CHECK_DEADLOCK FALSE
