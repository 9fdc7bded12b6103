SPECIFICATION Spec
CONSTANTS
    Events = {e1, e2}
    None = None
    ChunkSamples = 2
    ChunksPerFrame = 2
    JitterChunks = 3
    MaxFailures = 2
    Reordered = TRUE
    MaxUtterances = 3
    MaxBuffered = 2
    MaxSaid = 3
PROPERTY
    LateChunkDrains
