CONSTANTS
    Streams = 2
    PerStream = 3
    MaxChunk = 2
    MaxBatch = 2
    MaxCalls = 3
SPECIFICATION Spec
INVARIANT MetadataFits
