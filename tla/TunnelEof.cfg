SPECIFICATION Spec
CONSTANTS
    Streams <- OneStream
    MaxStreams = 1
    MaxQueued = 0
    Queue = 1
    Chunks <- Request
    Closers <- FirstCaller
    Enders <- OriginOnly
PROPERTY EofKeepsData
CHECK_DEADLOCK FALSE
