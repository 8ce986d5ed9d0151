SPECIFICATION Spec
CONSTANTS
    Streams <- TwoStreams
    MaxStreams = 1
    MaxQueued = 1
    Queue = 1
    Chunks <- NoData
    Closers <- FirstCaller
    Enders <- OriginOnly
INVARIANT ReplacementAdmitted
CHECK_DEADLOCK FALSE
