SPECIFICATION FairSpec
CONSTANTS
    Streams <- OneStream
    MaxStreams = 1
    MaxQueued = 0
    Queue = 1
    Chunks <- NoData
    Closers <- NobodyCloses
    Enders <- Sides
PROPERTY BridgeTornDown
CHECK_DEADLOCK FALSE
