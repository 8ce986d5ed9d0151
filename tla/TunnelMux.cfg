SPECIFICATION FairSpec
CONSTANTS
    Streams <- TwoStreams
    MaxStreams = 1
    MaxQueued = 1
    Queue = 1
    Chunks <- Answer
    Closers <- FirstCaller
    Enders <- OriginOnly
INVARIANTS SlotsAccounted NoHole
PROPERTIES DecoderFlows OriginTornDown
CHECK_DEADLOCK FALSE
