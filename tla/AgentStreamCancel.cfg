SPECIFICATION FairSpec
CONSTANTS
    cmd = cmd  pull = pull  logs = logs  None = None
    Calls <- OnlyLogs
    Streams <- OnlyLogs
    Follows <- OnlyLogs
    Chunks = 0
    Buffer = 1
    Window = 1
    DownWindow = 3
    Channels <- OneChannel
PROPERTY CancelReachesStream
\* Also refuted on this instance, one at a time:
\* PROPERTY ReaderGoneStopsStream
CHECK_DEADLOCK FALSE
