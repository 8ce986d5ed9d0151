SPECIFICATION FairSpec
CONSTANTS
    cmd = cmd  pull = pull  logs = logs  None = None
    Calls <- OnlyLogs
    Streams <- OnlyLogs
    Follows <- OnlyLogs
    Chunks = 0
    Buffer = 1
    Window = 1
    DownWindow = 3
    Channels <- TwoChannels
PROPERTY LiveChannelIsRouted
CHECK_DEADLOCK FALSE
