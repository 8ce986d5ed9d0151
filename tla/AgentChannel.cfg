SPECIFICATION FairSpec
CONSTANTS
    cmd = cmd  pull = pull  logs = logs  None = None
    Calls <- CommandAndPull
    Streams <- OnlyPull
    Follows <- NoCalls
    Chunks = 2
    Buffer = 1
    Window = 2
    DownWindow = 3
    Channels <- OneChannel
INVARIANTS AnswersOwnCall CleanEndIsComplete
PROPERTIES CallsAreAnswered
CHECK_DEADLOCK FALSE
