SPECIFICATION FairSpec
CONSTANTS
    a = a  b = b  None = None
    Replicas <- OneReplica
    MaxTrouble = 0
    Periods <- NeverAndOne
    Execs <- TwoExecs
    Horizon = 2
    OverlapSkip = TRUE
    MissedSkip = TRUE
    Workflow = TRUE
    MaxAttempts = 1
    MaxResumes = 0
    MaxEdits = 1
INVARIANT OncePerOccurrence
\* Also refuted on this instance, alone:
\* PROPERTY DueIsHandled
CHECK_DEADLOCK FALSE
