SPECIFICATION Spec
CONSTANTS
    a = a  b = b  None = None
    Replicas <- OneReplica
    MaxTrouble = 1
    Periods <- TwoPeriods
    Execs <- TwoExecs
    Horizon = 3
    OverlapSkip = TRUE
    MissedSkip = TRUE
    Workflow = TRUE
    MaxAttempts = 2
    MaxResumes = 1
    MaxEdits = 2
INVARIANT OncePerOccurrence
\* Also refuted on this instance, one at a time:
\* INVARIANT NeverReplayed
\* INVARIANT SkipReasonTrue
\* PROPERTY ReenabledIsSeeded
CHECK_DEADLOCK FALSE
