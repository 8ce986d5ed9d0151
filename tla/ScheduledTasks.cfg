SPECIFICATION FairSpec
CONSTANTS
    a = a  b = b  None = None
    Replicas <- OneReplica
    MaxTrouble = 1
    Periods <- TwoPeriods
    Execs <- TwoExecs
    Horizon = 3
    OverlapSkip = TRUE
    MissedSkip = TRUE
    Workflow = FALSE
    MaxAttempts = 2
    MaxResumes = 0
    MaxEdits = 1
INVARIANTS FiredOnce
PROPERTIES DueIsHandled ExecutionsClose
CHECK_DEADLOCK FALSE
