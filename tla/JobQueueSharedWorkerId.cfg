SPECIFICATION Spec
CONSTANTS
    j1 = j1  j2 = j2  w1 = w1  w2 = w2  t1 = t1  t2 = t2  t3 = t3  app = app
    None = None
    Jobs <- OneJob
    Workers <- MCWorkers
    Threads <- SharedThreads
    Proc <- SharedProc
    LockKey <- SameLock
    IdemKey <- NoIdem
    Priority <- FlatPriority
    MaxAttempts <- J1Twice
    MaxResumes = 1
    StallsPossible = TRUE
INVARIANTS AttemptWithinCeiling
\* Also refuted on this instance, one at a time:
\* PROPERTIES AbandonsLostLease
\* PROPERTIES DrainRecordsOutcome
CHECK_DEADLOCK FALSE
