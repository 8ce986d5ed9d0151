SPECIFICATION Spec
CONSTANTS
    j1 = j1  j2 = j2  w1 = w1  w2 = w2  t1 = t1  t2 = t2  t3 = t3  app = app
    None = None
    Jobs <- TwoJobs
    Workers <- MCWorkers
    Threads <- SharedThreads
    Proc <- SharedProc
    LockKey <- SameLock
    IdemKey <- NoIdem
    Priority <- FlatPriority
    MaxAttempts <- TwoAttempts
    MaxResumes = 1
    StallsPossible = FALSE
INVARIANTS TypeOK LockKeyExclusive HandlersExclusive DeadLetterJustified
PROPERTIES StepsMonotone
CHECK_DEADLOCK FALSE
