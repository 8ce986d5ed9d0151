SPECIFICATION FairSpec
CONSTANTS
    j1 = j1  j2 = j2  w1 = w1  w2 = w2  t1 = t1  t2 = t2  t3 = t3  app = app
    None = None
    Jobs <- OneJob
    Workers <- MCWorkers
    Threads <- SingleThreads
    Proc <- SingleProc
    LockKey <- SameLock
    IdemKey <- NoIdem
    Priority <- FlatPriority
    MaxAttempts <- J1Twice
    MaxResumes = 2
    StallsPossible = TRUE
INVARIANTS QueueInv
PROPERTIES OnlyHolderCompletes ImplementsContract EventuallySettled
CHECK_DEADLOCK FALSE
