SPECIFICATION FairSpec
CONSTANTS
    d1 = d1  d2 = d2  None = None  Base = Base
    Deployments <- OneDeployment
    Rolling <- AllRolling
    Webhook <- AllPushes
    MaxResumes = 3
    MaxCrashes = 3
    MaxAborts = 0
    QueueLimit = 1
    SwitchFaults = FALSE
    StoreFaults = FALSE
INVARIANTS ReplayNeedsErasure
PROPERTIES SucceededRunsOwn EventuallyTerminal
CHECK_DEADLOCK FALSE
