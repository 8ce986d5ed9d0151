SPECIFICATION FairSpec
CONSTANTS
    d1 = d1  d2 = d2  None = None  Base = Base
    Deployments <- OneDeployment
    Rolling <- AllRolling
    Webhook <- AllPushes
    MaxResumes = 3
    MaxCrashes = 4
    MaxAborts = 0
    QueueLimit = 1
    SwitchFaults = FALSE
    StoreFaults = FALSE
PROPERTIES EventuallyTerminal
CHECK_DEADLOCK FALSE
