SPECIFICATION FairSpec
CONSTANTS
    d1 = d1  d2 = d2  None = None  Base = Base
    Deployments <- OneDeployment
    Rolling <- AllRolling
    Webhook <- AllPushes
    MaxResumes = 1
    MaxCrashes = 0
    MaxAborts = 1
    QueueLimit = 1
    SwitchFaults = FALSE
    StoreFaults = FALSE
PROPERTIES EventuallyHasJob
CHECK_DEADLOCK FALSE
