SPECIFICATION Spec
CONSTANTS
    d1 = d1  d2 = d2  None = None  Base = Base
    Deployments <- OneDeployment
    Rolling <- AllRolling
    Webhook <- AllPushes
    MaxResumes = 1
    MaxCrashes = 1
    MaxAborts = 0
    QueueLimit = 1
    SwitchFaults = FALSE
    StoreFaults = FALSE
INVARIANTS LastHealthyKept
CHECK_DEADLOCK FALSE
