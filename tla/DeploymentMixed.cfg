SPECIFICATION Spec
CONSTANTS
    d1 = d1  d2 = d2  None = None  Base = Base
    Deployments <- TwoDeployments
    Rolling <- D1StopThenStart
    Webhook <- AllPushes
    MaxResumes = 1
    MaxCrashes = 0
    MaxAborts = 1
    QueueLimit = 1
    SwitchFaults = TRUE
    StoreFaults = TRUE
INVARIANTS BarrierHolds
PROPERTIES SucceededRunsOwn
CHECK_DEADLOCK FALSE
