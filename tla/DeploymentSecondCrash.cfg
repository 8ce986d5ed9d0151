SPECIFICATION Spec
CONSTANTS
    d1 = d1  d2 = d2  None = None  Base = Base
    Deployments <- OneDeployment
    Rolling <- AllRolling
    Webhook <- AllPushes
    MaxResumes = 3
    MaxCrashes = 2
    MaxAborts = 0
    QueueLimit = 1
    SwitchFaults = TRUE
    StoreFaults = FALSE
INVARIANTS NoBlindReplay
\* Also refuted on this instance:
\* PROPERTIES SucceededRunsOwn
CHECK_DEADLOCK FALSE
