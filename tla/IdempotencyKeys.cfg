SPECIFICATION Spec
CONSTANTS
    r1 = r1  r2 = r2  r3 = r3  r4 = r4  r5 = r5  a = a  b = b  k1 = k1
    deploy = deploy  other = other  h1 = h1  h2 = h2  None = None
    Requests <- FourRequests
    Apps <- OneApp
    Key <- Keys
    Endpoint <- Endpoints
    Hash <- Hashes
    Targets <- SingleTarget
    Coalesced <- Webhooks
    MaxPurges = 1
INVARIANTS ExecutedOncePerKey ReplayIsOriginal AcceptedHasOwnJob
CHECK_DEADLOCK FALSE
