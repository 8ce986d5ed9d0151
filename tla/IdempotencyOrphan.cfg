SPECIFICATION Spec
CONSTANTS
    r1 = r1  r2 = r2  r3 = r3  r4 = r4  r5 = r5  a = a  b = b  k1 = k1
    deploy = deploy  other = other  h1 = h1  h2 = h2  None = None
    Requests <- OneRequest
    Apps <- TwoApps
    Key <- Keys
    Endpoint <- Endpoints
    Hash <- Hashes
    Targets <- AllTargets
    Coalesced <- Webhooks
    MaxPurges = 1
INVARIANTS AcceptedHasJob
CHECK_DEADLOCK FALSE
