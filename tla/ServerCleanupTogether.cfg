SPECIFICATION Spec
CONSTANTS
    s1 = s1  s2 = s2  d1 = d1  d2 = d2  j1 = j1  j2 = j2  j3 = j3
    None = None
    Servers <- TwoServers
    Builders <- BuildServers
    Deployments <- OneDeployment
    Target <- Targets
    Jobs <- ThreeJobs
    MaxAttempts = 2
    MaxResumes = 1
    MaxRequests = 1
    MaxCrashes = 1
INVARIANTS NeverTogether
CHECK_DEADLOCK FALSE
