\* One leader, no failed request.  One unit is ten seconds: the code's window of
\* thirty, the cluster's default grace period of thirty.  The window is over while
\* a deleted pod is still there.
CONSTANTS
    j1 = j1  p1 = p1  p2 = p2
    Jobs = {j1}
    Pods = {p1, p2}
    JobOf <- OneJob
    Watched = {p1, p2}
    PodOptIn = {p1, p2}
    JobOptIn = {}
    NeverRestarted = {}
    TTL = 3
    EventMaxAge = 18
    Grace = 3
    MaxDelay = 1
    MaxSkew = 0
    MaxClock = 4
    MaxFailures = 1
    MaxFaults = 0
    MaxTakeovers = 0
SPECIFICATION MCSpec
PROPERTY RestartOnlyForFailure
CHECK_DEADLOCK FALSE
