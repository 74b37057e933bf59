\* One change of leader, no failed request, and pods that are gone at once: a
\* recreated pod answers for an Event of its predecessor.
CONSTANTS
    j1 = j1  p1 = p1  p2 = p2
    Jobs = {j1}
    Pods = {p1, p2}
    JobOf <- OneJob
    Watched = {p1, p2}
    PodOptIn = {p1, p2}
    JobOptIn = {}
    NeverRestarted = {}
    TTL = 3
    EventMaxAge = 18
    Grace = 0
    MaxDelay = 1
    MaxSkew = 0
    MaxClock = 5
    MaxFailures = 1
    MaxFaults = 0
    MaxTakeovers = 1
SPECIFICATION MCSpec
PROPERTY RestartOnlyForFailure
CHECK_DEADLOCK FALSE
