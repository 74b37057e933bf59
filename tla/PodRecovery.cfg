\* One worker under changes of leader, or two workers of one job; the retry window
\* is just longer than the grace period and twice the delay.  A restart can be answered
\* a second time by an Event that outlives its window, and Events can get too old.
CONSTANTS
    j1 = j1  p1 = p1  p2 = p2
    Jobs = {j1}
    Pods = {p1, p2}
    JobOf <- OneJob
    Watched = {p1, p2}
    PodOptIn = {p1, p2}
    JobOptIn = {}
    NeverRestarted = {}
    TTL = 4
    EventMaxAge = 4
    Grace = 1
    MaxDelay = 1
    MaxSkew = 0
    MaxClock = 5
    MaxFailures = 2
    MaxFaults = 1
    MaxTakeovers = 1
SPECIFICATION MCSpec
INVARIANT TypeOK
PROPERTIES HealthyJobLeftAlone BrokenJobAnswered
CHECK_DEADLOCK FALSE
