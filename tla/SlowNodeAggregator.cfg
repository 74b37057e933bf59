\* Two workloads, eight reports, one change of leader.
CONSTANTS
    trainA = trainA  trainB = trainB
    n1 = n1  n2 = n2  ip1 = ip1  ip2 = ip2
    NoIP = NoIP
    Reports <- TwoWorkloads
    Timeout = 2
    MaxClock = 6
    MaxArrival = 4
    MaxTakeovers = 1
SPECIFICATION FairSpec
INVARIANTS TypeOK VerdictsFromOneRun DeliveredRunsJudged
PROPERTY CollectionsEnd
CHECK_DEADLOCK FALSE
