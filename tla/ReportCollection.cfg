\* Two pods of one run, while agents end and reports are garbage collected; or two pods of
\* two runs, where the report of the second is refused.
CONSTANTS
    p1 = p1
    Pods = {p1, p2}
    NoPod = NoPod
    r1 = r1
    r2 = r2
    Runs = {r1, r2}
    t1 = t1
    Texts = {t1}
    NoText = NoText
    Keys <- MCKeys
    NoKey = NoKey
    Invalid <- MCInvalid
    MaxCrashes = 1
    MaxDeletions = 1
SPECIFICATION MCSpec
INVARIANTS CollectionTypeOK AcceptedNotForgotten ObservedOnce
PROPERTIES ReportReachesCluster AgentStops
CHECK_DEADLOCK FALSE
