\* Two pods of two runs of one workload, one after the other or overlapping.
CONSTANTS
    p1 = p1
    Pods = {p1, p2}
    NoPod = NoPod
    r1 = r1
    r2 = r2
    Runs = {r1, r2}
    t1 = t1
    Texts = {t1}
    NoText = NoText
    Keys <- MCKeys
    NoKey = NoKey
    Invalid <- MCInvalid
    MaxCrashes = 1
    MaxDeletions = 1
SPECIFICATION CollectionSpec
INVARIANT TextOfItsRun
CHECK_DEADLOCK FALSE
