\* One change of leader: the deposed leader may be in the middle of its call.
CONSTANTS
    Nodes = {n1}
    Controllers = {c1, c2}
    Nobody = Nobody
    Steps = 2
    MaxFindings = 2
    MaxWrites = 2
    MaxFaults = 1
    MaxTakeovers = 1
SPECIFICATION FairSpec
INVARIANTS TypeOK CordonedOncePerFinding
PROPERTIES MarkingSpec FindingAnswered
CHECK_DEADLOCK FALSE
