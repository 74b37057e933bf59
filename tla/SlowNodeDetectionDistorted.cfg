\* All report sets of a four-node workload that is expected to run three batches; no
\* daily check. A judgement is final.
CONSTANTS
    n1 = n1  n2 = n2  n3 = n3  n4 = n4
    w1 = w1  w2 = w2
    ip1 = ip1  ip2 = ip2  ip3 = ip3  ip4 = ip4
    d1 = d1  d2 = d2
    Nodes = {n1, n2, n3, n4}
    Workloads = {w1, w2}
    IPs = {ip1, ip2, ip3, ip4}
    Absent = Absent
    Invalid = Invalid
    MaxBatchCount = 3
    MaxWorkloadSize = 6
    MaxRank = 2
    Submissions <- FourNodes
    NoDevice = NoDevice
    NoOutput = NoOutput
    Unreadable = Unreadable
    NaN = NaN
    Active = Active
    Day = 4
    MaxTime = 7
    MaxDuration = 5
    Outputs = {}
    Configurations = {}
SPECIFICATION Spec
INVARIANT FailFastDoesNotDistort
CHECK_DEADLOCK FALSE
