------------------------ MODULE MCSlowNodeAggregator ------------------------
(* Reports of two workloads on two nodes, for TLC. *)
EXTENDS SlowNodeAggregator

CONSTANTS trainA, trainB, n1, n2, ip1, ip2

Pairwise(failed) == {[batch |-> 0, pair |-> {ip1, ip2}, failed |-> failed]}

Report(key, node, ip, size, observedAt, failed) ==
    [key |-> key, node |-> node, ip |-> ip, failFast |-> FALSE,
     results |-> Pairwise(failed), size |-> size, observedAt |-> observedAt]

\* trainA ran, lost n1 and ran again; one of its reports claims four nodes and
\* one claims three, which is refused.  trainB ran once.
TwoWorkloads ==
    { Report(trainA, n1, ip1, 2, 0, TRUE), Report(trainA, n2, ip2, 2, 1, TRUE),
      Report(trainA, n1, ip1, 2, 3, FALSE), Report(trainA, n2, ip2, 2, 3, FALSE),
      Report(trainA, n2, ip2, 4, 1, FALSE), Report(trainA, n2, ip2, 3, 0, FALSE),
      Report(trainB, n1, ip1, 2, 0, FALSE), Report(trainB, n2, ip2, 2, 1, TRUE) }
==============================================================================
