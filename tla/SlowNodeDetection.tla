------------------------- MODULE SlowNodeDetection -------------------------
(***************************************************************************)
(* pkg/preflight/slow_node_detection.go: the verdict drawn from the        *)
(* complete set of preflight reports of one workload.                      *)
(*                                                                         *)
(* A report is a record with fields node, ip, failFast and results; its    *)
(* results are records with fields batch, pair (the set of the two IPs,    *)
(* which is what sorting the pair makes of it; a skipped batch has its     *)
(* reporter's IP at both ends) and failed.  There is one report per node,  *)
(* and at most one result per batch in a report.  A report without node_ip *)
(* has ip = NoIP; no two nodes report the same IP.                         *)
(***************************************************************************)
EXTENDS Integers, FiniteSets

CONSTANT NoIP

FailFast(reports) == {r \in reports : r.failFast}

\* Fail-fast reports take no part in the pairwise evidence.
Results(reports) == UNION {r.results : r \in reports \ FailFast(reports)}

FailuresBothEnds(reports) ==                                         \* mutant
    {x \in Results(reports) : x.failed
        /\ \A y \in Results(reports) : y.batch = x.batch /\ y.pair = x.pair => y.failed}

\* One end's failure outweighs the other end's success.
Failures(reports) == {x \in Results(reports) : x.failed}

FailedBatches(reports) == {x.batch : x \in Failures(reports)}

FailedIPs(reports, batch) ==
    UNION {x.pair : x \in {y \in Failures(reports) : y.batch = batch}}

\* IPs that failed in every batch that has a failed pair.
CommonFailedIPs(reports) ==
    {ip \in UNION {x.pair : x \in Failures(reports)} :
        \A batch \in FailedBatches(reports) : ip \in FailedIPs(reports, batch)}

ReturnsNoneDespiteFailFast(expected, failedBatchCount, hasFailFast) == \* mutant
    expected > 0 /\ failedBatchCount < expected

\* shouldReturnNoSlowNodes; its first case (no failed batch among enough observed
\* ones) is contained in the second.
ReturnsNoSlowNodes(expected, failedBatchCount, hasFailFast) ==
    /\ ~hasFailFast
    /\ expected > 0
    /\ failedBatchCount < expected

\* An IP no report claims is named as it is.
NodeName(reports, ip) ==
    IF ip # NoIP /\ \E r \in reports : r.ip = ip
    THEN (CHOOSE r \in reports : r.ip = ip).node
    ELSE ip

DetectSlowNodes(reports, expected) ==
    IF ReturnsNoSlowNodes(expected, Cardinality(FailedBatches(reports)),
                          FailFast(reports) # {})
    THEN {}
    ELSE {r.node : r \in FailFast(reports)}
         \cup {NodeName(reports, ip) : ip \in CommonFailedIPs(reports)}

------------------------------------------------------------------------------
(* What the comment on detectSlowNodes says it computes. *)

\* ip is an end of a failed pair in every one of the expected batches.
FailedThroughout(reports, expected, ip) ==
    \A batch \in 0 .. expected - 1 :
        \E r \in reports : /\ ~r.failFast
                           /\ \E x \in r.results : x.batch = batch /\ x.failed /\ ip \in x.pair

PairwiseSlow(reports, expected) ==
    {NodeName(reports, ip) :
        ip \in {i \in UNION {x.pair : x \in Results(reports)} :
                    FailedThroughout(reports, expected, i)}}

\* "Final result = union(fail-fast abnormal nodes, pairwise slow nodes)."
Documented(reports, expected) ==
    {r.node : r \in FailFast(reports)} \cup PairwiseSlow(reports, expected)
==============================================================================
