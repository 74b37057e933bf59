--------------------------- MODULE PreflightVerdict ---------------------------
(***************************************************************************)
(* From the texts that preflight leaves on a workload's nodes to the       *)
(* verdict on those nodes: the agents compact and submit the texts         *)
(* (cmd/agent/preflight_rule.go), the watcher validates what they submit   *)
(* (report_transport.go), the aggregator reads it and has a complete set   *)
(* judged (slow_node_aggregator.go, slow_node_detection.go).               *)
(*                                                                         *)
(* This is about what is concluded from data.  In which order reports      *)
(* come, and that they are delayed, repeated and given up, is in           *)
(* ReportCollection and SlowNodeAggregator.                                *)
(***************************************************************************)
EXTENDS PreflightPayload, FiniteSets

CONSTANT Submissions    \* sets of records [pod, text], of which one is under way

ASSUME SubmissionsAssumption ==
    \A w \in Submissions : IsFiniteSet(w) /\ w \subseteq [pod : Pod, text : Text]

VARIABLES
    submissions,
    stage,      \* "written", "collected", "read" or "judged"
    collected,  \* the PreflightReports in the cluster
    taken,      \* what the aggregator has read of them
    verdict     \* the slow nodes

verdictVars == <<submissions, stage, collected, taken, verdict>>

Detection == INSTANCE SlowNodeDetection WITH NoIP <- Absent

\* What the aggregator keeps of a report: its key, its layout, its results.
Taken(workload, text) == [workload |-> workload, size |-> text.size, report |-> Extract(text)]

\* A collection is complete: it has a report of each of the nodes that its reports,
\* all of the same workload and layout, are expected from.
Complete ==
    /\ taken # {}
    /\ \A q \in taken : q.size = Cardinality(taken)
    /\ \A p, q \in taken : p.workload = q.workload /\ (p.report.node = q.report.node => p = q)

Judged == {q.report : q \in taken}
Expected == BatchCount(Cardinality(taken))

------------------------------------------------------------------------------
VerdictInit ==
    /\ submissions \in Submissions
    /\ stage = "written"
    /\ collected = {} /\ taken = {} /\ verdict = {}

AgentsCollect ==
    /\ stage = "written" /\ stage' = "collected"
    /\ collected' = {Collect(s.pod, s.text) : s \in {c \in submissions : Collectable(c.pod, c.text)}}
    /\ UNCHANGED <<submissions, taken, verdict>>

\* The watcher drops what is not valid, the aggregator what it cannot read.
AggregatorReads ==
    /\ stage = "collected" /\ stage' = "read"
    /\ taken' = {Taken(r.workload, r.report) : r \in {c \in collected : Valid(c) /\ Extractable(c.report)}}
    /\ UNCHANGED <<submissions, collected, verdict>>

Judge ==
    /\ stage = "read" /\ stage' = "judged"
    /\ Complete
    /\ verdict' = Detection!DetectSlowNodes(Judged, Expected)
    /\ UNCHANGED <<submissions, collected, taken>>

VerdictNext == AgentsCollect \/ AggregatorReads \/ Judge

VerdictSpec == VerdictInit /\ [][VerdictNext]_verdictVars

------------------------------------------------------------------------------
(* Correctness. *)

\* The texts that the aggregator would take, were it given the texts themselves.
Takeable == {s \in submissions : Enveloped(s.pod, s.text) /\ Extractable(s.text)}

\* Of these the agent refuses what it cannot compact: it reads the checks of pairs
\* of nodes that failed fast, which the aggregator does not.
Refused ==
    {s \in Takeable : FailFast(s.text) /\ (s.text.threshold = "number" \/ s.text.junk)}

AsWritten == {Taken(s.pod.workload, s.text) : s \in Takeable \ Refused}

\* Compacting, wrapping and unwrapping the reports loses nothing but the reports of
\* nodes that failed fast and have an odd threshold or batch, and it changes nothing
\* of what the aggregator makes of the others (compactReportPayloadToJSON 88-133,
\* compactBusBWThreshold 136-153, extractNodeReport 15-47).
CompactionKeepsVerdict == stage \in {"read", "judged"} => taken = AsWritten

\* The watcher drops no report that an agent submitted: the checks of the two
\* sides agree (BuildPreflightReport 50-97, validateReport 233-270).
WatcherTakesWhatAgentsSend == \A r \in collected : Valid(r)

\* Every report that is taken is one the detection can do with.
AggregatedReportsFit ==
    \A r \in collected : Extractable(r.report) => FitForDetection(r.report)

\* Without fail-fast reports the verdict on the texts is exactly the nodes whose IP
\* failed, by either end's account, in every expected batch (detectSlowNodes 35-49).
ExactWithoutFailFast ==
    stage = "judged" =>
        LET written == {q.report : q \in AsWritten}
        IN Detection!FailFast(written) = {} => verdict = Detection!Documented(written, Expected)

\* With or without fail-fast reports nobody who ought to be named is left out of the
\* verdict: neither a node whose fail-fast report was taken nor one that failed in
\* every expected batch.
NobodyMissed ==
    stage = "judged" => Detection!Documented({q.report : q \in AsWritten}, Expected) \subseteq verdict

\* The comment on detectSlowNodes: fail-fast nodes do not distort the
\* intersection of the other nodes' batches.
FailFastDoesNotDistort ==
    stage = "judged" => verdict = Detection!Documented(Judged, Expected)
==============================================================================
