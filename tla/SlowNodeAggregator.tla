------------------------- MODULE SlowNodeAggregator -------------------------
(***************************************************************************)
(* pkg/preflight/slow_node_aggregator.go: the reports of each workload are *)
(* collected until one per node is there, and then judged; a collection    *)
(* that stays incomplete is given up.  AddReportForWorkload and the sweep  *)
(* run under one mutex, so each is one action.                             *)
(*                                                                         *)
(* Reports come from the PreflightReport objects in the cluster, each      *)
(* handed over once per controller process, in any order; a controller     *)
(* that takes over starts with an empty aggregator and is handed every     *)
(* object again.                                                           *)
(***************************************************************************)
EXTENDS SlowNodeDetection

CONSTANTS
    Reports,      \* the objects: records [key, node, ip, failFast, results, size, observedAt]
    Timeout,      \* the report collection timeout
    MaxClock,     \* bound: time stops here
    MaxArrival,   \* bound: no report arrives later
    MaxTakeovers  \* bound: changes of leader

MaxBatchCount == 5
MaxWorkloadSize == 10000

ASSUME AggregatorAssumption ==
    /\ IsFiniteSet(Reports)
    /\ \A r \in Reports : r.size \in Int /\ r.observedAt \in Nat
    /\ Timeout \in Nat \ {0}
    /\ MaxClock \in Nat /\ MaxArrival \in Nat /\ MaxTakeovers \in Nat

VARIABLES
    clock,
    workloads,    \* the incomplete collections: Keys -> collection or NoWorkload
    delivered,    \* the objects handed over to this controller process
    takeovers,
    verdicts,     \* history: [key, reports, slow] of every verdict
    givenUp       \* history: keys this process gave up a collection of

vars == <<clock, workloads, delivered, takeovers, verdicts, givenUp>>

Keys == {r.key : r \in Reports}

\* A collection without reports is one the table does not hold.
NoWorkload == [reports |-> {}, size |-> 0, lastReportAt |-> 0,
               firstObservedAt |-> 0, lastObservedAt |-> 0]

AnyPositiveSize(size) == size > 0                                     \* mutant
\* validateWorkloadSize.
ValidSize(size) == size > 0 /\ size <= MaxWorkloadSize /\ size % 2 = 0

BatchCount(size) == IF size - 1 < MaxBatchCount THEN size - 1 ELSE MaxBatchCount

FullWithOneMore(w) == Cardinality(w.reports) > w.size                 \* mutant
Full(w) == Cardinality(w.reports) >= w.size

Incomplete(w) == w.reports # {} /\ ~Full(w)

TimedOutWhenComplete(w) ==                                           \* mutant
    ~Incomplete(w) /\ w.reports # {} /\ w.lastReportAt + Timeout <= clock
TimedOut(w) == Incomplete(w) /\ w.lastReportAt + Timeout <= clock

\* ensureWorkload, then addNodeReport.
Fresh(r) == [reports |-> {r}, size |-> r.size, lastReportAt |-> clock,
             firstObservedAt |-> r.observedAt, lastObservedAt |-> r.observedAt]

SamePlan(w, r) == w.reports # {} /\ w.size = r.size

\* addNodeReport: a node's newest arrival replaces its earlier report.
AppendReport(w, r) == w.reports \cup {r}                             \* mutant
AddReport(w, r) == {q \in w.reports : q.node # r.node} \cup {r}

\* The collection with r in it and its observation window widened to r.
Merged(w, r) ==
    [w EXCEPT !.lastReportAt = clock,
              !.firstObservedAt = IF r.observedAt < @ THEN r.observedAt ELSE @,
              !.lastObservedAt = IF r.observedAt > @ THEN r.observedAt ELSE @,
              !.reports = AddReport(w, r)]

Spread(w) == w.lastObservedAt - w.firstObservedAt

------------------------------------------------------------------------------
Init ==
    /\ clock = 0
    /\ workloads = [k \in Keys |-> NoWorkload]
    /\ delivered = {}
    /\ takeovers = 0
    /\ verdicts = {}
    /\ givenUp = {}

Tick ==
    /\ clock < MaxClock
    /\ clock' = clock + 1
    /\ UNCHANGED <<workloads, delivered, takeovers, verdicts, givenUp>>

\* The object is in the cluster and was not handed over yet.
Arrives(r) ==
    /\ r \notin delivered
    /\ r.observedAt <= clock
    /\ clock <= MaxArrival
    /\ delivered' = delivered \cup {r}
    /\ UNCHANGED <<clock, takeovers>>

\* extractNodeReport fails: an error, nothing changes.
Malformed(r) ==
    /\ Arrives(r)
    /\ ~ValidSize(r.size)
    /\ UNCHANGED <<workloads, verdicts, givenUp>>

\* The collection r belongs to had timed out and no sweep had removed it: it is
\* removed now, and r with it.
LateForTimedOut(r) ==
    /\ Arrives(r)
    /\ ValidSize(r.size)
    /\ TimedOut(workloads[r.key])
    /\ workloads' = [workloads EXCEPT ![r.key] = NoWorkload]
    /\ givenUp' = givenUp \cup {r.key}
    /\ UNCHANGED verdicts

\* r opens a collection, or resets one whose layout differs.
Opens(r) ==
    /\ Arrives(r)
    /\ ValidSize(r.size)
    /\ ~TimedOut(workloads[r.key])
    /\ ~SamePlan(workloads[r.key], r)
    /\ workloads' = [workloads EXCEPT ![r.key] = Fresh(r)]
    /\ UNCHANGED <<verdicts, givenUp>>

\* r joins a collection of its layout.
Joins(r) ==
    /\ Arrives(r)
    /\ ValidSize(r.size)
    /\ ~TimedOut(workloads[r.key])
    /\ SamePlan(workloads[r.key], r)

\* r was observed too far from the others: they are given up, r starts anew.
OutsideWindow(r) ==
    /\ Joins(r)
    /\ Spread(Merged(workloads[r.key], r)) > Timeout
    /\ workloads' = [workloads EXCEPT ![r.key] = Fresh(r)]
    /\ givenUp' = givenUp \cup {r.key}
    /\ UNCHANGED verdicts

Waits(r) ==
    LET w == Merged(workloads[r.key], r) IN
    /\ Joins(r)
    /\ Spread(w) <= Timeout
    /\ ~Full(w)
    /\ workloads' = [workloads EXCEPT ![r.key] = w]
    /\ UNCHANGED <<verdicts, givenUp>>

Completes(r) ==
    LET w == Merged(workloads[r.key], r) IN
    /\ Joins(r)
    /\ Spread(w) <= Timeout
    /\ Full(w)
    /\ workloads' = [workloads EXCEPT ![r.key] = NoWorkload]
    /\ verdicts' = verdicts \cup {[key |-> r.key, reports |-> w.reports,
                                   slow |-> DetectSlowNodes(w.reports, BatchCount(w.size))]}
    /\ UNCHANGED givenUp

\* ExpireTimedOutWorkloads, on the controller's ticker.
Sweep ==
    /\ \E k \in Keys : TimedOut(workloads[k])
    /\ workloads' = [k \in Keys |-> IF TimedOut(workloads[k]) THEN NoWorkload ELSE workloads[k]]
    /\ givenUp' = givenUp \cup {k \in Keys : TimedOut(workloads[k])}
    /\ UNCHANGED <<clock, delivered, takeovers, verdicts>>

\* Another process becomes the leader.
TakeOver ==
    /\ takeovers < MaxTakeovers
    /\ takeovers' = takeovers + 1
    /\ workloads' = [k \in Keys |-> NoWorkload]
    /\ delivered' = {}
    /\ givenUp' = {}
    /\ UNCHANGED <<clock, verdicts>>

AddReportForWorkload(r) ==
    \/ Malformed(r) \/ LateForTimedOut(r) \/ Opens(r)
    \/ OutsideWindow(r) \/ Waits(r) \/ Completes(r)

Next ==
    \/ Tick \/ Sweep \/ TakeOver
    \/ \E r \in Reports : AddReportForWorkload(r)

Spec == Init /\ [][Next]_vars

\* The ticker keeps firing, and time passes.
FairSpec == Spec /\ WF_vars(Tick) /\ WF_vars(Sweep)

------------------------------------------------------------------------------
(* Correctness. *)

\* The type invariant.
TypeOK ==
    /\ clock \in Nat
    /\ workloads \in [Keys -> [reports : SUBSET Reports, size : Int, lastReportAt : Nat,
                               firstObservedAt : Nat, lastObservedAt : Nat]]
    /\ \A k \in Keys : \A r \in workloads[k].reports : r.key = k /\ r.size \in 2 .. MaxWorkloadSize /\ r.size % 2 = 0
    /\ delivered \subseteq Reports
    /\ takeovers \in 0 .. MaxTakeovers
    /\ givenUp \subseteq Keys
    /\ \A v \in verdicts : v.key \in Keys /\ v.reports \subseteq Reports

\* Reports that can be judged together: of one workload and one layout, each
\* node's only one, and all observed within one collection timeout.
Consistent(S) ==
    \A q, r \in S : /\ q.key = r.key /\ q.size = r.size
                    /\ (q.node = r.node => q = r)
                    /\ r.observedAt - q.observedAt <= Timeout

\* A verdict is drawn from exactly one report per expected node, all of one run:
\* resets, replacements and windows never mix what does not belong together
\* (AddReportForWorkload 158-179).
VerdictsFromOneRun ==
    \A v \in verdicts :
        /\ Consistent(v.reports)
        /\ \A r \in v.reports : r.key = v.key /\ r.size = Cardinality(v.reports)

\* The reports of key k are one run's: one per node, as many as each says.
CleanRun(k) ==
    LET W == {r \in Reports : r.key = k} IN
    \A q, r \in W : ValidSize(r.size) /\ r.size = Cardinality(W) /\ (q.node = r.node => q = r)

\* Only a collection that was given up costs a run its verdict: once every
\* report of a clean run was handed over there is a verdict on the whole run,
\* whatever the order of arrival and the other runs' reports in between.
DeliveredRunsJudged ==
    \A k \in Keys \ givenUp :
        LET W == {r \in Reports : r.key = k} IN
        CleanRun(k) /\ W \subseteq delivered => \E v \in verdicts : v.reports = W

\* "Incomplete report collections no longer wait forever": every collection is
\* judged or given up.
CollectionsEnd ==
    \A k \in Keys : (workloads[k].reports # {}) ~> (workloads[k].reports = {})
==============================================================================
