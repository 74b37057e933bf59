---------------------- MODULE SlowNodeAggregatorProofs ----------------------
(***************************************************************************)
(* The aggregator, for any set of reports, any order of arrival and any    *)
(* number of changes of leader: a verdict is drawn from one run's reports, *)
(* and a clean run whose reports were all handed over has its verdict.     *)
(*                                                                         *)
(* Two facts carry the argument.  A collection the table holds is always   *)
(* consistent and still lacks a report.  And of a clean run that was never *)
(* given up the table holds just what was handed over of it, until it is   *)
(* judged as a whole.  The judgement itself is in JudgementsProofs.        *)
(***************************************************************************)
EXTENDS SlowNodeAggregator, FiniteSetTheorems, TLAPS

Workload == [reports : SUBSET Reports, size : Int, lastReportAt : Nat,
             firstObservedAt : Nat, lastObservedAt : Nat]

RunOf(k) == {r \in Reports : r.key = k}

\* The reports of w are of workload k and one layout, one per node, and all
\* within an observation window that is narrow enough.
OneRun(k, w) ==
    /\ ValidSize(w.size)
    /\ \A q, r \in w.reports : q.node = r.node => q = r
    /\ \A r \in w.reports : /\ r.key = k /\ r.size = w.size
                            /\ w.firstObservedAt <= r.observedAt
                            /\ r.observedAt <= w.lastObservedAt
    /\ Spread(w) <= Timeout

CollectionOK(k, w) ==
    /\ w \in Workload
    /\ w.reports # {} => OneRun(k, w) /\ Cardinality(w.reports) < w.size

Shapes ==
    /\ clock \in Nat
    /\ workloads \in [Keys -> Workload]
    /\ delivered \subseteq Reports
    /\ givenUp \subseteq Keys
    /\ takeovers \in 0 .. MaxTakeovers
    /\ \A v \in verdicts : v.key \in Keys /\ v.reports \subseteq Reports

Judged(k) == \E v \in verdicts : v.reports = RunOf(k)

\* Nothing that was handed over of a clean run is missing from its collection.
NothingDropped ==
    \A k \in Keys \ givenUp :
        CleanRun(k) => \/ workloads[k].reports = delivered \cap RunOf(k)
                       \/ RunOf(k) \subseteq delivered /\ Judged(k)

Collections == \A k \in Keys : CollectionOK(k, workloads[k])

IInv == Shapes /\ Collections /\ VerdictsFromOneRun /\ NothingDropped

------------------------------------------------------------------------------
(* The operators on collections. *)

LEMMA FiniteCollections ==
    ASSUME NEW S \in SUBSET Reports
    PROVE  IsFiniteSet(S) /\ Cardinality(S) \in Nat
  BY AggregatorAssumption, FS_Subset, FS_CardinalityType DEF AggregatorAssumption

LEMMA NoWorkloadOK == \A k : CollectionOK(k, NoWorkload) /\ ~TimedOut(NoWorkload)
  BY DEF CollectionOK, NoWorkload, Workload, TimedOut, Incomplete

\* A collection starts with one report and waits for at least one more.
LEMMA FreshOK ==
    ASSUME NEW r \in Reports, ValidSize(r.size), clock \in Nat
    PROVE  CollectionOK(r.key, Fresh(r))
  <1>1. r.size \in Int /\ r.observedAt \in Nat /\ Timeout \in Nat
    BY AggregatorAssumption DEF AggregatorAssumption
  <1>2. r.size > 1
    BY <1>1 DEF ValidSize
  <1>3. Cardinality({r}) = 1
    BY FS_Singleton
  <1>4. Fresh(r) \in Workload
    BY <1>1 DEF Fresh, Workload
  <1>5. OneRun(r.key, Fresh(r))
    BY <1>1 DEF OneRun, Fresh, Spread
  <1> QED
    BY <1>2, <1>3, <1>4, <1>5 DEF CollectionOK, Fresh

LEMMA MergedFields ==
    ASSUME NEW w \in Workload, NEW r \in Reports, clock \in Nat
    PROVE  /\ Merged(w, r) \in Workload
           /\ Merged(w, r).reports = AddReport(w, r)
           /\ Merged(w, r).size = w.size
           /\ Merged(w, r).firstObservedAt \in {w.firstObservedAt, r.observedAt}
           /\ Merged(w, r).firstObservedAt <= w.firstObservedAt
           /\ Merged(w, r).firstObservedAt <= r.observedAt
           /\ Merged(w, r).lastObservedAt >= w.lastObservedAt
           /\ Merged(w, r).lastObservedAt >= r.observedAt
  <1>1. r.observedAt \in Nat
    BY AggregatorAssumption DEF AggregatorAssumption
  <1>2. AddReport(w, r) \in SUBSET Reports
    BY DEF AddReport, Workload
  <1> DEFINE first == IF r.observedAt < w.firstObservedAt THEN r.observedAt ELSE w.firstObservedAt
             last == IF r.observedAt > w.lastObservedAt THEN r.observedAt ELSE w.lastObservedAt
  <1>3. w.firstObservedAt \in Nat /\ w.lastObservedAt \in Nat
    BY DEF Workload
  <1>4. /\ first \in Nat /\ first \in {w.firstObservedAt, r.observedAt}
        /\ first <= w.firstObservedAt /\ first <= r.observedAt
        /\ last \in Nat /\ last >= w.lastObservedAt /\ last >= r.observedAt
    BY <1>1, <1>3
  <1>5. Merged(w, r) = [w EXCEPT !.lastReportAt = clock, !.firstObservedAt = first,
                                 !.lastObservedAt = last, !.reports = AddReport(w, r)]
    BY DEF Merged
  <1> HIDE DEF first, last
  <1>6. /\ Merged(w, r) \in Workload /\ Merged(w, r).reports = AddReport(w, r)
        /\ Merged(w, r).size = w.size
        /\ Merged(w, r).firstObservedAt = first /\ Merged(w, r).lastObservedAt = last
    BY <1>2, <1>4, <1>5 DEF Workload
  <1> QED
    BY <1>4, <1>6

\* A report that joins within the window leaves the collection one run's, and
\* completes it at most to the size.
LEMMA MergedOneRun ==
    ASSUME NEW r \in Reports, NEW w, clock \in Nat, CollectionOK(r.key, w), SamePlan(w, r),
           Spread(Merged(w, r)) <= Timeout
    PROVE  /\ Merged(w, r) \in Workload
           /\ OneRun(r.key, Merged(w, r))
           /\ Cardinality(Merged(w, r).reports) <= Merged(w, r).size
  <1> DEFINE m == Merged(w, r)
             kept == {q \in w.reports : q.node # r.node}
  <1>1. w \in Workload /\ OneRun(r.key, w) /\ Cardinality(w.reports) < w.size /\ w.size = r.size
    BY DEF CollectionOK, SamePlan
  <1>2. \A q \in Reports : q.size \in Int /\ q.observedAt \in Nat
    BY AggregatorAssumption DEF AggregatorAssumption
  <1>3. m.reports = kept \cup {r} /\ m.size = w.size
    BY <1>1, MergedFields DEF AddReport
  <1>4. OneRun(r.key, m)
    <2>1. \A p, q \in m.reports : p.node = q.node => p = q
      BY <1>1, <1>3 DEF OneRun
    <2>2. \A q \in m.reports : q.key = r.key /\ q.size = m.size
      BY <1>1, <1>3 DEF OneRun
    <2>3. \A q \in m.reports : m.firstObservedAt <= q.observedAt /\ q.observedAt <= m.lastObservedAt
      <3> SUFFICES ASSUME NEW q \in m.reports
                   PROVE  m.firstObservedAt <= q.observedAt /\ q.observedAt <= m.lastObservedAt
        OBVIOUS
      <3>1. /\ m \in Workload
            /\ m.firstObservedAt <= w.firstObservedAt /\ m.firstObservedAt <= r.observedAt
            /\ m.lastObservedAt >= w.lastObservedAt /\ m.lastObservedAt >= r.observedAt
        BY <1>1, MergedFields
      <3>2. CASE q = r
        BY <3>1, <3>2
      <3>3. CASE q \in w.reports
        <4>1. /\ w.firstObservedAt <= q.observedAt /\ q.observedAt <= w.lastObservedAt
              /\ q.observedAt \in Nat
          BY <1>1, <1>2, <3>3 DEF OneRun, Workload
        <4> QED
          BY <1>1, <3>1, <4>1 DEF Workload
      <3> QED
        BY <1>3, <3>2, <3>3
    <2> QED
      BY <1>1, <1>3, <2>1, <2>2, <2>3 DEF OneRun
  <1>5. Cardinality(m.reports) <= m.size
    <2>1. kept \in SUBSET w.reports /\ w.reports \in SUBSET Reports /\ w.size \in Int
      BY <1>1 DEF Workload
    <2>2. /\ IsFiniteSet(kept) /\ IsFiniteSet(w.reports)
          /\ Cardinality(kept) \in Nat /\ Cardinality(w.reports) \in Nat
      BY <2>1, FiniteCollections
    <2>3. Cardinality(kept) <= Cardinality(w.reports)
      BY <2>1, <2>2, FS_Subset
    <2>4. Cardinality(kept \cup {r}) = IF r \in kept THEN Cardinality(kept) ELSE Cardinality(kept) + 1
      BY <2>2, FS_AddElement, Zenon
    <2>5. Cardinality(kept \cup {r}) \in Nat
      BY <2>1, FiniteCollections
    <2> QED
      BY <1>1, <1>3, <2>1, <2>2, <2>3, <2>4, <2>5
  <1> QED
    BY <1>1, <1>4, <1>5, MergedFields

LEMMA CleanRuns ==
    ASSUME NEW k, CleanRun(k), NEW r \in RunOf(k)
    PROVE  /\ r \in Reports /\ r.key = k
           /\ ValidSize(r.size) /\ r.size = Cardinality(RunOf(k))
           /\ \A q \in RunOf(k) : q.node = r.node => q = r
  BY DEF CleanRun, RunOf

LEMMA KeysOfReports == \A r \in Reports : r.key \in Keys /\ r \in RunOf(r.key)
  BY DEF Keys, RunOf

------------------------------------------------------------------------------
(* The steps. *)

LEMMA InitInv == Init => IInv
  <1> SUFFICES ASSUME Init PROVE IInv
    OBVIOUS
  <1>1. NoWorkload \in Workload /\ NoWorkload.reports = {}
    BY DEF NoWorkload, Workload
  <1>2. Shapes
    BY <1>1, AggregatorAssumption DEF Init, Shapes, AggregatorAssumption
  <1>3. \A k \in Keys : workloads[k] = NoWorkload
    BY DEF Init
  <1>4. Collections
    BY <1>3, NoWorkloadOK DEF Collections
  <1>5. VerdictsFromOneRun /\ NothingDropped
    BY <1>1, <1>3 DEF Init, VerdictsFromOneRun, NothingDropped
  <1> QED
    BY <1>2, <1>4, <1>5 DEF IInv

\* The part of a report's arrival that all its cases have in common: one
\* collection changes, and stays in order.
LEMMA OneCollectionChanges ==
    ASSUME IInv, NEW r \in Reports, Arrives(r), NEW w, CollectionOK(r.key, w),
           workloads' = [workloads EXCEPT ![r.key] = w],
           givenUp' \in SUBSET Keys,
           \A v \in verdicts' : v.key \in Keys /\ v.reports \subseteq Reports
    PROVE  /\ Shapes' /\ Collections'
           /\ \A k \in Keys \ {r.key} : workloads'[k] = workloads[k]
           /\ workloads'[r.key] = w
           /\ delivered' = delivered \cup {r} /\ r \notin delivered
  <1>1. r.key \in Keys /\ workloads \in [Keys -> Workload] /\ w \in Workload
    BY KeysOfReports DEF IInv, Shapes, CollectionOK
  <1>2. /\ \A k \in Keys \ {r.key} : workloads'[k] = workloads[k]
        /\ workloads'[r.key] = w
        /\ workloads' \in [Keys -> Workload]
    BY <1>1
  <1>3. Shapes'
    BY <1>2 DEF Arrives, IInv, Shapes
  <1>4. Collections'
    BY <1>2 DEF IInv, Collections, CollectionOK, OneRun
  <1> QED
    BY <1>2, <1>3, <1>4 DEF Arrives

\* The clean runs of other workloads do not notice.
LEMMA OtherRuns ==
    ASSUME IInv, NEW r \in Reports, NEW k \in Keys \ {r.key}, k \notin givenUp, CleanRun(k),
           workloads'[k] = workloads[k], delivered' = delivered \cup {r},
           verdicts \subseteq verdicts'
    PROVE  \/ workloads'[k].reports = delivered' \cap RunOf(k)
           \/ RunOf(k) \subseteq delivered' /\ Judged(k)'
  <1>1. delivered' \cap RunOf(k) = delivered \cap RunOf(k)
    BY DEF RunOf
  <1>2. Judged(k) => Judged(k)'
    BY DEF Judged
  <1> QED
    BY <1>1, <1>2 DEF IInv, NothingDropped

LEMMA MalformedStep ==
    ASSUME IInv, NEW r \in Reports, Malformed(r) PROVE IInv'
  <1>1. /\ UNCHANGED <<workloads, verdicts, givenUp, clock, takeovers>>
        /\ delivered' = delivered \cup {r} /\ ~ValidSize(r.size)
    BY DEF Malformed, Arrives
  <1>2. Shapes' /\ Collections' /\ VerdictsFromOneRun'
    BY <1>1 DEF IInv, Shapes, Collections, VerdictsFromOneRun
  <1>3. NothingDropped'
    <2> SUFFICES ASSUME NEW k \in Keys \ givenUp, CleanRun(k)
                 PROVE  \/ workloads'[k].reports = delivered' \cap RunOf(k)
                        \/ RunOf(k) \subseteq delivered' /\ Judged(k)'
      BY <1>1 DEF NothingDropped
    <2>1. r.key # k
      BY <1>1, CleanRuns, KeysOfReports
    <2> QED
      BY <1>1, <2>1, OtherRuns
  <1> QED
    BY <1>2, <1>3 DEF IInv

\* The two cases that give a collection up: the run is excused.
LEMMA GivenUpStep ==
    ASSUME IInv, NEW r \in Reports, LateForTimedOut(r) \/ OutsideWindow(r) PROVE IInv'
  <1>1. PICK w \in {NoWorkload, Fresh(r)} : workloads' = [workloads EXCEPT ![r.key] = w]
    BY DEF LateForTimedOut, OutsideWindow
  <1>2. /\ givenUp' = givenUp \cup {r.key} /\ verdicts' = verdicts
        /\ ValidSize(r.size) /\ Arrives(r)
    BY DEF LateForTimedOut, OutsideWindow, Joins
  <1>3. CollectionOK(r.key, w)
    BY <1>2, FreshOK, NoWorkloadOK DEF IInv, Shapes
  <1>4. givenUp' \in SUBSET Keys /\ \A v \in verdicts' : v.key \in Keys /\ v.reports \subseteq Reports
    BY <1>2, KeysOfReports DEF IInv, Shapes
  <1>5. /\ Shapes' /\ Collections'
        /\ \A k \in Keys \ {r.key} : workloads'[k] = workloads[k]
        /\ delivered' = delivered \cup {r}
    BY <1>1, <1>2, <1>3, <1>4, OneCollectionChanges
  <1>6. NothingDropped'
    BY <1>2, <1>5, OtherRuns DEF NothingDropped
  <1> QED
    BY <1>2, <1>5, <1>6 DEF IInv, VerdictsFromOneRun

\* A clean run's report opens a collection only as its first.
LEMMA OpensStep ==
    ASSUME IInv, NEW r \in Reports, Opens(r) PROVE IInv'
  <1>1. /\ workloads' = [workloads EXCEPT ![r.key] = Fresh(r)]
        /\ givenUp' = givenUp /\ verdicts' = verdicts
        /\ ValidSize(r.size) /\ Arrives(r) /\ ~SamePlan(workloads[r.key], r)
    BY DEF Opens
  <1>2. CollectionOK(r.key, Fresh(r))
    BY <1>1, FreshOK DEF IInv, Shapes
  <1>3. givenUp' \in SUBSET Keys /\ \A v \in verdicts' : v.key \in Keys /\ v.reports \subseteq Reports
    BY <1>1 DEF IInv, Shapes
  <1>4. /\ Shapes' /\ Collections'
        /\ \A k \in Keys \ {r.key} : workloads'[k] = workloads[k]
        /\ workloads'[r.key] = Fresh(r)
        /\ delivered' = delivered \cup {r} /\ r \notin delivered
    BY <1>1, <1>2, <1>3, OneCollectionChanges
  <1>5. NothingDropped'
    <2> SUFFICES ASSUME NEW k \in Keys \ givenUp, CleanRun(k)
                 PROVE  \/ workloads'[k].reports = delivered' \cap RunOf(k)
                        \/ RunOf(k) \subseteq delivered' /\ Judged(k)'
      BY <1>1 DEF NothingDropped
    <2>1. CASE k = r.key
      <3>1. r \in RunOf(k)
        BY <2>1, KeysOfReports
      <3>2. workloads[k].reports = delivered \cap RunOf(k)
        BY <1>4, <3>1 DEF IInv, NothingDropped
      <3>3. \A q \in workloads[k].reports : q.size = workloads[k].size /\ q.size = r.size
        BY <3>1, <3>2, CleanRuns DEF IInv, Collections, CollectionOK, OneRun
      <3>4. workloads[k].reports = {}
        BY <1>1, <2>1, <3>3 DEF SamePlan
      <3>5. workloads'[k].reports = {r}
        BY <1>4, <2>1 DEF Fresh
      <3> QED
        BY <1>4, <3>1, <3>2, <3>4, <3>5
    <2> QED
      BY <1>1, <1>4, <2>1, OtherRuns
  <1> QED
    BY <1>1, <1>4, <1>5 DEF IInv, VerdictsFromOneRun

\* What r's collection becomes when r joins it within the window.
LEMMA Joined ==
    ASSUME IInv, NEW r \in Reports, Joins(r), Spread(Merged(workloads[r.key], r)) <= Timeout
    PROVE  LET m == Merged(workloads[r.key], r) IN
           /\ m \in Workload /\ OneRun(r.key, m) /\ Cardinality(m.reports) <= m.size
           /\ m.reports = AddReport(workloads[r.key], r) /\ r \in m.reports
           /\ m.reports \subseteq RunOf(r.key)
  <1> DEFINE w == workloads[r.key]
             m == Merged(w, r)
  <1>1. r.key \in Keys /\ clock \in Nat /\ CollectionOK(r.key, w) /\ SamePlan(w, r)
    BY KeysOfReports DEF IInv, Shapes, Collections, Joins
  <1>2. m \in Workload /\ OneRun(r.key, m) /\ Cardinality(m.reports) <= m.size
    BY <1>1, MergedOneRun
  <1>3. m.reports = AddReport(w, r)
    BY <1>1, MergedFields DEF CollectionOK
  <1>4. r \in m.reports
    BY <1>3 DEF AddReport
  <1>5. m.reports \subseteq RunOf(r.key)
    BY <1>2 DEF Workload, OneRun, RunOf
  <1> QED
    BY <1>2, <1>3, <1>4, <1>5

\* If r's run is clean, the collection r joins then holds what was handed over.
LEMMA JoinedClean ==
    ASSUME IInv, NEW r \in Reports, Joins(r), r.key \notin givenUp, CleanRun(r.key)
    PROVE  AddReport(workloads[r.key], r) = (delivered \cup {r}) \cap RunOf(r.key)
  <1>1. r \in RunOf(r.key) /\ r.key \in Keys /\ r \notin delivered
    BY KeysOfReports DEF Joins, Arrives
  <1>2. workloads[r.key].reports = delivered \cap RunOf(r.key)
    BY <1>1 DEF IInv, NothingDropped
  <1>3. \A q \in workloads[r.key].reports : q.node # r.node
    BY <1>1, <1>2, CleanRuns
  <1> QED
    BY <1>1, <1>2, <1>3 DEF AddReport

LEMMA WaitsStep ==
    ASSUME IInv, NEW r \in Reports, Waits(r) PROVE IInv'
  <1> DEFINE m == Merged(workloads[r.key], r)
  <1>1. /\ workloads' = [workloads EXCEPT ![r.key] = m]
        /\ givenUp' = givenUp /\ verdicts' = verdicts
        /\ Joins(r) /\ Arrives(r) /\ Spread(m) <= Timeout /\ ~Full(m)
    BY DEF Waits, Joins
  <1>2. /\ m \in Workload /\ OneRun(r.key, m)
        /\ m.reports = AddReport(workloads[r.key], r)
    BY <1>1, Joined
  <1>3. CollectionOK(r.key, m)
    <2>1. Cardinality(m.reports) \in Nat /\ m.size \in Int
      BY <1>2, FiniteCollections DEF Workload
    <2> QED
      BY <1>1, <1>2, <2>1 DEF CollectionOK, Full
  <1> HIDE DEF m
  <1>4. givenUp' \in SUBSET Keys /\ \A v \in verdicts' : v.key \in Keys /\ v.reports \subseteq Reports
    BY <1>1 DEF IInv, Shapes
  <1>5. /\ Shapes' /\ Collections'
        /\ \A k \in Keys \ {r.key} : workloads'[k] = workloads[k]
        /\ workloads'[r.key] = m
        /\ delivered' = delivered \cup {r}
    BY <1>1, <1>3, <1>4, OneCollectionChanges
  <1>6. NothingDropped'
    BY <1>1, <1>2, <1>5, JoinedClean, OtherRuns DEF NothingDropped
  <1> QED
    BY <1>1, <1>5, <1>6 DEF IInv, VerdictsFromOneRun

\* The last report: the verdict is on one run, and on the whole of it.
LEMMA CompletesStep ==
    ASSUME IInv, NEW r \in Reports, Completes(r) PROVE IInv'
  <1> DEFINE m == Merged(workloads[r.key], r)
             v == [key |-> r.key, reports |-> m.reports,
                   slow |-> DetectSlowNodes(m.reports, BatchCount(m.size))]
  <1>1. /\ verdicts' = verdicts \cup {v}
        /\ v.key = r.key /\ v.reports = m.reports
    BY DEF Completes
  <1>2. /\ workloads' = [workloads EXCEPT ![r.key] = NoWorkload] /\ givenUp' = givenUp
        /\ Joins(r) /\ Arrives(r) /\ Spread(m) <= Timeout /\ Full(m)
    BY DEF Completes, Joins
  <1>3. /\ m \in Workload /\ OneRun(r.key, m) /\ Cardinality(m.reports) <= m.size
        /\ m.reports = AddReport(workloads[r.key], r) /\ r \in m.reports
        /\ m.reports \subseteq RunOf(r.key)
    BY <1>2, Joined
  <1>4. Cardinality(m.reports) = m.size
    <2>1. Cardinality(m.reports) \in Nat /\ m.size \in Int
      BY <1>3, FiniteCollections DEF Workload
    <2> QED
      BY <1>2, <1>3, <2>1 DEF Full
  <1> HIDE DEF m, v
  <1>5. v.key \in Keys /\ v.reports \subseteq Reports
    BY <1>1, <1>3, KeysOfReports DEF Workload
  <1>6. givenUp' \in SUBSET Keys /\ \A u \in verdicts' : u.key \in Keys /\ u.reports \subseteq Reports
    BY <1>1, <1>2, <1>5 DEF IInv, Shapes
  <1>7. /\ Shapes' /\ Collections'
        /\ \A k \in Keys \ {r.key} : workloads'[k] = workloads[k]
        /\ delivered' = delivered \cup {r}
    BY <1>2, <1>6, NoWorkloadOK, OneCollectionChanges
  <1>8. VerdictsFromOneRun'
    <2>1. Consistent(v.reports)
      <3> SUFFICES ASSUME NEW p \in m.reports, NEW q \in m.reports
                   PROVE  /\ p.key = q.key /\ p.size = q.size
                          /\ (p.node = q.node => p = q)
                          /\ q.observedAt - p.observedAt <= Timeout
        BY <1>1 DEF Consistent
      <3>1. /\ p.observedAt \in Nat /\ q.observedAt \in Nat /\ Timeout \in Nat
            /\ m.firstObservedAt \in Nat /\ m.lastObservedAt \in Nat
        BY <1>3, AggregatorAssumption DEF Workload, AggregatorAssumption
      <3>2. /\ m.firstObservedAt <= p.observedAt /\ q.observedAt <= m.lastObservedAt
            /\ m.lastObservedAt - m.firstObservedAt <= Timeout
        BY <1>3 DEF OneRun, Spread
      <3>3. q.observedAt - p.observedAt <= Timeout
        BY <3>1, <3>2
      <3> QED
        BY <1>3, <3>3 DEF OneRun
    <2>2. \A q \in v.reports : q.key = v.key /\ q.size = Cardinality(v.reports)
      BY <1>1, <1>3, <1>4 DEF OneRun
    <2> QED
      BY <1>1, <2>1, <2>2 DEF IInv, VerdictsFromOneRun
  <1>9. NothingDropped'
    <2> SUFFICES ASSUME NEW k \in Keys \ givenUp, CleanRun(k)
                 PROVE  \/ workloads'[k].reports = delivered' \cap RunOf(k)
                        \/ RunOf(k) \subseteq delivered' /\ Judged(k)'
      BY <1>2 DEF NothingDropped
    <2>1. CASE k = r.key
      <3>1. m.reports = (delivered \cup {r}) \cap RunOf(k)
        BY <1>2, <1>3, <2>1, JoinedClean
      <3>2. m.size = Cardinality(RunOf(k))
        BY <1>3, <2>1, CleanRuns DEF OneRun
      <3>3. IsFiniteSet(RunOf(k))
        BY FiniteCollections DEF RunOf
      <3>4. m.reports = RunOf(k)
        BY <1>3, <1>4, <2>1, <3>2, <3>3, FS_Subset
      <3> QED
        BY <1>1, <1>7, <3>1, <3>4 DEF Judged
    <2> QED
      BY <1>1, <1>7, <2>1, OtherRuns
  <1> QED
    BY <1>7, <1>8, <1>9 DEF IInv

LEMMA SweepStep == ASSUME IInv, Sweep PROVE IInv'
  <1>1. /\ givenUp' = givenUp \cup {k \in Keys : TimedOut(workloads[k])}
        /\ UNCHANGED <<clock, delivered, takeovers, verdicts>>
        /\ workloads' = [k \in Keys |-> IF TimedOut(workloads[k]) THEN NoWorkload ELSE workloads[k]]
    BY DEF Sweep
  <1>2. \A k \in Keys : workloads'[k] = IF TimedOut(workloads[k]) THEN NoWorkload ELSE workloads[k]
    BY <1>1
  <1>3. NoWorkload \in Workload
    BY DEF NoWorkload, Workload
  <1>4. Shapes'
    BY <1>1, <1>3 DEF IInv, Shapes
  <1>5. Collections'
    <2> SUFFICES ASSUME NEW k \in Keys PROVE CollectionOK(k, workloads'[k])
      BY DEF Collections
    <2> QED
      BY <1>2, NoWorkloadOK DEF IInv, Collections
  <1>6. VerdictsFromOneRun'
    BY <1>1 DEF IInv, VerdictsFromOneRun
  <1>7. NothingDropped'
    BY <1>1, <1>2 DEF IInv, NothingDropped, Judged
  <1> QED
    BY <1>4, <1>5, <1>6, <1>7 DEF IInv

LEMMA TakeOverStep == ASSUME IInv, TakeOver PROVE IInv'
  <1>1. /\ workloads' = [k \in Keys |-> NoWorkload] /\ delivered' = {} /\ givenUp' = {}
        /\ takeovers' = takeovers + 1 /\ takeovers < MaxTakeovers
        /\ UNCHANGED <<clock, verdicts>>
    BY DEF TakeOver
  <1>2. NoWorkload \in Workload /\ NoWorkload.reports = {}
    BY DEF NoWorkload, Workload
  <1>3. Shapes'
    BY <1>1, <1>2, AggregatorAssumption DEF IInv, Shapes, AggregatorAssumption
  <1>4. Collections'
    BY <1>1, NoWorkloadOK DEF Collections
  <1>5. VerdictsFromOneRun' /\ NothingDropped'
    BY <1>1, <1>2 DEF IInv, VerdictsFromOneRun, NothingDropped
  <1> QED
    BY <1>3, <1>4, <1>5 DEF IInv

LEMMA Inductive == IInv /\ [Next]_vars => IInv'
  <1> SUFFICES ASSUME IInv, [Next]_vars PROVE IInv'
    OBVIOUS
  <1>1. CASE Tick
    BY <1>1 DEF Tick, IInv, Shapes, Collections, VerdictsFromOneRun, NothingDropped, Judged
  <1>2. CASE Sweep
    BY <1>2, SweepStep
  <1>3. CASE TakeOver
    BY <1>3, TakeOverStep
  <1>4. ASSUME NEW r \in Reports, AddReportForWorkload(r) PROVE IInv'
    BY <1>4, MalformedStep, GivenUpStep, OpensStep, WaitsStep, CompletesStep
       DEF AddReportForWorkload
  <1>5. CASE UNCHANGED vars
    BY <1>5 DEF vars, IInv, Shapes, Collections, VerdictsFromOneRun, NothingDropped, Judged
  <1> QED
    BY <1>1, <1>2, <1>3, <1>4, <1>5 DEF Next

LEMMA Invariant == Spec => []IInv
  BY InitInv, Inductive, PTL DEF Spec

------------------------------------------------------------------------------
(* What the invariant says. *)

\* Collections hold reports of their own workload, with a size that was let in.
THEOREM AggregatorTypes == Spec => []TypeOK
  <1>1. IInv => TypeOK
    <2> SUFFICES ASSUME IInv PROVE TypeOK
      OBVIOUS
    <2>1. ASSUME NEW k \in Keys, NEW r \in workloads[k].reports
          PROVE  r.key = k /\ r.size \in 2 .. MaxWorkloadSize /\ r.size % 2 = 0
      <3>1. /\ r.key = k /\ r.size = workloads[k].size /\ ValidSize(workloads[k].size)
            /\ workloads[k].size \in Int
        BY <2>1 DEF IInv, Shapes, Collections, CollectionOK, OneRun, Workload
      <3> QED
        BY <3>1 DEF ValidSize
    <2> QED
      BY <2>1 DEF TypeOK, IInv, Shapes, Workload
  <1> QED
    BY <1>1, Invariant, PTL

\* A verdict is drawn from one report per expected node, all of one run
\* (AddReportForWorkload 158-179).
THEOREM OneRunPerVerdict == Spec => []VerdictsFromOneRun
  <1>1. IInv => VerdictsFromOneRun
    BY DEF IInv
  <1> QED
    BY <1>1, Invariant, PTL

\* A clean run whose reports were all handed over is judged as a whole, unless a
\* collection of its workload was given up.
THEOREM CleanRunsJudged == Spec => []DeliveredRunsJudged
  <1>1. IInv => DeliveredRunsJudged
    <2> SUFFICES ASSUME IInv, NEW k \in Keys \ givenUp, CleanRun(k), RunOf(k) \subseteq delivered
                 PROVE  Judged(k)
      BY DEF DeliveredRunsJudged, Judged, RunOf
    <2>1. PICK r \in Reports : r.key = k
      BY DEF Keys
    <2>2. r \in RunOf(k) /\ r.size = Cardinality(RunOf(k))
      BY <2>1, KeysOfReports, CleanRuns
    <2>3. CASE workloads[k].reports = delivered \cap RunOf(k)
      <3>1. workloads[k].reports = RunOf(k)
        BY <2>3
      <3>2. /\ workloads[k].size = r.size /\ workloads[k].size \in Int
            /\ Cardinality(RunOf(k)) < workloads[k].size
        BY <2>2, <3>1 DEF IInv, Shapes, Workload, Collections, CollectionOK, OneRun
      <3> QED
        BY <2>2, <3>2
    <2> QED
      BY <2>3 DEF IInv, NothingDropped
  <1> QED
    BY <1>1, Invariant, PTL
==============================================================================
