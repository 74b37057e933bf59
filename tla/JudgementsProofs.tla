--------------------------- MODULE JudgementsProofs ---------------------------
(***************************************************************************)
(* Theorems about what kcover concludes from data: about PreflightVerdict, *)
(* for any reports of any nodes, and about MetaXChecks, for any outputs of *)
(* the tools.                                                              *)
(***************************************************************************)
EXTENDS PreflightVerdict, MetaXChecks, FiniteSetTheorems, TLAPS

------------------------------------------------------------------------------
(* Compacting and wrapping a report. *)

\* Nothing that the aggregator looks at is lost: a report is taken if and only if
\* the text it was made of is, and for the same (compactReportPayloadToJSON
\* 88-133, extractNodeReport 15-47).
LEMMA CompactedReadsAlike ==
    ASSUME NEW text \in Text
    PROVE  /\ Extractable(Compact(text)) <=> Extractable(text)
           /\ \A workload : Taken(workload, Compact(text)) = Taken(workload, text)
  <1> DEFINE c == Compact(text)
  <1>1. /\ c.node = text.node /\ c.ip = text.ip /\ c.size = text.size /\ c.gpu = text.gpu
        /\ c.storage = text.storage /\ c.junk = text.junk /\ c.batches = text.batches
        /\ c.threshold = IF text.threshold = "blank" THEN "absent" ELSE text.threshold
    BY DEF Compact, Text
  <1> HIDE DEF c
  <1>2. /\ c.threshold \in {"number", "bad"} <=> text.threshold \in {"number", "bad"}
        /\ c.threshold = "positive" <=> text.threshold = "positive"
    BY <1>1
  <1>3. /\ FailFast(c) <=> FailFast(text)
        /\ Considered(c) = Considered(text)
        /\ Parses(c) <=> Parses(text)
        /\ NoDuplicates(c) <=> NoDuplicates(text)
    BY <1>1 DEF FailFast, Considered, Parses, NoDuplicates
  <1>4. ASSUME NEW b PROVE /\ Readable(c, b) <=> Readable(text, b)
                           /\ Failed(c, b) <=> Failed(text, b)
    BY <1>1, <1>2 DEF Readable, Identified, Self, Gated, Failed
  <1>5. Extractable(c) <=> Extractable(text)
    BY <1>1, <1>2, <1>3, <1>4 DEF Extractable
  <1>6. Results(c) = Results(text)
    <2>1. ASSUME NEW b \in Considered(text) PROVE Failed(c, b) = Failed(text, b)
      BY <1>4, Zenon DEF Failed
    <2> QED
      BY <1>3, <2>1, Zenon DEF Results
  <1>7. Extract(c) = Extract(text)
    BY <1>1, <1>3, <1>6, Zenon DEF Extract
  <1> QED
    BY <1>1, <1>5, <1>7 DEF Taken, c

\* The checks of the two sides agree (BuildPreflightReport 50-97, validateReport
\* 233-270).
LEMMA CollectedIsValid ==
    ASSUME NEW pod \in Pod, NEW text \in Text, Collectable(pod, text)
    PROVE  Valid(Collect(pod, text))
  <1>1. /\ Compact(text).node = text.node /\ Compact(text).size = text.size
        /\ Compact(text).rank = text.rank /\ Compact(text).workload = Absent
    BY DEF Compact, Text
  <1> QED
    BY <1>1 DEF Collectable, Enveloped, Compactable, Parses, Collect, Valid

\* A report that extractNodeReport accepts is one the detection can do with
\* (extractBatchResult, report_parser.go 93-182).
LEMMA ExtractedIsFit ==
    ASSUME NEW text \in Text, Extractable(text)
    PROVE  FitForDetection(text)
  <1>1. CASE FailFast(text)
    BY <1>1 DEF FitForDetection, Results
  <1>2. CASE ~FailFast(text)
    <2>1. ASSUME NEW x \in Results(text)
          PROVE  \E i \in DOMAIN text.batches :
                    LET b == text.batches[i]
                    IN /\ b \in Considered(text) /\ b.idx < BatchCount(text.size)
                       /\ x = [batch |-> b.idx, pair |-> Ends(b), failed |-> Failed(text, b)]
      <3>1. PICK b \in Considered(text) :
                x = [batch |-> b.idx, pair |-> Ends(b), failed |-> Failed(text, b)]
        BY <1>2, Zenon DEF Results
      <3>2. PICK i \in DOMAIN text.batches : text.batches[i].idx < BatchCount(text.size) /\ b = text.batches[i]
        BY DEF Considered
      <3> QED
        BY <3>1, <3>2
    <2>2. ASSUME NEW b \in Considered(text)
          PROVE  /\ b.idx \in 0 .. BatchCount(text.size) - 1
                 /\ Self(text, b) \in Ends(b)
      <3>1. b \in Batch /\ b.idx < BatchCount(text.size)
        BY DEF Considered, Text
      <3>2. Readable(text, b)
        BY <1>2 DEF Extractable
      <3>3. BatchCount(text.size) \in Int /\ b.idx \in Int
        BY <3>1, PayloadAssumption DEF BatchCount, Text, Batch
      <3>4. b.idx \in 0 .. BatchCount(text.size) - 1
        BY <3>1, <3>2, <3>3 DEF Readable
      <3>5. Self(text, b) \in Ends(b)
        BY <3>2, Zenon DEF Readable, Identified, Ends, Self
      <3> QED
        BY <3>4, <3>5
    <2>3. ASSUME NEW x \in Results(text), NEW y \in Results(text), x.batch = y.batch
          PROVE  x = y
      <3>1. PICK i \in DOMAIN text.batches :
                /\ text.batches[i].idx < BatchCount(text.size)
                /\ x = [batch |-> text.batches[i].idx, pair |-> Ends(text.batches[i]),
                        failed |-> Failed(text, text.batches[i])]
        BY <2>1
      <3>2. PICK j \in DOMAIN text.batches :
                /\ y = [batch |-> text.batches[j].idx, pair |-> Ends(text.batches[j]),
                        failed |-> Failed(text, text.batches[j])]
        BY <2>1
      <3>3. text.batches[i].idx = text.batches[j].idx
        BY <3>1, <3>2, <2>3
      <3>4. text.batches[i].idx \in Int /\ BatchCount(text.size) \in Int
        <4>1. text.batches \in Seq(Batch) /\ text.size \in Int
          BY DEF Text
        <4>2. text.batches[i] \in Batch
          BY <4>1
        <4> QED
          BY <4>1, <4>2, PayloadAssumption DEF BatchCount, Batch
      <3>5. i = j
        <4>1. NoDuplicates(text)
          BY <1>2 DEF Extractable
        <4> QED
          BY <4>1, <3>1, <3>3, <3>4 DEF NoDuplicates
      <3> QED
        BY <3>1, <3>2, <3>5
    <2>4. ASSUME NEW x \in Results(text)
          PROVE  \E b \in Considered(text) : b.idx = x.batch /\ Ends(b) = x.pair
      BY <2>1
    <2> QED
      BY <2>2, <2>3, <2>4 DEF FitForDetection
  <1> QED
    BY <1>1, <1>2

------------------------------------------------------------------------------
(* The judgement, for any reports whose batches are among the expected ones, as *)
(* extractBatchResult (report_parser.go 137-139) sees to.                       *)

\* Cardinality is the same operator in an instance of a module.
LEMMA SameCardinality == ASSUME NEW S PROVE Detection!Cardinality(S) = Cardinality(S)
  BY DEF Detection!Cardinality, Cardinality

BatchesExpected(reports, expected) == \A x \in Detection!Results(reports) : x.batch \in 0 .. expected - 1

\* Who failed in every expected batch failed in every batch with a failure.
LEMMA ThroughoutIsCommon ==
    ASSUME NEW reports, NEW expected \in Nat \ {0}, BatchesExpected(reports, expected),
           NEW ip, Detection!FailedThroughout(reports, expected, ip)
    PROVE  /\ ip \in Detection!CommonFailedIPs(reports)
           /\ 0 .. expected - 1 \subseteq Detection!FailedBatches(reports)
  <1>1. \A batch \in 0 .. expected - 1 :
            \E x \in Detection!Failures(reports) : x.batch = batch /\ ip \in x.pair
    <2> SUFFICES ASSUME NEW batch \in 0 .. expected - 1
                 PROVE  \E x \in Detection!Failures(reports) : x.batch = batch /\ ip \in x.pair
      OBVIOUS
    <2>1. PICK r \in reports : ~r.failFast /\ \E x \in r.results :
                                   x.batch = batch /\ x.failed /\ ip \in x.pair
      BY DEF Detection!FailedThroughout
    <2>2. PICK x \in r.results : x.batch = batch /\ x.failed /\ ip \in x.pair
      BY <2>1
    <2>3. x \in Detection!Failures(reports)
      BY <2>1, <2>2 DEF Detection!Failures, Detection!Results, Detection!FailFast
    <2> QED
      BY <2>2, <2>3
  <1>2. Detection!FailedBatches(reports) = 0 .. expected - 1
    BY <1>1 DEF Detection!FailedBatches, Detection!Failures, BatchesExpected
  <1>3. \A batch \in Detection!FailedBatches(reports) : ip \in Detection!FailedIPs(reports, batch)
    BY <1>1, <1>2 DEF Detection!FailedIPs
  <1>4. ip \in UNION {x.pair : x \in Detection!Failures(reports)}
    <2>1. PICK x \in Detection!Failures(reports) : ip \in x.pair
      BY <1>1
    <2> QED
      BY <2>1
  <1> QED
    BY <1>2, <1>3, <1>4 DEF Detection!CommonFailedIPs

\* A verdict of nobody for want of failed batches is right.
LEMMA TooFewBatches ==
    ASSUME NEW reports, NEW expected \in Nat \ {0}, BatchesExpected(reports, expected)
    PROVE  /\ Cardinality(Detection!FailedBatches(reports)) \in Nat
           /\ Cardinality(Detection!FailedBatches(reports)) <= expected
           /\ 0 .. expected - 1 \subseteq Detection!FailedBatches(reports)
                  <=> Cardinality(Detection!FailedBatches(reports)) >= expected
  <1> DEFINE F == Detection!FailedBatches(reports)
             All == 0 .. expected - 1
  <1>1. F \in SUBSET All
    BY DEF Detection!FailedBatches, Detection!Failures, BatchesExpected
  <1>2. IsFiniteSet(All) /\ Cardinality(All) = expected
    <2>1. IsFiniteSet(0 .. expected - 1)
      BY FS_Interval
    <2>2. Cardinality(0 .. expected - 1) = IF 0 > expected - 1 THEN 0 ELSE (expected - 1) - 0 + 1
      BY FS_Interval
    <2> QED
      BY <2>1, <2>2
  <1> HIDE DEF F, All
  <1>3. /\ IsFiniteSet(F) /\ Cardinality(F) <= Cardinality(All)
        /\ Cardinality(All) = Cardinality(F) => All = F
    BY <1>1, <1>2, FS_Subset
  <1>4. Cardinality(F) \in Nat
    BY <1>3, FS_CardinalityType
  <1>5. All \subseteq F <=> Cardinality(F) >= expected
    BY <1>1, <1>2, <1>3, <1>4
  <1> QED
    BY <1>2, <1>3, <1>4, <1>5 DEF F, All

\* Nobody who ought to be named is left out, neither a fail-fast node nor one
\* that failed in every expected batch (detectSlowNodes 35-49).
THEOREM NobodyIsMissed ==
    ASSUME NEW reports, NEW expected \in Nat \ {0}, BatchesExpected(reports, expected)
    PROVE  Detection!Documented(reports, expected) \subseteq Detection!DetectSlowNodes(reports, expected)
  <1>1. Detection!PairwiseSlow(reports, expected)
            \subseteq {Detection!NodeName(reports, ip) : ip \in Detection!CommonFailedIPs(reports)}
    BY ThroughoutIsCommon DEF Detection!PairwiseSlow
  <1>2. CASE ~Detection!ReturnsNoSlowNodes(expected, Cardinality(Detection!FailedBatches(reports)),
                                           Detection!FailFast(reports) # {})
    BY <1>1, <1>2, SameCardinality DEF Detection!Documented, Detection!DetectSlowNodes
  <1>3. CASE Detection!ReturnsNoSlowNodes(expected, Cardinality(Detection!FailedBatches(reports)),
                                          Detection!FailFast(reports) # {})
    <2>1. Detection!FailFast(reports) = {} /\ ~(Cardinality(Detection!FailedBatches(reports)) >= expected)
      BY <1>3, TooFewBatches DEF Detection!ReturnsNoSlowNodes
    <2>2. Detection!PairwiseSlow(reports, expected) = {}
      BY <2>1, TooFewBatches, ThroughoutIsCommon DEF Detection!PairwiseSlow
    <2> QED
      BY <2>1, <2>2 DEF Detection!Documented
  <1> QED
    BY <1>2, <1>3

\* Without fail-fast reports the verdict is what the comment says.
THEOREM ExactVerdict ==
    ASSUME NEW reports, NEW expected \in Nat \ {0}, BatchesExpected(reports, expected),
           Detection!FailFast(reports) = {}
    PROVE  Detection!DetectSlowNodes(reports, expected) = Detection!Documented(reports, expected)
  <1>1. CASE Cardinality(Detection!FailedBatches(reports)) < expected
    <2>1. Detection!DetectSlowNodes(reports, expected) = {}
      BY <1>1, SameCardinality DEF Detection!DetectSlowNodes, Detection!ReturnsNoSlowNodes
    <2> QED
      BY <2>1, NobodyIsMissed
  <1>2. CASE ~(Cardinality(Detection!FailedBatches(reports)) < expected)
    <2>1. 0 .. expected - 1 \subseteq Detection!FailedBatches(reports)
      BY <1>2, TooFewBatches
    <2>2. ASSUME NEW ip \in Detection!CommonFailedIPs(reports)
          PROVE  /\ Detection!FailedThroughout(reports, expected, ip)
                 /\ ip \in UNION {x.pair : x \in Detection!Results(reports)}
      <3>1. \A batch \in 0 .. expected - 1 :
                \E x \in Detection!Failures(reports) : x.batch = batch /\ ip \in x.pair
        BY <2>1, <2>2 DEF Detection!CommonFailedIPs, Detection!FailedIPs
      <3>2. Detection!FailedThroughout(reports, expected, ip)
        BY <3>1 DEF Detection!FailedThroughout, Detection!Failures, Detection!Results, Detection!FailFast
      <3>3. PICK x \in Detection!Failures(reports) : ip \in x.pair
        BY <2>2 DEF Detection!CommonFailedIPs
      <3> QED
        BY <3>2, <3>3 DEF Detection!Failures
    <2>3. {Detection!NodeName(reports, ip) : ip \in Detection!CommonFailedIPs(reports)}
              \subseteq Detection!PairwiseSlow(reports, expected)
      BY <2>2 DEF Detection!PairwiseSlow
    <2>4. Detection!DetectSlowNodes(reports, expected) \subseteq Detection!Documented(reports, expected)
      BY <2>3 DEF Detection!DetectSlowNodes, Detection!Documented
    <2> QED
      BY <2>4, NobodyIsMissed
  <1> QED
    BY <1>1, <1>2

------------------------------------------------------------------------------
(* PreflightVerdict. *)

\* What each stage knows of the stages before it.
VerdictInv ==
    /\ submissions \in Submissions
    /\ stage \in {"written", "collected", "read", "judged"}
    /\ collected = IF stage = "written" THEN {}
                   ELSE {Collect(s.pod, s.text) : s \in {c \in submissions : Collectable(c.pod, c.text)}}
    /\ stage \in {"read", "judged"} => taken = AsWritten
    /\ stage = "judged" => Complete /\ verdict = Detection!DetectSlowNodes(Judged, Expected)

\* What an agent submitted comes from a pod and a text.
LEMMA Submitted ==
    ASSUME VerdictInv, NEW r \in collected
    PROVE  \E s \in submissions : /\ s.pod \in Pod /\ s.text \in Text
                                  /\ Collectable(s.pod, s.text) /\ r = Collect(s.pod, s.text)
  <1>1. PICK s \in submissions : Collectable(s.pod, s.text) /\ r = Collect(s.pod, s.text)
    BY DEF VerdictInv
  <1>2. s \in [pod : Pod, text : Text]
    BY SubmissionsAssumption DEF VerdictInv
  <1> QED
    BY <1>1, <1>2

\* The agent refuses of the texts that the aggregator would take those of nodes that
\* failed fast and have an odd threshold or batch, and no other.
LEMMA CollectedTexts ==
    ASSUME VerdictInv
    PROVE  Takeable \ Refused = {s \in submissions : Collectable(s.pod, s.text) /\ Extractable(s.text)}
  BY DEF Takeable, Refused, Collectable, Compactable, Extractable

\* The aggregator's view of what was collected is the texts' own.
LEMMA ReadAsWritten ==
    ASSUME VerdictInv, stage = "collected"
    PROVE  {Taken(r.workload, r.report) : r \in {c \in collected : Valid(c) /\ Extractable(c.report)}}
               = AsWritten
  <1> DEFINE Reads == {Taken(r.workload, r.report) :
                          r \in {c \in collected : Valid(c) /\ Extractable(c.report)}}
  <1>1. ASSUME NEW s \in submissions, Collectable(s.pod, s.text)
        PROVE  LET r == Collect(s.pod, s.text)
               IN /\ Valid(r)
                  /\ Extractable(r.report) <=> Extractable(s.text)
                  /\ Taken(r.workload, r.report) = Taken(s.pod.workload, s.text)
    <2>1. s.pod \in Pod /\ s.text \in Text
      BY SubmissionsAssumption DEF VerdictInv
    <2>2. /\ Collect(s.pod, s.text).report = Compact(s.text)
          /\ Collect(s.pod, s.text).workload = s.pod.workload
      BY DEF Collect
    <2> QED
      BY <1>1, <2>1, <2>2, CollectedIsValid, CompactedReadsAlike
  <1>2. collected = {Collect(s.pod, s.text) : s \in {c \in submissions : Collectable(c.pod, c.text)}}
    BY DEF VerdictInv
  <1>3. ASSUME NEW q \in Reads PROVE q \in AsWritten
    <2>1. PICK r \in collected : /\ Valid(r) /\ Extractable(r.report)
                                 /\ q = Taken(r.workload, r.report)
      OBVIOUS
    <2>2. PICK s \in submissions : Collectable(s.pod, s.text) /\ r = Collect(s.pod, s.text)
      BY <1>2
    <2>3. Extractable(s.text) /\ q = Taken(s.pod.workload, s.text)
      BY <1>1, <2>1, <2>2
    <2>4. s \in Takeable \ Refused
      BY <2>2, <2>3, CollectedTexts
    <2> QED
      BY <2>3, <2>4, Zenon DEF AsWritten
  <1>4. ASSUME NEW q \in AsWritten PROVE q \in Reads
    <2>1. PICK s \in submissions : /\ Collectable(s.pod, s.text) /\ Extractable(s.text)
                                   /\ q = Taken(s.pod.workload, s.text)
      BY CollectedTexts, Zenon DEF AsWritten
    <2>2. Collect(s.pod, s.text) \in collected
      BY <1>2, <2>1
    <2> QED
      BY <1>1, <2>1, <2>2, Zenon
  <1> QED
    BY <1>3, <1>4

THEOREM VerdictInvariant == VerdictSpec => []VerdictInv
  <1>1. VerdictInit => VerdictInv
    BY DEF VerdictInit, VerdictInv
  <1>2. VerdictInv /\ [VerdictNext]_verdictVars => VerdictInv'
    <2> SUFFICES ASSUME VerdictInv, [VerdictNext]_verdictVars
                 PROVE  VerdictInv'
      OBVIOUS
    <2>1. CASE AgentsCollect
      BY <2>1 DEF AgentsCollect, VerdictInv
    <2>2. CASE AggregatorReads
      <3>1. /\ stage = "collected" /\ stage' = "read"
            /\ UNCHANGED <<submissions, collected, verdict>>
        BY <2>2, Zenon DEF AggregatorReads
      <3>2. taken' = AsWritten
        BY <2>2, <3>1, ReadAsWritten DEF AggregatorReads
      <3>3. AsWritten' = AsWritten
        BY <3>1, Zenon DEF AsWritten, Takeable, Refused
      <3>4. VerdictInv'
        BY <3>1, <3>2, <3>3 DEF VerdictInv
      <3> QED
        BY <3>4
    <2>3. CASE Judge
      <3>1. /\ stage = "read" /\ stage' = "judged" /\ Complete
            /\ verdict' = Detection!DetectSlowNodes(Judged, Expected)
            /\ UNCHANGED <<submissions, collected, taken>>
        BY <2>3, Zenon DEF Judge
      <3>2. Complete' = Complete /\ Judged' = Judged /\ Expected' = Expected /\ AsWritten' = AsWritten
        BY <3>1, Zenon DEF Complete, Judged, Expected, AsWritten, Takeable, Refused
      <3>3. Complete' /\ verdict' = Detection!DetectSlowNodes(Judged', Expected')
        BY <3>1, <3>2, Zenon
      <3> QED
        BY <3>1, <3>2, <3>3 DEF VerdictInv
    <2>4. CASE UNCHANGED verdictVars
      BY <2>4, Zenon DEF verdictVars, VerdictInv, Complete, Judged, Expected, AsWritten, Takeable, Refused
    <2> QED
      BY <2>1, <2>2, <2>3, <2>4 DEF VerdictNext
  <1> QED
    BY <1>1, <1>2, PTL DEF VerdictSpec

\* The aggregator takes from the nodes what it would have taken of the texts
\* themselves, and makes the same of it, but for the reports of nodes that failed fast
\* and have an odd threshold or batch (compactReportPayloadToJSON 88-133,
\* compactBusBWThreshold 136-153, extractNodeReport 15-47).
THEOREM VerdictOnWhatWasWritten == VerdictSpec => []CompactionKeepsVerdict
  <1>1. VerdictInv => CompactionKeepsVerdict
    BY DEF VerdictInv, CompactionKeepsVerdict
  <1> QED
    BY <1>1, VerdictInvariant, PTL

\* The watcher drops no report that an agent submitted (BuildPreflightReport 50-97,
\* validateReport 233-270).
THEOREM SidesAgree == VerdictSpec => []WatcherTakesWhatAgentsSend
  <1>1. VerdictInv => WatcherTakesWhatAgentsSend
    BY Submitted, CollectedIsValid DEF WatcherTakesWhatAgentsSend
  <1> QED
    BY <1>1, VerdictInvariant, PTL

\* Every report that is taken is one the detection can do with (extractBatchResult,
\* report_parser.go 93-182).
THEOREM TakenReportsFit == VerdictSpec => []AggregatedReportsFit
  <1>1. VerdictInv => AggregatedReportsFit
    <2> SUFFICES ASSUME VerdictInv, NEW r \in collected, Extractable(r.report)
                 PROVE  FitForDetection(r.report)
      BY DEF AggregatedReportsFit
    <2>1. PICK s \in submissions : s.text \in Text /\ r = Collect(s.pod, s.text)
      BY Submitted
    <2>2. r.report = Compact(s.text)
      BY <2>1 DEF Collect
    <2>3. Compact(s.text) \in Text
      BY <2>1 DEF Compact, Text
    <2> QED
      BY <2>2, <2>3, ExtractedIsFit
  <1> QED
    BY <1>1, VerdictInvariant, PTL

\* What is judged are reports of the batches that the workload is expected to run.
LEMMA JudgedWell ==
    ASSUME VerdictInv, stage = "judged"
    PROVE  /\ Judged = {q.report : q \in AsWritten}
           /\ Expected \in Nat \ {0}
           /\ BatchesExpected(Judged, Expected)
           /\ verdict = Detection!DetectSlowNodes(Judged, Expected)
  <1>1. /\ taken = AsWritten /\ taken # {} /\ \A q \in taken : q.size = Cardinality(taken)
        /\ verdict = Detection!DetectSlowNodes(Judged, Expected)
    BY DEF VerdictInv, Complete
  <1>2. ASSUME NEW q \in taken
        PROVE  \E text \in Text : /\ Extractable(text) /\ text.size = Cardinality(taken)
                                  /\ q.report = Extract(text)
    <2>1. PICK s \in submissions : Extractable(s.text) /\ q = Taken(s.pod.workload, s.text)
      BY <1>1, CollectedTexts, Zenon DEF AsWritten
    <2>2. s.text \in Text
      BY SubmissionsAssumption DEF VerdictInv
    <2>3. q.size = s.text.size /\ q.report = Extract(s.text)
      BY <2>1 DEF Taken
    <2> QED
      BY <1>1, <2>1, <2>2, <2>3
  <1>3. Expected \in Nat \ {0}
    <2>1. PICK text \in Text : Extractable(text) /\ text.size = Cardinality(taken)
      BY <1>1, <1>2
    <2>2. ValidSize(text.size)
      BY <2>1 DEF Extractable
    <2>3. Cardinality(taken) \in Int /\ Cardinality(taken) >= 1 /\ Cardinality(taken) % 2 = 0
      BY <2>1, <2>2, PayloadAssumption DEF ValidSize
    <2>4. Cardinality(taken) >= 2
      BY <2>3
    <2> QED
      BY <2>3, <2>4, PayloadAssumption DEF Expected, BatchCount
  <1>4. BatchesExpected(Judged, Expected)
    <2> SUFFICES ASSUME NEW x \in Detection!Results(Judged)
                 PROVE  x.batch \in 0 .. Expected - 1
      BY DEF BatchesExpected
    <2>1. PICK q \in taken : x \in q.report.results
      BY DEF Detection!Results, Judged
    <2>2. PICK text \in Text : /\ Extractable(text) /\ text.size = Cardinality(taken)
                               /\ q.report = Extract(text)
      BY <1>2
    <2>3. x \in Results(text)
      BY <2>1, <2>2 DEF Extract
    <2>4. x.batch \in 0 .. BatchCount(text.size) - 1
      BY <2>2, <2>3, ExtractedIsFit DEF FitForDetection
    <2> QED
      BY <2>2, <2>4 DEF Expected
  <1> QED
    BY <1>1, <1>3, <1>4 DEF Judged

\* Without fail-fast reports the verdict on the texts is exactly the nodes whose IP
\* failed in every expected batch (detectSlowNodes 35-49).
THEOREM VerdictExact == VerdictSpec => []ExactWithoutFailFast
  <1>1. VerdictInv => ExactWithoutFailFast
    BY JudgedWell, ExactVerdict DEF ExactWithoutFailFast
  <1> QED
    BY <1>1, VerdictInvariant, PTL

\* Nobody who ought to be named is left out (detectSlowNodes 35-49).
THEOREM VerdictMissesNobody == VerdictSpec => []NobodyMissed
  <1>1. VerdictInv => NobodyMissed
    BY JudgedWell, NobodyIsMissed DEF NobodyMissed
  <1> QED
    BY <1>1, VerdictInvariant, PTL

------------------------------------------------------------------------------
(* MetaXChecks: the schedule. *)

LEMMA Euclid ==
    ASSUME NEW d \in Nat \ {0}, NEW t \in Nat
    PROVE  /\ t \div d \in Nat /\ t % d \in 0 .. d - 1
           /\ t = d * (t \div d) + (t % d)
  OBVIOUS

\* Multiples of a number are as far apart as the number.
LEMMA Apart ==
    ASSUME NEW d \in Nat \ {0}, NEW a \in Int, NEW b \in Int, a < b
    PROVE  d * a \in Int /\ d * b \in Int /\ d * a + d <= d * b
  <1>1. d * b = d * a + d * (b - a)
    OBVIOUS
  <1>2. d * (b - a) >= d
    <2>1. b - a \in Nat \ {0}
      OBVIOUS
    <2> QED
      BY <2>1
  <1> QED
    BY <1>1, <1>2

LEMMA Remainder ==
    ASSUME NEW d \in Nat \ {0}, NEW q \in Nat, NEW s \in 0 .. d - 1
    PROVE  d * q + s \in Nat /\ (d * q + s) % d = s
  <1> DEFINE m == d * q + s
             k == m \div d
             r == m % d
  <1>1. m \in Nat
    OBVIOUS
  <1>2. k \in Nat /\ r \in 0 .. d - 1 /\ m = d * k + r
    BY <1>1, Euclid
  <1>3. d * q \in Int /\ d * k \in Int /\ d * q + s = d * k + r
    BY <1>2
  <1> HIDE DEF m, k, r
  <1>4. ~(q < k)
    BY <1>2, <1>3, Apart
  <1>5. ~(k < q)
    BY <1>2, <1>3, Apart
  <1>6. q = k
    BY <1>2, <1>4, <1>5
  <1>7. r = s
    BY <1>2, <1>3, <1>6
  <1> QED
    BY <1>1, <1>7 DEF m, r

\* The next check is at the first scheduled instant after the given one
\* (nextCheckTime 114-127).
LEMMA NextIsNext ==
    ASSUME NEW time \in Nat, NEW schedule \in 0 .. Day - 1
    PROVE  LET next == NextCheckTime(time, schedule)
           IN /\ next \in Nat /\ next > time /\ next % Day = schedule
              /\ \A t \in time + 1 .. next - 1 : t % Day # schedule
  <1> DEFINE q == time \div Day
             next == NextCheckTime(time, schedule)
  <1>1. Day \in Nat \ {0}
    BY MetaXAssumption
  <1>2. q \in Nat /\ time = Day * q + (time % Day) /\ time % Day \in 0 .. Day - 1
    BY <1>1, Euclid
  <1>3. PICK j \in Nat : /\ next = Day * j + schedule
                         /\ j = IF schedule > time % Day THEN q ELSE q + 1
    <2>1. q * Day = Day * q /\ Day * q \in Int /\ Day * (q + 1) = Day * q + Day
      BY <1>1, <1>2
    <2> HIDE DEF q
    <2>2. next = IF q * Day + schedule > time THEN q * Day + schedule ELSE q * Day + schedule + Day
      BY DEF NextCheckTime, q
    <2>3. CASE schedule > time % Day
      BY <1>1, <1>2, <2>1, <2>2, <2>3
    <2>4. CASE ~(schedule > time % Day)
      <3>1. next = Day * (q + 1) + schedule
        BY <1>1, <1>2, <2>1, <2>2, <2>4
      <3> QED
        BY <1>2, <2>4, <3>1
    <2> QED
      BY <2>3, <2>4
  <1> HIDE DEF q, next
  <1>4. next \in Nat /\ next % Day = schedule
    BY <1>1, <1>3, Remainder
  <1>5. next > time /\ Day * j \in Int /\ Day * q \in Int
    <2>1. CASE j = q
      BY <1>1, <1>2, <1>3, <2>1
    <2>2. CASE j = q + 1
      <3>1. q < j /\ q \in Int /\ j \in Int
        BY <1>2, <2>2
      <3>2. Day * q + Day <= Day * j /\ Day * q \in Int /\ Day * j \in Int
        BY <1>1, <3>1, Apart
      <3> QED
        BY <1>1, <1>2, <1>3, <3>2
    <2> QED
      BY <1>3, <2>1, <2>2
  <1>6. ASSUME NEW t \in time + 1 .. next - 1, t % Day = schedule
        PROVE  FALSE
    <2> DEFINE k == t \div Day
    <2>1. t \in Nat /\ t > time /\ t < next
      BY <1>4
    <2>2. k \in Nat /\ t = Day * k + schedule /\ Day * k \in Int
      <3>1. k \in Nat /\ t = Day * k + (t % Day)
        BY <1>1, <2>1, Euclid
      <3> QED
        BY <1>1, <1>6, <3>1
    <2> HIDE DEF k
    <2>3. k < j
      <3>1. ~(j < k) /\ j # k
        BY <1>1, <1>3, <1>5, <2>1, <2>2, Apart
      <3> QED
        BY <1>3, <2>2, <3>1
    <2>4. Day * k + Day <= Day * j
      BY <1>1, <1>3, <2>2, <2>3, Apart
    <2>5. CASE j = q
      BY <1>1, <1>2, <1>5, <2>1, <2>2, <2>4, <2>5
    <2>6. CASE j = q + 1 /\ ~(schedule > time % Day)
      <3>1. k < q \/ k = q
        BY <1>2, <2>2, <2>3, <2>6
      <3>2. Day * k <= Day * q
        BY <1>1, <1>2, <2>2, <3>1, Apart
      <3> QED
        BY <1>1, <1>2, <1>5, <2>1, <2>2, <2>6, <3>2
    <2> QED
      BY <1>3, <2>5, <2>6
  <1> QED
    BY <1>4, <1>5, <1>6 DEF next

------------------------------------------------------------------------------
(* MetaXChecks: the parsers.  What has been made of the first n lines of an *)
(* output says what those lines say.                                        *)

Output(lines) == Len(lines) \in Nat /\ DOMAIN lines = 1 .. Len(lines)

\* The i-th line is the last reading of the device among the first n.
LastUpTo(lines, n, i, device) ==
    /\ i \in Readings(lines) /\ i <= n /\ Below(lines, i, device)
    /\ \A k \in Readings(lines) : k <= n /\ Below(lines, k, device) => k <= i

LegibleUpTo(lines, n) ==
    \A i \in Readings(lines) :
        i <= n => /\ lines[i].what # Unreadable
                  /\ \E device \in Devices(lines) \ {NoDevice} : Below(lines, i, device)

ReadUpTo(p, lines, n) ==
    /\ p.ok \in BOOLEAN /\ (p.ok <=> LegibleUpTo(lines, n))
    /\ p.device # NoDevice => Below(lines, n, p.device)
    /\ \A device : Below(lines, n, device) => device = p.device
    /\ p.ok => \A device :
          /\ device \in DOMAIN p.readings => \E i \in DOMAIN lines : LastUpTo(lines, n, i, device)
          /\ \A i \in DOMAIN lines :
                LastUpTo(lines, n, i, device) =>
                    device \in DOMAIN p.readings /\ p.readings[device] = lines[i].what

\* A line that is no header leaves the device, a header names its own.
LEMMA BelowNext ==
    ASSUME NEW lines, Output(lines), NEW n \in Nat, n < Len(lines), NEW device
    PROVE  /\ lines[n + 1].kind # "device" => (Below(lines, n + 1, device) <=> Below(lines, n, device))
           /\ lines[n + 1].kind = "device" => (Below(lines, n + 1, device) <=> device = lines[n + 1].what)
  <1>1. n + 1 \in DOMAIN lines /\ \A j \in Headers(lines) : j \in Int
    BY DEF Output, Headers
  <1>2. CASE lines[n + 1].kind # "device"
    <2>1. \A j \in Headers(lines) : j <= n + 1 <=> j <= n
      BY <1>1, <1>2 DEF Headers
    <2> QED
      BY <1>2, <2>1, Zenon DEF Below
  <1>3. CASE lines[n + 1].kind = "device"
    <2>1. n + 1 \in Headers(lines)
      BY <1>1, <1>3 DEF Headers
    <2> QED
      BY <1>1, <1>3, <2>1 DEF Below
  <1> QED
    BY <1>2, <1>3

\* A line stands below one device at most.
LEMMA BelowOne ==
    ASSUME NEW lines, Output(lines), NEW i, NEW a, NEW b, Below(lines, i, a), Below(lines, i, b)
    PROVE  a = b
  <1>1. \A j \in Headers(lines) : j \in Int
    BY DEF Output, Headers
  <1>2. PICK j \in Headers(lines) : /\ j <= i /\ lines[j].what = a
                                    /\ \A k \in Headers(lines) : k <= i => k <= j
    BY DEF Below
  <1>3. PICK l \in Headers(lines) : /\ l <= i /\ lines[l].what = b
                                    /\ \A k \in Headers(lines) : k <= i => k <= l
    BY DEF Below
  <1>4. j = l
    BY <1>1, <1>2, <1>3
  <1> QED
    BY <1>2, <1>3, <1>4

\* A line that is no reading changes no last reading.
LEMMA NoReading ==
    ASSUME NEW lines, Output(lines), NEW n \in Nat, n < Len(lines), lines[n + 1].kind # "reading"
    PROVE  /\ LegibleUpTo(lines, n + 1) <=> LegibleUpTo(lines, n)
           /\ \A i, device : LastUpTo(lines, n + 1, i, device) <=> LastUpTo(lines, n, i, device)
  <1>1. \A i \in Readings(lines) : i <= n + 1 <=> i <= n
    BY DEF Readings, Output
  <1> QED
    BY <1>1, Zenon DEF LegibleUpTo, LastUpTo

\* The loop of the parsers (parseHotspotTemperatures 178-226, parseGPUIntegerMetric
\* 272-318, parseHCAStates).
LEMMA LineByLine ==
    ASSUME NEW lines, Output(lines), NEW n \in Nat, n < Len(lines),
           NEW p, p.ok, ReadUpTo(p, lines, n)
    PROVE  ReadUpTo(ReadLine(p, lines[n + 1]), lines, n + 1)
  <1> DEFINE line == lines[n + 1]
             q == ReadLine(p, line)
  <1> SUFFICES ReadUpTo(q, lines, n + 1)
    OBVIOUS
  <1>1. n + 1 \in DOMAIN lines /\ \A i \in Readings(lines) : i \in Int
    BY DEF Output, Readings
  <1>2. CASE line.kind = "device"
    <2>1. q = [ok |-> TRUE, device |-> line.what, readings |-> p.readings]
      BY <1>2, Zenon DEF ReadLine
    <2>2. q.ok = TRUE /\ q.device = line.what /\ q.readings = p.readings
      BY <2>1
    <2> HIDE DEF q
    <2>3. \A device : Below(lines, n + 1, device) <=> device = line.what
      BY <1>2, BelowNext
    <2>4. /\ LegibleUpTo(lines, n + 1)
          /\ \A i, device : LastUpTo(lines, n + 1, i, device) <=> LastUpTo(lines, n, i, device)
      BY <1>2, NoReading DEF ReadUpTo
    <2> QED
      BY <2>2, <2>3, <2>4, Zenon DEF ReadUpTo
  <1>3. CASE line.kind = "reading"
    <2> USE <1>3
    <2>1. \A device : Below(lines, n + 1, device) <=> Below(lines, n, device)
      BY BelowNext
    <2>2. n + 1 \in Readings(lines)
      BY <1>1 DEF Readings
    <2>3. \A device : Below(lines, n + 1, device) => device \in Devices(lines)
      BY Zenon DEF Below, Devices
    <2>4. LegibleUpTo(lines, n + 1) <=> p.device # NoDevice /\ line.what # Unreadable
      <3>1. \A i \in Readings(lines) : i <= n + 1 <=> i <= n \/ i = n + 1
        BY <1>1
      <3>2. LegibleUpTo(lines, n + 1) <=>
                /\ line.what # Unreadable
                /\ \E device \in Devices(lines) \ {NoDevice} : Below(lines, n + 1, device)
        <4>1. LegibleUpTo(lines, n)
          BY DEF ReadUpTo
        <4> QED
          BY <2>2, <3>1, <4>1 DEF LegibleUpTo
      <3>3. (\E device \in Devices(lines) \ {NoDevice} : Below(lines, n + 1, device)) <=> p.device # NoDevice
        BY <2>1, <2>3 DEF ReadUpTo
      <3> QED
        BY <3>2, <3>3
    <2>5. CASE p.device = NoDevice \/ line.what = Unreadable
      <3>1. q = [ok |-> FALSE, device |-> p.device, readings |-> p.readings]
        BY <2>5, Zenon DEF ReadLine
      <3>2. q.ok = FALSE /\ q.device = p.device
        BY <3>1
      <3> HIDE DEF q
      <3> QED
        BY <2>1, <2>4, <2>5, <3>2, Zenon DEF ReadUpTo
    <2>6. CASE ~(p.device = NoDevice \/ line.what = Unreadable)
      <3>1. q = [ok |-> TRUE, device |-> p.device,
                 readings |-> SetReading(p.readings, p.device, line.what)]
        BY <2>6, Zenon DEF ReadLine
      <3>2. /\ q.ok = TRUE /\ q.device = p.device
            /\ DOMAIN q.readings = DOMAIN p.readings \cup {p.device}
            /\ q.readings[p.device] = line.what
            /\ \A device \in DOMAIN p.readings : device # p.device => q.readings[device] = p.readings[device]
        BY <3>1 DEF SetReading
      <3> HIDE DEF q
      <3>3. Below(lines, n + 1, p.device)
        BY <2>1, <2>6 DEF ReadUpTo
      <3>4. \A i \in DOMAIN lines : LastUpTo(lines, n + 1, i, p.device) <=> i = n + 1
        BY <1>1, <2>2, <3>3 DEF LastUpTo
      <3>5. ASSUME NEW device, device # p.device, NEW i \in DOMAIN lines
            PROVE  LastUpTo(lines, n + 1, i, device) <=> LastUpTo(lines, n, i, device)
        <4>1. ~Below(lines, n + 1, device)
          BY <2>1, <3>5 DEF ReadUpTo
        <4>2. \A k \in Readings(lines) : k <= n + 1 /\ Below(lines, k, device)
                                             <=> k <= n /\ Below(lines, k, device)
          BY <1>1, <4>1
        <4> QED
          BY <4>2, Zenon DEF LastUpTo
      <3>6. ASSUME NEW device
            PROVE  /\ device \in DOMAIN q.readings => \E i \in DOMAIN lines : LastUpTo(lines, n + 1, i, device)
                   /\ \A i \in DOMAIN lines :
                        LastUpTo(lines, n + 1, i, device) =>
                            device \in DOMAIN q.readings /\ q.readings[device] = lines[i].what
        <4>1. CASE device = p.device
          BY <1>1, <3>2, <3>4, <4>1
        <4>2. CASE device # p.device
          <5>1. /\ device \in DOMAIN p.readings => \E i \in DOMAIN lines : LastUpTo(lines, n, i, device)
                /\ \A i \in DOMAIN lines :
                     LastUpTo(lines, n, i, device) =>
                         device \in DOMAIN p.readings /\ p.readings[device] = lines[i].what
            BY Zenon DEF ReadUpTo
          <5> QED
            BY <3>2, <3>5, <4>2, <5>1
        <4> QED
          BY <4>1, <4>2
      <3> QED
        BY <2>1, <2>4, <2>6, <3>2, <3>3, <3>6, Zenon DEF ReadUpTo
    <2> QED
      BY <2>5, <2>6
  <1>4. CASE line.kind \notin {"device", "reading"}
    <2>1. q = p
      BY <1>4, Zenon DEF ReadLine
    <2>2. \A device : Below(lines, n + 1, device) <=> Below(lines, n, device)
      BY <1>4, BelowNext
    <2>3. /\ LegibleUpTo(lines, n + 1) <=> LegibleUpTo(lines, n)
          /\ \A i, device : LastUpTo(lines, n + 1, i, device) <=> LastUpTo(lines, n, i, device)
      BY <1>4, NoReading
    <2> QED
      BY <2>1, <2>2, <2>3, Zenon DEF ReadUpTo
  <1> QED
    BY <1>2, <1>3, <1>4

\* The i-th line is the last of the first n that lists the GPU.
LastListed(lines, n, i, gpu) ==
    /\ i \in Headers(lines) /\ i <= n /\ lines[i].what = gpu
    /\ \A k \in Headers(lines) : k <= n /\ lines[k].what = gpu => k <= i

ListedUpTo(p, lines, n) ==
    /\ p.ok = TRUE
    /\ \A gpu :
        /\ gpu \in DOMAIN p.readings => \E i \in DOMAIN lines : LastListed(lines, n, i, gpu)
        /\ \A i \in DOMAIN lines :
              LastListed(lines, n, i, gpu) =>
                  gpu \in DOMAIN p.readings /\ p.readings[gpu] = lines[i].status

\* The loop of parseGPUStatuses (125-144).
LEMMA ListingLineByLine ==
    ASSUME NEW lines, Output(lines), NEW n \in Nat, n < Len(lines),
           NEW p, ListedUpTo(p, lines, n)
    PROVE  ListedUpTo(ReadStatus(p, lines[n + 1]), lines, n + 1)
  <1> DEFINE line == lines[n + 1]
             q == ReadStatus(p, line)
  <1> SUFFICES ListedUpTo(q, lines, n + 1)
    OBVIOUS
  <1>1. n + 1 \in DOMAIN lines /\ \A i \in Headers(lines) : i \in Int
    BY DEF Output, Headers
  <1>2. CASE line.kind = "device"
    <2>1. q = [ok |-> TRUE, device |-> NoDevice, readings |-> SetReading(p.readings, line.what, line.status)]
      BY <1>2, Zenon DEF ReadStatus
    <2>2. /\ q.ok = TRUE
          /\ DOMAIN q.readings = DOMAIN p.readings \cup {line.what}
          /\ q.readings[line.what] = line.status
          /\ \A gpu \in DOMAIN p.readings : gpu # line.what => q.readings[gpu] = p.readings[gpu]
      BY <2>1 DEF SetReading
    <2> HIDE DEF q
    <2>3. n + 1 \in Headers(lines)
      BY <1>1, <1>2 DEF Headers
    <2>4. \A i \in DOMAIN lines : LastListed(lines, n + 1, i, line.what) <=> i = n + 1
      BY <1>1, <2>3 DEF LastListed
    <2>5. ASSUME NEW gpu, gpu # line.what, NEW i \in DOMAIN lines
          PROVE  LastListed(lines, n + 1, i, gpu) <=> LastListed(lines, n, i, gpu)
      <3>1. \A k \in Headers(lines) : k <= n + 1 /\ lines[k].what = gpu <=> k <= n /\ lines[k].what = gpu
        BY <1>1, <2>5
      <3> QED
        BY <3>1, Zenon DEF LastListed
    <2>6. ASSUME NEW gpu
          PROVE  /\ gpu \in DOMAIN q.readings => \E i \in DOMAIN lines : LastListed(lines, n + 1, i, gpu)
                 /\ \A i \in DOMAIN lines :
                      LastListed(lines, n + 1, i, gpu) =>
                          gpu \in DOMAIN q.readings /\ q.readings[gpu] = lines[i].status
      <3>1. CASE gpu = line.what
        BY <1>1, <2>2, <2>4, <3>1
      <3>2. CASE gpu # line.what
        <4>1. /\ gpu \in DOMAIN p.readings => \E i \in DOMAIN lines : LastListed(lines, n, i, gpu)
              /\ \A i \in DOMAIN lines :
                   LastListed(lines, n, i, gpu) =>
                       gpu \in DOMAIN p.readings /\ p.readings[gpu] = lines[i].status
          BY Zenon DEF ListedUpTo
        <4> QED
          BY <2>2, <2>5, <3>2, <4>1
      <3> QED
        BY <3>1, <3>2
    <2> QED
      BY <2>2, <2>6, Zenon DEF ListedUpTo
  <1>3. CASE line.kind # "device"
    <2>1. q = p
      BY <1>3, Zenon DEF ReadStatus
    <2>2. \A i \in Headers(lines) : i <= n + 1 <=> i <= n
      BY <1>1, <1>3 DEF Headers
    <2>3. \A i, gpu : LastListed(lines, n + 1, i, gpu) <=> LastListed(lines, n, i, gpu)
      BY <2>2, Zenon DEF LastListed
    <2> QED
      BY <2>1, <2>3, Zenon DEF ListedUpTo
  <1> QED
    BY <1>2, <1>3

\* Before the first line nothing is known.
LEMMA NothingRead ==
    ASSUME NEW lines, Output(lines)
    PROVE  ReadUpTo(Unread, lines, 0) /\ ListedUpTo(Unread, lines, 0)
  <1>1. /\ Unread.ok = TRUE /\ Unread.device = NoDevice /\ DOMAIN Unread.readings = {}
    BY DEF Unread
  <1>2. \A i \in DOMAIN lines : ~(i <= 0)
    BY DEF Output
  <1>3. LegibleUpTo(lines, 0) /\ \A device : ~Below(lines, 0, device)
    BY <1>2 DEF LegibleUpTo, Below, Readings, Headers
  <1>4. \A i \in DOMAIN lines : \A d : ~LastUpTo(lines, 0, i, d) /\ ~LastListed(lines, 0, i, d)
    BY <1>2, Zenon DEF LastUpTo, LastListed
  <1> QED
    BY <1>1, <1>3, <1>4, Zenon DEF ReadUpTo, ListedUpTo

\* After the last line it is known whether the output is legible, and what it says
\* last of each device.
LEMMA ReadToTheEnd ==
    ASSUME NEW lines, Output(lines), NEW p, p.ok, ReadUpTo(p, lines, Len(lines))
    PROVE  /\ Legible(lines)
           /\ DOMAIN p.readings \subseteq Devices(lines)
           /\ \A device : LastOf(lines, device) = IF device \in DOMAIN p.readings
                                                  THEN {p.readings[device]} ELSE {}
  <1>1. \A i \in DOMAIN lines : i <= Len(lines)
    BY DEF Output
  <1>2. \A i \in Readings(lines) : i \in DOMAIN lines /\ i <= Len(lines)
    BY <1>1 DEF Readings
  <1>3. Legible(lines)
    BY <1>2, Zenon DEF ReadUpTo, LegibleUpTo, Legible
  <1>4. \A i, device : LastUpTo(lines, Len(lines), i, device) <=> IsLast(lines, i, device)
    BY <1>2, Zenon DEF LastUpTo, IsLast
  <1>5. ASSUME NEW device
        PROVE  /\ device \in DOMAIN p.readings => \E i \in DOMAIN lines : IsLast(lines, i, device)
               /\ \A i \in DOMAIN lines :
                    IsLast(lines, i, device) =>
                        device \in DOMAIN p.readings /\ p.readings[device] = lines[i].what
    BY <1>4, Zenon DEF ReadUpTo
  <1>6. DOMAIN p.readings \subseteq Devices(lines)
    <2> SUFFICES ASSUME NEW device \in DOMAIN p.readings PROVE device \in Devices(lines)
      OBVIOUS
    <2>1. PICK i \in DOMAIN lines : IsLast(lines, i, device)
      BY <1>5
    <2>2. PICK j \in Headers(lines) : lines[j].what = device
      BY <2>1, Zenon DEF IsLast, Below
    <2> QED
      BY <2>2, Zenon DEF Devices
  <1>7. ASSUME NEW device
        PROVE  LastOf(lines, device) = IF device \in DOMAIN p.readings THEN {p.readings[device]} ELSE {}
    <2>1. \A v \in LastOf(lines, device) : \E i \in DOMAIN lines : IsLast(lines, i, device) /\ v = lines[i].what
      BY <1>2 DEF LastOf
    <2>2. \A i \in DOMAIN lines : IsLast(lines, i, device) => lines[i].what \in LastOf(lines, device)
      <3>1. \A i : IsLast(lines, i, device) => i \in Readings(lines)
        BY DEF IsLast
      <3> QED
        BY <3>1 DEF LastOf
    <2> QED
      BY <1>5, <2>1, <2>2
  <1> QED
    BY <1>3, <1>6, <1>7

LEMMA ListedToTheEnd ==
    ASSUME NEW lines, Output(lines), NEW p, ListedUpTo(p, lines, Len(lines))
    PROVE  {gpu \in DOMAIN p.readings : p.readings[gpu] = "Available"} = Available(lines)
  <1>1. \A i \in Headers(lines) : i \in DOMAIN lines /\ i <= Len(lines)
    BY DEF Output, Headers
  <1>2. ASSUME NEW gpu
        PROVE  SaysAvailable(lines, gpu)
                   <=> \E i \in DOMAIN lines : LastListed(lines, Len(lines), i, gpu) /\ lines[i].status = "Available"
    BY <1>1, Zenon DEF SaysAvailable, LastListed
  <1>3. \A gpu : SaysAvailable(lines, gpu) => gpu \in Devices(lines)
    BY Zenon DEF SaysAvailable, Devices
  <1>4. ASSUME NEW gpu
        PROVE  /\ gpu \in DOMAIN p.readings => \E i \in DOMAIN lines : LastListed(lines, Len(lines), i, gpu)
               /\ \A i \in DOMAIN lines :
                    LastListed(lines, Len(lines), i, gpu) =>
                        gpu \in DOMAIN p.readings /\ p.readings[gpu] = lines[i].status
    BY Zenon DEF ListedUpTo
  <1>5. ASSUME NEW gpu
        PROVE  gpu \in DOMAIN p.readings /\ p.readings[gpu] = "Available" <=> SaysAvailable(lines, gpu)
    BY <1>2, <1>4
  <1>6. Available(lines) = {gpu \in Devices(lines) : SaysAvailable(lines, gpu)}
    BY Zenon DEF Available
  <1> QED
    BY <1>3, <1>5, <1>6

------------------------------------------------------------------------------
(* MetaXChecks: the check. *)

\* What Fit asks of a tool's output.
FitBy(t) ==
    /\ t = "listing" =>
          /\ outputs.listing # NoOutput
          /\ Cardinality(Available(outputs.listing)) >= config.gpus
    /\ t = "temperature" =>
          /\ outputs.temperature # NoOutput /\ Legible(outputs.temperature)
          /\ \A gpu \in Devices(outputs.temperature) : \A v \in LastOf(outputs.temperature, gpu) :
                ~TooHot(v, config.temperature)
    /\ t = "ecc" =>
          /\ outputs.ecc # NoOutput /\ Legible(outputs.ecc)
          /\ \A gpu \in Devices(outputs.ecc) : \A v \in LastOf(outputs.ecc, gpu) :
                ~TooManyErrors(v, config.ecc)
    /\ t = "ports" /\ config.hcas # {} =>
          /\ outputs.ports # NoOutput /\ Legible(outputs.ports)
          /\ \A hca \in config.hcas : LastOf(outputs.ports, hca) = {Active}

\* The tools that are run before the tool.
Earlier(t) ==
    CASE t = "listing"     -> {}
      [] t = "temperature" -> {"listing"}
      [] t = "ecc"         -> {"listing", "temperature"}
      [] t = "ports"       -> {"listing", "temperature", "ecc"}

Said(t, p, lines, n) ==
    IF t = "listing" THEN ListedUpTo(p, lines, n) ELSE ReadUpTo(p, lines, n)

\* While a tool's output is read, the tools before it have found nothing, and what has
\* been made of its lines is what they say.
CheckInv ==
    /\ config \in Configurations
    /\ tool \in Tools \cup {"none"}
    /\ tool # "none" =>
          /\ result = "none" /\ outputs \in Outputs
          /\ \A t \in Earlier(tool) : FitBy(t)
          /\ outputs[tool] # NoOutput => /\ at \in 0 .. Len(outputs[tool])
                                         /\ Said(tool, parsed, outputs[tool], at)
    /\ NodeJudgedByOwnReadings

LEMMA FitByTools == Fit <=> \A t \in Tools : FitBy(t)
  BY DEF Fit, FitBy, Tools

LEMMA OutputOf ==
    ASSUME NEW o \in Outputs, NEW t \in Tools, o[t] # NoOutput
    PROVE  Output(o[t])
  BY MetaXAssumption DEF Output

\* The check of what was parsed is the one of what the output says last.
LEMMA PassesRightly ==
    ASSUME CheckInv, tool \in Tools, Printed # NoOutput, parsed.ok, AllRead, ~NotRequired(tool)
    PROVE  Passes(tool, parsed.readings) <=> FitBy(tool)
  <1> DEFINE lines == outputs[tool]
             r == parsed.readings
  <1>1. Output(lines) /\ lines # NoOutput /\ Said(tool, parsed, lines, Len(lines)) /\ tool # "none"
    BY OutputOf DEF CheckInv, Printed, AllRead, Tools
  <1>2. CASE tool = "listing"
    <2>1. {gpu \in DOMAIN r : r[gpu] = "Available"} = Available(lines)
      BY <1>1, <1>2, ListedToTheEnd DEF Said
    <2>2. EnoughGPUs(r, config.gpus) <=> Cardinality(Available(lines)) >= config.gpus
      BY <2>1, Zenon DEF EnoughGPUs
    <2> QED
      BY <1>1, <1>2, <2>2 DEF Passes, FitBy
  <1>3. CASE tool # "listing"
    <2>1. /\ Legible(lines)
          /\ DOMAIN r \subseteq Devices(lines)
          /\ \A device : LastOf(lines, device) = IF device \in DOMAIN r THEN {r[device]} ELSE {}
      BY <1>1, <1>3, ReadToTheEnd DEF Said
    <2>2. CASE tool = "temperature"
      <3>1. (\A gpu \in DOMAIN r : ~TooHot(r[gpu], config.temperature))
                <=> \A gpu \in Devices(lines) : \A v \in LastOf(lines, gpu) : ~TooHot(v, config.temperature)
        BY <2>1
      <3> QED
        BY <1>1, <2>1, <2>2, <3>1 DEF Passes, FitBy
    <2>3. CASE tool = "ecc"
      <3>1. (\A gpu \in DOMAIN r : ~TooManyErrors(r[gpu], config.ecc))
                <=> \A gpu \in Devices(lines) : \A v \in LastOf(lines, gpu) : ~TooManyErrors(v, config.ecc)
        BY <2>1
      <3> QED
        BY <1>1, <2>1, <2>3, <3>1 DEF Passes, FitBy
    <2>4. CASE tool = "ports"
      <3>1. \A hca : (hca \in DOMAIN r /\ r[hca] = Active) <=> LastOf(lines, hca) = {Active}
        BY <2>1
      <3> QED
        BY <1>1, <2>1, <2>4, <3>1 DEF Passes, FitBy, NotRequired
    <2> QED
      BY <1>3, <2>2, <2>3, <2>4 DEF Tools
  <1> QED
    BY <1>2, <1>3

\* A tool passes only if its output does, and fails only if it does not.
LEMMA ToolDecides ==
    ASSUME CheckInv, tool \in Tools
    PROVE  (ToolPasses => FitBy(tool)) /\ (ToolFails => ~FitBy(tool))
  <1>1. ASSUME ToolPasses PROVE FitBy(tool)
    <2>1. CASE NotRequired(tool)
      BY <2>1 DEF NotRequired, FitBy
    <2>2. CASE ~NotRequired(tool)
      BY <1>1, <2>2, PassesRightly DEF ToolPasses
    <2> QED
      BY <2>1, <2>2
  <1>2. ASSUME ToolFails PROVE ~FitBy(tool)
    <2>1. ~NotRequired(tool)
      BY <1>2 DEF ToolFails
    <2>2. CASE Printed = NoOutput
      BY <2>1, <2>2 DEF Printed, FitBy, NotRequired, Tools
    <2>3. CASE Printed # NoOutput /\ ~parsed.ok
      <3>1. Said(tool, parsed, Printed, at)
        BY <2>3 DEF CheckInv, Printed, Tools
      <3>2. tool # "listing" /\ ~LegibleUpTo(Printed, at)
        BY <2>3, <3>1 DEF Said, ListedUpTo, ReadUpTo
      <3>3. ~Legible(Printed)
        BY <3>2, Zenon DEF Legible, LegibleUpTo
      <3> QED
        BY <2>1, <3>2, <3>3 DEF Printed, FitBy, NotRequired, Tools
    <2>4. CASE Printed # NoOutput /\ parsed.ok /\ AllRead /\ ~Passes(tool, parsed.readings)
      BY <2>1, <2>4, PassesRightly
    <2> QED
      BY <1>2, <2>2, <2>3, <2>4 DEF ToolFails
  <1> QED
    BY <1>1, <1>2

LEMMA CheckInvInit == CheckInit => CheckInv
  BY DEF CheckInit, CheckInv, NodeJudgedByOwnReadings

\* A check that ends with nothing more to show keeps the judgement it ends with.
LEMMA EndsJudged ==
    ASSUME CheckInv, NEW r, CheckEnds(r), r \in {"passed", "failed"} => (r = "passed" <=> Fit)
    PROVE  CheckInv'
  <1>1. /\ result' = r /\ tool' = "none" /\ UNCHANGED <<config, outputs>>
    BY Zenon DEF CheckEnds
  <1>2. Fit' = Fit
    BY <1>1, Zenon DEF Fit
  <1> QED
    BY <1>1, <1>2, Zenon DEF CheckInv, NodeJudgedByOwnReadings, Tools

\* A tool is run when those before it have found nothing.
LEMMA RunReady ==
    ASSUME NEW t \in Tools, Run(t), config' \in Configurations, outputs' \in Outputs,
           result' = "none", \A u \in Earlier(t) : FitBy(u)'
    PROVE  CheckInv'
  <1>1. tool' = t /\ at' = 0 /\ parsed' = Unread
    BY DEF Run
  <1>2. outputs'[t] # NoOutput => Len(outputs'[t]) \in Nat /\ Said(t, Unread, outputs'[t], 0)
    BY OutputOf, NothingRead DEF Said, Output
  <1>3. outputs'[t] # NoOutput => at' \in 0 .. Len(outputs'[t]) /\ Said(t, parsed', outputs'[t], at')
    BY <1>1, <1>2
  <1> QED
    BY <1>1, <1>3, Zenon DEF CheckInv, NodeJudgedByOwnReadings

LEMMA CheckInvNext == CheckInv /\ [CheckNext]_checkVars => CheckInv'
  <1> SUFFICES ASSUME CheckInv, [CheckNext]_checkVars
               PROVE  CheckInv'
    OBVIOUS
  <1>1. CASE CheckBegins
    <2>1. Run("listing") /\ outputs' \in Outputs /\ result' = "none" /\ config' = config
      BY <1>1 DEF CheckBegins
    <2>2. Earlier("listing") = {} /\ "listing" \in Tools
      BY DEF Earlier, Tools
    <2>3. config' \in Configurations
      BY <2>1 DEF CheckInv
    <2> QED
      BY <2>1, <2>2, <2>3, RunReady
  <1>2. CASE CheckSkipped
    BY <1>2, EndsJudged DEF CheckSkipped
  <1>3. CASE LineRead
    <2>1. /\ tool \in Tools /\ Printed # NoOutput /\ parsed.ok /\ at # Len(Printed)
          /\ at' = at + 1
          /\ parsed' = IF tool = "listing" THEN ReadStatus(parsed, Printed[at + 1])
                                           ELSE ReadLine(parsed, Printed[at + 1])
          /\ UNCHANGED <<config, outputs, tool, result>>
      BY <1>3, Zenon DEF LineRead, AllRead
    <2>2. /\ tool # "none" /\ outputs \in Outputs /\ result = "none"
          /\ at \in 0 .. Len(Printed) /\ Said(tool, parsed, Printed, at)
      BY <2>1 DEF CheckInv, Printed, Tools
    <2>3. Output(Printed)
      BY <2>1, <2>2, OutputOf DEF Printed
    <2>4. at \in Nat /\ at < Len(Printed) /\ at' \in 0 .. Len(Printed)
      <3>1. at \in 0 .. Len(Printed) /\ at # Len(Printed) /\ Len(Printed) \in Nat /\ at' = at + 1
        BY <2>1, <2>2, <2>3, Zenon DEF Output
      <3> QED
        BY <3>1
    <2>5. Said(tool, parsed', Printed, at + 1)
      BY <2>1, <2>2, <2>3, <2>4, LineByLine, ListingLineByLine DEF Said
    <2>6. outputs'[tool'] = Printed /\ Said(tool', parsed', outputs'[tool'], at')
      BY <2>1, <2>5, Zenon DEF Printed
    <2>7. \A t \in Earlier(tool') : FitBy(t)'
      BY <2>1, <2>2, Zenon DEF CheckInv, FitBy
    <2> QED
      BY <2>1, <2>2, <2>4, <2>6, <2>7, Zenon DEF CheckInv, NodeJudgedByOwnReadings
  <1>4. CASE ToolFails
    <2>1. tool \in Tools /\ CheckEnds("failed")
      BY <1>4 DEF ToolFails
    <2>2. ~Fit
      BY <1>4, <2>1, ToolDecides, FitByTools
    <2> QED
      BY <2>1, <2>2, EndsJudged
  <1>5. CASE NextTool
    <2> DEFINE t == CASE tool = "listing"     -> "temperature"
                      [] tool = "temperature" -> "ecc"
                      [] tool = "ecc"         -> "ports"
    <2>1. /\ ToolPasses /\ tool \in Tools /\ tool # "ports"
          /\ Run(t) /\ UNCHANGED <<config, outputs, result>>
      BY <1>5 DEF NextTool, ToolPasses
    <2>2. t \in Tools /\ Earlier(t) = Earlier(tool) \cup {tool}
      BY <2>1 DEF Tools, Earlier
    <2> HIDE DEF t
    <2>3. \A u \in Earlier(t) : FitBy(u)
      BY <2>1, <2>2, ToolDecides DEF CheckInv, Tools
    <2>4. \A u \in Earlier(t) : FitBy(u)'
      BY <2>1, <2>3, Zenon DEF FitBy
    <2>5. config' \in Configurations /\ outputs' \in Outputs /\ result' = "none"
      BY <2>1 DEF CheckInv, Tools
    <2> QED
      BY <2>1, <2>2, <2>4, <2>5, RunReady
  <1>6. CASE AllPassed
    <2>1. ToolPasses /\ tool \in Tools /\ tool = "ports" /\ CheckEnds("passed")
      BY <1>6 DEF AllPassed, ToolPasses
    <2>2. Tools = Earlier(tool) \cup {tool}
      BY <2>1 DEF Tools, Earlier
    <2>3. \A u \in Tools : FitBy(u)
      BY <2>1, <2>2, ToolDecides DEF CheckInv
    <2> QED
      BY <2>1, <2>3, FitByTools, EndsJudged
  <1>7. CASE UNCHANGED checkVars
    BY <1>7, Zenon DEF checkVars, CheckInv, FitBy, NodeJudgedByOwnReadings, Fit
  <1> QED
    BY <1>1, <1>2, <1>3, <1>4, <1>5, <1>6, <1>7 DEF CheckNext

\* A node passes its daily check if and only if enough GPUs say last that they are
\* available, and every reading is legible and the last one of its device within
\* the limits (check 23-57).
THEOREM JudgedByOwnReadings == CheckSpec => []NodeJudgedByOwnReadings
  <1>1. CheckInv => NodeJudgedByOwnReadings
    BY DEF CheckInv
  <1> QED
    BY <1>1, CheckInvInit, CheckInvNext, PTL DEF CheckSpec

------------------------------------------------------------------------------
(* MetaXChecks: the timer. *)

TimerInv ==
    /\ config \in Configurations
    /\ now \in Nat
    /\ due = NextCheckTime(now, config.schedule)

LEMMA TimerSet ==
    ASSUME TimerInv
    PROVE  /\ due \in Nat /\ due > now /\ due % Day = config.schedule
           /\ \A t \in now + 1 .. due - 1 : t % Day # config.schedule
  BY NextIsNext, MetaXAssumption DEF TimerInv

\* The timer is always set to the first scheduled instant after the moment it was set
\* at, however long the check took (nextCheckTime 114-127, Start 144-154).
THEOREM TimerSetToNext == CheckSpec => []NextCheckIsNext
  <1>1. CheckInit => TimerInv
    BY MetaXAssumption DEF CheckInit, TimerInv
  <1>2. TimerInv /\ [CheckNext]_checkVars => TimerInv'
    <2> SUFFICES ASSUME TimerInv, [CheckNext]_checkVars
                 PROVE  TimerInv'
      OBVIOUS
    <2>1. ASSUME NEW r, CheckEnds(r) PROVE TimerInv'
      <3>1. now' \in due .. due + MaxDuration /\ due' = NextCheckTime(now', config.schedule) /\ config' = config
        BY <2>1 DEF CheckEnds
      <3>2. now' \in Nat
        BY <3>1, TimerSet, MetaXAssumption
      <3> QED
        BY <3>1, <3>2, Zenon DEF TimerInv
    <2>2. CASE UNCHANGED <<config, now, due>>
      BY <2>2, Zenon DEF TimerInv
    <2>3. (\E r \in {"none", "passed", "failed"} : CheckEnds(r)) \/ UNCHANGED <<config, now, due>>
      BY DEF CheckNext, CheckBegins, CheckSkipped, LineRead, ToolFails, NextTool, AllPassed, checkVars
    <2> QED
      BY <2>1, <2>2, <2>3
  <1>3. TimerInv => NextCheckIsNext
    BY TimerSet DEF NextCheckIsNext
  <1> QED
    BY <1>1, <1>2, <1>3, PTL DEF CheckSpec
==============================================================================
