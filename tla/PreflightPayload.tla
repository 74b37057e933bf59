-------------------------- MODULE PreflightPayload --------------------------
(***************************************************************************)
(* What becomes of the JSON report that a preflight run leaves on a node:  *)
(* the agent compacts it and wraps it in a PreflightReport                 *)
(* (cmd/agent/preflight_rule.go, report_event.go, BuildPreflightReport),   *)
(* the controller's watcher checks the wrapping again (validateReport) and *)
(* the aggregator reads the batches (extractNodeReport).                   *)
(*                                                                         *)
(* A report's text is a record of the fields these functions look at:      *)
(*   node, ip, workload  Absent if missing or empty                        *)
(*   size, rank          integers                                          *)
(*   gpu, storage        "skip", "pass" or "fail"                          *)
(*   threshold           "absent", "blank" (a string of blanks), "number"  *)
(*                       (not a string), "bad" (no number, or a negative   *)
(*                       one), "zero" or "positive"                        *)
(*   junk                an element of batches is not an object            *)
(*   batches             the sequence of the others; their fields are      *)
(*       idx     -1 for one that is negative or not an integer             *)
(*       pair    the set of its IPs, {} unless it has two of them          *)
(*       self    Absent if missing, Invalid if it is not an IP             *)
(*       status  "ok" for all but "fail" and "skip"                        *)
(*       perf    bandwidth: "invalid" fields, "none", "below" or "enough"  *)
(***************************************************************************)
EXTENDS Integers, Sequences

CONSTANTS
    Nodes, Workloads, IPs,
    Absent, Invalid,
    MaxBatchCount,     \* 5 in the code
    MaxWorkloadSize,   \* 10000 in the code
    MaxRank            \* 2^31 - 1 in the code

ASSUME PayloadAssumption ==
    /\ Absent # Invalid /\ {Absent, Invalid} \cap IPs = {}
    /\ MaxBatchCount \in Nat \ {0} /\ MaxWorkloadSize \in Nat /\ MaxRank \in Nat

CheckResult == {"skip", "pass", "fail"}

Batch == [idx : Int, pair : SUBSET IPs, self : IPs \cup {Absent, Invalid},
          status : {"ok", "fail", "skip"}, perf : {"invalid", "none", "below", "enough"}]

Text == [node : Nodes \cup {Absent}, ip : IPs \cup {Absent}, workload : Workloads \cup {Absent},
         size : Int, rank : Int, gpu : CheckResult, storage : CheckResult,
         threshold : {"absent", "blank", "number", "bad", "zero", "positive"},
         junk : BOOLEAN, batches : Seq(Batch)]

\* A pod without an owner has no workload.
Pod == [node : Nodes, workload : Workloads \cup {Absent}]

------------------------------------------------------------------------------
(* The agent. *)

Parses(text) == text.node # Absent

ValidSize(size) == size \in 1 .. MaxWorkloadSize /\ size % 2 = 0

\* CompactReport refuses what it cannot take over field by field.
Compactable(text) == Parses(text) /\ text.threshold # "number" /\ ~text.junk

CompactLosingThreshold(text) ==                                      \* mutant
    [text EXCEPT !.workload = Absent, !.threshold = "absent"]

Compact(text) ==
    [text EXCEPT !.workload = Absent,
                 !.threshold = IF @ = "blank" THEN "absent" ELSE @]

\* What is asked of a report but for its checks of pairs.
Enveloped(pod, text) ==
    /\ pod.workload # Absent
    /\ text.node = pod.node
    /\ text.rank \in 0 .. MaxRank
    /\ ValidSize(text.size)

\* reconcile, for a pod that has an owner and whose preflight has ended.
Collectable(pod, text) == Enveloped(pod, text) /\ Compactable(text)

\* The PreflightReport it submits.
Collect(pod, text) ==
    [workload |-> pod.workload, node |-> pod.node, rank |-> text.rank, report |-> Compact(text)]

------------------------------------------------------------------------------
(* The watcher. *)

ValidNamed(r) ==                                                     \* mutant
    /\ Parses(r.report) /\ ValidSize(r.report.size)
    /\ r.report.node = r.node /\ r.report.rank = r.rank
    /\ r.report.workload = r.workload

Valid(r) ==
    /\ Parses(r.report) /\ ValidSize(r.report.size)
    /\ r.report.node = r.node /\ r.report.rank = r.rank
    /\ r.report.workload \in {Absent, r.workload}

------------------------------------------------------------------------------
(* The aggregator. *)

BatchCount(size) == IF size - 1 < MaxBatchCount THEN size - 1 ELSE MaxBatchCount

FailFast(text) == "fail" \in {text.gpu, text.storage}

\* Batches past the ones that count are not looked at.
Considered(text) ==
    {text.batches[i] : i \in {j \in DOMAIN text.batches :
                                text.batches[j].idx < BatchCount(text.size)}}

Self(text, b) == IF b.self = Absent THEN text.ip ELSE b.self

\* A skipped batch may name no pair; its reporter then stands at both ends.
Ends(b) == IF b.pair = {} THEN {b.self} ELSE b.pair

Identified(text, b) ==
    \/ b.pair # {} /\ Self(text, b) \in b.pair
    \/ b.pair = {} /\ b.status = "skip" /\ b.self \notin {Absent, Invalid}

\* The bandwidth is looked at only where there is a threshold.
Gated(text, b) == b.status = "ok" /\ text.threshold = "positive"

Failed(text, b) ==
    \/ b.status \in {"fail", "skip"}
    \/ Gated(text, b) /\ b.perf \in {"none", "below"}

Readable(text, b) ==
    /\ b.idx >= 0
    /\ Identified(text, b)
    /\ Gated(text, b) => b.perf # "invalid"

AllowsDuplicates(text) == TRUE                                       \* mutant
NoDuplicates(text) ==
    \A i, j \in DOMAIN text.batches :
        /\ i # j
        /\ text.batches[i].idx = text.batches[j].idx
        => text.batches[i].idx >= BatchCount(text.size)

\* extractNodeReport succeeds.
Extractable(text) ==
    /\ Parses(text) /\ ValidSize(text.size)
    /\ ~FailFast(text) =>
        /\ ~text.junk
        /\ text.threshold \notin {"number", "bad"}
        /\ \A b \in Considered(text) : Readable(text, b)
        /\ NoDuplicates(text)

Results(text) ==
    IF FailFast(text) THEN {}
    ELSE {[batch |-> b.idx, pair |-> Ends(b), failed |-> Failed(text, b)] : b \in Considered(text)}

\* The report as the detection of slow nodes gets it: without results it counts
\* as one that failed fast.
Extract(text) ==
    [node |-> text.node, ip |-> text.ip, results |-> Results(text),
     failFast |-> FailFast(text) \/ Results(text) = {}]

------------------------------------------------------------------------------
(* What the detection takes for granted: a report has at most one result per *)
(* batch, of a batch that counts; the reporter is an end of every pair,      *)
(* skipped batches included (report_parser.go 93-182).                       *)

FitForDetection(text) ==
    /\ \A x \in Results(text) : x.batch \in 0 .. BatchCount(text.size) - 1
    /\ \A x, y \in Results(text) : x.batch = y.batch => x = y
    /\ \A x \in Results(text) :
          \E b \in Considered(text) : b.idx = x.batch /\ Self(text, b) \in x.pair
==============================================================================
