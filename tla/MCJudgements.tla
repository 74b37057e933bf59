---------------------------- MODULE MCJudgements ----------------------------
(***************************************************************************)
(* What kcover concludes from data: the verdict on a workload's nodes from *)
(* its preflight reports, and on a node from its daily check.  A behaviour *)
(* is about one of the two.                                                *)
(***************************************************************************)
EXTENDS PreflightVerdict, MetaXChecks, TLC

CONSTANTS n1, n2, n3, n4, ip1, ip2, ip3, ip4, w1, w2, d1, d2

------------------------------------------------------------------------------
(* Single reports, odd in what wraps the batches, in one batch, or in several. *)

Batches == [idx : {0}, pair : {{}, {ip1, ip2}, {ip2, ip3}}, self : {Absent, Invalid, ip1, ip3},
            status : {"ok", "fail", "skip"}, perf : {"invalid", "none", "below", "enough"}]

\* A batch of every kind that is read in a way of its own.
Good(idx) == [idx |-> idx, pair |-> {ip1, ip2}, self |-> ip1, status |-> "ok", perf |-> "enough"]
FewBatches ==
    UNION {{Good(i), [Good(i) EXCEPT !.perf = "below"], [Good(i) EXCEPT !.status = "fail"],
            [Good(i) EXCEPT !.status = "skip", !.pair = {}],
            [Good(i) EXCEPT !.self = Absent]} : i \in -1 .. 3}

Sound ==
    [node |-> n1, ip |-> ip1, workload |-> w1, size |-> 4, rank |-> 0, gpu |-> "pass",
     storage |-> "pass", threshold |-> "positive", junk |-> FALSE, batches |-> <<Good(0)>>]

OddEnvelopes ==
    {[Sound EXCEPT !.node = n, !.workload = w, !.size = s, !.rank = r, !.gpu = g] :
        n \in {n1, n2, Absent}, w \in {w1, w2, Absent}, s \in {-2, 0, 2, 3, 4, 6, 8},
        r \in {-1, 0, MaxRank, MaxRank + 1}, g \in {"skip", "pass", "fail"}}
OddBatch ==
    {[Sound EXCEPT !.ip = ip, !.storage = c, !.threshold = t, !.junk = j, !.batches = <<b>>] :
        ip \in {ip1, Absent}, c \in {"pass", "fail"}, j \in BOOLEAN, b \in Batches,
        t \in {"absent", "blank", "number", "bad", "zero", "positive"}}
OddBatches ==
    {[Sound EXCEPT !.size = s, !.threshold = t, !.batches = b] :
        s \in {2, 4}, t \in {"zero", "positive"},
        b \in UNION {[1 .. n -> FewBatches] : n \in {0, 2}}}

Single ==
    {{[pod |-> p, text |-> t]} : p \in [node : {n1}, workload : {w1, Absent}],
                                 t \in OddEnvelopes \cup OddBatch \cup OddBatches}

------------------------------------------------------------------------------
(* The reports of a four-node workload: three batches pair each node with each *)
(* other node once.                                                            *)

IP == (n1 :> ip1) @@ (n2 :> ip2) @@ (n3 :> ip3) @@ (n4 :> ip4)

Peer(batch, n) ==
    CASE batch = 0 -> ((n1 :> n2) @@ (n2 :> n1) @@ (n3 :> n4) @@ (n4 :> n3))[n]
      [] batch = 1 -> ((n1 :> n3) @@ (n3 :> n1) @@ (n2 :> n4) @@ (n4 :> n2))[n]
      [] OTHER     -> ((n1 :> n4) @@ (n4 :> n1) @@ (n2 :> n3) @@ (n3 :> n2))[n]

\* A skipped batch names no pair.
BatchOf(n, batch, outcome) ==
    [idx |-> batch, pair |-> IF outcome = "skip" THEN {} ELSE {IP[n], IP[Peer(batch, n)]},
     self |-> IP[n], status |-> IF outcome = "slow" THEN "ok" ELSE outcome,
     perf |-> IF outcome = "slow" THEN "below" ELSE "enough"]

TextOf(n, ip, outcome) ==
    [Sound EXCEPT !.node = n, !.ip = ip,
                  !.batches = SelectSeq([i \in 1 .. 3 |-> BatchOf(n, i - 1, outcome[i])],
                                        LAMBDA b : b.status # "missing")]

\* The first node may skip batches or leave them out, or not know its IP; its failures
\* are slow batches.
TextsOf(n) ==
    {[TextOf(n, IP[n], <<"ok", "ok", "ok">>) EXCEPT !.gpu = "fail"]} \cup
    IF n = n1 THEN {TextOf(n, ip1, o) : o \in [1 .. 3 -> {"ok", "slow", "skip", "missing"}]}
                   \cup {TextOf(n, Absent, o) : o \in [1 .. 3 -> {"slow", "skip"}]}
    ELSE {TextOf(n, IP[n], o) : o \in [1 .. 3 -> {"ok", "fail"}]}

Written(n, t) == [pod |-> [node |-> n, workload |-> w1], text |-> t]

FourNodes ==
    {{Written(n1, t1), Written(n2, t2), Written(n3, t3), Written(n4, t4)} :
        t1 \in TextsOf(n1), t2 \in TextsOf(n2), t3 \in TextsOf(n3), t4 \in TextsOf(n4)}

MCSubmissions == Single \cup FourNodes

------------------------------------------------------------------------------
(* Outputs of the tools, at most one of them odd. *)

Device(d) == [kind |-> "device", what |-> d]
Reading(v) == [kind |-> "reading", what |-> v]
OtherLine == [kind |-> "other", what |-> NoDevice]
Lines(values, n) ==
    UNION {[1 .. m -> {Device(d) : d \in {d1, d2, NoDevice}} \cup {Reading(v) : v \in values} \cup {OtherLine}] :
              m \in 0 .. n}

Listed(d, status) == [kind |-> "device", what |-> d, status |-> status]
Listings ==
    UNION {[1 .. m -> {Listed(d, s) : d \in {d1, d2}, s \in {"Available", "Lost"}} \cup {OtherLine}] :
              m \in 0 .. 3}

Healthy ==
    [listing |-> <<Listed(d1, "Available"), Listed(d2, "Available")>>,
     temperature |-> <<Device(d1), Reading(0), Device(d2), Reading(0)>>,
     ecc |-> <<Device(d1), Reading(1), Device(d2), Reading(0)>>,
     ports |-> <<Device(d1), Reading(Active)>>]

\* Both sides of the limits: a GPU at the limit is too hot, but has no error too many.
MCOutputs ==
    {[Healthy EXCEPT !.listing = l] : l \in {NoOutput} \cup Listings}
    \cup {[Healthy EXCEPT !.temperature = l] : l \in {NoOutput} \cup Lines({0, 1, NaN, Unreadable}, 4)}
    \cup {[Healthy EXCEPT !.ecc = l] : l \in {NoOutput} \cup Lines({1, 2, Unreadable}, 3)}
    \cup {[Healthy EXCEPT !.ports = l] : l \in {NoOutput} \cup Lines({Active, 0}, 3)}

Limits == [gpus |-> 2, temperature |-> 1, ecc |-> 1, hcas |-> {d1}, schedule |-> 0]
MCConfigurations ==
    {[Limits EXCEPT !.schedule = s] : s \in 0 .. Day - 1}
    \cup {[Limits EXCEPT !.gpus = 1, !.hcas = {}]}

------------------------------------------------------------------------------
vars == <<verdictVars, checkVars>>

NoReports ==
    submissions = {} /\ stage = "written" /\ collected = {} /\ taken = {} /\ verdict = {}
NoCheck ==
    /\ config = Limits /\ now = 0 /\ due = Day /\ outputs = Healthy
    /\ tool = "none" /\ at = 0 /\ parsed = Unread /\ result = "none"

\* Bound: odd outputs are those of a first check at the first schedule, which takes no time.
OddOnce ==
    outputs' # Healthy =>
        /\ outputs' = outputs \/ (now = 0 /\ config.schedule = 0)
        /\ now' \in {now, due}

Init == (VerdictInit /\ NoCheck) \/ (CheckInit /\ NoReports)

Next ==
    \/ submissions # {} /\ VerdictNext /\ UNCHANGED checkVars
    \/ submissions = {} /\ CheckNext /\ OddOnce /\ UNCHANGED verdictVars

Spec == Init /\ [][Next]_vars
==============================================================================
