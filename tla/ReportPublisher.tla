--------------------------- MODULE ReportPublisher ---------------------------
(***************************************************************************)
(* pkg/preflight/report_publisher.go: the agent's collector submits a      *)
(* report, a worker writes it to the cluster, again and again if it has    *)
(* to, and records one observation event for it (report_transport.go,      *)
(* WriteReport).  The agent may crash and start anew; its collector then   *)
(* submits the reports of the pods still there again.                      *)
(*                                                                         *)
(* A report is its key: the object's name is a hash over workload UID,     *)
(* node, rank and text, so that two submissions under one key differ in    *)
(* nothing but the pod that owns them (ReportCollection).  The cluster     *)
(* collects the object when that pod is gone, and may be asked to create   *)
(* it anew.  The queue is client-go's: what is added while it is processed *)
(* waits in dirty until Done; after the shutdown additions are ignored.    *)
(***************************************************************************)
EXTENDS Integers, Sequences, FiniteSets

CONSTANTS
    Keys,       \* namespace/name of the reports
    NoKey,
    Invalid,    \* those the API server refuses for good
    MaxCrashes, \* bound: how often the agent's process ends
    MaxDeletions    \* bound: how often one report is garbage collected

ASSUME PublisherAssumption ==
    NoKey \notin Keys /\ Invalid \subseteq Keys /\ MaxCrashes \in Nat /\ MaxDeletions \in Nat

VARIABLES
    state,      \* publisherState
    ctxDone, queueShut,
    pending,
    queue, dirty, waiting,  \* to process; added again meanwhile; due after a backoff
    worker,     \* [pc, key] of run
    stop,       \* progress of Stop
    stored,     \* the reports in the cluster
    observed,   \* how many observation events each report has
    deletions,  \* history: how often each report was deleted
    accepted,   \* history: what Submit accepted in this life of the agent and is to be kept
    crashes

lifecycle == <<state, ctxDone, queueShut, stop>>
work == <<queue, dirty, waiting>>
results == <<stored, observed, deletions>>
vars == <<lifecycle, pending, work, worker, results, accepted, crashes>>

At(pc, k) == [pc |-> pc, key |-> k]
Waiting == At("get", NoKey)
Processing == IF worker.pc \in {"get", "exited"} THEN {} ELSE {worker.key}
Queued == {queue[i] : i \in 1 .. Len(queue)}

Init ==
    /\ state = "new"
    /\ ctxDone = FALSE /\ queueShut = FALSE
    /\ pending = {}
    /\ queue = <<>> /\ dirty = {} /\ waiting = {}
    /\ worker = Waiting
    /\ stop = "none"
    /\ accepted = {}
    /\ stored = {}
    /\ observed = [k \in Keys |-> 0]
    /\ deletions = [k \in Keys |-> 0]
    /\ crashes = 0

------------------------------------------------------------------------------
(* Lifecycle. *)

Start ==
    /\ state = "new"
    /\ state' = "running"
    /\ UNCHANGED <<ctxDone, queueShut, stop, pending, work, worker, results, accepted, crashes>>

ParentCancelled ==
    /\ state = "running" /\ ~ctxDone
    /\ ctxDone' = TRUE
    /\ UNCHANGED <<state, queueShut, stop, pending, work, worker, results, accepted, crashes>>

\* The goroutine that shuts the queue down; what waits for its backoff is lost.
ShutDownOnDone ==
    /\ ctxDone /\ ~queueShut
    /\ queueShut' = TRUE
    /\ waiting' = {}
    /\ UNCHANGED <<state, ctxDone, stop, pending, queue, dirty, worker, results, accepted, crashes>>

\* Stop before Start: no worker will ever run.
StopNew ==
    /\ state = "new"
    /\ state' = "stopped"
    /\ queueShut' = TRUE
    /\ worker' = At("exited", NoKey)
    /\ stop' = "returned"
    /\ UNCHANGED <<ctxDone, pending, work, results, accepted, crashes>>

StopRunning ==
    /\ state = "running"
    /\ state' = "stopped"
    /\ stop' = "waiting"
    /\ ctxDone' = TRUE
    /\ queueShut' = TRUE
    /\ waiting' = {}
    /\ UNCHANGED <<pending, queue, dirty, worker, results, accepted, crashes>>

StopReturns ==
    /\ stop = "waiting"
    /\ worker.pc = "exited"
    /\ stop' = "returned"
    /\ UNCHANGED <<state, ctxDone, queueShut, pending, work, worker, results, accepted, crashes>>

------------------------------------------------------------------------------
(* Submit, the queue and the worker. *)

AddTwice(k) ==                                                       \* mutant
    IF queueShut THEN UNCHANGED <<queue, dirty>>
    ELSE queue' = Append(queue, k) /\ UNCHANGED dirty

Add(k) ==
    IF queueShut \/ k \in dirty \cup Queued
    THEN UNCHANGED <<queue, dirty>>
    ELSE IF k \in Processing
         THEN dirty' = dirty \cup {k} /\ UNCHANGED queue
         ELSE queue' = Append(queue, k) /\ UNCHANGED dirty

\* finish(k) is about to run and deletes whatever is pending for k.
Overtaken(k) == worker.key = k /\ worker.pc \in {"created", "finish"}

Submit(k) ==
    /\ state = "running"
    /\ pending' = pending \cup {k}
    /\ Add(k)
    /\ accepted' = IF Overtaken(k) THEN accepted ELSE accepted \cup {k}
    /\ UNCHANGED <<lifecycle, waiting, worker, results, crashes>>

\* The backoff of k ends.
Due(k) ==
    /\ k \in waiting
    /\ waiting' = waiting \ {k}
    /\ Add(k)
    /\ UNCHANGED <<lifecycle, pending, worker, results, accepted, crashes>>

WorkerFrame == UNCHANGED <<lifecycle, accepted, crashes>>

Get ==
    /\ worker.pc = "get" /\ state # "new"
    /\ queue # <<>>
    /\ queue' = Tail(queue)
    /\ worker' = At(IF Head(queue) \in pending THEN "write" ELSE "done", Head(queue))
    /\ UNCHANGED <<dirty, waiting, pending, results>> /\ WorkerFrame

WorkerExitsDrained ==                                                \* mutant
    /\ worker.pc = "get" /\ state # "new"
    /\ queue = <<>> /\ queueShut /\ pending = {}
    /\ worker' = At("exited", NoKey)
    /\ UNCHANGED <<work, pending, results>> /\ WorkerFrame

WorkerExits ==
    /\ worker.pc = "get" /\ state # "new"
    /\ queue = <<>> /\ queueShut
    /\ worker' = At("exited", NoKey)
    /\ UNCHANGED <<work, pending, results>> /\ WorkerFrame

WriteCreates ==
    /\ worker.pc = "write" /\ worker.key \notin Invalid \cup stored
    /\ stored' = stored \cup {worker.key}
    /\ worker' = [worker EXCEPT !.pc = "created"]
    /\ UNCHANGED <<work, pending, observed, deletions>> /\ WorkerFrame

WriteExistsCreated ==                                                \* mutant
    /\ worker.pc = "write" /\ worker.key \in stored
    /\ worker' = [worker EXCEPT !.pc = "created"]
    /\ UNCHANGED <<work, pending, results>> /\ WorkerFrame

WriteExists ==
    /\ worker.pc = "write" /\ worker.key \in stored
    /\ worker' = [worker EXCEPT !.pc = "finish"]
    /\ UNCHANGED <<work, pending, results>> /\ WorkerFrame

WriteRefused ==
    /\ worker.pc = "write" /\ worker.key \in Invalid
    /\ worker' = [worker EXCEPT !.pc = "finish"]
    /\ UNCHANGED <<work, pending, results>> /\ WorkerFrame

RetryDropped == waiting' = waiting                                   \* mutant
\* AddRateLimited.
Retry == waiting' = IF queueShut THEN waiting ELSE waiting \cup {worker.key}

\* Any other error; the report may have been created all the same.
WriteFails ==
    /\ worker.pc = "write"
    /\ stored' \in {stored, IF worker.key \in Invalid THEN stored ELSE stored \cup {worker.key}}
    /\ Retry
    /\ worker' = [worker EXCEPT !.pc = "done"]
    /\ UNCHANGED <<queue, dirty, pending, observed, deletions>> /\ WorkerFrame

\* finish, then recordObservation if the call created the report.
Finish ==
    /\ worker.pc \in {"created", "finish"}
    /\ pending' = pending \ {worker.key}
    /\ worker' = [worker EXCEPT !.pc = IF @ = "created" THEN "observe" ELSE "done"]
    /\ UNCHANGED <<work, results>> /\ WorkerFrame

Observe ==
    /\ worker.pc = "observe"
    /\ observed' = [observed EXCEPT ![worker.key] = @ + 1]
    /\ worker' = [worker EXCEPT !.pc = "done"]
    /\ UNCHANGED <<work, pending, stored, deletions>> /\ WorkerFrame

\* The event sink's error is logged; no other attempt is made.
ObserveFails ==
    /\ worker.pc = "observe"
    /\ worker' = [worker EXCEPT !.pc = "done"]
    /\ UNCHANGED <<work, pending, results>> /\ WorkerFrame

DoneForgetsDirty ==                                                  \* mutant
    /\ worker.pc = "done"
    /\ worker' = Waiting
    /\ dirty' = dirty \ {worker.key}
    /\ UNCHANGED <<queue, waiting, pending, results>> /\ WorkerFrame

\* What was added meanwhile is queued now, even after the shutdown.
Done ==
    /\ worker.pc = "done"
    /\ worker' = Waiting
    /\ queue' = IF worker.key \in dirty THEN Append(queue, worker.key) ELSE queue
    /\ dirty' = dirty \ {worker.key}
    /\ UNCHANGED <<waiting, pending, results>> /\ WorkerFrame

------------------------------------------------------------------------------
\* The cluster collects the report of a pod that is gone.
Deleted(k) ==
    /\ k \in stored /\ deletions[k] < MaxDeletions
    /\ stored' = stored \ {k}
    /\ deletions' = [deletions EXCEPT ![k] = @ + 1]
    /\ accepted' = accepted \ {k}
    /\ UNCHANGED <<lifecycle, pending, work, worker, observed, crashes>>

\* The process ends and another one is started.
Crash ==
    /\ crashes < MaxCrashes
    /\ crashes' = crashes + 1
    /\ state' = "new"
    /\ ctxDone' = FALSE /\ queueShut' = FALSE
    /\ pending' = {}
    /\ queue' = <<>> /\ dirty' = {} /\ waiting' = {}
    /\ worker' = Waiting
    /\ stop' = "none"
    /\ accepted' = {}
    /\ UNCHANGED results

Write == WriteCreates \/ WriteExists \/ WriteRefused
ProcessNext == Get \/ Write \/ WriteFails \/ Finish \/ Observe \/ ObserveFails \/ Done

Next ==
    \/ Start \/ ParentCancelled \/ ShutDownOnDone \/ StopNew \/ StopRunning \/ StopReturns
    \/ \E k \in Keys : Submit(k) \/ Due(k) \/ Deleted(k)
    \/ ProcessNext \/ WorkerExits
    \/ Crash

Spec == Init /\ [][Next]_vars

------------------------------------------------------------------------------
(* Correctness. *)

\* The type invariant; the queue holds no key twice.
TypeOK ==
    /\ state \in {"new", "running", "stopped"}
    /\ {ctxDone, queueShut} \subseteq BOOLEAN
    /\ pending \subseteq Keys /\ dirty \subseteq Keys /\ waiting \subseteq Keys
    /\ queue \in Seq(Keys) /\ Len(queue) = Cardinality(Queued)
    /\ worker.pc \in {"get", "write", "created", "finish", "observe", "done", "exited"}
    /\ worker.key \in Keys \cup {NoKey}
    /\ stop \in {"none", "waiting", "returned"}
    /\ stored \subseteq Keys /\ observed \in [Keys -> Nat] /\ deletions \in [Keys -> 0 .. MaxDeletions]
    /\ accepted \subseteq Keys /\ crashes \in 0 .. MaxCrashes

\* An accepted report that is neither in the cluster nor refused is still pending
\* and will come up again, until the publisher is shut down: no failed attempt
\* and no submission during an attempt makes the worker forget it.
AcceptedNotForgotten ==
    \A k \in accepted \ (stored \cup Invalid) :
        \/ queueShut
        \/ k \in pending /\ k \in Queued \cup waiting \cup Processing

\* How often the report's object has been created.
Creations(k) == deletions[k] + (IF k \in stored THEN 1 ELSE 0)

\* A report never has more observation events than the times it was created,
\* however often it is submitted and its creation retried, and however often the
\* agent restarts.
ObservedOnce == \A k \in Keys : observed[k] <= Creations(k)
==============================================================================
