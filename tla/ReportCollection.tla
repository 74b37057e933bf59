--------------------------- MODULE ReportCollection ---------------------------
(***************************************************************************)
(* One agent and the preflight pods of its node: cmd/agent/app.go and      *)
(* main.go start and stop the publisher and the report collector, a pod    *)
(* observer with the rule of cmd/agent/preflight_rule.go.                  *)
(*                                                                         *)
(* The pods here are those whose report lies in one file: they have their  *)
(* workload's name and their rank in common.  Some belong to one run of    *)
(* the workload (a retried pod of an indexed Job), others to an earlier or *)
(* later run of that name, with a UID of its own.  The file stays on the   *)
(* node when a pod goes.  A pod's preflight container writes the file or   *)
(* ends without having done so; that container is not in src/.             *)
(***************************************************************************)
EXTENDS ReportPublisher

CONSTANTS
    Pods, NoPod,
    Runs,       \* UIDs of the workload's runs
    Texts, NoText

ASSUME CollectionAssumption == NoPod \notin Pods /\ NoText \notin Texts /\ Keys = Runs \X Texts

VARIABLES
    agent,      \* how far the agent's Start or Stop has come
    run,        \* the run each pod belongs to
    phase,      \* of each pod's preflight container
    file,       \* the text in the report file, NoText while it cannot be parsed
    own,        \* history: the text each pod wrote
    inbox,      \* pods the collector's informer has a notification of
    pendingOwner, heldOwner, objectOwner,   \* owner of the report in pending, in
                                            \* the worker's hand, in the cluster
    lost        \* history: pods there whose file was overwritten before its report was in
                \* safe hands, or whose report went with another pod

node == <<run, phase, file, own>>
owners == <<pendingOwner, heldOwner, objectOwner>>
collectionVars == <<vars, agent, node, inbox, owners, lost>>

\* BuildPreflightReport names the report; file and rank are the same for all pods.
ReportOf(p, t) == <<run[p], t>>
NoOwners == [k \in Keys |-> NoPod]
Ended == {p \in Pods : phase[p] = "ended"}

CollectionInit ==
    /\ Init
    /\ agent = "off"
    /\ run \in [Pods -> Runs]
    /\ phase = [p \in Pods |-> "running"]
    /\ file = NoText
    /\ own = [p \in Pods |-> NoText]
    /\ inbox = {}
    /\ pendingOwner = NoOwners /\ heldOwner = NoPod /\ objectOwner = NoOwners
    /\ lost = {}

------------------------------------------------------------------------------
(* The pods.  The informer, while it runs, has notice of what it watches; the *)
(* rule takes no notice of a container that has not terminated.               *)

Notice(p) == inbox' = IF agent = "running" THEN inbox \cup {p} ELSE inbox

\* A report that the agent has accepted, or that is in the cluster, survives its file.
PodWrites(p) ==
    /\ phase[p] = "running"
    /\ phase' = [phase EXCEPT ![p] = "writing"]
    /\ file' = NoText
    /\ lost' = lost \cup {q \in Ended : ReportOf(q, own[q]) \notin accepted \cup stored}
    /\ UNCHANGED <<vars, agent, run, own, inbox, owners>>

\* The container has written its report and terminates.
PodReports(p, t) ==
    /\ phase[p] = "writing"
    /\ phase' = [phase EXCEPT ![p] = "ended"]
    /\ file' = t
    /\ own' = [own EXCEPT ![p] = t]
    /\ Notice(p)
    /\ UNCHANGED <<vars, agent, run, owners, lost>>

\* It terminates without a report, or with half of one.
PodFails(p) ==
    /\ phase[p] \in {"running", "writing"}
    /\ phase' = [phase EXCEPT ![p] = "ended"]
    /\ Notice(p)
    /\ UNCHANGED <<vars, agent, run, file, own, owners, lost>>

\* The pod changes later on, as its containers start and end.
PodUpdated(p) ==
    /\ p \in Ended /\ agent = "running" /\ p \notin inbox
    /\ Notice(p)
    /\ UNCHANGED <<vars, agent, node, owners, lost>>

\* A pod is removed after its containers have ended.
PodGone(p) ==
    /\ p \in Ended
    /\ phase' = [phase EXCEPT ![p] = "gone"]
    /\ lost' = lost \ {p}
    /\ UNCHANGED <<vars, agent, run, file, own, inbox, owners>>

\* The report's owner reference leads to a pod that is gone.
GarbageCollected(k) ==
    /\ k \in stored /\ phase[objectOwner[k]] = "gone"
    /\ Deleted(k)
    /\ objectOwner' = [objectOwner EXCEPT ![k] = NoPod]
    /\ lost' = lost \cup {p \in Ended : ReportOf(p, own[p]) = k}
    /\ UNCHANGED <<agent, node, inbox, pendingOwner, heldOwner>>

------------------------------------------------------------------------------
(* The collector: reconcile reads the file and submits what is in it.  One     *)
(* goroutine of the informer calls it.                                         *)

CollectNothing(p) ==
    /\ agent = "running" /\ p \in inbox
    /\ file = NoText
    /\ inbox' = inbox \ {p}
    /\ UNCHANGED <<vars, agent, node, owners, lost>>

\* A refused submission is logged and dropped.
Collect(p) ==
    /\ agent = "running" /\ p \in inbox
    /\ file # NoText
    /\ inbox' = inbox \ {p}
    /\ IF state = "running"
       THEN /\ Submit(ReportOf(p, file))
            /\ pendingOwner' = [pendingOwner EXCEPT ![ReportOf(p, file)] = p]
            /\ lost' = IF Overtaken(ReportOf(p, file)) THEN lost \cup (Ended \cap {p}) ELSE lost
       ELSE UNCHANGED <<vars, pendingOwner, lost>>
    /\ UNCHANGED <<agent, node, heldOwner, objectOwner>>

Collecting(p) == CollectNothing(p) \/ Collect(p)

------------------------------------------------------------------------------
(* The publisher's worker, and the owner of the report it holds. *)

WorkerTakes ==
    /\ Get
    /\ heldOwner' = IF worker'.pc = "write" THEN pendingOwner[worker'.key] ELSE NoPod
    /\ UNCHANGED <<agent, node, inbox, pendingOwner, objectOwner, lost>>

AnswerFrame ==
    /\ objectOwner' = [k \in Keys |-> IF k \in stored' \ stored THEN heldOwner ELSE objectOwner[k]]
    /\ heldOwner' = NoPod
    /\ UNCHANGED <<agent, node, inbox, pendingOwner, lost>>

WorkerWrites == Write /\ AnswerFrame
WorkerFails == WriteFails /\ AnswerFrame

WorkerFinishes ==
    /\ Finish
    /\ pendingOwner' = [pendingOwner EXCEPT ![worker.key] = NoPod]
    /\ UNCHANGED <<agent, node, inbox, heldOwner, objectOwner, lost>>

WorkerGoesOn ==
    /\ Observe \/ ObserveFails \/ Done \/ WorkerExits
    /\ UNCHANGED <<agent, node, inbox, owners, lost>>

BackoffEnds(k) ==
    /\ Due(k)
    /\ UNCHANGED <<agent, node, inbox, owners, lost>>

QueueShutDown ==
    /\ ShutDownOnDone
    /\ UNCHANGED <<agent, node, inbox, owners, lost>>

------------------------------------------------------------------------------
(* The agent: Start starts publisher and collector in this order, Stop stops *)
(* them in the reverse order.  (The node detector between them is in         *)
(* NodeQuarantine; its Start does not fail: an unusable schedule has been    *)
(* replaced by the default.)                                                 *)

AgentStarts ==
    /\ agent = "off"
    /\ Start
    /\ agent' = "publishing"
    /\ UNCHANGED <<node, inbox, owners, lost>>

CollectorStartsBlank ==                                              \* mutant
    /\ agent = "publishing"
    /\ agent' = "running"
    /\ UNCHANGED <<vars, node, inbox, owners, lost>>

\* ShouldHandleInitialList: the pods that have ended before are handled too.
CollectorStarts ==
    /\ agent = "publishing"
    /\ agent' = "running"
    /\ inbox' = Ended
    /\ UNCHANGED <<vars, node, owners, lost>>

\* SIGTERM: the context of publisher and collector is cancelled at once, whatever
\* Start has done so far.  (Not by the last life of the agent that the bound leaves.)
Terminated ==
    /\ crashes < MaxCrashes
    /\ ParentCancelled
    /\ UNCHANGED <<agent, node, inbox, owners, lost>>

\* The observer's Stop waits for the informer, which drops its notifications.
CollectorStops ==
    /\ agent = "running" /\ ctxDone
    /\ agent' = "collectorGone"
    /\ inbox' = {}
    /\ UNCHANGED <<vars, node, owners, lost>>

PublisherStops ==
    /\ agent = "collectorGone"
    /\ StopRunning
    /\ agent' = "stopping"
    /\ UNCHANGED <<node, inbox, owners, lost>>

AgentExits ==
    /\ StopReturns
    /\ agent' = "exited"
    /\ UNCHANGED <<node, inbox, owners, lost>>

\* The agent is restarted, after its exit or a crash.  What it had not written yet is
\* lost if the file holds something else by now.
AgentRestarts ==
    /\ agent # "off"
    /\ Crash
    /\ agent' = "off"
    /\ inbox' = {}
    /\ pendingOwner' = NoOwners /\ heldOwner' = NoPod
    /\ lost' = lost \cup {p \in Ended : file # own[p] /\ ReportOf(p, own[p]) \notin stored}
    /\ UNCHANGED <<node, objectOwner>>

------------------------------------------------------------------------------
\* What the agent's main goroutine does next, and kubelet once it has exited.
AgentProgress ==
    \/ AgentStarts \/ CollectorStarts \/ CollectorStops \/ PublisherStops \/ AgentExits
    \/ agent = "exited" /\ AgentRestarts

AgentNext == AgentProgress \/ AgentRestarts \/ Terminated

WorkerNext == WorkerTakes \/ WorkerWrites \/ WorkerFails \/ WorkerFinishes \/ WorkerGoesOn

CollectionNext ==
    \/ AgentNext \/ WorkerNext \/ QueueShutDown
    \/ \E p \in Pods :
        \/ PodWrites(p) \/ PodFails(p) \/ PodUpdated(p) \/ PodGone(p)
        \/ \E t \in Texts : PodReports(p, t)
        \/ Collecting(p)
    \/ \E k \in Keys : GarbageCollected(k) \/ BackoffEnds(k)

CollectionSpec == CollectionInit /\ [][CollectionNext]_collectionVars

\* Goroutines are scheduled, backoffs end, a write that is tried again and again is
\* answered some time, and an agent that has exited is started again.  Nothing is
\* assumed of the pods, of termination or of crashes.
CollectionFairness ==
    /\ WF_collectionVars(WorkerNext) /\ WF_collectionVars(QueueShutDown)
    /\ \A k \in Keys :
        WF_collectionVars(BackoffEnds(k)) /\ SF_collectionVars(worker.key = k /\ WorkerWrites)
    /\ \A p \in Pods : WF_collectionVars(Collecting(p))
    /\ WF_collectionVars(AgentProgress)

FairCollectionSpec == CollectionSpec /\ CollectionFairness

------------------------------------------------------------------------------
(* Correctness. *)

\* The type invariant.
CollectionTypeOK ==
    /\ TypeOK
    /\ agent \in {"off", "publishing", "running", "collectorGone", "stopping", "exited"}
    /\ run \in [Pods -> Runs]
    /\ phase \in [Pods -> {"running", "writing", "ended", "gone"}]
    /\ file \in Texts \cup {NoText} /\ own \in [Pods -> Texts \cup {NoText}]
    /\ {inbox, lost} \subseteq SUBSET Pods
    /\ {pendingOwner, objectOwner} \subseteq [Keys -> Pods \cup {NoPod}]
    /\ heldOwner \in Pods \cup {NoPod}
    /\ \A k \in Keys : (k \in stored <=> objectOwner[k] # NoPod) /\ (k \in pending <=> pendingOwner[k] # NoPod)

\* A report written by a pod reaches the cluster, through restarts of the agent at
\* any moment and failing writes, unless it is refused, the pod goes, the object went with
\* another pod that owned it, or another pod overwrites the file before the agent has
\* accepted the report, or an agent ends that has accepted it but not written it.
ReportReachesCluster ==
    \A p \in Pods, t \in Texts :
        (p \in Ended /\ own[p] = t) ~>
            \/ ReportOf(p, t) \in stored \cup Invalid
            \/ phase[p] = "gone" \/ p \in lost

\* After SIGTERM the agent comes to its end, whatever is queued.
AgentStops == ctxDone ~> (agent = "exited" \/ ~ctxDone)

\* What is stored for a run has been written by a pod of that run.  (It has not: see
\* the run ReportCollectionMixed.)
TextOfItsRun ==
    \A k \in stored : \E p \in Pods : k = ReportOf(p, own[p])
==============================================================================
