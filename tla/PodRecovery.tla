----------------------------- MODULE PodRecovery -----------------------------
(***************************************************************************)
(* The recovery of a job from the failure of one of its pods, end to end:  *)
(* pkg/detector/pod and pkg/podobserver notice a terminated container,     *)
(* pkg/events records it as a Kubernetes Event and forwards young Events,  *)
(* and pkg/recovery decides on each and deletes the job's pods, whose      *)
(* containers are then stopped and may be seen to terminate as well.  All  *)
(* of them run in the leading controller process; a change of leader loses *)
(* what was in flight, but for the call the deposed leader is in, and the  *)
(* next leader starts from the cluster's pods and Events (cmd/kcover).     *)
(*                                                                         *)
(* The ledger's Get and Update are one step here: JobRestartLedger shows   *)
(* that no other write comes between them.  The queues are sets, for the   *)
(* transport does not keep the order of events (KubeEventTransport).       *)
(***************************************************************************)
EXTENDS RestartWindow, FiniteSets

CONSTANTS
    Pods,            \* pods are known by their names
    JobOf,           \* the job label of each pod
    Watched,         \* pods with a cascading-recovery label
    PodOptIn,        \* pods whose label is "true"
    JobOptIn,        \* jobs whose label is "true"
    NeverRestarted,  \* pods with restartPolicy Never
    EventMaxAge,     \* eventMaxAge
    Grace,           \* the time a deleted pod takes to be gone, at most
    MaxDelay,        \* the time an observation takes to be answered, at most
    MaxSkew,         \* how far a controller's clock runs ahead, at most
    MaxClock,        \* bound: time stops here
    MaxFailures,     \* bound: container failures
    MaxFaults,       \* bound: failed requests
    MaxTakeovers     \* bound: changes of leader

ASSUME PodRecoveryAssumption ==
    /\ Pods # {} /\ JobOf \in [Pods -> Jobs]
    /\ PodOptIn \subseteq Watched /\ Watched \subseteq Pods
    /\ JobOptIn \subseteq Jobs /\ NeverRestarted \subseteq Pods
    /\ TTL \in Nat /\ EventMaxAge \in Nat
    /\ Grace \in Nat /\ MaxDelay \in Nat /\ MaxSkew \in Nat
    /\ MaxClock \in Nat /\ MaxFailures \in Nat /\ MaxFaults \in Nat /\ MaxTakeovers \in Nat

VARIABLES
    clock,
    pod,         \* per name: the state of the pod that has it
    goneBy,      \* per name: when the pod, which was deleted, is gone, or NoStamp
    lastEvent,   \* per name: when its last Event in the cluster occurred, or NoStamp
    ledger,      \* per job: the restart recorded last, or NoStamp
    leader,      \* is a controller process leading?
    noticed,     \* observations of the pod detector, not yet recorded
    queue,       \* Events forwarded to the recovery controller
    calls,       \* onPodError in each leader's process: the observation, what it does
                 \* next, and the time that it asks the ledger with
    broken,      \* history: a pod of the job failed since its pods were deleted
    lost,        \* history: why a broken job need not be restarted
    failures, faults, takeovers

cluster == <<clock, pod, goneBy, lastEvent>>
pipeline == <<leader, noticed, queue, calls>>
counters == <<failures, faults, takeovers>>
vars == <<cluster, ledger, pipeline, broken, lost, counters>>

\* The leaders one after the other; the last is the present one, or the next.
Terms == 0 .. MaxTakeovers
Present == takeovers

\* An observation: the pod's name, when the controller made it, and whether it is
\* an Event that a former leader had recorded.
Observation == [pod : Pods, since : Nat, replayed : BOOLEAN]
Seen(p) == [pod |-> p, since |-> clock, replayed |-> FALSE]
Replayed(p) == [pod |-> p, since |-> clock, replayed |-> TRUE]

Call == [pc : {"idle", "allow", "ask", "delete"}, item : Observation, now : Nat]
Idle == [pc |-> "idle", now |-> 0,
         item |-> [pod |-> CHOOSE p \in Pods : TRUE, since |-> 0, replayed |-> FALSE]]

Job(i) == JobOf[i.pod]
JobAt(t) == Job(calls[t].item)
PodsOf(j) == {p \in Pods : JobOf[p] = j}
Deleting(p) == goneBy[p] # NoStamp

\* isRecoveryEnabledForPod, and the checks of onPodError that follow it.
Answerable(p) ==
    /\ p \in PodOptIn \/ JobOf[p] \in JobOptIn
    /\ p \notin NeverRestarted

Init ==
    /\ clock = 0
    /\ pod \in [Pods -> {"running", "missing"}]
    /\ goneBy = [p \in Pods |-> NoStamp]
    /\ lastEvent = [p \in Pods |-> NoStamp]
    /\ ledger = [j \in Jobs |-> NoStamp]
    /\ leader = TRUE
    /\ noticed = {} /\ queue = {}
    /\ calls = [t \in Terms |-> Idle]
    /\ broken = [j \in Jobs |-> FALSE]
    /\ lost = [j \in Jobs |-> FALSE]
    /\ failures = 0 /\ faults = 0 /\ takeovers = 0

------------------------------------------------------------------------------
(* The cluster: kubelets, the training operator, time. *)

Notice(p) == noticed' = IF leader /\ p \in Watched THEN noticed \cup {Seen(p)} ELSE noticed

\* A container of p terminates with reason Error; the informer sees it.
Fail(p) ==
    /\ failures < MaxFailures
    /\ failures' = failures + 1
    /\ pod[p] = "running" /\ ~Deleting(p)
    /\ pod' = [pod EXCEPT ![p] = "terminated"]
    /\ broken' = [broken EXCEPT ![JobOf[p]] = TRUE]
    /\ Notice(p)
    /\ UNCHANGED <<clock, goneBy, lastEvent, ledger, leader, queue, calls, lost, faults, takeovers>>

\* The kubelet stops the container of a deleted pod, which ends with an exit code
\* other than zero, hence with reason Error as well.
Stopped(p) ==
    /\ pod[p] = "running" /\ Deleting(p)
    /\ pod' = [pod EXCEPT ![p] = "terminated"]
    /\ Notice(p)
    /\ UNCHANGED <<clock, goneBy, lastEvent, ledger, leader, queue, calls, broken, lost, counters>>

\* Another container of p changes its status: the terminated one is reported again.
StatusChanges(p) ==
    /\ leader /\ p \in Watched
    /\ pod[p] = "terminated"
    /\ Notice(p)
    /\ UNCHANGED <<cluster, ledger, leader, queue, calls, broken, lost, counters>>

\* The kubelet restarts the container in place.
KubeletRestarts(p) ==
    /\ p \notin NeverRestarted
    /\ pod[p] = "terminated" /\ ~Deleting(p)
    /\ pod' = [pod EXCEPT ![p] = "running"]
    /\ UNCHANGED <<clock, goneBy, lastEvent, ledger, pipeline, broken, lost, counters>>

\* The last container of a deleted pod has ended, and the pod is removed.
Gone(p) ==
    /\ Deleting(p)
    /\ pod' = [pod EXCEPT ![p] = "missing"]
    /\ goneBy' = [goneBy EXCEPT ![p] = NoStamp]
    /\ UNCHANGED <<clock, lastEvent, ledger, pipeline, broken, lost, counters>>

\* The training operator creates a pod, or a deleted one anew under its old name.
Create(p) ==
    /\ pod[p] = "missing"
    /\ pod' = [pod EXCEPT ![p] = "running"]
    /\ UNCHANGED <<clock, goneBy, lastEvent, ledger, pipeline, broken, lost, counters>>

InFlight ==
    noticed \cup queue \cup {calls[t].item : t \in {u \in Terms : calls[u].pc # "idle"}}

\* MaxDelay bounds the time an observation stays in flight, Grace that of a
\* deleted pod.
Tick ==
    /\ clock < MaxClock
    /\ \A i \in InFlight : clock < i.since + MaxDelay
    /\ \A p \in Pods : Deleting(p) => clock < goneBy[p]
    /\ clock' = clock + 1
    /\ UNCHANGED <<pod, goneBy, lastEvent, ledger, pipeline, broken, lost, counters>>

------------------------------------------------------------------------------
(* The sink and the transport. *)

\* The Event names the pod that has the name now; it is forwarded at once.
Record(i) ==
    /\ i \in noticed
    /\ pod[i.pod] # "missing"
    /\ lastEvent' = [lastEvent EXCEPT ![i.pod] = clock]
    /\ noticed' = noticed \ {i}
    /\ queue' = queue \cup {i}
    /\ UNCHANGED <<clock, pod, goneBy, ledger, leader, calls, broken, lost, counters>>

RecordGone(i) ==
    /\ i \in noticed
    /\ pod[i.pod] = "missing"
    /\ noticed' = noticed \ {i}
    /\ UNCHANGED <<cluster, ledger, leader, queue, calls, broken, lost, counters>>

------------------------------------------------------------------------------
(* RecoveryController: onPodError, one observation at a time. *)

\* The observation is not acted upon any further.
GiveUp(j) == lost' = [lost EXCEPT ![j] = broken[j]]

Return(t) == calls' = [calls EXCEPT ![t] = Idle]

GetPod(i) ==
    /\ i \in queue
    /\ calls[Present].pc = "idle"
    /\ pod[i.pod] # "missing" /\ Answerable(i.pod)
    /\ queue' = queue \ {i}
    /\ calls' = [calls EXCEPT ![Present] = [Idle EXCEPT !.pc = "allow", !.item = i]]
    /\ UNCHANGED <<cluster, ledger, leader, noticed, broken, lost, counters>>

SkipPod(i) ==
    /\ i \in queue
    /\ calls[Present].pc = "idle"
    /\ pod[i.pod] = "missing" \/ ~Answerable(i.pod)
    /\ queue' = queue \ {i}
    /\ UNCHANGED <<cluster, ledger, leader, noticed, calls, broken, lost, counters>>

\* allowRestart reads the clock, before its first request.
AskLedger(t) ==
    /\ calls[t].pc = "allow"
    /\ \E now \in clock .. clock + MaxSkew :
           calls' = [calls EXCEPT ![t].pc = "ask", ![t].now = now]
    /\ UNCHANGED <<cluster, ledger, leader, noticed, queue, broken, lost, counters>>

WindowOver(t) == ~Live(ledger, JobAt(t), calls[t].now)

AllowRestartUnrecorded(t) ==                                         \* mutant
    /\ calls[t].pc = "ask"
    /\ WindowOver(t)
    /\ calls' = [calls EXCEPT ![t].pc = "delete"]
    /\ UNCHANGED <<cluster, ledger, leader, noticed, queue, broken, lost, counters>>

\* The time recorded is the one the call began with, however late the answer.
AllowRestart(t) ==
    /\ calls[t].pc = "ask"
    /\ WindowOver(t)
    /\ ledger' = Recorded(ledger, JobAt(t), calls[t].now)
    /\ calls' = [calls EXCEPT ![t].pc = "delete"]
    /\ UNCHANGED <<cluster, leader, noticed, queue, broken, lost, counters>>

DenyRestart(t) ==
    /\ calls[t].pc = "ask"
    /\ ~WindowOver(t)
    /\ Return(t)
    /\ GiveUp(JobAt(t))
    /\ UNCHANGED <<cluster, ledger, leader, noticed, queue, broken, counters>>

\* The pods of j that DeleteCollection finds to delete, whatever their state.
Deletable(j) == {p \in PodsOf(j) : pod[p] # "missing" /\ ~Deleting(p)}

\* Deletion is graceful: a pod stays until its containers have ended, and every
\* pod of the job is dealt with if all were deleted.
Delete(j, some) ==
    /\ goneBy' = [p \in Pods |-> IF p \in some THEN clock + Grace ELSE goneBy[p]]
    /\ broken' = [broken EXCEPT ![j] = @ /\ some # Deletable(j)]

\* DeleteCollection: every pod with the job's label.
RestartJob(t) ==
    /\ calls[t].pc = "delete"
    /\ Delete(JobAt(t), Deletable(JobAt(t)))
    /\ lost' = [lost EXCEPT ![JobAt(t)] = FALSE]
    /\ Return(t)
    /\ UNCHANGED <<clock, pod, lastEvent, ledger, leader, noticed, queue, counters>>

------------------------------------------------------------------------------
(* Failed requests: logged, and the observation is dropped. *)

Fault == faults < MaxFaults /\ faults' = faults + 1 /\ UNCHANGED <<failures, takeovers>>

RecordFails(i) ==
    /\ Fault
    /\ i \in noticed
    /\ noticed' = noticed \ {i}
    /\ GiveUp(Job(i))
    /\ UNCHANGED <<cluster, ledger, leader, queue, calls, broken>>

GetPodFails(i) ==
    /\ Fault
    /\ i \in queue
    /\ calls[Present].pc = "idle"
    /\ queue' = queue \ {i}
    /\ GiveUp(Job(i))
    /\ UNCHANGED <<cluster, ledger, leader, noticed, calls, broken>>

\* A leader's requests may fail; a deposed leader's are cancelled, unless they are
\* done before.
Deposed(t) == t < Present
RequestFails(t) == IF Deposed(t) THEN UNCHANGED counters ELSE Fault

AllowFails(t) ==
    /\ calls[t].pc = "allow"
    /\ RequestFails(t)
    /\ Return(t)
    /\ IF Deposed(t) THEN UNCHANGED lost ELSE GiveUp(JobAt(t))
    /\ UNCHANGED <<cluster, ledger, leader, noticed, queue, broken>>

\* The ledger's write may have been applied all the same.
AskLedgerFails(t) ==
    /\ calls[t].pc = "ask"
    /\ RequestFails(t)
    /\ \/ ledger' = ledger
       \/ WindowOver(t) /\ ledger' = Recorded(ledger, JobAt(t), calls[t].now)
    /\ Return(t)
    /\ IF Deposed(t) THEN UNCHANGED lost ELSE GiveUp(JobAt(t))
    /\ UNCHANGED <<cluster, leader, noticed, queue, broken>>

\* Some of the pods may have been deleted all the same.
RestartJobFails(t) ==
    LET j == JobAt(t) IN
    /\ calls[t].pc = "delete"
    /\ RequestFails(t)
    /\ \E some \in SUBSET Deletable(j) :
           /\ Delete(j, some)
           /\ IF Deposed(t) /\ some = {} THEN UNCHANGED lost
              ELSE lost' = [lost EXCEPT ![j] = broken'[j]]
    /\ Return(t)
    /\ UNCHANGED <<clock, pod, lastEvent, ledger, leader, noticed, queue>>

------------------------------------------------------------------------------
(* Changes of leader. *)

LeaderLost ==
    /\ leader /\ takeovers < MaxTakeovers
    /\ takeovers' = takeovers + 1
    /\ leader' = FALSE
    /\ noticed' = {} /\ queue' = {}
    /\ UNCHANGED <<cluster, ledger, calls, broken, lost, failures, faults>>

\* shouldWatchEvent.
YoungEvent(p) == lastEvent[p] # NoStamp /\ clock <= lastEvent[p] + EventMaxAge

Terminated == {p \in Watched : pod[p] = "terminated"}

NoInitialList == {}                                                  \* mutant
\* The pod informer's initial list: ShouldHandleInitialList is TRUE.
InitialList == {Seen(p) : p \in Terminated}

\* The cluster does not show the new leader that a pod of j failed.
Forgotten(j) == \A p \in Terminated : JobOf[p] = j => Deleting(p)

TakeOver ==
    /\ ~leader
    /\ leader' = TRUE
    /\ noticed' = InitialList
    /\ queue' = {Replayed(p) : p \in {q \in Pods : YoungEvent(q)}}
    /\ lost' = [j \in Jobs |-> lost[j] \/ (broken[j] /\ Forgotten(j))]
    /\ UNCHANGED <<cluster, ledger, calls, broken, counters>>

------------------------------------------------------------------------------
Sink(p) == \E i \in noticed : i.pod = p /\ (Record(i) \/ RecordGone(i))
Take(p) == \E i \in queue : i.pod = p /\ (GetPod(i) \/ SkipPod(i))
Answer(t) == AskLedger(t) \/ AllowRestart(t) \/ DenyRestart(t) \/ RestartJob(t)
CallFails(t) == AllowFails(t) \/ AskLedgerFails(t) \/ RestartJobFails(t)

Requests ==
    \/ \E i \in noticed : RecordFails(i)
    \/ \E i \in queue : GetPodFails(i)

Environment(p) ==
    \/ Fail(p) \/ Stopped(p) \/ StatusChanges(p)
    \/ KubeletRestarts(p) \/ Gone(p) \/ Create(p)

Next ==
    \/ Tick
    \/ \E p \in Pods : Environment(p) \/ Sink(p) \/ Take(p)
    \/ \E t \in Terms : Answer(t) \/ CallFails(t)
    \/ Requests
    \/ LeaderLost \/ TakeOver

Spec == Init /\ [][Next]_vars

\* The leader's goroutines are scheduled, its loop takes the events in turn, and
\* another process takes a free lease.
Fairness ==
    /\ \A p \in Pods : WF_vars(Sink(p)) /\ SF_vars(Take(p))
    /\ \A t \in Terms : WF_vars(Answer(t))
    /\ WF_vars(TakeOver)

FairSpec == Spec /\ Fairness

------------------------------------------------------------------------------
(* Correctness. *)

\* The type invariant.  A stamp is no later than the fastest clock.
TypeOK ==
    /\ clock \in Nat
    /\ pod \in [Pods -> {"running", "terminated", "missing"}]
    /\ goneBy \in [Pods -> Nat \cup {NoStamp}]
    /\ lastEvent \in [Pods -> Nat \cup {NoStamp}]
    /\ ledger \in Stamps
    /\ \A j \in Jobs : ledger[j] <= clock + MaxSkew
    /\ leader \in BOOLEAN
    /\ noticed \subseteq Observation /\ queue \subseteq Observation
    /\ calls \in [Terms -> Call]
    /\ broken \in [Jobs -> BOOLEAN] /\ lost \in [Jobs -> BOOLEAN]
    /\ failures \in 0 .. MaxFailures /\ faults \in 0 .. MaxFaults
    /\ takeovers \in Terms

Restarted(j) == \E p \in PodsOf(j) : ~Deleting(p) /\ goneBy'[p] # NoStamp

\* A job's pods are deleted only if one of them failed since the last time they
\* were, or for an Event that a new leader found: several observations of one
\* failure, failures of several pods of the job, and the ends of the containers
\* that a restart stops are answered by one restart, whatever requests fail and
\* whoever leads (onPodError 88-102, restartJob 134).  It takes a retry window of
\* more than twice the delay and the grace period.
HealthyJobLeftAlone ==
    [][\A j \in Jobs : Restarted(j) =>
           \/ broken[j]
           \/ \E t \in Terms : /\ calls[t].pc = "delete" /\ JobAt(t) = j
                               /\ calls[t].item.replayed]_vars

\* What job_restart_ledger.go 19-20 says: no restart but for a failure since the
\* last one.
RestartOnlyForFailure ==
    [][\A j \in Jobs : Restarted(j) => broken[j]]_vars

\* Every failure of these jobs is watched and may be answered.
CoveredJobs == {j \in Jobs : \A p \in PodsOf(j) : p \in Watched /\ Answerable(p)}

\* A broken job's pods are deleted, unless an observation of its failure fell
\* into the retry window or a request failed, or the leader changed and none of
\* its pods was still seen terminated (onPodError 62-103, ShouldHandleInitialList).
BrokenJobAnswered ==
    \A j \in CoveredJobs : broken[j] ~> (~broken[j] \/ lost[j])
==============================================================================
