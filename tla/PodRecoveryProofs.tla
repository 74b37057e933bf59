-------------------------- MODULE PodRecoveryProofs --------------------------
(***************************************************************************)
(* What TLAPS proves of PodRecovery for every set of jobs and pods, every  *)
(* labelling, window, delay, grace period and bound.                       *)
(***************************************************************************)
EXTENDS PodRecovery, TLAPS

------------------------------------------------------------------------------
(* Types. *)

\* A call asks the ledger with a time that its process's clock has shown.
AskedTimed ==
    \A t \in Terms : calls[t].pc \in {"ask", "delete"} => calls[t].now <= clock + MaxSkew

TInv == TypeOK /\ AskedTimed

\* The record of a process in no call is a call; what is seen is an observation.
LEMMA RecordTypes ==
    /\ Idle \in Call /\ Idle.pc = "idle"
    /\ clock \in Nat => \A p \in Pods : Seen(p) \in Observation /\ Replayed(p) \in Observation
<1>1. (CHOOSE p \in Pods : TRUE) \in Pods
  BY PodRecoveryAssumption
<1> QED
  BY <1>1 DEF Idle, Call, Seen, Replayed, Observation

\* Every observation is of a pod of some job.
LEMMA ItemTypes ==
    ASSUME TypeOK
    PROVE  /\ \A t \in Terms : /\ calls[t] \in Call /\ calls[t].item \in Observation
                               /\ calls[t].now \in Nat /\ JobAt(t) \in Jobs
           /\ \A i \in noticed \cup queue : i \in Observation /\ i.pod \in Pods /\ Job(i) \in Jobs
           /\ Present \in Terms
BY PodRecoveryAssumption DEF TypeOK, Call, Observation, Job, JobAt, Present

\* A stamp is a number, the one that stands for no restart included.
LEMMA StampTypes ==
    ASSUME TypeOK
    PROVE  \A j \in Jobs : ledger[j] \in Int
<1>1. NoStamp \in Int /\ Nat \subseteq Int
  BY DEF NoStamp
<1>2. \A j \in Jobs : ledger[j] \in Nat \cup {NoStamp}
  BY DEF TypeOK, Stamps
<1> QED
  BY <1>1, <1>2

\* Histories change within their types.
LEMMA HistoryTypes ==
    ASSUME TypeOK, NEW j \in Jobs, NEW b \in BOOLEAN
    PROVE  /\ [broken EXCEPT ![j] = b] \in [Jobs -> BOOLEAN]
           /\ [lost EXCEPT ![j] = b] \in [Jobs -> BOOLEAN]
           /\ GiveUp(j) => lost' \in [Jobs -> BOOLEAN]
BY DEF TypeOK, GiveUp

\* What a call that has asked the ledger writes is a ledger, and not ahead of the
\* fastest clock.
LEMMA RecordedTypes ==
    ASSUME TInv, NEW t \in Terms, calls[t].pc = "ask"
    PROVE  LET s == Recorded(ledger, JobAt(t), calls[t].now) IN
           s \in Stamps /\ \A j \in Jobs : s[j] <= clock + MaxSkew
<1>1. /\ calls[t].now \in Nat /\ calls[t].now <= clock + MaxSkew
      /\ ledger \in Stamps /\ \A j \in Jobs : ledger[j] <= clock + MaxSkew
      /\ clock \in Nat
  BY ItemTypes DEF TInv, TypeOK, AskedTimed
<1> QED
  BY <1>1, PodRecoveryAssumption DEF Recorded, Stamps, NoStamp

\* A call returns to a process in no call, and leaves the other calls alone.
LEMMA ReturnTypes ==
    ASSUME TInv, NEW t \in Terms, Return(t), clock' = clock
    PROVE  /\ calls' \in [Terms -> Call] /\ AskedTimed'
           /\ calls'[t].pc = "idle"
           /\ \A u \in Terms : u # t => calls'[u] = calls[u]
<1>1. calls \in [Terms -> Call] /\ calls' = [calls EXCEPT ![t] = Idle]
  BY DEF TInv, TypeOK, Return
<1>2. calls' \in [Terms -> Call] /\ calls'[t] = Idle /\ \A u \in Terms : u # t => calls'[u] = calls[u]
  BY <1>1, RecordTypes
<1> QED
  BY <1>2, RecordTypes DEF TInv, AskedTimed

\* A call that goes on keeps its observation.
LEMMA CallTypes ==
    ASSUME TypeOK, NEW t \in Terms, NEW pc \in {"ask", "delete"}, NEW now \in Nat,
           calls' = [calls EXCEPT ![t].pc = pc, ![t].now = now]
    PROVE  /\ calls' \in [Terms -> Call]
           /\ calls'[t].pc = pc /\ calls'[t].now = now /\ calls'[t].item = calls[t].item
           /\ \A u \in Terms : u # t => calls'[u] = calls[u]
BY DEF TypeOK, Call

\* A failed request of the leader is counted.
LEMMA CountedTypes ==
    ASSUME TypeOK, NEW t \in Terms, RequestFails(t) \/ Fault
    PROVE  failures' \in 0 .. MaxFailures /\ faults' \in 0 .. MaxFaults /\ takeovers' = takeovers
BY PodRecoveryAssumption DEF TypeOK, RequestFails, Fault, counters

\* Every step keeps the types.
LEMMA TypeStep == TInv /\ [Next]_vars => TInv'
<1> SUFFICES ASSUME TInv, [Next]_vars PROVE TInv'
  OBVIOUS
<1> USE RecordTypes, ItemTypes DEF TInv
<1>1. CASE UNCHANGED vars
  BY <1>1 DEF vars, cluster, pipeline, counters, TypeOK, AskedTimed
<1>2. CASE Tick
  <2>1. clock' = clock + 1 /\ clock' \in Nat /\ UNCHANGED <<ledger, calls>>
    BY <1>2 DEF Tick, pipeline, TypeOK
  <2>2. \A j \in Jobs : ledger'[j] <= clock' + MaxSkew
    BY <2>1, StampTypes, PodRecoveryAssumption DEF TypeOK
  <2>3. AskedTimed'
    BY <2>1, PodRecoveryAssumption DEF TypeOK, AskedTimed
  <2> QED
    BY <1>2, <2>1, <2>2, <2>3 DEF Tick, pipeline, counters, TypeOK
<1>3. ASSUME NEW p \in Pods, Environment(p) PROVE TInv'
  <2>1. Notice(p) => noticed' \subseteq Observation
    BY DEF Notice, TypeOK
  <2>2. CASE Fail(p)
    <3>1. JobOf[p] \in Jobs
      BY PodRecoveryAssumption
    <3>a. failures' \in 0 .. MaxFailures
      <4>1. failures \in Nat /\ failures < MaxFailures /\ failures' = failures + 1
        BY <2>2 DEF Fail, TypeOK
      <4> QED
        BY <4>1, PodRecoveryAssumption
    <3>2. broken' \in [Jobs -> BOOLEAN]
      BY <2>2, <3>1, HistoryTypes DEF Fail
    <3> QED
      BY <2>1, <2>2, <3>1, <3>a, <3>2 DEF Fail, TypeOK, AskedTimed
  <2>3. CASE Stopped(p)
    BY <2>1, <2>3 DEF Stopped, counters, TypeOK, AskedTimed
  <2>4. CASE StatusChanges(p)
    BY <2>1, <2>4 DEF StatusChanges, cluster, counters, TypeOK, AskedTimed
  <2>5. CASE KubeletRestarts(p) \/ Gone(p) \/ Create(p)
    BY <2>5 DEF KubeletRestarts, Gone, Create, pipeline, counters, TypeOK, AskedTimed
  <2> QED
    BY <1>3, <2>2, <2>3, <2>4, <2>5 DEF Environment
<1>4. ASSUME NEW i \in noticed, Record(i) \/ RecordGone(i) PROVE TInv'
  BY <1>4 DEF Record, RecordGone, cluster, counters, TypeOK, AskedTimed
<1>5. ASSUME NEW i \in queue, GetPod(i) \/ SkipPod(i) PROVE TInv'
  <2>1. CASE GetPod(i)
    <3>1. [Idle EXCEPT !.pc = "allow", !.item = i] \in Call
      BY DEF Idle, Call
    <3>2. calls' \in [Terms -> Call]
      BY <2>1, <3>1 DEF GetPod, TypeOK
    <3>3. calls'[Present].pc = "allow" /\ \A u \in Terms : u # Present => calls'[u] = calls[u]
      BY <2>1, <3>1 DEF GetPod, TypeOK, Idle
    <3> QED
      BY <2>1, <3>2, <3>3 DEF GetPod, cluster, counters, TypeOK, AskedTimed
  <2>2. CASE SkipPod(i)
    BY <2>2 DEF SkipPod, cluster, counters, TypeOK, AskedTimed
  <2> QED
    BY <1>5, <2>1, <2>2
<1>6. ASSUME NEW t \in Terms, AskLedger(t) PROVE TInv'
  <2>1. PICK now \in clock .. clock + MaxSkew :
            calls' = [calls EXCEPT ![t].pc = "ask", ![t].now = now]
    BY <1>6 DEF AskLedger
  <2>2. now \in Nat /\ now <= clock + MaxSkew
    BY PodRecoveryAssumption DEF TypeOK
  <2>3. /\ calls' \in [Terms -> Call] /\ calls'[t].now = now
        /\ \A u \in Terms : u # t => calls'[u] = calls[u]
    BY <2>1, <2>2, CallTypes
  <2> QED
    BY <1>6, <2>2, <2>3 DEF AskLedger, cluster, counters, TypeOK, AskedTimed
<1>7. ASSUME NEW t \in Terms, AllowRestart(t) PROVE TInv'
  <2>1. calls' = [calls EXCEPT ![t].pc = "delete", ![t].now = calls[t].now]
    BY <1>7 DEF AllowRestart, TypeOK, Call
  <2>2. /\ calls' \in [Terms -> Call] /\ calls'[t].now = calls[t].now
        /\ \A u \in Terms : u # t => calls'[u] = calls[u]
    BY <2>1, CallTypes
  <2>3. ledger' \in Stamps /\ \A j \in Jobs : ledger'[j] <= clock + MaxSkew
    BY <1>7, RecordedTypes DEF AllowRestart
  <2> QED
    BY <1>7, <2>2, <2>3 DEF AllowRestart, cluster, counters, TypeOK, AskedTimed
<1>8. ASSUME NEW t \in Terms, DenyRestart(t) PROVE TInv'
  BY <1>8, ReturnTypes, HistoryTypes DEF DenyRestart, cluster, counters, TypeOK
<1>9. ASSUME NEW t \in Terms, AllowFails(t) PROVE TInv'
  BY <1>9, ReturnTypes, HistoryTypes, CountedTypes DEF AllowFails, cluster, TypeOK
<1>10. ASSUME NEW t \in Terms, AskLedgerFails(t) PROVE TInv'
  <2>1. ledger' \in Stamps /\ \A j \in Jobs : ledger'[j] <= clock + MaxSkew
    BY <1>10, RecordedTypes DEF AskLedgerFails, TypeOK
  <2> QED
    BY <1>10, <2>1, ReturnTypes, HistoryTypes, CountedTypes DEF AskLedgerFails, cluster, TypeOK
<1>11. ASSUME NEW t \in Terms, RestartJob(t) \/ RestartJobFails(t) PROVE TInv'
  <2> DEFINE j == JobAt(t)
  <2>1. \A some \in SUBSET Pods : Delete(j, some) =>
            /\ goneBy' \in [Pods -> Nat \cup {NoStamp}] /\ broken' \in [Jobs -> BOOLEAN]
    BY PodRecoveryAssumption DEF Delete, TypeOK, NoStamp
  <2>2. Deletable(j) \subseteq Pods
    BY DEF Deletable, PodsOf
  <2>3. goneBy' \in [Pods -> Nat \cup {NoStamp}] /\ broken' \in [Jobs -> BOOLEAN]
    BY <1>11, <2>1, <2>2 DEF RestartJob, RestartJobFails
  <2>4. lost' \in [Jobs -> BOOLEAN]
    <3>1. j \in Jobs /\ lost \in [Jobs -> BOOLEAN] /\ broken'[j] \in BOOLEAN
      BY <2>3 DEF TypeOK
    <3>2. \/ lost' = [lost EXCEPT ![j] = FALSE] \/ lost' = lost
          \/ lost' = [lost EXCEPT ![j] = broken'[j]]
      BY <1>11 DEF RestartJob, RestartJobFails
    <3> QED
      BY <3>1, <3>2
  <2> QED
    BY <1>11, <2>3, <2>4, ReturnTypes, CountedTypes DEF RestartJob, RestartJobFails, counters, TypeOK
<1>12. CASE Requests
  <2>1. ASSUME NEW i \in noticed, RecordFails(i) PROVE TInv'
    BY <2>1, HistoryTypes, CountedTypes DEF RecordFails, cluster, TypeOK, AskedTimed
  <2>2. ASSUME NEW i \in queue, GetPodFails(i) PROVE TInv'
    BY <2>2, HistoryTypes, CountedTypes DEF GetPodFails, cluster, TypeOK, AskedTimed
  <2> QED
    BY <1>12, <2>1, <2>2 DEF Requests
<1>13. CASE LeaderLost
  <2>1. takeovers' \in Terms
    BY <1>13, PodRecoveryAssumption DEF LeaderLost, TypeOK, Terms
  <2> QED
    BY <1>13, <2>1 DEF LeaderLost, cluster, TypeOK, AskedTimed
<1>14. CASE TakeOver
  <2>1. noticed' \subseteq Observation /\ queue' \subseteq Observation
    BY <1>14, PodRecoveryAssumption DEF TakeOver, InitialList, Terminated, TypeOK
  <2>2. lost' \in [Jobs -> BOOLEAN]
    BY <1>14, Zenon DEF TakeOver
  <2> QED
    BY <1>14, <2>1, <2>2 DEF TakeOver, cluster, counters, TypeOK, AskedTimed
<1> QED
  BY <1>1, <1>2, <1>3, <1>4, <1>5, <1>6, <1>7, <1>8, <1>9, <1>10, <1>11, <1>12, <1>13, <1>14
     DEF Next, Sink, Take, Answer, CallFails

\* The types of the first state.
LEMMA InitTypes == Init => TInv
BY RecordTypes, PodRecoveryAssumption
   DEF Init, TInv, TypeOK, AskedTimed, Stamps, NoStamp, Terms

\* Type correctness of the end-to-end model: no stamp is ahead of the fastest clock.
THEOREM TypeCorrect == Spec => []TypeOK
<1>1. Init => TInv
  BY InitTypes
<1>2. TInv => TypeOK
  BY DEF TInv
<1> QED
  BY <1>1, <1>2, TypeStep, PTL DEF Spec

------------------------------------------------------------------------------
(* Healthy jobs are left alone. *)

\* The window outlives what a restart sets off: its call may take MaxDelay to
\* delete the pods, they Grace to be gone, and the observation of their end
\* MaxDelay to reach the ledger, which a process with a fast clock then asks.
WideWindow == Grace + 2 * MaxDelay + MaxSkew < TTL

\* An observation is answered in time.
Fresh == \A i \in InFlight : i.since <= clock /\ clock <= i.since + MaxDelay

\* What is seen at this time may come from the job's restart.
Aftermath(j, time) == ledger[j] # NoStamp /\ time <= ledger[j] + MaxDelay + Grace

Explained == \A i \in InFlight : i.replayed \/ broken[Job(i)] \/ Aftermath(Job(i), i.since)

DeletedInTime ==
    \A p \in Pods : Deleting(p) => clock <= goneBy[p] /\ Aftermath(JobOf[p], goneBy[p])

TerminatedIsBroken ==
    \A p \in Pods : pod[p] = "terminated" /\ ~Deleting(p) => broken[JobOf[p]]

AskedAfterSeen ==
    \A t \in Terms : calls[t].pc \in {"ask", "delete"} => calls[t].item.since <= calls[t].now

\* Who may delete a job's pods has recorded it, for a failure.
RestartJustified ==
    \A t \in Terms : calls[t].pc = "delete" =>
        /\ ledger[JobAt(t)] = calls[t].now
        /\ broken[JobAt(t)] \/ calls[t].item.replayed

OneRestartAtATime ==
    \A t, u \in Terms :
        calls[t].pc = "delete" /\ calls[u].pc = "delete" /\ JobAt(t) = JobAt(u) => t = u

CallsInOrder == AskedAfterSeen /\ RestartJustified /\ OneRestartAtATime
PodsInOrder == DeletedInTime /\ TerminatedIsBroken
IInv == TInv /\ Fresh /\ Explained /\ PodsInOrder /\ CallsInOrder

\* The observations in flight, one by one.
LEMMA InFlightItems ==
    /\ \A i \in noticed \cup queue : i \in InFlight
    /\ \A t \in Terms : calls[t].pc # "idle" => calls[t].item \in InFlight
    /\ TypeOK => \A i \in InFlight : /\ i \in Observation /\ i.pod \in Pods /\ i.since \in Nat
                                     /\ Job(i) \in Jobs
<1>1. \A i \in noticed \cup queue : i \in InFlight
  BY DEF InFlight
<1>2. \A t \in Terms : calls[t].pc # "idle" => calls[t].item \in InFlight
  BY DEF InFlight
<1>3. ASSUME TypeOK PROVE InFlight \subseteq Observation
  BY <1>3 DEF InFlight, TypeOK, Call
<1> QED
  BY <1>1, <1>2, <1>3, PodRecoveryAssumption DEF Observation, Job

\* A step that brings no observation, moves neither time, the ledger nor the
\* history, and lets calls only begin or end, keeps the order.
LEMMA QuietStep ==
    ASSUME IInv, UNCHANGED <<clock, ledger, broken>>,
           noticed' \cup queue' \subseteq InFlight,
           \A t \in Terms : \/ calls'[t] = calls[t] \/ calls'[t].pc = "idle"
                            \/ calls'[t].pc = "allow" /\ calls'[t].item \in InFlight,
           \A p \in Pods : \/ pod'[p] = pod[p] /\ goneBy'[p] = goneBy[p]
                           \/ pod'[p] # "terminated" /\ goneBy'[p] \in {goneBy[p], NoStamp}
    PROVE  Fresh' /\ Explained' /\ PodsInOrder' /\ CallsInOrder'
<1>1. InFlight' \subseteq InFlight
  BY InFlightItems DEF InFlight
<1>2. Fresh' /\ Explained'
  BY <1>1 DEF IInv, Fresh, Explained, Aftermath, Job
<1>3. PodsInOrder'
  BY DEF IInv, PodsInOrder, DeletedInTime, TerminatedIsBroken, Aftermath, Deleting
<1>4. \A t \in Terms : calls'[t].pc \in {"ask", "delete"} => calls'[t] = calls[t]
  OBVIOUS
<1>5. CallsInOrder'
  BY <1>4 DEF IInv, CallsInOrder, AskedAfterSeen, RestartJustified, OneRestartAtATime, JobAt, Job
<1> QED
  BY <1>2, <1>3, <1>5

\* A pod seen terminated failed, or its end is the restart's doing.
LEMMA SeenStep ==
    ASSUME IInv, TypeOK', UNCHANGED <<clock, ledger, goneBy, calls>>,
           \A j \in Jobs : broken[j] => broken'[j],
           TerminatedIsBroken',
           \A i \in noticed' \cup queue' :
               \/ i \in InFlight
               \/ \E p \in Pods : \/ i = Seen(p) /\ pod'[p] = "terminated"
                                  \/ i = Replayed(p)
    PROVE  Fresh' /\ Explained' /\ PodsInOrder' /\ CallsInOrder'
<1> DEFINE New(i) == \E p \in Pods : \/ i = Seen(p) /\ pod'[p] = "terminated"
                                     \/ i = Replayed(p)
<1>1. \A i \in InFlight' : i \in InFlight \/ New(i)
  BY InFlightItems DEF InFlight
<1>2. ASSUME NEW i, New(i)
      PROVE  /\ i.since = clock
             /\ i.replayed \/ broken'[Job(i)] \/ Aftermath(Job(i), i.since)
  <2>1. PICK p \in Pods : (i = Seen(p) /\ pod'[p] = "terminated") \/ i = Replayed(p)
    BY <1>2
  <2>2. i.since = clock /\ Job(i) = JobOf[p]
    BY <2>1 DEF Seen, Replayed, Job
  <2>3. CASE i = Replayed(p)
    BY <2>2, <2>3 DEF Replayed
  <2>4. CASE i = Seen(p) /\ pod'[p] = "terminated" /\ ~Deleting(p)
    BY <2>2, <2>4 DEF TerminatedIsBroken, Deleting
  <2>5. CASE Deleting(p)
    <3>1. clock <= goneBy[p] /\ Aftermath(JobOf[p], goneBy[p])
      BY <2>5 DEF IInv, PodsInOrder, DeletedInTime
    <3>2. goneBy[p] \in Nat /\ clock \in Nat /\ ledger[JobOf[p]] \in Int
      BY <2>5, StampTypes, PodRecoveryAssumption DEF IInv, TInv, TypeOK, Deleting
    <3> QED
      BY <2>2, <3>1, <3>2, PodRecoveryAssumption DEF Aftermath
  <2> QED
    BY <2>1, <2>2, <2>3, <2>4, <2>5
<1>3. Fresh'
  <2>1. \A i \in InFlight : i.since <= clock /\ clock <= i.since + MaxDelay
    BY DEF IInv, Fresh
  <2>2. clock \in Nat /\ clock <= clock + MaxDelay
    BY PodRecoveryAssumption DEF IInv, TInv, TypeOK
  <2>3. \A i \in InFlight' : i.since <= clock /\ clock <= i.since + MaxDelay
    BY <1>1, <1>2, <2>1, <2>2
  <2> QED
    BY <2>3 DEF Fresh
<1>4. Explained'
  <2>1. \A i \in InFlight : Job(i) \in Jobs
    BY InFlightItems DEF IInv, TInv
  <2>2. \A i \in InFlight : i.replayed \/ broken[Job(i)] \/ Aftermath(Job(i), i.since)
    BY DEF IInv, Explained
  <2>3. \A i \in InFlight' : i.replayed \/ broken'[Job(i)] \/ Aftermath(Job(i), i.since)
    BY <1>1, <1>2, <2>1, <2>2
  <2> QED
    BY <2>3 DEF Explained, Aftermath, Job
<1>5. PodsInOrder'
  BY DEF IInv, PodsInOrder, DeletedInTime, Aftermath, Deleting
<1>6. CallsInOrder'
  <2>1. \A t \in Terms : JobAt(t) \in Jobs
    BY ItemTypes DEF IInv, TInv
  <2> QED
    BY <2>1 DEF IInv, CallsInOrder, AskedAfterSeen, RestartJustified, OneRestartAtATime, JobAt, Job
<1> QED
  BY <1>3, <1>4, <1>5, <1>6

\* No process deletes the record of a restart, or restarts the job again, while
\* the last one may still be seen.
LEMMA Protected ==
    ASSUME WideWindow, IInv, NEW t \in Terms, calls[t].pc = "ask", WindowOver(t),
           NEW j \in Jobs, NEW time \in Int, Aftermath(j, time), clock <= time + MaxDelay
    PROVE  /\ j # JobAt(t)
           /\ Recorded(ledger, JobAt(t), calls[t].now)[j] = ledger[j]
<1>1. calls[t].now \in Nat /\ calls[t].now <= clock + MaxSkew
  BY ItemTypes DEF IInv, TInv, AskedTimed
<1>2. ledger[j] \in Int /\ clock \in Nat
  BY StampTypes DEF IInv, TInv, TypeOK
<1>3. ledger[j] # NoStamp /\ time <= ledger[j] + MaxDelay + Grace
  BY DEF Aftermath
<1>4. calls[t].now < ledger[j] + TTL
  BY <1>1, <1>2, <1>3, PodRecoveryAssumption DEF WideWindow
<1>5. Live(ledger, j, calls[t].now)
  BY <1>3, <1>4 DEF Live
<1> QED
  BY <1>5 DEF WindowOver, Recorded

\* The ledger's write: the observation has an explanation that is no restart, and
\* no other one loses its own.
LEMMA WriteStep ==
    ASSUME WideWindow, IInv, NEW t \in Terms, calls[t].pc = "ask", WindowOver(t),
           UNCHANGED <<clock, pod, goneBy, broken, noticed, queue>>,
           ledger' = Recorded(ledger, JobAt(t), calls[t].now),
           \A u \in Terms : u # t => calls'[u] = calls[u],
           \/ calls'[t].pc = "idle"
           \/ calls'[t].pc = "delete" /\ calls'[t].item = calls[t].item /\ calls'[t].now = calls[t].now
    PROVE  Fresh' /\ Explained' /\ PodsInOrder' /\ CallsInOrder'
<1> DEFINE job == JobAt(t)
<1>1. /\ job \in Jobs /\ ledger'[job] = calls[t].now
      /\ calls[t].item \in InFlight
      /\ \A i \in InFlight : i \in Observation /\ Job(i) \in Jobs /\ i.since \in Nat
  BY ItemTypes, InFlightItems DEF IInv, TInv, Recorded
<1>2. InFlight' \subseteq InFlight
  BY InFlightItems DEF InFlight
<1>3. \A i \in InFlight : i.since <= clock /\ clock <= i.since + MaxDelay
  BY DEF IInv, Fresh
<1>4. ASSUME NEW i \in InFlight, Aftermath(Job(i), i.since)
      PROVE  Job(i) # job /\ ledger'[Job(i)] = ledger[Job(i)]
  <2>1. Job(i) \in Jobs /\ i.since \in Int
    BY <1>1
  <2> QED
    BY <1>3, <1>4, <2>1, Protected
<1>5. Fresh'
  BY <1>2 DEF IInv, Fresh
<1>6. Explained'
  <2>1. \A i \in InFlight : i.replayed \/ broken[Job(i)] \/ Aftermath(Job(i), i.since)
    BY DEF IInv, Explained
  <2> QED
    BY <1>2, <1>4, <2>1 DEF Explained, Aftermath, Job
<1>7. PodsInOrder'
  <2>1. ASSUME NEW p \in Pods, Deleting(p)
        PROVE  clock <= goneBy[p] /\ Aftermath(JobOf[p], goneBy[p])'
    <3>1. clock <= goneBy[p] /\ Aftermath(JobOf[p], goneBy[p])
      BY <2>1 DEF IInv, PodsInOrder, DeletedInTime
    <3>2. /\ JobOf[p] \in Jobs /\ goneBy[p] \in Int
          /\ clock <= goneBy[p] + MaxDelay
      BY <2>1, <3>1, PodRecoveryAssumption DEF IInv, TInv, TypeOK, Deleting
    <3>3. ledger'[JobOf[p]] = ledger[JobOf[p]]
      BY <3>1, <3>2, Protected
    <3> QED
      BY <3>1, <3>3 DEF Aftermath
  <2>2. DeletedInTime'
    BY <2>1 DEF DeletedInTime, Deleting, Aftermath
  <2> QED
    BY <2>2 DEF IInv, PodsInOrder, TerminatedIsBroken, Deleting
<1>8. ASSUME NEW u \in Terms, calls[u].pc = "delete"
      PROVE  JobAt(u) # job /\ ledger'[JobAt(u)] = ledger[JobAt(u)]
  <2>1. /\ calls[u].item \in InFlight /\ calls[u].item.since <= calls[u].now
        /\ ledger[JobAt(u)] = calls[u].now
    BY <1>8, InFlightItems DEF IInv, CallsInOrder, AskedAfterSeen, RestartJustified
  <2>2. JobAt(u) \in Jobs /\ calls[u].now \in Nat /\ calls[u].item.since \in Nat /\ clock \in Nat
    BY <2>1, <1>1, ItemTypes DEF IInv, TInv, TypeOK
  <2>3. clock <= calls[u].now + MaxDelay
    BY <1>3, <2>1, <2>2, PodRecoveryAssumption
  <2>4. calls[u].now # NoStamp /\ calls[u].now <= calls[u].now + MaxDelay + Grace
    BY <2>2, PodRecoveryAssumption DEF NoStamp
  <2>5. Aftermath(JobAt(u), calls[u].now)
    BY <2>1, <2>4 DEF Aftermath
  <2> QED
    BY <2>2, <2>3, <2>5, Protected
<1>9. broken[job] \/ calls[t].item.replayed
  BY <1>1, <1>4 DEF IInv, Explained, JobAt
<1>10. calls[t].item.since <= calls[t].now
  BY DEF IInv, CallsInOrder, AskedAfterSeen
<1>11. \A u \in Terms : calls'[u].pc \in {"ask", "delete"} =>
          /\ calls'[u].item = calls[u].item /\ calls'[u].now = calls[u].now
          /\ JobAt(u)' = JobAt(u)
          /\ u = t \/ calls'[u] = calls[u]
  BY DEF JobAt, Job
<1>12. AskedAfterSeen'
  BY <1>10, <1>11 DEF IInv, CallsInOrder, AskedAfterSeen
<1>13. RestartJustified'
  <2>1. \A u \in Terms : calls[u].pc = "delete" =>
            ledger[JobAt(u)] = calls[u].now /\ (broken[JobAt(u)] \/ calls[u].item.replayed)
    BY DEF IInv, CallsInOrder, RestartJustified
  <2> QED
    BY <1>1, <1>8, <1>9, <1>11, <2>1 DEF RestartJustified
<1>14. OneRestartAtATime'
  <2>1. \A u, v \in Terms :
          calls[u].pc = "delete" /\ calls[v].pc = "delete" /\ JobAt(u) = JobAt(v) => u = v
    BY DEF IInv, CallsInOrder, OneRestartAtATime
  <2> QED
    BY <1>8, <1>11, <2>1 DEF OneRestartAtATime
<1> QED
  BY <1>5, <1>6, <1>7, <1>12, <1>13, <1>14 DEF CallsInOrder

\* The deletion, of every pod or of some: it comes in time for what it sets off to
\* be told from a failure.
LEMMA DeleteStep ==
    ASSUME IInv, NEW t \in Terms, calls[t].pc = "delete",
           NEW some \in SUBSET Deletable(JobAt(t)), Delete(JobAt(t), some),
           UNCHANGED <<clock, pod, ledger, noticed, queue>>, Return(t)
    PROVE  Fresh' /\ Explained' /\ PodsInOrder' /\ CallsInOrder'
<1> DEFINE job == JobAt(t)
<1>1. /\ calls'[t].pc = "idle"
      /\ \A u \in Terms : u # t => calls'[u] = calls[u]
  BY ReturnTypes DEF IInv
<1>2. /\ job \in Jobs /\ calls[t].item \in InFlight
      /\ \A i \in InFlight : Job(i) \in Jobs /\ i.since \in Nat
      /\ clock \in Nat
  BY ItemTypes, InFlightItems DEF IInv, TInv, TypeOK
<1>3. InFlight' \subseteq InFlight
  BY <1>1, InFlightItems DEF InFlight
<1>4. \A i \in InFlight : i.since <= clock /\ clock <= i.since + MaxDelay
  BY DEF IInv, Fresh
<1>5. ledger[job] # NoStamp /\ clock + Grace <= ledger[job] + MaxDelay + Grace
  <2>1. calls[t].item.since <= calls[t].now /\ ledger[job] = calls[t].now
    BY DEF IInv, CallsInOrder, AskedAfterSeen, RestartJustified
  <2>2. calls[t].now \in Nat /\ calls[t].item.since \in Nat
    BY <1>2, ItemTypes DEF IInv, TInv
  <2>3. clock <= calls[t].now + MaxDelay
    BY <1>2, <1>4, <2>1, <2>2, PodRecoveryAssumption
  <2> QED
    BY <1>2, <2>1, <2>2, <2>3, PodRecoveryAssumption DEF NoStamp
<1>6. \A i \in InFlight : Aftermath(job, i.since)
  <2>1. ledger[job] \in Int
    BY <1>2, StampTypes DEF IInv, TInv
  <2> QED
    BY <1>2, <1>4, <1>5, <2>1, PodRecoveryAssumption DEF Aftermath
<1>7. broken' = [broken EXCEPT ![job] = @ /\ some # Deletable(job)]
  BY DEF Delete
<1>8. /\ \A j \in Jobs : j # job => broken'[j] = broken[j]
      /\ some # Deletable(job) => broken'[job] = broken[job]
  BY <1>2, <1>7, Zenon DEF IInv, TInv, TypeOK
<1>9. \A p \in Pods : goneBy'[p] = IF p \in some THEN clock + Grace ELSE goneBy[p]
  BY DEF Delete
<1>10. \A p \in some : p \in Pods /\ JobOf[p] = job
  BY DEF Deletable, PodsOf
<1>11. Fresh'
  BY <1>3 DEF IInv, Fresh
<1>12. Explained'
  <2>1. \A i \in InFlight : i.replayed \/ broken[Job(i)] \/ Aftermath(Job(i), i.since)
    BY DEF IInv, Explained
  <2>2. \A i \in InFlight : i.replayed \/ broken'[Job(i)] \/ Aftermath(Job(i), i.since)
    BY <1>2, <1>6, <1>8, <2>1
  <2> QED
    BY <1>3, <2>2 DEF Explained, Aftermath, Job
<1>13. DeletedInTime'
  <2>1. clock <= clock + Grace /\ Aftermath(job, clock + Grace)
    BY <1>2, <1>5, PodRecoveryAssumption DEF Aftermath
  <2>2. \A p \in Pods : goneBy[p] # NoStamp => clock <= goneBy[p] /\ Aftermath(JobOf[p], goneBy[p])
    BY DEF IInv, PodsInOrder, DeletedInTime, Deleting
  <2>3. \A p \in Pods : goneBy'[p] # NoStamp => clock <= goneBy'[p] /\ Aftermath(JobOf[p], goneBy'[p])
    BY <1>9, <1>10, <2>1, <2>2
  <2> QED
    BY <2>3 DEF DeletedInTime, Deleting, Aftermath
<1>14. TerminatedIsBroken'
  <2>1. clock + Grace # NoStamp
    BY <1>2, PodRecoveryAssumption DEF NoStamp
  <2>2. ASSUME NEW p \in Pods, pod[p] = "terminated", goneBy'[p] = NoStamp
        PROVE  broken'[JobOf[p]]
    <3>1. p \notin some /\ ~Deleting(p) /\ JobOf[p] \in Jobs
      BY <1>9, <2>1, <2>2, PodRecoveryAssumption DEF Deleting
    <3>2. broken[JobOf[p]]
      BY <2>2, <3>1 DEF IInv, PodsInOrder, TerminatedIsBroken
    <3>3. JobOf[p] = job => p \in Deletable(job)
      BY <2>2, <3>1 DEF Deletable, PodsOf
    <3> QED
      BY <1>8, <3>1, <3>2, <3>3
  <2> QED
    BY <2>2 DEF TerminatedIsBroken, Deleting
<1>15. \A u \in Terms : calls'[u].pc \in {"ask", "delete"} => calls'[u] = calls[u] /\ u # t
  BY <1>1
<1>16. \A u \in Terms : calls[u].pc = "delete" /\ u # t => broken'[JobAt(u)] = broken[JobAt(u)]
  <2>1. \A u \in Terms : calls[u].pc = "delete" /\ u # t => JobAt(u) # job
    BY DEF IInv, CallsInOrder, OneRestartAtATime
  <2> QED
    BY <1>8, <2>1, ItemTypes DEF IInv, TInv
<1>17. CallsInOrder'
  BY <1>15, <1>16 DEF IInv, CallsInOrder, AskedAfterSeen, RestartJustified, OneRestartAtATime, JobAt, Job
<1> QED
  BY <1>11, <1>12, <1>13, <1>14, <1>17 DEF PodsInOrder

\* The inductive step, action by action.
LEMMA InvariantStep == ASSUME WideWindow, IInv, [Next]_vars PROVE IInv'
<1>0. TInv'
  BY TypeStep DEF IInv
<1> DEFINE Goal == Fresh' /\ Explained' /\ PodsInOrder' /\ CallsInOrder'
<1> SUFFICES Goal
  BY <1>0 DEF IInv
<1> USE InFlightItems DEF cluster, pipeline, counters
<1>1. CASE UNCHANGED vars
  BY <1>1, QuietStep DEF vars
<1>2. CASE Tick
  <2>1. /\ clock \in Nat /\ clock' = clock + 1
        /\ UNCHANGED <<pod, goneBy, ledger, noticed, queue, calls, broken>>
    BY <1>2 DEF Tick, IInv, TInv, TypeOK
  <2>2. InFlight' = InFlight
    BY <2>1 DEF InFlight
  <2>3. Fresh'
    <3>1. \A i \in InFlight : i.since \in Nat /\ i.since <= clock
      BY DEF IInv, TInv, Fresh
    <3>2. \A i \in InFlight : clock < i.since + MaxDelay
      BY <1>2 DEF Tick
    <3> QED
      BY <2>1, <2>2, <3>1, <3>2, PodRecoveryAssumption DEF Fresh
  <2>4. Explained'
    BY <2>1, <2>2 DEF IInv, Explained, Aftermath, Job
  <2>5. PodsInOrder'
    <3>1. \A p \in Pods : Deleting(p) => goneBy[p] \in Int /\ clock < goneBy[p]
      BY <1>2 DEF Tick, IInv, TInv, TypeOK, Deleting
    <3>2. \A p \in Pods : Deleting(p) => clock' <= goneBy[p]
      BY <2>1, <3>1
    <3> QED
      BY <2>1, <3>2 DEF IInv, PodsInOrder, DeletedInTime, TerminatedIsBroken, Aftermath, Deleting
  <2>6. CallsInOrder'
    BY <2>1 DEF IInv, CallsInOrder, AskedAfterSeen, RestartJustified, OneRestartAtATime, JobAt, Job
  <2> QED
    BY <2>3, <2>4, <2>5, <2>6
<1>3. ASSUME NEW p \in Pods, Environment(p) PROVE Goal
  <2>1. TypeOK'
    BY <1>0 DEF TInv
  <2>2. Notice(p) => \A i \in noticed' : i \in noticed \/ i = Seen(p)
    BY DEF Notice
  <2>3. TerminatedIsBroken
    BY DEF IInv, PodsInOrder
  <2>4. pod \in [Pods -> {"running", "terminated", "missing"}]
    BY DEF IInv, TInv, TypeOK
  <2>5. CASE Fail(p)
    <3>1. pod'[p] = "terminated" /\ \A q \in Pods : q # p => pod'[q] = pod[q]
      BY <2>4, <2>5 DEF Fail
    <3>2. JobOf[p] \in Jobs /\ broken \in [Jobs -> BOOLEAN]
      BY PodRecoveryAssumption DEF IInv, TInv, TypeOK
    <3>3. broken'[JobOf[p]] /\ \A j \in Jobs : broken[j] => broken'[j]
      BY <2>5, <3>2 DEF Fail
    <3>4. TerminatedIsBroken'
      BY <2>3, <2>5, <3>1, <3>3, PodRecoveryAssumption DEF Fail, TerminatedIsBroken, Deleting
    <3> QED
      BY <2>1, <2>2, <2>5, <3>1, <3>3, <3>4, SeenStep DEF Fail
  <2>6. CASE Stopped(p)
    <3>1. pod'[p] = "terminated" /\ \A q \in Pods : q # p => pod'[q] = pod[q]
      BY <2>4, <2>6 DEF Stopped
    <3>2. TerminatedIsBroken'
      BY <2>3, <2>6, <3>1 DEF Stopped, TerminatedIsBroken, Deleting
    <3> QED
      BY <2>1, <2>2, <2>6, <3>1, <3>2, SeenStep DEF Stopped
  <2>7. CASE StatusChanges(p)
    <3>1. TerminatedIsBroken'
      BY <2>3, <2>7 DEF StatusChanges, TerminatedIsBroken, Deleting
    <3> QED
      BY <2>1, <2>2, <2>7, <3>1, SeenStep DEF StatusChanges
  <2>8. CASE KubeletRestarts(p)
    BY <2>4, <2>8, QuietStep DEF KubeletRestarts
  <2>9. CASE Gone(p)
    <3>1. goneBy \in [Pods -> Nat \cup {NoStamp}]
      BY DEF IInv, TInv, TypeOK
    <3> QED
      BY <2>4, <2>9, <3>1, QuietStep DEF Gone
  <2>10. CASE Create(p)
    BY <2>4, <2>10, QuietStep DEF Create
  <2> QED
    BY <1>3, <2>5, <2>6, <2>7, <2>8, <2>9, <2>10 DEF Environment
<1>4. ASSUME NEW i \in noticed, Record(i) \/ RecordGone(i) \/ RecordFails(i) PROVE Goal
  BY <1>4, QuietStep DEF Record, RecordGone, RecordFails
<1>5. ASSUME NEW i \in queue, GetPod(i) \/ SkipPod(i) \/ GetPodFails(i) PROVE Goal
  <2>1. CASE GetPod(i)
    <3>1. calls \in [Terms -> Call] /\ Present \in Terms
      BY ItemTypes DEF IInv, TInv, TypeOK
    <3>2. /\ calls'[Present].pc = "allow" /\ calls'[Present].item = i
          /\ \A t \in Terms : t # Present => calls'[t] = calls[t]
      BY <2>1, <3>1 DEF GetPod, Idle
    <3> QED
      BY <2>1, <3>2, QuietStep DEF GetPod
  <2>2. CASE SkipPod(i) \/ GetPodFails(i)
    BY <2>2, QuietStep DEF SkipPod, GetPodFails
  <2> QED
    BY <1>5, <2>1, <2>2
<1>6. ASSUME NEW t \in Terms, AskLedger(t) PROVE Goal
  <2>1. PICK now \in clock .. clock + MaxSkew :
            calls' = [calls EXCEPT ![t].pc = "ask", ![t].now = now]
    BY <1>6 DEF AskLedger
  <2>2. now \in Nat /\ clock <= now /\ clock \in Nat
    BY PodRecoveryAssumption DEF IInv, TInv, TypeOK
  <2>3. /\ calls'[t].pc = "ask" /\ calls'[t].now = now /\ calls'[t].item = calls[t].item
        /\ \A u \in Terms : u # t => calls'[u] = calls[u]
    BY <2>1, <2>2, CallTypes DEF IInv, TInv
  <2>4. /\ UNCHANGED <<clock, pod, goneBy, ledger, noticed, queue, broken>>
        /\ calls[t].item \in InFlight
    BY <1>6 DEF AskLedger
  <2>5. InFlight' \subseteq InFlight
    BY <2>3, <2>4 DEF InFlight
  <2>6. Fresh' /\ Explained'
    BY <2>4, <2>5 DEF IInv, Fresh, Explained, Aftermath, Job
  <2>7. PodsInOrder'
    BY <2>4 DEF IInv, PodsInOrder, DeletedInTime, TerminatedIsBroken, Aftermath, Deleting
  <2>8. calls[t].item.since <= now
    BY <2>2, <2>4 DEF IInv, TInv, Fresh
  <2>9. AskedAfterSeen'
    BY <2>3, <2>8 DEF IInv, CallsInOrder, AskedAfterSeen
  <2>10. RestartJustified' /\ OneRestartAtATime'
    BY <2>3, <2>4 DEF IInv, CallsInOrder, RestartJustified, OneRestartAtATime, JobAt, Job
  <2> QED
    BY <2>6, <2>7, <2>9, <2>10 DEF CallsInOrder
<1>7. ASSUME NEW t \in Terms, AllowRestart(t) PROVE Goal
  <2>1. calls' = [calls EXCEPT ![t].pc = "delete", ![t].now = calls[t].now]
    BY <1>7 DEF AllowRestart, IInv, TInv, TypeOK, Call
  <2>2. /\ calls'[t].pc = "delete" /\ calls'[t].now = calls[t].now /\ calls'[t].item = calls[t].item
        /\ \A u \in Terms : u # t => calls'[u] = calls[u]
    BY <2>1, CallTypes, ItemTypes DEF IInv, TInv
  <2> QED
    BY <1>7, <2>2, WriteStep DEF AllowRestart
<1>8. ASSUME NEW t \in Terms, Return(t), UNCHANGED <<clock, pod, goneBy, broken, noticed, queue>>
      PROVE  /\ calls'[t].pc = "idle" /\ \A u \in Terms : u # t => calls'[u] = calls[u]
             /\ ledger' = ledger => Goal
  <2>1. calls'[t].pc = "idle" /\ \A u \in Terms : u # t => calls'[u] = calls[u]
    BY <1>8, ReturnTypes DEF IInv
  <2> QED
    BY <1>8, <2>1, QuietStep
<1>9. ASSUME NEW t \in Terms, DenyRestart(t) \/ AllowFails(t) PROVE Goal
  BY <1>8, <1>9 DEF DenyRestart, AllowFails
<1>10. ASSUME NEW t \in Terms, AskLedgerFails(t) PROVE Goal
  <2>1. CASE ledger' = ledger
    BY <1>8, <1>10, <2>1 DEF AskLedgerFails
  <2>2. CASE WindowOver(t) /\ ledger' = Recorded(ledger, JobAt(t), calls[t].now)
    BY <1>8, <1>10, <2>2, WriteStep DEF AskLedgerFails
  <2> QED
    BY <1>10, <2>1, <2>2 DEF AskLedgerFails
<1>11. ASSUME NEW t \in Terms, RestartJob(t) \/ RestartJobFails(t) PROVE Goal
  <2>1. PICK some \in SUBSET Deletable(JobAt(t)) : Delete(JobAt(t), some)
    BY <1>11 DEF RestartJob, RestartJobFails
  <2> QED
    BY <1>11, <2>1, DeleteStep DEF RestartJob, RestartJobFails
<1>12. CASE LeaderLost
  BY <1>12, QuietStep DEF LeaderLost
<1>13. CASE TakeOver
  <2>1. \A i \in noticed' \cup queue' :
            \E p \in Pods : (i = Seen(p) /\ pod[p] = "terminated") \/ i = Replayed(p)
    BY <1>13, PodRecoveryAssumption DEF TakeOver, InitialList, Terminated
  <2>2. TypeOK' /\ UNCHANGED <<clock, pod, goneBy, ledger, calls, broken>>
    BY <1>0, <1>13 DEF TInv, TakeOver
  <2>3. TerminatedIsBroken'
    BY <2>2 DEF IInv, PodsInOrder, TerminatedIsBroken, Deleting
  <2> QED
    BY <2>1, <2>2, <2>3, SeenStep
<1> QED
  BY <1>1, <1>2, <1>3, <1>4, <1>5, <1>6, <1>7, <1>9, <1>10, <1>11, <1>12, <1>13
     DEF Next, Sink, Take, Answer, CallFails, Requests

\* A restart is for a failure since the last one, or for an Event that a new leader
\* found, whoever leads and however its requests fail, if the window outlives what a
\* restart sets off (onPodError 88-102, restartJob 134).
THEOREM HealthyLeftAlone == ASSUME WideWindow PROVE Spec => HealthyJobLeftAlone
<1>1. Init => IInv
  <2>1. Init => TInv
    BY InitTypes
  <2>2. ASSUME Init PROVE InFlight = {} /\ \A t \in Terms : calls[t].pc = "idle"
    <3>1. \A t \in Terms : calls[t].pc = "idle"
      BY <2>2, RecordTypes DEF Init
    <3> QED
      BY <2>2, <3>1 DEF Init, InFlight
  <2> QED
    BY <2>1, <2>2 DEF Init, IInv, Fresh, Explained, PodsInOrder, DeletedInTime,
       TerminatedIsBroken, Deleting, CallsInOrder, AskedAfterSeen, RestartJustified, OneRestartAtATime
<1>2. IInv /\ [Next]_vars => IInv'
  BY InvariantStep
<1>3. ASSUME IInv, [Next]_vars, NEW j \in Jobs, Restarted(j)
      PROVE  \/ broken[j]
             \/ \E t \in Terms : /\ calls[t].pc = "delete" /\ JobAt(t) = j
                                 /\ calls[t].item.replayed
  <2>1. PICK p \in Pods : JobOf[p] = j /\ goneBy[p] = NoStamp /\ goneBy'[p] # NoStamp
    BY <1>3 DEF Restarted, PodsOf, Deleting
  <2>2. goneBy' # goneBy
    BY <2>1
  <2>3. ~ (\E q \in Pods : Gone(q))
    <3>1. ASSUME NEW q \in Pods, Gone(q) PROVE goneBy'[p] = goneBy[p] \/ goneBy'[p] = NoStamp
      BY <3>1 DEF Gone, IInv, TInv, TypeOK
    <3> QED
      BY <2>1, <3>1
  <2>4. PICK t \in Terms : RestartJob(t) \/ RestartJobFails(t)
    BY <1>3, <2>2, <2>3, Zenon
       DEF Next, vars, cluster, Tick, Environment, Fail, Stopped, StatusChanges, KubeletRestarts,
           Create, Sink, Record, RecordGone, Take, GetPod, SkipPod, Answer, AskLedger,
           AllowRestart, DenyRestart, CallFails, AllowFails, AskLedgerFails, Requests,
           RecordFails, GetPodFails, LeaderLost, TakeOver
  <2>5. /\ calls[t].pc = "delete"
        /\ \E some \in SUBSET Deletable(JobAt(t)) : Delete(JobAt(t), some)
    BY <2>4 DEF RestartJob, RestartJobFails
  <2>6. JobAt(t) = j
    BY <2>1, <2>5 DEF Delete, Deletable, PodsOf
  <2>7. broken[JobAt(t)] \/ calls[t].item.replayed
    BY <1>3, <2>5 DEF IInv, CallsInOrder, RestartJustified
  <2> QED
    BY <2>5, <2>6, <2>7
<1>4. IInv /\ [Next]_vars =>
        [\A j \in Jobs : Restarted(j) =>
           \/ broken[j]
           \/ \E t \in Terms : /\ calls[t].pc = "delete" /\ JobAt(t) = j
                               /\ calls[t].item.replayed]_vars
  BY <1>3
<1> QED
  BY <1>1, <1>2, <1>4, PTL DEF Spec, HealthyJobLeftAlone
==============================================================================
