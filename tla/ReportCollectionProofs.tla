------------------------ MODULE ReportCollectionProofs ------------------------
(***************************************************************************)
(* What TLAPS proves of ReportPublisher for every set of reports, however  *)
(* many of them are invalid and however often the agent crashes; and of    *)
(* ReportCollection for every set of pods, runs and texts: the agent and   *)
(* its pods use the publisher as ReportPublisher allows, so that what is   *)
(* proved of the publisher holds in the agent.                             *)
(***************************************************************************)
EXTENDS ReportCollection, FiniteSetTheorems, TLAPS

------------------------------------------------------------------------------
(* The publisher. *)

Busy == {"write", "created", "finish", "observe", "done"}

\* The part of the types the arguments below need.
Types ==
    /\ queue \in Seq(Keys) /\ dirty \subseteq Keys /\ waiting \subseteq Keys
    /\ worker \in [pc : Busy \cup {"get", "exited"}, key : Keys \cup {NoKey}]
    /\ worker.pc \in Busy => worker.key \in Keys
    /\ observed \in [Keys -> Nat] /\ deletions \in [Keys -> Nat]

\* No report has more observations than creations, and fewer as long as the attempt
\* that created it has yet to record its own.
Observations ==
    /\ \A k \in Keys : observed[k] <= Creations(k)
    /\ worker.pc \in {"created", "observe"} => observed[worker.key] < Creations(worker.key)

Settled == stored \cup Invalid

\* What the worker holds it still has to write, has settled, or has to put back.
Coming(k) ==
    \/ k \in Queued \cup waiting
    \/ k = worker.key /\ worker.pc = "write"
    \/ k = worker.key /\ worker.pc \in {"observe", "done"} /\ k \in dirty

Kept ==
    /\ dirty \subseteq Processing
    /\ worker.pc \in {"created", "finish"} /\ worker.key \in accepted => worker.key \in Settled
    /\ \A k \in (accepted \cap Keys) \ Settled : queueShut \/ (k \in pending /\ Coming(k))
    /\ accepted \subseteq Keys
    /\ state = "new" => worker.pc = "get"

IInv == Types /\ Observations /\ Kept

------------------------------------------------------------------------------
(* The queue. *)

\* Appending and taking the head change the queued keys by one.
LEMMA QueueFacts ==
    ASSUME NEW q \in Seq(Keys)
    PROVE  /\ \A k \in Keys : /\ Append(q, k) \in Seq(Keys)
                              /\ {Append(q, k)[i] : i \in 1 .. Len(Append(q, k))}
                                    = {q[i] : i \in 1 .. Len(q)} \cup {k}
           /\ q # <<>> =>
                /\ Head(q) \in Keys /\ Tail(q) \in Seq(Keys)
                /\ {q[i] : i \in 1 .. Len(q)}
                    = {Tail(q)[i] : i \in 1 .. Len(Tail(q))} \cup {Head(q)}
<1>1. ASSUME NEW k \in Keys
      PROVE  {Append(q, k)[i] : i \in 1 .. Len(Append(q, k))} = {q[i] : i \in 1 .. Len(q)} \cup {k}
  <2>1. Len(Append(q, k)) = Len(q) + 1 /\ Len(q) \in Nat
    OBVIOUS
  <2>2. \A i \in 1 .. Len(q) : Append(q, k)[i] = q[i]
    OBVIOUS
  <2>3. Append(q, k)[Len(q) + 1] = k
    OBVIOUS
  <2> QED
    BY <2>1, <2>2, <2>3
<1>2. ASSUME q # <<>>
      PROVE  {q[i] : i \in 1 .. Len(q)} = {Tail(q)[i] : i \in 1 .. Len(Tail(q))} \cup {Head(q)}
  <2>1. Len(q) \in Nat \ {0} /\ Len(Tail(q)) = Len(q) - 1 /\ Head(q) = q[1]
    BY <1>2
  <2>2. \A i \in 1 .. Len(Tail(q)) : Tail(q)[i] = q[i + 1]
    BY <1>2
  <2>3. \A i \in 1 .. Len(q) : i = 1 \/ (i - 1 \in 1 .. Len(Tail(q)) /\ q[i] = Tail(q)[i - 1])
    BY <2>1, <2>2
  <2>4. \A i \in 1 .. Len(Tail(q)) : i + 1 \in 1 .. Len(q)
    BY <2>1
  <2> QED
    BY <2>1, <2>2, <2>3, <2>4
<1>3. \A k \in Keys : Append(q, k) \in Seq(Keys)
  OBVIOUS
<1>4. q # <<>> => Head(q) \in Keys /\ Tail(q) \in Seq(Keys)
  OBVIOUS
<1> QED
  BY <1>1, <1>2, <1>3, <1>4

\* Add puts a key where the worker will come upon it, and removes none.
LEMMA AddFacts ==
    ASSUME Types, NEW k \in Keys, Add(k), ~queueShut
    PROVE  /\ queue' \in Seq(Keys) /\ dirty' \subseteq dirty \cup {k}
           /\ Queued \subseteq Queued' /\ dirty \subseteq dirty'
           /\ k \in Queued' \/ k \in dirty'
           /\ dirty' # dirty => k \in Processing
<1>1. queue \in Seq(Keys)
  BY DEF Types
<1>2. CASE k \in dirty \cup Queued
  BY <1>1, <1>2 DEF Add, Queued
<1>3. CASE k \notin dirty \cup Queued /\ k \in Processing
  BY <1>1, <1>3 DEF Add, Queued
<1>4. CASE k \notin dirty \cup Queued /\ k \notin Processing
  <2>1. queue' = Append(queue, k) /\ dirty' = dirty
    BY <1>4 DEF Add
  <2> QED
    BY <1>1, <2>1, QueueFacts DEF Queued
<1> QED
  BY <1>2, <1>3, <1>4

------------------------------------------------------------------------------
(* The invariant. *)

\* It holds initially.
LEMMA IInvInit == Init => IInv
BY DEF Init, IInv, Types, Observations, Kept, Creations, Waiting, At, Processing, Busy

\* Every step keeps the types.
LEMMA TypesStep == ASSUME Types, [Next]_vars PROVE Types'
<1>1. queue \in Seq(Keys) /\ worker.pc \in Busy \cup {"get", "exited"}
  BY DEF Types
<1>2. ASSUME NEW k \in Keys, Submit(k) \/ Due(k) PROVE Types'
  <2>1. CASE queueShut
    BY <1>2, <2>1 DEF Submit, Due, Add, results, Types
  <2>2. CASE ~queueShut
    <3>1. queue' \in Seq(Keys) /\ dirty' \subseteq Keys
      BY <1>2, <2>2, AddFacts DEF Submit, Due, Types
    <3> QED
      BY <1>2, <3>1 DEF Submit, Due, results, Types
  <2> QED
    BY <2>1, <2>2
<1>3. CASE Get
  <2>1. Head(queue) \in Keys /\ queue' \in Seq(Keys)
    BY <1>1, <1>3, QueueFacts DEF Get
  <2> QED
    BY <1>3, <2>1 DEF Get, At, results, Types, Busy
<1>4. CASE WriteCreates \/ WriteExists \/ WriteRefused
  BY <1>4 DEF WriteCreates, WriteExists, WriteRefused, work, results, Types, Busy
<1>5. CASE WriteFails
  BY <1>5 DEF WriteFails, Retry, Types, Busy
<1>6. CASE Finish
  BY <1>6 DEF Finish, work, results, Types, Busy
<1>7. CASE Observe
  <2>1. worker.key \in Keys
    BY <1>7 DEF Observe, Types, Busy
  <2>2. observed' \in [Keys -> Nat]
    BY <1>7, <2>1 DEF Observe, Types
  <2> QED
    BY <1>7, <2>1, <2>2 DEF Observe, work, Types, Busy
<1>14. CASE ObserveFails
  BY <1>14 DEF ObserveFails, work, results, Types, Busy
<1>8. CASE Done
  <2>1. worker.key \in Keys
    BY <1>8 DEF Done, Types, Busy
  <2>2. queue' \in Seq(Keys)
    BY <1>1, <1>8, <2>1, QueueFacts DEF Done
  <2> QED
    BY <1>8, <2>2 DEF Done, Waiting, At, results, Types, Busy
<1>9. CASE WorkerExits \/ StopNew
  BY <1>9 DEF WorkerExits, StopNew, At, work, results, Types, Busy
<1>10. CASE Start \/ ParentCancelled \/ ShutDownOnDone \/ StopRunning \/ StopReturns \/ UNCHANGED vars
  BY <1>10 DEF Start, ParentCancelled, ShutDownOnDone, StopRunning, StopReturns, vars, lifecycle,
               work, results, Types
<1>11. CASE Crash
  BY <1>11 DEF Crash, Waiting, At, results, Types, Busy
<1>12. ASSUME NEW k \in Keys, Deleted(k) PROVE Types'
  BY <1>12 DEF Deleted, work, Types
<1> QED
  BY <1>12, <1>14, <1>2, <1>3, <1>4, <1>5, <1>6, <1>7, <1>8, <1>9, <1>10, <1>11 DEF Next, ProcessNext, Write

\* Every step keeps what is known of observations.
LEMMA ObservationsStep == ASSUME Types, Observations, [Next]_vars PROVE Observations'
<1>1. \A k \in Keys : observed[k] \in Nat /\ deletions[k] \in Nat
  BY DEF Types
<1>2. CASE WriteCreates
  <2>1. worker.key \in Keys /\ worker.key \notin stored /\ worker'.key = worker.key
    BY <1>2 DEF WriteCreates, Types, Busy
  <2>2. observed[worker.key] < Creations(worker.key)'
    BY <1>1, <1>2, <2>1 DEF WriteCreates, Observations, Creations
  <2>3. \A k \in Keys : observed'[k] <= Creations(k)'
    BY <1>1, <1>2, <2>1 DEF WriteCreates, Observations, Creations
  <2> QED
    BY <1>2, <2>1, <2>2, <2>3 DEF WriteCreates, Observations
<1>3. CASE Observe
  <2>1. worker.key \in Keys /\ worker'.pc = "done"
    BY <1>3 DEF Observe, Types, Busy
  <2>2. \A k \in Keys : observed'[k] <= Creations(k)'
    BY <1>1, <1>3, <2>1 DEF Observe, Types, Observations, Creations
  <2> QED
    BY <2>1, <2>2 DEF Observations
<1>4. CASE WriteExists \/ WriteRefused \/ ObserveFails \/ Done
  BY <1>4 DEF WriteExists, WriteRefused, ObserveFails, Done, Waiting, At, results, Types,
              Observations, Creations
<1>5. CASE WriteFails
  <2>1. worker'.pc = "done"
    BY <1>5 DEF WriteFails, Types
  <2>2. \A k \in Keys : observed'[k] <= Creations(k)'
    BY <1>1, <1>5 DEF WriteFails, Observations, Creations
  <2> QED
    BY <2>1, <2>2 DEF Observations
<1>6. CASE Finish
  <2>1. /\ worker'.key = worker.key /\ worker.pc \in {"created", "finish"}
        /\ worker'.pc = IF worker.pc = "created" THEN "observe" ELSE "done"
    BY <1>6 DEF Finish, Types
  <2>2. UNCHANGED <<stored, deletions, observed>>
    BY <1>6 DEF Finish, results
  <2> QED
    BY <2>1, <2>2 DEF Observations, Creations
<1>7. CASE Get \/ WorkerExits \/ StopNew \/ Crash
  BY <1>7 DEF Get, WorkerExits, StopNew, Crash, Waiting, At, results, Types, Observations, Creations
<1>8. ASSUME NEW k \in Keys, Submit(k) \/ Due(k) PROVE Observations'
  <2>1. UNCHANGED <<worker, observed, stored, deletions>>
    BY <1>8 DEF Submit, Due, results
  <2> QED
    BY <2>1 DEF Observations, Creations
<1>9. ASSUME NEW k \in Keys, Deleted(k) PROVE Observations'
  <2>1. \A m \in Keys : Creations(m)' = Creations(m)
    BY <1>1, <1>9 DEF Deleted, Types, Creations
  <2>2. worker.pc \in Busy => worker.key \in Keys
    BY DEF Types
  <2> QED
    BY <1>9, <2>1, <2>2 DEF Deleted, Observations, Busy
<1>10. CASE Start \/ ParentCancelled \/ ShutDownOnDone \/ StopRunning \/ StopReturns \/ UNCHANGED vars
  <2>1. UNCHANGED <<worker, observed, stored, deletions>>
    BY <1>10 DEF Start, ParentCancelled, ShutDownOnDone, StopRunning, StopReturns, vars, results
  <2> QED
    BY <2>1 DEF Observations, Creations
<1> QED
  BY <1>2, <1>3, <1>4, <1>5, <1>6, <1>7, <1>8, <1>9, <1>10 DEF Next, ProcessNext, Write

\* Every step keeps the accepted reports.
LEMMA KeptStep == ASSUME Types, Kept, [Next]_vars PROVE Kept'
<1>1. queue \in Seq(Keys) /\ worker.pc \in Busy \cup {"get", "exited"} /\ dirty \subseteq Processing
  BY DEF Types, Kept
<1>2. ASSUME NEW k \in Keys, Submit(k) \/ Due(k) PROVE Kept'
  <2>1. CASE queueShut
    BY <1>2, <2>1 DEF Submit, Due, Add, Overtaken, lifecycle, results, Kept, Processing, Settled
  <2>2. CASE ~queueShut
    <3>1. /\ Queued \subseteq Queued' /\ dirty \subseteq dirty' /\ dirty' \subseteq dirty \cup {k}
          /\ k \in Queued' \/ k \in dirty'
          /\ dirty' # dirty => k \in Processing
      BY <1>2, <2>2, AddFacts DEF Submit, Due
    <3>2. worker' = worker /\ Processing' = Processing /\ Settled' = Settled
      BY <1>2 DEF Submit, Due, results, Processing, Settled
    <3>6. Overtaken(k) /\ k \in accepted' => k \in Settled
      BY <1>2 DEF Submit, Due, Overtaken, Kept
    <3>7. worker.pc \in {"created", "finish"} /\ worker.key \in accepted' => worker.key \in Settled
      BY <1>2, <3>6 DEF Submit, Due, Overtaken, Kept
    <3>3. dirty' \subseteq Processing'
      BY <1>1, <3>1, <3>2
    <3>4. ASSUME k \in dirty', k \in accepted', k \notin Settled PROVE Coming(k)'
      <4>1. k = worker.key /\ worker.pc \in Busy
        BY <3>2, <3>3, <3>4 DEF Processing, Types
      <4>2. worker.pc \notin {"created", "finish"}
        BY <3>6, <3>4, <4>1 DEF Overtaken
      <4> QED
        BY <3>2, <3>4, <4>1, <4>2 DEF Coming, Busy
    <3>5. ASSUME NEW m \in (accepted' \cap Keys) \ Settled' PROVE m \in pending' /\ Coming(m)'
      <4>1. CASE m = k
        <5>1. m \in pending'
          BY <1>2, <2>2, <3>2, <3>5, <4>1 DEF Submit, Due, Kept
        <5> QED
          BY <3>1, <3>2, <3>4, <3>5, <4>1, <5>1 DEF Coming
      <4>2. CASE m # k
        <5>1. m \in accepted /\ m \notin Settled
          BY <1>2, <3>2, <3>5, <4>2 DEF Submit, Due
        <5>2. m \in pending /\ Coming(m)
          BY <2>2, <3>5, <5>1 DEF Kept
        <5>3. m \in waiting => m \in waiting'
          BY <1>2, <4>2 DEF Submit, Due
        <5> QED
          BY <1>2, <3>1, <3>2, <5>2, <5>3 DEF Submit, Due, Coming
      <4> QED
        BY <4>1, <4>2
    <3> QED
      BY <1>2, <3>2, <3>3, <3>5, <3>7 DEF Submit, Due, lifecycle, Kept
  <2> QED
    BY <2>1, <2>2
<1>3. CASE Get
  <2>1. Queued = Queued' \cup {Head(queue)} /\ Head(queue) \in Keys
    <3>1. queue # <<>> /\ queue' = Tail(queue)
      BY <1>3 DEF Get
    <3>2. /\ Head(queue) \in Keys
          /\ Queued = {Tail(queue)[i] : i \in 1 .. Len(Tail(queue))} \cup {Head(queue)}
      BY <1>1, <3>1, QueueFacts DEF Queued
    <3>3. Queued' = {Tail(queue)[i] : i \in 1 .. Len(Tail(queue))}
      BY <3>1 DEF Queued
    <3> QED
      BY <3>2, <3>3
  <2>2. dirty = {} /\ dirty' = {}
    BY <1>1, <1>3 DEF Get, Processing
  <2>3. /\ worker'.key = Head(queue)
        /\ worker'.pc = IF Head(queue) \in pending THEN "write" ELSE "done"
    BY <1>3 DEF Get, At
  <2>4. UNCHANGED <<state, queueShut, waiting, pending, accepted>> /\ state # "new" /\ Settled' = Settled
    BY <1>3 DEF Get, WorkerFrame, lifecycle, results, Settled
  <2>5. ASSUME NEW k \in (accepted' \cap Keys) \ Settled', ~queueShut'
        PROVE  k \in pending' /\ Coming(k)'
    <3>1. k \in pending /\ Coming(k)
      BY <2>4, <2>5 DEF Kept
    <3>2. k \in Queued \cup waiting
      BY <1>3, <2>2, <3>1 DEF Coming, Get
    <3>3. CASE k \in waiting
      BY <2>4, <3>1, <3>3 DEF Coming
    <3>4. CASE k \in Queued'
      BY <2>4, <3>1, <3>4 DEF Coming
    <3>5. CASE k = Head(queue)
      BY <2>3, <2>4, <3>1, <3>5 DEF Coming
    <3> QED
      BY <2>1, <3>2, <3>3, <3>4, <3>5
  <2> QED
    BY <2>2, <2>3, <2>4, <2>5 DEF Kept
<1>4. CASE WriteCreates \/ WriteExists \/ WriteRefused
  <2>1. worker'.pc \in {"created", "finish"} /\ worker'.key = worker.key
    BY <1>4 DEF WriteCreates, WriteExists, WriteRefused, Types
  <2>2. worker.key \in Settled' /\ Settled \subseteq Settled'
    BY <1>4 DEF WriteCreates, WriteExists, WriteRefused, results, Settled
  <2> QED
    BY <1>4, <2>1, <2>2
       DEF WriteCreates, WriteExists, WriteRefused, WorkerFrame, lifecycle, work, Kept, Coming,
           Queued, Processing
<1>5. CASE WriteFails
  <2>1. worker'.pc = "done" /\ worker'.key = worker.key /\ worker.pc = "write"
    BY <1>5 DEF WriteFails, Types
  <2>2. Settled \subseteq Settled' /\ waiting \subseteq waiting'
    BY <1>5 DEF WriteFails, Settled, Retry
  <2>3. ~queueShut => worker.key \in waiting'
    BY <1>5 DEF WriteFails, Retry
  <2> QED
    BY <1>5, <2>1, <2>2, <2>3
       DEF WriteFails, WorkerFrame, lifecycle, Kept, Coming, Queued, Processing
<1>6. CASE Finish
  <2>1. /\ worker.key \in accepted => worker.key \in Settled
        /\ worker'.key = worker.key /\ worker'.pc \in {"observe", "done"}
        /\ worker.pc \in {"created", "finish"}
    BY <1>6 DEF Finish, Kept, Types
  <2> QED
    BY <1>6, <2>1
       DEF Finish, WorkerFrame, lifecycle, work, results, Kept, Coming, Queued, Processing, Settled
<1>7. CASE Observe \/ ObserveFails
  <2>1. worker'.key = worker.key /\ worker'.pc = "done" /\ worker.pc = "observe"
    BY <1>7 DEF Observe, ObserveFails, Types
  <2> QED
    BY <1>7, <2>1
       DEF Observe, ObserveFails, WorkerFrame, lifecycle, work, results, Kept, Coming, Queued, Processing,
           Settled
<1>8. CASE Done
  <2>1. worker.key \in Keys /\ dirty \subseteq {worker.key}
    BY <1>1, <1>8 DEF Done, Types, Busy, Processing
  <2>2. Queued' = IF worker.key \in dirty THEN Queued \cup {worker.key} ELSE Queued
    BY <1>1, <1>8, <2>1, QueueFacts DEF Done, Queued
  <2>3. dirty' = {} /\ worker'.pc = "get"
    BY <1>8, <2>1 DEF Done, Waiting, At
  <2> QED
    BY <1>8, <2>2, <2>3 DEF Done, WorkerFrame, lifecycle, results, Kept, Coming, Settled
<1>9. CASE WorkerExits \/ StopNew
  <2>1. queueShut'
    BY <1>9 DEF WorkerExits, StopNew, WorkerFrame, lifecycle
  <2>2. worker'.pc = "exited"
    BY <1>9 DEF WorkerExits, StopNew, At
  <2>3. dirty' \subseteq Processing'
    <3>1. CASE WorkerExits
      BY <1>1, <3>1 DEF WorkerExits, work, Processing
    <3>2. CASE StopNew
      BY <1>1, <3>2 DEF StopNew, work, Processing, Kept
    <3> QED
      BY <1>9, <3>1, <3>2
  <2>4. state' # "new"
    BY <1>9 DEF WorkerExits, StopNew, WorkerFrame, lifecycle
  <2> QED
    BY <1>9, <2>1, <2>2, <2>3, <2>4 DEF WorkerExits, StopNew, WorkerFrame, results, Kept, Settled
<1>10. CASE ShutDownOnDone \/ StopRunning
  BY <1>10 DEF ShutDownOnDone, StopRunning, results, Kept, Processing, Settled
<1>11. CASE Start \/ ParentCancelled \/ StopReturns \/ UNCHANGED vars
  BY <1>11 DEF Start, ParentCancelled, StopReturns, vars, lifecycle, work, results, Kept, Coming,
               Queued, Processing, Settled
<1>12. CASE Crash
  BY <1>12 DEF Crash, Waiting, At, Kept, Processing
<1>13. ASSUME NEW k \in Keys, Deleted(k) PROVE Kept'
  <2>1. Settled \ {k} \subseteq Settled' /\ accepted' = accepted \ {k}
    BY <1>13 DEF Deleted, Settled
  <2> QED
    BY <1>13, <2>1 DEF Deleted, lifecycle, work, Kept, Coming, Queued, Processing
<1> QED
  BY <1>2, <1>3, <1>4, <1>5, <1>6, <1>7, <1>8, <1>9, <1>10, <1>11, <1>12, <1>13
     DEF Next, ProcessNext, Write

\* The invariant of the publisher.
LEMMA Invariance == Spec => []IInv
<1>1. IInv /\ [Next]_vars => IInv'
  BY TypesStep, ObservationsStep, KeptStep DEF IInv
<1> QED
  BY IInvInit, <1>1, PTL DEF Spec

\* However often a report is submitted, its creation retried and the agent
\* restarted, it has at most one observation event for each time it was created.
THEOREM OneObservation == Spec => []ObservedOnce
<1>1. IInv => ObservedOnce
  BY DEF IInv, Observations, ObservedOnce
<1> QED
  BY <1>1, Invariance, PTL

\* While the publisher runs, the worker will come upon every accepted report that
\* is neither in the cluster nor refused.
THEOREM NoneForgotten == Spec => []AcceptedNotForgotten
<1>1. IInv => AcceptedNotForgotten
  BY DEF IInv, Types, Kept, Settled, Coming, AcceptedNotForgotten, Processing, Busy
<1> QED
  BY <1>1, Invariance, PTL

------------------------------------------------------------------------------
(* The queue holds no key twice. *)

NoRepeats(q) == \A i, j \in 1 .. Len(q) : q[i] = q[j] => i = j

\* A key that is being processed is not queued: Add leaves it to Done.
Alone == NoRepeats(queue) /\ Processing \cap Queued = {}

\* Appending a new key repeats none, and the head stands nowhere in the tail.
LEMMA NoRepeatsKept ==
    ASSUME NEW q \in Seq(Keys), NoRepeats(q)
    PROVE  /\ \A k \in Keys : k \notin {q[i] : i \in 1 .. Len(q)} => NoRepeats(Append(q, k))
           /\ q # <<>> => /\ NoRepeats(Tail(q))
                          /\ Head(q) \notin {Tail(q)[i] : i \in 1 .. Len(Tail(q))}
<1>1. ASSUME NEW k \in Keys, k \notin {q[i] : i \in 1 .. Len(q)} PROVE NoRepeats(Append(q, k))
  <2>1. /\ Len(Append(q, k)) = Len(q) + 1 /\ Len(q) \in Nat
        /\ \A i \in 1 .. Len(q) : Append(q, k)[i] = q[i]
        /\ Append(q, k)[Len(q) + 1] = k
    OBVIOUS
  <2>2. \A i \in 1 .. Len(q) + 1 : i \in 1 .. Len(q) \/ i = Len(q) + 1
    BY <2>1
  <2>3. \A i \in 1 .. Len(q) : q[i] # k
    BY <1>1
  <2> QED
    BY <2>1, <2>2, <2>3 DEF NoRepeats
<1>2. ASSUME q # <<>>
      PROVE  NoRepeats(Tail(q)) /\ Head(q) \notin {Tail(q)[i] : i \in 1 .. Len(Tail(q))}
  <2>1. /\ Len(q) \in Nat \ {0} /\ Len(Tail(q)) = Len(q) - 1 /\ Head(q) = q[1]
        /\ \A i \in 1 .. Len(Tail(q)) : Tail(q)[i] = q[i + 1]
    BY <1>2
  <2>2. \A i \in 1 .. Len(Tail(q)) : i + 1 \in 1 .. Len(q) /\ i + 1 # 1
    BY <2>1
  <2>3. 1 \in 1 .. Len(q)
    BY <2>1
  <2>4. NoRepeats(Tail(q))
    BY <2>1, <2>2 DEF NoRepeats
  <2> QED
    BY <2>1, <2>2, <2>3, <2>4 DEF NoRepeats
<1> QED
  BY <1>1, <1>2

\* Without repeats a queue is as long as the set of its keys is large.
LEMMA LengthIsNumber ==
    ASSUME queue \in Seq(Keys), NoRepeats(queue)
    PROVE  Len(queue) = Cardinality(Queued)
<1>1. IsFiniteSet(1 .. Len(queue)) /\ Cardinality(1 .. Len(queue)) = Len(queue)
  <2>1. Len(queue) \in Nat
    OBVIOUS
  <2>2. /\ IsFiniteSet(1 .. Len(queue))
        /\ Cardinality(1 .. Len(queue)) = IF 1 > Len(queue) THEN 0 ELSE Len(queue) - 1 + 1
    BY <2>1, FS_Interval
  <2> QED
    BY <2>1, <2>2
<1>2. queue \in [1 .. Len(queue) -> Queued]
  BY DEF Queued
<1>3. queue \in Surjection(1 .. Len(queue), Queued)
  BY <1>2 DEF Surjection, Queued
<1>4. queue \in Injection(1 .. Len(queue), Queued)
  BY <1>2 DEF Injection, IsInjective, NoRepeats
<1> QED
  BY <1>1, <1>3, <1>4, FS_Surjection

\* Every step keeps it so.
LEMMA AloneStep == ASSUME Types, Kept, Alone, [Next]_vars PROVE Alone'
<1>1. /\ queue \in Seq(Keys) /\ worker.pc \in Busy \cup {"get", "exited"} /\ dirty \subseteq Processing
      /\ NoRepeats(queue) /\ Processing \cap Queued = {}
  BY DEF Types, Kept, Alone
<1>2. ASSUME NEW k \in Keys, Submit(k) \/ Due(k) PROVE Alone'
  <2>1. Processing' = Processing
    BY <1>2 DEF Submit, Due, Processing
  <2>2. CASE queue' = queue
    BY <1>1, <2>1, <2>2 DEF Alone, Queued
  <2>3. CASE queue' # queue
    <3>1. queue' = Append(queue, k) /\ k \notin Queued /\ k \notin Processing
      BY <1>2, <2>3 DEF Submit, Due, Add
    <3>2. Queued' = Queued \cup {k}
      BY <1>1, <3>1, QueueFacts DEF Queued
    <3>3. NoRepeats(queue')
      BY <1>1, <3>1, NoRepeatsKept DEF Queued
    <3> QED
      BY <1>1, <2>1, <3>1, <3>2, <3>3 DEF Alone
  <2> QED
    BY <2>2, <2>3
<1>3. CASE Get
  <2>1. queue # <<>> /\ queue' = Tail(queue) /\ worker'.key = Head(queue) /\ worker'.pc \in {"write", "done"}
    BY <1>3 DEF Get, At
  <2>2. NoRepeats(queue') /\ Head(queue) \notin Queued'
    BY <1>1, <2>1, NoRepeatsKept DEF Queued
  <2>3. Processing' = {Head(queue)}
    BY <2>1 DEF Processing
  <2> QED
    BY <2>2, <2>3 DEF Alone
<1>4. CASE Done
  <2>1. worker.key \in Keys /\ worker.key \notin Queued
    BY <1>1, <1>4 DEF Done, Types, Busy, Processing
  <2>2. NoRepeats(queue')
    BY <1>1, <1>4, <2>1, NoRepeatsKept DEF Done, Queued
  <2>3. Processing' = {}
    BY <1>4 DEF Done, Waiting, At, Processing
  <2> QED
    BY <2>2, <2>3 DEF Alone
<1>5. CASE Crash
  <2>1. queue' = <<>> /\ Processing' = {}
    BY <1>5 DEF Crash, Waiting, At, Processing
  <2> QED
    BY <2>1 DEF Alone, NoRepeats
<1>6. CASE Write \/ WriteFails \/ Finish \/ Observe \/ ObserveFails \/ WorkerExits \/ StopNew
  <2>1. queue' = queue
    BY <1>6 DEF Write, WriteCreates, WriteExists, WriteRefused, WriteFails, Finish, Observe, ObserveFails,
                WorkerExits, StopNew, work
  <2>2. Processing' \subseteq Processing
    BY <1>6 DEF Write, WriteCreates, WriteExists, WriteRefused, WriteFails, Finish, Observe, ObserveFails,
                WorkerExits, StopNew, At, Types, Processing
  <2> QED
    BY <1>1, <2>1, <2>2 DEF Alone, Queued
<1>7. CASE Start \/ ParentCancelled \/ ShutDownOnDone \/ StopRunning \/ StopReturns \/ UNCHANGED vars
  <2>1. queue' = queue /\ worker' = worker
    BY <1>7 DEF Start, ParentCancelled, ShutDownOnDone, StopRunning, StopReturns, vars, work
  <2> QED
    BY <1>1, <2>1 DEF Alone, Queued, Processing
<1>8. ASSUME NEW k \in Keys, Deleted(k) PROVE Alone'
  BY <1>1, <1>8 DEF Deleted, work, Alone, Queued, Processing
<1> QED
  BY <1>2, <1>3, <1>4, <1>5, <1>6, <1>7, <1>8 DEF Next, ProcessNext

\* The types of what the arguments above do not need.
Bounds ==
    /\ state \in {"new", "running", "stopped"}
    /\ ctxDone \in BOOLEAN /\ queueShut \in BOOLEAN
    /\ stop \in {"none", "waiting", "returned"}
    /\ pending \subseteq Keys /\ stored \subseteq Keys /\ accepted \subseteq Keys
    /\ deletions \in [Keys -> 0 .. MaxDeletions] /\ crashes \in 0 .. MaxCrashes

\* Every step keeps them.
LEMMA BoundsStep == ASSUME Types, Bounds, [Next]_vars PROVE Bounds'
<1>1. MaxCrashes \in Nat /\ MaxDeletions \in Nat
  BY PublisherAssumption
<1>2. ASSUME NEW k \in Keys, Submit(k) \/ Due(k) PROVE Bounds'
  BY <1>2 DEF Submit, Due, lifecycle, results, Bounds
<1>3. ASSUME NEW k \in Keys, Deleted(k) PROVE Bounds'
  <2>1. deletions' \in [Keys -> 0 .. MaxDeletions]
    <3>1. deletions[k] \in 0 .. MaxDeletions /\ deletions[k] < MaxDeletions
      BY <1>3 DEF Deleted, Bounds
    <3>2. deletions[k] + 1 \in 0 .. MaxDeletions
      BY <1>1, <3>1
    <3> QED
      BY <1>3, <3>2 DEF Deleted, Bounds
  <2> QED
    BY <1>3, <2>1 DEF Deleted, lifecycle, Bounds
<1>4. CASE Get \/ Write \/ WriteFails
  <2>0. pending' = pending
    BY <1>4 DEF Get, Write, WriteCreates, WriteExists, WriteRefused, WriteFails
  <2>3. UNCHANGED <<lifecycle, accepted, crashes, deletions>>
    BY <1>4 DEF Get, Write, WriteCreates, WriteExists, WriteRefused, WriteFails, WorkerFrame, results
  <2>1. worker.pc = "write" => worker.key \in Keys
    BY DEF Types, Busy
  <2>2. stored' \subseteq Keys
    BY <1>4, <2>1 DEF Get, Write, WriteCreates, WriteExists, WriteRefused, WriteFails, results, Bounds
  <2> QED
    BY <2>0, <2>2, <2>3 DEF lifecycle, Bounds
<1>5. CASE Finish \/ Observe \/ ObserveFails \/ Done \/ WorkerExits
  BY <1>5 DEF Finish, Observe, ObserveFails, Done, WorkerExits, WorkerFrame, lifecycle, results, Bounds
<1>6. CASE Start \/ ParentCancelled \/ ShutDownOnDone \/ StopNew \/ StopRunning \/ StopReturns
  <2>1. UNCHANGED <<pending, results, accepted, crashes>>
    BY <1>6 DEF Start, ParentCancelled, ShutDownOnDone, StopNew, StopRunning, StopReturns
  <2>2. /\ state' \in {"new", "running", "stopped"} /\ stop' \in {"none", "waiting", "returned"}
        /\ ctxDone' \in {ctxDone, TRUE} /\ queueShut' \in {queueShut, TRUE}
    BY <1>6 DEF Start, ParentCancelled, ShutDownOnDone, StopNew, StopRunning, StopReturns, Bounds
  <2>3. ctxDone' \in BOOLEAN /\ queueShut' \in BOOLEAN
    BY <2>2, Zenon DEF Bounds
  <2>4. UNCHANGED <<pending, stored, accepted, deletions, crashes>>
    BY <2>1 DEF results
  <2> QED
    BY <2>2, <2>3, <2>4 DEF Bounds
<1>7. CASE Crash
  <2>1. UNCHANGED <<stored, deletions>> /\ crashes' \in 0 .. MaxCrashes
    BY <1>1, <1>7 DEF Crash, results, Bounds
  <2> QED
    BY <1>7, <2>1, Zenon DEF Crash, Bounds
<1>8. CASE UNCHANGED vars
  BY <1>8 DEF vars, lifecycle, results, Bounds
<1> QED
  BY <1>2, <1>3, <1>4, <1>5, <1>6, <1>7, <1>8 DEF Next, ProcessNext

\* All of it holds throughout, and is what the publisher's type invariant says.
LEMMA PublisherTyped == Spec => [](IInv /\ TypeOK)
<1>1. Init => Alone /\ Bounds
  <2> SUFFICES ASSUME Init PROVE Alone /\ Bounds
    OBVIOUS
  <2>1. Alone
    BY DEF Init, Alone, NoRepeats, Waiting, At, Processing
  <2>2. 0 \in 0 .. MaxCrashes /\ 0 \in 0 .. MaxDeletions
    BY PublisherAssumption
  <2>3. Bounds
    BY <2>2, Zenon DEF Init, Bounds
  <2> QED
    BY <2>1, <2>3
<1>2. IInv /\ Alone /\ Bounds /\ [Next]_vars => Alone' /\ Bounds'
  BY AloneStep, BoundsStep DEF IInv
<1>3. IInv /\ Alone /\ Bounds => TypeOK
  <2> SUFFICES ASSUME IInv, Alone, Bounds PROVE TypeOK
    OBVIOUS
  <2>1. Len(queue) = Cardinality(Queued)
    BY LengthIsNumber DEF IInv, Types, Alone
  <2> QED
    BY <2>1 DEF IInv, Types, Busy, Bounds, TypeOK
<1> QED
  BY <1>1, <1>2, <1>3, Invariance, PTL DEF Spec

------------------------------------------------------------------------------
(* The agent. *)

\* Where the agent is tells where the publisher is.
Phases ==
    /\ agent \in {"off", "publishing", "running", "collectorGone", "stopping", "exited"}
    /\ agent = "off" => state = "new"
    /\ agent \in {"publishing", "running", "collectorGone"} => state = "running"
    /\ agent \in {"stopping", "exited"} \/ stop = "waiting" => state = "stopped"

\* What the collector submits is a report of this module's keys.
Pieces == run \in [Pods -> Runs] /\ file \in Texts \cup {NoText}

\* Every step of a pod leaves agent and publisher alone.
LEMMA PodSteps ==
    ASSUME NEW p \in Pods, NEW t \in Texts,
           PodWrites(p) \/ PodFails(p) \/ PodUpdated(p) \/ PodGone(p) \/ PodReports(p, t)
    PROVE  UNCHANGED <<vars, agent, run>> /\ (file' = file \/ file' = NoText \/ file' = t)
BY DEF PodWrites, PodFails, PodUpdated, PodGone, PodReports, node

\* What a step of the composition is to the publisher.
LEMMA PublisherStep ==
    ASSUME Pieces, [CollectionNext]_collectionVars
    PROVE  [Next]_vars
<1>1. ASSUME NEW p \in Pods, NEW t \in Texts,
             PodWrites(p) \/ PodFails(p) \/ PodUpdated(p) \/ PodGone(p) \/ PodReports(p, t)
      PROVE  UNCHANGED vars
  BY <1>1, PodSteps
<1>2. ASSUME NEW p \in Pods, PodWrites(p) \/ PodFails(p) \/ PodUpdated(p) \/ PodGone(p)
      PROVE  UNCHANGED vars
  BY <1>2 DEF PodWrites, PodFails, PodUpdated, PodGone
<1>3. ASSUME NEW p \in Pods, Collecting(p) PROVE [Next]_vars
  <2>1. CASE CollectNothing(p)
    BY <2>1 DEF CollectNothing
  <2>2. CASE Collect(p)
    <3>1. CASE state = "running"
      <4>1. ReportOf(p, file) \in Keys
        BY <2>2, CollectionAssumption DEF Collect, Pieces, ReportOf
      <4>2. Submit(ReportOf(p, file))
        BY <2>2, <3>1 DEF Collect
      <4> QED
        BY <4>1, <4>2 DEF Next
    <3>2. CASE state # "running"
      BY <2>2, <3>2 DEF Collect
    <3> QED
      BY <3>1, <3>2
  <2> QED
    BY <1>3, <2>1, <2>2 DEF Collecting
<1>4. CASE WorkerNext \/ QueueShutDown
  BY <1>4 DEF WorkerNext, WorkerTakes, WorkerWrites, WorkerFails, WorkerFinishes, WorkerGoesOn,
              QueueShutDown, Next, ProcessNext
<1>5. CASE AgentNext
  BY <1>5 DEF AgentNext, AgentProgress, AgentStarts, CollectorStarts, Terminated, CollectorStops,
              PublisherStops, AgentExits, AgentRestarts, Next
<1>6. ASSUME NEW k \in Keys, GarbageCollected(k) \/ BackoffEnds(k) PROVE [Next]_vars
  BY <1>6 DEF GarbageCollected, BackoffEnds, Next
<1>7. CASE UNCHANGED collectionVars
  BY <1>7 DEF collectionVars
<1> QED
  BY <1>1, <1>2, <1>3, <1>4, <1>5, <1>6, <1>7 DEF CollectionNext

\* Runs and texts stay what they are.
LEMMA PiecesStep == ASSUME Pieces, [CollectionNext]_collectionVars PROVE Pieces'
<1>1. ASSUME NEW p \in Pods, NEW t \in Texts,
             PodWrites(p) \/ PodFails(p) \/ PodUpdated(p) \/ PodGone(p) \/ PodReports(p, t)
      PROVE  Pieces'
  BY <1>1, PodSteps DEF Pieces
<1>2. ASSUME NEW p \in Pods, PodWrites(p) \/ PodFails(p) \/ PodUpdated(p) \/ PodGone(p)
      PROVE  Pieces'
  BY <1>2 DEF PodWrites, PodFails, PodUpdated, PodGone, node, Pieces
<1>3. ASSUME NEW p \in Pods, Collecting(p) PROVE Pieces'
  BY <1>3 DEF Collecting, CollectNothing, Collect, node, Pieces
<1>4. CASE WorkerNext \/ QueueShutDown
  BY <1>4 DEF WorkerNext, WorkerTakes, WorkerWrites, WorkerFails, WorkerFinishes, WorkerGoesOn,
              AnswerFrame, QueueShutDown, node, Pieces
<1>5. CASE AgentNext
  BY <1>5 DEF AgentNext, AgentProgress, AgentStarts, CollectorStarts, Terminated, CollectorStops,
              PublisherStops, AgentExits, AgentRestarts, node, Pieces
<1>6. ASSUME NEW k \in Keys, GarbageCollected(k) \/ BackoffEnds(k) PROVE Pieces'
  BY <1>6 DEF GarbageCollected, BackoffEnds, node, Pieces
<1>7. CASE UNCHANGED collectionVars
  BY <1>7 DEF collectionVars, node, Pieces
<1> QED
  BY <1>1, <1>2, <1>3, <1>4, <1>5, <1>6, <1>7 DEF CollectionNext

\* Every step keeps agent and publisher in phase.
LEMMA PhasesStep == ASSUME Phases, [CollectionNext]_collectionVars PROVE Phases'
<1>1. ASSUME NEW p \in Pods, NEW t \in Texts,
             PodWrites(p) \/ PodFails(p) \/ PodUpdated(p) \/ PodGone(p) \/ PodReports(p, t)
      PROVE  Phases'
  BY <1>1, PodSteps DEF vars, lifecycle, Phases
<1>2. ASSUME NEW p \in Pods, PodWrites(p) \/ PodFails(p) \/ PodUpdated(p) \/ PodGone(p)
      PROVE  Phases'
  BY <1>2 DEF PodWrites, PodFails, PodUpdated, PodGone, vars, lifecycle, Phases
<1>3. ASSUME NEW p \in Pods, Collecting(p) PROVE Phases'
  BY <1>3 DEF Collecting, CollectNothing, Collect, Submit, vars, lifecycle, Phases
<1>4. CASE WorkerNext
  <2>1. UNCHANGED <<agent, state, stop>>
    BY <1>4 DEF WorkerNext, WorkerTakes, WorkerWrites, WorkerFails, WorkerFinishes, WorkerGoesOn,
                AnswerFrame, Get, Write, WriteCreates, WriteExists, WriteRefused, WriteFails, Finish,
                Observe, ObserveFails, Done, WorkerExits, WorkerFrame, lifecycle
  <2> QED
    BY <2>1 DEF Phases
<1>5. CASE QueueShutDown \/ AgentStarts \/ CollectorStarts \/ Terminated \/ CollectorStops
  BY <1>5 DEF QueueShutDown, ShutDownOnDone, AgentStarts, Start, CollectorStarts, Terminated,
              ParentCancelled, CollectorStops, vars, lifecycle, Phases
<1>6. CASE PublisherStops \/ AgentExits \/ AgentRestarts
  <2>1. CASE PublisherStops
    BY <2>1 DEF PublisherStops, StopRunning, Phases
  <2>2. CASE AgentExits
    BY <2>2 DEF AgentExits, StopReturns, Phases
  <2>3. CASE AgentRestarts
    BY <2>3 DEF AgentRestarts, Crash, Phases
  <2> QED
    BY <1>6, <2>1, <2>2, <2>3
<1>7. ASSUME NEW k \in Keys, GarbageCollected(k) \/ BackoffEnds(k) PROVE Phases'
  BY <1>7 DEF GarbageCollected, Deleted, BackoffEnds, Due, lifecycle, Phases
<1>8. CASE UNCHANGED collectionVars
  BY <1>8 DEF collectionVars, vars, lifecycle, Phases
<1> QED
  BY <1>1, <1>2, <1>3, <1>4, <1>5, <1>6, <1>7, <1>8 DEF CollectionNext, AgentNext, AgentProgress

\* The agent's collection of reports implements the publisher's specification: none of
\* its parts calls or changes the publisher in a way ReportPublisher does not foresee.
THEOREM CollectionImplementsPublisher == CollectionSpec => Spec
<1>1. CollectionInit => Init /\ Pieces
  BY DEF CollectionInit, Pieces
<1>2. Pieces /\ [CollectionNext]_collectionVars => Pieces' /\ [Next]_vars
  BY PiecesStep, PublisherStep
<1> QED
  BY <1>1, <1>2, PTL DEF CollectionSpec, Spec

\* In the whole agent, with pods that share files and names, no report has more
\* observations than creations and no accepted report is forgotten.
THEOREM NothingForgottenByAgent == CollectionSpec => [](ObservedOnce /\ AcceptedNotForgotten)
BY CollectionImplementsPublisher, OneObservation, NoneForgotten, PTL

------------------------------------------------------------------------------
(* The owners of the reports. *)

\* o is a pod, and of the run that k is named after.
Ours(o, k) == o \in Pods /\ run[o] = k[1]

\* Exactly what is pending or stored has an owner, and the worker holds that of the
\* report it is about to write.
Owned ==
    /\ pendingOwner \in [Keys -> Pods \cup {NoPod}] /\ objectOwner \in [Keys -> Pods \cup {NoPod}]
    /\ heldOwner \in Pods \cup {NoPod}
    /\ \A k \in Keys : IF k \in stored THEN Ours(objectOwner[k], k) ELSE objectOwner[k] = NoPod
    /\ \A k \in Keys : IF k \in pending THEN Ours(pendingOwner[k], k) ELSE pendingOwner[k] = NoPod
    /\ worker.pc = "write" => Ours(heldOwner, worker.key)

\* It depends on nothing else.
LEMMA OwnedUnmoved ==
    ASSUME Owned, UNCHANGED <<run, stored, pending, worker, owners>>
    PROVE  Owned'
BY DEF Owned, Ours, owners

\* A worker that writes no more needs no owner for what it holds.
LEMMA OwnedAtEnds ==
    ASSUME Owned, UNCHANGED <<run, stored, pending, pendingOwner, objectOwner>>,
           worker'.pc # "write", heldOwner' \in {heldOwner, NoPod}
    PROVE  Owned'
BY DEF Owned, Ours

\* The worker's answer moves the owner it holds to an object that is new.
LEMMA AnswerOwned ==
    ASSUME Types, Owned, WorkerWrites \/ WorkerFails
    PROVE  Owned'
<1>1. /\ worker.pc = "write" /\ worker.key \in Keys /\ worker'.pc # "write"
      /\ stored' \in {stored, stored \cup {worker.key}}
      /\ pending' = pending
  BY DEF WorkerWrites, WorkerFails, Write, WriteCreates, WriteExists, WriteRefused, WriteFails, results,
         Types, Busy
<1>2. /\ objectOwner' = [k \in Keys |-> IF k \in stored' \ stored THEN heldOwner ELSE objectOwner[k]]
      /\ heldOwner' = NoPod /\ UNCHANGED <<run, pendingOwner>>
  BY DEF WorkerWrites, WorkerFails, AnswerFrame, node
<1>3. Ours(heldOwner, worker.key)
  BY <1>1 DEF Owned
<1>4. objectOwner' \in [Keys -> Pods \cup {NoPod}]
  BY <1>2 DEF Owned
<1>5. \A k \in Keys : IF k \in stored' THEN Ours(objectOwner[k], k)' ELSE objectOwner'[k] = NoPod
  BY <1>1, <1>2, <1>3 DEF Owned, Ours
<1> QED
  BY <1>1, <1>2, <1>4, <1>5 DEF Owned, Ours

\* Every step keeps the owners.
LEMMA OwnedStep == ASSUME Types, Pieces, Owned, [CollectionNext]_collectionVars PROVE Owned'
<1>1. ASSUME NEW p \in Pods, NEW t \in Texts,
             PodWrites(p) \/ PodFails(p) \/ PodUpdated(p) \/ PodGone(p) \/ PodReports(p, t)
      PROVE  Owned'
  <2>1. UNCHANGED <<vars, run, owners>>
    BY <1>1 DEF PodWrites, PodFails, PodUpdated, PodGone, PodReports, node
  <2> QED
    BY <2>1, OwnedUnmoved DEF vars, results
<1>2. ASSUME NEW p \in Pods, PodWrites(p) \/ PodFails(p) \/ PodUpdated(p) \/ PodGone(p)
      PROVE  Owned'
  <2>1. UNCHANGED <<vars, run, owners>>
    BY <1>2 DEF PodWrites, PodFails, PodUpdated, PodGone, node
  <2> QED
    BY <2>1, OwnedUnmoved DEF vars, results
<1>3. ASSUME NEW p \in Pods, Collecting(p) PROVE Owned'
  <2>1. CASE CollectNothing(p) \/ (Collect(p) /\ state # "running")
    <3>1. UNCHANGED <<vars, run, owners>>
      BY <2>1 DEF CollectNothing, Collect, node, owners
    <3> QED
      BY <3>1, OwnedUnmoved DEF vars, results
  <2>2. CASE Collect(p) /\ state = "running"
    <3> DEFINE r == ReportOf(p, file)
    <3>1. r \in Keys /\ r[1] = run[p]
      BY <2>2, CollectionAssumption DEF Collect, Pieces, ReportOf
    <3> HIDE DEF r
    <3>2. /\ pending' = pending \cup {r}
          /\ pendingOwner' = [pendingOwner EXCEPT ![r] = p]
          /\ UNCHANGED <<run, stored, worker, heldOwner, objectOwner>>
      BY <2>2 DEF Collect, Submit, results, node, r
    <3>3. pendingOwner' \in [Keys -> Pods \cup {NoPod}]
      BY <3>1, <3>2 DEF Owned
    <3>4. \A k \in Keys : IF k \in pending' THEN Ours(pendingOwner[k], k)' ELSE pendingOwner'[k] = NoPod
      BY <3>1, <3>2 DEF Owned, Ours
    <3> QED
      BY <3>2, <3>3, <3>4 DEF Owned, Ours
  <2> QED
    BY <1>3, <2>1, <2>2 DEF Collecting
<1>4. CASE WorkerTakes
  <2>1. Head(queue) \in Keys
    BY <1>4, QueueFacts DEF WorkerTakes, Get, Types
  <2>2. /\ worker'.key = Head(queue)
        /\ worker'.pc = IF Head(queue) \in pending THEN "write" ELSE "done"
        /\ heldOwner' = IF worker'.pc = "write" THEN pendingOwner[worker'.key] ELSE NoPod
        /\ UNCHANGED <<run, stored, pending, pendingOwner, objectOwner>>
    BY <1>4 DEF WorkerTakes, Get, At, node, results
  <2>3. worker'.pc = "write" => Ours(heldOwner, worker.key)'
    BY <2>1, <2>2 DEF Owned, Ours
  <2>4. heldOwner' \in Pods \cup {NoPod}
    BY <2>2, <2>3 DEF Ours
  <2> QED
    BY <2>2, <2>3, <2>4 DEF Owned, Ours
<1>5. CASE WorkerWrites \/ WorkerFails
  BY <1>5, AnswerOwned
<1>6. CASE WorkerFinishes
  <2>1. /\ worker.key \in Keys /\ worker'.pc # "write"
        /\ pending' = pending \ {worker.key}
        /\ pendingOwner' = [pendingOwner EXCEPT ![worker.key] = NoPod]
        /\ UNCHANGED <<run, stored, heldOwner, objectOwner>>
    BY <1>6 DEF WorkerFinishes, Finish, Types, Busy, node, results
  <2>2. pendingOwner' \in [Keys -> Pods \cup {NoPod}]
    BY <2>1 DEF Owned
  <2>3. \A k \in Keys : IF k \in pending' THEN Ours(pendingOwner[k], k)' ELSE pendingOwner'[k] = NoPod
    BY <2>1 DEF Owned, Ours
  <2> QED
    BY <2>1, <2>2, <2>3 DEF Owned, Ours
<1>7. CASE WorkerGoesOn
  <2>1. worker'.pc # "write" /\ UNCHANGED <<run, stored, pending, owners>>
    BY <1>7 DEF WorkerGoesOn, Observe, ObserveFails, Done, WorkerExits, Waiting, At, Types, node, results
  <2> QED
    BY <2>1, OwnedAtEnds DEF owners
<1>8. CASE QueueShutDown \/ AgentStarts \/ CollectorStarts \/ Terminated \/ CollectorStops
           \/ PublisherStops \/ AgentExits \/ UNCHANGED collectionVars
  <2>1. UNCHANGED <<run, stored, pending, worker, owners>>
    BY <1>8 DEF QueueShutDown, ShutDownOnDone, AgentStarts, Start, CollectorStarts, Terminated,
                ParentCancelled, CollectorStops, PublisherStops, StopRunning, AgentExits, StopReturns,
                collectionVars, vars, node, results
  <2> QED
    BY <2>1, OwnedUnmoved
<1>9. CASE AgentRestarts
  <2>1. /\ pending' = {} /\ worker'.pc = "get" /\ pendingOwner' = [k \in Keys |-> NoPod]
        /\ heldOwner' = NoPod /\ UNCHANGED <<run, stored, objectOwner>>
    BY <1>9 DEF AgentRestarts, Crash, Waiting, At, NoOwners, node, results
  <2> QED
    BY <2>1 DEF Owned, Ours
<1>10. ASSUME NEW k \in Keys, GarbageCollected(k) PROVE Owned'
  <2>1. /\ stored' = stored \ {k} /\ objectOwner' = [objectOwner EXCEPT ![k] = NoPod]
        /\ UNCHANGED <<run, pending, worker, pendingOwner, heldOwner>>
    BY <1>10 DEF GarbageCollected, Deleted, node
  <2>2. objectOwner' \in [Keys -> Pods \cup {NoPod}]
    BY <2>1 DEF Owned
  <2>3. \A m \in Keys : IF m \in stored' THEN Ours(objectOwner[m], m)' ELSE objectOwner'[m] = NoPod
    BY <2>1 DEF Owned, Ours
  <2> QED
    BY <2>1, <2>2, <2>3 DEF Owned, Ours
<1>11. ASSUME NEW k \in Keys, BackoffEnds(k) PROVE Owned'
  <2>1. UNCHANGED <<run, stored, pending, worker, owners>>
    BY <1>11 DEF BackoffEnds, Due, node, results
  <2> QED
    BY <2>1, OwnedUnmoved
<1> QED
  BY <1>1, <1>2, <1>3, <1>4, <1>5, <1>6, <1>7, <1>8, <1>9, <1>10, <1>11
     DEF CollectionNext, AgentNext, AgentProgress, WorkerNext

\* The types of the pods and of what the collector is told of them.
Places ==
    /\ phase \in [Pods -> {"running", "writing", "ended", "gone"}]
    /\ own \in [Pods -> Texts \cup {NoText}]
    /\ inbox \subseteq Pods /\ lost \subseteq Pods

\* Every step keeps them.
LEMMA PlacesStep == ASSUME Places, [CollectionNext]_collectionVars PROVE Places'
<1>1. ASSUME NEW p \in Pods, PodWrites(p) \/ PodFails(p) \/ PodUpdated(p) \/ PodGone(p)
      PROVE  Places'
  BY <1>1 DEF PodWrites, PodFails, PodUpdated, PodGone, Notice, Ended, node, Places
<1>2. ASSUME NEW p \in Pods, NEW t \in Texts, PodReports(p, t) PROVE Places'
  <2>1. /\ phase' = [phase EXCEPT ![p] = "ended"] /\ own' = [own EXCEPT ![p] = t]
        /\ inbox' \subseteq inbox \cup {p} /\ lost' = lost
    BY <1>2 DEF PodReports, Notice
  <2> QED
    BY <2>1 DEF Places
<1>3. ASSUME NEW p \in Pods, Collecting(p) PROVE Places'
  <2>1. /\ UNCHANGED <<phase, own>> /\ inbox' \subseteq inbox
        /\ lost' \subseteq lost \cup {p}
    BY <1>3 DEF Collecting, CollectNothing, Collect, node
  <2> QED
    BY <2>1 DEF Places
<1>4. CASE WorkerNext \/ QueueShutDown
  <2>1. UNCHANGED <<phase, own, inbox, lost>>
    BY <1>4 DEF WorkerNext, WorkerTakes, WorkerWrites, WorkerFails, WorkerFinishes, WorkerGoesOn,
                AnswerFrame, QueueShutDown, node
  <2> QED
    BY <2>1 DEF Places
<1>5. CASE AgentNext
  <2>1. UNCHANGED <<phase, own>> /\ inbox' \in {inbox, {}, Ended} /\ lost' \subseteq lost \cup Ended
    BY <1>5 DEF AgentNext, AgentProgress, AgentStarts, CollectorStarts, Terminated, CollectorStops,
                PublisherStops, AgentExits, AgentRestarts, node
  <2> QED
    BY <2>1 DEF Ended, Places
<1>6. ASSUME NEW k \in Keys, GarbageCollected(k) \/ BackoffEnds(k) PROVE Places'
  <2>1. UNCHANGED <<phase, own, inbox>> /\ lost' \subseteq lost \cup Ended
    BY <1>6 DEF GarbageCollected, BackoffEnds, node
  <2> QED
    BY <2>1 DEF Ended, Places
<1>7. CASE UNCHANGED collectionVars
  BY <1>7 DEF collectionVars, node, Places
<1> QED
  BY <1>1, <1>2, <1>3, <1>4, <1>5, <1>6, <1>7 DEF CollectionNext

\* What holds of the whole agent.
CollectionInv == Pieces /\ Phases /\ Owned /\ Places

\* It holds throughout, with all that holds of the publisher.
LEMMA CollectionInvariance == CollectionSpec => [](CollectionInv /\ IInv /\ TypeOK)
<1>1. CollectionInit => CollectionInv
  <2> SUFFICES ASSUME CollectionInit PROVE CollectionInv
    OBVIOUS
  <2>1. Pieces /\ Phases
    BY DEF CollectionInit, Init, Pieces, Phases
  <2>2. Owned
    BY DEF CollectionInit, Init, NoOwners, Waiting, At, Owned
  <2>3. Places
    BY DEF CollectionInit, Places
  <2> QED
    BY <2>1, <2>2, <2>3 DEF CollectionInv
<1>2. CollectionInv /\ IInv /\ [CollectionNext]_collectionVars => CollectionInv'
  BY PiecesStep, PhasesStep, OwnedStep, PlacesStep DEF CollectionInv, IInv
<1> QED
  BY <1>1, <1>2, CollectionImplementsPublisher, PublisherTyped, PTL DEF CollectionSpec

\* The type invariant of the whole agent: among others no report is queued twice, and
\* what is pending or stored is exactly what has an owner, through retries, garbage
\* collection, crashes and pods that share a report.
THEOREM CollectionTypes == CollectionSpec => []CollectionTypeOK
<1>1. CollectionInv /\ TypeOK => CollectionTypeOK
  <2> SUFFICES ASSUME CollectionInv, TypeOK PROVE CollectionTypeOK
    OBVIOUS
  <2>1. \A k \in Keys : (k \in stored <=> objectOwner[k] # NoPod) /\ (k \in pending <=> pendingOwner[k] # NoPod)
    BY CollectionAssumption DEF CollectionInv, Owned, Ours
  <2> QED
    BY <2>1, Zenon DEF CollectionInv, Pieces, Phases, Owned, Places, CollectionTypeOK
<1> QED
  BY <1>1, CollectionInvariance, PTL

\* Whatever file the text came from, the report stored under a run's name is owned by
\* a pod of that run: it is garbage collected with pods of its own run only.
OwnerOfItsRun == \A k \in stored : objectOwner[k] \in Pods /\ run[objectOwner[k]] = k[1]

\* This holds for any number of runs that share a file, although the text need not be
\* of the run (TextOfItsRun).
THEOREM OwnedByItsRun == CollectionSpec => []OwnerOfItsRun
<1>1. CollectionInv /\ TypeOK => OwnerOfItsRun
  BY DEF CollectionInv, Owned, Ours, TypeOK, OwnerOfItsRun
<1> QED
  BY <1>1, CollectionInvariance, PTL
==============================================================================
