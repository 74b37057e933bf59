----------------------- MODULE ControllerLifecycleProofs -----------------------
(***************************************************************************)
(* What TLAPS proves of ControllerLifecycle, for any number of events and  *)
(* reports and any size of the two channels.                               *)
(***************************************************************************)
EXTENDS ControllerLifecycle, KubeEventTransportProofs

Ended(c) ==
    \/ c = Recovery /\ loop = "done"
    \/ c = Detector /\ ~observer
    \/ c = Transport /\ closed
    \/ c = Watcher /\ watcher.pc = "exited"

StartHolds == starter \in {"components", "sync", "unsynced", "rollback"}

\* The mutex is what it says, and halting is done under it.
Locked ==
    /\ started \in 0 .. 4 /\ halting \in 0 .. 4 /\ stopped \in BOOLEAN
    /\ launched \subseteq Components
    /\ mutex \in {"free", "starter", "stopper"}
    /\ mutex = "starter" <=> StartHolds
    /\ mutex = "stopper" <=> stopper = "components"
    /\ halting # 0 => starter = "rollback" \/ stopper = "components"
    /\ starter \in {"sync", "unsynced"} => started = 3
    /\ starter = "rollback" => started < 4 /\ watcher.pc = "exited"

\* A stopped app starts nothing, and only Stop itself may have something left to stop.
Stopping ==
    /\ stopped => ~StartHolds
    /\ stopper = "components" => stopped
    /\ stopped /\ stopper # "components" => started = 0 /\ halting = 0
    /\ stopper = "done" => stopped
    /\ main = "exited" => stopper = "done"
    /\ main = "electing" => starter = "none"

\* What was launched is counted, is being stopped or started, or has ended.
Accounted ==
    \A c \in launched :
        \/ c <= started \/ c = halting \/ Ended(c)
        \/ c = Watcher /\ starter \in {"sync", "unsynced"}

LifecycleInv == Locked /\ Stopping /\ Accounted

------------------------------------------------------------------------------
\* A step of the process is a step of its transport, or leaves it alone.
LEMMA TransportStep == ASSUME [LifecycleNext]_lifecycleVars PROVE [Next]_vars
<1>1. CASE UNCHANGED lifecycleVars
  BY <1>1 DEF lifecycleVars
<1>2. CASE Alive /\ Environment
  BY <1>2 DEF Alive, Environment, Acquire, Deposed, Terminated, ContextEnds, TransportHandles,
              WatcherSees, WatcherFrame, Next
<1>3. CASE Alive /\ MainNext
  BY <1>3 DEF MainNext, CallStop, Exit
<1>4. CASE Alive /\ StartNext
  BY <1>4 DEF StartNext, StartLocks, StartComponent, StartWatcher, Synced, NotSynced, StartFails,
              RolledBack, Failure
<1>5. CASE Alive /\ StopNext
  <2>1. CASE StopLocks \/ StopUnlocks \/ HaltEnds \/ HaltWatcher
    BY <2>1 DEF StopLocks, StopUnlocks, HaltEnds, HaltWatcher
  <2>2. CASE Halt
    BY <1>5, <2>2 DEF Halt, Alive, Next
  <2>3. CASE HaltTransport
    BY <1>5, <2>3 DEF HaltTransport, Stop, Alive, Next
  <2> QED
    BY <1>5, <2>1, <2>2, <2>3 DEF StopNext
<1>6. CASE Alive /\ (TransportRuns \/ LoopNext)
  BY <1>6 DEF Alive, TransportRuns, LoopNext, LoopTakesEvent, LoopTakesReport, LoopHasHandled, LoopEnds,
              Next
<1>7. CASE Alive /\ (ObserverEnds \/ WatcherNext)
  BY <1>7 DEF ObserverEnds, WatcherNext, WatcherForwards, WatcherGivesUp, WatcherEnds, WatcherFrame
<1> QED
  BY <1>1, <1>2, <1>3, <1>4, <1>5, <1>6, <1>7 DEF LifecycleNext, Progress

\* What has ended does not begin again.
LEMMA EndedStays ==
    ASSUME [LifecycleNext]_lifecycleVars
    PROVE  \A c : Ended(c) => Ended(c)'
<1>1. loop = "done" => loop' = "done"
  <2>1. CASE UNCHANGED loop
    BY <2>1
  <2>2. CASE LoopNext
    BY <2>2 DEF LoopNext, LoopTakesEvent, LoopTakesReport, LoopHasHandled, LoopEnds
  <2> QED
    BY <2>1, <2>2
       DEF LifecycleNext, Progress, Environment, lifecycleVars, goroutines, Acquire, Deposed, Terminated,
           MainFrame, TransportHandles, WatcherSees, WatcherFrame, MainNext, CallStop, Exit, StartNext,
           StartLocks, StartComponent, StartWatcher, Synced, NotSynced, StartFails, RolledBack, Failure,
           StopNext, StopLocks, StopUnlocks, Halt, HaltEnds, HaltTransport, HaltWatcher, HaltFrame,
           TransportRuns, ObserverEnds, WatcherNext, WatcherForwards, WatcherGivesUp, WatcherEnds
<1>2. ~observer => ~observer'
  BY DEF LifecycleNext, Progress, Environment, lifecycleVars, goroutines, Acquire, Deposed, Terminated,
         MainFrame, TransportHandles, WatcherSees, WatcherFrame, MainNext, CallStop, Exit, StartNext,
         StartLocks, StartComponent, StartWatcher, Synced, NotSynced, StartFails, RolledBack, Failure,
         StopNext, StopLocks, StopUnlocks, Halt, HaltEnds, HaltTransport, HaltWatcher, HaltFrame,
         TransportRuns, ObserverEnds, WatcherNext, WatcherForwards, WatcherGivesUp, WatcherEnds,
         LoopNext, LoopTakesEvent, LoopTakesReport, LoopHasHandled, LoopEnds
<1>3. closed => closed'
  <2>1. [Next]_vars
    BY TransportStep
  <2> QED
    BY <2>1
       DEF Next, vars, Handle, InformerFrame, Informer, InformerExits, SelectDone, SelectSend,
           SelectSendClosed, SelectDefault, QueueAdd, Forwarder, ForwarderFrame, ForwarderGets,
           ForwarderExits, ForwarderSends, ForwarderCancelled, ShutDownOnDone, ParentCancelled,
           StopCancels, Stop, StopShutsQueue, StopCloses, Receive, ConsumerExits
<1>4. watcher.pc = "exited" => watcher' = watcher
  <2>1. CASE UNCHANGED watcher
    BY <2>1
  <2>2. CASE WatcherNext \/ WatcherSees
    BY <2>2 DEF WatcherNext, WatcherSees, WatcherForwards, WatcherGivesUp, WatcherEnds
  <2> QED
    BY <2>1, <2>2
       DEF LifecycleNext, Progress, Environment, lifecycleVars, goroutines, reports, Acquire, Deposed,
           Terminated, MainFrame, TransportHandles, MainNext, CallStop, Exit, StartNext, StartLocks,
           StartComponent, StartWatcher, Synced, NotSynced, StartFails, RolledBack, Failure, StopNext,
           StopLocks, StopUnlocks, Halt, HaltEnds, HaltTransport, HaltWatcher, HaltFrame, TransportRuns,
           ObserverEnds, LoopNext, LoopTakesEvent, LoopTakesReport, LoopHasHandled, LoopEnds
<1> QED
  BY <1>1, <1>2, <1>3, <1>4 DEF Ended

\* Every step keeps the invariant.
LEMMA LifecycleInvStep == ASSUME LifecycleInv, [LifecycleNext]_lifecycleVars PROVE LifecycleInv'
<1> USE DEF LifecycleInv, Locked, Stopping, StartHolds, Components, Recovery, Detector, Transport, Watcher
<1>1. \A c : Ended(c) => Ended(c)'
  BY EndedStays
<1>2. watcher.pc = "exited" => watcher'.pc = "exited"
  BY <1>1 DEF Ended
<1>3. CASE UNCHANGED <<starter, stopper, main, mutex, app, launched>>
  BY <1>1, <1>2, <1>3 DEF app, Accounted
<1>4. CASE Acquire
  BY <1>1, <1>2, <1>4 DEF Acquire, MainFrame, app, goroutines, Accounted
<1>5. CASE Deposed \/ Terminated \/ CallStop \/ Exit
  <2>1. UNCHANGED <<starter, mutex, app, launched, watcher>>
    BY <1>5 DEF Deposed, Terminated, CallStop, Exit, MainFrame, goroutines, reports
  <2>2. /\ UNCHANGED stopper \/ (stopper = "none" /\ stopper' = "lock")
        /\ main' = "exited" => main = "exited" \/ stopper = "done"
        /\ main' = "electing" => main = "electing"
    BY <1>5 DEF Deposed, Terminated, CallStop, Exit
  <2>3. Locked' /\ Stopping'
    BY <2>1, <2>2 DEF app
  <2>4. Accounted'
    BY <1>1, <2>1 DEF Accounted, app
  <2> QED
    BY <2>3, <2>4
<1>6. CASE StartLocks
  BY <1>1, <1>2, <1>6 DEF StartLocks, StarterFrame, app, goroutines, Accounted
<1>7. CASE StartComponent
  BY <1>1, <1>2, <1>7 DEF StartComponent, StarterFrame, Accounted
<1>8. CASE StartWatcher
  BY <1>1, <1>2, <1>8 DEF StartWatcher, StarterFrame, app, Accounted
<1>9. CASE Synced \/ NotSynced
  <2>1. /\ starter = "sync" /\ UNCHANGED <<main, stopper, stopped, halting, launched>>
        /\ \/ starter' = "done" /\ mutex' = "free" /\ started' = 4
           \/ starter' = "unsynced" /\ UNCHANGED <<mutex, started>>
    BY <1>9 DEF Synced, NotSynced, StarterFrame, app, goroutines
  <2>2. Locked' /\ Stopping'
    BY <2>1
  <2>3. Accounted'
    BY <1>1, <2>1 DEF Accounted
  <2> QED
    BY <2>2, <2>3
<1>10. CASE StartFails
  BY <1>1, <1>2, <1>10 DEF StartFails, StarterFrame, app, goroutines, Accounted, Ended
<1>11. CASE RolledBack
  BY <1>1, <1>2, <1>11 DEF RolledBack, StarterFrame, goroutines, Accounted
<1>12. CASE Failure
  <2>1. Locked' /\ Stopping'
    BY <1>12 DEF Failure, StarterFrame, app, goroutines, reports
  <2>2. Accounted'
    BY <1>1, <1>12 DEF Failure, app, goroutines, Accounted
  <2> QED
    BY <2>1, <2>2
<1>13. CASE StopLocks \/ StopUnlocks
  <2>1. Locked' /\ Stopping'
    BY <1>2, <1>13 DEF StopLocks, StopUnlocks, app, goroutines, reports
  <2>2. Accounted'
    BY <1>1, <1>13 DEF StopLocks, StopUnlocks, app, goroutines, Accounted
  <2> QED
    BY <2>1, <2>2
<1>14. CASE Halt
  BY <1>1, <1>2, <1>14 DEF Halt, thread, goroutines, Accounted
<1>15. CASE HaltEnds
  BY <1>1, <1>2, <1>15 DEF HaltEnds, HaltFrame, thread, Accounted, Ended
<1>16. CASE HaltTransport
  <2>1. Locked' /\ Stopping'
    BY <1>2, <1>16 DEF HaltTransport, HaltFrame, thread, reports
  <2>2. UNCHANGED <<started, launched, starter>> /\ (UNCHANGED halting \/ (halting = Transport /\ closed'))
    BY <1>16 DEF HaltTransport, StopCloses, HaltFrame, thread
  <2>3. Accounted'
    BY <1>1, <2>2 DEF Accounted, Ended
  <2> QED
    BY <2>1, <2>3
<1>17. CASE HaltWatcher
  BY <1>1, <1>2, <1>17 DEF HaltWatcher, HaltFrame, thread, Accounted, Ended
<1>18. CASE TransportRuns \/ TransportHandles \/ LoopNext \/ ObserverEnds \/ WatcherNext \/ WatcherSees
  <2>1. UNCHANGED <<starter, stopper, main, mutex, app, launched>>
    BY <1>18 DEF TransportRuns, TransportHandles, LoopNext, LoopTakesEvent, LoopTakesReport, LoopHasHandled,
                 LoopEnds, ObserverEnds, WatcherNext, WatcherForwards, WatcherGivesUp, WatcherEnds,
                 WatcherSees, WatcherFrame, RunFrame, thread
  <2> QED
    BY <1>3, <2>1
<1>19. CASE UNCHANGED lifecycleVars
  BY <1>3, <1>19 DEF lifecycleVars, thread, goroutines
<1> QED
  BY <1>4, <1>5, <1>6, <1>7, <1>8, <1>9, <1>10, <1>11, <1>12, <1>13, <1>14, <1>15, <1>16, <1>17, <1>18, <1>19
     DEF LifecycleNext, Progress, Environment, MainNext, StartNext, StopNext

LEMMA LifecycleInvInit == LifecycleInit => LifecycleInv
<1> SUFFICES ASSUME LifecycleInit PROVE LifecycleInv
  OBVIOUS
<1>1. \/ main = "electing" /\ starter = "none"
      \/ main = "leading" /\ starter = "lock"
  BY DEF LifecycleInit
<1>2. /\ stopper = "none" /\ mutex = "free" /\ started = 0 /\ stopped = FALSE /\ halting = 0
      /\ launched = {}
  BY DEF LifecycleInit
<1>3. Locked
  <2>1. stopped \in BOOLEAN
    BY <1>2
  <2>2. started \in 0 .. 4 /\ halting \in 0 .. 4 /\ launched \subseteq Components
    BY <1>2
  <2>3. ~StartHolds /\ starter \notin {"sync", "unsynced", "rollback"}
    BY <1>1 DEF StartHolds
  <2> QED
    BY <1>2, <2>1, <2>2, <2>3 DEF Locked
<1>4. Stopping
  BY <1>1, <1>2 DEF Stopping, StartHolds
<1> QED
  BY <1>2, <1>3, <1>4 DEF LifecycleInv, Accounted

\* The process uses its transport as KubeEventTransport has it: what holds of the
\* transport alone holds of it here, wherever Start, rollback and Stop have come to.
THEOREM LifecycleImplementsTransport == LifecycleSpec => Spec
<1>1. LifecycleInit => Init
  BY DEF LifecycleInit
<1>2. [LifecycleNext]_lifecycleVars => [Next]_vars
  BY TransportStep
<1> QED
  BY <1>1, <1>2, PTL DEF LifecycleSpec, Spec

\* In particular its events: none is lost or doubled while the process runs.
THEOREM EventsSafeInProcess ==
    LifecycleSpec => [](AtMostOnce /\ NothingLostWhileRunning)
BY LifecycleImplementsTransport, EachEventOnce, NothingLost, PTL

\* Whoever of Stop and the rollback gets the mutex first, nothing that was started is
\* left when run returns.
THEOREM NothingLeftRunning == LifecycleSpec => []NothingRunsAfterStop
<1>1. LifecycleInit => LifecycleInv
  BY LifecycleInvInit
<1>2. LifecycleInv /\ [LifecycleNext]_lifecycleVars => LifecycleInv'
  BY LifecycleInvStep
<1>3. LifecycleInv => NothingRunsAfterStop
  <2> SUFFICES ASSUME LifecycleInv, main = "exited" PROVE \A c \in launched : Ended(c)
    BY DEF NothingRunsAfterStop, Ended, Recovery, Detector, Transport, Watcher
  <2>1. started = 0 /\ halting = 0 /\ starter \notin {"sync", "unsynced"}
    BY DEF LifecycleInv, Stopping, StartHolds
  <2> QED
    BY <2>1 DEF LifecycleInv, Locked, Accounted, Components
<1> QED
  BY <1>1, <1>2, <1>3, PTL DEF LifecycleSpec

\* Types, and what they rest on: a watcher that sends has a report to send.
ReportsTyped ==
    /\ watcher \in [pc : {"idle", "select", "exited"}, event : 0 .. MaxReports]
    /\ watcher.pc = "select" => watcher.event # None
    /\ seen \in 0 .. MaxReports
    /\ reportCh \in Seq(1 .. MaxReports) /\ Len(reportCh) <= ReportBuffer
    /\ judged \in Seq(1 .. MaxReports)

ProcessTyped ==
    /\ elects \in BOOLEAN /\ leadDone \in BOOLEAN /\ observer \in BOOLEAN
    /\ reportClosed \in BOOLEAN
    /\ main \in {"electing", "leading", "over", "exited", "dead"}
    /\ starter \in {"none", "lock", "components", "sync", "unsynced", "rollback", "failed", "done"}
    /\ stopper \in {"none", "lock", "components", "done"}
    /\ cancelled \subseteq Components
    /\ loop \in {"select", "busy", "done"}

LEMMA ReportsTypedStep == ASSUME ReportsTyped, [LifecycleNext]_lifecycleVars PROVE ReportsTyped'
<1> USE LifecycleAssumption DEF ReportsTyped, None, At
<1>1. CASE UNCHANGED <<watcher, seen, reportCh, judged>>
  BY <1>1
<1>2. CASE LoopTakesReport
  <2>1. /\ reportCh # <<>> /\ judged' = Append(judged, Head(reportCh)) /\ reportCh' = Tail(reportCh)
        /\ UNCHANGED <<watcher, seen>>
    BY <1>2 DEF LoopTakesReport
  <2>2. Head(reportCh) \in 1 .. MaxReports /\ Tail(reportCh) \in Seq(1 .. MaxReports)
        /\ Len(Tail(reportCh)) = Len(reportCh) - 1 /\ Len(reportCh) \in Nat
    BY <2>1
  <2> QED
    BY <2>1, <2>2
<1>3. CASE WatcherSees
  BY <1>3 DEF WatcherSees, WatcherFrame
<1>4. CASE WatcherForwards
  <2>1. /\ watcher.event \in 1 .. MaxReports /\ Len(reportCh) < ReportBuffer
        /\ reportCh' = Append(reportCh, watcher.event) /\ watcher' = [pc |-> "idle", event |-> 0]
        /\ UNCHANGED <<seen, judged>>
    BY <1>4 DEF WatcherForwards, WatcherFrame
  <2>2. reportCh' \in Seq(1 .. MaxReports) /\ Len(reportCh') = Len(reportCh) + 1
    BY <2>1
  <2> QED
    BY <2>1, <2>2
<1>5. CASE WatcherGivesUp \/ WatcherEnds
  BY <1>5 DEF WatcherGivesUp, WatcherEnds, WatcherFrame
<1> QED
  BY <1>1, <1>2, <1>3, <1>4, <1>5
     DEF LifecycleNext, Progress, Environment, lifecycleVars, goroutines, reports, Acquire, Deposed,
         Terminated, MainFrame, TransportHandles, MainNext, CallStop, Exit, StartNext, StartLocks,
         StartComponent, StartWatcher, Synced, NotSynced, StartFails, RolledBack, Failure, StopNext,
         StopLocks, StopUnlocks, Halt, HaltEnds, HaltTransport, HaltWatcher, HaltFrame, TransportRuns,
         ObserverEnds, LoopNext, LoopTakesEvent, LoopHasHandled, LoopEnds, WatcherNext

LEMMA ProcessTypedStep ==
    ASSUME ProcessTyped, Locked, [LifecycleNext]_lifecycleVars PROVE ProcessTyped'
<1> USE DEF ProcessTyped
<1>1. CASE MainNext \/ Environment
  BY <1>1 DEF MainNext, Environment, Acquire, Deposed, Terminated, ContextEnds, MainFrame, goroutines,
              reports, CallStop, Exit, TransportHandles, RunFrame, thread, contexts, WatcherSees,
              WatcherFrame
<1>2. CASE StartNext
  <2>1. UNCHANGED <<elects, stopper, leadDone, loop, observer, reportClosed>>
    BY <1>2 DEF StartNext, StarterFrame, goroutines, reports, StartLocks, StartComponent, StartWatcher,
                Synced, NotSynced, StartFails, RolledBack, Failure
  <2>2. cancelled' \in {cancelled, cancelled \cup {Watcher}} /\ main' \in {main, "dead"}
    BY <1>2 DEF StartNext, StartLocks, StartComponent, StartWatcher,
                Synced, NotSynced, StartFails, RolledBack, Failure
  <2>3. starter' \in {starter, "components", "sync", "unsynced", "rollback", "failed", "done"}
    BY <1>2 DEF StartNext, StartLocks, StartComponent, StartWatcher,
                Synced, NotSynced, StartFails, RolledBack, Failure
  <2> QED
    BY <2>1, <2>2, <2>3 DEF Components, Watcher
<1>3. CASE StopNext
  <2>1. UNCHANGED <<elects, main, starter, leadDone, loop, observer>>
    BY <1>3 DEF StopNext, StopLocks, StopUnlocks, Halt, HaltEnds, HaltTransport, HaltWatcher, HaltFrame,
                thread, contexts, goroutines
  <2>2. /\ stopper' \in {stopper, "done", "components"}
        /\ UNCHANGED reportClosed \/ reportClosed' = TRUE
        /\ UNCHANGED cancelled \/ (started \in 1 .. 4 /\ cancelled' = cancelled \cup {started})
    BY <1>3 DEF StopNext, StopLocks, StopUnlocks, Halt, HaltEnds, HaltTransport, HaltWatcher, HaltFrame,
                thread, contexts, goroutines, reports, Locked
  <2>3. reportClosed' \in BOOLEAN
    BY <2>2
  <2>4. cancelled' \subseteq Components
    BY <2>2 DEF Components
  <2> QED
    BY <2>1, <2>2, <2>3, <2>4
<1>4. CASE TransportRuns \/ LoopNext \/ ObserverEnds \/ WatcherNext \/ UNCHANGED lifecycleVars
  <2>1. UNCHANGED <<elects, leadDone, reportClosed, main, starter, stopper, cancelled>>
    BY <1>4 DEF TransportRuns, LoopNext, LoopTakesEvent, LoopTakesReport, LoopHasHandled, LoopEnds,
                ObserverEnds, WatcherNext, WatcherForwards, WatcherGivesUp, WatcherEnds, WatcherFrame,
                RunFrame, thread, contexts, goroutines, reports, lifecycleVars
  <2>2. /\ UNCHANGED observer \/ observer' = FALSE
        /\ UNCHANGED loop \/ loop' \in {"busy", "select", "done"}
    BY <1>4 DEF TransportRuns, LoopNext, LoopTakesEvent, LoopTakesReport, LoopHasHandled, LoopEnds,
                ObserverEnds, WatcherNext, WatcherForwards, WatcherGivesUp, WatcherEnds, WatcherFrame,
                RunFrame, goroutines, lifecycleVars
  <2>3. observer' \in BOOLEAN
    BY <2>2
  <2> QED
    BY <2>1, <2>2, <2>3
<1> QED
  BY <1>1, <1>2, <1>3, <1>4 DEF LifecycleNext, Progress

\* The process keeps its types.
THEOREM LifecycleTypes == LifecycleSpec => []LifecycleTypeOK
<1>1. LifecycleInit => LifecycleInv /\ ReportsTyped /\ ProcessTyped
  <2> SUFFICES ASSUME LifecycleInit PROVE ReportsTyped /\ ProcessTyped
    BY LifecycleInvInit
  <2>1. ReportsTyped
    <3>1. <<>> \in Seq(1 .. MaxReports) /\ Len(<<>>) = 0
      OBVIOUS
    <3> QED
      BY <3>1, LifecycleAssumption DEF LifecycleInit, ReportsTyped, At, None
  <2>2. ProcessTyped
    <3>1. elects \in BOOLEAN /\ leadDone = FALSE /\ observer = TRUE /\ reportClosed = FALSE
      BY DEF LifecycleInit
    <3>2. /\ main \in {"electing", "leading"} /\ starter \in {"none", "lock"} /\ stopper = "none"
          /\ cancelled = {} /\ loop = "select"
      BY DEF LifecycleInit
    <3>3. leadDone \in BOOLEAN /\ observer \in BOOLEAN /\ reportClosed \in BOOLEAN
      BY <3>1
    <3> QED
      BY <3>1, <3>2, <3>3 DEF ProcessTyped
  <2> QED
    BY <2>1, <2>2
<1>2. /\ LifecycleInv /\ ReportsTyped /\ ProcessTyped
      /\ [LifecycleNext]_lifecycleVars
      => (LifecycleInv /\ ReportsTyped /\ ProcessTyped)'
  <2> SUFFICES ASSUME LifecycleInv, ReportsTyped, ProcessTyped, [LifecycleNext]_lifecycleVars
               PROVE  LifecycleInv' /\ ReportsTyped' /\ ProcessTyped'
    OBVIOUS
  <2>1. Locked
    BY DEF LifecycleInv
  <2> QED
    BY <2>1, LifecycleInvStep, ReportsTypedStep, ProcessTypedStep
<1>3. LifecycleSpec => []TransportInv
  BY LifecycleImplementsTransport, TransportInvHolds, PTL
<1>4. LifecycleInv /\ ReportsTyped /\ ProcessTyped /\ TransportInv => LifecycleTypeOK
  BY DEF LifecycleInv, Locked, ReportsTyped, ProcessTyped, TransportInv, LifecycleTypeOK
<1> QED
  BY <1>1, <1>2, <1>3, <1>4, PTL DEF LifecycleSpec
==============================================================================
