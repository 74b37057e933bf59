-------------------------- MODULE ControllerLifecycle --------------------------
(***************************************************************************)
(* The controller's process from its start to its end: cmd/kcover/main.go  *)
(* with leader election or without, controllerApp.Start, its rollback and  *)
(* Stop in app.go, and the goroutines they start and wait for: the loop of *)
(* RecoveryController.Start, the pod observer, the event transport         *)
(* (KubeEventTransport) and the report watcher of report_transport.go.     *)
(*                                                                         *)
(* Components are numbered in the order of app.components.  Of the Starts  *)
(* only the watcher's can fail, for it waits for its informer's cache.     *)
(***************************************************************************)
EXTENDS KubeEventTransport

CONSTANTS
    MaxReports,     \* bound: reports the watcher's informer sees
    ReportBuffer    \* capacity of reportCh

ASSUME LifecycleAssumption == MaxReports \in Nat /\ ReportBuffer \in Nat \ {0}

VARIABLES
    elects,     \* leaderElectionEnabled
    main,       \* progress of run, its elector included
    leadDone,   \* the context given to Start is cancelled
    starter,    \* progress of controllerApp.Start and its caller
    stopper,    \* progress of controllerApp.Stop
    mutex,
    started, stopped,
    halting,    \* the component whose Stop is being called, 0 if none is
    launched,   \* components whose goroutines have been started
    cancelled,  \* components whose own context is cancelled
    loop,       \* the goroutine of the recovery controller
    observer,   \* is the pod observer's informer there
    watcher,    \* [pc, event] of the watcher's informer
    seen,       \* reports it has called its handler for
    reportCh, reportClosed,
    judged      \* reports the recovery controller took

thread == <<elects, main, starter, stopper, mutex>>
app == <<started, stopped, halting>>
contexts == <<leadDone, cancelled>>
reports == <<watcher, seen, reportCh, reportClosed, judged>>
goroutines == <<launched, loop, observer, reports>>
lifecycleVars == <<vars, thread, app, contexts, goroutines>>

Recovery == 1
Detector == 2
Transport == 3
Watcher == 4
Components == 1 .. 4

Done(c) == leadDone \/ c \in cancelled

\* Nothing moves in a process that has exited or panicked.
Alive == main \notin {"exited", "dead"} /\ ~panicked

LifecycleInit ==
    /\ Init
    /\ elects \in BOOLEAN
    /\ main = IF elects THEN "electing" ELSE "leading"
    /\ starter = IF elects THEN "none" ELSE "lock"
    /\ stopper = "none"
    /\ mutex = "free"
    /\ started = 0 /\ stopped = FALSE /\ halting = 0
    /\ leadDone = FALSE /\ cancelled = {}
    /\ launched = {}
    /\ loop = "select"
    /\ observer = TRUE
    /\ watcher = At("idle", None)
    /\ seen = 0
    /\ reportCh = <<>> /\ reportClosed = FALSE
    /\ judged = <<>>

------------------------------------------------------------------------------
(* main and the elector. *)

MainFrame == UNCHANGED <<elects, mutex, app, cancelled, goroutines>>

Acquire ==
    /\ main = "electing"
    /\ main' = "leading"
    /\ starter' = "lock"
    /\ UNCHANGED <<vars, stopper, leadDone>> /\ MainFrame

\* The context is cancelled, and with it the transport's own.
ContextEnds == leadDone' = TRUE /\ (ParentCancelled \/ (ctxDone /\ UNCHANGED vars))

\* The lease is lost, or SIGTERM comes: the callbacks' context is cancelled, then
\* OnStoppedLeading is called, even if this process has never led.
Deposed ==
    /\ elects /\ main \in {"electing", "leading"}
    /\ main' = "over"
    /\ ContextEnds
    /\ UNCHANGED <<starter, stopper>> /\ MainFrame

\* SIGTERM without election: main notices once Start has returned.
Terminated ==
    /\ ~elects /\ main = "leading" /\ ~leadDone
    /\ ContextEnds
    /\ UNCHANGED <<main, starter, stopper>> /\ MainFrame

CallStop ==
    /\ stopper = "none"
    /\ main = "over" \/ (~elects /\ leadDone /\ starter = "done")
    /\ main' = "over"
    /\ stopper' = "lock"
    /\ UNCHANGED <<vars, starter, leadDone>> /\ MainFrame

Exit ==
    /\ stopper = "done"
    /\ main' = "exited"
    /\ UNCHANGED <<vars, starter, stopper, leadDone>> /\ MainFrame

------------------------------------------------------------------------------
(* controllerApp.Start. *)

StarterFrame == UNCHANGED <<elects, stopper, leadDone>>

\* Start on a stopped app is an error; its caller logs it, for the context is done.
StartLocks ==
    /\ starter = "lock" /\ mutex = "free"
    /\ IF stopped
       THEN starter' = "failed" /\ UNCHANGED mutex
       ELSE starter' = "components" /\ mutex' = "starter"
    /\ UNCHANGED <<vars, main, app, cancelled, goroutines>> /\ StarterFrame

\* Recovery controller, pod detector and transport are started one after the other.
StartComponent ==
    /\ starter = "components" /\ started < 3
    /\ started' = started + 1
    /\ launched' = launched \cup {started + 1}
    /\ UNCHANGED <<vars, main, starter, mutex, stopped, halting, cancelled, loop, observer, reports>>
    /\ StarterFrame

StartWatcher ==
    /\ starter = "components" /\ started = 3
    /\ launched' = launched \cup {Watcher}
    /\ starter' = "sync"
    /\ UNCHANGED <<vars, main, mutex, app, cancelled, loop, observer, reports>> /\ StarterFrame

Synced ==
    /\ starter = "sync"
    /\ started' = 4
    /\ starter' = "done" /\ mutex' = "free"
    /\ UNCHANGED <<vars, main, stopped, halting, cancelled, goroutines>> /\ StarterFrame

\* The cache does not sync in time, or the context ends first.
NotSynced ==
    /\ starter = "sync"
    /\ cancelled' = cancelled \cup {Watcher}
    /\ starter' = "unsynced"
    /\ UNCHANGED <<vars, main, mutex, app, goroutines>> /\ StarterFrame

StartFailsAtOnce ==                                                  \* mutant
    /\ starter = "unsynced" /\ watcher.pc = "exited"
    /\ stopped' = TRUE
    /\ starter' = "failed" /\ mutex' = "free"
    /\ UNCHANGED <<vars, main, started, halting, cancelled, goroutines>> /\ StarterFrame

\* The watcher's Start waits for its informer, then the others are stopped.
StartFails ==
    /\ starter = "unsynced" /\ watcher.pc = "exited"
    /\ starter' = "rollback"
    /\ UNCHANGED <<vars, main, mutex, app, cancelled, goroutines>> /\ StarterFrame

RolledBack ==
    /\ starter = "rollback" /\ started = 0 /\ halting = 0
    /\ stopped' = TRUE
    /\ starter' = "failed" /\ mutex' = "free"
    /\ UNCHANGED <<vars, main, started, halting, cancelled, goroutines>> /\ StarterFrame

FailureLogged ==                                                     \* mutant
    /\ starter = "failed"
    /\ starter' = "done"
    /\ UNCHANGED <<vars, main, mutex, app, cancelled, goroutines>> /\ StarterFrame

\* A failure that no cancellation explains is a panic.
Failure ==
    /\ starter = "failed"
    /\ starter' = "done"
    /\ main' = IF leadDone THEN main ELSE "dead"
    /\ UNCHANGED <<vars, mutex, app, cancelled, goroutines>> /\ StarterFrame

------------------------------------------------------------------------------
(* controllerApp.Stop, and stopStartedLocked, which Start's rollback uses too. *)

StopLocks ==
    /\ stopper = "lock" /\ mutex = "free"
    /\ IF stopped
       THEN stopper' = "done" /\ UNCHANGED <<mutex, stopped>>
       ELSE stopper' = "components" /\ mutex' = "stopper" /\ stopped' = TRUE
    /\ UNCHANGED <<vars, elects, main, starter, started, halting, contexts, goroutines>>

StopUnlocks ==
    /\ stopper = "components" /\ started = 0 /\ halting = 0
    /\ stopper' = "done" /\ mutex' = "free"
    /\ UNCHANGED <<vars, elects, main, starter, app, contexts, goroutines>>

\* The last component's Stop begins: it cancels the component's own context.
Halt ==
    /\ starter = "rollback" \/ stopper = "components"
    /\ started > 0 /\ halting = 0
    /\ halting' = started
    /\ started' = started - 1
    /\ cancelled' = cancelled \cup {started}
    /\ IF started = Transport THEN StopCancels ELSE UNCHANGED vars
    /\ UNCHANGED <<thread, stopped, leadDone, goroutines>>

HaltFrame == UNCHANGED <<thread, started, stopped, contexts, launched, loop, observer>>

\* Recovery controller and observer: Stop returns when the goroutine has ended.
HaltEnds ==
    /\ \/ halting = Recovery /\ loop = "done"
       \/ halting = Detector /\ ~observer
    /\ halting' = 0
    /\ UNCHANGED <<vars, reports>> /\ HaltFrame

HaltTransport ==
    /\ halting = Transport
    /\ \/ StopShutsQueue /\ UNCHANGED halting
       \/ StopCloses /\ halting' = 0
    /\ UNCHANGED reports /\ HaltFrame

\* The watcher's Stop waits for the informer before it closes the channel.
HaltWatcher ==
    /\ halting = Watcher /\ watcher.pc = "exited"
    /\ reportClosed' = TRUE
    /\ halting' = 0
    /\ UNCHANGED <<vars, watcher, seen, reportCh, judged>> /\ HaltFrame

------------------------------------------------------------------------------
(* The goroutines. *)

RunFrame == UNCHANGED <<thread, app, contexts, launched>>

\* Those of the transport, once it has been started.
TransportRuns ==
    /\ Transport \in launched
    /\ Informer \/ Forwarder
    /\ UNCHANGED <<loop, observer, reports>> /\ RunFrame

TransportHandles ==
    /\ Transport \in launched
    /\ Handle
    /\ UNCHANGED <<loop, observer, reports>> /\ RunFrame

LoopTakesEvent ==
    /\ Recovery \in launched /\ loop = "select"
    /\ Receive
    /\ loop' = "busy"
    /\ UNCHANGED <<observer, reports>> /\ RunFrame

LoopTakesReport ==
    /\ Recovery \in launched /\ loop = "select"
    /\ reportCh # <<>>
    /\ judged' = Append(judged, Head(reportCh))
    /\ reportCh' = Tail(reportCh)
    /\ loop' = "busy"
    /\ UNCHANGED <<vars, observer, watcher, seen, reportClosed>> /\ RunFrame

\* The sweep of the loop's ticker changes nothing that is modelled here; it is a turn
\* of the loop that is left out.
LoopHasHandled ==
    /\ loop = "busy"
    /\ loop' = "select"
    /\ UNCHANGED <<vars, observer, reports>> /\ RunFrame

LoopEnds ==
    /\ Recovery \in launched /\ loop = "select"
    /\ Done(Recovery) \/ (closed /\ channel = <<>>)
    /\ ConsumerExits
    /\ loop' = "done"
    /\ UNCHANGED <<observer, reports>> /\ RunFrame

ObserverEnds ==
    /\ Detector \in launched /\ observer /\ Done(Detector)
    /\ observer' = FALSE
    /\ UNCHANGED <<vars, loop, reports>> /\ RunFrame

WatcherFrame == UNCHANGED <<vars, loop, observer, reportClosed, judged>> /\ RunFrame

WatcherSees ==
    /\ Watcher \in launched /\ watcher.pc = "idle" /\ seen < MaxReports
    /\ seen' = seen + 1
    /\ watcher' = At("select", seen + 1)
    /\ UNCHANGED reportCh /\ WatcherFrame

WatcherForwardsOrDrops ==                                            \* mutant
    /\ watcher.pc = "select"
    /\ reportCh' = IF Len(reportCh) < ReportBuffer THEN Append(reportCh, watcher.event) ELSE reportCh
    /\ watcher' = At("idle", None)
    /\ UNCHANGED seen /\ WatcherFrame

WatcherForwards ==
    /\ watcher.pc = "select" /\ Len(reportCh) < ReportBuffer
    /\ reportCh' = Append(reportCh, watcher.event)
    /\ watcher' = At("idle", None)
    /\ UNCHANGED seen /\ WatcherFrame

WatcherGivesUp ==
    /\ watcher.pc = "select" /\ Done(Watcher)
    /\ watcher' = At("idle", None)
    /\ UNCHANGED <<seen, reportCh>> /\ WatcherFrame

WatcherEnds ==
    /\ Watcher \in launched /\ watcher.pc = "idle" /\ Done(Watcher)
    /\ watcher' = At("exited", None)
    /\ UNCHANGED <<seen, reportCh>> /\ WatcherFrame

------------------------------------------------------------------------------
MainNext == CallStop \/ Exit
StartNext ==
    \/ StartLocks \/ StartComponent \/ StartWatcher \/ Synced \/ NotSynced
    \/ StartFails \/ RolledBack \/ Failure
StopNext == StopLocks \/ StopUnlocks \/ Halt \/ HaltEnds \/ HaltTransport \/ HaltWatcher
LoopNext == LoopTakesEvent \/ LoopTakesReport \/ LoopHasHandled \/ LoopEnds
WatcherNext == WatcherForwards \/ WatcherGivesUp \/ WatcherEnds

Progress ==
    MainNext \/ StartNext \/ StopNext \/ TransportRuns \/ LoopNext \/ ObserverEnds \/ WatcherNext

Environment == Acquire \/ Deposed \/ Terminated \/ TransportHandles \/ WatcherSees

LifecycleNext == Alive /\ (Progress \/ Environment)

LifecycleSpec == LifecycleInit /\ [][LifecycleNext]_lifecycleVars

\* The process does not stand still while one of its goroutines can go on: the wait
\* for the cache ends by a timeout at the latest, and requests do.  No goroutine of
\* them is assumed to be preferred, and nothing of leases, signals, events and reports.
FairLifecycleSpec == LifecycleSpec /\ WF_lifecycleVars(Alive /\ Progress)

------------------------------------------------------------------------------
(* Correctness. *)

\* The type invariant.
LifecycleTypeOK ==
    /\ TypeOK
    /\ {elects, leadDone, stopped, observer, reportClosed} \subseteq BOOLEAN
    /\ main \in {"electing", "leading", "over", "exited", "dead"}
    /\ starter \in {"none", "lock", "components", "sync", "unsynced", "rollback", "failed", "done"}
    /\ stopper \in {"none", "lock", "components", "done"}
    /\ mutex \in {"free", "starter", "stopper"}
    /\ started \in 0 .. 4 /\ halting \in 0 .. 4
    /\ launched \subseteq Components /\ cancelled \subseteq Components
    /\ loop \in {"select", "busy", "done"}
    /\ watcher \in [pc : {"idle", "select", "exited"}, event : 0 .. MaxReports]
    /\ seen \in 0 .. MaxReports
    /\ reportCh \in Seq(1 .. MaxReports) /\ Len(reportCh) <= ReportBuffer
    /\ judged \in Seq(1 .. MaxReports)

\* When run returns, whatever was started has ended, by Stop or by Start's rollback,
\* whichever of the two got the mutex first (the transport's informer excepted).
NothingRunsAfterStop ==
    main = "exited" =>
        /\ Recovery \in launched => loop = "done"
        /\ Detector \in launched => ~observer
        /\ Transport \in launched => closed
        /\ Watcher \in launched => watcher.pc = "exited"

\* A leader gets its components running, or it does not stay leader.
NoIdleLeader == (main = "leading") ~> (started = 4 \/ main # "leading" \/ panicked)

\* A cancelled context is followed by the end of the process: Start lets go of the
\* mutex and Stop of every component returns.
ProcessEnds == leadDone ~> ~Alive

\* The recovery controller gets every event the transport has handled, unless the
\* transport ends first.  (AtMostOnce: none counts twice.)
EventsReachController ==
    (Len(received) < handled) ~> (ctxDone \/ Len(received) = handled)

\* It gets every report the watcher has seen, unless the watcher ends first.
ReportsJudged ==
    (Len(judged) < seen) ~> (Done(Watcher) \/ ~Alive \/ Len(judged) = seen)
==============================================================================
