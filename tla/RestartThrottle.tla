--------------------------- MODULE RestartThrottle ---------------------------
(***************************************************************************)
(* What the restart ledger of pkg/recovery promises, without its storage:  *)
(* a job is not granted a restart until Spacing units of time after the    *)
(* call that was granted the previous one began.  JobRestartLedger         *)
(* implements this module.                                                 *)
(***************************************************************************)
EXTENDS Integers

CONSTANTS
    Jobs,       \* the training jobs
    Spacing,    \* least time from a granted call's beginning to the next grant
    MaxClock    \* bound: time stops here

VARIABLES
    clock,      \* real time
    grants      \* per job: how many restarts were granted, and when the last of
                \* the granted calls began

Grants == [n : Nat, asked : Nat]

Init ==
    /\ clock = 0
    /\ grants = [j \in Jobs |-> [n |-> 0, asked |-> 0]]

Tick ==
    /\ clock < MaxClock
    /\ clock' = clock + 1
    /\ UNCHANGED grants

\* A call that began at asked is granted a restart of j.
Grant(j, asked) ==
    /\ grants[j].n > 0 => clock >= grants[j].asked + Spacing
    /\ grants' = [grants EXCEPT ![j] = [n |-> @.n + 1, asked |-> asked]]
    /\ UNCHANGED clock

Next ==
    \/ Tick
    \/ \E j \in Jobs, asked \in 0 .. clock : Grant(j, asked)

Spec == Init /\ [][Next]_<<clock, grants>>
==============================================================================
