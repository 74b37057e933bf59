-------------------------- MODULE JobRestartLedger --------------------------
(***************************************************************************)
(* pkg/recovery/job_restart_ledger.go: the ConfigMap in which the recovery *)
(* controller records when it last allowed a restart of each job, and      *)
(* allowRestart, the read-modify-write that decides whether another one is *)
(* allowed.  Several controller processes may run it at once: a deposed    *)
(* leader finishes its call while the next leader makes its own.           *)
(*                                                                         *)
(* The ConfigMap's resourceVersion is modelled by the set of callers whose *)
(* copy still carries it: a Get adds the caller, a write empties the set,  *)
(* and the API server accepts an Update from its members only.             *)
(***************************************************************************)
EXTENDS RestartWindow

CONSTANTS
    Controllers,     \* controller processes
    Steps,           \* attempts of retry.DefaultRetry
    RequestTimeout,  \* the deadline kube.WithRequestTimeout gives one attempt
    Offset,          \* per process: how far its wall clock runs ahead
    MaxSkew,         \* the largest of these offsets
    MaxClock         \* bound: time stops here

ASSUME LedgerAssumption ==
    /\ Jobs # {}
    /\ TTL \in Nat /\ Steps \in Nat \ {0} /\ RequestTimeout \in Nat
    /\ MaxSkew \in Nat /\ Offset \in [Controllers -> 0 .. MaxSkew]
    /\ MaxClock \in Nat

VARIABLES
    clock,       \* real time
    created,     \* does the ConfigMap exist?
    data,        \* its Data: the recorded time of each job, or NoStamp
    current,     \* the callers whose copy has the ConfigMap's resourceVersion
    call,        \* the allowRestart call each process is in
    grants,      \* history: restarts granted per job, and when the last of
                 \* these calls began
    grantStamp   \* history: the time the last grant of a job recorded

vars == <<clock, created, data, current, call, grants, grantStamp>>

NoStamps == [j \in Jobs |-> NoStamp]

Call == [pc : {"idle", "get", "create", "update"}, job : Jobs, now : Nat,
         attempt : 1 .. Steps, deadline : Nat, seen : Stamps]

Idle == [pc |-> "idle", job |-> CHOOSE j \in Jobs : TRUE, now |-> 0,
         attempt |-> 1, deadline |-> 0, seen |-> NoStamps]

\* The real time at which the call a process is in began and read its clock.
Asked(c) == call[c].now - Offset[c]

------------------------------------------------------------------------------
(* The API server. *)

Write(stamps) ==
    /\ created' = TRUE
    /\ data' = stamps
    /\ current' = {}

AcceptsUpdate(c) == c \in current

------------------------------------------------------------------------------
(* allowRestart. *)

Return(c) == call' = [call EXCEPT ![c] = Idle]

Begin(c, j) ==
    /\ call[c].pc = "idle"
    /\ call' = [call EXCEPT ![c] =
                    [Idle EXCEPT !.pc = "get", !.job = j, !.now = clock + Offset[c],
                                 !.deadline = clock + RequestTimeout]]
    /\ UNCHANGED <<clock, created, data, current, grants, grantStamp>>

\* Conflict and AlreadyExists are retried, each attempt under its own deadline
\* and with the time the call began with.
RetryOnceMore(c) ==                                                  \* mutant
    IF call[c].attempt <= Steps
    THEN call' = [call EXCEPT ![c].pc = "get", ![c].attempt = @ + 1,
                              ![c].deadline = clock + RequestTimeout,
                              ![c].seen = NoStamps]
    ELSE Return(c)

Retry(c) ==
    IF call[c].attempt < Steps
    THEN call' = [call EXCEPT ![c].pc = "get", ![c].attempt = @ + 1,
                              ![c].deadline = clock + RequestTimeout,
                              ![c].seen = NoStamps]
    ELSE Return(c)

GrantTo(c) ==
    LET j == call[c].job IN
    /\ grants' = [grants EXCEPT ![j] = [n |-> @.n + 1, asked |-> Asked(c)]]
    /\ grantStamp' = [grantStamp EXCEPT ![j] = call[c].now]

GetNotFound(c) ==
    /\ call[c].pc = "get"
    /\ ~created
    /\ call' = [call EXCEPT ![c].pc = "create"]
    /\ UNCHANGED <<clock, created, data, current, grants, grantStamp>>

\* The entry is still inside the window: not allowed, nothing is written.
GetDenied(c) ==
    /\ call[c].pc = "get"
    /\ created
    /\ Live(data, call[c].job, call[c].now)
    /\ Return(c)
    /\ UNCHANGED <<clock, created, data, current, grants, grantStamp>>

GetFree(c) ==
    /\ call[c].pc = "get"
    /\ created
    /\ ~Live(data, call[c].job, call[c].now)
    /\ call' = [call EXCEPT ![c].pc = "update", ![c].seen = data]
    /\ current' = current \cup {c}
    /\ UNCHANGED <<clock, created, data, grants, grantStamp>>

\* Any other error of the Get: the deadline, a cancelled context, a crash.
GetFails(c) ==
    /\ call[c].pc = "get"
    /\ Return(c)
    /\ UNCHANGED <<clock, created, data, current, grants, grantStamp>>

CreateOk(c) ==
    /\ call[c].pc = "create"
    /\ ~created
    /\ Write([NoStamps EXCEPT ![call[c].job] = call[c].now])
    /\ GrantTo(c)
    /\ Return(c)
    /\ UNCHANGED clock

CreateAlreadyExists(c) ==
    /\ call[c].pc = "create"
    /\ created
    /\ Retry(c)
    /\ UNCHANGED <<clock, created, data, current, grants, grantStamp>>

UpdateOk(c) ==
    /\ call[c].pc = "update"
    /\ AcceptsUpdate(c)
    /\ Write(Recorded(call[c].seen, call[c].job, call[c].now))
    /\ GrantTo(c)
    /\ Return(c)
    /\ UNCHANGED clock

\* The copy is sent again under the new resourceVersion.
UpdateConflictRebased(c) ==                                          \* mutant
    /\ call[c].pc = "update"
    /\ ~AcceptsUpdate(c)
    /\ current' = current \cup {c}
    /\ UNCHANGED <<clock, created, data, call, grants, grantStamp>>

UpdateConflict(c) ==
    /\ call[c].pc = "update"
    /\ ~AcceptsUpdate(c)
    /\ Retry(c)
    /\ UNCHANGED <<clock, created, data, current, grants, grantStamp>>

\* The write ends in an error that is not retried (or the process dies before it
\* reads the answer): nobody is granted a restart, whether or not the server
\* applied the write.
WriteNotApplied(c) ==
    /\ call[c].pc \in {"create", "update"}
    /\ Return(c)
    /\ current' = current \ {c}
    /\ UNCHANGED <<clock, created, data, grants, grantStamp>>

CreateAnswerLost(c) ==
    /\ call[c].pc = "create"
    /\ ~created
    /\ Write([NoStamps EXCEPT ![call[c].job] = call[c].now])
    /\ Return(c)
    /\ UNCHANGED <<clock, grants, grantStamp>>

UpdateAnswerLost(c) ==
    /\ call[c].pc = "update"
    /\ AcceptsUpdate(c)
    /\ Write(Recorded(call[c].seen, call[c].job, call[c].now))
    /\ Return(c)
    /\ UNCHANGED <<clock, grants, grantStamp>>

\* Time passes, but no attempt outlives its deadline: its context ends it.
Tick ==
    /\ clock < MaxClock
    /\ \A c \in Controllers : call[c].pc # "idle" => clock < call[c].deadline
    /\ clock' = clock + 1
    /\ UNCHANGED <<created, data, current, call, grants, grantStamp>>

Init ==
    /\ clock = 0
    /\ created = FALSE
    /\ data = NoStamps
    /\ current = {}
    /\ call = [c \in Controllers |-> Idle]
    /\ grants = [j \in Jobs |-> [n |-> 0, asked |-> 0]]
    /\ grantStamp = NoStamps

Attempt(c) ==
    \/ GetNotFound(c) \/ GetDenied(c) \/ GetFree(c) \/ GetFails(c)
    \/ CreateOk(c) \/ CreateAlreadyExists(c) \/ CreateAnswerLost(c)
    \/ UpdateOk(c) \/ UpdateConflict(c) \/ UpdateAnswerLost(c)
    \/ WriteNotApplied(c)

Next ==
    \/ Tick
    \/ \E c \in Controllers : Attempt(c) \/ \E j \in Jobs : Begin(c, j)

Spec == Init /\ [][Next]_vars

------------------------------------------------------------------------------
(* Correctness. *)

\* The type invariant.
TypeOK ==
    /\ clock \in Nat
    /\ created \in BOOLEAN
    /\ data \in Stamps
    /\ current \subseteq Controllers
    /\ call \in [Controllers -> Call]
    /\ grants \in [Jobs -> [n : Nat, asked : Nat]]
    /\ grantStamp \in Stamps

\* A granted restart is never forgotten inside its window, whatever the writes
\* of other callers, the pruning they do for other jobs and the answers lost:
\* the ledger holds the grant's time or a later one, or the window is over on
\* the fastest clock (allowRestart 71-91).
LedgerRemembersGrants ==
    \A j \in Jobs : grants[j].n > 0 =>
        \/ data[j] >= grantStamp[j]
        \/ clock + MaxSkew >= grantStamp[j] + TTL

\* No entry lies further in the future than the clocks disagree, so a job is
\* never denied for longer than its window and that disagreement.
SuppressionBounded ==
    \A j \in Jobs : data[j] <= clock + MaxSkew

\* A step changes or removes an entry only when its window is over on the
\* fastest clock: no concurrent read-modify-write overwrites a live entry.
LiveStampsSurvive ==
    [][\A j \in Jobs : data[j] # NoStamp /\ data'[j] # data[j]
            => clock + MaxSkew >= data[j] + TTL]_vars

\* A restart is granted a window after the call that was granted the job's
\* previous one began, less the clocks' disagreement.  The window runs from the
\* call's one reading of the clock, before its attempts (allowRestart 42), and
\* not from its answer: with the code's five attempts of ten seconds and window
\* of thirty the answer may come after the window.
Throttle == INSTANCE RestartThrottle WITH Spacing <- TTL - MaxSkew
ThrottleSpec == Throttle!Spec
==============================================================================
