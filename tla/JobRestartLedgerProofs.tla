----------------------- MODULE JobRestartLedgerProofs -----------------------
(***************************************************************************)
(* What TLAPS proves of JobRestartLedger for every set of processes and    *)
(* jobs, every window, retry budget, request timeout and clock offset.     *)
(***************************************************************************)
EXTENDS JobRestartLedger, TLAPS

------------------------------------------------------------------------------
(* The inductive invariant. *)

\* A pending call began at some time up to now, and reads its process's clock.
CallsTimed ==
    \A c \in Controllers : call[c].pc # "idle" => Asked(c) \in 0 .. clock

\* A copy with the current resourceVersion equals the ConfigMap, and its caller
\* found its own job free in it.
CopiesCurrent ==
    \A c \in current :
        /\ created
        /\ call[c].pc = "update"
        /\ call[c].seen = data
        /\ ~Live(data, call[c].job, call[c].now)

EmptyUntilCreated == ~created => data = NoStamps

\* No clock runs behind real time: a grant's recorded time is no earlier than
\* the moment its call began.
GrantsTimed ==
    \A j \in Jobs : grants[j].n > 0 => grants[j].asked <= grantStamp[j]

IInv ==
    /\ TypeOK
    /\ CallsTimed
    /\ CopiesCurrent
    /\ EmptyUntilCreated
    /\ GrantsTimed
    /\ LedgerRemembersGrants
    /\ SuppressionBounded

------------------------------------------------------------------------------
(* Data. *)

\* Every function of stamps allowRestart builds is one.
LEMMA StampsClosed ==
    /\ NoStamps \in Stamps
    /\ \A s \in Stamps, j \in Jobs, now \in Nat :
        /\ Recorded(s, j, now) \in Stamps
        /\ [NoStamps EXCEPT ![j] = now] \in Stamps
BY DEF NoStamps, Stamps, Recorded, NoStamp

\* The record of a process in no call is a call record.
LEMMA IdleType == Idle \in Call /\ Idle.pc = "idle"
<1>1. (CHOOSE j \in Jobs : TRUE) \in Jobs
  BY LedgerAssumption
<1>2. 1 \in 1 .. Steps
  BY LedgerAssumption
<1> QED
  BY <1>1, <1>2, StampsClosed DEF Idle, Call

------------------------------------------------------------------------------
(* Types. *)

\* Every step keeps the types.
LEMMA TypeStep == TypeOK /\ CallsTimed /\ [Next]_vars => TypeOK'
<1> SUFFICES ASSUME TypeOK, CallsTimed, [Next]_vars PROVE TypeOK'
  OBVIOUS
<1> USE LedgerAssumption, IdleType, StampsClosed
<1>1. CASE UNCHANGED vars
  BY <1>1 DEF TypeOK, vars
<1>2. CASE Tick
  BY <1>2 DEF TypeOK, Tick
<1>3. ASSUME NEW c \in Controllers, NEW j \in Jobs, Begin(c, j) PROVE TypeOK'
  <2>1. clock + Offset[c] \in Nat /\ clock + RequestTimeout \in Nat
    BY DEF TypeOK
  <2>2. [Idle EXCEPT !.pc = "get", !.job = j, !.now = clock + Offset[c],
                     !.deadline = clock + RequestTimeout] \in Call
    BY <2>1 DEF Call, Idle
  <2> QED
    BY <1>3, <2>2 DEF TypeOK, Begin
<1>4. ASSUME NEW c \in Controllers, Attempt(c) PROVE TypeOK'
  <2> USE <1>4 DEF TypeOK
  <2> DEFINE j == call[c].job
             now == call[c].now
             again == [call[c] EXCEPT !.pc = "get", !.attempt = @ + 1,
                           !.deadline = clock + RequestTimeout, !.seen = NoStamps]
  <2>a. call[c] \in Call /\ j \in Jobs /\ now \in Nat /\ call[c].seen \in Stamps
    BY DEF Call
  <2>1. CASE GetNotFound(c)
    BY <2>1 DEF GetNotFound, Call
  <2>2. CASE GetDenied(c) \/ GetFails(c)
    BY <2>2 DEF GetDenied, GetFails, Return
  <2>3. CASE GetFree(c)
    BY <2>3 DEF GetFree, Call
  <2>4. CASE CreateAlreadyExists(c) \/ UpdateConflict(c)
    <3>1. CASE call[c].attempt < Steps
      <4>1. call[c].attempt + 1 \in 1 .. Steps /\ clock + RequestTimeout \in Nat
        BY <2>a, <3>1 DEF Call
      <4>2. again \in Call
        BY <2>a, <4>1 DEF Call
      <4>3. call' = [call EXCEPT ![c] = again]
        BY <2>4, <3>1 DEF CreateAlreadyExists, UpdateConflict, Retry
      <4> QED
        BY <2>4, <4>2, <4>3 DEF CreateAlreadyExists, UpdateConflict
    <3>2. CASE ~(call[c].attempt < Steps)
      BY <2>4, <3>2 DEF CreateAlreadyExists, UpdateConflict, Retry, Return
    <3> QED
      BY <3>1, <3>2
  <2>5. call[c].pc # "idle" /\ GrantTo(c) =>
            /\ grants' \in [Jobs -> [n : Nat, asked : Nat]]
            /\ grantStamp' \in Stamps
    <3>1. call[c].pc # "idle" => Asked(c) \in Nat
      BY DEF CallsTimed
    <3> QED
      BY <2>a, <3>1 DEF GrantTo, Stamps
  <2>6. ASSUME NEW s \in Stamps, Write(s)
        PROVE  created' \in BOOLEAN /\ data' \in Stamps /\ current' \subseteq Controllers
    BY <2>6 DEF Write
  <2>7. Return(c) => call' \in [Controllers -> Call]
    BY DEF Return
  <2>8. CASE CreateOk(c) \/ CreateAnswerLost(c)
    <3>1. [NoStamps EXCEPT ![j] = now] \in Stamps
      BY <2>a
    <3> QED
      BY <2>8, <3>1, <2>5, <2>6, <2>7 DEF CreateOk, CreateAnswerLost
  <2>9. CASE UpdateOk(c) \/ UpdateAnswerLost(c)
    <3>1. Recorded(call[c].seen, j, now) \in Stamps
      BY <2>a
    <3> QED
      BY <2>9, <3>1, <2>5, <2>6, <2>7 DEF UpdateOk, UpdateAnswerLost
  <2>10. CASE WriteNotApplied(c)
    BY <2>10, <2>7 DEF WriteNotApplied
  <2> QED
    BY <2>1, <2>2, <2>3, <2>4, <2>8, <2>9, <2>10 DEF Attempt
<1> QED
  BY <1>1, <1>2, <1>3, <1>4 DEF Next

------------------------------------------------------------------------------
(* The inductive invariant holds. *)

\* Before any call.
LEMMA InvariantInit == Init => IInv
<1> SUFFICES ASSUME Init PROVE IInv
  OBVIOUS
<1>1. TypeOK
  <2>1. call \in [Controllers -> Call]
    BY IdleType DEF Init
  <2>2. data \in Stamps /\ grantStamp \in Stamps
    BY StampsClosed DEF Init
  <2> QED
    BY <2>1, <2>2 DEF Init, TypeOK
<1>2. CallsTimed
  BY IdleType DEF Init, CallsTimed
<1>3. CopiesCurrent /\ EmptyUntilCreated /\ GrantsTimed /\ LedgerRemembersGrants
  BY DEF Init, CopiesCurrent, EmptyUntilCreated, GrantsTimed, LedgerRemembersGrants
<1>4. SuppressionBounded
  <2>1. NoStamp <= 0 + MaxSkew
    BY LedgerAssumption DEF NoStamp
  <2> QED
    BY <2>1 DEF Init, NoStamps, SuppressionBounded
<1> QED
  BY <1>1, <1>2, <1>3, <1>4 DEF IInv

\* A write made from a current copy in which the caller's job is free drops only
\* entries whose window is over on the fastest clock.
LEMMA RecordedKeepsLive ==
    ASSUME TypeOK, SuppressionBounded, NEW job \in Jobs, NEW now \in Nat,
           now <= clock + MaxSkew, ~Live(data, job, now),
           data' = Recorded(data, job, now), clock' = clock
    PROVE  /\ SuppressionBounded'
           /\ data'[job] = now
           /\ \A j \in Jobs : data[j] # NoStamp =>
                 \/ data'[j] = data[j]
                 \/ clock + MaxSkew >= data[j] + TTL
           /\ \A j \in Jobs : data[j] # NoStamp =>
                 \/ data'[j] >= data[j]
                 \/ clock + MaxSkew >= data[j] + TTL
BY LedgerAssumption
   DEF TypeOK, Stamps, NoStamp, SuppressionBounded, Recorded, Live

\* The first write of the ConfigMap finds it empty.
LEMMA CreateKeepsLive ==
    ASSUME TypeOK, SuppressionBounded, EmptyUntilCreated, ~created,
           NEW job \in Jobs, NEW now \in Nat, now <= clock + MaxSkew,
           data' = [NoStamps EXCEPT ![job] = now], clock' = clock
    PROVE  /\ SuppressionBounded'
           /\ data'[job] = now
           /\ \A j \in Jobs : data[j] = NoStamp
BY LedgerAssumption
   DEF TypeOK, Stamps, NoStamp, NoStamps, SuppressionBounded, EmptyUntilCreated

\* A call that is answered leaves the other calls' times alone.
LEMMA ReturnTimed ==
    ASSUME TypeOK, CallsTimed, NEW c \in Controllers, Return(c), clock' = clock
    PROVE  CallsTimed'
BY IdleType DEF TypeOK, CallsTimed, Return, Asked

\* A retry keeps the time the call began with.
LEMMA RetryTimed ==
    ASSUME TypeOK, CallsTimed, NEW c \in Controllers, call[c].pc # "idle",
           Retry(c), clock' = clock
    PROVE  CallsTimed'
<1>1. CASE call[c].attempt < Steps
  <2>1. /\ \A d \in Controllers : call'[d].now = call[d].now
        /\ \A d \in Controllers : d # c => call'[d] = call[d]
    BY <1>1 DEF Retry, TypeOK, Call
  <2> QED
    BY <2>1 DEF CallsTimed, Asked
<1>2. CASE ~(call[c].attempt < Steps)
  BY <1>2, ReturnTimed DEF Retry
<1> QED
  BY <1>1, <1>2

\* Copies stay current when the ConfigMap and the callers in current' do.
LEMMA CopiesKept ==
    ASSUME CopiesCurrent, current' \subseteq current, data' = data, created' = created,
           \A d \in current' : call'[d] = call[d]
    PROVE  CopiesCurrent'
BY DEF CopiesCurrent, Live

\* A step that leaves the ledger, the history and the time alone keeps what the
\* invariant says of them.
LEMMA LedgerKept ==
    ASSUME IInv, UNCHANGED <<clock, created, data, grants, grantStamp>>
    PROVE  /\ EmptyUntilCreated' /\ GrantsTimed'
           /\ LedgerRemembersGrants' /\ SuppressionBounded'
BY DEF IInv, EmptyUntilCreated, GrantsTimed, LedgerRemembersGrants, SuppressionBounded

\* Recording a grant in the step that writes it keeps the history's bounds.
LEMMA GrantRecorded ==
    ASSUME IInv, NEW c \in Controllers, call[c].pc # "idle", GrantTo(c), clock' = clock
    PROVE  /\ GrantsTimed'
           /\ grants'[call[c].job].n > 0
           /\ grantStamp'[call[c].job] = call[c].now
           /\ \A j \in Jobs : j # call[c].job =>
                 grants'[j] = grants[j] /\ grantStamp'[j] = grantStamp[j]
<1> DEFINE j == call[c].job
           now == call[c].now
<1>1. /\ j \in Jobs /\ now \in Nat /\ Asked(c) \in Nat /\ Asked(c) <= now
  BY LedgerAssumption DEF IInv, TypeOK, Call, CallsTimed, Asked
<1>2. grants \in [Jobs -> [n : Nat, asked : Nat]] /\ grantStamp \in [Jobs -> Nat \cup {NoStamp}]
  BY DEF IInv, TypeOK, Stamps
<1> DEFINE asked == Asked(c)
<1>3. grants' = [grants EXCEPT ![j] = [n |-> grants[j].n + 1, asked |-> asked]]
      /\ grantStamp' = [grantStamp EXCEPT ![j] = now]
  BY DEF GrantTo
<1>4. asked \in Nat /\ asked <= now
  BY <1>1
<1> HIDE DEF j, now, asked
<1>5. grants'[j] = [n |-> grants[j].n + 1, asked |-> asked] /\ grantStamp'[j] = now
  BY <1>1, <1>2, <1>3
<1>6. \A i \in Jobs : i # j => grants'[i] = grants[i] /\ grantStamp'[i] = grantStamp[i]
  BY <1>2, <1>3
<1>7. grants[j].n \in Nat /\ grants'[j].n = grants[j].n + 1 /\ grants'[j].asked = asked
  BY <1>1, <1>2, <1>5
<1>8. GrantsTimed'
  <2> SUFFICES ASSUME NEW i \in Jobs, grants'[i].n > 0
               PROVE  grants'[i].asked <= grantStamp'[i]
    BY DEF GrantsTimed
  <2>1. CASE i = j
    BY <2>1, <1>4, <1>5, <1>7
  <2>2. CASE i # j
    BY <2>2, <1>6 DEF IInv, GrantsTimed
  <2> QED
    BY <2>1, <2>2
<1> QED
  BY <1>5, <1>6, <1>7, <1>8 DEF j, now

\* Every step keeps the invariant.
LEMMA InvariantStep == IInv /\ [Next]_vars => IInv'
<1> SUFFICES ASSUME IInv, [Next]_vars PROVE IInv'
  OBVIOUS
<1>0. TypeOK' /\ TypeOK
  BY TypeStep DEF IInv
<1>1. CASE UNCHANGED vars
  BY <1>0, <1>1 DEF vars, IInv, CallsTimed, Asked, CopiesCurrent, Live, EmptyUntilCreated, GrantsTimed,
                LedgerRemembersGrants, SuppressionBounded
<1>2. CASE Tick
  <2>1. clock \in Nat /\ clock' = clock + 1
    BY <1>2 DEF Tick, IInv, TypeOK
  <2>2. CallsTimed'
    BY <1>2, <2>1 DEF Tick, IInv, CallsTimed, Asked
  <2>3. CopiesCurrent' /\ EmptyUntilCreated' /\ GrantsTimed'
    BY <1>2 DEF Tick, IInv, CopiesCurrent, Live, EmptyUntilCreated, GrantsTimed
  <2>4. LedgerRemembersGrants' /\ SuppressionBounded'
    BY <1>2, <2>1, LedgerAssumption
       DEF Tick, IInv, TypeOK, Stamps, NoStamp, LedgerRemembersGrants, SuppressionBounded
  <2> QED
    BY <1>0, <2>2, <2>3, <2>4 DEF IInv
<1>3. ASSUME NEW c \in Controllers, NEW j \in Jobs, Begin(c, j) PROVE IInv'
  <2>1. clock \in Nat /\ Offset[c] \in 0 .. MaxSkew
    BY <1>0, LedgerAssumption DEF TypeOK
  <2>2. /\ call'[c].now = clock + Offset[c]
        /\ \A d \in Controllers : d # c => call'[d] = call[d]
    BY <1>0, <1>3 DEF Begin, TypeOK, Idle
  <2>3. CallsTimed'
    BY <1>3, <2>1, <2>2 DEF Begin, IInv, CallsTimed, Asked
  <2>4. c \notin current
    BY <1>3 DEF Begin, IInv, CopiesCurrent
  <2>5. CopiesCurrent'
    BY <1>0, <1>3, <2>2, <2>4, CopiesKept DEF Begin, IInv, TypeOK
  <2> QED
    BY <1>0, <1>3, <2>3, <2>5, LedgerKept DEF Begin, IInv
<1>4. ASSUME NEW c \in Controllers, Attempt(c) PROVE IInv'
  <2> DEFINE j == call[c].job
             now == call[c].now
  <2>0. j \in Jobs /\ now \in Nat /\ call[c].seen \in Stamps
    BY <1>0 DEF TypeOK, Call
  <2>a. call[c].pc # "idle" => now <= clock + MaxSkew
    BY <1>0, <2>0, LedgerAssumption DEF IInv, CallsTimed, Asked, TypeOK
  <2>b. call[c].pc # "update" => c \notin current
    BY DEF IInv, CopiesCurrent
  <2>c. Return(c) \/ Retry(c) => \A d \in Controllers : d # c => call'[d] = call[d]
    BY <1>0 DEF Return, Retry, TypeOK
  <2>1. CASE GetNotFound(c)
    <3>1. CallsTimed'
      BY <1>0, <2>1 DEF GetNotFound, IInv, CallsTimed, Asked, TypeOK, Call
    <3>2. CopiesCurrent'
      BY <1>0, <2>1, <2>b, CopiesKept DEF GetNotFound, IInv, TypeOK
    <3> QED
      BY <1>0, <2>1, <3>1, <3>2, LedgerKept DEF GetNotFound, IInv
  <2>2. CASE GetDenied(c) \/ GetFails(c) \/ WriteNotApplied(c)
    <3>1. Return(c) /\ UNCHANGED <<clock, created, data, grants, grantStamp>>
          /\ current' = current \ {c}
      BY <2>2, <2>b DEF GetDenied, GetFails, WriteNotApplied
    <3>2. CopiesCurrent'
      BY <1>0, <2>c, <3>1, CopiesKept DEF IInv, TypeOK
    <3> QED
      BY <1>0, <3>1, <3>2, ReturnTimed, LedgerKept DEF IInv
  <2>3. CASE GetFree(c)
    <3>1. CallsTimed'
      BY <1>0, <2>3 DEF GetFree, IInv, CallsTimed, Asked, TypeOK, Call
    <3>2. /\ call'[c].pc = "update" /\ call'[c].seen = data
          /\ call'[c].job = j /\ call'[c].now = now
          /\ \A d \in Controllers : d # c => call'[d] = call[d]
      BY <1>0, <2>3 DEF GetFree, TypeOK, Call
    <3>3. CopiesCurrent'
      BY <1>0, <2>3, <3>2 DEF GetFree, IInv, CopiesCurrent, TypeOK, Live
    <3> QED
      BY <1>0, <2>3, <3>1, <3>3, LedgerKept DEF GetFree, IInv
  <2>4. CASE CreateAlreadyExists(c) \/ UpdateConflict(c)
    <3>1. /\ Retry(c) /\ call[c].pc # "idle" /\ c \notin current
          /\ UNCHANGED <<clock, created, data, current, grants, grantStamp>>
      BY <2>4, <2>b DEF CreateAlreadyExists, UpdateConflict, AcceptsUpdate
    <3>2. CopiesCurrent'
      BY <1>0, <2>c, <3>1, CopiesKept DEF IInv, TypeOK
    <3> QED
      BY <1>0, <3>1, <3>2, RetryTimed, LedgerKept DEF IInv
  <2>5. CASE CreateOk(c) \/ CreateAnswerLost(c)
    <3>1. /\ Return(c) /\ clock' = clock /\ ~created /\ created' /\ current' = {}
          /\ data' = [NoStamps EXCEPT ![j] = now] /\ call[c].pc # "idle"
      BY <2>5 DEF CreateOk, CreateAnswerLost, Write
    <3>2. /\ SuppressionBounded' /\ data'[j] = now
          /\ \A i \in Jobs : data[i] = NoStamp
      BY <1>0, <2>0, <2>a, <3>1, CreateKeepsLive DEF IInv
    <3>3. CallsTimed' /\ CopiesCurrent' /\ EmptyUntilCreated'
      BY <1>0, <3>1, ReturnTimed DEF IInv, CopiesCurrent, EmptyUntilCreated
    <3>4. GrantsTimed' /\ LedgerRemembersGrants'
      <4>1. \A i \in Jobs : grants[i].n > 0 => clock + MaxSkew >= grantStamp[i] + TTL
        BY <1>0, <3>2 DEF IInv, LedgerRemembersGrants, GrantsTimed, TypeOK, Stamps, NoStamp
      <4>2. CASE CreateOk(c)
        BY <1>0, <2>0, <3>1, <3>2, <4>1, <4>2, GrantRecorded DEF CreateOk, LedgerRemembersGrants
      <4>3. CASE CreateAnswerLost(c)
        BY <3>1, <4>1, <4>3 DEF CreateAnswerLost, IInv, GrantsTimed, LedgerRemembersGrants
      <4> QED
        BY <2>5, <4>2, <4>3
    <3> QED
      BY <1>0, <3>2, <3>3, <3>4 DEF IInv
  <2>6. CASE UpdateOk(c) \/ UpdateAnswerLost(c)
    <3>1. /\ Return(c) /\ clock' = clock /\ c \in current /\ created' /\ current' = {}
          /\ data' = Recorded(call[c].seen, j, now) /\ call[c].pc # "idle"
      BY <2>6 DEF UpdateOk, UpdateAnswerLost, Write, AcceptsUpdate
    <3>2. call[c].seen = data /\ ~Live(data, j, now)
      BY <3>1 DEF IInv, CopiesCurrent
    <3>3. /\ SuppressionBounded' /\ data'[j] = now
          /\ \A i \in Jobs : data[i] # NoStamp =>
                \/ data'[i] >= data[i]
                \/ clock + MaxSkew >= data[i] + TTL
      BY <1>0, <2>0, <2>a, <3>1, <3>2, RecordedKeepsLive DEF IInv
    <3>4. CallsTimed' /\ CopiesCurrent' /\ EmptyUntilCreated'
      BY <1>0, <3>1, ReturnTimed DEF IInv, CopiesCurrent, EmptyUntilCreated
    <3>5. \A i \in Jobs : grants[i].n > 0 =>
             data'[i] >= grantStamp[i] \/ clock + MaxSkew >= grantStamp[i] + TTL
      <4> SUFFICES ASSUME NEW i \in Jobs, grants[i].n > 0,
                          ~(clock + MaxSkew >= grantStamp[i] + TTL)
                   PROVE  data'[i] >= grantStamp[i]
        OBVIOUS
      <4>1. /\ data[i] >= grantStamp[i] /\ grantStamp[i] # NoStamp
            /\ data[i] \in Int /\ data'[i] \in Int /\ grantStamp[i] \in Nat
            /\ clock \in Nat
        BY <1>0 DEF IInv, LedgerRemembersGrants, GrantsTimed, TypeOK, Stamps, NoStamp
      <4>2. data[i] # NoStamp
        BY <4>1 DEF NoStamp
      <4> QED
        BY <3>3, <4>1, <4>2, LedgerAssumption
    <3>6. GrantsTimed' /\ LedgerRemembersGrants'
      <4>1. CASE UpdateOk(c)
        BY <1>0, <2>0, <3>1, <3>3, <3>5, <4>1, GrantRecorded DEF UpdateOk, LedgerRemembersGrants
      <4>2. CASE UpdateAnswerLost(c)
        BY <3>1, <3>5, <4>2 DEF UpdateAnswerLost, IInv, GrantsTimed, LedgerRemembersGrants
      <4> QED
        BY <2>6, <4>1, <4>2
    <3> QED
      BY <1>0, <3>3, <3>4, <3>6 DEF IInv
  <2> QED
    BY <1>4, <2>1, <2>2, <2>3, <2>4, <2>5, <2>6 DEF Attempt
<1> QED
  BY <1>1, <1>2, <1>3, <1>4 DEF Next

\* Spec implies the inductive invariant at every step.
LEMMA Invariance == Spec => []IInv
BY InvariantInit, InvariantStep, PTL DEF Spec

------------------------------------------------------------------------------
(* The properties. *)

\* Every variable keeps its type.
THEOREM TypeCorrect == Spec => []TypeOK
<1>1. IInv => TypeOK
  BY DEF IInv
<1> QED
  BY <1>1, Invariance, PTL

\* A granted restart stays recorded until its window is over, whatever other
\* callers write, prune or retry and whichever answers are lost.
THEOREM GrantsRemembered == Spec => []LedgerRemembersGrants
<1>1. IInv => LedgerRemembersGrants
  BY DEF IInv
<1> QED
  BY <1>1, Invariance, PTL

\* No entry of the ledger is dated later than the fastest clock reads.
THEOREM NoStampAhead == Spec => []SuppressionBounded
<1>1. IInv => SuppressionBounded
  BY DEF IInv
<1> QED
  BY <1>1, Invariance, PTL

\* No step of any interleaving overwrites or prunes an entry inside its window.
THEOREM NoLiveStampLost == Spec => LiveStampsSurvive
<1>1. ASSUME IInv, [Next]_vars
      PROVE  [\A j \in Jobs : data[j] # NoStamp /\ data'[j] # data[j]
                 => clock + MaxSkew >= data[j] + TTL]_vars
  <2> SUFFICES ASSUME NEW i \in Jobs, data[i] # NoStamp, data'[i] # data[i]
               PROVE  clock + MaxSkew >= data[i] + TTL
    OBVIOUS
  <2>0. TypeOK /\ CallsTimed /\ CopiesCurrent /\ EmptyUntilCreated /\ SuppressionBounded
    BY <1>1 DEF IInv
  <2>1. PICK c \in Controllers : \/ CreateOk(c) \/ CreateAnswerLost(c)
                                 \/ UpdateOk(c) \/ UpdateAnswerLost(c)
    BY <1>1 DEF Next, vars, Tick, Begin, Attempt, GetNotFound, GetDenied, GetFree, GetFails,
                CreateAlreadyExists, UpdateConflict, WriteNotApplied
  <2> DEFINE j == call[c].job
             now == call[c].now
  <2>2. j \in Jobs /\ now \in Nat
    BY <2>0 DEF TypeOK, Call
  <2>3. call[c].pc # "idle" => now <= clock + MaxSkew
    BY <2>0, <2>2, LedgerAssumption DEF CallsTimed, Asked, TypeOK
  <2>4. CASE CreateOk(c) \/ CreateAnswerLost(c)
    BY <2>0, <2>2, <2>4 DEF CreateOk, CreateAnswerLost, EmptyUntilCreated, NoStamps
  <2>5. CASE UpdateOk(c) \/ UpdateAnswerLost(c)
    <3>1. /\ clock' = clock /\ c \in current /\ call[c].pc # "idle"
          /\ data' = Recorded(call[c].seen, j, now)
      BY <2>5 DEF UpdateOk, UpdateAnswerLost, Write, AcceptsUpdate
    <3>2. call[c].seen = data /\ ~Live(data, j, now)
      BY <2>0, <3>1 DEF CopiesCurrent
    <3> QED
      BY <2>0, <2>2, <2>3, <3>1, <3>2, RecordedKeepsLive
  <2> QED
    BY <2>1, <2>4, <2>5
<1> QED
  BY <1>1, Invariance, PTL DEF Spec, LiveStampsSurvive

\* A grant comes at least TTL - MaxSkew after the call that was granted the job's
\* previous one began.
LEMMA GrantSpaced ==
    ASSUME IInv, NEW c \in Controllers, CreateOk(c) \/ UpdateOk(c),
           grants[call[c].job].n > 0
    PROVE  clock >= grants[call[c].job].asked + (TTL - MaxSkew)
<1> DEFINE j == call[c].job
           now == call[c].now
<1>1. /\ TypeOK /\ CallsTimed /\ CopiesCurrent /\ EmptyUntilCreated /\ GrantsTimed
      /\ LedgerRemembersGrants
  BY DEF IInv
<1>2. call[c].pc # "idle"
  BY DEF CreateOk, UpdateOk
<1>3. j \in Jobs /\ now \in Nat /\ clock \in Nat /\ grants[j].asked \in Nat
  BY <1>1 DEF TypeOK, Call
<1>4. now <= clock + MaxSkew
  BY <1>1, <1>2, <1>3, LedgerAssumption DEF CallsTimed, Asked
<1>5. /\ data[j] \in Nat \cup {NoStamp} /\ grantStamp[j] \in Nat \cup {NoStamp}
      /\ grants[j].asked <= grantStamp[j]
  BY <1>1, <1>3 DEF TypeOK, Stamps, GrantsTimed
<1>6. data[j] >= grantStamp[j] \/ clock + MaxSkew >= grantStamp[j] + TTL
  BY <1>1, <1>3 DEF LedgerRemembersGrants
<1>7. CASE CreateOk(c)
  <2>1. data[j] = NoStamp
    BY <1>1, <1>3, <1>7 DEF CreateOk, EmptyUntilCreated, NoStamps
  <2> QED
    BY <2>1, <1>3, <1>5, <1>6, LedgerAssumption DEF NoStamp
<1>8. CASE UpdateOk(c)
  <2>1. ~Live(data, j, now)
    BY <1>1, <1>8 DEF UpdateOk, AcceptsUpdate, CopiesCurrent
  <2>2. data[j] >= grantStamp[j] => now >= data[j] + TTL
    BY <2>1, <1>3, <1>5, LedgerAssumption DEF Live, NoStamp
  <2>3. clock + MaxSkew >= grantStamp[j] + TTL
    BY <2>2, <1>3, <1>4, <1>5, <1>6, LedgerAssumption DEF NoStamp
  <2> QED
    BY <2>3, <1>3, <1>5, LedgerAssumption DEF NoStamp
<1> QED
  BY <1>7, <1>8

\* The ledger implements the throttle: a job is granted a restart TTL - MaxSkew
\* after the call that was granted its previous one began, at the earliest.
THEOREM LedgerThrottles == Spec => ThrottleSpec
<1>1. Init => Throttle!Init
  BY DEF Init, Throttle!Init
<1>2. ASSUME IInv, [Next]_vars PROVE [Throttle!Next]_<<clock, grants>>
  <2>1. CASE UNCHANGED vars
    BY <2>1 DEF vars
  <2>2. CASE Tick
    BY <2>2 DEF Tick, Throttle!Next, Throttle!Tick
  <2>3. ASSUME NEW c \in Controllers, NEW j \in Jobs, Begin(c, j)
        PROVE  UNCHANGED <<clock, grants>>
    BY <2>3 DEF Begin
  <2>4. ASSUME NEW c \in Controllers, Attempt(c) PROVE [Throttle!Next]_<<clock, grants>>
    <3>1. CASE CreateOk(c) \/ UpdateOk(c)
      <4>1. call[c].job \in Jobs
        BY <1>2 DEF IInv, TypeOK, Call
      <4>2. GrantTo(c) /\ clock' = clock
        BY <3>1 DEF CreateOk, UpdateOk
      <4>3. Asked(c) \in 0 .. clock
        BY <1>2, <3>1 DEF IInv, CallsTimed, CreateOk, UpdateOk
      <4>4. Throttle!Grant(call[c].job, Asked(c))
        BY <1>2, <3>1, <4>2, GrantSpaced DEF Throttle!Grant, GrantTo
      <4> QED
        BY <4>1, <4>3, <4>4 DEF Throttle!Next
    <3>2. CASE ~(CreateOk(c) \/ UpdateOk(c))
      BY <2>4, <3>2
         DEF Attempt, GetNotFound, GetDenied, GetFree, GetFails, CreateAlreadyExists,
             CreateAnswerLost, UpdateConflict, UpdateAnswerLost, WriteNotApplied
    <3> QED
      BY <3>1, <3>2
  <2> QED
    BY <1>2, <2>1, <2>2, <2>3, <2>4 DEF Next
<1> QED
  BY <1>1, <1>2, Invariance, PTL DEF Spec, ThrottleSpec, Throttle!Spec
==============================================================================
