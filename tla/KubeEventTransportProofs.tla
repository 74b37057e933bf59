------------------------ MODULE KubeEventTransportProofs ------------------------
(***************************************************************************)
(* What TLAPS proves of KubeEventTransport, for any number of events and   *)
(* any size of the channel.                                                *)
(***************************************************************************)
EXTENDS KubeEventTransport, TLAPS

In(s, e) == \E i \in 1 .. Len(s) : s[i] = e
Distinct(s) == \A i, j \in 1 .. Len(s) : s[i] = s[j] => i = j

Somewhere(e) ==
    \/ In(queue, e) \/ In(channel, e) \/ In(received, e)
    \/ informer.event = e \/ forwarder.event = e

\* The goroutines hold an event exactly while they are about to pass it on, and the
\* queue and the forwarder end only with the context.
Holding ==
    /\ informer.pc \in {"select", "add"} <=> informer.event # None
    /\ forwarder.pc = "send" <=> forwarder.event # None
    /\ queueShut \/ stop # "none" => ctxDone
    /\ forwarder.pc = "done" => ctxDone

\* No event is in two places; none is anywhere before it is handled.
Apart ==
    /\ Distinct(queue) /\ Distinct(channel) /\ Distinct(received)
    /\ \A e \in Events :
        /\ In(queue, e) =>
               ~In(channel, e) /\ ~In(received, e) /\ informer.event # e /\ forwarder.event # e
        /\ In(channel, e) => ~In(received, e) /\ informer.event # e /\ forwarder.event # e
        /\ In(received, e) => informer.event # e /\ forwarder.event # e
        /\ informer.event = e => forwarder.event # e
        /\ Somewhere(e) => e <= handled

Kept == ~ctxDone => \A e \in 1 .. handled : Somewhere(e)

TransportInv == TypeOK /\ Holding /\ Apart /\ Kept

------------------------------------------------------------------------------
\* What Append does to the places of the events.
LEMMA Appended ==
    ASSUME NEW s \in Seq(Events), NEW e \in Events
    PROVE  /\ Append(s, e) \in Seq(Events)
           /\ \A x : In(Append(s, e), x) <=> In(s, x) \/ x = e
           /\ Distinct(s) /\ ~In(s, e) => Distinct(Append(s, e))
<1> DEFINE t == Append(s, e)
<1>1. /\ t \in Seq(Events) /\ Len(t) = Len(s) + 1 /\ Len(s) \in Nat
      /\ t[Len(s) + 1] = e
      /\ \A i \in 1 .. Len(s) : t[i] = s[i]
  OBVIOUS
<1> HIDE DEF t
<1>2. \A x : In(t, x) <=> In(s, x) \/ x = e
  BY <1>1 DEF In
<1>3. Distinct(s) /\ ~In(s, e) => Distinct(t)
  <2> SUFFICES ASSUME Distinct(s), ~In(s, e), NEW i \in 1 .. Len(t), NEW j \in 1 .. Len(t), t[i] = t[j]
               PROVE  i = j
    BY DEF Distinct
  <2>1. CASE i \in 1 .. Len(s) /\ j \in 1 .. Len(s)
    BY <1>1, <2>1 DEF Distinct
  <2>2. CASE i = Len(s) + 1 \/ j = Len(s) + 1
    BY <1>1, <2>2 DEF In
  <2> QED
    BY <1>1, <2>1, <2>2
<1> QED
  BY <1>1, <1>2, <1>3 DEF t

\* What taking the first event does to them.
LEMMA TakenFirst ==
    ASSUME NEW s \in Seq(Events), s # <<>>
    PROVE  /\ Head(s) \in Events /\ Tail(s) \in Seq(Events) /\ Len(Tail(s)) = Len(s) - 1
           /\ \A x : In(s, x) <=> x = Head(s) \/ In(Tail(s), x)
           /\ Distinct(s) => Distinct(Tail(s)) /\ ~In(Tail(s), Head(s))
<1> DEFINE t == Tail(s)
<1>1. /\ t \in Seq(Events) /\ Len(s) \in Nat /\ Len(s) > 0 /\ Len(t) = Len(s) - 1
      /\ Head(s) = s[1] /\ s[1] \in Events
      /\ \A i \in 1 .. Len(t) : t[i] = s[i + 1]
  OBVIOUS
<1> HIDE DEF t
<1>2. ASSUME NEW x PROVE In(s, x) <=> x = Head(s) \/ In(t, x)
  <2>1. CASE In(s, x)
    <3>1. PICK i \in 1 .. Len(s) : s[i] = x
      BY <2>1 DEF In
    <3>2. CASE i = 1
      BY <1>1, <2>1, <3>1, <3>2
    <3>3. CASE i # 1
      <4>1. i - 1 \in 1 .. Len(t) /\ t[i - 1] = x
        BY <1>1, <3>1, <3>3
      <4> QED
        BY <2>1, <4>1 DEF In
    <3> QED
      BY <3>2, <3>3
  <2>2. CASE x = Head(s)
    BY <1>1, <2>2 DEF In
  <2>3. CASE In(t, x)
    <3>1. PICK i \in 1 .. Len(t) : t[i] = x
      BY <2>3 DEF In
    <3>2. i + 1 \in 1 .. Len(s) /\ s[i + 1] = x
      BY <1>1, <3>1
    <3> QED
      BY <2>3, <3>2 DEF In
  <2> QED
    BY <2>1, <2>2, <2>3
<1>3. Distinct(s) => Distinct(t)
  <2> SUFFICES ASSUME Distinct(s), NEW i \in 1 .. Len(t), NEW j \in 1 .. Len(t), t[i] = t[j]
               PROVE  i = j
    BY DEF Distinct
  <2>1. i + 1 \in 1 .. Len(s) /\ j + 1 \in 1 .. Len(s) /\ s[i + 1] = s[j + 1]
    BY <1>1
  <2> QED
    BY <1>1, <2>1 DEF Distinct
<1>4. Distinct(s) => ~In(t, Head(s))
  <2> SUFFICES ASSUME Distinct(s), NEW i \in 1 .. Len(t), t[i] = Head(s) PROVE FALSE
    BY DEF In
  <2>1. 1 \in 1 .. Len(s) /\ i + 1 \in 1 .. Len(s) /\ s[i + 1] = s[1]
    BY <1>1
  <2>2. i + 1 = 1
    BY <2>1 DEF Distinct
  <2> QED
    BY <1>1, <2>2
<1> QED
  BY <1>1, <1>2, <1>3, <1>4 DEF t

------------------------------------------------------------------------------
\* Every step keeps the invariant.
LEMMA TransportInvStep == ASSUME TransportInv, [Next]_vars PROVE TransportInv'
<1> USE TransportAssumption DEF TransportInv, Holding, Apart, Kept, None, At
<1>1. CASE Handle
  <2>1. /\ handled' = handled + 1 /\ handled + 1 \in Events
        /\ informer.event = None /\ informer'.event = handled + 1 /\ informer'.pc = "select"
        /\ UNCHANGED <<queue, channel, received, forwarder, queueShut, stop, ctxDone>>
    BY <1>1 DEF Handle, InformerFrame, TypeOK, Events
  <2>2. TypeOK' /\ Holding'
    BY <1>1, <2>1 DEF Handle, InformerFrame, TypeOK, Events
  <2>3. ~Somewhere(handled + 1)
    BY <2>1 DEF TypeOK
  <2>4. \A e \in Events : Somewhere(e)' <=> Somewhere(e) \/ e = handled + 1
    BY <2>1 DEF Somewhere, In, Events
  <2>5. Apart'
    BY <2>1, <2>3, <2>4 DEF Somewhere, TypeOK, Events
  <2>6. Kept'
    BY <2>1, <2>4 DEF TypeOK, Events
  <2> QED
    BY <2>2, <2>5, <2>6
<1>2. CASE InformerExits \/ SelectDone
  <2>1. /\ ctxDone /\ informer'.event = None
        /\ UNCHANGED <<handled, queue, channel, received, forwarder, queueShut, stop, ctxDone>>
    BY <1>2 DEF InformerExits, SelectDone, InformerFrame
  <2>2. TypeOK' /\ Holding'
    BY <1>2 DEF InformerExits, SelectDone, InformerFrame, TypeOK
  <2>3. \A e \in Events : /\ Somewhere(e)' => Somewhere(e)
                          /\ informer'.event # e
    BY <2>1 DEF Somewhere, In, Events
  <2>4. Apart'
    BY <2>1, <2>3 DEF In, Distinct
  <2> QED
    BY <2>1, <2>2, <2>4
<1>3. CASE SelectSend
  <2> DEFINE e == informer.event
  <2>1. /\ e \in Events /\ ~In(channel, e) /\ channel \in Seq(Events) /\ Len(channel) < BufferSize
        /\ channel' = Append(channel, e) /\ informer'.event = None /\ informer'.pc = "idle"
        /\ UNCHANGED <<handled, queue, received, forwarder, queueShut, stop, ctxDone>>
    BY <1>3 DEF SelectSend, InformerFrame, HasRoom, TypeOK, Events
  <2>2. /\ channel' \in Seq(Events) /\ Distinct(channel')
        /\ \A x : In(channel', x) <=> In(channel, x) \/ x = e
    BY <2>1, Appended
  <2>3. TypeOK' /\ Holding'
    BY <1>3, <2>1, <2>2 DEF SelectSend, InformerFrame, TypeOK
  <2>4. \A x \in Events : Somewhere(x)' <=> Somewhere(x)
    BY <2>1, <2>2 DEF Somewhere, Events
  <2>5. Apart' /\ Kept'
    BY <2>1, <2>2, <2>4 DEF TypeOK, Events
  <2> QED
    BY <2>3, <2>5
<1>4. CASE SelectSendClosed
  <2>1. UNCHANGED <<handled, queue, channel, received, informer, forwarder, queueShut, stop, ctxDone>>
    BY <1>4 DEF SelectSendClosed, InformerFrame
  <2>2. TypeOK'
    BY <1>4, <2>1 DEF SelectSendClosed, InformerFrame, TypeOK
  <2> QED
    BY <2>1, <2>2 DEF Somewhere
<1>5. CASE SelectDefault
  <2>1. TypeOK' /\ Holding'
    BY <1>5 DEF SelectDefault, InformerFrame, TypeOK
  <2>2. UNCHANGED <<handled, queue, channel, received, forwarder, ctxDone>> /\ informer'.event = informer.event
    BY <1>5 DEF SelectDefault, InformerFrame, TypeOK
  <2> QED
    BY <2>1, <2>2 DEF Somewhere, In, Distinct
<1>6. CASE QueueAdd
  <2> DEFINE e == informer.event
  <2>1. /\ e \in Events /\ ~In(queue, e) /\ queue \in Seq(Events)
        /\ informer'.event = None /\ informer'.pc = "idle"
        /\ UNCHANGED <<handled, channel, received, forwarder, queueShut, stop, ctxDone>>
    BY <1>6 DEF QueueAdd, InformerFrame, TypeOK, Events
  <2>2. CASE queueShut
    <3>1. UNCHANGED queue
      BY <1>6, <2>2 DEF QueueAdd
    <3>2. TypeOK' /\ Holding'
      BY <1>6, <2>1, <3>1 DEF QueueAdd, InformerFrame, TypeOK
    <3> QED
      BY <2>1, <2>2, <3>1, <3>2 DEF Somewhere, In, Distinct, TypeOK, Events
  <2>3. CASE ~queueShut
    <3>1. queue' = Append(queue, e)
      BY <1>6, <2>3 DEF QueueAdd
    <3>2. /\ queue' \in Seq(Events) /\ Distinct(queue')
          /\ \A x : In(queue', x) <=> In(queue, x) \/ x = e
      BY <2>1, <3>1, Appended
    <3>3. TypeOK' /\ Holding'
      BY <1>6, <2>1, <3>2 DEF QueueAdd, InformerFrame, TypeOK
    <3>4. \A x \in Events : Somewhere(x)' <=> Somewhere(x)
      BY <2>1, <3>2 DEF Somewhere, Events
    <3>5. Apart' /\ Kept'
      BY <2>1, <3>2, <3>4 DEF TypeOK, Events
    <3> QED
      BY <3>3, <3>5
  <2> QED
    BY <2>2, <2>3
<1>7. CASE ForwarderGets
  <2> DEFINE e == Head(queue)
  <2>1. /\ queue \in Seq(Events) /\ queue # <<>> /\ queue' = Tail(queue)
        /\ forwarder.event = None /\ forwarder' = [pc |-> "send", event |-> e]
        /\ UNCHANGED <<handled, channel, received, informer, queueShut, stop, ctxDone>>
    BY <1>7 DEF ForwarderGets, ForwarderFrame, TypeOK
  <2>2. /\ e \in Events /\ queue' \in Seq(Events) /\ Distinct(queue') /\ ~In(queue', e)
        /\ \A x : In(queue, x) <=> x = e \/ In(queue', x)
    BY <2>1, TakenFirst
  <2>3. TypeOK' /\ Holding'
    BY <1>7, <2>1, <2>2 DEF ForwarderGets, ForwarderFrame, TypeOK, Events
  <2>4. \A x \in Events : Somewhere(x)' <=> Somewhere(x)
    BY <2>1, <2>2 DEF Somewhere, Events
  <2>5. Apart' /\ Kept'
    BY <2>1, <2>2, <2>4 DEF TypeOK, Events
  <2> QED
    BY <2>3, <2>5
<1>8. CASE ForwarderExits \/ ForwarderCancelled
  <2>1. /\ ctxDone /\ forwarder' = [pc |-> "done", event |-> None]
        /\ UNCHANGED <<handled, queue, channel, received, informer, queueShut, stop, ctxDone>>
    BY <1>8 DEF ForwarderExits, ForwarderCancelled, ForwarderFrame
  <2>2. TypeOK' /\ Holding'
    BY <1>8, <2>1 DEF ForwarderExits, ForwarderCancelled, ForwarderFrame, TypeOK
  <2> QED
    BY <2>1, <2>2 DEF Somewhere, TypeOK, Events
<1>9. CASE ForwarderSends
  <2> DEFINE e == forwarder.event
  <2>1. /\ e \in Events /\ ~In(channel, e) /\ channel \in Seq(Events) /\ Len(channel) < BufferSize
        /\ channel' = Append(channel, e) /\ forwarder' = [pc |-> "get", event |-> None]
        /\ UNCHANGED <<handled, queue, received, informer, queueShut, stop, ctxDone>>
    BY <1>9 DEF ForwarderSends, ForwarderFrame, HasRoom, TypeOK, Events
  <2>2. /\ channel' \in Seq(Events) /\ Distinct(channel')
        /\ \A x : In(channel', x) <=> In(channel, x) \/ x = e
    BY <2>1, Appended
  <2>3. TypeOK' /\ Holding'
    BY <1>9, <2>1, <2>2 DEF ForwarderSends, ForwarderFrame, TypeOK
  <2>4. \A x \in Events : Somewhere(x)' <=> Somewhere(x)
    BY <2>1, <2>2 DEF Somewhere, Events
  <2>5. Apart' /\ Kept'
    BY <2>1, <2>2, <2>4 DEF TypeOK, Events
  <2> QED
    BY <2>3, <2>5
<1>10. CASE Receive
  <2> DEFINE e == Head(channel)
  <2>1. /\ channel \in Seq(Events) /\ channel # <<>> /\ channel' = Tail(channel)
        /\ received \in Seq(Events) /\ received' = Append(received, e)
        /\ UNCHANGED <<handled, queue, forwarder, informer, queueShut, stop, ctxDone>>
    BY <1>10 DEF Receive, TypeOK
  <2>2. /\ e \in Events /\ channel' \in Seq(Events) /\ Distinct(channel') /\ ~In(channel', e)
        /\ Len(channel') = Len(channel) - 1
        /\ \A x : In(channel, x) <=> x = e \/ In(channel', x)
    BY <2>1, TakenFirst
  <2>3. /\ received' \in Seq(Events) /\ Distinct(received')
        /\ \A x : In(received', x) <=> In(received, x) \/ x = e
    <3>1. In(channel, e)
      BY <2>2
    <3>2. ~In(received, e)
      BY <2>2, <3>1
    <3> QED
      BY <2>1, <2>2, <3>2, Appended
  <2>4. TypeOK' /\ Holding'
    BY <1>10, <2>1, <2>2, <2>3 DEF Receive, TypeOK
  <2>5. \A x \in Events : Somewhere(x)' <=> Somewhere(x)
    BY <2>1, <2>2, <2>3 DEF Somewhere, Events
  <2>6. Apart' /\ Kept'
    BY <2>1, <2>2, <2>3, <2>5 DEF TypeOK, Events
  <2> QED
    BY <2>4, <2>6
<1>11. CASE ShutDownOnDone \/ ParentCancelled \/ StopCancels \/ Stop \/ ConsumerExits \/ UNCHANGED vars
  <2>1. UNCHANGED <<handled, queue, channel, received, informer, forwarder>> /\ (ctxDone => ctxDone')
    BY <1>11 DEF ShutDownOnDone, ParentCancelled, StopCancels, Stop, StopShutsQueue, StopCloses,
                 ConsumerExits, vars
  <2>2. Holding'
    BY <1>11, <2>1 DEF ShutDownOnDone, ParentCancelled, StopCancels, Stop, StopShutsQueue, StopCloses,
                       ConsumerExits, vars
  <2>3. TypeOK'
    BY <1>11, <2>1 DEF ShutDownOnDone, ParentCancelled, StopCancels, Stop, StopShutsQueue, StopCloses,
                       ConsumerExits, vars, TypeOK
  <2> QED
    BY <2>1, <2>2, <2>3 DEF Somewhere, In, Distinct
<1> QED
  BY <1>1, <1>2, <1>3, <1>4, <1>5, <1>6, <1>7, <1>8, <1>9, <1>10, <1>11 DEF Next, Informer, Forwarder

LEMMA TransportInvInit == Init => TransportInv
<1> SUFFICES ASSUME Init PROVE TransportInv
  OBVIOUS
<1>1. TypeOK
  <2>1. <<>> \in Seq(Events) /\ Len(<<>>) = 0
    OBVIOUS
  <2>2. {queueShut, closed, ctxDone, consuming, panicked} \subseteq BOOLEAN
    BY DEF Init
  <2>3. /\ handled = 0 /\ informer = [pc |-> "idle", event |-> 0]
        /\ forwarder = [pc |-> "get", event |-> 0] /\ stop = "none"
        /\ queue = <<>> /\ channel = <<>> /\ received = <<>>
    BY DEF Init, None, At
  <2> QED
    BY <2>1, <2>2, <2>3, TransportAssumption DEF TypeOK
<1>2. Holding
  BY DEF Init, Holding, None, At
<1>3. Apart
  <2>1. /\ queue = <<>> /\ channel = <<>> /\ received = <<>>
        /\ informer.event = 0 /\ forwarder.event = 0
    BY DEF Init, None, At
  <2>2. \A s, e : s = <<>> => Distinct(s) /\ ~In(s, e)
    BY DEF Distinct, In
  <2> QED
    BY <2>1, <2>2, TransportAssumption DEF Apart, Somewhere, Events
<1>4. Kept
  BY DEF Init, Kept
<1> QED
  BY <1>1, <1>2, <1>3, <1>4 DEF TransportInv

\* The invariant, for every execution.
LEMMA TransportInvHolds == Spec => []TransportInv
<1>1. TransportInv /\ [Next]_vars => TransportInv'
  BY TransportInvStep
<1> QED
  BY TransportInvInit, <1>1, PTL DEF Spec

\* An event is in one place of the transport at most, whichever way it takes.
THEOREM EachEventOnce == Spec => []AtMostOnce
<1>1. TransportInv => AtMostOnce
  <2> SUFFICES ASSUME TransportInv, NEW e \in Events, NEW p \in Copies(e), NEW q \in Copies(e)
               PROVE  p = q
    BY DEF AtMostOnce
  <2>1. /\ p[1] = "queue" => In(queue, e) /\ p[2] \in 1 .. Len(queue) /\ queue[p[2]] = e
        /\ p[1] = "channel" => In(channel, e) /\ p[2] \in 1 .. Len(channel) /\ channel[p[2]] = e
        /\ p[1] = "received" => In(received, e) /\ p[2] \in 1 .. Len(received) /\ received[p[2]] = e
        /\ p[1] = "informer" => informer.event = e /\ p[2] = 0
        /\ p[1] = "forwarder" => forwarder.event = e /\ p[2] = 0
        /\ p[1] \in {"queue", "channel", "received", "informer", "forwarder"}
        /\ p = <<p[1], p[2]>>
    BY DEF Copies, In
  <2>2. /\ q[1] = "queue" => In(queue, e) /\ q[2] \in 1 .. Len(queue) /\ queue[q[2]] = e
        /\ q[1] = "channel" => In(channel, e) /\ q[2] \in 1 .. Len(channel) /\ channel[q[2]] = e
        /\ q[1] = "received" => In(received, e) /\ q[2] \in 1 .. Len(received) /\ received[q[2]] = e
        /\ q[1] = "informer" => informer.event = e /\ q[2] = 0
        /\ q[1] = "forwarder" => forwarder.event = e /\ q[2] = 0
        /\ q[1] \in {"queue", "channel", "received", "informer", "forwarder"}
        /\ q = <<q[1], q[2]>>
    BY DEF Copies, In
  <2>3. p[1] = q[1]
    BY <2>1, <2>2 DEF TransportInv, Apart
  <2>4. p[2] = q[2]
    BY <2>1, <2>2, <2>3 DEF TransportInv, Apart, Distinct
  <2> QED
    BY <2>1, <2>2, <2>3, <2>4
<1> QED
  BY TransportInvHolds, <1>1, PTL

\* Until the context ends no handled event is lost, whichever way it takes.
THEOREM NothingLost == Spec => []NothingLostWhileRunning
<1>1. TransportInv => NothingLostWhileRunning
  <2> SUFFICES ASSUME TransportInv, ~ctxDone, NEW e \in 1 .. handled
               PROVE  Copies(e) # {}
    BY DEF NothingLostWhileRunning
  <2>1. Somewhere(e)
    BY DEF TransportInv, Kept
  <2> QED
    BY <2>1 DEF Somewhere, In, Copies
<1> QED
  BY TransportInvHolds, <1>1, PTL

\* The channel keeps to its capacity, the goroutines to their steps.
THEOREM TransportTypes == Spec => []TypeOK
<1>1. TransportInv => TypeOK
  BY DEF TransportInv
<1> QED
  BY TransportInvHolds, <1>1, PTL
==============================================================================
