------------------------- MODULE KubeEventTransport -------------------------
(***************************************************************************)
(* pkg/events/kubeevent_transport.go: the informer's goroutine hands each  *)
(* event over to the recovery controller through a channel, or, when the   *)
(* channel is full, through a queue that a second goroutine drains into    *)
(* it; Stop ends the second goroutine and closes the channel, while the    *)
(* informer's goroutine is not waited for.                                 *)
(*                                                                         *)
(* Events are numbered in the order the informer sees them; those its      *)
(* filter refuses are left out.  The consumer is the loop of               *)
(* RecoveryController.Start.                                               *)
(***************************************************************************)
EXTENDS Integers, Sequences

CONSTANTS
    MaxEvents,   \* bound: events the informer sees
    BufferSize   \* transportEventBufferSize

ASSUME TransportAssumption == MaxEvents \in Nat /\ BufferSize \in Nat \ {0}

VARIABLES
    handled,     \* events the informer has called its handler for
    informer,    \* [pc, event] of the informer's goroutine
    queue,
    queueShut,
    forwarder,   \* [pc, event] of runQueueForwarder
    channel,
    closed,
    ctxDone,
    stop,        \* progress of Stop
    received,    \* what the consumer took from the channel
    consuming,
    panicked

vars == <<handled, informer, queue, queueShut, forwarder, channel, closed, ctxDone, stop,
          received, consuming, panicked>>

None == 0
At(pc, event) == [pc |-> pc, event |-> event]
HasRoomForOneMore == Len(channel) <= BufferSize                     \* mutant
HasRoom == Len(channel) < BufferSize

Init ==
    /\ handled = 0
    /\ informer = At("idle", None)
    /\ queue = <<>>
    /\ queueShut = FALSE
    /\ forwarder = At("get", None)
    /\ channel = <<>>
    /\ closed = FALSE
    /\ ctxDone = FALSE
    /\ stop = "none"
    /\ received = <<>>
    /\ consuming = TRUE
    /\ panicked = FALSE

------------------------------------------------------------------------------
(* The informer's goroutine: forwardK8sEvent. *)

InformerFrame ==
    UNCHANGED <<queueShut, forwarder, closed, ctxDone, stop, received, consuming>>

\* The informer keeps calling the handler for a while after its context ended.
Handle ==
    /\ informer.pc = "idle"
    /\ handled < MaxEvents
    /\ handled' = handled + 1
    /\ informer' = At("select", handled + 1)
    /\ UNCHANGED <<queue, channel, panicked>> /\ InformerFrame

InformerExits ==
    /\ informer.pc = "idle"
    /\ ctxDone
    /\ informer' = At("exited", None)
    /\ UNCHANGED <<handled, queue, channel, panicked>> /\ InformerFrame

SelectDone ==
    /\ informer.pc = "select"
    /\ ctxDone
    /\ informer' = At("idle", None)
    /\ UNCHANGED <<handled, queue, channel, panicked>> /\ InformerFrame

SelectSend ==
    /\ informer.pc = "select"
    /\ ~closed /\ HasRoom
    /\ channel' = Append(channel, informer.event)
    /\ informer' = At("idle", None)
    /\ UNCHANGED <<handled, queue, panicked>> /\ InformerFrame

\* A send case on a closed channel is ready, and panics when it is chosen.
SelectSendClosed ==
    /\ informer.pc = "select"
    /\ closed
    /\ panicked' = TRUE
    /\ UNCHANGED <<handled, informer, queue, channel>> /\ InformerFrame

SelectDefaultDrops ==                                                \* mutant
    /\ informer.pc = "select"
    /\ ~ctxDone /\ ~closed /\ ~HasRoom
    /\ informer' = At("idle", None)
    /\ UNCHANGED <<handled, queue, channel, panicked>> /\ InformerFrame

SelectDefault ==
    /\ informer.pc = "select"
    /\ ~ctxDone /\ ~closed /\ ~HasRoom
    /\ informer' = [informer EXCEPT !.pc = "add"]
    /\ UNCHANGED <<handled, queue, channel, panicked>> /\ InformerFrame

\* A queue that was shut down ignores what is added.
QueueAdd ==
    /\ informer.pc = "add"
    /\ queue' = IF queueShut THEN queue ELSE Append(queue, informer.event)
    /\ informer' = At("idle", None)
    /\ UNCHANGED <<handled, channel, panicked>> /\ InformerFrame

------------------------------------------------------------------------------
(* runQueueForwarder, and the goroutine that shuts the queue down. *)

ForwarderFrame ==
    UNCHANGED <<handled, informer, queueShut, closed, ctxDone, stop, received, consuming, panicked>>

\* Get hands out what is left even after the queue was shut down.
ForwarderGets ==
    /\ forwarder.pc = "get"
    /\ queue # <<>>
    /\ forwarder' = At("send", Head(queue))
    /\ queue' = Tail(queue)
    /\ UNCHANGED channel /\ ForwarderFrame

ForwarderExitsWhenEmpty ==                                           \* mutant
    /\ forwarder.pc = "get"
    /\ queue = <<>>
    /\ forwarder' = At("done", None)
    /\ UNCHANGED <<queue, channel>> /\ ForwarderFrame

ForwarderExits ==
    /\ forwarder.pc = "get"
    /\ queue = <<>> /\ queueShut
    /\ forwarder' = At("done", None)
    /\ UNCHANGED <<queue, channel>> /\ ForwarderFrame

ForwarderSendsAgain ==                                               \* mutant
    /\ forwarder.pc = "send"
    /\ HasRoom
    /\ channel' = Append(channel, forwarder.event)
    /\ queue' = IF queueShut THEN queue ELSE Append(queue, forwarder.event)
    /\ forwarder' = At("get", None)
    /\ ForwarderFrame

ForwarderSends ==
    /\ forwarder.pc = "send"
    /\ HasRoom
    /\ channel' = Append(channel, forwarder.event)
    /\ forwarder' = At("get", None)
    /\ UNCHANGED queue /\ ForwarderFrame

ForwarderNeverCancelled == FALSE /\ UNCHANGED vars                   \* mutant

ForwarderCancelled ==
    /\ forwarder.pc = "send"
    /\ ctxDone
    /\ forwarder' = At("done", None)
    /\ UNCHANGED <<queue, channel>> /\ ForwarderFrame

ShutDownOnDone ==
    /\ ctxDone /\ ~queueShut
    /\ queueShut' = TRUE
    /\ UNCHANGED <<handled, informer, queue, forwarder, channel, closed, ctxDone, stop,
                   received, consuming, panicked>>

------------------------------------------------------------------------------
(* The parent context, Stop, and the consumer. *)

ParentCancelled ==
    /\ ~ctxDone
    /\ ctxDone' = TRUE
    /\ UNCHANGED <<handled, informer, queue, queueShut, forwarder, channel, closed, stop,
                   received, consuming, panicked>>

StopCancels ==
    /\ stop = "none"
    /\ stop' = "shutdown"
    /\ ctxDone' = TRUE
    /\ UNCHANGED <<handled, informer, queue, queueShut, forwarder, channel, closed,
                   received, consuming, panicked>>

StopShutsQueue ==
    /\ stop = "shutdown"
    /\ stop' = "wait"
    /\ queueShut' = TRUE
    /\ UNCHANGED <<handled, informer, queue, forwarder, channel, closed, ctxDone,
                   received, consuming, panicked>>

\* <-doneCh, then close(eventCh).
StopCloses ==
    /\ stop = "wait"
    /\ forwarder.pc = "done"
    /\ stop' = "stopped"
    /\ closed' = TRUE
    /\ UNCHANGED <<handled, informer, queue, queueShut, forwarder, channel, ctxDone,
                   received, consuming, panicked>>

Receive ==
    /\ consuming
    /\ channel # <<>>
    /\ received' = Append(received, Head(channel))
    /\ channel' = Tail(channel)
    /\ UNCHANGED <<handled, informer, queue, queueShut, forwarder, closed, ctxDone, stop,
                   consuming, panicked>>

\* The consumer leaves when its own context, of the same parent, ends or when it
\* finds the channel closed.
ConsumerExits ==
    /\ consuming
    /\ ctxDone \/ (closed /\ channel = <<>>)
    /\ consuming' = FALSE
    /\ UNCHANGED <<handled, informer, queue, queueShut, forwarder, channel, closed, ctxDone,
                   stop, received, panicked>>

Informer ==
    \/ InformerExits \/ SelectDone \/ SelectSend \/ SelectSendClosed
    \/ SelectDefault \/ QueueAdd

Forwarder ==
    \/ ForwarderGets \/ ForwarderExits \/ ForwarderSends \/ ForwarderCancelled
    \/ ShutDownOnDone

Stop == StopShutsQueue \/ StopCloses

\* A panic ends the process.
Next ==
    /\ ~panicked
    /\ \/ Handle \/ Informer \/ Forwarder
       \/ ParentCancelled \/ StopCancels \/ Stop
       \/ Receive \/ ConsumerExits

Spec == Init /\ [][Next]_vars

------------------------------------------------------------------------------
(* Correctness. *)

Events == 1 .. MaxEvents

\* The type invariant.
TypeOK ==
    /\ handled \in 0 .. MaxEvents
    /\ informer \in [pc : {"idle", "select", "add", "exited"}, event : 0 .. MaxEvents]
    /\ forwarder \in [pc : {"get", "send", "done"}, event : 0 .. MaxEvents]
    /\ queue \in Seq(Events) /\ channel \in Seq(Events) /\ received \in Seq(Events)
    /\ Len(channel) <= BufferSize
    /\ {queueShut, closed, ctxDone, consuming, panicked} \subseteq BOOLEAN
    /\ stop \in {"none", "shutdown", "wait", "stopped"}

\* The places where event e is now.
Copies(e) ==
    {<<"queue", i>> : i \in {j \in 1 .. Len(queue) : queue[j] = e}}
    \cup {<<"channel", i>> : i \in {j \in 1 .. Len(channel) : channel[j] = e}}
    \cup {<<"received", i>> : i \in {j \in 1 .. Len(received) : received[j] = e}}
    \cup {<<"informer", 0>> : i \in {j \in {0} : informer.event = e}}
    \cup {<<"forwarder", 0>> : i \in {j \in {0} : forwarder.event = e}}

\* No event is ever in two places: the recovery controller gets it once.
AtMostOnce ==
    \A e \in Events : \A p, q \in Copies(e) : p = q

\* Until the context ends, an event that was handled is somewhere: on its way
\* through the channel or the queue, whichever of the two it took, or received.
NothingLostWhileRunning ==
    ~ctxDone => \A e \in 1 .. handled : Copies(e) # {}

\* The tests of Stop take the transport for ended once Stop has closed the
\* channel: nobody is left to send on it.
NoSendOnClosedChannel == ~panicked
==============================================================================
