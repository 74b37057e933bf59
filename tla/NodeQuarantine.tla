--------------------------- MODULE NodeQuarantine ---------------------------
(***************************************************************************)
(* How a node is taken out of scheduling.  The agent's daily check         *)
(* (pkg/detector/node) records an Event for its node, and the preflight    *)
(* reports of a workload may name nodes slow; the leading controller marks *)
(* each of them unschedulable (recovery.go, kube.TaintNodeUnschedulable),  *)
(* by a read-modify-write of an object that others write as well.          *)
(*                                                                         *)
(* The Node's resourceVersion is modelled as in JobRestartLedger: current  *)
(* holds the controllers whose copy still carries it.                      *)
(***************************************************************************)
EXTENDS Integers

CONSTANTS
    Nodes, Controllers, Nobody,
    Steps,         \* attempts of retry.DefaultRetry
    MaxFindings,   \* bound: failed checks and preflight verdicts, per node
    MaxWrites,     \* bound: writes of others to a node
    MaxFaults,     \* bound: failed requests and restarts of an agent
    MaxTakeovers   \* bound: changes of leader

ASSUME QuarantineAssumption ==
    /\ Nodes # {} /\ Nobody \notin Controllers
    /\ Steps \in Nat \ {0}
    /\ {MaxFindings, MaxWrites, MaxFaults, MaxTakeovers} \subseteq Nat

VARIABLES
    node,       \* the Node objects: cordoned, tainted, and a taint of another owner
    current,    \* the controllers whose copy has the resourceVersion
    agent,      \* per node: what its detector does
    outbox,     \* nodes with an event in the detector's channel
    recording,  \* nodes whose event the detector's other goroutine is recording
    events,     \* nodes with an Event in the cluster that is not too old
    reports,    \* nodes named slow by reports in the cluster
    leader,
    todo,       \* what the leader has to deal with: <<source, node>>
    call,       \* what each controller is doing
    intended,   \* history: the other owner's taint, as it was set last
    findings,   \* history: findings against a node
    cordons,    \* history: how often the controllers cordoned it
    found,      \* history: nodes with a finding and not seen unschedulable since
    lost,       \* history: nodes with a finding that need not be answered
    writes, faults, takeovers

objects == <<node, current, intended, cordons>>
agents == <<agent, outbox, recording>>
sources == <<events, reports>>
controllers == <<leader, todo, call>>
history == <<found, lost>>
counters == <<writes, faults, takeovers>>
vars == <<objects, agents, sources, controllers, findings, history, counters>>

Call == [pc : {"idle", "node", "get", "update"}, node : Nodes, attempt : 1 .. Steps,
         seen : BOOLEAN]
Idle == [pc |-> "idle", node |-> CHOOSE n \in Nodes : TRUE, attempt |-> 1, seen |-> FALSE]

Init ==
    /\ node = [n \in Nodes |-> [cordoned |-> FALSE, tainted |-> FALSE, other |-> FALSE]]
    /\ current = {}
    /\ agent = [n \in Nodes |-> "waiting"]
    /\ outbox = {} /\ recording = {} /\ events = {} /\ reports = {}
    /\ leader \in Controllers /\ todo = {}
    /\ call = [c \in Controllers |-> Idle]
    /\ intended = [n \in Nodes |-> FALSE]
    /\ findings = [n \in Nodes |-> 0] /\ cordons = [n \in Nodes |-> 0]
    /\ found = {} /\ lost = {}
    /\ writes = 0 /\ faults = 0 /\ takeovers = 0

------------------------------------------------------------------------------
(* Findings. *)

Finding(n) ==
    /\ findings[n] < MaxFindings
    /\ findings' = [findings EXCEPT ![n] = @ + 1]
    /\ found' = found \cup {n}
    /\ UNCHANGED lost

GiveUp(n) == lost' = lost \cup (found \cap {n}) /\ UNCHANGED found
Fault == faults < MaxFaults /\ faults' = faults + 1 /\ UNCHANGED <<writes, takeovers>>

\* day2Check on a node whose check fails; one that passes changes nothing.
CheckFails(n) ==
    /\ agent[n] = "waiting"
    /\ Finding(n)
    /\ agent' = [agent EXCEPT ![n] = "send"]
    /\ UNCHANGED <<objects, outbox, recording, sources, controllers, counters>>

\* The channel holds one event.
SendEvent(n) ==
    /\ agent[n] = "send" /\ n \notin outbox
    /\ outbox' = outbox \cup {n}
    /\ agent' = [agent EXCEPT ![n] = "waiting"]
    /\ UNCHANGED <<objects, recording, sources, controllers, findings, history, counters>>

ReceiveEvent(n) ==
    /\ n \in outbox \ recording
    /\ outbox' = outbox \ {n}
    /\ recording' = recording \cup {n}
    /\ UNCHANGED <<objects, agent, sources, controllers, findings, history, counters>>

Todo(source, n) == IF leader = Nobody THEN todo ELSE todo \cup {<<source, n>>}

\* The Event is created, and forwarded to the leader if there is one.
RecordEvent(n) ==
    /\ n \in recording
    /\ recording' = recording \ {n}
    /\ events' = events \cup {n}
    /\ todo' = Todo("event", n)
    /\ UNCHANGED <<objects, agent, outbox, reports, leader, call, findings, history, counters>>

RecordEventFails(n) ==
    /\ Fault
    /\ n \in recording
    /\ recording' = recording \ {n}
    /\ GiveUp(n)
    /\ UNCHANGED <<objects, agent, outbox, sources, controllers, findings>>

AgentRestarts(n) ==
    /\ Fault
    /\ agent' = [agent EXCEPT ![n] = "waiting"]
    /\ outbox' = outbox \ {n} /\ recording' = recording \ {n}
    /\ GiveUp(n)
    /\ UNCHANGED <<objects, sources, controllers, findings>>

EventExpires(n) ==
    /\ n \in events
    /\ events' = events \ {n}
    /\ UNCHANGED <<objects, agents, reports, controllers, findings, history, counters>>

\* The last report of a workload arrives; its verdict names n.
ReportsComplete(n) ==
    /\ n \notin reports
    /\ Finding(n)
    /\ reports' = reports \cup {n}
    /\ todo' = Todo("verdict", n)
    /\ UNCHANGED <<objects, agents, events, leader, call, counters>>

\* The pods that own the reports are deleted, and the reports with them.
ReportsDeleted(n) ==
    /\ n \in reports
    /\ reports' = reports \ {n}
    /\ UNCHANGED <<objects, agents, events, controllers, findings, history, counters>>

------------------------------------------------------------------------------
(* The Node objects and those who write them besides kcover. *)

StaleCopies(n) == {c \in current : call[c].node = n}

OthersWrite(n) ==
    /\ writes < MaxWrites /\ writes' = writes + 1
    /\ current' = current \ StaleCopies(n)
    /\ UNCHANGED <<cordons, agents, sources, controllers, findings, history, faults, takeovers>>

\* kubectl uncordon; the node lifecycle controller takes the taint away.
Uncordon(n) ==
    /\ OthersWrite(n)
    /\ node' = [node EXCEPT ![n].cordoned = FALSE, ![n].tainted = FALSE]
    /\ UNCHANGED intended

\* Another owner sets or removes its own taint.
OtherTaint(n) ==
    /\ OthersWrite(n)
    /\ intended' = [intended EXCEPT ![n] = ~@]
    /\ node' = [node EXCEPT ![n].other = intended'[n]]

------------------------------------------------------------------------------
(* The controller: onNodeError and onPreflightReport, one thing at a time. *)

At(c, pc, n) == call' = [call EXCEPT ![c] = [Idle EXCEPT !.pc = pc, !.node = n]]
Done(c) == call' = [call EXCEPT ![c] = Idle] /\ current' = current \ {c}

TakeEventAgain(c, n) ==                                              \* mutant
    /\ leader = c /\ call[c].pc = "idle"
    /\ <<"event", n>> \in todo
    /\ At(c, "node", n)
    /\ UNCHANGED <<objects, agents, sources, leader, todo, findings, history, counters>>

TakeEvent(c, n) ==
    /\ leader = c /\ call[c].pc = "idle"
    /\ <<"event", n>> \in todo
    /\ todo' = todo \ {<<"event", n>>}
    /\ At(c, "node", n)
    /\ UNCHANGED <<objects, agents, sources, leader, findings, history, counters>>

TakeVerdict(c, n) ==
    /\ leader = c /\ call[c].pc = "idle"
    /\ <<"verdict", n>> \in todo
    /\ todo' = todo \ {<<"verdict", n>>}
    /\ At(c, "get", n)
    /\ UNCHANGED <<objects, agents, sources, leader, findings, history, counters>>

\* onNodeError reads the Node; whatever it finds, a day2 event ends in
\* ensureNodeUnschedulable.
GetNode(c) ==
    /\ leader = c /\ call[c].pc = "node"
    /\ call' = [call EXCEPT ![c].pc = "get"]
    /\ UNCHANGED <<objects, agents, sources, leader, todo, findings, history, counters>>

\* TaintNodeUnschedulable: nothing to change.
GetMarked(c) ==
    LET n == call[c].node IN
    /\ leader = c /\ call[c].pc = "get"
    /\ node[n].cordoned /\ node[n].tainted
    /\ Done(c)
    /\ found' = found \ {n} /\ lost' = lost \ {n}
    /\ UNCHANGED <<node, intended, cordons, agents, sources, leader, todo, findings, counters>>

\* What the copy has of the other owner goes back with the update.
GetUnmarked(c) ==
    LET n == call[c].node IN
    /\ leader = c /\ call[c].pc = "get"
    /\ ~(node[n].cordoned /\ node[n].tainted)
    /\ call' = [call EXCEPT ![c].pc = "update", ![c].seen = node[n].other]
    /\ current' = current \cup {c}
    /\ UNCHANGED <<node, intended, cordons, agents, sources, leader, todo, findings, history, counters>>

AcceptsUpdate(c) == c \in current

\* The server applies the update, be its answer lost or its caller deposed
\* meanwhile; the controller does nothing with the answer.
Update(c) ==
    LET n == call[c].node IN
    /\ call[c].pc = "update"
    /\ AcceptsUpdate(c)
    /\ node' = [node EXCEPT ![n] = [cordoned |-> TRUE, tainted |-> TRUE, other |-> call[c].seen]]
    /\ cordons' = IF node[n].cordoned THEN cordons ELSE [cordons EXCEPT ![n] = @ + 1]
    /\ call' = [call EXCEPT ![c] = Idle]
    /\ current' = current \ StaleCopies(n)
    /\ found' = found \ {n} /\ lost' = lost \ {n}
    /\ UNCHANGED <<intended, agents, sources, leader, todo, findings, counters>>

RetryOnceMore(c) == call[c].attempt <= Steps                         \* mutant
MayRetry(c) == call[c].attempt < Steps

\* The copy is sent again under the new resourceVersion.
ConflictRebased(c) ==                                                \* mutant
    /\ leader = c /\ call[c].pc = "update"
    /\ ~AcceptsUpdate(c)
    /\ MayRetry(c)
    /\ current' = current \cup {c}
    /\ call' = [call EXCEPT ![c].attempt = @ + 1]
    /\ UNCHANGED <<node, intended, cordons, agents, sources, leader, todo, findings, history, counters>>

ConflictRetried(c) ==
    /\ leader = c /\ call[c].pc = "update"
    /\ ~AcceptsUpdate(c)
    /\ MayRetry(c)
    /\ call' = [call EXCEPT ![c].pc = "get", ![c].attempt = @ + 1, ![c].seen = FALSE]
    /\ UNCHANGED <<objects, agents, sources, leader, todo, findings, history, counters>>

\* The conflict is returned, logged, and that is all.
ConflictReturned(c) ==
    /\ leader = c /\ call[c].pc = "update"
    /\ ~AcceptsUpdate(c)
    /\ ~MayRetry(c)
    /\ Done(c)
    /\ GiveUp(call[c].node)
    /\ UNCHANGED <<node, intended, cordons, agents, sources, leader, todo, findings, counters>>

RequestFails(c) ==
    /\ Fault
    /\ leader = c /\ call[c].pc # "idle"
    /\ Done(c)
    /\ GiveUp(call[c].node)
    /\ UNCHANGED <<node, intended, cordons, agents, sources, leader, todo, findings>>

\* The context of a deposed leader's call is cancelled.
Cancelled(c) ==
    /\ leader # c /\ call[c].pc # "idle"
    /\ Done(c)
    /\ UNCHANGED <<node, intended, cordons, agents, sources, leader, todo, findings, history, counters>>

------------------------------------------------------------------------------
(* Changes of leader. *)

LeaderLost ==
    /\ leader # Nobody /\ takeovers < MaxTakeovers
    /\ takeovers' = takeovers + 1
    /\ leader' = Nobody
    /\ todo' = {}
    /\ UNCHANGED <<objects, agents, sources, call, findings, history, writes, faults>>

\* Nothing in the cluster, nor on its way there, tells the new leader of n.
Forgotten(n) ==
    /\ n \notin events \cup reports \cup outbox \cup recording
    /\ agent[n] = "waiting"

EventsOnly == {"event"} \X events                                    \* mutant
\* The initial lists of the transport's and of the report watcher's informer.
Replayed == ({"event"} \X events) \cup ({"verdict"} \X reports)

TakeOver(c) ==
    /\ leader = Nobody /\ call[c].pc = "idle"
    /\ leader' = c
    /\ todo' = Replayed
    /\ lost' = lost \cup {n \in found : Forgotten(n)}
    /\ UNCHANGED <<objects, agents, sources, call, findings, found, counters>>

------------------------------------------------------------------------------
Agent(n) == SendEvent(n) \/ ReceiveEvent(n) \/ RecordEvent(n)
Take(c, n) == TakeEvent(c, n) \/ TakeVerdict(c, n)

Step(c) ==
    \/ GetNode(c) \/ GetMarked(c) \/ GetUnmarked(c)
    \/ Update(c) \/ ConflictRetried(c) \/ ConflictReturned(c) \/ Cancelled(c)

Environment(n) ==
    \/ CheckFails(n) \/ ReportsComplete(n) \/ EventExpires(n) \/ ReportsDeleted(n)
    \/ RecordEventFails(n) \/ AgentRestarts(n)
    \/ Uncordon(n) \/ OtherTaint(n)

Next ==
    \/ \E n \in Nodes : Agent(n) \/ Environment(n)
    \/ \E c \in Controllers : Step(c) \/ RequestFails(c) \/ TakeOver(c)
    \/ \E c \in Controllers, n \in Nodes : Take(c, n)
    \/ LeaderLost

Spec == Init /\ [][Next]_vars

\* Goroutines are scheduled, the loop of the leader takes what there is in turn,
\* and a free lease is taken.
FairSpec ==
    /\ Spec
    /\ \A n \in Nodes : WF_vars(SendEvent(n)) /\ WF_vars(ReceiveEvent(n)) /\ WF_vars(RecordEvent(n))
    /\ \A n \in Nodes : SF_vars(\E c \in Controllers : Take(c, n))
    /\ \A c \in Controllers : WF_vars(Step(c))
    /\ WF_vars(\E c \in Controllers : TakeOver(c))

------------------------------------------------------------------------------
(* Correctness. *)

\* The type invariant.
TypeOK ==
    /\ node \in [Nodes -> [cordoned : BOOLEAN, tainted : BOOLEAN, other : BOOLEAN]]
    /\ current \subseteq Controllers
    /\ agent \in [Nodes -> {"waiting", "send"}]
    /\ outbox \subseteq Nodes /\ recording \subseteq Nodes
    /\ events \subseteq Nodes /\ reports \subseteq Nodes
    /\ leader \in Controllers \cup {Nobody}
    /\ todo \subseteq {"event", "verdict"} \X Nodes
    /\ call \in [Controllers -> Call]
    /\ intended \in [Nodes -> BOOLEAN]
    /\ findings \in [Nodes -> 0 .. MaxFindings] /\ cordons \in [Nodes -> Nat]
    /\ found \subseteq Nodes /\ lost \subseteq Nodes
    /\ writes \in 0 .. MaxWrites /\ faults \in 0 .. MaxFaults
    /\ takeovers \in 0 .. MaxTakeovers

\* Marking a node never undoes what another owner did to its taints meanwhile,
\* nor does the update of a deposed leader (TaintNodeUnschedulable 53-75).
OtherOwnersTaintKept == \A n \in Nodes : node[n].other = intended[n]

\* A finding takes its node out of scheduling at most once: a node that was
\* uncordoned stays so until there is a new finding.  A change of leader can
\* repeat no more than one Event and one verdict, whatever the deposed leader had
\* under way (onNodeError 162-181, onPreflightReport 227-261).
CordonedOncePerFinding == \A n \in Nodes : cordons[n] <= findings[n] + 2 * takeovers

\* A node with a finding is marked, or seen to be marked already, unless a
\* request failed, the last attempt met a conflict, the agent restarted, or the
\* leader changed and neither Event nor report is left.
FindingAnswered == \A n \in Nodes : (n \in found) ~> (n \notin found \/ n \in lost)

\* Marking a node is as good as atomic: it keeps whatever the Node has when it takes
\* effect, be it by the update of a deposed leader, and a node is cordoned no more
\* often than findings and changes of leader give cause to (TaintNodeUnschedulable
\* 53-75, onNodeError 162-181, onPreflightReport 227-261).
Due == [n \in Nodes |-> findings[n] + 2 * takeovers - cordons[n]]
Marking == INSTANCE NodeMarking WITH due <- Due
MarkingSpec == Marking!Spec
==============================================================================
