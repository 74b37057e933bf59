------------------------ MODULE NodeQuarantineProofs ------------------------
(***************************************************************************)
(* Marking a node never undoes another owner's change, for any number of   *)
(* nodes and processes.  The invariant beside it: the copy a process holds *)
(* shows the other owner's taint as it is, as long as the copy carries the *)
(* Node's resourceVersion.                                                 *)
(*                                                                         *)
(* And a node is cordoned at most once per finding, but for what a change  *)
(* of leader repeats.  The invariant beside it counts what is under way: a *)
(* finding buys one cordon, which waits at the agent, in the leader's      *)
(* queue, or in a controller's call, and is nowhere else by then.          *)
(*                                                                         *)
(* The two together make the read-modify-write an implementation of        *)
(* NodeMarking: the update that is accepted has the Node as it is, and     *)
(* there is cause to cordon it.                                            *)
(***************************************************************************)
EXTENDS NodeQuarantine, FiniteSetTheorems, TLAPS

CopiesCurrent ==
    \A c \in current : call[c].pc = "update" => call[c].seen = node[call[c].node].other

\* The part of TypeOK that the argument rests on.
Shapes ==
    /\ node \in [Nodes -> [cordoned : BOOLEAN, tainted : BOOLEAN, other : BOOLEAN]]
    /\ current \subseteq Controllers
    /\ call \in [Controllers -> Call]
    /\ intended \in [Nodes -> BOOLEAN]

IInv == Shapes /\ CopiesCurrent /\ OtherOwnersTaintKept

LEMMA IdleIsCall == Idle \in Call
  BY QuarantineAssumption DEF Idle, Call, QuarantineAssumption

LEMMA InitInv == Init => IInv
  <1> SUFFICES ASSUME Init PROVE IInv
    OBVIOUS
  <1>1. node = [n \in Nodes |-> [cordoned |-> FALSE, tainted |-> FALSE, other |-> FALSE]]
        /\ intended = [n \in Nodes |-> FALSE]
    BY DEF Init
  <1>2. Shapes /\ CopiesCurrent
    BY IdleIsCall DEF Init, Shapes, CopiesCurrent
  <1>3. OtherOwnersTaintKept
    BY <1>1 DEF OtherOwnersTaintKept
  <1> QED
    BY <1>2, <1>3 DEF IInv

\* A step that writes no Node and leaves the resourceVersions alone: a call that
\* is at an update afterwards was there before, with the same copy.
LEMMA Quiet ==
    ASSUME IInv, UNCHANGED <<node, intended>>, current' \subseteq current,
           call' \in [Controllers -> Call],
           \A c \in current' : call'[c].pc = "update" => call'[c] = call[c]
    PROVE  IInv'
  BY DEF IInv, Shapes, CopiesCurrent, OtherOwnersTaintKept

LEMMA Agents ==
    ASSUME IInv, NEW n \in Nodes, Agent(n) PROVE IInv'
  BY Quiet DEF Agent, SendEvent, ReceiveEvent, RecordEvent, objects, controllers, IInv, Shapes

LEMMA Others ==
    ASSUME IInv, NEW n \in Nodes, Environment(n) PROVE IInv'
  <1>1. CASE UNCHANGED <<node, current, intended, call>>
    BY <1>1, Quiet DEF IInv, Shapes
  <1>2. CASE Uncordon(n) \/ OtherTaint(n)
    <2>1. /\ current' = current \ StaleCopies(n) /\ call' = call
          /\ \A c \in current' : call[c].node \in Nodes \ {n}
      BY <1>2 DEF Uncordon, OtherTaint, OthersWrite, controllers, StaleCopies, IInv, Shapes, Call
    <2>2. \A m \in Nodes \ {n} : node'[m] = node[m] /\ intended'[m] = intended[m]
      BY <1>2 DEF Uncordon, OtherTaint, IInv, Shapes
    <2>3. node'[n].other = intended'[n]
      BY <1>2 DEF Uncordon, OtherTaint, IInv, Shapes, OtherOwnersTaintKept
    <2>4. node' \in [Nodes -> [cordoned : BOOLEAN, tainted : BOOLEAN, other : BOOLEAN]]
          /\ intended' \in [Nodes -> BOOLEAN]
      BY <1>2 DEF Uncordon, OtherTaint, IInv, Shapes
    <2> QED
      BY <2>1, <2>2, <2>3, <2>4 DEF IInv, Shapes, CopiesCurrent, OtherOwnersTaintKept
  <1> QED
    BY <1>1, <1>2 DEF Environment, CheckFails, ReportsComplete, EventExpires, ReportsDeleted,
       RecordEventFails, AgentRestarts, objects, controllers

LEMMA Takes ==
    ASSUME IInv, NEW c \in Controllers, NEW n \in Nodes, Take(c, n) PROVE IInv'
  <1>1. PICK pc \in {"node", "get"} : At(c, pc, n)
    BY DEF Take, TakeEvent, TakeVerdict
  <1>2. call' \in [Controllers -> Call]
        /\ \A d \in Controllers : call'[d].pc = "update" => call'[d] = call[d]
    BY <1>1, IdleIsCall, QuarantineAssumption DEF At, IInv, Shapes, Call, Idle
  <1>3. UNCHANGED objects
    BY DEF Take, TakeEvent, TakeVerdict
  <1> QED
    BY <1>2, <1>3, Quiet DEF objects, IInv, Shapes

\* The update of a current copy writes back what the Node had.
LEMMA Updates ==
    ASSUME IInv, NEW c \in Controllers, Update(c) PROVE IInv'
  <1> DEFINE n == call[c].node
  <1>1. n \in Nodes /\ call[c].seen = node[n].other
    BY DEF Update, AcceptsUpdate, IInv, Shapes, Call, CopiesCurrent
  <1>2. /\ node' = [node EXCEPT ![n] = [cordoned |-> TRUE, tainted |-> TRUE, other |-> node[n].other]]
        /\ intended' = intended
        /\ call' = [call EXCEPT ![c] = Idle] /\ current' = current \ StaleCopies(n)
    BY <1>1 DEF Update
  <1>3. \A m \in Nodes : node'[m].other = node[m].other
    BY <1>1, <1>2 DEF IInv, Shapes
  <1>4. Shapes'
    BY <1>1, <1>2, IdleIsCall, QuarantineAssumption DEF IInv, Shapes, Call
  <1>5. \A d \in current' : call'[d].pc = "update" => call'[d] = call[d]
    BY <1>2 DEF Idle, IInv, Shapes
  <1>6. CopiesCurrent'
    BY <1>2, <1>3, <1>5 DEF IInv, Shapes, CopiesCurrent, Call
  <1> QED
    BY <1>2, <1>3, <1>4, <1>6 DEF IInv, OtherOwnersTaintKept

LEMMA ControllerSteps ==
    ASSUME IInv, NEW c \in Controllers, Step(c) \/ RequestFails(c) PROVE IInv'
  <1>1. CASE Update(c)
    BY <1>1, Updates
  <1>2. CASE GetNode(c) \/ ConflictRetried(c)
    <2>1. call' \in [Controllers -> Call]
          /\ \A d \in Controllers : call'[d].pc = "update" => call'[d] = call[d]
      BY <1>2, QuarantineAssumption DEF GetNode, ConflictRetried, MayRetry, IInv, Shapes, Call
    <2> QED
      BY <1>2, <2>1, Quiet DEF GetNode, ConflictRetried, objects, IInv, Shapes
  <1>3. CASE GetUnmarked(c)
    <2> DEFINE n == call[c].node
    <2>1. n \in Nodes /\ UNCHANGED <<node, intended>> /\ current' = current \cup {c}
          /\ call' = [call EXCEPT ![c].pc = "update", ![c].seen = node[n].other]
      BY <1>3 DEF GetUnmarked, IInv, Shapes, Call
    <2>2. Shapes'
      BY <2>1 DEF IInv, Shapes, Call
    <2>3. CopiesCurrent'
      BY <2>1 DEF IInv, Shapes, Call, CopiesCurrent
    <2> QED
      BY <2>1, <2>2, <2>3 DEF IInv, OtherOwnersTaintKept
  <1>4. CASE Done(c) /\ UNCHANGED <<node, intended>>
    <2>1. call' \in [Controllers -> Call]
          /\ \A d \in Controllers : call'[d].pc = "update" => call'[d] = call[d]
      BY <1>4, IdleIsCall, QuarantineAssumption DEF Done, IInv, Shapes, Idle
    <2> QED
      BY <1>4, <2>1, Quiet DEF Done, IInv, Shapes
  <1> QED
    BY <1>1, <1>2, <1>3, <1>4 DEF Step, RequestFails, GetMarked, ConflictReturned, Cancelled

LEMMA Inductive == IInv /\ [Next]_vars => IInv'
  <1> SUFFICES ASSUME IInv, [Next]_vars PROVE IInv'
    OBVIOUS
  <1>1. CASE LeaderLost \/ (\E c \in Controllers : TakeOver(c)) \/ UNCHANGED vars
    <2>1. UNCHANGED <<node, current, intended, call>>
      BY <1>1 DEF LeaderLost, TakeOver, vars, objects, controllers
    <2> QED
      BY <2>1, Quiet DEF IInv, Shapes
  <1> QED
    BY <1>1, Agents, Others, ControllerSteps, Takes DEF Next

\* A deposed leader's late update included, marking a node keeps what another
\* owner did to its taints (TaintNodeUnschedulable 53-75).
THEOREM OthersTaintKept == Spec => []OtherOwnersTaintKept
  <1>1. IInv => OtherOwnersTaintKept
    BY DEF IInv
  <1> QED
    BY <1>1, InitInv, Inductive, PTL DEF Spec

------------------------------------------------------------------------------
(* One cordon per finding. *)

One(b) == IF b THEN 1 ELSE 0

AtAgent(n) == One(agent[n] = "send") + One(n \in outbox) + One(n \in recording)
Queued(n) == One(<<"event", n>> \in todo) + One(<<"verdict", n>> \in todo)

\* The controllers, deposed ones included, that may still cordon n.
Callers(n) == {c \in Controllers : call[c].pc # "idle" /\ call[c].node = n}

\* What the next leader may find in the cluster was paid for by the change.
Reserved == IF leader = Nobody THEN 2 ELSE 0

Allowed(n) == findings[n] + 2 * takeovers

Budget ==
    \A n \in Nodes : /\ IsFiniteSet(Callers(n))
                     /\ cordons[n] + AtAgent(n) + Queued(n) + Cardinality(Callers(n)) + Reserved
                            <= Allowed(n)

CInv == TypeOK /\ Budget

LEMMA CountInit == Init => CInv
  <1> SUFFICES ASSUME Init PROVE CInv
    OBVIOUS
  <1>1. TypeOK
    BY IdleIsCall, QuarantineAssumption DEF Init, TypeOK, QuarantineAssumption
  <1>2. \A n \in Nodes : Callers(n) = {}
    BY DEF Init, Callers, Idle
  <1>3. Reserved = 0
    BY QuarantineAssumption DEF Init, Reserved, QuarantineAssumption
  <1>4. \A n \in Nodes : AtAgent(n) = 0 /\ Queued(n) = 0
    <2> SUFFICES ASSUME NEW n \in Nodes PROVE AtAgent(n) = 0 /\ Queued(n) = 0
      OBVIOUS
    <2>1. agent[n] = "waiting" /\ outbox = {} /\ recording = {} /\ todo = {}
      BY Zenon DEF Init
    <2>2. agent[n] # "send"
      BY <2>1
    <2> QED
      BY <2>1, <2>2 DEF AtAgent, Queued, One
  <1>5. \A n \in Nodes : cordons[n] = 0 /\ Allowed(n) = 0
    <2> SUFFICES ASSUME NEW n \in Nodes PROVE cordons[n] = 0 /\ Allowed(n) = 0
      OBVIOUS
    <2>1. cordons[n] = 0 /\ findings[n] = 0 /\ takeovers = 0
      BY Zenon DEF Init
    <2> QED
      BY <2>1 DEF Allowed
  <1>6. \A n \in Nodes : IsFiniteSet(Callers(n)) /\ Cardinality(Callers(n)) = 0
    BY <1>2, FS_EmptySet, Zenon
  <1>7. Budget
    <2> SUFFICES ASSUME NEW n \in Nodes
                 PROVE  cordons[n] + AtAgent(n) + Queued(n) + Cardinality(Callers(n)) + Reserved
                            <= Allowed(n)
      BY <1>6 DEF Budget
    <2> QED
      BY <1>3, <1>4, <1>5, <1>6
  <1> QED
    BY <1>1, <1>7 DEF CInv

LEMMA Countable ==
    ASSUME CInv, NEW n \in Nodes
    PROVE  /\ cordons[n] \in Nat /\ findings[n] \in Nat /\ takeovers \in Nat
           /\ Cardinality(Callers(n)) \in Nat
           /\ AtAgent(n) \in Nat /\ Queued(n) \in 0 .. 2 /\ Reserved \in {0, 2}
  <1>1. Cardinality(Callers(n)) \in Nat
    BY FS_CardinalityType DEF CInv, Budget
  <1> QED
    BY <1>1, QuarantineAssumption
       DEF CInv, TypeOK, AtAgent, Queued, Reserved, One, QuarantineAssumption

\* A step that leaves the calls alone is within the budget if what it adds at the
\* agent and in the queue is no more than what it pays in.
LEMMA CallsAlone ==
    ASSUME CInv, TypeOK', UNCHANGED <<call, cordons>>,
           \A n \in Nodes : AtAgent(n)' + Queued(n)' + Reserved' + Allowed(n)
                                <= AtAgent(n) + Queued(n) + Reserved + Allowed(n)'
    PROVE  CInv'
  <1> SUFFICES ASSUME NEW n \in Nodes
               PROVE  /\ IsFiniteSet(Callers(n)')
                      /\ cordons'[n] + AtAgent(n)' + Queued(n)' + Cardinality(Callers(n)') + Reserved'
                             <= Allowed(n)'
    BY DEF CInv, Budget
  <1>1. Callers(n)' = Callers(n)
    BY DEF Callers
  <1>2. /\ IsFiniteSet(Callers(n))
        /\ cordons[n] + AtAgent(n) + Queued(n) + Cardinality(Callers(n)) + Reserved <= Allowed(n)
    BY DEF CInv, Budget
  <1>3. /\ AtAgent(n)' \in Nat /\ Queued(n)' \in Nat /\ Reserved' \in Nat
        /\ Allowed(n) \in Nat /\ Allowed(n)' \in Nat
    BY QuarantineAssumption
       DEF CInv, TypeOK, AtAgent, Queued, Reserved, Allowed, One, QuarantineAssumption
  <1> QED
    BY <1>1, <1>2, <1>3, Countable

LEMMA CountAgents ==
    ASSUME CInv, NEW n \in Nodes, Agent(n) PROVE CInv'
  <1>1. TypeOK'
    BY DEF CInv, TypeOK, Agent, SendEvent, ReceiveEvent, RecordEvent, Todo, objects, sources,
       controllers, history, counters
  <1>2. UNCHANGED <<call, cordons, findings, takeovers, leader>>
    BY DEF Agent, SendEvent, ReceiveEvent, RecordEvent, objects, controllers, counters
  <1>3. \A m \in Nodes : AtAgent(m)' + Queued(m)' <= AtAgent(m) + Queued(m)
    <2> SUFFICES ASSUME NEW m \in Nodes PROVE AtAgent(m)' + Queued(m)' <= AtAgent(m) + Queued(m)
      OBVIOUS
    <2>1. CASE SendEvent(n)
      BY <2>1 DEF SendEvent, AtAgent, Queued, One, controllers, CInv, TypeOK
    <2>2. CASE ReceiveEvent(n)
      BY <2>2 DEF ReceiveEvent, AtAgent, Queued, One, controllers, CInv, TypeOK
    <2>3. CASE RecordEvent(n)
      BY <2>3 DEF RecordEvent, Todo, AtAgent, Queued, One, CInv, TypeOK
    <2> QED
      BY <2>1, <2>2, <2>3 DEF Agent
  <1>4. \A m \in Nodes : Reserved' = Reserved /\ Allowed(m)' = Allowed(m)
    BY <1>2 DEF Reserved, Allowed
  <1>5. \A m \in Nodes : /\ AtAgent(m)' \in Nat /\ Queued(m)' \in Nat
                         /\ Allowed(m) \in Nat
    BY QuarantineAssumption
       DEF CInv, TypeOK, AtAgent, Queued, Allowed, One, QuarantineAssumption
  <1> QED
    BY <1>1, <1>2, <1>3, <1>4, <1>5, CallsAlone, Countable

LEMMA CountOthers ==
    ASSUME CInv, NEW n \in Nodes, Environment(n) PROVE CInv'
  <1>1. TypeOK'
    <2>1. CASE CheckFails(n) \/ ReportsComplete(n)
      <3>1. /\ findings' = [findings EXCEPT ![n] = @ + 1] /\ findings[n] < MaxFindings
            /\ found' = found \cup {n} /\ lost' = lost
        BY <2>1 DEF CheckFails, ReportsComplete, Finding
      <3>2. findings' \in [Nodes -> 0 .. MaxFindings]
        BY <3>1, QuarantineAssumption DEF CInv, TypeOK, QuarantineAssumption
      <3>3. CASE CheckFails(n)
        BY <3>1, <3>2, <3>3 DEF CInv, TypeOK, CheckFails, objects, sources, controllers, counters
      <3>4. CASE ReportsComplete(n)
        BY <3>1, <3>2, <3>4 DEF CInv, TypeOK, ReportsComplete, Todo, objects, agents, counters
      <3> QED
        BY <2>1, <3>3, <3>4
    <2>2. CASE EventExpires(n) \/ ReportsDeleted(n)
      BY <2>2 DEF CInv, TypeOK, EventExpires, ReportsDeleted, objects, agents, controllers,
         history, counters
    <2>3. CASE RecordEventFails(n) \/ AgentRestarts(n)
      BY <2>3, QuarantineAssumption
         DEF CInv, TypeOK, RecordEventFails, AgentRestarts, Fault, GiveUp, objects, sources,
         controllers, QuarantineAssumption
    <2>4. CASE Uncordon(n) \/ OtherTaint(n)
      <3>1. node' \in [Nodes -> [cordoned : BOOLEAN, tainted : BOOLEAN, other : BOOLEAN]]
            /\ intended' \in [Nodes -> BOOLEAN]
        <4>1. CASE Uncordon(n)
          BY <4>1 DEF CInv, TypeOK, Uncordon
        <4>2. CASE OtherTaint(n)
          <5>1. intended' \in [Nodes -> BOOLEAN]
            BY <4>2 DEF CInv, TypeOK, OtherTaint
          <5>2. node' = [node EXCEPT ![n].other = intended'[n]] /\ intended'[n] \in BOOLEAN
            BY <4>2, <5>1 DEF OtherTaint
          <5> QED
            BY <5>1, <5>2 DEF CInv, TypeOK
        <4> QED
          BY <2>4, <4>1, <4>2
      <3>2. OthersWrite(n)
        BY <2>4 DEF Uncordon, OtherTaint
      <3>3. writes' \in 0 .. MaxWrites /\ current' \subseteq Controllers
        BY <3>2, QuarantineAssumption DEF CInv, TypeOK, OthersWrite, QuarantineAssumption
      <3> QED
        BY <3>1, <3>2, <3>3
           DEF CInv, TypeOK, OthersWrite, agents, sources, controllers, history
    <2> QED
      BY <2>1, <2>2, <2>3, <2>4 DEF Environment
  <1>2. UNCHANGED <<call, cordons, takeovers, leader>>
    BY DEF Environment, CheckFails, ReportsComplete, EventExpires, ReportsDeleted,
       RecordEventFails, AgentRestarts, Uncordon, OtherTaint, OthersWrite, Fault, objects,
       controllers, counters
  <1>3. Reserved' = Reserved
    BY <1>2 DEF Reserved
  <1>4. \A m \in Nodes : AtAgent(m)' + Queued(m)' + findings[m] <= AtAgent(m) + Queued(m) + findings'[m]
    <2> SUFFICES ASSUME NEW m \in Nodes
                 PROVE  AtAgent(m)' + Queued(m)' + findings[m] <= AtAgent(m) + Queued(m) + findings'[m]
      OBVIOUS
    <2>1. CASE CheckFails(n)
      BY <2>1 DEF CheckFails, Finding, AtAgent, Queued, One, controllers, CInv, TypeOK
    <2>2. CASE ReportsComplete(n)
      BY <2>2 DEF ReportsComplete, Finding, Todo, AtAgent, Queued, One, agents, CInv, TypeOK
    <2>3. CASE RecordEventFails(n) \/ AgentRestarts(n)
      BY <2>3 DEF RecordEventFails, AgentRestarts, AtAgent, Queued, One, controllers, CInv, TypeOK
    <2>4. CASE UNCHANGED <<agents, controllers, findings>>
      BY <2>4 DEF agents, controllers, AtAgent, Queued, One, CInv, TypeOK
    <2> QED
      BY <2>1, <2>2, <2>3, <2>4 DEF Environment, EventExpires, ReportsDeleted, Uncordon,
         OtherTaint, OthersWrite
  <1>5. \A m \in Nodes : /\ AtAgent(m)' \in Nat /\ Queued(m)' \in Nat
                         /\ findings[m] \in Nat /\ findings'[m] \in Nat
    BY <1>1, QuarantineAssumption DEF CInv, TypeOK, AtAgent, Queued, One, QuarantineAssumption
  <1> QED
    BY <1>1, <1>2, <1>3, <1>4, <1>5, CallsAlone, Countable DEF Allowed

LEMMA CountLeaders ==
    ASSUME CInv, LeaderLost \/ \E c \in Controllers : TakeOver(c) PROVE CInv'
  <1>1. UNCHANGED <<call, cordons, findings, agents>>
    BY DEF LeaderLost, TakeOver, objects, controllers
  <1>2. TypeOK'
    BY QuarantineAssumption
       DEF CInv, TypeOK, LeaderLost, TakeOver, Replayed, objects, agents, sources, history,
       counters, QuarantineAssumption
  <1>3. \A n \in Nodes : AtAgent(n)' = AtAgent(n) /\ Queued(n)' \in 0 .. 2 /\ Queued(n) \in 0 .. 2
    BY <1>1 DEF AtAgent, Queued, One, agents
  <1>4. CASE LeaderLost
    <2>1. \A n \in Nodes : Queued(n)' = 0
      BY <1>4 DEF LeaderLost, Queued, One
    <2>2. Reserved = 0 /\ Reserved' = 2 /\ takeovers' = takeovers + 1
      BY <1>4 DEF LeaderLost, Reserved
    <2> QED
      BY <1>1, <1>2, <1>3, <2>1, <2>2, CallsAlone, Countable DEF Allowed
  <1>5. CASE \E c \in Controllers : TakeOver(c)
    <2>1. Reserved = 2 /\ Reserved' = 0 /\ takeovers' = takeovers
      BY <1>5, QuarantineAssumption DEF TakeOver, Reserved, counters, QuarantineAssumption
    <2> QED
      BY <1>1, <1>2, <1>3, <2>1, CallsAlone, Countable DEF Allowed
  <1> QED
    BY <1>4, <1>5

\* What a controller does in the middle of its call costs nothing.
LEMMA CountGoOn ==
    ASSUME CInv, NEW c \in Controllers, GetNode(c) \/ GetUnmarked(c) \/ ConflictRetried(c)
    PROVE  CInv'
  <1>1. TypeOK'
    <2>1. CASE GetNode(c)
      BY <2>1 DEF GetNode, CInv, TypeOK, Call, objects, agents, sources, history, counters
    <2>2. CASE GetUnmarked(c)
      <3>1. call[c].node \in Nodes
        BY DEF CInv, TypeOK, Call
      <3>2. call' \in [Controllers -> Call]
        BY <2>2, <3>1 DEF GetUnmarked, CInv, TypeOK, Call
      <3> QED
        BY <2>2, <3>2 DEF GetUnmarked, CInv, TypeOK, agents, sources, history, counters
    <2>3. CASE ConflictRetried(c)
      <3>1. call' \in [Controllers -> Call]
        BY <2>3, QuarantineAssumption
           DEF ConflictRetried, MayRetry, CInv, TypeOK, Call, QuarantineAssumption
      <3> QED
        BY <2>3, <3>1 DEF ConflictRetried, CInv, TypeOK, objects, agents, sources, history, counters
    <2> QED
      BY <2>1, <2>2, <2>3
  <1>2. UNCHANGED <<cordons, findings, takeovers, leader, todo, agents>>
    BY DEF GetNode, GetUnmarked, ConflictRetried, objects, counters
  <1>3. \A d \in Controllers : call'[d].node = call[d].node
                               /\ (call'[d].pc # "idle" <=> call[d].pc # "idle")
    <2>1. \A d \in Controllers \ {c} : call'[d] = call[d]
      BY DEF GetNode, GetUnmarked, ConflictRetried, CInv, TypeOK
    <2>2. call[c].pc # "idle" /\ call'[c].pc # "idle" /\ call'[c].node = call[c].node
      <3>1. CASE GetNode(c)
        BY <3>1 DEF GetNode, CInv, TypeOK, Call
      <3>2. CASE GetUnmarked(c)
        BY <3>2 DEF GetUnmarked, CInv, TypeOK, Call
      <3>3. CASE ConflictRetried(c)
        BY <3>3 DEF ConflictRetried, CInv, TypeOK, Call
      <3> QED
        BY <3>1, <3>2, <3>3
    <2> QED
      BY <2>1, <2>2
  <1>4. \A n \in Nodes : Callers(n)' = Callers(n)
    BY <1>3 DEF Callers
  <1>5. \A n \in Nodes : /\ AtAgent(n)' = AtAgent(n) /\ Queued(n)' = Queued(n)
                         /\ Reserved' = Reserved /\ Allowed(n)' = Allowed(n)
    BY <1>2 DEF AtAgent, Queued, Reserved, Allowed, agents
  <1> QED
    BY <1>1, <1>2, <1>4, <1>5 DEF CInv, Budget

\* A call that ends gives back at least what it took.
LEMMA CountEnds ==
    ASSUME CInv, NEW c \in Controllers,
           GetMarked(c) \/ Update(c) \/ ConflictReturned(c) \/ Cancelled(c) \/ RequestFails(c)
    PROVE  CInv'
  <1> DEFINE n == call[c].node
  <1>1. n \in Nodes /\ call[c].pc # "idle" /\ call' = [call EXCEPT ![c] = Idle]
    BY DEF GetMarked, Update, ConflictReturned, Cancelled, RequestFails, Done, CInv, TypeOK, Call
  <1>2. UNCHANGED <<findings, takeovers, leader, todo, agents>>
    BY DEF GetMarked, Update, ConflictReturned, Cancelled, RequestFails, Fault, objects, counters
  <1>3. /\ cordons' \in [Nodes -> Nat] /\ cordons'[n] <= cordons[n] + 1
        /\ \A m \in Nodes \ {n} : cordons'[m] = cordons[m]
    <2>1. CASE UNCHANGED cordons
      BY <1>1, <2>1 DEF CInv, TypeOK
    <2>2. CASE Update(c)
      BY <1>1, <2>2 DEF Update, CInv, TypeOK
    <2> QED
      BY <2>1, <2>2 DEF GetMarked, ConflictReturned, Cancelled, RequestFails, objects
  <1>4. TypeOK'
    <2>1. call' \in [Controllers -> Call]
      BY <1>1, IdleIsCall DEF CInv, TypeOK
    <2>2. /\ node' \in [Nodes -> [cordoned : BOOLEAN, tainted : BOOLEAN, other : BOOLEAN]]
          /\ current' \subseteq Controllers /\ intended' = intended
      <3>1. CASE Update(c)
        <4>1. call[c].seen \in BOOLEAN
          BY DEF CInv, TypeOK, Call
        <4> QED
          BY <1>1, <3>1, <4>1 DEF Update, CInv, TypeOK
      <3>2. CASE Done(c) /\ UNCHANGED <<node, intended>>
        BY <3>2 DEF Done, CInv, TypeOK
      <3> QED
        BY <3>1, <3>2 DEF GetMarked, ConflictReturned, Cancelled, RequestFails
    <2>3. found' \subseteq Nodes /\ lost' \subseteq Nodes
      BY DEF GetMarked, Update, ConflictReturned, Cancelled, RequestFails, GiveUp, history,
         CInv, TypeOK
    <2>4. faults' \in 0 .. MaxFaults /\ writes' = writes
      BY QuarantineAssumption
         DEF GetMarked, Update, ConflictReturned, Cancelled, RequestFails, Fault, counters,
         CInv, TypeOK, QuarantineAssumption
    <2>5. UNCHANGED sources
      BY DEF GetMarked, Update, ConflictReturned, Cancelled, RequestFails
    <2> QED
      BY <1>2, <1>3, <2>1, <2>2, <2>3, <2>4, <2>5 DEF CInv, TypeOK, agents, sources
  <1>5. \A m \in Nodes : Callers(m)' = Callers(m) \ {c} /\ (m = n <=> c \in Callers(m))
    BY <1>1 DEF Callers, Idle, CInv, TypeOK
  <1>6. \A m \in Nodes : /\ AtAgent(m)' = AtAgent(m) /\ Queued(m)' = Queued(m)
                         /\ Reserved' = Reserved /\ Allowed(m)' = Allowed(m)
    BY <1>2 DEF AtAgent, Queued, Reserved, Allowed, agents
  <1>7. ASSUME NEW m \in Nodes
        PROVE  /\ IsFiniteSet(Callers(m)')
               /\ cordons'[m] + AtAgent(m)' + Queued(m)' + Cardinality(Callers(m)') + Reserved'
                      <= Allowed(m)'
    <2>1. /\ IsFiniteSet(Callers(m))
          /\ cordons[m] + AtAgent(m) + Queued(m) + Cardinality(Callers(m)) + Reserved <= Allowed(m)
      BY <1>7 DEF CInv, Budget
    <2>2. /\ IsFiniteSet(Callers(m)')
          /\ Cardinality(Callers(m)') = IF m = n THEN Cardinality(Callers(m)) - 1
                                                 ELSE Cardinality(Callers(m))
      BY <1>5, <1>7, <2>1, FS_RemoveElement
    <2>3. cordons'[m] \in Nat /\ cordons'[m] <= cordons[m] + (IF m = n THEN 1 ELSE 0)
      BY <1>3, <1>7, Countable
    <2>4. Allowed(m) \in Nat
      BY <1>7, Countable DEF Allowed
    <2> QED
      BY <1>6, <1>7, <2>1, <2>2, <2>3, <2>4, Countable
  <1> QED
    BY <1>4, <1>7 DEF CInv, Budget

\* What the leader takes from its queue it has in its call.
LEMMA CountTakes ==
    ASSUME CInv, NEW c \in Controllers, NEW n \in Nodes, Take(c, n) PROVE CInv'
  <1>1. PICK pc \in {"node", "get"}, source \in {"event", "verdict"} :
            /\ At(c, pc, n) /\ <<source, n>> \in todo /\ todo' = todo \ {<<source, n>>}
    BY DEF Take, TakeEvent, TakeVerdict
  <1>2. /\ call[c].pc = "idle" /\ UNCHANGED <<leader, cordons, findings, takeovers, agents>>
        /\ UNCHANGED <<objects, sources, history, counters>>
    BY DEF Take, TakeEvent, TakeVerdict, objects, counters
  <1>3. call' \in [Controllers -> Call]
    BY <1>1, IdleIsCall DEF At, CInv, TypeOK, Call
  <1>4. TypeOK'
    BY <1>1, <1>2, <1>3 DEF CInv, TypeOK, objects, agents, sources, history, counters
  <1>5. \A d \in Controllers \ {c} : call'[d] = call[d]
    BY <1>1 DEF At, CInv, TypeOK
  <1>6. call'[c].pc = pc /\ call'[c].node = n
    BY <1>1, IdleIsCall DEF At, CInv, TypeOK, Call
  <1>7. /\ Callers(n)' = Callers(n) \cup {c} /\ c \notin Callers(n)
        /\ \A m \in Nodes \ {n} : Callers(m)' = Callers(m)
    BY <1>2, <1>5, <1>6 DEF Callers
  <1>8. Queued(n)' = Queued(n) - 1 /\ \A m \in Nodes \ {n} : Queued(m)' = Queued(m)
    BY <1>1 DEF Queued, One
  <1>9. \A m \in Nodes : /\ AtAgent(m)' = AtAgent(m)
                         /\ Reserved' = Reserved /\ Allowed(m)' = Allowed(m)
    BY <1>2 DEF AtAgent, Reserved, Allowed, agents
  <1>10. ASSUME NEW m \in Nodes
         PROVE  /\ IsFiniteSet(Callers(m)')
                /\ cordons'[m] + AtAgent(m)' + Queued(m)' + Cardinality(Callers(m)') + Reserved'
                       <= Allowed(m)'
    <2>1. /\ IsFiniteSet(Callers(m))
          /\ cordons[m] + AtAgent(m) + Queued(m) + Cardinality(Callers(m)) + Reserved <= Allowed(m)
      BY <1>10 DEF CInv, Budget
    <2>2. CASE m = n
      <3>1. IsFiniteSet(Callers(m)') /\ Cardinality(Callers(m)') = Cardinality(Callers(m)) + 1
        BY <1>7, <2>1, <2>2, FS_AddElement
      <3>2. Queued(m)' = Queued(m) - 1
        BY <1>8, <2>2
      <3>3. Allowed(m) \in Nat
        BY <1>10, Countable DEF Allowed
      <3> QED
        BY <1>2, <1>9, <1>10, <2>1, <3>1, <3>2, <3>3, Countable
    <2>3. CASE m # n
      BY <1>2, <1>7, <1>8, <1>9, <1>10, <2>1, <2>3
    <2> QED
      BY <2>2, <2>3
  <1> QED
    BY <1>4, <1>10 DEF CInv, Budget

LEMMA CountInductive == CInv /\ [Next]_vars => CInv'
  <1> SUFFICES ASSUME CInv, [Next]_vars PROVE CInv'
    OBVIOUS
  <1>1. CASE UNCHANGED vars
    BY <1>1 DEF vars, objects, agents, sources, controllers, history, counters, CInv, TypeOK,
       Budget, AtAgent, Queued, Callers, Reserved, Allowed
  <1>2. ASSUME NEW c \in Controllers, Step(c) \/ RequestFails(c) PROVE CInv'
    BY <1>2, CountGoOn, CountEnds DEF Step
  <1> QED
    BY <1>1, <1>2, CountAgents, CountOthers, CountTakes, CountLeaders DEF Next

LEMMA CountInvariant == Spec => []CInv
  BY CountInit, CountInductive, PTL DEF Spec

\* A finding takes its node out of scheduling at most once; a change of leader
\* repeats no more than one Event and one verdict (onNodeError 162-181,
\* onPreflightReport 227-261).
THEOREM OneCordonPerFinding == Spec => []CordonedOncePerFinding
  <1>1. CInv => CordonedOncePerFinding
    <2> SUFFICES ASSUME CInv, NEW n \in Nodes PROVE cordons[n] <= findings[n] + 2 * takeovers
      BY DEF CordonedOncePerFinding
    <2>1. cordons[n] + AtAgent(n) + Queued(n) + Cardinality(Callers(n)) + Reserved <= Allowed(n)
      BY DEF CInv, Budget
    <2> QED
      BY <2>1, Countable DEF Allowed
  <1> QED
    BY <1>1, CountInvariant, PTL

\* Nodes, copies, queues and calls keep their shape, and attempts stay within
\* those of the retry.
THEOREM QuarantineTypes == Spec => []TypeOK
  <1>1. CInv => TypeOK
    BY DEF CInv
  <1> QED
    BY <1>1, CountInvariant, PTL

------------------------------------------------------------------------------
(* Marking a node is as good as atomic. *)

\* A step that writes no Node, and gives no cause to, is none of the abstract
\* specification.
LEMMA MarkingStutters ==
    ASSUME UNCHANGED <<node, writes, findings, takeovers, cordons>>
    PROVE  UNCHANGED <<node, Due, writes>>
  BY Zenon DEF Due

\* The update that is accepted has the Node as it is, and was paid for.
LEMMA UpdateMarks ==
    ASSUME IInv, CInv, NEW c \in Controllers, Update(c)
    PROVE  \E n \in Nodes : Marking!Mark(n)
  <1> DEFINE n == call[c].node
  <1>1. /\ n \in Nodes /\ node[n] \in [cordoned : BOOLEAN, tainted : BOOLEAN, other : BOOLEAN]
        /\ call[c].pc = "update" /\ call[c].seen = node[n].other
    BY DEF Update, AcceptsUpdate, IInv, Shapes, Call, CopiesCurrent
  <1>2. /\ node' = [node EXCEPT ![n] = [cordoned |-> TRUE, tainted |-> TRUE, other |-> node[n].other]]
        /\ cordons' = IF node[n].cordoned THEN cordons ELSE [cordons EXCEPT ![n] = @ + 1]
        /\ UNCHANGED <<findings, takeovers, writes>>
    BY <1>1 DEF Update, counters
  <1> HIDE DEF n
  <1>3. node' = [node EXCEPT ![n].cordoned = TRUE, ![n].tainted = TRUE]
    BY <1>1, <1>2 DEF IInv, Shapes
  <1>4. Due[n] > 0
    <2>1. c \in Callers(n)
      BY <1>1 DEF Callers, n
    <2>2. IsFiniteSet(Callers(n)) /\ Cardinality(Callers(n)) # 0
      BY <1>1, <2>1, FS_EmptySet DEF CInv, Budget
    <2>3. cordons[n] + AtAgent(n) + Queued(n) + Cardinality(Callers(n)) + Reserved <= Allowed(n)
      BY <1>1 DEF CInv, Budget
    <2> QED
      BY <1>1, <2>2, <2>3, Countable DEF Due, Allowed
  <1>5. \A m \in Nodes : cordons[m] \in Nat /\ findings[m] \in Nat /\ takeovers \in Nat
    BY Countable
  <1>6. Due' = IF node[n].cordoned THEN Due ELSE [Due EXCEPT ![n] = @ - 1]
    BY <1>1, <1>2, <1>5 DEF Due, CInv, TypeOK
  <1> QED
    BY <1>1, <1>2, <1>3, <1>4, <1>6 DEF Marking!Mark

\* The read-modify-write of several processes, with its conflicts, retries and lost
\* answers, implements a marking in one step (TaintNodeUnschedulable 53-75,
\* onNodeError 162-181, onPreflightReport 227-261).
THEOREM QuarantineImplementsMarking == Spec => MarkingSpec
  <1>1. Init => Marking!Init
    <2> SUFFICES ASSUME Init PROVE Marking!Init
      OBVIOUS
    <2>1. /\ node = [n \in Nodes |-> [cordoned |-> FALSE, tainted |-> FALSE, other |-> FALSE]]
          /\ findings = [n \in Nodes |-> 0] /\ cordons = [n \in Nodes |-> 0]
          /\ takeovers = 0 /\ writes = 0
      BY Zenon DEF Init
    <2>2. Due = [n \in Nodes |-> 0]
      BY <2>1 DEF Due
    <2> QED
      BY <2>1, <2>2 DEF Marking!Init
  <1>2. ASSUME IInv, CInv, [Next]_vars
        PROVE  [Marking!Next]_<<node, Due, writes>>
    <2>1. \A m \in Nodes : cordons[m] \in Nat /\ findings[m] \in Nat /\ takeovers \in Nat
      BY <1>2, Countable
    <2>2. CASE UNCHANGED <<node, writes, findings, takeovers, cordons>>
      BY <2>2, MarkingStutters
    <2>3. ASSUME NEW n \in Nodes, CheckFails(n) \/ ReportsComplete(n)
          PROVE  Marking!Cause(n)
      <3>1. /\ findings' = [findings EXCEPT ![n] = @ + 1]
            /\ UNCHANGED <<node, cordons, takeovers, writes>>
        BY <2>3 DEF CheckFails, ReportsComplete, Finding, objects, counters
      <3>2. Due' = [Due EXCEPT ![n] = @ + 1]
        <4>1. DOMAIN findings = Nodes
          BY <1>2 DEF CInv, TypeOK
        <4>2. \A m \in Nodes : findings'[m] = IF m = n THEN findings[m] + 1 ELSE findings[m]
          BY <3>1, <4>1
        <4>3. \A m \in Nodes : findings'[m] + 2 * takeovers - cordons[m]
                                   = IF m = n THEN Due[m] + 1 ELSE Due[m]
          BY <2>1, <4>2 DEF Due
        <4>4. Due' = [m \in Nodes |-> findings'[m] + 2 * takeovers - cordons[m]]
          BY <3>1 DEF Due
        <4>5. DOMAIN Due = Nodes
          BY DEF Due
        <4> QED
          BY <4>3, <4>4, <4>5
      <3> QED
        BY <3>1, <3>2 DEF Marking!Cause
    <2>4. ASSUME NEW n \in Nodes, Uncordon(n) \/ OtherTaint(n)
          PROVE  Marking!Uncordon(n) \/ Marking!OtherTaint(n)
      <3>1. writes' = writes + 1 /\ UNCHANGED <<findings, cordons, takeovers>>
        BY <2>4 DEF Uncordon, OtherTaint, OthersWrite
      <3>2. UNCHANGED Due
        BY <3>1, Zenon DEF Due
      <3>3. CASE Uncordon(n)
        BY <3>1, <3>2, <3>3 DEF Uncordon, Marking!Uncordon
      <3>4. CASE OtherTaint(n)
        <4>1. intended'[n] = ~node[n].other
          BY <1>2, <3>4 DEF OtherTaint, IInv, Shapes, OtherOwnersTaintKept
        <4>2. node' = [node EXCEPT ![n].other = ~@]
          BY <1>2, <3>4, <4>1 DEF OtherTaint, IInv, Shapes
        <4> QED
          BY <3>1, <3>2, <4>2 DEF Marking!OtherTaint
      <3> QED
        BY <2>4, <3>3, <3>4
    <2>5. CASE LeaderLost
      <3>1. takeovers' = takeovers + 1 /\ UNCHANGED <<node, cordons, findings, writes>>
        BY <2>5 DEF LeaderLost, objects
      <3>2. Due' = [n \in Nodes |-> Due[n] + 2]
        BY <2>1, <3>1 DEF Due
      <3> QED
        BY <3>1, <3>2 DEF Marking!Next, Marking!LeaderChanges
    <2>6. ASSUME NEW c \in Controllers, Step(c) \/ RequestFails(c) \/ TakeOver(c)
          PROVE  Update(c) \/ UNCHANGED <<node, writes, findings, takeovers, cordons>>
      BY <2>6 DEF Step, RequestFails, Fault, TakeOver, GetNode, GetMarked, GetUnmarked, ConflictRetried,
         ConflictReturned, Cancelled, objects, counters
    <2>7. ASSUME NEW n \in Nodes, Agent(n) \/ Environment(n)
          PROVE  \/ CheckFails(n) \/ ReportsComplete(n) \/ Uncordon(n) \/ OtherTaint(n)
                 \/ UNCHANGED <<node, writes, findings, takeovers, cordons>>
      BY <2>7 DEF Agent, Environment, SendEvent, ReceiveEvent, RecordEvent, EventExpires, ReportsDeleted,
         RecordEventFails, AgentRestarts, Fault, objects, counters
    <2>8. ASSUME NEW c \in Controllers, NEW n \in Nodes, Take(c, n)
          PROVE  UNCHANGED <<node, writes, findings, takeovers, cordons>>
      BY <2>8 DEF Take, TakeEvent, TakeVerdict, objects, counters
    <2>9. CASE UNCHANGED vars
      BY <2>2, <2>9 DEF vars, objects, counters
    <2> QED
      BY <1>2, <2>2, <2>3, <2>4, <2>5, <2>6, <2>7, <2>8, <2>9, UpdateMarks DEF Next, Marking!Next
  <1>3. Spec => []IInv
    BY InitInv, Inductive, PTL DEF Spec
  <1> QED
    BY <1>1, <1>2, <1>3, CountInvariant, PTL DEF Spec, MarkingSpec, Marking!Spec
==============================================================================
