----------------------------- MODULE NodeMarking -----------------------------
(***************************************************************************)
(* What kcover promises of the Node objects that it shares with others:    *)
(* marking a node unschedulable is a single step, which keeps what the     *)
(* Node has at that moment, and it takes a node out of scheduling no more  *)
(* often than there is cause to.  NodeQuarantine, where marking is a       *)
(* read-modify-write by several processes, implements this module.         *)
(***************************************************************************)
EXTENDS Integers

CONSTANT Nodes

VARIABLES
    node,    \* the Node objects: cordoned, tainted, and a taint of another owner
    due,     \* per node: how often there is cause yet to cordon it
    writes   \* how often others have written the Node objects

Init ==
    /\ node = [n \in Nodes |-> [cordoned |-> FALSE, tainted |-> FALSE, other |-> FALSE]]
    /\ due = [n \in Nodes |-> 0]
    /\ writes = 0

\* A failed check, or the verdict on a workload.
Cause(n) ==
    /\ due' = [due EXCEPT ![n] = @ + 1]
    /\ UNCHANGED <<node, writes>>

\* A new leader may answer the last Event and the last verdict once more.
LeaderChanges ==
    /\ due' = [n \in Nodes |-> due[n] + 2]
    /\ UNCHANGED <<node, writes>>

\* A node that lacks the taint only is not cordoned anew.
Mark(n) ==
    /\ node[n].cordoned \/ due[n] > 0
    /\ node' = [node EXCEPT ![n].cordoned = TRUE, ![n].tainted = TRUE]
    /\ due' = IF node[n].cordoned THEN due ELSE [due EXCEPT ![n] = @ - 1]
    /\ UNCHANGED writes

Uncordon(n) ==
    /\ node' = [node EXCEPT ![n].cordoned = FALSE, ![n].tainted = FALSE]
    /\ writes' = writes + 1
    /\ UNCHANGED due

OtherTaint(n) ==
    /\ node' = [node EXCEPT ![n].other = ~@]
    /\ writes' = writes + 1
    /\ UNCHANGED due

Next ==
    \/ \E n \in Nodes : Cause(n) \/ Mark(n) \/ Uncordon(n) \/ OtherTaint(n)
    \/ LeaderChanges

Spec == Init /\ [][Next]_<<node, due, writes>>
==============================================================================
