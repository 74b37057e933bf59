---------------------------- MODULE MCPodRecovery ----------------------------
(***************************************************************************)
(* Instances of PodRecovery for TLC.  A behaviour is about one worker and  *)
(* changes of leader, or about two workers and failed requests: both at    *)
(* once are beyond TLC.                                                    *)
(***************************************************************************)
EXTENDS PodRecovery, TLC

CONSTANTS j1, p1, p2

VARIABLE scenario

OneJob == (p1 :> j1) @@ (p2 :> j1)

OtherPodAbsent == pod[p2] = "missing"

\* Bound: one observation waits while another is answered.  The workers differ in
\* nothing, so p1 fails first.
FewWaiting == Cardinality(noticed \cup queue) <= 1
InOrder == failures = 1 /\ pod[p2] = "terminated" => Deleting(p2)

MCInit ==
    /\ Init
    /\ pod[p1] = "running"
    /\ \/ scenario = "changes of leader" /\ OtherPodAbsent
       \/ scenario = "two workers" /\ pod[p2] = "running"

MCNext ==
    /\ Next
    /\ UNCHANGED scenario
    /\ IF scenario = "two workers" THEN leader' /\ FewWaiting' /\ InOrder'
       ELSE OtherPodAbsent' /\ UNCHANGED faults

MCSpec == MCInit /\ [][MCNext]_<<vars, scenario>> /\ Fairness
==============================================================================
