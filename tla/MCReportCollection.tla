-------------------------- MODULE MCReportCollection --------------------------
(* ReportCollection with pods that share the run of the first one or not. *)
EXTENDS ReportCollection

CONSTANTS p1, r1, r2, t1

MCKeys == Runs \X Texts
MCInvalid == {<<r2, t1>>}

\* The first pod belongs to the first run, and pods of one run start in order: the
\* runs differ in nothing but Invalid, and pods of one run in nothing at all.
OneRun == \A p \in Pods : run[p] = r1
InOrder == \A p \in Pods : phase'[p] # "running" => phase'[p1] # "running"

\* Bound: while the pods belong to two runs the agent goes on, no report is garbage
\* collected, and a pod that has ended is not updated again.
Calm == ~ctxDone' /\ UNCHANGED <<crashes, deletions>> /\ ~ \E p \in Pods : PodUpdated(p)

MCInit == CollectionInit /\ run[p1] = r1
MCNext == CollectionNext /\ IF OneRun THEN InOrder ELSE Calm
MCSpec == MCInit /\ [][MCNext]_collectionVars /\ CollectionFairness
==============================================================================
