---------------------------- MODULE RestartWindow ----------------------------
(***************************************************************************)
(* What pkg/recovery/job_restart_ledger.go computes from the data of its   *)
(* ConfigMap and the time a call read: whether a job was restarted within  *)
(* the retry window, and the data to write back.                           *)
(***************************************************************************)
EXTENDS Integers

CONSTANTS
    Jobs,            \* (namespace, job name) pairs, the keys of the ledger
    TTL              \* the retry window, recovery.go restartDuration

NoStamp == -1
Stamps == [Jobs -> Nat \cup {NoStamp}]

LiveWithoutTTL(stamps, j, now) == stamps[j] # NoStamp /\ now < stamps[j]  \* mutant

\* An entry survives pruning while now.Before(restartAt.Add(ttl)).
Live(stamps, j, now) == stamps[j] # NoStamp /\ now < stamps[j] + TTL

RecordedExpiry(stamps, job, now) ==                                  \* mutant
    [j \in Jobs |-> IF j = job THEN now + TTL
                    ELSE IF Live(stamps, j, now) THEN stamps[j] ELSE NoStamp]

\* The copy after pruning, with the restart recorded.
Recorded(stamps, job, now) ==
    [j \in Jobs |-> IF j = job THEN now
                    ELSE IF Live(stamps, j, now) THEN stamps[j] ELSE NoStamp]
==============================================================================
