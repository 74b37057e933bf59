------------------------- MODULE MCJobRestartLedger -------------------------
(* Instances of JobRestartLedger for TLC. *)
EXTENDS JobRestartLedger, TLC

CONSTANTS c1, c2

\* The process c2 reads its clock one unit ahead of real time.
SkewedOffset == (c1 :> 0) @@ (c2 :> 1)
==============================================================================
