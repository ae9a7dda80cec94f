------------------------------ MODULE MCDrift -------------------------------
(* Constants for Drift: a review and a stage-0 run at a time.               *)
EXTENDS Drift

CONSTANTS r1, r2
=============================================================================
