-------------------------- MODULE MCMotionCalibration --------------------------
(* Instance of MotionCalibration for TLC: two motions the operator tunes or   *)
(* sets, and commands of which one is too long to be accepted. The limits of  *)
(* the cfg are narrower than those of the code (tuning.py:58-61), so that     *)
(* three trials run into each of them; the theorems hold for all limits.      *)
EXTENDS MotionCalibration

MCPrimitives == {"backward", "turn-left-90"}
MCProposals == {[a |-> -100, b |-> 0, ms |-> 600], [a |-> 0, b |-> 200, ms |-> 900],
                [a |-> -100, b |-> 0, ms |-> 5000]}
===============================================================================
