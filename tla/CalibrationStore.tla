--------------------------- MODULE CalibrationStore ---------------------------
(* What the commands that write motion_calibration.json promise to those that  *)
(* read it: values are added until a reset removes them all, and the one thing *)
(* that loses them otherwise is a writer that dies between emptying the file   *)
(* and filling it again, which a reader sees. MotionCalibration implements it. *)
CONSTANT Primitives   \* the motions in use

VARIABLES
  approved,   \* motions the file has values for, or will have once written
  status      \* "whole" (or absent), "writing" or "lost"

storeVars == <<approved, status>>

StoreInit == approved \in SUBSET Primitives /\ status = "whole"

\* A set, or a tuning session that saves, opens the file ...
Open ==
  /\ status = "whole"
  /\ \E added \in SUBSET Primitives : approved' = approved \cup added
  /\ status' = "writing"

\* ... and writes it, ...
Write ==
  /\ status = "writing"
  /\ status' = "whole"
  /\ UNCHANGED approved

\* ... unless it dies first.
Lose ==
  /\ status = "writing"
  /\ approved' = {} /\ status' = "lost"

Clear ==
  /\ status # "writing"
  /\ approved' = {} /\ status' = "whole"

StoreNext == Open \/ Write \/ Lose \/ Clear

StoreSpec == StoreInit /\ [][StoreNext]_storeVars
=============================================================================
