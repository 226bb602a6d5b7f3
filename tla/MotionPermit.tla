---------------------------- MODULE MotionPermit ----------------------------
(***************************************************************************)
(* What the guarded USB builds promise a supervisor: motion starts by      *)
(* using up a permit, a permit is given only at rest and never outlives a  *)
(* stop, and only a build that may hold a setpoint moves without one.      *)
(***************************************************************************)
CONSTANT MayHold

VARIABLES permit, motion

supervised == <<permit, motion>>

Init == ~permit /\ ~motion

Give == permit' /\ ~motion /\ ~motion'

Use == permit /\ ~permit' /\ motion' \in BOOLEAN

Hold == MayHold /\ ~permit' /\ motion' \in BOOLEAN

Rest == ~permit' /\ ~motion'

Next == Give \/ Use \/ Hold \/ Rest

Spec == Init /\ [][Next]_supervised
=============================================================================
