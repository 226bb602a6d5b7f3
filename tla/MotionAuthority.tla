-------------------------- MODULE MotionAuthority --------------------------
(***************************************************************************)
(* What the rover's arbitration promises, without frames, timers, modes or *)
(* switches: an emergency stop leaves nobody driving, and "auto" drives    *)
(* only on a grant.  A grant is an explicit act of the station; it is lost *)
(* for good when the station stops or takes the sticks, when the pilot     *)
(* takes over, and when a decision finds the station out of contact.       *)
(***************************************************************************)

VARIABLES
  driver,   \* "none", "station", "rc" or "auto"
  estop,
  granted,  \* the station asked for AUTO and nothing has revoked it
  contact   \* the station was heard recently

authority == <<driver, estop, granted, contact>>

Init == driver = "none" /\ ~estop /\ ~granted /\ ~contact

Grant ==
  /\ granted' /\ ~estop' /\ contact'
  /\ driver' \in {"none", "auto"}

EmergencyStop ==
  /\ estop' /\ ~granted' /\ contact'
  /\ driver' = "none"

\* The station takes the sticks; who drives is decided later, unless the frame
\* carries an emergency stop.
TakeSticks ==
  /\ ~granted' /\ contact'
  /\ estop' \in BOOLEAN
  /\ driver' = IF estop' THEN "none" ELSE driver

Refuse ==
  /\ ~granted' /\ contact'
  /\ driver' = "none"
  /\ UNCHANGED estop

\* Contact is made by any frame and lost by the passing of time.
Contact == contact' \in BOOLEAN /\ UNCHANGED <<driver, estop, granted>>

\* One decision.  Without contact there is no grant any more, and a pilot who
\* takes over ends it as well.
Decide ==
  /\ granted' \in {FALSE, granted /\ contact}
  /\ driver' \in IF estop THEN {"none"}
                 ELSE {"none"}
                        \cup (IF granted' THEN {"auto"} ELSE {})
                        \cup (IF contact THEN {"station"} ELSE {})
                        \cup (IF granted' THEN {} ELSE {"rc"})
  /\ UNCHANGED <<estop, contact>>

Next == Grant \/ EmergencyStop \/ TakeSticks \/ Refuse \/ Contact \/ Decide

Spec == Init /\ [][Next]_authority
=============================================================================
