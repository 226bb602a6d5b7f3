--------------------------- MODULE SupervisedRows ---------------------------
(***************************************************************************)
(* The vocabulary of the supervised controllers (controller.py, with       *)
(* safety.py, telemetry.py and geometry.py): what a status row says, which *)
(* verdict the gates pass on it, and the arithmetic of headings and poses. *)
(* Headings count steps of 360/Full degrees; a position along a lane       *)
(* counts the advance the controller credits to one chunk of driving.      *)
(***************************************************************************)
EXTENDS Integers, Sequences

CONSTANTS
  Full,      \* heading steps of a whole turn
  Tolerance, \* a turn this close to its target is complete
  Threshold, \* a heading error beyond this is corrected
  Stall,     \* a burst that gains less than this has stalled
  PerPulse,  \* calibrated turn of one connector pulse
  None       \* Python's None

ASSUME AngleConstants ==
  /\ Full \in Nat \ {0, 1} /\ Full % 2 = 0
  /\ Tolerance \in Nat /\ Threshold \in Nat
  /\ Stall \in Nat \ {0} /\ PerPulse \in Nat \ {0}
  /\ None \notin Int

Abs(n) == IF n < 0 THEN -n ELSE n
Least(a, b) == IF a < b THEN a ELSE b
Most(a, b) == IF a > b THEN a ELSE b
Clamp(n, lo, hi) == Most(lo, Least(n, hi))

Headings == 0 .. Full - 1
Errors == -(Full \div 2) .. Full \div 2

\* Into (-180, 180] degrees; wrap_deg also leaves -180 itself alone, which stands
\* for the same turn.
Wrap(n) == LET r == n % Full IN IF r > Full \div 2 THEN r - Full ELSE r

-----------------------------------------------------------------------------
(* Rows.  A heartbeat is read for these facts.                             *)

Modes == {"AUTO", "MANUAL", "ABSENT"}

\* Where a position is read from: fix is a good one, hdop a value the rover marks
\* as bad, none a row without one.
Fixes == {"fix", "hdop", "none"}

\* p along the axis of the lanes, y across it.
Poses == [p : Int, y : Int]

Beats == [yaw : Headings \cup {None}, gps : Fixes, at : Poses, mode : Modes]

\* The verdict on a row before it may license motion.  neutral is the wait for
\* centred sticks that only the gates which have it (waits) make.
Gate(rc, mode, auto, waits) ==
  IF ~rc.rcOk /\ ~rc.ignored THEN "RC_NOT_OK"
  ELSE IF ~rc.ignored /\ rc.override THEN "MANUAL_OVERRIDE"
  ELSE IF auto /\ mode = "MANUAL" THEN "USER_SWITCHED_TO_MANUAL"
  ELSE IF waits /\ ~rc.ignored /\ ~rc.neutral THEN "WAIT_NEUTRAL"
  ELSE "NONE"

\* What the rows of one guarded pulse, or of one live drive, say together.
DriveRows == [rcInvalid : BOOLEAN, reject : BOOLEAN, ack : BOOLEAN, stop : BOOLEAN,
              active : BOOLEAN]

\* active: output active in a STOP row, or a final command that is not zero.
pulse_block_reason(rows) ==
  IF rows.rcInvalid THEN "RC_INVALID"
  ELSE IF ~rows.ack THEN "ACK_MISSING"
  ELSE IF ~rows.stop THEN "STOP_MISSING"
  ELSE IF rows.active THEN "OUTPUT_ACTIVE"
  ELSE "NONE"

\* The acknowledgement of a live drive is an ACTIVE row.
live_drive_block_reason(rows) ==
  IF rows.rcInvalid THEN "RC_INVALID"
  ELSE IF rows.reject THEN "REJECTED"
  ELSE pulse_block_reason(rows)

Faults == {"NONE", "RC_INVALID", "REJECTED", "ACK_MISSING", "STOP_MISSING", "OUTPUT_ACTIVE"}

gps_policy_action(degraded, policy) ==
  IF degraded /\ policy \in {"abort", "pause"} THEN policy ELSE "continue"

-----------------------------------------------------------------------------
(* Headings.                                                               *)

\* The travelled heading, one reference yaw standing for the target.
current_heading_deg(target, yaw, ref) ==
  IF yaw = None \/ ref = None THEN target ELSE Wrap(target + Wrap(yaw - ref))

reference_yaw_for_segment(yaw, provided, useProvided) ==
  IF useProvided /\ provided # None THEN provided
  ELSE IF yaw # None THEN yaw ELSE provided

connector_planned_pulses(angle) == Most(1, (Abs(angle) + PerPulse - 1) \div PerPulse)

-----------------------------------------------------------------------------
(* A lane is driven in direction way, from 0 to length or back.             *)

AlongOf(segment, pose) ==
  Clamp(IF segment.way = 1 THEN pose.p ELSE segment.length - pose.p, 0, segment.length)

\* Left of the way of travel is negative.
CrossTrack(segment, pose) == -segment.way * pose.y

PointAt(segment, along, y) ==
  [p |-> IF segment.way = 1 THEN along ELSE segment.length - along, y |-> y]

\* One chunk further along the lane, at the distance CrossTrack gave but along
\* the left normal.
DeadReckon(segment, pose) ==
  PointAt(segment, Least(segment.length, AlongOf(segment, pose) + 1),
          segment.way * CrossTrack(segment, pose))

\* Mutant for OverrunBounded: a fix is taken only where the pose is not reckoned.
PoseKept(opt, segment, pose, row) ==
  IF row.gps = "fix" THEN pose ELSE DeadReckon(segment, pose)

\* The pose after a chunk.  Without reanchoring no fix is ever taken, for the pose
\* of the plan is never None, and with a fix the chunk is not credited either.
PoseAfter(opt, segment, pose, row) ==
  IF row.gps = "fix"
  THEN IF opt.reanchor THEN row.at ELSE pose
  ELSE DeadReckon(segment, pose)

\* A fix further off than a chunk can drive is not believed.
JumpedTo(pose, next, allowed) == Abs(next.p - pose.p) > allowed
=============================================================================
