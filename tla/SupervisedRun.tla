---------------------------- MODULE SupervisedRun ----------------------------
(***************************************************************************)
(* A supervised path run of the host (controller.py): run_controller, which *)
(* drives a lane in live chunks ("continuous") or guarded pulses ("pulse"), *)
(* and run_stop_correct_go ("scg"), which stands still to measure and to    *)
(* turn.  A call that drives (send_pulse, send_live_drive) begins in one    *)
(* step and returns in another; between two steps of the host the pilot may *)
(* flip the mode switch and the serial port may fail.                       *)
(***************************************************************************)
EXTENDS SupervisedRows

CONSTANTS
  Plan,      \* the segments
  Options,   \* the runs to start: the arguments, and in clearSky and spread what
             \* the rover meets: whether rows may be bad, and whether its lanes or
             \* its turns come out as they like
  TurnPulses,\* max_connector_pulses_per_turn
  FixedPulses, \* left_fixed_pulses, right_fixed_pulses
  MaxBursts, \* bursts before the deadline of a turn, at the latest
  MaxAdvance,\* bound: how far a chunk may really drive
  MaxTurn,   \* bound: how far a burst or a turning pulse may really turn
  YawZero    \* the yaw the IMU shows at heading 0

ASSUME RunConstants ==
  /\ Plan \in Seq([kind : {"lane", "turn"}, way : {1, -1}, length : Nat,
                   heading : Headings, angle : Errors])
  /\ Options \subseteq [loop : {"scg", "continuous", "pulse"}, auto : BOOLEAN,
                        policy : {"continue", "pause", "abort"}, reanchor : BOOLEAN,
                        mission : BOOLEAN, startYaw : Headings \cup {None},
                        jump : Int \cup {None}, fallback : BOOLEAN,
                        fixedTurns : BOOLEAN, clearSky : BOOLEAN,
                        spread : {"none", "lanes", "turns"},
                        chunks : Nat \ {0}]
  /\ TurnPulses \in Nat \ {0} /\ FixedPulses \in Nat
  /\ MaxBursts \in Nat \ {0} /\ MaxAdvance \in Nat \ {0} /\ MaxTurn \in Nat
  /\ YawZero \in Headings

Controls == {"segment", "check", "neutral", "go", "drive", "settle",
             "turn", "burst", "measure", "record", "done"}

VARIABLES
  opt,     \* this run
  pc, seg, chunk,
  abort,   \* abort_reason
  beat,    \* the heartbeat in hand
  frame,   \* mission_frame_offset
  capture, \* mission_capture_allowed
  ref,     \* segment_ref_yaw, in a turn connector_yaw_ref
  pending, \* first_lane_pending
  pose, cache,
  turn,    \* the turn under way: its first yaw, what it was asked, what is left
  fault, manual, ended, \* what the row of this chunk will say
  heading, place, \* the rover itself
  driving, \* a motion line is out and no stop line has followed it
  coasting,\* the stop line of the last burst: read, on its way, or read late
  switch,  \* the pilot's mode switch
  called,  \* history: what calls for the end of the run, if anything does
  excess,  \* history: the chunks and bursts begun since that called for it
  basis,   \* history: what the last settled pose and heading rest on
  begun    \* history: where the rover was when the segment began

env == <<heading, place, coasting, switch>>
plans == <<opt, seg, chunk, frame, capture, ref, pending, pose, cache, begun>>
vars == <<opt, pc, seg, chunk, abort, beat, frame, capture, ref, pending, pose, cache,
          turn, fault, manual, ended, heading, place, driving, coasting, switch,
          called, excess, basis, begun>>

Segment == Plan[seg]
Turning == Segment.kind = "turn"
NoTurn == [start |-> 0, asked |-> 0, left |-> 0, bursts |-> 0, ok |-> FALSE]
NoMotion == [chunks |-> 0, bursts |-> 0]
NoBeat == [yaw |-> None, gps |-> "none", at |-> [p |-> 0, y |-> 0], mode |-> "ABSENT"]

Lanes == {i \in DOMAIN Plan : Plan[i].kind = "lane"}
first_lane_heading ==
  IF Plan = <<>> THEN 0
  ELSE IF Lanes = {} THEN Plan[1].heading
  ELSE Plan[CHOOSE i \in Lanes : \A j \in Lanes : i <= j].heading

yawNow == (heading + YawZero) % Full

\* What a heartbeat may say of the yaw, the position and the switch.
Sights ==
  LET here == [p |-> place, y |-> 0] IN
  [yaw : {yawNow}, gps : {"fix"}, at : {here}, mode : {switch}]
  \cup IF opt.clearSky THEN {} ELSE
    [yaw : {yawNow, None}, gps : {"none", "hdop"}, at : {here}, mode : {switch}]
    \cup [yaw : {yawNow}, gps : {"fix"}, mode : {switch},
          at : {[here EXCEPT !.y = 1], [here EXCEPT !.p = place + 4]}]

\* What it may say of the receiver.
Receivers == [rcOk : BOOLEAN, ignored : BOOLEAN, override : BOOLEAN, neutral : BOOLEAN]

\* pilot: the rows of a chunk or of a turn showed MANUAL; fault: they did not show
\* that the chunk ended well.  Neither is taken back.  manual, lost: so says the
\* last row read outside a call that drives, of the switch or of the receiver.
Calls == {"no", "manual", "lost", "pilot", "fault"}

CalledBy(call) ==
  /\ called' = call
  /\ excess' = IF call = called THEN excess ELSE NoMotion

ShowsManual(row) == opt.auto /\ row.mode = "MANUAL"

Heard(row, lost) ==
  CalledBy(IF called \in {"pilot", "fault"} THEN called
           ELSE IF ShowsManual(row) THEN "manual"
           ELSE IF lost THEN "lost" ELSE "no")

\* dead_reckon_gps: the last position read, a bad one too, stands in for none.  Only
\* the pulse loop takes its position from there.
Cached(row) == IF opt.loop # "pulse" \/ row.gps = "none" THEN cache ELSE row.at

Init ==
  /\ opt \in Options
  /\ pc = "segment" /\ seg = 1 /\ chunk = 0
  /\ abort = "NONE"
  /\ beat = NoBeat
  /\ frame = IF opt.startYaw = None THEN None ELSE Wrap(first_lane_heading - opt.startYaw)
  /\ capture = TRUE /\ pending = TRUE /\ ref = None
  /\ pose = [p |-> 0, y |-> 0] /\ cache = [p |-> 0, y |-> 0]
  /\ turn = NoTurn
  /\ fault = "NONE" /\ manual = FALSE /\ ended = FALSE
  /\ heading = first_lane_heading /\ place = 0
  /\ driving = FALSE /\ coasting = "no"
  /\ switch = "AUTO"
  /\ called = "no" /\ excess = NoMotion /\ basis = {} /\ begun = 0

-----------------------------------------------------------------------------
(* The run ends, goes on with the next chunk or with the next segment.     *)

Abort(reason) ==
  /\ pc' = "done" /\ abort' = reason
  /\ UNCHANGED <<plans, beat, turn, fault, manual, ended>>

planned_pulses == Most(1, Least(TurnPulses, connector_planned_pulses(Segment.angle)))

Budget ==
  IF ~Turning THEN opt.chunks ELSE IF opt.fixedTurns THEN FixedPulses ELSE planned_pulses

\* Mutant for RunEnds: a chunk that does not drive is not counted.
NextChunkUncounted ==
  /\ IF chunk < Budget
     THEN pc' = "check" /\ chunk' = IF beat.gps = "fix" THEN chunk + 1 ELSE chunk
     ELSE pc' = "segment" /\ UNCHANGED chunk
  /\ seg' = IF chunk < Budget THEN seg ELSE seg + 1

\* A chunk that did not drive, for the policy is to pause, is counted as well.
NextChunk ==
  /\ IF chunk < Budget
     THEN pc' = "check" /\ chunk' = chunk + 1 /\ UNCHANGED seg
     ELSE pc' = "segment" /\ seg' = seg + 1 /\ UNCHANGED chunk

StartSegment ==
  /\ pc = "segment"
  /\ IF seg > Len(Plan)
     THEN pc' = "done" /\ UNCHANGED <<chunk, ref, capture, begun>>
     ELSE /\ pc' = "check" /\ chunk' = 1 /\ ref' = None /\ begun' = place
          /\ capture' = (capture /\ ~Turning)
  /\ turn' = NoTurn /\ beat' = NoBeat
  /\ fault' = "NONE" /\ manual' = FALSE /\ ended' = FALSE
  /\ UNCHANGED <<opt, seg, abort, frame, pending, pose, cache, env, driving, called, excess, basis>>

-----------------------------------------------------------------------------
(* The gate before every chunk and every connector.                        *)

\* Live chunks do not wait for centred sticks.
Waits == opt.loop # "continuous" \/ Turning

HeartbeatMissing ==
  /\ pc = "check"
  /\ Abort("NO_GUARDED_PULSE_HEARTBEAT")
  /\ UNCHANGED <<env, driving, called, excess, basis>>

Preflight ==
  /\ pc = "check"
  /\ \E row \in Sights, rc \in Receivers :
       LET gate == Gate(rc, row.mode, opt.auto, Waits) IN
       /\ Heard(row, ~rc.rcOk /\ ~rc.ignored)
       /\ IF gate \in {"NONE", "WAIT_NEUTRAL"}
          THEN /\ pc' = IF gate = "NONE" THEN "go" ELSE "neutral"
               /\ beat' = row
               /\ UNCHANGED <<plans, abort, turn, fault, manual, ended>>
          ELSE Abort(gate)
  /\ UNCHANGED <<env, driving, basis>>

\* The row with centred sticks takes the place of the one the gate let pass; its
\* mode is not looked at.
NeutralReached ==
  /\ pc = "neutral"
  /\ \E row \in Sights : Heard(row, FALSE) /\ beat' = row
  /\ pc' = "go"
  /\ UNCHANGED <<plans, abort, turn, fault, manual, ended, env, driving, basis>>

NeutralMissing ==
  /\ pc = "neutral"
  /\ Abort("RC_NOT_NEUTRAL")
  /\ UNCHANGED <<env, driving, called, excess, basis>>

-----------------------------------------------------------------------------
(* A chunk of driving.                                                     *)

\* Mutant for CorrectsHeading: the frame is taken again after every turn.
CaptureAlways == frame' = IF opt.mission /\ beat.yaw # None THEN Wrap(first_lane_heading - beat.yaw) ELSE frame

\* Only on the way to the first turn, and only once.
maybe_capture_mission_frame ==
  frame' = IF opt.loop = "scg" /\ opt.mission /\ frame = None /\ capture /\ beat.yaw # None
           THEN Wrap(first_lane_heading - beat.yaw) ELSE frame

GpsAction ==
  IF opt.loop = "scg" /\ Turning THEN "continue"
  ELSE gps_policy_action(beat.gps # "fix", opt.policy)

\* The reference of a lane is fixed by its first row; that of a connector driven
\* in pulses by the first row with a yaw.
TakeReference ==
  IF Turning
  THEN /\ ref' = IF ref = None /\ opt.loop # "scg" THEN beat.yaw ELSE ref
       /\ UNCHANGED pending
  ELSE /\ ref' = IF ref = None
                 THEN reference_yaw_for_segment(beat.yaw, opt.startYaw, pending) ELSE ref
       /\ pending' = FALSE

Drive ==
  /\ pc' = "drive" /\ driving' = TRUE
  /\ excess' = IF called # "no" THEN [excess EXCEPT !.chunks = @ + 1] ELSE excess
  /\ UNCHANGED <<seg, chunk, abort>>

\* With the yaw at hand a connector of stop_correct_go is a measured turn.
LiveTurn == opt.loop = "scg" /\ Turning /\ chunk = 1 /\ beat.yaw # None

Go ==
  /\ pc = "go" /\ ~LiveTurn
  /\ cache' = Cached(beat)
  /\ IF Turning THEN UNCHANGED frame ELSE maybe_capture_mission_frame
  /\ CASE GpsAction = "abort" -> /\ pc' = "done" /\ abort' = "GPS_DEGRADED"
                                 /\ UNCHANGED <<seg, chunk, driving, excess>>
       [] GpsAction = "pause" -> NextChunk /\ UNCHANGED <<abort, driving, excess>>
       [] OTHER -> Drive
  /\ IF GpsAction # "continue" /\ (opt.loop = "pulse" \/ Turning) THEN UNCHANGED <<ref, pending>>
     ELSE TakeReference
  /\ pose' = IF GpsAction = "continue" /\ opt.loop = "continuous" /\ ~Turning
                /\ beat.gps = "fix" /\ opt.reanchor THEN beat.at ELSE pose
  /\ UNCHANGED <<opt, capture, begun, beat, turn, fault, manual, ended, env, called, basis>>

StartLiveTurn ==
  /\ pc = "go" /\ LiveTurn
  /\ turn' = [start |-> beat.yaw, asked |-> Segment.angle, left |-> Segment.angle,
              bursts |-> 0, ok |-> FALSE]
  /\ pc' = "turn" /\ ended' = TRUE
  /\ UNCHANGED <<plans, abort, beat, fault, manual, env, driving, called, excess, basis>>

\* What the rover makes of a chunk: a lane drifts, a turning pulse turns.
Advances == IF opt.spread = "lanes" THEN 0 .. MaxAdvance ELSE {1}
Drifts == IF opt.spread = "turns" THEN {0, 1} ELSE {0}
Turns(asked) == IF opt.spread = "turns" THEN 0 .. MaxTurn ELSE {Abs(asked)}

TurnsBy(asked) ==
  \E n \in Turns(asked) : heading' = (heading + (IF asked < 0 THEN -n ELSE n)) % Full

Moves ==
  IF Turning THEN TurnsBy(Segment.angle) /\ UNCHANGED place
  ELSE /\ \E n \in Advances : place' = place + Segment.way * n
       /\ \E d \in Drifts : heading' = (heading + d) % Full

BlockReason(rows) ==
  IF opt.loop = "continuous" /\ ~Turning THEN live_drive_block_reason(rows)
  ELSE pulse_block_reason(rows)

\* send_pulse and send_live_drive end with a stop line.  A live chunk measures
\* while it drives; what it measured last decides whether the lane has ended.
ChunkReturns ==
  /\ pc = "drive"
  /\ driving' = FALSE
  /\ Moves
  /\ \E rows \in DriveRows : fault' = BlockReason(rows)
  /\ \E seen \in BOOLEAN :
       /\ seen => switch = "MANUAL"
       /\ manual' = (opt.auto /\ seen)
  /\ CalledBy(IF manual' THEN "pilot" ELSE IF fault' # "NONE" THEN "fault" ELSE called)
  /\ pose' \in {pose} \cup IF opt.loop = "continuous" /\ ~Turning /\ opt.reanchor
                            THEN {[p |-> place', y |-> 0]} ELSE {}
  /\ pc' = "settle"
  /\ UNCHANGED <<opt, seg, chunk, frame, capture, ref, pending, cache, begun, abort, beat,
                 turn, ended, coasting, switch, basis>>

-----------------------------------------------------------------------------
(* The rover stands: the pose and the heading are read.                    *)

\* A fix that jumps is rejected for this chunk.
Rejected(row) ==
  /\ opt.jump # None /\ row.gps = "fix"
  /\ JumpedTo(pose, PoseAfter(opt, Segment, pose, row), opt.jump)

\* What the row leaves open is reckoned.
Reckoned(row) == IF row.gps = "fix" /\ ~Rejected(row) THEN {} ELSE {"reckoned"}

\* Without a row the heartbeat from before the chunk is used again.
SettledRow(row) ==
  \/ /\ row \in Sights /\ basis' = Reckoned(row)
     /\ \E lost \in BOOLEAN : Heard(row, lost)
  \/ row = beat /\ UNCHANGED <<called, excess>> /\ basis' = Reckoned(row) \cup {"stale"}

BelievedPose(row) ==
  IF Rejected(row) THEN DeadReckon(Segment, pose) ELSE PoseAfter(opt, Segment, pose, row)

SensorAvailable(row) ==
  (row.gps = "fix" /\ ~Rejected(row)) \/ row.yaw # None \/ opt.fallback

\* Positive when the target is to the left.
HeadingError(yaw) ==
  LET target == Segment.heading
      current == IF opt.mission /\ yaw # None /\ frame # None THEN Wrap(yaw + frame)
                 ELSE current_heading_deg(target, yaw, ref) IN
  Wrap(target - current)

SettleLane ==
  /\ pc = "settle" /\ opt.loop = "scg" /\ ~Turning
  /\ \E row \in Sights \cup {beat} :
       LET error == HeadingError(row.yaw) IN
       /\ SettledRow(row)
       /\ pose' = BelievedPose(row)
       /\ ended' = (AlongOf(Segment, pose') = Segment.length)
       /\ IF ~SensorAvailable(row)
          THEN pc' = "done" /\ abort' = "SENSOR_UNAVAILABLE" /\ UNCHANGED turn
          ELSE /\ UNCHANGED abort
               /\ IF row.yaw # None /\ Abs(error) > Threshold /\ ~manual
                  THEN /\ pc' = "turn"
                       /\ turn' = [start |-> row.yaw, asked |-> error, left |-> error,
                                   bursts |-> 0, ok |-> FALSE]
                  ELSE pc' = "record" /\ UNCHANGED turn
  /\ UNCHANGED <<opt, seg, chunk, frame, capture, ref, pending, cache, begun, beat, fault,
                 manual, env, driving>>

\* Pulses without a yaw are counted, not measured.
SettleCountedTurn ==
  /\ pc = "settle" /\ opt.loop = "scg" /\ Turning
  /\ \E row \in Sights \cup {beat} : SettledRow(row)
  /\ pc' = "record"
  /\ UNCHANGED <<plans, abort, beat, turn, fault, manual, ended, env, driving>>

\* A measured connector ends at its angle, or beyond it.
TurnEnds(yaw) ==
  LET left == Wrap(Segment.angle - Wrap(yaw - ref)) IN
  /\ ~opt.fixedTurns /\ ref # None /\ yaw # None
  /\ Abs(left) <= Tolerance \/ left * Segment.angle < 0

\* run_controller: a lane ends by the position from before the pulse.
SettleClosedLoop ==
  /\ pc = "settle" /\ opt.loop # "scg"
  /\ \E row \in Sights \cup {beat} :
       /\ SettledRow(row)
       /\ cache' = Cached(row)
       /\ pose' = IF opt.loop = "continuous" /\ ~Turning THEN PoseAfter(opt, Segment, pose, row)
                  ELSE pose
       /\ ended' = IF Turning THEN TurnEnds(row.yaw)
                   ELSE AlongOf(Segment, IF opt.loop = "continuous" THEN pose ELSE cache)
                          = Segment.length
  /\ pc' = "record"
  /\ UNCHANGED <<opt, seg, chunk, frame, capture, ref, pending, begun, abort, beat, turn,
                 fault, manual, env, driving>>

-----------------------------------------------------------------------------
(* The turn engine: burst, stop, measure.                                  *)

\* The bursts of a turn end at its angle, beyond it, without progress or by the
\* deadline.
MayBurst(t) == Abs(t.left) > Tolerance /\ t.bursts < MaxBursts

BeginBurst ==
  /\ pc = "turn" /\ MayBurst(turn)
  /\ turn' = [turn EXCEPT !.bursts = @ + 1]
  /\ pc' = "burst"
  /\ driving' = TRUE
  /\ excess' = IF called # "no" THEN [excess EXCEPT !.bursts = @ + 1] ELSE excess
  /\ UNCHANGED <<plans, abort, beat, fault, manual, ended, env, called, basis>>

\* The turn is over with what it has measured.
TurnDone(t) ==
  /\ turn' = [t EXCEPT !.ok = Abs(t.left) <= Tolerance]
  /\ pc' = "record"

\* At its angle, or the deadline is too near for another burst.
LeaveTurn ==
  /\ pc = "turn"
  /\ TurnDone(turn)
  /\ UNCHANGED <<plans, abort, beat, fault, manual, ended, env, driving, called, excess, basis>>

\* Mutant for RestsUnlessUnplugged: a rejected burst returns before its stop line.
ReturnUnstopped ==
  /\ pc = "burst"
  /\ TurnsBy(turn.left)
  /\ coasting' \in {"no", "on"}
  /\ pc' \in {"measure", "record"}
  /\ driving' = (pc' = "record")
  /\ UNCHANGED <<plans, abort, beat, turn, fault, manual, ended, place, switch, called,
                 excess, basis>>

\* After the burst the stop line is written and its row awaited; a REJECT row
\* ends the turn, a missing one does not.
BurstReturns ==
  /\ pc = "burst"
  /\ TurnsBy(turn.left)
  /\ driving' = FALSE
  /\ coasting' \in {"no", "on"}
  /\ pc' \in {"measure", "record"}
  /\ UNCHANGED <<plans, abort, beat, turn, fault, manual, ended, place, switch, called,
                 excess, basis>>

\* Without a row the turn ends as it last stood.
MeasureNothing ==
  /\ pc = "measure"
  /\ pc' = "record"
  /\ UNCHANGED <<plans, abort, beat, turn, fault, manual, ended, env, driving, called,
                 excess, basis>>

\* Mutant for CompletedMeansTurned: the rate of the burst stands for the yaw.
LeftByRate(yaw) == Wrap(turn.left - (IF turn.asked < 0 THEN -1 ELSE 1))

LeftByYaw(yaw) == Wrap(turn.asked - Wrap(yaw - turn.start))

\* A MANUAL row ends the turn before its yaw is looked at; the angle of a connector
\* is reported from that yaw all the same.
MeasureManual(row) ==
  /\ ShowsManual(row) /\ CalledBy("pilot")
  /\ turn' = [turn EXCEPT !.ok = Turning /\ row.yaw # None
                                   /\ Abs(LeftByYaw(row.yaw)) <= Tolerance]
  /\ manual' = TRUE /\ pc' = "record"

MeasureYaw(row) ==
  LET left == LeftByYaw(row.yaw)
      next == [turn EXCEPT !.left = left] IN
  /\ row.yaw # None
  /\ IF /\ Abs(left) > Tolerance /\ left * turn.asked >= 0
        /\ Abs(turn.left) - Abs(left) >= Stall
     THEN pc' = "turn" /\ turn' = next
     ELSE TurnDone(next)
  /\ UNCHANGED manual

Measure ==
  /\ pc = "measure"
  /\ \E row \in Sights :
       \/ MeasureManual(row)
       \/ /\ ~ShowsManual(row)
          /\ \E lost \in BOOLEAN : Heard(row, lost)
          /\ \/ MeasureYaw(row)
             \/ row.yaw = None /\ pc' = "record" /\ UNCHANGED <<turn, manual>>
  /\ UNCHANGED <<plans, abort, beat, fault, ended, env, driving, basis>>

-----------------------------------------------------------------------------
(* The row of the chunk is recorded.                                       *)

\* Mutant for CallsAreHeeded: the correction that followed excuses a bad chunk.
RecordExcused ==
  /\ pc = "record"
  /\ IF fault # "NONE" /\ turn.asked = 0 THEN pc' = "done" /\ abort' = fault /\ UNCHANGED <<seg, chunk>>
     ELSE IF manual
     THEN pc' = "done" /\ abort' = "USER_SWITCHED_TO_MANUAL" /\ UNCHANGED <<seg, chunk>>
     ELSE /\ UNCHANGED abort
          /\ IF ended
             THEN pc' = "segment" /\ seg' = seg + 1 /\ UNCHANGED chunk
             ELSE NextChunk
  /\ turn' = NoTurn /\ beat' = NoBeat
  /\ fault' = "NONE" /\ manual' = FALSE /\ ended' = FALSE
  /\ basis' = {}
  /\ UNCHANGED <<opt, frame, capture, ref, pending, pose, cache, begun, env, driving, called,
                 excess>>

Record ==
  /\ pc = "record"
  /\ IF fault # "NONE" THEN pc' = "done" /\ abort' = fault /\ UNCHANGED <<seg, chunk>>
     ELSE IF manual
     THEN pc' = "done" /\ abort' = "USER_SWITCHED_TO_MANUAL" /\ UNCHANGED <<seg, chunk>>
     ELSE /\ UNCHANGED abort
          /\ IF ended
             THEN pc' = "segment" /\ seg' = seg + 1 /\ UNCHANGED chunk
             ELSE NextChunk
  /\ turn' = NoTurn /\ beat' = NoBeat
  /\ fault' = "NONE" /\ manual' = FALSE /\ ended' = FALSE
  /\ basis' = {}
  /\ UNCHANGED <<opt, frame, capture, ref, pending, pose, cache, begun, env, driving, called,
                 excess>>

-----------------------------------------------------------------------------
(* The port, the pilot and the rover.                                      *)

\* An OSError in any call that reads or writes: no stop line is added.
SerialDisconnect ==
  /\ pc \in {"check", "neutral", "drive", "settle", "turn", "burst", "measure"}
  /\ Abort("SERIAL_DISCONNECT")
  /\ UNCHANGED <<env, driving, called, excess, basis>>

\* Only a run that asks for AUTO looks at the switch.
FlipSwitch ==
  /\ opt.auto /\ pc # "done"
  /\ switch' = IF switch = "AUTO" THEN "MANUAL" ELSE "AUTO"
  /\ UNCHANGED <<plans, pc, abort, beat, turn, fault, manual, ended, heading, place,
                 coasting, driving, called, excess, basis>>

\* The firmware reads the stop line it has not confirmed, having turned on.
StopArrives ==
  /\ coasting = "on"
  /\ coasting' = "late"
  /\ heading' \in {(heading + d) % Full : d \in Drifts}
  /\ UNCHANGED <<plans, pc, abort, beat, turn, fault, manual, ended, place, switch,
                 driving, called, excess, basis>>

\* Left alone, motion ends with its length or its time to live.
LeaseRunsOut ==
  /\ pc = "done" /\ driving
  /\ driving' = FALSE
  /\ UNCHANGED <<plans, pc, abort, beat, turn, fault, manual, ended, env, called, excess, basis>>

Host ==
  \/ StartSegment
  \/ HeartbeatMissing \/ Preflight \/ NeutralReached \/ NeutralMissing
  \/ Go \/ StartLiveTurn \/ ChunkReturns
  \/ SettleLane \/ SettleCountedTurn \/ SettleClosedLoop
  \/ BeginBurst \/ LeaveTurn \/ BurstReturns \/ MeasureNothing \/ Measure
  \/ Record \/ SerialDisconnect

Next == Host \/ FlipSwitch \/ StopArrives \/ LeaseRunsOut

Spec == Init /\ [][Next]_vars

\* Every wait of the host times out, and so does what it leaves driving.
FairSpec == Spec /\ WF_vars(Host) /\ WF_vars(LeaseRunsOut)

-----------------------------------------------------------------------------
(* Properties.                                                             *)

TypeOK ==
  /\ opt \in Options
  /\ pc \in Controls
  /\ seg \in Nat \ {0} /\ chunk \in Nat
  /\ pc \notin {"segment", "done"} => seg \in DOMAIN Plan
  /\ frame \in Errors \cup {None} /\ ref \in Headings \cup {None}
  /\ capture \in BOOLEAN /\ pending \in BOOLEAN
  /\ beat \in Beats /\ pose \in Poses /\ cache \in Poses
  /\ turn \in [start : Headings, asked : Errors, left : Errors, bursts : 0 .. MaxBursts,
               ok : BOOLEAN]
  /\ fault \in Faults /\ manual \in BOOLEAN /\ ended \in BOOLEAN
  /\ heading \in Headings /\ place \in Int
  /\ driving \in BOOLEAN /\ coasting \in {"no", "on", "late"}
  /\ switch \in {"AUTO", "MANUAL"}
  /\ called \in Calls /\ excess \in [chunks : Nat, bursts : Nat]
  /\ basis \subseteq {"stale", "reckoned"}
  /\ begun \in Int

\* Once something has called for the end of the run, this is all the motion that
\* still begins.  After a chunk or a turn that showed MANUAL: none.  After a chunk
\* that went wrong: the one correction turn that comes before its rows are judged.
\* After a row without the receiver: a correction too, as its rows are not asked for
\* it.  After a row with MANUAL: one chunk, if it ended the wait for centred sticks,
\* and one burst, if the rover settled with it; a later row may take both back.
CallsAreHeeded ==
  /\ called = "pilot" => excess = NoMotion
  /\ called \in {"fault", "lost"} => excess.chunks = 0 /\ excess.bursts <= MaxBursts
  /\ called = "manual" => excess.chunks <= 1 /\ excess.bursts <= 1

\* However a run ends - a fault, a missing heartbeat, the pilot, the plan - a stop line
\* follows its last motion line; only a port that fails can come between them.
RestsUnlessUnplugged == pc = "done" /\ driving => abort = "SERIAL_DISCONNECT"

\* A turn that is reported complete has turned: standing, with its stop confirmed,
\* the rover is within the tolerance of what was asked, however often a row or a
\* yaw was missing on the way.
CompletedMeansTurned ==
  pc = "record" /\ turn.ok /\ coasting = "no"
    => Abs(Wrap(turn.asked - Wrap(yawNow - turn.start))) <= Tolerance

\* In the mission frame what a connector has left undone shows as the heading
\* error of the next lane: a chunk of stop_correct_go ends near the heading of its
\* lane or with a correction that has not succeeded.
CorrectsHeading ==
  /\ pc = "record" /\ opt.loop = "scg" /\ ~Turning
  /\ opt.mission /\ opt.startYaw = (first_lane_heading + YawZero) % Full
  /\ opt.clearSky /\ "stale" \notin basis /\ coasting = "no"
  => \/ Abs(Wrap(Segment.heading - heading)) <= Most(Threshold, Tolerance)
     \/ turn.asked # 0 /\ ~turn.ok
     \/ manual

Progress(at) == IF Segment.way = 1 THEN at ELSE Segment.length - at

\* With good fixes a lane is overrun by less than two chunks, or by one if it began
\* beyond its end, although the pulse loop looks at the pose from before the pulse,
\* a live chunk at one from the middle of it, and a missing row is replaced by an
\* old one.
OverrunBounded ==
  /\ pc \notin {"segment", "done"} /\ ~Turning
  /\ opt.clearSky /\ opt.reanchor /\ opt.jump = None
  => Progress(place) <= Most(Segment.length + MaxAdvance - 1, Progress(begun)) + MaxAdvance

\* Whatever is missing or fails, the run ends, and with it the motion.
RunEnds == <>[](pc = "done" /\ ~driving)

\* controller.py:667: dead reckoning goes on "preserving the current signed
\* cross-track offset".
DeadReckonKeepsSide ==
  [][pc = "settle" /\ "reckoned" \in basis'
       => CrossTrack(Segment, pose') = CrossTrack(Segment, pose)]_vars
=============================================================================
