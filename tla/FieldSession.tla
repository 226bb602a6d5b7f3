----------------------------- MODULE FieldSession -----------------------------
(* A day in the field on one laptop (tools/physical_path_planning/cli.py and   *)
(* alignment.py): previews write a plan directory file by file; run and        *)
(* auto-relative-run read the calibration, take a plan from the directory or   *)
(* from a GPS fix, wait for the pilot's AUTO (auto-relative-run), check the    *)
(* calibration, align the heading and drive; align-heading only aligns. Any    *)
(* process may die at any point. What happens inside "drive" is SupervisedRun, *)
(* and what the calibration file may hold is CalibrationStore: a session reads *)
(* it once, and here the reading and the gate have their outcomes. Headings    *)
(* are counted in units of 1/(2*Half) of a turn, left positive.                *)
EXTENDS Integers, Sequences

CONSTANTS
  Half,         \* heading units in half a turn
  Tolerance,    \* heading_tolerance_deg, in units
  MaxSwing,     \* units the rover turns at most between two telemetry rows
  MaxSamples,   \* rows read until max_turn_duration_s is over
  MaxRows,      \* telemetry rows the operating system holds for a reader
  MaxPlans,     \* plans made: bound on the length of a history
  MaxSessions   \* sessions started: bound on the length of a history

ASSUME FieldAssumption ==
  /\ Half \in Nat \ {0} /\ Tolerance \in Nat /\ MaxSwing \in Nat
  /\ MaxSamples \in Nat /\ MaxRows \in Nat \ {0}
  /\ MaxPlans \in Nat /\ MaxSessions \in Nat

VARIABLES
  dir,       \* the plan directory: plan.json, planned_segments.json, preview_summary.json
  broken,    \* plan.json has been written and planned_segments.json not yet
  writer,    \* a preview at work
  made,      \* plans made
  session,   \* the command that drives, and how far it is
  turn,      \* its heading alignment
  switch,    \* the mode channel of the pilot's transmitter
  rows,      \* the mode channel of the telemetry rows not read yet
  sessions   \* sessions started

vars == <<dir, broken, writer, made, session, turn, switch, rows, sessions>>

-----------------------------------------------------------------------------
(* Plans are numbered; a file of the directory holds a plan, or               *)
NoPlan == 0
TornPlan == -1
Readable(plan) == plan > 0

Files == {"plan", "segments", "summary"}
Resting == [phase |-> "idle", plan |-> NoPlan]

\* Which file goes next: _write_plan_artifacts, then the command's own summary.
AfterWriting == [plan |-> "segments", segments |-> "summary", summary |-> "idle"]

NoSession ==
  [name |-> "none", phase |-> "idle", align |-> "none",
   start |-> NoPlan, lanes |-> NoPlan, loose |-> FALSE, at |-> 0,
   licence |-> "none", last |-> "none", keyboard |-> FALSE, auto |-> FALSE]

\* What the turn is to make good, what it has made good of it since the heartbeat
\* that gave yaw_turn_start, the rows of yaw not read yet, the yaw read last, and
\* what remains by it.
NoTurn == [error |-> 0, turned |-> 0, yaws |-> <<>>, yaw |-> 0, remaining |-> 0,
           samples |-> 0, outcome |-> "none"]

FieldInit ==
  /\ dir = [f \in Files |-> NoPlan] /\ broken = FALSE
  /\ writer = Resting /\ made = 0
  /\ session = NoSession /\ turn = NoTurn
  /\ switch = "MANUAL" /\ rows = <<>>
  /\ sessions = 0

Waiting == {"gps", "auto"}
Moving == {"probe", "turn", "drive"}

-----------------------------------------------------------------------------
(* Previews. One with explicit coordinates needs no port: it may write while *)
(* a session reads.                                                          *)
cmd_preview ==
  /\ writer = Resting /\ made < MaxPlans
  /\ writer' = [phase |-> "plan", plan |-> made + 1]
  /\ made' = made + 1
  /\ UNCHANGED <<dir, broken, session, turn, switch, rows, sessions>>

write_plan_artifact ==
  /\ writer # Resting
  /\ dir' = [dir EXCEPT ![writer.phase] = writer.plan]
  /\ broken' = CASE writer.phase = "plan" -> TRUE
                 [] writer.phase = "segments" -> FALSE
                 [] OTHER -> broken
  /\ writer' = IF writer.phase = "summary" THEN Resting
               ELSE [writer EXCEPT !.phase = AfterWriting[@]]
  /\ UNCHANGED <<made, session, turn, switch, rows, sessions>>

\* A file is emptied before it is written.
PreviewDies ==
  /\ writer # Resting
  /\ dir' \in {dir, [dir EXCEPT ![writer.phase] = TornPlan]}
  /\ writer' = Resting
  /\ UNCHANGED <<broken, made, session, turn, switch, rows, sessions>>

-----------------------------------------------------------------------------
(* A session begins.                                                         *)
Begun(s) ==
  /\ session = NoSession /\ sessions < MaxSessions
  /\ sessions' = sessions + 1
  /\ session' = s
  /\ turn' = NoTurn /\ rows' = <<>>
  /\ UNCHANGED <<dir, broken, writer, made, switch>>

Aligns == {"none", "gps_probe", "user_confirmed"}

\* resolve_calibration raises on a torn file and the command ends.
CommandStarts(name, keyboard) ==
  \E align \in Aligns, source \in {"plan", "gps"}, whole \in BOOLEAN :
    Begun(IF whole
          THEN [NoSession EXCEPT !.name = name, !.align = align, !.phase = source,
                  !.keyboard = keyboard, !.auto = (switch = "AUTO")]
          ELSE NoSession)
cmd_run == CommandStarts("run", FALSE)
\* --allow-keyboard-start, or not.
cmd_auto_relative_run == \E keyboard \in BOOLEAN : CommandStarts("auto-relative-run", keyboard)

cmd_align_heading ==
  \E align \in {"gps_probe", "user_confirmed"} :
    Begun([NoSession EXCEPT !.name = "align-heading", !.align = align, !.phase = "plan"])

Ended == session' = NoSession /\ turn' = NoTurn
Goes(s) == session' = s /\ UNCHANGED turn
AfterPlan == IF session.name = "auto-relative-run" THEN "auto" ELSE "gate"

\* Mutant for DrivesOnePlan: run asks for preview_summary.json first, as
\* align-heading does.
SummaryFirst ==
  IF dir["summary"] # NoPlan THEN dir["summary"] ELSE dir["plan"]

\* load_plan_dir_plan prefers plan.json, _load_plan_segments preview_summary.json.
PlanFile ==
  LET order == IF session.name = "align-heading" THEN <<"summary", "plan">>
               ELSE <<"plan", "summary">>
  IN IF dir[order[1]] # NoPlan THEN dir[order[1]] ELSE dir[order[2]]

load_plan ==
  /\ session.phase = "plan"
  /\ IF Readable(PlanFile)
       THEN Goes([session EXCEPT
              !.start = PlanFile, !.lanes = PlanFile, !.at = made,
              !.loose = broken \/ writer # Resting,
              !.phase = IF session.name = "align-heading" THEN "align" ELSE "segments"])
       ELSE Ended
  /\ UNCHANGED <<dir, broken, writer, made, switch, rows, sessions>>

\* planned_segments.json replaces the segments of the plan.
load_segments ==
  /\ session.phase = "segments"
  /\ IF dir["segments"] = TornPlan THEN Ended
     ELSE Goes([session EXCEPT
            !.lanes = IF dir["segments"] = NoPlan THEN @ ELSE dir["segments"],
            !.loose = @ \/ broken \/ writer # Resting \/ session.at # made,
            !.at = 0, !.phase = AfterPlan])
  /\ UNCHANGED <<dir, broken, writer, made, switch, rows, sessions>>

\* The plan is made here, from a fix or a cached position in the rows or, in
\* run, from the cached start of an earlier command.
resolve_start ==
  /\ session.phase = "gps" /\ made < MaxPlans
  /\ session.name = "auto-relative-run" => session.last # "none"
  /\ made' = made + 1
  /\ Goes([session EXCEPT !.start = made', !.lanes = made', !.phase = AfterPlan])
  /\ UNCHANGED <<dir, broken, writer, switch, rows, sessions>>

\* No fix within the time, a goal that is refused, a preview image not written.
no_plan ==
  /\ session.phase = "gps"
  /\ Ended
  /\ UNCHANGED <<dir, broken, writer, made, switch, rows, sessions>>

-----------------------------------------------------------------------------
(* The wait for AUTO. It decides on the last row read, which may be old.     *)
OnPort == session.name = "auto-relative-run" /\ session.phase \in Waiting

TelemetryRow ==
  /\ OnPort /\ Len(rows) < MaxRows
  /\ rows' = Append(rows, switch)
  /\ UNCHANGED <<dir, broken, writer, made, session, turn, switch, sessions>>

\* A row that the read timeout cuts short has lost its mode channel.
read_row ==
  /\ OnPort /\ rows # <<>>
  /\ \E seen \in {Head(rows), "ABSENT"} : Goes([session EXCEPT !.last = seen])
  /\ rows' = Tail(rows)
  /\ UNCHANGED <<dir, broken, writer, made, switch, sessions>>

\* Mutant for LicensedMotion: a row without the mode channel will do.
wait_for_anything_but_manual ==
  /\ session.phase = "auto"
  /\ \/ /\ session.last # "MANUAL"
        /\ Goes([session EXCEPT !.licence = "AUTO_SWITCH", !.last = "none", !.phase = "gate"])
     \/ Ended
  /\ rows' = <<>>
  /\ UNCHANGED <<dir, broken, writer, made, switch, sessions>>

wait_for_auto ==
  /\ session.phase = "auto"
  /\ \/ /\ session.last = "AUTO"
        /\ Goes([session EXCEPT !.licence = "AUTO_SWITCH", !.last = "none", !.phase = "gate"])
     \/ /\ session.keyboard         \* without a row there is no mode channel either
        /\ session.last \in {"ABSENT", "none"}
        /\ Goes([session EXCEPT !.licence = "KEYBOARD_START", !.last = "none", !.phase = "gate"])
     \/ Ended                       \* time over, or no to the keyboard
  /\ rows' = <<>>  \* what is read from here on is not asked for its mode
  /\ UNCHANGED <<dir, broken, writer, made, switch, sessions>>

-----------------------------------------------------------------------------
\* What stop_correct_go asks of the calibration is there for these lanes, or not.
calibration_gate ==
  /\ session.phase = "gate"
  /\ \/ Goes([session EXCEPT !.phase = IF session.align = "none" THEN "drive" ELSE "align"])
     \/ Ended
  /\ UNCHANGED <<dir, broken, writer, made, switch, rows, sessions>>

AfterAlignment ==
  [session EXCEPT !.phase = IF session.name = "align-heading" THEN "report" ELSE "drive"]

(* Alignment. The GPS probe drives forward and tells the heading; the turn   *)
(* goes the shorter way, until the size of the yaw the IMU has measured says  *)
(* that it is done: the code takes it that the rover turns as it was told.   *)
Wrapped(x) == ((x + Half) % (2 * Half)) - Half
Abs(x) == IF x < 0 THEN -x ELSE x
Sign(x) == IF x < 0 THEN -1 ELSE 1
remaining_heading_error(error, yaw_delta) == Wrapped(error - Sign(error) * Abs(yaw_delta))
WithinTolerance(error) == Abs(error) <= Tolerance

user_confirmed ==
  /\ session.phase = "align" /\ session.align = "user_confirmed"
  /\ Goes(AfterAlignment)
  /\ UNCHANGED <<dir, broken, writer, made, switch, rows, sessions>>

start_probe ==
  /\ session.phase = "align" /\ session.align = "gps_probe"
  /\ Goes([session EXCEPT !.phase = "probe"])
  /\ UNCHANGED <<dir, broken, writer, made, switch, rows, sessions>>

\* No position before or after, too short a way, or no yaw to turn by.
align_fails ==
  /\ session.phase \in {"align", "probe"} /\ session.align = "gps_probe"
  /\ Ended
  /\ UNCHANGED <<dir, broken, writer, made, switch, rows, sessions>>

plan_alignment ==
  /\ session.phase = "probe"
  /\ \E error \in -Half..Half :
       IF WithinTolerance(error)
         THEN /\ session' = AfterAlignment
              /\ turn' = [NoTurn EXCEPT !.error = error, !.remaining = error,
                                        !.outcome = "ALREADY_ALIGNED"]
         ELSE /\ session' = [session EXCEPT !.phase = "turn"]
              /\ turn' = [NoTurn EXCEPT !.error = error, !.remaining = error]
  /\ UNCHANGED <<dir, broken, writer, made, switch, rows, sessions>>

\* The rover need not turn as it is told (ground, sign of the command, a stop on
\* its way), and the rows of its yaw wait until they are read.
YawRow ==
  /\ session.phase = "turn" /\ Len(turn.yaws) < MaxRows
  /\ \E swing \in -MaxSwing..MaxSwing :
       turn' = [turn EXCEPT !.turned = @ + swing, !.yaws = Append(@, turn.turned + swing)]
  /\ UNCHANGED <<dir, broken, writer, made, session, switch, rows, sessions>>

\* A setpoint, and the row that answers it: without a yaw, or with one that leaves
\* so much to turn. The rover swings once more until the stop reaches it.
Sample(left) ==
  /\ session.phase = "turn" /\ turn.samples < MaxSamples /\ turn.yaws # <<>>
  /\ LET answered == [turn EXCEPT !.yaws = Tail(@), !.samples = @ + 1]
         measured == [answered EXCEPT !.yaw = Head(turn.yaws), !.remaining = left]
     IN \/ turn' = answered /\ UNCHANGED session
        \/ ~WithinTolerance(left) /\ turn' = measured /\ UNCHANGED session
        \/ /\ WithinTolerance(left)
           /\ \E drift \in -MaxSwing..MaxSwing :
                turn' = [measured EXCEPT !.turned = @ + drift, !.yaws = <<>>,
                                         !.outcome = "ALIGNED"]
           /\ session' = AfterAlignment
  /\ UNCHANGED <<dir, broken, writer, made, switch, rows, sessions>>

\* Mutant for AlignedFacesTarget: each yaw, which counts from the start of the turn,
\* is taken from what the row before has left.
turn_sample_adding_up ==
  Sample(remaining_heading_error(turn.remaining, Wrapped(Head(turn.yaws))))

turn_sample == Sample(remaining_heading_error(turn.error, Wrapped(Head(turn.yaws))))

\* The time is over, or the board refuses: gps_probe is the strategy whose
\* failure ends the command.
turn_fails ==
  /\ session.phase = "turn"
  /\ Ended
  /\ UNCHANGED <<dir, broken, writer, made, switch, rows, sessions>>

-----------------------------------------------------------------------------
finish ==
  /\ session.phase \in {"drive", "report"}
  /\ Ended
  /\ UNCHANGED <<dir, broken, writer, made, switch, rows, sessions>>

SessionDies ==
  /\ session # NoSession
  /\ Ended
  /\ UNCHANGED <<dir, broken, writer, made, switch, rows, sessions>>

PilotFlips ==
  /\ OnPort
  /\ switch' \in {"AUTO", "MANUAL", "ABSENT"} \ {switch}
  /\ Goes([session EXCEPT !.auto = @ \/ switch' = "AUTO"])
  /\ UNCHANGED <<dir, broken, writer, made, rows, sessions>>

\* A session reads the directory in "plan" and "segments"; elsewhere, and after the
\* last session, what a preview writes makes no difference, and in the model it
\* waits (a bound).
Awaited == session = NoSession /\ sessions < MaxSessions
PreviewWorks ==
  /\ Awaited \/ session.phase \in {"plan", "segments"}
  /\ cmd_preview \/ write_plan_artifact \/ PreviewDies

FieldNext ==
  \/ PreviewWorks
  \/ cmd_run \/ cmd_auto_relative_run \/ cmd_align_heading
  \/ load_plan \/ load_segments \/ resolve_start \/ no_plan
  \/ TelemetryRow \/ read_row \/ wait_for_auto \/ PilotFlips \/ calibration_gate
  \/ user_confirmed \/ start_probe \/ align_fails \/ plan_alignment
  \/ YawRow \/ turn_sample \/ turn_fails \/ finish \/ SessionDies

FieldSpec == FieldInit /\ [][FieldNext]_vars

-----------------------------------------------------------------------------
(* Properties.                                                               *)

\* What is driven are the lanes of the plan whose start and goal the controller
\* uses, although they come from two files of a directory a preview rewrites
\* file by file and may die in: they differ only when a preview died between the
\* two files or was at work between the two reads.
DrivesOnePlan ==
  session.phase \in Moving /\ session.start # session.lanes => session.loose

\* auto-relative-run moves, the probe of its alignment included, only after the
\* switch has been in AUTO since it started, however old the row that said so,
\* unless it was told to take the keyboard for it.
LicensedMotion ==
  session.phase \in Moving /\ session.name = "auto-relative-run" =>
    \/ session.licence = "AUTO_SWITCH" /\ session.auto
    \/ session.licence = "KEYBOARD_START" /\ session.keyboard

\* A turn that ends ALIGNED has the rover within the tolerance of the heading of the
\* first segment, give or take what it swung while rows of yaw were waiting and the
\* stop was on its way, however it went on the way there: over, back, through half a
\* turn or the wrong way round. The yaw is taken without its sign: when the IMU
\* reads it on the other side of the start, the rover is just as near to the mirror
\* image of that heading, and nowhere else.
Lag == MaxRows * MaxSwing
Near(x) == Abs(Wrapped(x)) <= Tolerance + Lag
OtherSide == Sign(turn.error) * Wrapped(turn.yaw) < 0
AlignedFacesTarget ==
  turn.outcome = "ALIGNED" =>
    /\ ~OtherSide => Near(turn.error - turn.turned)
    /\ OtherSide => Near(turn.error + turn.turned)
=============================================================================
