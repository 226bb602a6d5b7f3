-------------------------- MODULE FieldSessionProofs --------------------------
(* Proofs about FieldSession, for every number of plans and sessions, every    *)
(* unit, tolerance and swing of a turn, and telemetry that falls behind as far *)
(* as it likes.                                                                *)
EXTENDS FieldSession, TLAPS

Names == {"none", "run", "auto-relative-run", "align-heading"}
Phases == {"idle", "plan", "segments", "gps", "auto", "gate", "align", "probe",
           "turn", "drive", "report"}
Positions == {"none", "AUTO", "MANUAL", "ABSENT"}

SessionType ==
  [name : Names, phase : Phases, align : Aligns,
   start : Int, lanes : Int, loose : BOOLEAN, at : Nat,
   licence : {"none", "AUTO_SWITCH", "KEYBOARD_START"}, last : Positions,
   keyboard : BOOLEAN, auto : BOOLEAN]

FieldTypes ==
  /\ dir \in [Files -> Int] /\ broken \in BOOLEAN
  /\ writer \in [phase : Files \cup {"idle"}, plan : Nat]
  /\ made \in Nat
  /\ session \in SessionType
  /\ switch \in Positions
  /\ rows \in Seq(Positions)

\* While no preview is between its first two files, they hold the same plan.
DirFacts ==
  /\ ~broken => dir["segments"] = dir["plan"] \/ dir["plan"] = TornPlan
  /\ writer.phase = "segments" => broken /\ dir["plan"] = writer.plan
  /\ writer.phase = "summary" => ~broken
  /\ dir["plan"] = NoPlan => dir["summary"] = NoPlan /\ writer.phase \in {"plan", "idle"}
  /\ writer # Resting => writer.plan > 0
  /\ writer.phase = "idle" <=> writer = Resting

\* The two reads of a session see the same directory unless a plan has been
\* made between them.
PlanFacts ==
  /\ session.at <= made
  /\ session.name = "none" => session.phase = "idle"
  /\ session.phase = "segments" =>
       /\ session.name \in {"run", "auto-relative-run"}
       /\ session.lanes = session.start
       /\ ~session.loose /\ session.at = made =>
            writer = Resting /\ session.start = dir["plan"] /\ session.start > 0
  /\ session.phase \in {"plan", "gps"} => session.lanes = session.start
  /\ session.start # session.lanes => session.loose

\* What a session has passed holds for what it goes on to.
Committed == {"align", "probe", "turn", "drive", "report"}
Licensed ==
  \/ session.licence = "AUTO_SWITCH" /\ session.auto
  \/ session.licence = "KEYBOARD_START" /\ session.keyboard
LicenceFacts ==
  session.name = "auto-relative-run" =>
    /\ switch = "AUTO" => session.auto
    /\ \A i \in 1..Len(rows) : rows[i] = "AUTO" => session.auto
    /\ session.last = "AUTO" => session.auto
    /\ session.phase \in Committed \cup {"gate"} => Licensed

FieldFacts == FieldTypes /\ DirFacts /\ PlanFacts /\ LicenceFacts

-----------------------------------------------------------------------------
LEMMA NoSessionType == NoSession \in SessionType
  BY DEF NoSession, SessionType, Names, Phases, Aligns, Positions, NoPlan

LEMMA RestingType == Resting \in [phase : Files \cup {"idle"}, plan : Nat]
  BY DEF Resting, NoPlan

LEMMA NoRowsType == <<>> \in Seq(Positions)
  OBVIOUS

\* The start of a day.
LEMMA FieldInitFacts == FieldInit => FieldFacts
<1>. SUFFICES ASSUME FieldInit PROVE FieldFacts
  OBVIOUS
<1>. USE DEF FieldInit
<1>1. FieldTypes
  <2>1. dir \in [Files -> Int]
    BY DEF NoPlan
  <2>. QED  BY <2>1, NoSessionType, RestingType, NoRowsType
               DEF FieldTypes, Positions
<1>2. DirFacts
  BY DEF DirFacts, Resting, NoPlan, Files
<1>3. PlanFacts /\ LicenceFacts
  BY DEF PlanFacts, LicenceFacts, NoSession, NoPlan, Committed
<1>. QED  BY <1>1, <1>2, <1>3 DEF FieldFacts

\* A session that ends leaves nothing behind.
LEMMA EndedFacts ==
  ASSUME FieldFacts, session' = NoSession,
         UNCHANGED <<dir, broken, writer, made, switch>>,
         rows' \in {rows, <<>>}
  PROVE  FieldFacts'
<1>. USE DEF FieldFacts
<1>1. FieldTypes'
  <2>1. rows' \in Seq(Positions)
    BY NoRowsType DEF FieldTypes
  <2>. QED  BY <2>1, NoSessionType DEF FieldTypes
<1>2. DirFacts'
  BY DEF DirFacts
<1>3. PlanFacts' /\ LicenceFacts'
  BY DEF PlanFacts, LicenceFacts, NoSession, NoPlan, Committed, FieldTypes
<1>. QED  BY <1>1, <1>2, <1>3

\* The plan directory under a preview.
LEMMA PreviewFacts ==
  ASSUME FieldFacts, PreviewWorks
  PROVE  FieldFacts'
<1>. USE DEF FieldFacts
<1>1. CASE cmd_preview
  <2>. USE <1>1 DEF cmd_preview
  <2>1. FieldTypes'
    BY DEF FieldTypes, Files
  <2>2. DirFacts'
    BY DEF DirFacts, FieldTypes, Resting, NoPlan
  <2>3. PlanFacts' /\ LicenceFacts'
    BY DEF PlanFacts, LicenceFacts, FieldTypes, SessionType, Licensed
  <2>. QED  BY <2>1, <2>2, <2>3
<1>2. CASE write_plan_artifact
  <2>. USE <1>2 DEF write_plan_artifact
  <2>1. FieldTypes'
    <3>1. writer.phase \in Files /\ writer.plan \in Nat 
      BY DEF FieldTypes, DirFacts
    <3>2. AfterWriting[writer.phase] \in Files \cup {"idle"}
      <4>1. /\ AfterWriting["plan"] = "segments" /\ AfterWriting["segments"] = "summary"
            /\ AfterWriting["summary"] = "idle"
        BY DEF AfterWriting
      <4>. QED  BY <3>1, <4>1 DEF Files
    <3>3. writer' \in [phase : Files \cup {"idle"}, plan : Nat]
      BY <3>1, <3>2, RestingType DEF FieldTypes
    <3>4. dir' \in [Files -> Int] /\ broken' \in BOOLEAN
      <4>1. dir' \in [Files -> Int]
        BY <3>1 DEF FieldTypes
      <4>2. broken' \in BOOLEAN
        BY Zenon DEF FieldTypes
      <4>. QED  BY <4>1, <4>2
    <3>. QED  BY <3>3, <3>4 DEF FieldTypes
  <2>2. DirFacts'
    BY DEF DirFacts, FieldTypes, Resting, NoPlan, TornPlan, Files, AfterWriting
  <2>3. PlanFacts' /\ LicenceFacts'
    BY DEF PlanFacts, LicenceFacts, FieldTypes, SessionType, Licensed
  <2>. QED  BY <2>1, <2>2, <2>3
<1>3. CASE PreviewDies
  <2>. USE <1>3 DEF PreviewDies
  <2>1. FieldTypes'
    BY RestingType DEF FieldTypes, Files, TornPlan
  <2>2. DirFacts'
    BY DEF DirFacts, FieldTypes, Resting, NoPlan, TornPlan, Files
  <2>3. PlanFacts' /\ LicenceFacts'
    BY DEF PlanFacts, LicenceFacts, FieldTypes, SessionType, Licensed
  <2>. QED  BY <2>1, <2>2, <2>3
<1>. QED  BY <1>1, <1>2, <1>3 DEF PreviewWorks

-----------------------------------------------------------------------------
\* load_plan, load_segments and resolve_start.
LEMMA LoadFacts ==
  ASSUME FieldFacts, load_plan \/ load_segments \/ resolve_start
  PROVE  FieldFacts'
<1>1. CASE Ended /\ ~resolve_start
  BY <1>1, EndedFacts DEF Ended, load_plan, load_segments
<1>2. CASE load_plan /\ ~Ended
  <2>. DEFINE n == PlanFile
              p == IF session.name = "align-heading" THEN "align" ELSE "segments"
              l == broken \/ writer # Resting
  <2>1. n \in Int /\ n > 0
    BY <1>2 DEF load_plan, Readable, PlanFile, FieldFacts, FieldTypes, Files
  <2>2. session.name # "align-heading" => n = dir["plan"]
    BY <2>1 DEF PlanFile, FieldFacts, DirFacts, NoPlan
  <2>3. session' = [session EXCEPT !.start = n, !.lanes = n, !.at = made, !.loose = l,
                                   !.phase = p]
    BY <1>2 DEF load_plan, Goes
  <2>4. p \in Phases /\ l \in BOOLEAN /\ made \in Nat /\ session \in SessionType
    BY DEF Phases, FieldFacts, FieldTypes
  <2>. HIDE DEF n, p, l
  <2>5. /\ session' \in SessionType
        /\ session'.start = n /\ session'.lanes = n /\ session'.at = made
        /\ session'.loose = l /\ session'.phase = p
        /\ session'.name = session.name
        /\ session'.licence = session.licence
        /\ session'.last = session.last /\ session'.keyboard = session.keyboard
        /\ session'.auto = session.auto
    BY ONLY <2>1, <2>3, <2>4 DEF SessionType
  <2>6. UNCHANGED <<dir, broken, writer, made, switch, rows>> /\ session.phase = "plan"
    BY <1>2 DEF load_plan
  <2>7. FieldTypes' /\ DirFacts'
    BY <2>5, <2>6 DEF FieldFacts, FieldTypes, DirFacts
  <2>8. PlanFacts'
    BY <2>1, <2>2, <2>4, <2>5, <2>6 DEF PlanFacts, p, l, FieldFacts, SessionType, Names
  <2>9. LicenceFacts'
    BY <2>5, <2>6 DEF LicenceFacts, Licensed, Committed, p, FieldFacts
  <2>. QED  BY <2>7, <2>8, <2>9 DEF FieldFacts
<1>3. CASE load_segments /\ ~Ended
  <2>. DEFINE m == IF dir["segments"] = NoPlan THEN session.lanes ELSE dir["segments"]
              p == AfterPlan
              l == session.loose \/ broken \/ writer # Resting \/ session.at # made
  <2>1. session' = [session EXCEPT !.lanes = m, !.loose = l, !.at = 0, !.phase = p]
    BY <1>3 DEF load_segments, Goes
  <2>2. /\ p \in Phases /\ p \in {"auto", "gate"} /\ l \in BOOLEAN /\ session \in SessionType
        /\ session.lanes \in Int /\ session.start \in Int /\ session.at \in Nat /\ m \in Int
        /\ p = "gate" => session.name # "auto-relative-run"
    BY DEF Phases, FieldFacts, FieldTypes, AfterPlan, SessionType, Files
  <2>. HIDE DEF m, p, l
  <2>3. session' = [session EXCEPT !.start = session.start, !.lanes = m, !.at = 0,
                                   !.loose = l, !.phase = p]
    BY <2>1, <2>2 DEF SessionType
  <2>4. /\ session' \in SessionType
        /\ session'.start = session.start /\ session'.lanes = m /\ session'.at = 0
        /\ session'.loose = l /\ session'.phase = p
        /\ session'.name = session.name
        /\ session'.licence = session.licence
        /\ session'.last = session.last /\ session'.keyboard = session.keyboard
        /\ session'.auto = session.auto
    BY ONLY <2>2, <2>3 DEF SessionType
  <2>5. /\ UNCHANGED <<dir, broken, writer, made, switch, rows>>
        /\ session.phase = "segments" /\ dir["segments"] # TornPlan
    BY <1>3 DEF load_segments
  <2>6. FieldTypes' /\ DirFacts'
    BY <2>4, <2>5 DEF FieldFacts, FieldTypes, DirFacts
  <2>7. session.start # m => l
    BY <2>2, <2>5 DEF m, l, FieldFacts, PlanFacts, DirFacts, NoPlan, TornPlan
  <2>8. PlanFacts'
    BY <2>2, <2>4, <2>5, <2>7 DEF PlanFacts, FieldFacts, FieldTypes
  <2>9. LicenceFacts'
    BY <2>2, <2>4, <2>5 DEF LicenceFacts, Licensed, Committed, FieldFacts, PlanFacts
  <2>. QED  BY <2>6, <2>8, <2>9 DEF FieldFacts
<1>4. CASE resolve_start
  <2>. DEFINE p == AfterPlan
  <2>1. session' = [session EXCEPT !.start = made', !.lanes = made', !.phase = p]
    BY <1>4 DEF resolve_start, Goes
  <2>2. /\ p \in Phases /\ p \in {"auto", "gate"} /\ session \in SessionType
        /\ session.at \in Nat /\ session.loose \in BOOLEAN /\ made \in Nat /\ made' = made + 1
        /\ p = "gate" => session.name # "auto-relative-run"
    BY <1>4 DEF Phases, FieldFacts, FieldTypes, AfterPlan, SessionType, resolve_start
  <2>. HIDE DEF p
  <2>3. session' = [session EXCEPT !.start = made', !.lanes = made', !.at = session.at,
                                   !.loose = session.loose, !.phase = p]
    BY <2>1, <2>2 DEF SessionType
  <2>4. made' \in Int
    BY <2>2
  <2>5. /\ session' \in SessionType
        /\ session'.start = made' /\ session'.lanes = made' /\ session'.at = session.at
        /\ session'.loose = session.loose /\ session'.phase = p
        /\ session'.name = session.name
        /\ session'.licence = session.licence
        /\ session'.last = session.last /\ session'.keyboard = session.keyboard
        /\ session'.auto = session.auto
    BY ONLY <2>2, <2>3, <2>4 DEF SessionType
  <2>6. UNCHANGED <<dir, broken, writer, switch, rows>> /\ session.phase = "gps"
    BY <1>4 DEF resolve_start
  <2>7. FieldTypes' /\ DirFacts'
    BY <2>2, <2>5, <2>6 DEF FieldFacts, FieldTypes, DirFacts
  <2>8. PlanFacts'
    BY <2>2, <2>5, <2>6 DEF PlanFacts, FieldFacts
  <2>9. LicenceFacts'
    BY <2>2, <2>5, <2>6 DEF LicenceFacts, Licensed, Committed, FieldFacts
  <2>. QED  BY <2>7, <2>8, <2>9 DEF FieldFacts
<1>. QED  BY <1>1, <1>2, <1>3, <1>4 DEF resolve_start

\* The rows and the pilot of a session that waits.
LEMMA WaitStep ==
  ASSUME FieldFacts, session' \in SessionType, session.phase \in Waiting,
         UNCHANGED <<dir, broken, writer, made>>,
         session'.keyboard = session.keyboard, session'.name = session.name,
         session'.start = session.start,
         session'.lanes = session.lanes, session'.at = session.at,
         session'.loose = session.loose,
         rows' \in Seq(Positions), switch' \in Positions,
         session'.phase = session.phase \/ session'.phase = "gate",
         session.name = "auto-relative-run" =>
           /\ switch' = "AUTO" => session'.auto
           /\ \A i \in 1..Len(rows') : rows'[i] = "AUTO" => session'.auto
           /\ session'.last = "AUTO" => session'.auto
           /\ session'.phase = "gate" => Licensed'
  PROVE  FieldFacts'
<1>1. FieldTypes' /\ DirFacts'
  BY DEF FieldFacts, FieldTypes, DirFacts
<1>2. PlanFacts'
  BY DEF FieldFacts, PlanFacts, Waiting, Committed
<1>3. LicenceFacts'
  BY DEF FieldFacts, LicenceFacts, Waiting, Committed
<1>. QED  BY <1>1, <1>2, <1>3 DEF FieldFacts

\* TelemetryRow, read_row, wait_for_auto and PilotFlips.
LEMMA WaitFacts ==
  ASSUME FieldFacts, TelemetryRow \/ read_row \/ wait_for_auto \/ PilotFlips
  PROVE  FieldFacts'
<1>1. CASE Ended /\ wait_for_auto
  BY <1>1, EndedFacts DEF Ended, wait_for_auto
<1>2. CASE TelemetryRow
  <2>. USE <1>2 DEF TelemetryRow, FieldFacts
  <2>1. FieldTypes' /\ DirFacts' /\ PlanFacts'
    BY DEF FieldTypes, DirFacts, PlanFacts
  <2>2. LicenceFacts'
    BY DEF LicenceFacts, FieldTypes, Licensed, OnPort
  <2>. QED  BY <2>1, <2>2
<1>3. /\ session \in SessionType /\ session.auto \in BOOLEAN
      /\ rows \in Seq(Positions) /\ switch \in Positions
  BY DEF FieldFacts, FieldTypes, SessionType
<1>4. session.name = "auto-relative-run" =>
        /\ switch = "AUTO" => session.auto
        /\ \A i \in 1..Len(rows) : rows[i] = "AUTO" => session.auto
        /\ session.last = "AUTO" => session.auto
  BY DEF FieldFacts, LicenceFacts
<1>5. CASE read_row
  <2>1. PICK v \in {Head(rows), "ABSENT"} : session' = [session EXCEPT !.last = v]
    BY <1>5 DEF read_row, Goes
  <2>2. /\ session.phase \in Waiting /\ session.name = "auto-relative-run" /\ rows # <<>>
        /\ rows' = Tail(rows) /\ UNCHANGED <<dir, broken, writer, made, switch>>
    BY <1>5 DEF read_row, OnPort
  <2>3. /\ Head(rows) = rows[1] /\ 1 \in 1..Len(rows) /\ Head(rows) \in Positions
        /\ Tail(rows) \in Seq(Positions)
        /\ \A i \in 1..Len(Tail(rows)) : Tail(rows)[i] = rows[i + 1] /\ i + 1 \in 1..Len(rows)
    BY <1>3, <2>2
  <2>4. v \in Positions /\ (v = "AUTO" => session.auto)
    BY <1>4, <2>1, <2>2, <2>3 DEF Positions
  <2>5. /\ session' \in SessionType /\ session'.last = v /\ session'.phase = session.phase
        /\ session'.auto = session.auto /\ session'.keyboard = session.keyboard
        /\ session'.name = session.name
        /\ session'.start = session.start /\ session'.lanes = session.lanes
        /\ session'.at = session.at /\ session'.loose = session.loose
    BY ONLY <1>3, <2>1, <2>4 DEF SessionType
  <2>6. \A i \in 1..Len(rows') : rows'[i] = "AUTO" => session'.auto
    BY <1>4, <2>2, <2>3, <2>5
  <2>. QED  BY WaitStep, <1>3, <1>4, <2>2, <2>3, <2>4, <2>5, <2>6 DEF Waiting
<1>6. CASE PilotFlips
  <2>. DEFINE w == session.auto \/ switch' = "AUTO"
  <2>1. session' = [session EXCEPT !.auto = w]
    BY <1>6 DEF PilotFlips, Goes
  <2>2. /\ session.phase \in Waiting /\ session.name = "auto-relative-run"
        /\ switch' \in Positions /\ UNCHANGED <<dir, broken, writer, made, rows>>
    BY <1>6 DEF PilotFlips, OnPort, Positions
  <2>3. w \in BOOLEAN /\ (session.auto => w) /\ (switch' = "AUTO" => w)
    BY <1>3, <2>2
  <2>. HIDE DEF w
  <2>4. /\ session' \in SessionType /\ session'.last = session.last
        /\ session'.phase = session.phase
        /\ session'.auto = w /\ session'.keyboard = session.keyboard
        /\ session'.name = session.name
        /\ session'.start = session.start /\ session'.lanes = session.lanes
        /\ session'.at = session.at /\ session'.loose = session.loose
    BY ONLY <1>3, <2>1, <2>3 DEF SessionType
  <2>. QED  BY WaitStep, <1>3, <1>4, <2>2, <2>3, <2>4 DEF Waiting
<1>7. CASE wait_for_auto /\ ~Ended
  <2>1. /\ session.phase \in Waiting /\ rows' = <<>>
        /\ UNCHANGED <<dir, broken, writer, made, switch>>
    BY <1>7 DEF wait_for_auto, Waiting
  <2>2. PICK c \in {"AUTO_SWITCH", "KEYBOARD_START"} :
          /\ session' = [session EXCEPT !.licence = c, !.last = "none", !.phase = "gate"]
          /\ \/ c = "AUTO_SWITCH" /\ session.last = "AUTO"
             \/ c = "KEYBOARD_START" /\ session.keyboard
    BY <1>7 DEF wait_for_auto, Goes
  <2>3. "gate" \in Phases /\ "none" \in Positions
    BY DEF Phases, Positions
  <2>4. /\ session' \in SessionType /\ session'.last = "none" /\ session'.phase = "gate"
        /\ session'.licence = c
        /\ session'.auto = session.auto /\ session'.keyboard = session.keyboard
        /\ session'.name = session.name
        /\ session'.start = session.start /\ session'.lanes = session.lanes
        /\ session'.at = session.at /\ session'.loose = session.loose
    BY ONLY <1>3, <2>2, <2>3 DEF SessionType
  <2>5. session.name = "auto-relative-run" => Licensed'
    BY <1>4, <2>2, <2>4 DEF Licensed
  <2>6. rows' \in Seq(Positions) /\ Len(rows') = 0
    BY <2>1, NoRowsType
  <2>. QED  BY WaitStep, <1>3, <1>4, <2>1, <2>4, <2>5, <2>6
<1>. QED  BY <1>1, <1>2, <1>5, <1>6, <1>7

\* calibration_gate and the alignment: the session stays committed.
LEMMA CommittedFacts ==
  ASSUME FieldFacts, NEW p \in Committed, session' = [session EXCEPT !.phase = p],
         UNCHANGED <<dir, broken, writer, made, switch, rows>>,
         session.phase \in Committed \cup {"gate"}
  PROVE  FieldFacts'
<1>1. session \in SessionType /\ p \in Phases
  BY DEF FieldFacts, FieldTypes, Committed, Phases
<1>2. /\ session' \in SessionType /\ session'.phase = p /\ session'.last = session.last
      /\ session'.licence = session.licence
      /\ session'.auto = session.auto /\ session'.keyboard = session.keyboard
      /\ session'.name = session.name
      /\ session'.start = session.start /\ session'.lanes = session.lanes
      /\ session'.at = session.at /\ session'.loose = session.loose
  BY ONLY <1>1, session' = [session EXCEPT !.phase = p] DEF SessionType
<1>3. FieldTypes' /\ DirFacts'
  BY <1>2 DEF FieldFacts, FieldTypes, DirFacts
<1>4. PlanFacts'
  BY <1>2 DEF FieldFacts, PlanFacts, Committed
<1>5. LicenceFacts'
  BY <1>2 DEF FieldFacts, LicenceFacts, Committed, Licensed
<1>. QED  BY <1>3, <1>4, <1>5 DEF FieldFacts

LEMMA MotionFacts ==
  ASSUME FieldFacts,
         \/ calibration_gate \/ user_confirmed \/ start_probe \/ align_fails
         \/ plan_alignment \/ YawRow \/ turn_sample \/ turn_fails
  PROVE  FieldFacts'
<1>1. CASE calibration_gate
  <2>1. CASE Ended
    BY <1>1, <2>1, EndedFacts DEF Ended, calibration_gate
  <2>2. CASE ~Ended
    <3>. DEFINE p == IF session.align = "none" THEN "drive" ELSE "align"
    <3>1. p \in Committed /\ session' = [session EXCEPT !.phase = p]
      BY <1>1, <2>2 DEF calibration_gate, Goes, Committed
    <3>. HIDE DEF p
    <3>. QED  BY <1>1, <2>2, <3>1, CommittedFacts DEF calibration_gate
  <2>. QED  BY <2>1, <2>2
<1>2. CASE align_fails \/ turn_fails
  BY <1>2, EndedFacts DEF Ended, align_fails, turn_fails
<1>3. CASE user_confirmed \/ start_probe \/ plan_alignment \/ YawRow \/ turn_sample
  <2>1. session \in SessionType /\ session.phase \in Committed
    BY <1>3 DEF user_confirmed, start_probe, plan_alignment, YawRow, turn_sample, Sample, Committed,
       FieldFacts, FieldTypes
  <2>2. UNCHANGED <<dir, broken, writer, made, switch, rows>>
    BY <1>3 DEF user_confirmed, start_probe, plan_alignment, YawRow, turn_sample, Sample
  <2>3. PICK p \in Committed : session' = [session EXCEPT !.phase = p]
    <3>1. session = [session EXCEPT !.phase = session.phase]
      BY <2>1 DEF SessionType
    <3>2. \E p \in Committed : AfterAlignment = [session EXCEPT !.phase = p]
      BY DEF AfterAlignment, Committed
    <3>3. CASE user_confirmed
      BY <3>2, <3>3 DEF user_confirmed, Goes
    <3>4. CASE start_probe
      BY <3>4 DEF start_probe, Goes, Committed
    <3>5. CASE plan_alignment
      <4>1. session' \in {AfterAlignment, [session EXCEPT !.phase = "turn"]}
        BY <3>5 DEF plan_alignment
      <4>. QED  BY <3>2, <4>1 DEF Committed
    <3>6. CASE YawRow \/ turn_sample
      <4>1. session' \in {AfterAlignment, session}
        BY <3>6 DEF YawRow, turn_sample, Sample
      <4>. QED  BY <2>1, <3>1, <3>2, <4>1
    <3>. QED  BY <1>3, <3>3, <3>4, <3>5, <3>6
  <2>. QED  BY <2>1, <2>2, <2>3, CommittedFacts
<1>. QED  BY <1>1, <1>2, <1>3

\* cmd_run, cmd_auto_relative_run and cmd_align_heading.
LEMMA BegunFacts ==
  ASSUME FieldFacts, cmd_run \/ cmd_auto_relative_run \/ cmd_align_heading
  PROVE  FieldFacts'
<1>1. /\ rows' = <<>> /\ UNCHANGED <<dir, broken, writer, made, switch>>
  BY DEF cmd_run, cmd_auto_relative_run, cmd_align_heading, CommandStarts, Begun
<1>2. CASE session' = NoSession
  BY <1>1, <1>2, EndedFacts
<1>3. CASE session' # NoSession
  <2>1. /\ session' \in SessionType /\ session'.name # "none"
        /\ session'.phase \in {"plan", "gps"}
        /\ session'.start = NoPlan /\ session'.lanes = NoPlan /\ session'.at = 0
        /\ ~session'.loose /\ session'.last = "none"
        /\ session'.name = "auto-relative-run" /\ switch = "AUTO" => session'.auto
    <3>2. NoSession \in SessionType /\ NoSession.start = NoPlan /\ NoSession.lanes = NoPlan
          /\ NoSession.at = 0 /\ NoSession.loose = FALSE /\ NoSession.last = "none"
      BY NoSessionType DEF NoSession
    <3>3. CASE cmd_run \/ cmd_auto_relative_run
      <4>. DEFINE auto == (switch = "AUTO")
      <4>1. PICK name \in {"run", "auto-relative-run"}, keyboard \in BOOLEAN :
              CommandStarts(name, keyboard)
        BY <3>3 DEF cmd_run, cmd_auto_relative_run
      <4>2. PICK align \in Aligns, source \in {"plan", "gps"} :
              session' = [NoSession EXCEPT !.name = name, !.align = align, !.phase = source,
                                           !.keyboard = keyboard, !.auto = auto]
        BY <1>3, <4>1 DEF CommandStarts, Begun
      <4>3. /\ name \in Names /\ source \in Phases
            /\ auto \in BOOLEAN /\ align \in Aligns /\ keyboard \in BOOLEAN
        BY DEF Names, Phases
      <4>. HIDE DEF auto
      <4>4. session' \in SessionType
        BY ONLY <3>2, <4>2, <4>3 DEF SessionType
      <4>5. /\ session'.name = name /\ session'.phase = source /\ session'.auto = auto
            /\ session'.start = NoSession.start /\ session'.lanes = NoSession.lanes
            /\ session'.at = NoSession.at /\ session'.loose = NoSession.loose
            /\ session'.last = NoSession.last
        BY ONLY <3>2, <4>2 DEF SessionType
      <4>. QED  BY <3>2, <4>2, <4>4, <4>5 DEF auto
    <3>4. CASE cmd_align_heading
      <4>1. PICK align \in Aligns :
              session' = [NoSession EXCEPT !.name = "align-heading", !.align = align,
                                           !.phase = "plan"]
        BY <3>4 DEF cmd_align_heading, Begun, Aligns
      <4>2. "align-heading" \in Names /\ "plan" \in Phases
        BY DEF Names, Phases
      <4>. QED  BY ONLY <3>2, <4>1, <4>2 DEF SessionType
    <3>. QED  BY <3>3, <3>4
  <2>2. FieldTypes' /\ DirFacts'
    BY <1>1, <2>1, NoRowsType DEF FieldFacts, FieldTypes, DirFacts
  <2>3. PlanFacts'
    BY <1>1, <2>1 DEF FieldFacts, FieldTypes, PlanFacts, Committed
  <2>4. LicenceFacts'
    BY <1>1, <2>1 DEF LicenceFacts, Committed
  <2>. QED  BY <2>2, <2>3, <2>4 DEF FieldFacts
<1>. QED  BY <1>2, <1>3

-----------------------------------------------------------------------------
LEMMA FieldStepFacts == FieldFacts /\ [FieldNext]_vars => FieldFacts'
<1>. SUFFICES ASSUME FieldFacts, [FieldNext]_vars PROVE FieldFacts'
  OBVIOUS
<1>1. CASE PreviewWorks
  BY <1>1, PreviewFacts
<1>2. CASE cmd_run \/ cmd_auto_relative_run \/ cmd_align_heading
  BY <1>2, BegunFacts
<1>3. CASE load_plan \/ load_segments \/ resolve_start
  BY <1>3, LoadFacts
<1>4. CASE TelemetryRow \/ read_row \/ wait_for_auto \/ PilotFlips
  BY <1>4, WaitFacts
<1>5. CASE \/ calibration_gate \/ user_confirmed \/ start_probe \/ align_fails
           \/ plan_alignment \/ YawRow \/ turn_sample \/ turn_fails
  BY <1>5, MotionFacts
<1>6. CASE no_plan \/ finish \/ SessionDies
  BY <1>6, EndedFacts DEF Ended, no_plan, finish, SessionDies
<1>7. CASE UNCHANGED vars
  <2>1. UNCHANGED <<dir, broken, writer, made, session, switch, rows>>
    BY <1>7 DEF vars
  <2>2. FieldTypes' /\ DirFacts' /\ PlanFacts'
    BY <2>1 DEF FieldFacts, FieldTypes, DirFacts, PlanFacts
  <2>3. LicenceFacts'
    BY <2>1 DEF FieldFacts, LicenceFacts, Licensed
  <2>. QED  BY <2>2, <2>3 DEF FieldFacts
<1>. QED  BY <1>1, <1>2, <1>3, <1>4, <1>5, <1>6, <1>7 DEF FieldNext

THEOREM FieldInvariant == FieldSpec => []FieldFacts
<1>. QED  BY FieldInitFacts, FieldStepFacts, PTL DEF FieldSpec

\* The lanes of one plan are driven with the start and the goal of another only
\* by a session that read a directory a preview was writing or had died in.
THEOREM OnePlanDriven == FieldSpec => []DrivesOnePlan
<1>1. FieldFacts => DrivesOnePlan
  BY DEF FieldFacts, PlanFacts, DrivesOnePlan
<1>. QED  BY <1>1, FieldInvariant, PTL

\* auto-relative-run moves only after the pilot's AUTO, or with the keyboard in
\* its place.
THEOREM LicenceHolds == FieldSpec => []LicensedMotion
<1>1. FieldFacts => LicensedMotion
  BY DEF FieldFacts, LicenceFacts, LicensedMotion, Licensed, Committed, Moving
<1>. QED  BY <1>1, FieldInvariant, PTL

-----------------------------------------------------------------------------
(* The heading a turn ends at.                                               *)

TurnType ==
  [error : Int, turned : Int, yaws : Seq(Int), yaw : Int, remaining : Int, samples : Nat,
   outcome : {"none", "ALREADY_ALIGNED", "ALIGNED"}]

\* A row that has waited behind i - 1 others is as old as the rows behind it.
Swung ==
  \A i \in 1..Len(turn.yaws) :
    Abs(turn.turned - turn.yaws[i]) <= (Len(turn.yaws) - i) * MaxSwing

\* No more rows wait than there is room for, none is older than the rows behind it
\* allow, and the alignment goes on to the next phase with its outcome.
TurnFacts ==
  /\ turn \in TurnType
  /\ Len(turn.yaws) <= MaxRows
  /\ Swung
  /\ session.phase = "turn" => turn.outcome = "none"
  /\ AlignedFacesTarget

LEMMA AbsSwung ==
  ASSUME NEW x \in Int, NEW d \in Int, NEW b \in Int, NEW c \in Int,
         Abs(x) <= b, d <= c, -d <= c
  PROVE  Abs(x + d) <= b + c
  BY DEF Abs

LEMMA NoTurnType == NoTurn \in TurnType /\ Len(NoTurn.yaws) = 0 /\ NoTurn.outcome = "none"
  BY DEF NoTurn, TurnType

LEMMA NoTurnFacts ==
  ASSUME turn = NoTurn
  PROVE  TurnFacts
  BY FieldAssumption, NoTurnType DEF TurnFacts, Swung, AlignedFacesTarget

LEMMA NoTurnNext ==
  ASSUME turn' = NoTurn
  PROVE  TurnFacts'
  BY FieldAssumption, NoTurnType DEF TurnFacts, Swung, AlignedFacesTarget

\* Wrapping takes away whole turns, ...
LEMMA WrappedTurns ==
  ASSUME NEW x \in Int
  PROVE  /\ Wrapped(x) \in -Half..(Half - 1)
         /\ \E k \in Int : x = Wrapped(x) + (2 * Half) * k
<1>. DEFINE m == 2 * Half
            y == x + Half
<1>1. m \in Nat \ {0} /\ y \in Int /\ Half \in Nat
  BY FieldAssumption
<1>. HIDE DEF m, y
<1>2. y % m \in 0..(m - 1)
  BY <1>1
<1>3. (y \div m) \in Int /\ y = m * (y \div m) + (y % m)
  BY <1>1
<1>4. Wrapped(x) = (y % m) - Half /\ m = 2 * Half /\ y = x + Half
  BY DEF Wrapped, y, m
<1>5. Wrapped(x) \in -Half..(Half - 1)
  BY <1>1, <1>2, <1>4
<1>6. x = Wrapped(x) + m * (y \div m)
  BY <1>1, <1>2, <1>3, <1>4
<1>. QED  BY <1>3, <1>4, <1>5, <1>6

LEMMA WrappedInt ==
  ASSUME NEW x \in Int
  PROVE  Wrapped(x) \in Int
<1>1. Wrapped(x) \in -Half..(Half - 1)
  BY WrappedTurns
<1>. HIDE DEF Wrapped
<1>. QED  BY <1>1, FieldAssumption

\* ... and leaves the least there is.
LEMMA WrappedLeast ==
  ASSUME NEW x \in Int, NEW y \in Int, NEW k \in Int, x = y + (2 * Half) * k
  PROVE  Abs(Wrapped(x)) <= Abs(y)
<1>. DEFINE w == Wrapped(x)
            m == 2 * Half
<1>1. PICK j \in Int : x = w + m * j
  BY WrappedTurns
<1>2. w \in -Half..(Half - 1) /\ Half \in Nat \ {0} /\ m \in Nat /\ m = 2 * Half
  BY WrappedTurns, FieldAssumption
<1>. HIDE DEF w, m
<1>3. PICK i \in Int : i = j - k
  OBVIOUS
<1>4. y = w + m * i
  <2>1. x = y + m * k
    BY DEF m
  <2>2. m * i = m * j - m * k
    BY <1>2, <1>3
  <2>3. m * j \in Int /\ m * k \in Int /\ m * i \in Int /\ w \in Int
    BY <1>2
  <2>. QED  BY <1>1, <2>1, <2>2, <2>3
<1>5. CASE i = 0
  BY <1>2, <1>4, <1>5 DEF Abs, w
<1>6. CASE i >= 1
  <2>1. m * i >= m
    BY <1>2, <1>6
  <2>2. m * i \in Int
    BY <1>2
  <2>. QED  BY <1>2, <1>4, <2>1, <2>2 DEF Abs, w
<1>7. CASE i <= -1
  <2>1. m * i <= -m
    BY <1>2, <1>7
  <2>2. m * i \in Int
    BY <1>2
  <2>. QED  BY <1>2, <1>4, <2>1, <2>2 DEF Abs, w
<1>. QED  BY <1>5, <1>6, <1>7

\* Where the rover is when the yaw without its sign says that it is there.
LEMMA WhereAligned ==
  ASSUME NEW error \in Int, NEW yaw \in Int, NEW turned \in Int,
         Abs(turned - yaw) <= Lag,
         WithinTolerance(remaining_heading_error(error, Wrapped(yaw)))
  PROVE  /\ ~(Sign(error) * Wrapped(yaw) < 0) => Near(error - turned)
         /\ Sign(error) * Wrapped(yaw) < 0 => Near(error + turned)
<1>. DEFINE w == Wrapped(yaw)
            a == Sign(error) * Abs(w)
            left == Wrapped(error - a)
            m == 2 * Half
            d == turned - yaw
<1>1. w \in Int /\ Half \in Nat \ {0} /\ m \in Nat /\ a \in Int /\ d \in Int
  <2>1. w \in Int /\ Half \in Nat \ {0}
    BY WrappedTurns, FieldAssumption
  <2>. HIDE DEF w
  <2>. QED  BY <2>1 DEF Sign, Abs
<1>2. PICK i \in Int : yaw = w + m * i
  BY WrappedTurns
<1>3. error - a \in Int
  BY <1>1
<1>4. left \in Int /\ \E j \in Int : error - a = left + m * j
  <2>. HIDE DEF a
  <2>1. left \in Int
    BY <1>3, WrappedInt
  <2>. QED  BY <1>3, <2>1, WrappedTurns
<1>5. PICK j \in Int : error - a = left + m * j
  BY <1>4
<1>6. Abs(left) <= Tolerance
  BY DEF WithinTolerance, remaining_heading_error
<1>7. Lag \in Nat /\ Tolerance \in Nat
  BY FieldAssumption DEF Lag
<1>8. a = IF Sign(error) * w < 0 THEN -w ELSE w
  BY <1>1 DEF Sign, Abs
<1>9. m * i \in Int /\ m * j \in Int
  BY <1>1
<1>10. m * (j - i) = m * j - m * i /\ m * (j + i) = m * j + m * i
  BY <1>1
<1>11. Abs(left - d) <= Tolerance + Lag /\ Abs(left + d) <= Tolerance + Lag
  <2>1. Abs(d) <= Lag
    OBVIOUS
  <2>. HIDE DEF left, d
  <2>. QED  BY <1>1, <1>4, <1>6, <1>7, <2>1 DEF Abs
<1>12. ASSUME ~(Sign(error) * w < 0)
       PROVE  Near(error - turned)
  <2>1. error - turned = (left - d) + m * (j - i)
    <3>1. a = w
      BY <1>8, <1>12
    <3>2. d = turned - yaw
      OBVIOUS
    <3>. HIDE DEF w, a, left, m, d
    <3>. QED  BY <1>1, <1>2, <1>4, <1>5, <1>9, <1>10, <3>1, <3>2
  <2>2. error - turned \in Int /\ left - d \in Int /\ j - i \in Int
    BY <1>1, <1>4
  <2>3. Abs(Wrapped(error - turned)) <= Abs(left - d)
    <3>. HIDE DEF left, d
    <3>. QED  BY <2>1, <2>2, WrappedLeast
  <2>4. Abs(Wrapped(error - turned)) \in Int /\ Abs(left - d) \in Int
    <3>1. Wrapped(error - turned) \in Int
      BY <2>2, WrappedTurns, FieldAssumption
    <3>. HIDE DEF left, d
    <3>. QED  BY <2>2, <3>1 DEF Abs
  <2>. HIDE DEF left, d
  <2>. QED  BY <1>7, <1>11, <2>3, <2>4 DEF Near
<1>13. ASSUME Sign(error) * w < 0
       PROVE  Near(error + turned)
  <2>1. error + turned = (left + d) + m * (j + i)
    <3>1. a = -w
      BY <1>8, <1>13
    <3>2. d = turned - yaw
      OBVIOUS
    <3>. HIDE DEF w, a, left, m, d
    <3>. QED  BY <1>1, <1>2, <1>4, <1>5, <1>9, <1>10, <3>1, <3>2
  <2>2. error + turned \in Int /\ left + d \in Int /\ j + i \in Int
    BY <1>1, <1>4
  <2>3. Abs(Wrapped(error + turned)) <= Abs(left + d)
    <3>. HIDE DEF left, d
    <3>. QED  BY <2>1, <2>2, WrappedLeast
  <2>4. Abs(Wrapped(error + turned)) \in Int /\ Abs(left + d) \in Int
    <3>1. Wrapped(error + turned) \in Int
      BY <2>2, WrappedTurns, FieldAssumption
    <3>. HIDE DEF left, d
    <3>. QED  BY <2>2, <3>1 DEF Abs
  <2>. HIDE DEF left, d
  <2>. QED  BY <1>7, <1>11, <2>3, <2>4 DEF Near
<1>. QED  BY <1>12, <1>13

\* The board's rows.
LEMMA YawRowFacts ==
  ASSUME TurnFacts, YawRow
  PROVE  TurnFacts'
<1>1. PICK swing \in -MaxSwing..MaxSwing :
        turn' = [turn EXCEPT !.turned = @ + swing, !.yaws = Append(@, turn.turned + swing)]
  BY DEF YawRow
<1>. DEFINE t == turn.turned + swing
            q == Append(turn.yaws, t)
            n == Len(turn.yaws)
<1>2. /\ turn \in TurnType /\ swing \in Int /\ MaxSwing \in Nat /\ n \in Nat
      /\ turn.turned \in Int /\ turn.yaws \in Seq(Int) /\ turn.outcome = "none"
      /\ session.phase = "turn" /\ session' = session /\ n < MaxRows
  BY FieldAssumption DEF TurnFacts, TurnType, YawRow
<1>3. t \in Int /\ q \in Seq(Int) /\ Len(q) = n + 1
  BY <1>2
<1>4. turn' = [turn EXCEPT !.turned = t, !.yaws = q]
  BY <1>1
<1>5. /\ turn' \in TurnType /\ turn'.turned = t /\ turn'.yaws = q
      /\ turn'.outcome = turn.outcome
  <2>. HIDE DEF t, q
  <2>. QED  BY ONLY <1>2, <1>3, <1>4 DEF TurnType
<1>6. \A i \in 1..(n + 1) : Abs(t - q[i]) <= (n + 1 - i) * MaxSwing
  <2>. SUFFICES ASSUME NEW i \in 1..(n + 1) PROVE Abs(t - q[i]) <= (n + 1 - i) * MaxSwing
    OBVIOUS
  <2>1. CASE i = n + 1
    <3>1. q[i] = t
      BY <1>2, <1>3, <2>1
    <3>2. (n + 1 - i) * MaxSwing = 0
      BY <1>2, <2>1
    <3>. QED  BY <1>3, <3>1, <3>2 DEF Abs
  <2>2. CASE i # n + 1
    <3>1. i \in 1..n /\ q[i] = turn.yaws[i] /\ turn.yaws[i] \in Int
      BY <1>2, <1>3, <2>2
    <3>2. Abs(turn.turned - turn.yaws[i]) <= (n - i) * MaxSwing
      BY <3>1 DEF TurnFacts, Swung
    <3>. DEFINE b == (n - i) * MaxSwing
    <3>3. (n + 1 - i) * MaxSwing = b + MaxSwing /\ b \in Int
      BY <1>2, <3>1
    <3>. HIDE DEF b, n, q
    <3>4. Abs(t - q[i]) <= b + MaxSwing
      <4>1. swing <= MaxSwing /\ -swing <= MaxSwing
        BY <1>2
      <4>. QED  BY <1>2, <3>1, <3>2, <3>3, <4>1 DEF Abs, b
    <3>. QED  BY <3>3, <3>4
  <2>. QED  BY <2>1, <2>2
<1>7. Swung'
  <2>1. \A i \in 1..Len(q) : Abs(t - q[i]) <= (Len(q) - i) * MaxSwing
    BY <1>3, <1>6
  <2>. HIDE DEF t, q, n
  <2>. QED  BY <1>5, <2>1 DEF Swung
<1>8. Len(turn'.yaws) <= MaxRows
  BY <1>2, <1>3, <1>5, FieldAssumption
<1>9. AlignedFacesTarget'
  BY <1>2, <1>5 DEF AlignedFacesTarget
<1>. QED  BY <1>2, <1>5, <1>7, <1>8, <1>9 DEF TurnFacts

\* The row read next, and the stop.
LEMMA SampleFacts ==
  ASSUME FieldFacts, TurnFacts, turn_sample
  PROVE  TurnFacts'
<1>. DEFINE y == Head(turn.yaws)
            n == Len(turn.yaws)
            rest == Tail(turn.yaws)
            left == remaining_heading_error(turn.error, Wrapped(y))
            k == turn.samples + 1
<1>1. /\ turn \in TurnType /\ MaxSwing \in Nat /\ MaxRows \in Nat \ {0}
      /\ turn.turned \in Int /\ turn.yaws \in Seq(Int) /\ turn.yaws # <<>>
      /\ turn.error \in Int /\ turn.samples \in Nat
      /\ turn.outcome = "none" /\ n <= MaxRows /\ session \in SessionType
      /\ session.phase = "turn"
  BY FieldAssumption DEF TurnFacts, TurnType, turn_sample, Sample, FieldFacts, FieldTypes
<1>2. /\ y \in Int /\ y = turn.yaws[1] /\ n \in Nat \ {0} /\ rest \in Seq(Int)
      /\ Len(rest) = n - 1 /\ k \in Nat
      /\ \A i \in 1..(n - 1) : rest[i] = turn.yaws[i + 1] /\ i + 1 \in 1..n
  BY <1>1
<1>3. left \in Int
  <2>1. Wrapped(y) \in Int
    <3>. HIDE DEF y
    <3>. QED  BY <1>2, WrappedInt
  <2>2. turn.error - Sign(turn.error) * Abs(Wrapped(y)) \in Int
    BY <1>1, <2>1 DEF Abs, Sign
  <2>. QED  BY <2>2, WrappedInt DEF remaining_heading_error
<1>4. Abs(turn.turned - y) <= (n - 1) * MaxSwing
  BY <1>2 DEF TurnFacts, Swung
<1>5. ASSUME turn' = [turn EXCEPT !.yaws = rest, !.samples = k]
                \/ turn' = [turn EXCEPT !.yaws = rest, !.samples = k, !.yaw = y,
                                        !.remaining = left]
      PROVE  TurnFacts'
  <2>1. /\ turn' \in TurnType /\ turn'.turned = turn.turned /\ turn'.yaws = rest
        /\ turn'.outcome = "none"
    <3>. HIDE DEF y, rest, left, k
    <3>. QED  BY ONLY <1>1, <1>2, <1>3, <1>5 DEF TurnType
  <2>2. \A i \in 1..(n - 1) : Abs(turn.turned - rest[i]) <= (n - 1 - i) * MaxSwing
    <3>. SUFFICES ASSUME NEW i \in 1..(n - 1)
                  PROVE  Abs(turn.turned - rest[i]) <= (n - 1 - i) * MaxSwing
      OBVIOUS
    <3>1. Abs(turn.turned - turn.yaws[i + 1]) <= (n - (i + 1)) * MaxSwing
      BY <1>2 DEF TurnFacts, Swung
    <3>2. n - (i + 1) = n - 1 - i
      BY <1>2
    <3>. HIDE DEF n, rest
    <3>. QED  BY <1>2, <3>1, <3>2
  <2>3. Swung'
    <3>. HIDE DEF n, rest
    <3>. QED  BY <1>2, <2>1, <2>2 DEF Swung
  <2>4. Len(turn'.yaws) <= MaxRows
    BY <1>1, <1>2, <2>1
  <2>5. AlignedFacesTarget'
    BY <2>1 DEF AlignedFacesTarget
  <2>. QED  BY <2>1, <2>3, <2>4, <2>5 DEF TurnFacts
<1>6. ASSUME NEW drift \in -MaxSwing..MaxSwing, WithinTolerance(left),
             turn' = [turn EXCEPT !.yaws = <<>>, !.samples = k, !.yaw = y, !.remaining = left,
                                  !.outcome = "ALIGNED", !.turned = turn.turned + drift],
             session' = AfterAlignment
      PROVE  TurnFacts'
  <2>. DEFINE t == turn.turned + drift
  <2>1. t \in Int /\ drift \in Int
    BY <1>1, <1>6
  <2>2. /\ turn' \in TurnType /\ turn'.turned = t /\ turn'.yaws = <<>> /\ turn'.yaw = y
        /\ turn'.outcome = "ALIGNED" /\ turn'.error = turn.error
    <3>1. turn' = [turn EXCEPT !.yaws = <<>>, !.samples = k, !.yaw = y, !.remaining = left,
                               !.outcome = "ALIGNED", !.turned = t]
      BY <1>6
    <3>2. <<>> \in Seq(Int)
      OBVIOUS
    <3>. HIDE DEF y, left, k, t
    <3>. QED  BY ONLY <1>1, <1>2, <1>3, <2>1, <3>1, <3>2 DEF TurnType
  <2>3. Abs(t - y) <= Lag
    <3>. DEFINE c == MaxRows - n
                b == (n - 1) * MaxSwing
    <3>1. c \in Nat /\ b \in Int
      BY <1>1, <1>2
    <3>2. Lag = b + MaxSwing + c * MaxSwing
      BY <1>1, <1>2 DEF Lag
    <3>3. c * MaxSwing \in Nat
      BY <1>1, <3>1
    <3>4. Abs(turn.turned - y) <= b
      BY <1>4
    <3>5. drift <= MaxSwing /\ -drift <= MaxSwing
      BY <1>1, <1>6
    <3>. HIDE DEF y, b, c
    <3>6. Abs(t - y) <= b + MaxSwing
      <4>1. t - y = (turn.turned - y) + drift /\ turn.turned - y \in Int
        BY <1>1, <1>2, <2>1
      <4>2. MaxSwing \in Int /\ drift \in Int
        BY <1>1, <2>1
      <4>3. Abs((turn.turned - y) + drift) <= b + MaxSwing
        BY ONLY <3>1, <3>4, <3>5, <4>1, <4>2, AbsSwung
      <4>. HIDE DEF t
      <4>. QED  BY <4>1, <4>3
    <3>7. Abs(t - y) \in Int
      BY <1>2, <2>1 DEF Abs
    <3>. QED  BY <1>1, <3>1, <3>2, <3>3, <3>6, <3>7
  <2>4. /\ ~(Sign(turn.error) * Wrapped(y) < 0) => Near(turn.error - t)
        /\ Sign(turn.error) * Wrapped(y) < 0 => Near(turn.error + t)
    <3>1. WithinTolerance(remaining_heading_error(turn.error, Wrapped(y)))
      BY <1>6
    <3>. HIDE DEF t, y
    <3>. QED  BY <1>1, <1>2, <2>1, <2>3, <3>1, WhereAligned
  <2>5. AlignedFacesTarget'
    <3>. HIDE DEF t, y
    <3>. QED  BY <2>2, <2>4 DEF AlignedFacesTarget, OtherSide, Near, Lag
  <2>6. session'.phase # "turn"
    BY <1>1, <1>6 DEF AfterAlignment, SessionType
  <2>7. Len(turn'.yaws) = 0 /\ Swung'
    BY <2>2 DEF Swung
  <2>. QED  BY <1>1, <2>2, <2>5, <2>6, <2>7 DEF TurnFacts
<1>7. \/ turn' = [turn EXCEPT !.yaws = rest, !.samples = k]
      \/ turn' = [turn EXCEPT !.yaws = rest, !.samples = k, !.yaw = y, !.remaining = left]
      \/ /\ WithinTolerance(left)
         /\ \E drift \in -MaxSwing..MaxSwing :
              turn' = [turn EXCEPT !.yaws = <<>>, !.samples = k, !.yaw = y, !.remaining = left,
                                   !.outcome = "ALIGNED", !.turned = turn.turned + drift]
         /\ session' = AfterAlignment
  <2>. DEFINE answered == [turn EXCEPT !.yaws = rest, !.samples = k]
              measured == [answered EXCEPT !.yaw = y, !.remaining = left]
  <2>1. \/ turn' = answered
        \/ turn' = measured
        \/ /\ WithinTolerance(left)
           /\ \E drift \in -MaxSwing..MaxSwing :
                turn' = [measured EXCEPT !.turned = @ + drift, !.yaws = <<>>,
                                         !.outcome = "ALIGNED"]
           /\ session' = AfterAlignment
    BY DEF turn_sample, Sample
  <2>2. measured = [turn EXCEPT !.yaws = rest, !.samples = k, !.yaw = y, !.remaining = left]
    <3>. HIDE DEF rest, k, y, left
    <3>. QED  BY <1>1 DEF TurnType
  <2>3. ASSUME NEW drift \in -MaxSwing..MaxSwing
        PROVE  [measured EXCEPT !.turned = @ + drift, !.yaws = <<>>, !.outcome = "ALIGNED"]
               = [turn EXCEPT !.yaws = <<>>, !.samples = k, !.yaw = y, !.remaining = left,
                              !.outcome = "ALIGNED", !.turned = turn.turned + drift]
    <3>. HIDE DEF rest, k, y, left
    <3>. QED  BY <1>1 DEF TurnType
  <2>. HIDE DEF rest, k, y, left, measured
  <2>. QED  BY <2>1, <2>2, <2>3
<1>. HIDE DEF rest, k, y, left
<1>. QED  BY <1>5, <1>6, <1>7

\* Steps that leave the turn alone do not enter its phase.
LEMMA SameTurn ==
  ASSUME TurnFacts, UNCHANGED turn, session'.phase = "turn" => session.phase = "turn"
  PROVE  TurnFacts'
  BY DEF TurnFacts, Swung, AlignedFacesTarget, OtherSide, Near, Lag

LEMMA TurnStepFacts ==
  ASSUME FieldFacts, TurnFacts, [FieldNext]_vars
  PROVE  TurnFacts'
<1>. session \in SessionType
  BY DEF FieldFacts, FieldTypes
<1>1. CASE UNCHANGED vars \/ PreviewWorks
  <2>1. UNCHANGED <<turn, session>>
    BY <1>1 DEF vars, PreviewWorks, cmd_preview, write_plan_artifact, PreviewDies
  <2>. QED  BY <2>1, SameTurn
<1>2. CASE cmd_run \/ cmd_auto_relative_run \/ cmd_align_heading
  BY <1>2, NoTurnNext
     DEF cmd_run, cmd_auto_relative_run, cmd_align_heading, CommandStarts, Begun
<1>3. CASE Ended
  BY <1>3, NoTurnNext DEF Ended
<1>4. CASE load_plan \/ load_segments \/ resolve_start
  <2>1. Ended \/ (UNCHANGED turn /\ session'.phase # "turn")
    BY <1>4 DEF load_plan, load_segments, resolve_start, Goes, AfterPlan, SessionType
  <2>. QED  BY <1>3, <2>1, SameTurn
<1>5. CASE TelemetryRow \/ read_row \/ wait_for_auto \/ PilotFlips
  <2>1. Ended \/ (UNCHANGED turn /\ session'.phase # "turn")
    BY <1>5 DEF TelemetryRow, read_row, wait_for_auto, PilotFlips, OnPort, Waiting, Goes,
                SessionType
  <2>. QED  BY <1>3, <2>1, SameTurn
<1>6. CASE calibration_gate \/ user_confirmed \/ start_probe
  <2>1. Ended \/ (UNCHANGED turn /\ session'.phase # "turn")
    BY <1>6 DEF calibration_gate, user_confirmed, start_probe, Goes, AfterAlignment, SessionType
  <2>. QED  BY <1>3, <2>1, SameTurn
<1>7. CASE plan_alignment
  <2>1. PICK error \in -Half..Half :
          \/ /\ session' = AfterAlignment
             /\ turn' = [NoTurn EXCEPT !.error = error, !.remaining = error,
                                       !.outcome = "ALREADY_ALIGNED"]
          \/ turn' = [NoTurn EXCEPT !.error = error, !.remaining = error]
    BY <1>7 DEF plan_alignment
  <2>2. AfterAlignment.phase # "turn" /\ error \in Int
    BY FieldAssumption DEF AfterAlignment, SessionType
  <2>3. /\ turn' \in TurnType /\ turn'.outcome \in {"none", "ALREADY_ALIGNED"}
        /\ turn'.yaws = <<>>
        /\ session'.phase = "turn" => turn'.outcome = "none"
    BY <2>1, <2>2, NoTurnType DEF NoTurn, TurnType
  <2>4. Len(turn'.yaws) <= MaxRows /\ Swung'
    BY <2>3, FieldAssumption DEF Swung
  <2>. QED  BY <2>3, <2>4 DEF TurnFacts, AlignedFacesTarget
<1>8. CASE YawRow \/ turn_sample
  BY <1>8, YawRowFacts, SampleFacts
<1>9. CASE align_fails \/ turn_fails \/ no_plan \/ finish \/ SessionDies
  BY <1>3, <1>9 DEF align_fails, turn_fails, no_plan, finish, SessionDies
<1>. QED
  BY <1>1, <1>2, <1>4, <1>5, <1>6, <1>7, <1>8, <1>9 DEF FieldNext

\* Whichever way the rover swings, and however many rows of its yaw wait to be read,
\* a turn that ends ALIGNED has it near the heading of the first segment, or near the
\* mirror image of it when the last yaw read was on the other side of the start
\* (_execute_alignment_turn).
THEOREM AlignedMeansFacing == FieldSpec => []AlignedFacesTarget
<1>1. FieldInit => TurnFacts
  BY NoTurnFacts DEF FieldInit
<1>2. TurnFacts => AlignedFacesTarget
  BY DEF TurnFacts
<1>. QED  BY <1>1, <1>2, FieldInvariant, TurnStepFacts, PTL DEF FieldSpec
=============================================================================
