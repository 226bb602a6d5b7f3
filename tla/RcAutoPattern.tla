---------------------------- MODULE RcAutoPattern ----------------------------
(***************************************************************************)
(* The untethered pattern build (RC_AUTO_PATTERN): MANUAL drives with the  *)
(* sticks, AUTO runs the onboard steps once per arm.  One action is one    *)
(* pass of loop(): the receiver is lost, in MANUAL or in AUTO, and         *)
(* rcAutoPatternNoteRcLost, NoteManual or Tick runs, then the output is    *)
(* set.                                                                    *)
(*                                                                         *)
(* A time mark t is kept as the age now - t at the latest pass.  The       *)
(* amounts of A and B (heading hold, stall escalation) are left out, and   *)
(* the yaw enters as how far the body is from the step's heading; the mode *)
(* a pass reports follows from switch and state.                           *)
(***************************************************************************)
EXTENDS Integers, Sequences

CONSTANTS
  Steps,      \* what rcAutoPatternBuildSteps lays out (module PatternSteps)
  Grace,      \* RC_AUTO_PATTERN_RC_LOSS_GRACE_MS
  ArmMs,      \* RC_AUTO_PATTERN_ARM_MANUAL_MS
  PauseMs,    \* RC_AUTO_PATTERN_PAUSE_MS
  Retries,    \* RC_AUTO_PATTERN_TURN_SETTLE_RETRIES
  MaxPass     \* bound: ticks between two passes of loop()

ASSUME PatternConstants ==
  /\ Steps \in Seq([type : {"drive", "turn"}, a : Int, ms : Nat, target : Int, body : Int])
  /\ Grace \in Nat /\ ArmMs \in Nat /\ PauseMs \in Nat /\ Retries \in Nat
  /\ MaxPass \in Nat \ {0}

NoMark == -1

States == {"IDLE", "RUNNING", "DONE"}
Switches == {"lost", "manual", "auto"}
Outputs == {"stop", "rc", "drive", "turn"}

\* The body against the heading of the step: within TURN_TOL, within it but for
\* the coast, outside, beyond DRIVE_ABORT_ERR.
Yaws == {"on", "coasting", "off", "far"}

VARIABLES
  switch,      \* the receiver at the latest pass
  calibrated,  \* imuCalibratedFlag
  state,
  armed,
  index,       \* rcAutoPatternStepIndex, from 1
  phase,
  stepAge,     \* age of StepStartMs while running
  retries,     \* rcAutoPatternTurnRetries
  manualAge,   \* age of ManualSinceMs, up to ArmMs
  lostAge,     \* age of RcLostSinceMs, up to Grace + 1
  out,
  moved,       \* history: how long the step in execution has been driving
  held         \* history: the latest unbroken MANUAL period since a run started
               \* or the signal was lost for long, kept once it reaches ArmMs

run == <<index, phase, stepAge, retries, moved>>
vars == <<switch, calibrated, state, armed, run, manualAge, lostAge, out, held>>

TypeOK ==
  /\ switch \in Switches /\ calibrated \in BOOLEAN
  /\ state \in States /\ armed \in BOOLEAN
  /\ index \in 1..Len(Steps) + 1
  /\ phase \in {"exec", "pause"}
  /\ stepAge \in Nat /\ moved \in Nat
  /\ retries \in 0..Retries
  /\ manualAge \in -1..ArmMs /\ held \in -1..ArmMs
  /\ lostAge \in -1..Grace + 1
  /\ out \in Outputs

Init ==
  /\ switch = "lost" /\ calibrated = FALSE
  /\ state = "IDLE" /\ armed = FALSE
  /\ index = 1 /\ phase = "exec" /\ stepAge = 0 /\ retries = 0 /\ moved = 0
  /\ manualAge = NoMark /\ lostAge = NoMark /\ held = NoMark
  /\ out = "stop"

UpTo(bound, n) == IF n > bound THEN bound ELSE n

\* The age of a mark d ticks later, a mark not set before being set now.
MarkAge(age, d, bound) == IF age = NoMark THEN 0 ELSE UpTo(bound, age + d)

Later(age, d, bound) == IF age = NoMark THEN NoMark ELSE UpTo(bound, age + d)

\* Nothing reads the step's clock unless a run is on.
NoRun == stepAge' = 0 /\ moved' = 0 /\ UNCHANGED <<index, phase, retries>>

\* How long the step has been driving when the next pass comes, d ticks later.
MovedAfter(d) == IF out \in {"drive", "turn"} THEN moved + d ELSE moved

-----------------------------------------------------------------------------
\* Mutant for MotionIsARun: an outage inside the grace leaves the motors alone.
CoastWhenLost == out' = IF state = "RUNNING" THEN out ELSE "stop"

StopWhenLost == out' = "stop"

\* Mutant for StartsLicensed: a long outage ends the run but keeps the arm.
EndRunOnly(lost) == state' = (IF lost > Grace THEN "IDLE" ELSE state) /\ UNCHANGED armed

ResetAndDisarm(lost) ==
  IF lost > Grace THEN state' = "IDLE" /\ armed' = FALSE ELSE UNCHANGED <<state, armed>>

rcAutoPatternNoteRcLost(d) ==
  LET lost == MarkAge(lostAge, d, Grace + 1) IN
  /\ switch' = "lost"
  /\ manualAge' = NoMark
  /\ lostAge' = lost
  /\ ResetAndDisarm(lost)
  /\ held' = IF lost > Grace THEN NoMark ELSE held
  /\ StopWhenLost
  /\ IF state = "RUNNING" /\ lost <= Grace
     THEN /\ stepAge' = stepAge + d /\ moved' = MovedAfter(d)
          /\ UNCHANGED <<index, phase, retries>>
     ELSE NoRun

rcAutoPatternNoteManual(d) ==
  /\ switch' = "manual"
  /\ lostAge' = NoMark
  /\ state' = "IDLE"
  /\ manualAge' = MarkAge(manualAge, d, ArmMs)
  /\ armed' = (armed \/ manualAge' >= ArmMs)
  /\ held' = IF held >= ArmMs THEN held
             ELSE IF switch = "manual" THEN MarkAge(held, d, ArmMs) ELSE 0
  /\ out' \in {"rc", "stop"}                    \* applyManualOverride
  /\ NoRun

-----------------------------------------------------------------------------
(* rcAutoPatternTick.                                                       *)

\* Mutant for ClockIsMotion: an outage counts as time driven.
ClockKeptRunning(d) == stepAge + d

\* The step's age at this pass: StepStartMs is shifted by an outage that ends.
StepClock(d) == IF lostAge = NoMark THEN stepAge + d ELSE stepAge - lostAge

\* Mutant for RunEnds: the count of retries is reset with the rest of the step.
BeginAfresh(i, n) == index' = i /\ phase' = "exec" /\ stepAge' = 0 /\ retries' = 0 /\ moved' = 0

Begin(i, n) == index' = i /\ phase' = "exec" /\ stepAge' = 0 /\ retries' = n /\ moved' = 0

\* The step in execution is over: motorStop, and a pause begins.
Settle(i, n) ==
  /\ out' = "stop"
  /\ index' = i /\ phase' = "pause" /\ stepAge' = 0 /\ retries' = n /\ moved' = 0

Continue(i, ph, age, n, t) ==
  index' = i /\ phase' = ph /\ stepAge' = age /\ retries' = n /\ moved' = t

DriveStep(i, age, n, t, yaw) ==
  /\ Steps[i].type = "drive"
  /\ IF yaw = "far" \/ age >= Steps[i].ms
     THEN Settle(i, n)
     ELSE out' = "drive" /\ Continue(i, "exec", age, n, t)

TurnStep(i, age, n, t, yaw) ==
  /\ Steps[i].type = "turn"
  /\ IF yaw \in {"on", "coasting"} \/ age >= Steps[i].ms
     THEN Settle(i, n)
     ELSE out' = "turn" /\ Continue(i, "exec", age, n, t)

SettleRetry(i, n, yaw) == Steps[i].type = "turn" /\ n < Retries /\ yaw # "on"

Pause(i, age, n, yaw) ==
  /\ out' = "stop"
  /\ IF age < PauseMs THEN Continue(i, "pause", age, n, 0)
     ELSE IF SettleRetry(i, n, yaw) THEN Begin(i, n + 1)
     ELSE Begin(i + 1, 0)

\* One tick of a run that stands at step i; t is how long that step has driven.
Execute(i, ph, age, n, t, yaw) ==
  IF i > Len(Steps)
  THEN state' = "DONE" /\ out' = "stop" /\ Continue(i, ph, 0, n, 0)
  ELSE /\ state' = "RUNNING"
       /\ \/ ph = "pause" /\ Pause(i, age, n, yaw)
          \/ ph = "exec" /\ DriveStep(i, age, n, t, yaw)
          \/ ph = "exec" /\ TurnStep(i, age, n, t, yaw)

StayDone(d) ==
  /\ state = "DONE"
  /\ out' = "stop" /\ NoRun
  /\ manualAge' = Later(manualAge, d, ArmMs)
  /\ UNCHANGED <<state, armed, held>>

\* Without an arm or a calibrated IMU the rover waits.  ManualSinceMs stays.
Wait(d) ==
  /\ state = "IDLE" /\ ~(armed /\ calibrated')
  /\ out' = "stop" /\ NoRun
  /\ manualAge' = Later(manualAge, d, ArmMs)
  /\ UNCHANGED <<state, armed, held>>

\* The frame of the run is the body's heading now, so the first step is on it.
Start ==
  /\ state = "IDLE" /\ armed /\ calibrated'
  /\ armed' = FALSE /\ manualAge' = NoMark /\ held' = NoMark
  /\ Execute(1, "exec", 0, 0, 0, "on")

Run(d, yaw) ==
  /\ state = "RUNNING"
  /\ Execute(index, phase, StepClock(d), retries, MovedAfter(d), yaw)
  /\ manualAge' = Later(manualAge, d, ArmMs)
  /\ UNCHANGED <<armed, held>>

rcAutoPatternTick(d, yaw) ==
  /\ switch' = "auto"
  /\ lostAge' = NoMark
  /\ StayDone(d) \/ Wait(d) \/ Start \/ Run(d, yaw)

-----------------------------------------------------------------------------
\* imuControllerUpdate: the gyro calibration ends once, whenever it does.
imuControllerUpdate == calibrated' \in {calibrated, TRUE}

Pass(d) ==
  /\ imuControllerUpdate
  /\ \/ rcAutoPatternNoteRcLost(d)
     \/ rcAutoPatternNoteManual(d)
     \/ \E yaw \in Yaws : rcAutoPatternTick(d, yaw)

Next == \E d \in 1..MaxPass : Pass(d)

Spec == Init /\ [][Next]_vars

\* loop() never returns, and each pass takes time.
FairSpec == Spec /\ WF_vars(Next)

-----------------------------------------------------------------------------
(* Properties.                                                              *)

\* The pattern moves the rover only in a run, in AUTO with a signal at the latest
\* pass, with a calibrated IMU, and never while it pauses: an outage or a flip
\* to MANUAL stops it in the pass that sees it, whatever the step was doing.
MotionIsARun ==
  out \in {"drive", "turn"} =>
    /\ state = "RUNNING" /\ switch = "auto" /\ calibrated
    /\ phase = "exec" /\ index <= Len(Steps) /\ out = Steps[index].type

\* README_physical_path_planning.md:238-239: an outage "only PAUSES the run":
\* however often the signal drops, the step's clock runs on with the time the
\* step has been driving, and is never more than a pass ahead of it.
ClockIsMotion ==
  state = "RUNNING" /\ phase = "exec" =>
    LET clock == IF lostAge = NoMark THEN stepAge ELSE stepAge - lostAge
    IN  clock - moved \in 0..MaxPass

\* README_physical_path_planning.md:234-242: every run needs a MANUAL pass after
\* the last run started and after the last outage beyond the grace, so neither
\* booting in AUTO nor a receiver that comes back late ever moves.
StartsLicensed == [][state # "RUNNING" /\ state' = "RUNNING" => held # NoMark]_vars

\* A run ends, however the body turns, however often its corners are retried and
\* however often the signal drops and returns.
RunEnds == state = "RUNNING" ~> state # "RUNNING"

\* openrb_robot_controller.ino:5515: NoteManual "tracks the stable-MANUAL arming
\* window", and README_physical_path_planning.md:241: "fresh MANUAL(>=1 s) -> AUTO
\* sequence": a run follows an unbroken MANUAL period of ArmMs.
StartsHeld == [][state # "RUNNING" /\ state' = "RUNNING" => held >= ArmMs]_vars
=============================================================================
