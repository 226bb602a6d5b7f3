------------------------- MODULE RcAutoPatternProofs -------------------------
(***************************************************************************)
(* Proofs about RcAutoPattern, for every list of steps, every grace, hold, *)
(* pause and number of retries, and passes of any length.                  *)
(***************************************************************************)
EXTENDS RcAutoPattern, SequenceTheorems, TLAPS

\* A run has a calibrated IMU, and no outage of it has been too long.
RunFacts == state = "RUNNING" => calibrated /\ lostAge <= Grace

\* An outage is over once the receiver has been read.
SignalFacts == switch # "lost" => lostAge = NoMark

\* The step's age without the outage that is on.
Clock == IF lostAge = NoMark THEN stepAge ELSE stepAge - lostAge

\* The clock leaves the time driven behind only between the pass that begins a
\* step, which does not drive yet, and the next one.
ClockFacts ==
  state = "RUNNING" =>
    /\ moved <= Clock
    /\ phase = "exec" =>
         /\ Clock - moved <= MaxPass
         /\ out \in {"drive", "turn"} \/ lostAge # NoMark \/ stepAge = 0

License == armed => held # NoMark

IInv ==
  TypeOK /\ RunFacts /\ SignalFacts /\ ClockFacts /\ License /\ MotionIsARun

LEMMA ConstantTypes ==
  /\ Grace \in Nat /\ ArmMs \in Nat /\ PauseMs \in Nat /\ Retries \in Nat
  /\ MaxPass \in Nat \ {0} /\ Len(Steps) \in Nat
  BY PatternConstants

USE ConstantTypes

\* The steps of a run are drives and turns of some length.
LEMMA StepType ==
  ASSUME NEW i \in 1..Len(Steps)
  PROVE  Steps[i].ms \in Nat /\ Steps[i].type \in {"drive", "turn"}
<1>. DEFINE S == [type : {"drive", "turn"}, a : Int, ms : Nat, target : Int, body : Int]
<1>1. Steps \in Seq(S)
  BY PatternConstants
<1>2. Steps[i] \in S
  <2>. HIDE DEF S
  <2>. QED  BY <1>1, ElementOfSeq
<1>. QED  BY <1>2

LEMMA MarkRanges ==
  /\ NoMark \in -1..ArmMs /\ 0..ArmMs \subseteq -1..ArmMs
  /\ NoMark \in -1..Grace + 1 /\ 0..Grace + 1 \subseteq -1..Grace + 1
  BY DEF NoMark

\* Where the marks are at the next pass.
LEMMA MarkTypes ==
  ASSUME TypeOK, NEW d \in 1..MaxPass
  PROVE  /\ MarkAge(lostAge, d, Grace + 1) \in 0..Grace + 1
         /\ MarkAge(manualAge, d, ArmMs) \in 0..ArmMs
         /\ MarkAge(held, d, ArmMs) \in 0..ArmMs
         /\ Later(manualAge, d, ArmMs) \in -1..ArmMs
<1>1. /\ lostAge \in Int /\ lostAge >= -1 /\ lostAge <= Grace + 1
      /\ manualAge \in Int /\ manualAge >= -1 /\ manualAge <= ArmMs
      /\ held \in Int /\ held >= -1 /\ held <= ArmMs
  BY DEF TypeOK
<1>2. ASSUME NEW age \in Int, age >= -1, NEW bound \in Nat, age <= bound
      PROVE  MarkAge(age, d, bound) \in 0..bound /\ Later(age, d, bound) \in -1..bound
  BY <1>2 DEF MarkAge, Later, UpTo, NoMark
<1>3. Grace + 1 \in Nat
  OBVIOUS
<1>. QED  BY <1>1, <1>2, <1>3

LEMMA InitInv == Init => IInv
<1>. SUFFICES ASSUME Init PROVE IInv
  OBVIOUS
<1>1. TypeOK
  <2>1. /\ switch \in Switches /\ state \in States /\ out \in Outputs /\ phase \in {"exec", "pause"}
        /\ armed \in BOOLEAN /\ calibrated \in BOOLEAN
    BY DEF Init, Switches, States, Outputs
  <2>2. /\ index \in 1..Len(Steps) + 1 /\ stepAge \in Nat /\ moved \in Nat /\ retries \in 0..Retries
        /\ manualAge \in -1..ArmMs /\ held \in -1..ArmMs /\ lostAge \in -1..Grace + 1
    BY MarkRanges DEF Init
  <2>. QED  BY <2>1, <2>2 DEF TypeOK
<1>2. RunFacts /\ SignalFacts /\ ClockFacts /\ License /\ MotionIsARun
  BY DEF Init, RunFacts, SignalFacts, ClockFacts, License, MotionIsARun
<1>. QED  BY <1>1, <1>2 DEF IInv

\* One tick of a run, from a clock that is at most a pass ahead of the motion.
LEMMA ExecuteStep ==
  ASSUME NEW i \in 1..Len(Steps) + 1, NEW ph \in {"exec", "pause"}, NEW age \in Nat,
         NEW n \in 0..Retries, NEW t \in Nat, NEW yaw \in Yaws,
         ph = "exec" => age - t \in 0..MaxPass,
         Execute(i, ph, age, n, t, yaw),
         switch' = "auto", calibrated', lostAge' = NoMark
  PROVE  /\ index' \in 1..Len(Steps) + 1 /\ phase' \in {"exec", "pause"}
         /\ stepAge' \in Nat /\ moved' \in Nat /\ retries' \in 0..Retries
         /\ state' \in States /\ out' \in Outputs
         /\ RunFacts' /\ ClockFacts' /\ MotionIsARun'
<1>. USE DEF RunFacts, ClockFacts, MotionIsARun, Clock, NoMark, States, Outputs
<1>1. CASE i > Len(Steps)
  BY <1>1 DEF Execute, Continue
<1>2. CASE i <= Len(Steps)
  <2>. DEFINE s == Steps[i]
  <2>0. i \in 1..Len(Steps) /\ s.ms \in Nat /\ s.type \in {"drive", "turn"}
    BY <1>2, StepType
  <2>. HIDE DEF s
  <2>1. CASE ph = "pause" /\ Pause(i, age, n, yaw)
    <3>0. state' = "RUNNING" /\ out' = "stop"
      BY <1>2, <2>1 DEF Execute, Pause
    <3>1. CASE Continue(i, "pause", age, n, 0)
      BY <2>0, <3>0, <3>1 DEF Continue
    <3>2. CASE n < Retries /\ Begin(i, n + 1)
      BY <2>0, <3>0, <3>2 DEF Begin
    <3>3. CASE Begin(i + 1, 0)
      BY <2>0, <3>0, <3>3 DEF Begin
    <3>. QED  BY <2>1, <3>1, <3>2, <3>3 DEF Pause, SettleRetry
  <2>2. CASE ph = "exec" /\ DriveStep(i, age, n, t, yaw)
    <3>0. state' = "RUNNING" /\ s.type = "drive"
      BY <1>2, <2>2 DEF Execute, DriveStep, s
    <3>1. CASE Settle(i, n)
      BY <2>0, <3>0, <3>1 DEF Settle
    <3>2. CASE out' = "drive" /\ Continue(i, "exec", age, n, t)
      <4>1. MotionIsARun'
        BY <2>0, <3>0, <3>2 DEF Continue, s
      <4>. QED  BY <2>0, <2>2, <3>0, <3>2, <4>1 DEF Continue
    <3>. QED  BY <2>2, <3>1, <3>2 DEF DriveStep
  <2>3. CASE ph = "exec" /\ TurnStep(i, age, n, t, yaw)
    <3>0. state' = "RUNNING" /\ s.type = "turn"
      BY <1>2, <2>3 DEF Execute, TurnStep, s
    <3>1. CASE Settle(i, n)
      BY <2>0, <3>0, <3>1 DEF Settle
    <3>2. CASE out' = "turn" /\ Continue(i, "exec", age, n, t)
      <4>1. MotionIsARun'
        BY <2>0, <3>0, <3>2 DEF Continue, s
      <4>. QED  BY <2>0, <2>3, <3>0, <3>2, <4>1 DEF Continue
    <3>. QED  BY <2>3, <3>1, <3>2 DEF TurnStep
  <2>. QED  BY <1>2, <2>1, <2>2, <2>3 DEF Execute
<1>. QED  BY <1>1, <1>2

\* What the step's clock and the motion amount to at the next pass.
LEMMA NextClock ==
  ASSUME IInv, state = "RUNNING", NEW d \in 1..MaxPass
  PROVE  /\ MovedAfter(d) \in Nat /\ StepClock(d) \in Nat
         /\ MovedAfter(d) <= StepClock(d)
         /\ phase = "exec" => StepClock(d) - MovedAfter(d) <= MaxPass
<1>1. lostAge # NoMark => out \notin {"drive", "turn"}
  BY DEF IInv, MotionIsARun, SignalFacts
<1>2. /\ d \in Nat /\ d <= MaxPass /\ stepAge \in Nat /\ moved \in Nat
      /\ lostAge \in Int /\ moved <= Clock
      /\ phase \in {"exec", "pause"}
  BY DEF IInv, TypeOK, ClockFacts
<1>3. phase = "exec" =>
        Clock - moved <= MaxPass /\ (out \in {"drive", "turn"} \/ lostAge # NoMark \/ stepAge = 0)
  BY DEF IInv, ClockFacts
<1>4. CASE lostAge = NoMark
  <2>1. CASE out \in {"drive", "turn"}
    BY <1>2, <1>3, <1>4, <2>1 DEF Clock, StepClock, MovedAfter
  <2>2. CASE out \notin {"drive", "turn"}
    BY <1>2, <1>3, <1>4, <2>2 DEF Clock, StepClock, MovedAfter
  <2>. QED  BY <2>1, <2>2
<1>5. CASE lostAge # NoMark
  BY <1>1, <1>2, <1>3, <1>5 DEF Clock, StepClock, MovedAfter
<1>. QED  BY <1>4, <1>5

LEMMA LostStep ==
  ASSUME IInv, NEW d \in 1..MaxPass, rcAutoPatternNoteRcLost(d), calibrated' \in {calibrated, TRUE}
  PROVE  IInv'
<1>. DEFINE lost == MarkAge(lostAge, d, Grace + 1)
<1>1. lost \in 0..Grace + 1
  BY MarkTypes DEF IInv
<1>2. /\ switch' = "lost" /\ manualAge' = NoMark /\ lostAge' = lost /\ out' = "stop"
      /\ calibrated' \in BOOLEAN
      /\ held' = IF lost > Grace THEN NoMark ELSE held
      /\ IF lost > Grace THEN state' = "IDLE" /\ armed' = FALSE ELSE state' = state /\ armed' = armed
  BY DEF rcAutoPatternNoteRcLost, ResetAndDisarm, StopWhenLost, IInv, TypeOK
<1>3. CASE state = "RUNNING" /\ lost <= Grace
  <2>1. /\ stepAge' = stepAge + d /\ moved' = MovedAfter(d)
        /\ index' = index /\ phase' = phase /\ retries' = retries
    BY <1>3 DEF rcAutoPatternNoteRcLost
  <2>2. Clock' = IF lostAge = NoMark THEN stepAge + d ELSE stepAge - lostAge
    <3>1. CASE lostAge = NoMark
      <4>1. lost = 0
        BY <3>1 DEF MarkAge
      <4>. QED  BY <1>2, <2>1, <3>1, <4>1 DEF Clock, NoMark, IInv, TypeOK
    <3>2. CASE lostAge # NoMark
      <4>1. lost = lostAge + d
        BY <1>3, <3>2 DEF MarkAge, UpTo, IInv, TypeOK
      <4>2. lost # NoMark
        BY <1>1 DEF NoMark
      <4>. HIDE DEF lost
      <4>. QED  BY <1>2, <2>1, <3>2, <4>1, <4>2 DEF Clock, IInv, TypeOK
    <3>. QED  BY <3>1, <3>2
  <2>3. TypeOK'
    BY <1>1, <1>2, <1>3, <2>1, NextClock DEF IInv, TypeOK, Switches, Outputs, NoMark
  <2>4. ClockFacts'
    <3>1. Clock' = StepClock(d)
      BY <2>2 DEF StepClock
    <3>2. lostAge' # NoMark
      BY <1>1, <1>2 DEF NoMark
    <3>. QED  BY <1>3, <2>1, <3>1, <3>2, NextClock DEF ClockFacts
  <2>5. RunFacts' /\ SignalFacts' /\ License' /\ MotionIsARun'
    BY <1>1, <1>2, <1>3 DEF IInv, RunFacts, SignalFacts, License, MotionIsARun, TypeOK
  <2>. QED  BY <2>3, <2>4, <2>5 DEF IInv
<1>4. CASE ~(state = "RUNNING" /\ lost <= Grace)
  <2>1. stepAge' = 0 /\ moved' = 0 /\ index' = index /\ phase' = phase /\ retries' = retries
    BY <1>4 DEF rcAutoPatternNoteRcLost, NoRun
  <2>2. state' \in States \ {"RUNNING"}
    BY <1>1, <1>2, <1>4 DEF IInv, TypeOK, States
  <2>3. TypeOK'
    BY MarkRanges, <1>1, <1>2, <2>1, <2>2 DEF IInv, TypeOK, Switches, Outputs
  <2>4. RunFacts' /\ ClockFacts' /\ SignalFacts' /\ License' /\ MotionIsARun'
    BY <1>1, <1>2, <2>2 DEF IInv, RunFacts, ClockFacts, SignalFacts, License, MotionIsARun, TypeOK
  <2>. QED  BY <2>3, <2>4 DEF IInv
<1>. QED  BY <1>3, <1>4

LEMMA ManualStep ==
  ASSUME IInv, NEW d \in 1..MaxPass, rcAutoPatternNoteManual(d), calibrated' \in {calibrated, TRUE}
  PROVE  IInv'
<1>1. /\ switch' = "manual" /\ lostAge' = NoMark /\ state' = "IDLE" /\ out' \in {"rc", "stop"}
      /\ manualAge' \in 0..ArmMs /\ armed' \in BOOLEAN
      /\ stepAge' = 0 /\ moved' = 0 /\ index' = index /\ phase' = phase /\ retries' = retries
  BY MarkTypes DEF rcAutoPatternNoteManual, NoRun, IInv, TypeOK
<1>2. held' \in 0..ArmMs
  <2>1. MarkAge(held, d, ArmMs) \in 0..ArmMs
    BY MarkTypes DEF IInv
  <2>. QED  BY <2>1 DEF rcAutoPatternNoteManual, IInv, TypeOK
<1>3. TypeOK'
  BY MarkRanges, <1>1, <1>2 DEF IInv, TypeOK, Switches, States, Outputs
<1>4. RunFacts' /\ ClockFacts' /\ SignalFacts' /\ License' /\ MotionIsARun'
  BY <1>1, <1>2 DEF RunFacts, ClockFacts, SignalFacts, License, MotionIsARun, NoMark
<1>. QED  BY <1>3, <1>4 DEF IInv

LEMMA TickStep ==
  ASSUME IInv, NEW d \in 1..MaxPass, NEW yaw \in Yaws, rcAutoPatternTick(d, yaw),
         calibrated' \in {calibrated, TRUE}
  PROVE  IInv'
<1>1. switch' = "auto" /\ lostAge' = NoMark /\ calibrated' \in BOOLEAN
  BY DEF rcAutoPatternTick, IInv, TypeOK
<1>2. Later(manualAge, d, ArmMs) \in -1..ArmMs
  BY MarkTypes DEF IInv
<1>3. SignalFacts'
  BY <1>1 DEF SignalFacts
<1>4. CASE StayDone(d) \/ Wait(d)
  <2>1. /\ state' = state /\ state # "RUNNING" /\ out' = "stop" /\ armed' = armed /\ held' = held
        /\ manualAge' = Later(manualAge, d, ArmMs)
        /\ stepAge' = 0 /\ moved' = 0 /\ index' = index /\ phase' = phase /\ retries' = retries
    BY <1>4 DEF StayDone, Wait, NoRun
  <2>2. TypeOK'
    BY <1>1, <1>2, <2>1 DEF IInv, TypeOK, Switches, Outputs, NoMark
  <2>3. RunFacts' /\ ClockFacts' /\ License' /\ MotionIsARun'
    BY <2>1 DEF IInv, RunFacts, ClockFacts, License, MotionIsARun
  <2>. QED  BY <1>3, <2>2, <2>3 DEF IInv
<1>5. CASE Start
  <2>1. /\ armed' = FALSE /\ manualAge' = NoMark /\ held' = NoMark /\ calibrated'
        /\ Execute(1, "exec", 0, 0, 0, "on")
    BY <1>5 DEF Start
  <2>2. 1 \in 1..Len(Steps) + 1 /\ 0 - 0 \in 0..MaxPass /\ 0 \in 0..Retries /\ "on" \in Yaws
    BY DEF Yaws
  <2>3. /\ index' \in 1..Len(Steps) + 1 /\ phase' \in {"exec", "pause"}
        /\ stepAge' \in Nat /\ moved' \in Nat /\ retries' \in 0..Retries
        /\ state' \in States /\ out' \in Outputs
        /\ RunFacts' /\ ClockFacts' /\ MotionIsARun'
    BY <1>1, <2>1, <2>2, ExecuteStep
  <2>4. TypeOK' /\ License'
    BY MarkRanges, <1>1, <2>1, <2>3 DEF TypeOK, License, Switches
  <2>. QED  BY <1>3, <2>3, <2>4 DEF IInv
<1>6. CASE Run(d, yaw)
  <2>1. /\ state = "RUNNING" /\ armed' = armed /\ held' = held
        /\ manualAge' = Later(manualAge, d, ArmMs)
        /\ Execute(index, phase, StepClock(d), retries, MovedAfter(d), yaw)
    BY <1>6 DEF Run
  <2>2. calibrated'
    BY <2>1 DEF IInv, RunFacts
  <2>3. /\ index \in 1..Len(Steps) + 1 /\ phase \in {"exec", "pause"} /\ retries \in 0..Retries
        /\ StepClock(d) \in Nat /\ MovedAfter(d) \in Nat
        /\ phase = "exec" => StepClock(d) - MovedAfter(d) \in 0..MaxPass
    BY <2>1, NextClock DEF IInv, TypeOK
  <2>4. /\ index' \in 1..Len(Steps) + 1 /\ phase' \in {"exec", "pause"}
        /\ stepAge' \in Nat /\ moved' \in Nat /\ retries' \in 0..Retries
        /\ state' \in States /\ out' \in Outputs
        /\ RunFacts' /\ ClockFacts' /\ MotionIsARun'
    BY <1>1, <2>1, <2>2, <2>3, ExecuteStep
  <2>5. TypeOK' /\ License'
    BY <1>1, <1>2, <2>1, <2>4 DEF IInv, TypeOK, License, Switches, NoMark
  <2>. QED  BY <1>3, <2>4, <2>5 DEF IInv
<1>. QED  BY <1>4, <1>5, <1>6 DEF rcAutoPatternTick

\* The invariant the theorems below follow from.
THEOREM Invariance == Spec => []IInv
<1>1. IInv /\ [Next]_vars => IInv'
  <2>. SUFFICES ASSUME IInv, [Next]_vars PROVE IInv'
    OBVIOUS
  <2>1. ASSUME NEW d \in 1..MaxPass, Pass(d) PROVE IInv'
    BY <2>1, LostStep, ManualStep, TickStep DEF Pass, imuControllerUpdate
  <2>2. CASE UNCHANGED vars
    BY <2>2 DEF vars, run, IInv, TypeOK, RunFacts, SignalFacts, ClockFacts, Clock, License, MotionIsARun
  <2>. QED  BY <2>1, <2>2 DEF Next
<1>. QED  BY InitInv, <1>1, PTL DEF Spec

\* Type correctness of the pattern build.
THEOREM TypeCorrect == Spec => []TypeOK
  BY Invariance, PTL DEF IInv

\* The pattern moves the rover only in a run, in AUTO, with a signal and a
\* calibrated IMU.
THEOREM OnlyRunsMove == Spec => []MotionIsARun
  BY Invariance, PTL DEF IInv

\* A step's clock counts the time driven, whatever outages interrupt it.
THEOREM OutagesOnlyPause == Spec => []ClockIsMotion
<1>1. IInv => ClockIsMotion
  <2>. SUFFICES ASSUME IInv, state = "RUNNING", phase = "exec" PROVE Clock - moved \in 0..MaxPass
    BY DEF ClockIsMotion, Clock
  <2>1. moved \in Nat /\ stepAge \in Nat /\ lostAge \in Int /\ MaxPass \in Nat
    BY DEF IInv, TypeOK
  <2>2. moved <= Clock /\ Clock - moved <= MaxPass
    BY DEF IInv, ClockFacts
  <2>. QED  BY <2>1, <2>2 DEF Clock
<1>. QED  BY Invariance, <1>1, PTL

\* No run starts without a MANUAL pass of its own.
THEOREM RunsAreLicensed == Spec => StartsLicensed
<1>1. IInv /\ [Next]_vars => [state # "RUNNING" /\ state' = "RUNNING" => held # NoMark]_vars
  <2>. SUFFICES ASSUME IInv, Next, state # "RUNNING", state' = "RUNNING" PROVE held # NoMark
    OBVIOUS
  <2>1. PICK d \in 1..MaxPass : Pass(d)
    BY DEF Next
  <2>2. ~rcAutoPatternNoteRcLost(d) /\ ~rcAutoPatternNoteManual(d)
    BY DEF rcAutoPatternNoteRcLost, ResetAndDisarm, rcAutoPatternNoteManual
  <2>3. PICK yaw \in Yaws : rcAutoPatternTick(d, yaw)
    BY <2>1, <2>2 DEF Pass
  <2>4. Start
    BY <2>3 DEF rcAutoPatternTick, StayDone, Wait, Run
  <2>. QED  BY <2>4 DEF Start, IInv, License
<1>. QED  BY Invariance, <1>1, PTL DEF Spec, StartsLicensed
=============================================================================
