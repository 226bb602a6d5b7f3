-------------------------- MODULE GuardedUsbProofs --------------------------
(***************************************************************************)
(* Proofs about GuardedUsb, for every build and every length, time to live *)
(* and duration of a pass.                                                 *)
(***************************************************************************)
EXTENDS GuardedUsb, TLAPS

\* Why something may move: an arm means rest, and a moving output has its cause.
Causes ==
  /\ armed => out = "zero" /\ ~pulse.active
  /\ pulse.active /\ pulse.moves => out = "usb"
  /\ out = "usb" => pulse.active \/ live.active
  /\ live.active => LiveEnabled

\* How old it may be: fresh when a pass has been completed, one pass older while
\* the next one still reads its lines.  A live drive hides the pulse beside it.
Slack == IF pc = "read" THEN MaxStep ELSE 0

Ages ==
  /\ live.active => live.sinceSet <= live.ttl + Slack /\ live.age < LiveMaxMs + Slack
  /\ pulse.active /\ ~live.active => pulse.age < pulse.ms + Slack

Relations == Causes /\ Ages /\ PilotWins /\ LossRevokes

IInv == TypeOK /\ Relations

USE GuardedConstants

LEMMA SlackType == TypeOK => Slack \in Nat /\ (pc = "read" => Slack = MaxStep) /\ (pc # "read" => Slack = 0)
  BY DEF TypeOK, Slack

LEMMA NoneTypes == NoPulse \in Pulses /\ NoLive \in Lives
  BY DEF NoPulse, NoLive, Pulses, Lives

\* A rover at rest with nothing pending satisfies every relation.
LEMMA AtRest ==
  ASSUME ~pulse.active, ~live.active, ~armed, out = "zero"
  PROVE  Relations
  BY DEF Relations, Causes, Ages, PilotWins, LossRevokes

LEMMA AtRestNext ==
  ASSUME ~pulse'.active, ~live'.active, ~armed', out' = "zero"
  PROVE  Relations'
  BY DEF Relations, Causes, Ages, PilotWins, LossRevokes

LEMMA HaltStep ==
  ASSUME IInv, Halt, NEW e \in Events \cup {"NONE"}, said' = e,
         pc' \in {"top", "read", "beat"}, rc' \in RcStates, hbAge' \in 0..HbPeriod
  PROVE  IInv'
<1>1. TypeOK'
  BY NoneTypes DEF IInv, TypeOK, Halt, Outputs
<1>2. Relations'
  BY AtRestNext DEF Halt, NoPulse, NoLive
<1>. QED  BY <1>1, <1>2 DEF IInv

LEMMA InitInv == Init => IInv
<1>. SUFFICES ASSUME Init PROVE IInv
  OBVIOUS
<1>1. TypeOK
  <2>1. hbAge \in 0..HbPeriod /\ pulse \in Pulses /\ live \in Lives
    BY NoneTypes DEF Init
  <2>2. /\ pc \in {"top", "read", "beat"} /\ rc \in RcStates /\ out \in Outputs
        /\ said \in Events \cup {"NONE"}
    BY DEF Init, Outputs, RcStates
  <2>. QED  BY <2>1, <2>2 DEF Init, TypeOK
<1>2. Relations
  BY AtRest DEF Init, NoPulse, NoLive
<1>. QED  BY <1>1, <1>2 DEF IInv

-----------------------------------------------------------------------------
(* The steps, one lemma each.                                              *)

LEMMA ArmStep ==
  ASSUME IInv, pc = "read", stage16Arm, UNCHANGED <<pc, rc, hbAge>>
  PROVE  IInv'
<1>1. CASE ~ArmAccepted
  BY <1>1, HaltStep DEF stage16Arm, stage16Reject, Say, Events, IInv, TypeOK
<1>2. CASE ArmAccepted
  <2>. USE <1>2 DEF stage16Arm, ArmAccepted
  <2>1. TypeOK'
    BY DEF IInv, TypeOK, Say, Events, Outputs
  <2>2. Causes' /\ PilotWins'
    BY DEF IInv, Relations, Causes, PilotWins
  <2>3. Ages'
    BY DEF IInv, Relations, Ages, Slack
  <2>4. LossRevokes'
    BY DEF LossRevokes
  <2>. QED  BY <2>1, <2>2, <2>3, <2>4 DEF IInv, Relations
<1>. QED  BY <1>1, <1>2

LEMMA CmdStep ==
  ASSUME IInv, pc = "read", NEW line \in Lines, line.op = "CMD", Cmd(line),
         UNCHANGED <<pc, rc, hbAge>>
  PROVE  IInv'
<1>1. CASE ~CmdAccepted(line)
  BY <1>1, HaltStep DEF Cmd, stage16Reject, Say, Events, IInv, TypeOK
<1>2. CASE CmdAccepted(line)
  <2>1. /\ armed /\ line.ms \in 1..MaxMs
        /\ pulse' = [active |-> TRUE, ms |-> line.ms, age |-> 0, moves |-> line.size = "drive"]
        /\ armed' = FALSE
        /\ out' = Move(line.size)
        /\ said' = "ACK"
        /\ UNCHANGED <<latched, live>>
    BY <1>2 DEF Cmd, CmdAccepted, StartPulse, Say
  <2>2. TypeOK'
    <3>1. pulse' \in Pulses
      BY <2>1 DEF Pulses
    <3>2. out' \in Outputs /\ said' \in Events \cup {"NONE"}
      BY <2>1 DEF Events, Outputs, Move
    <3>. QED  BY <2>1, <3>1, <3>2 DEF IInv, TypeOK
  <2>3. Causes' /\ PilotWins'
    BY <2>1 DEF IInv, Relations, Causes, PilotWins, Move
  <2>4. Ages'
    <3>1. Slack' = MaxStep /\ Slack = MaxStep
      BY DEF Slack
    <3>. QED  BY <2>1, <3>1 DEF IInv, Relations, Ages
  <2>5. LossRevokes'
    BY DEF LossRevokes
  <2>. QED  BY <2>2, <2>3, <2>4, <2>5 DEF IInv, Relations
<1>. QED  BY <1>1, <1>2

LEMMA SetLines ==
  ASSUME NEW line \in Lines, line.op = "SET"
  PROVE  line.seq \in Seqs /\ EffectiveTtl(line.ttl) \in 1..LiveTtl
  BY DEF Lines, EffectiveTtl

LEMMA SetStep ==
  ASSUME IInv, pc = "read", NEW line \in Lines, line.op = "SET", LiveEnabled,
         LiveSet(line), UNCHANGED <<pc, rc, hbAge>>
  PROVE  IInv'
<1>1. CASE ~SetAccepted(line)
  BY <1>1, HaltStep DEF LiveSet, stage16Reject, Say, Events, IInv, TypeOK
<1>2. CASE SetAccepted(line)
  <2>. DEFINE age == IF live.active /\ live.seq = line.seq THEN live.age ELSE 0
  <2>1. /\ line.ms \in 1..LiveMaxMs
        /\ live' = [active |-> TRUE, seq |-> line.seq, ms |-> line.ms,
                    ttl |-> EffectiveTtl(line.ttl), age |-> age, sinceSet |-> 0]
        /\ pulse' = NoPulse /\ armed' = FALSE /\ latched' = FALSE
        /\ out' = Move(line.size)
        /\ said' = "ACTIVE"
    BY <1>2 DEF LiveSet, SetAccepted, HoldSetpoint, Say
  <2>2. age \in Nat
    BY DEF IInv, TypeOK, Lives
  <2>3. age < LiveMaxMs + MaxStep
    BY DEF IInv, Relations, Ages, Slack
  <2>. HIDE DEF age
  <2>4. TypeOK'
    <3>1. live' \in Lives
      <4>1. line.seq \in Seqs /\ EffectiveTtl(line.ttl) \in 0..LiveTtl /\ line.ms \in 0..LiveMaxMs
        BY <2>1, SetLines
      <4>. QED  BY <2>1, <2>2, <4>1 DEF Lives
    <3>2. out' \in Outputs /\ said' \in Events \cup {"NONE"}
      BY <2>1 DEF Events, Outputs, Move
    <3>. QED  BY <2>1, <3>1, <3>2, NoneTypes DEF IInv, TypeOK
  <2>5. Causes' /\ PilotWins'
    BY <2>1 DEF Causes, PilotWins, Move, NoPulse
  <2>6. Ages'
    <3>1. Slack' = MaxStep
      BY DEF Slack
    <3>2. live'.ttl + MaxStep >= live'.sinceSet /\ live'.age < LiveMaxMs + MaxStep
      BY <2>1, <2>2, <2>3, SetLines
    <3>. QED  BY <2>1, <3>1, <3>2 DEF Ages, NoPulse
  <2>7. LossRevokes'
    BY DEF LossRevokes
  <2>. QED  BY <2>4, <2>5, <2>6, <2>7 DEF IInv, Relations
<1>. QED  BY <1>1, <1>2

LEMMA LineStep == ASSUME IInv, NEW line \in Lines, HandleLine(line) PROVE IInv'
<1>. /\ pc = "read"
     /\ UNCHANGED <<pc, rc, hbAge>>
  BY DEF HandleLine
<1>. USE DEF IInv, TypeOK
<1>1. CASE line.op = "STOP" /\ UsbStop
  BY <1>1, HaltStep DEF UsbStop, Say, Events
<1>2. CASE line.op = "ARM" /\ stage16Arm
  BY <1>2, ArmStep
<1>3. CASE line.op = "CMD" /\ Cmd(line)
  BY <1>3, CmdStep
<1>4. CASE line.op = "SET" /\ LiveEnabled /\ LiveSet(line)
  BY <1>4, SetStep
<1>5. CASE line.op = "LIVE_STOP" /\ LiveEnabled /\ stage16Stop
  BY <1>5, HaltStep DEF stage16Stop, Say, Events
<1>6. CASE stage16Reject
  BY <1>6, HaltStep DEF stage16Reject, Say, Events
<1>. QED  BY <1>1, <1>2, <1>3, <1>4, <1>5, <1>6 DEF HandleLine

LEMMA TopStep ==
  ASSUME IInv, NEW d \in 0..MaxStep, NEW r \in RcStates, Top(d, r)
  PROVE  IInv'
<1>. USE DEF Top
<1>1. hbAge' \in 0..HbPeriod
  BY DEF IInv, TypeOK
<1>2. CASE Takeover(r)
  <2>1. /\ pulse' = NoPulse /\ armed' = FALSE /\ out' = "rc"
        /\ pc' = pc /\ pc = "top" /\ rc' = "moved_manual"
        /\ ~live.active
    BY <1>2 DEF Takeover, PilotTakes, IInv, Relations, Causes
  <2>2. live' = live
    BY <2>1 DEF IInv, TypeOK, Lives, AgeBy
  <2>3. TypeOK'
    BY <1>1, <2>1, <2>2, NoneTypes DEF IInv, TypeOK, Outputs
  <2>4. Causes' /\ Ages' /\ PilotWins'
    BY <2>1, <2>2 DEF Causes, Ages, PilotWins, NoPulse
  <2>5. LossRevokes'
    BY <2>1 DEF LossRevokes, RcRefuses, rcValid
  <2>. QED  BY <2>3, <2>4, <2>5 DEF IInv, Relations
<1>3. CASE ~Takeover(r)
  <2>1. /\ pc' = "read" /\ pc = "top"
        /\ pulse' = AgeBy(pulse, d)
        /\ UNCHANGED <<armed, out, latched>>
        /\ rc' = r /\ said' = "NONE"
    BY <1>3
  <2>2. /\ pulse' \in Pulses /\ pulse'.active = pulse.active
        /\ pulse'.ms = pulse.ms /\ pulse'.moves = pulse.moves
        /\ pulse.active => pulse'.age = pulse.age + d
    BY <2>1 DEF AgeBy, Pulses, IInv, TypeOK
  <2>3. /\ live' \in Lives /\ live'.active = live.active /\ live'.ttl = live.ttl
        /\ live.active => live'.age = live.age + d /\ live'.sinceSet = live.sinceSet + d
    <3>1. live \in Lives /\ d \in Nat
      BY DEF IInv, TypeOK
    <3>2. CASE live.active
      <4>1. live' = [live EXCEPT !.age = @ + d, !.sinceSet = @ + d]
        BY <3>1, <3>2 DEF AgeBy, Lives
      <4>2. live.age + d \in Nat /\ live.sinceSet + d \in Nat
        BY <3>1 DEF Lives
      <4>. QED  BY <3>1, <4>1, <4>2 DEF Lives
    <3>3. CASE ~live.active
      <4>1. live' = live
        BY <3>1, <3>3 DEF AgeBy, Lives
      <4>. QED  BY <3>1, <3>3, <4>1
    <3>. QED  BY <3>2, <3>3
  <2>4. TypeOK'
    BY <1>1, <2>1, <2>2, <2>3 DEF IInv, TypeOK
  <2>5. Causes' /\ PilotWins'
    BY <2>1, <2>2, <2>3 DEF IInv, Relations, Causes, PilotWins
  <2>6. Ages'
    <3>1. Slack = 0 /\ Slack' = MaxStep
      BY <2>1 DEF Slack
    <3>2. CASE live.active
      <4>1. /\ live.sinceSet <= live.ttl /\ live.age < LiveMaxMs
            /\ live.sinceSet \in Nat /\ live.ttl \in Nat /\ live.age \in Nat
        BY <3>1, <3>2 DEF IInv, TypeOK, Relations, Ages, Lives
      <4>2. live'.sinceSet <= live'.ttl + MaxStep /\ live'.age < LiveMaxMs + MaxStep
        BY <2>3, <3>2, <4>1
      <4>. QED  BY <2>3, <3>1, <3>2, <4>2 DEF Ages
    <3>3. CASE ~live.active
      BY <2>2, <2>3, <3>1, <3>3 DEF IInv, TypeOK, Relations, Ages, Pulses
    <3>. QED  BY <3>2, <3>3
  <2>7. LossRevokes'
    BY <2>1 DEF LossRevokes
  <2>. QED  BY <2>4, <2>5, <2>6, <2>7 DEF IInv, Relations
<1>. QED  BY <1>2, <1>3

LEMMA UpdateStep == ASSUME IInv, UpdatePulse PROVE IInv'
<1>1. pc = "read" /\ pc' = "beat" /\ UNCHANGED <<rc, hbAge>> /\ Slack' = 0
  BY DEF UpdatePulse, Slack
<1>. USE <1>1
<1>2. CASE UpdateWithoutRc
  BY <1>2, HaltStep DEF UpdateWithoutRc, Say, Events, IInv, TypeOK
<1>3. CASE stage16Stop
  BY <1>3, HaltStep DEF stage16Stop, Say, Events, IInv, TypeOK
<1>4. CASE UpdateLive /\ ~LiveExpired
  <2>1. live.active /\ ~RcRefuses /\ UNCHANGED <<pulse, live, armed, latched, out>> /\ said' = "NONE"
    BY <1>4 DEF UpdateLive, Say
  <2>2. TypeOK'
    BY <2>1 DEF IInv, TypeOK
  <2>3. Causes' /\ PilotWins'
    BY <2>1 DEF IInv, Relations, Causes, PilotWins
  <2>4. Ages'
    BY <1>4, <2>1 DEF LiveExpired, IInv, TypeOK, Lives, Ages
  <2>5. LossRevokes'
    BY <2>1 DEF LossRevokes, RcRefuses, rcValid
  <2>. QED  BY <2>2, <2>3, <2>4, <2>5 DEF IInv, Relations
<1>5. CASE UpdateActivePulse /\ ~PulseOver
  <2>1. /\ ~RcRefuses /\ ~live.active /\ pulse.active
        /\ out' = IF pulse.moves THEN "usb" ELSE "zero"
        /\ UNCHANGED <<pulse, live, armed, latched>> /\ said' = "NONE"
    BY <1>5 DEF UpdateActivePulse, Say
  <2>2. TypeOK'
    BY <2>1 DEF IInv, TypeOK, Outputs
  <2>3. Causes' /\ PilotWins'
    BY <2>1 DEF IInv, Relations, Causes, PilotWins
  <2>4. Ages'
    BY <1>5, <2>1 DEF PulseOver, IInv, TypeOK, Pulses, Ages
  <2>5. LossRevokes'
    BY <2>1 DEF LossRevokes, RcRefuses, rcValid
  <2>. QED  BY <2>2, <2>3, <2>4, <2>5 DEF IInv, Relations
<1>6. CASE UpdateIdle
  <2>1. /\ ~RcRefuses /\ ~live.active /\ ~pulse.active /\ out' = "zero"
        /\ UNCHANGED <<pulse, live, armed, latched>> /\ said' = "NONE"
    BY <1>6 DEF UpdateIdle, Say
  <2>2. TypeOK'
    BY <2>1 DEF IInv, TypeOK, Outputs
  <2>3. Relations'
    BY <2>1 DEF Relations, Causes, Ages, PilotWins, LossRevokes, RcRefuses, rcValid
  <2>. QED  BY <2>2, <2>3 DEF IInv
<1>. QED  BY <1>2, <1>3, <1>4, <1>5, <1>6 DEF UpdatePulse, UpdateLive, UpdateActivePulse

LEMMA BeatStep == ASSUME IInv, stage16Heartbeat PROVE IInv'
<1>. USE DEF stage16Heartbeat
<1>1. TypeOK'
  BY DEF IInv, TypeOK, Say, Events
<1>2. Relations'
  BY DEF IInv, Relations, Causes, Ages, Slack, PilotWins, LossRevokes, RcRefuses, rcValid
<1>. QED  BY <1>1, <1>2 DEF IInv

LEMMA StutterStep == ASSUME IInv, UNCHANGED usbVars PROVE IInv'
  BY DEF usbVars, IInv, TypeOK, Relations, Causes, Ages, Slack, PilotWins, LossRevokes, RcRefuses, rcValid

\* The inductive invariant of the guarded firmware.
THEOREM Invariance == Spec => []IInv
<1>1. ASSUME IInv, [Next]_usbVars PROVE IInv'
  BY <1>1, LineStep, TopStep, UpdateStep, BeatStep, StutterStep DEF Next, Sample
<1>. QED  BY InitInv, <1>1, PTL DEF Spec

\* Type correctness of the guarded firmware.
THEOREM TypeCorrect == Spec => []TypeOK
  BY Invariance, PTL DEF IInv

\* USB motion never outlives its pulse, its setpoint or its drive by more than
\* one pass of loop(), whatever the host sends.
THEOREM MotionIsBounded == Spec => []MotionBounded
<1>1. IInv => MotionBounded
  <2>. SUFFICES ASSUME IInv, out = "usb" PROVE MotionBounded
    BY DEF MotionBounded
  <2>0. Slack \in 0..MaxStep
    BY DEF Slack
  <2>1. CASE live.active
    BY <2>0, <2>1 DEF IInv, TypeOK, Lives, Relations, Ages, MotionBounded
  <2>2. CASE ~live.active
    BY <2>0, <2>2 DEF IInv, TypeOK, Pulses, Relations, Causes, Ages, MotionBounded
  <2>. QED  BY <2>1, <2>2
<1>. QED  BY Invariance, <1>1, PTL

\* Nothing of the host is pending while the pilot's sticks drive.
THEOREM PilotAlwaysWins == Spec => []PilotWins
  BY Invariance, PTL DEF IInv, Relations

\* A pass without a receiver signal leaves nothing armed and nothing moving in a
\* build that counts on the receiver.
THEOREM LossAlwaysRevokes == Spec => []LossRevokes
  BY Invariance, PTL DEF IInv, Relations

\* The guarded firmware implements MotionPermit.
THEOREM FirmwareIsGuarded == Spec => Guarded
<1>. USE DEF G!Next, G!supervised, G!Give, G!Use, G!Hold, G!Rest
<1>1. Init => G!Init
  BY DEF Init, G!Init
<1>2. ASSUME IInv, [Next]_usbVars PROVE [G!Next]_(G!supervised)
  <2>1. ASSUME NEW line \in Lines, HandleLine(line) PROVE G!Next \/ UNCHANGED G!supervised
    <3>1. CASE Halt
      BY <3>1 DEF Halt
    <3>2. CASE stage16Arm /\ ArmAccepted
      BY <3>2 DEF stage16Arm, ArmAccepted
    <3>3. CASE CmdAccepted(line) /\ StartPulse(line)
      BY <3>3 DEF CmdAccepted, StartPulse
    <3>4. CASE LiveEnabled /\ HoldSetpoint(line)
      BY <3>4 DEF HoldSetpoint
    <3>. QED
      BY <2>1, <3>1, <3>2, <3>3, <3>4
      DEF HandleLine, UsbStop, stage16Arm, Cmd, LiveSet, stage16Stop, stage16Reject
  <2>2. ASSUME NEW d \in 0..MaxStep, NEW r \in RcStates, Top(d, r)
        PROVE  G!Next \/ UNCHANGED G!supervised
    BY <2>2 DEF Top, PilotTakes
  <2>3. ASSUME UpdatePulse PROVE G!Next \/ UNCHANGED G!supervised
    <3>1. CASE Halt
      BY <3>1 DEF Halt
    <3>2. CASE UpdateLive /\ UNCHANGED <<armed, out>>
      BY <3>2
    <3>3. CASE UpdateActivePulse /\ UNCHANGED armed /\ out' = IF pulse.moves THEN "usb" ELSE "zero"
      <4>1. pulse.active /\ ~armed /\ (pulse.moves => out = "usb")
        BY <1>2, <3>3 DEF UpdateActivePulse, IInv, Relations, Causes
      <4>2. CASE pulse.moves
        <5>1. armed' = armed /\ out' = out
          BY <3>3, <4>1, <4>2
        <5>. QED  BY <5>1
      <4>3. CASE ~pulse.moves
        BY <3>3, <4>1, <4>3
      <4>. QED  BY <4>2, <4>3
    <3>4. CASE UpdateIdle
      <4>1. out' = "zero" /\ armed' = armed /\ (armed => out = "zero")
        BY <1>2, <3>4 DEF UpdateIdle, IInv, Relations, Causes
      <4>2. CASE armed
        <5>1. armed' = armed /\ out' = out
          BY <4>1, <4>2
        <5>. QED  BY <5>1
      <4>3. CASE ~armed
        BY <4>1, <4>3
      <4>. QED  BY <4>2, <4>3
    <3>. QED
      BY <2>3, <3>1, <3>2, <3>3, <3>4
      DEF UpdatePulse, UpdateWithoutRc, UpdateLive, UpdateActivePulse, stage16Stop
  <2>4. CASE stage16Heartbeat
    BY <2>4 DEF stage16Heartbeat
  <2>5. CASE UNCHANGED usbVars
    BY <2>5 DEF usbVars
  <2>. QED  BY <1>2, <2>1, <2>2, <2>3, <2>4, <2>5 DEF Next, Sample
<1>. QED  BY Invariance, <1>1, <1>2, PTL DEF Spec, Guarded, G!Spec
=============================================================================
