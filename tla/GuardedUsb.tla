----------------------------- MODULE GuardedUsb -----------------------------
(***************************************************************************)
(* The rover firmware built for USB supervision: the host arms and fires   *)
(* one guarded pulse at a time (ARM, CMD), or, in the live build, holds a  *)
(* setpoint that it must keep refreshing (LIVE_SET).  One pass of loop()   *)
(* samples the receiver and the clock, handles every complete USB line     *)
(* with those samples, then updates the running pulse and prints a         *)
(* heartbeat.  The Stage 20 builds without live drive let a pilot who      *)
(* moves a stick in MANUAL take the pass over before any USB line is read. *)
(***************************************************************************)
EXTENDS Integers

CONSTANTS
  RcRequired,   \* ~STATION_MANUAL_IGNORE_RC_INPUT
  Stage20,      \* STAGE20_PHYSICAL_AB_GUARDED_CRAWL
  LiveEnabled,  \* USB_DRIVE_LIVE_ENABLE
  MaxMs,        \* longest pulse, in ticks
  LiveMaxMs,    \* longest live drive, in ticks
  LiveTtl,      \* USB_DRIVE_LIVE_UPDATE_TIMEOUT_MS, in ticks
  HbPeriod,     \* heartbeat period, in ticks
  MaxStep,      \* bound: ticks one pass of loop() may take
  Seqs          \* sequence numbers of the host

ASSUME GuardedConstants ==
  /\ RcRequired \in BOOLEAN /\ Stage20 \in BOOLEAN /\ LiveEnabled \in BOOLEAN
  /\ LiveEnabled => Stage20
  /\ MaxMs \in Nat \ {0} /\ LiveMaxMs \in Nat \ {0} /\ LiveTtl \in Nat \ {0}
  /\ HbPeriod \in Nat \ {0} /\ MaxStep \in Nat \ {0}
  /\ Seqs # {}

\* A command asks for neutral, for motion, or for more than the build allows.
Sizes == {"zero", "drive", "excess"}

\* A complete USB line.  "BAD" is an unknown command or one that does not parse.
Lines ==
  [op : {"STOP", "ARM", "BAD", "LIVE_STOP"}]
    \cup [op : {"CMD"}, size : Sizes, ms : 0..(MaxMs + 1)]
    \cup [op : {"SET"}, seq : Seqs, size : Sizes, ms : 0..(LiveMaxMs + 1),
          ttl : 0..(LiveTtl + 1)]

\* The receiver: no valid signal, sticks centred, or a stick moved with the
\* switch in MANUAL or in AUTO.
RcStates == {"lost", "centred", "moved_manual", "moved_auto"}

\* Whose command the ESC output carries; "zero" is neutral.
Outputs == {"zero", "usb", "rc"}

Events == {"ARM", "ACK", "ACTIVE", "REJECT", "STOP", "STOP_ALREADY_ZERO", "HEARTBEAT"}

VARIABLES
  pc,          \* where loop() is: "top", "read" (USB lines), "beat" (heartbeat)
  rc,          \* the sample of this pass
  armed,       \* stage16ArmedFlag
  latched,     \* stage16LatchedStopFlag
  pulse,       \* stage16PulseActiveFlag, with its length, age and request
  live,        \* usbDriveLiveActiveFlag, with its seq, length, ttl and ages
  out,         \* lastLeftOutputCmd / lastRightOutputCmd
  hbAge,       \* age of stage16LastHeartbeatMs, saturated at HbPeriod
  said         \* the status line this step printed, or "NONE"

usbVars == <<pc, rc, armed, latched, pulse, live, out, hbAge, said>>

\* The fields of an inactive pulse or live drive are not read by the code and
\* are kept at one value.
NoPulse == [active |-> FALSE, ms |-> 0, age |-> 0, moves |-> FALSE]
NoLive == [active |-> FALSE, seq |-> CHOOSE s \in Seqs : TRUE,
           ms |-> 0, ttl |-> 0, age |-> 0, sinceSet |-> 0]

Pulses == [active : BOOLEAN, ms : 0..MaxMs, age : Nat, moves : BOOLEAN]
Lives == [active : BOOLEAN, seq : Seqs, ms : 0..LiveMaxMs, ttl : 0..LiveTtl,
          age : Nat, sinceSet : Nat]

TypeOK ==
  /\ pc \in {"top", "read", "beat"}
  /\ rc \in RcStates
  /\ armed \in BOOLEAN
  /\ latched \in BOOLEAN
  /\ pulse \in Pulses
  /\ live \in Lives
  /\ out \in Outputs
  /\ hbAge \in 0..HbPeriod
  /\ said \in Events \cup {"NONE"}

Init ==
  /\ pc = "top"
  /\ rc = "lost"
  /\ armed = FALSE
  /\ latched = FALSE
  /\ pulse = NoPulse
  /\ live = NoLive
  /\ out = "zero"
  /\ hbAge = 0
  /\ said = "NONE"

-----------------------------------------------------------------------------
(* Helpers of the handlers.                                                *)

rcValid == rc # "lost"

\* stage16RcInputRequiredForStationPulse with its test of the signal.
RcRefuses == RcRequired /\ ~rcValid

Say(event) == said' = event

\* Everything stops, and only ARM or LIVE_SET lifts the latch.
Halt ==
  /\ pulse' = NoPulse
  /\ live' = NoLive
  /\ armed' = FALSE
  /\ latched' = TRUE
  /\ out' = "zero"

stage16Reject == Halt /\ Say("REJECT")
stage16Stop == Halt /\ Say("STOP")

Move(size) == IF size = "drive" THEN "usb" ELSE "zero"

\* Mutant for PulseEnds and CrashComesToRest: the start is read again with every
\* sample.
AgeNever(p, d) == [p EXCEPT !.active = @]

AgeBy(p, d) == [p EXCEPT !.age = IF p.active THEN @ + d ELSE @]

-----------------------------------------------------------------------------
(* The USB lines.  stage16HandleCommand and usbDriveLiveHandleCommand test *)
(* in this order; the first test that fails rejects.                       *)

UsbStop ==
  /\ Halt
  /\ Say(IF ~pulse.active /\ ~live.active /\ out = "zero"
         THEN "STOP_ALREADY_ZERO" ELSE "STOP")

\* ARM is refused unless the sticks are centred (when the receiver counts) and
\* the output is at neutral.
ArmAccepted ==
  /\ ~RcRefuses
  /\ RcRequired => rc = "centred"
  /\ ~pulse.active
  /\ out = "zero"

stage16Arm ==
  \/ ~ArmAccepted /\ stage16Reject
  \/ /\ ArmAccepted
     /\ latched' = FALSE
     /\ armed' = TRUE
     /\ out' = "zero"
     /\ Say("ARM")
     /\ UNCHANGED <<pulse, live>>

CmdAccepted(line) ==
  /\ ~RcRefuses
  /\ ~latched /\ armed /\ ~pulse.active
  /\ line.size # "excess"
  /\ line.ms \in 1..MaxMs

\* Mutant for Guarded: the arm is not used up.
StartRearmed(line) ==
  /\ pulse' = [active |-> TRUE, ms |-> line.ms, age |-> 0, moves |-> line.size = "drive"]
  /\ out' = Move(line.size)
  /\ Say("ACK")
  /\ UNCHANGED <<armed, latched, live>>

StartPulse(line) ==
  /\ pulse' = [active |-> TRUE, ms |-> line.ms, age |-> 0, moves |-> line.size = "drive"]
  /\ armed' = FALSE
  /\ out' = Move(line.size)
  /\ Say("ACK")
  /\ UNCHANGED <<latched, live>>

Cmd(line) ==
  \/ ~CmdAccepted(line) /\ stage16Reject
  \/ CmdAccepted(line) /\ StartPulse(line)

SetAccepted(line) ==
  /\ ~RcRefuses
  /\ line.size # "excess"
  /\ line.ms \in 1..LiveMaxMs

\* A time to live out of range is replaced by the firmware's own.
EffectiveTtl(ttl) == IF ttl \in 1..LiveTtl THEN ttl ELSE LiveTtl

\* A live setpoint needs no ARM and lifts the latch.  The duration is counted
\* from the first setpoint of a sequence number.
HoldSetpoint(line) ==
  /\ live' = [active |-> TRUE, seq |-> line.seq, ms |-> line.ms,
              ttl |-> EffectiveTtl(line.ttl),
              age |-> IF live.active /\ live.seq = line.seq THEN live.age ELSE 0,
              sinceSet |-> 0]
  /\ pulse' = NoPulse
  /\ latched' = FALSE
  /\ armed' = FALSE
  /\ out' = Move(line.size)
  /\ Say("ACTIVE")

LiveSet(line) ==
  \/ ~SetAccepted(line) /\ stage16Reject
  \/ SetAccepted(line) /\ HoldSetpoint(line)

\* One complete line.  Live commands are unknown to a build without them.
HandleLine(line) ==
  /\ pc = "read"
  /\ \/ line.op = "STOP" /\ UsbStop
     \/ line.op = "ARM" /\ stage16Arm
     \/ line.op = "CMD" /\ Cmd(line)
     \/ line.op = "SET" /\ LiveEnabled /\ LiveSet(line)
     \/ line.op = "LIVE_STOP" /\ LiveEnabled /\ stage16Stop
     \/ line.op \in {"SET", "LIVE_STOP"} /\ ~LiveEnabled /\ stage16Reject
     \/ line.op = "BAD" /\ stage16Reject
  /\ UNCHANGED <<pc, rc, hbAge>>

-----------------------------------------------------------------------------
(* One pass of loop().                                                     *)

Takeover(r) == Stage20 /\ ~LiveEnabled /\ r = "moved_manual"

\* Mutant for PilotWins: the takeover only borrows the output.
PilotBorrows == pulse' = pulse /\ armed' = armed /\ out' = "rc"

\* The pulse and the arm are dropped, without a latch and without a word.
PilotTakes == pulse' = NoPulse /\ armed' = FALSE /\ out' = "rc"

\* A new pass: the clock may have advanced, the receiver is sampled.  A
\* takeover ends the pass.
Top(d, r) ==
  /\ pc = "top"
  /\ rc' = r
  /\ hbAge' = IF hbAge + d >= HbPeriod THEN HbPeriod ELSE hbAge + d
  /\ said' = "NONE"
  /\ live' = [AgeBy(live, d) EXCEPT !.sinceSet = IF live.active THEN @ + d ELSE @]
  /\ UNCHANGED latched
  /\ IF Takeover(r)
     THEN PilotTakes /\ UNCHANGED pc
     ELSE /\ pc' = "read"
          /\ pulse' = AgeBy(pulse, d)
          /\ UNCHANGED <<armed, out>>

\* stage16UpdatePulse, once the buffer is empty: no signal, live drive, pulse,
\* or nothing to do.
\* Mutant for LossRevokes: a pass without a signal only stops what runs.
StopWithoutRc ==
  /\ RcRefuses
  /\ IF pulse.active \/ live.active
     THEN Halt
     ELSE out' = "zero" /\ UNCHANGED <<pulse, live, armed, latched>>
  /\ Say("NONE")

UpdateWithoutRc ==
  /\ RcRefuses
  /\ Halt
  /\ Say(IF pulse.active \/ live.active THEN "STOP" ELSE "NONE")

\* Mutant for MotionBounded of a live build: the drive ends one sample late.
LiveLate == live.sinceSet > live.ttl \/ live.age > live.ms

LiveExpired == live.sinceSet > live.ttl \/ live.age >= live.ms

\* While a live drive is active a pulse beside it is not looked at.
UpdateLive ==
  /\ ~RcRefuses /\ live.active
  /\ IF LiveExpired
     THEN stage16Stop
     ELSE Say("NONE") /\ UNCHANGED <<pulse, live, armed, latched, out>>

\* Mutant for MotionBounded: off by one.
PulseLate == pulse.age > pulse.ms

PulseOver == pulse.age >= pulse.ms

UpdateActivePulse ==
  /\ ~RcRefuses /\ ~live.active /\ pulse.active
  /\ IF PulseOver
     THEN stage16Stop
     ELSE /\ out' = IF pulse.moves THEN "usb" ELSE "zero"
          /\ Say("NONE")
          /\ UNCHANGED <<pulse, live, armed, latched>>

UpdateIdle ==
  /\ ~RcRefuses /\ ~live.active /\ ~pulse.active
  /\ out' = "zero"
  /\ Say("NONE")
  /\ UNCHANGED <<pulse, live, armed, latched>>

UpdatePulse ==
  /\ pc = "read"
  /\ pc' = "beat"
  /\ UpdateWithoutRc \/ UpdateLive \/ UpdateActivePulse \/ UpdateIdle
  /\ UNCHANGED <<rc, hbAge>>

stage16Heartbeat ==
  /\ pc = "beat"
  /\ pc' = "top"
  /\ IF hbAge >= HbPeriod
     THEN hbAge' = 0 /\ Say("HEARTBEAT")
     ELSE UNCHANGED hbAge /\ Say("NONE")
  /\ UNCHANGED <<rc, armed, latched, pulse, live, out>>

Sample == \E d \in 0..MaxStep, r \in RcStates : Top(d, r)
TimePasses == \E d \in 1..MaxStep, r \in RcStates : Top(d, r)

Next ==
  \/ Sample
  \/ \E line \in Lines : HandleLine(line)
  \/ UpdatePulse
  \/ stage16Heartbeat

Spec == Init /\ [][Next]_usbVars

\* loop() never returns, its read loop ends because lines arrive slower than
\* they are read, and its clock goes on.
Fairness ==
  /\ WF_usbVars(Sample) /\ WF_usbVars(stage16Heartbeat)
  /\ SF_usbVars(UpdatePulse) /\ SF_usbVars(TimePasses)

FairSpec == Spec /\ Fairness

-----------------------------------------------------------------------------
(* Properties.                                                             *)

\* USB motion always has a cause that is still within its time: a pulse younger
\* than its own length, or a live setpoint younger than its time to live within
\* the longest drive, each but for one pass of loop().
MotionBounded ==
  out = "usb" =>
    \/ pulse.active /\ pulse.age < pulse.ms + MaxStep
    \/ /\ live.active
       /\ live.sinceSet <= live.ttl + MaxStep
       /\ live.age < LiveMaxMs + MaxStep

\* While the pilot's sticks drive, nothing of the host is pending: a pulse does
\* not resume, nor an old arm fire, when the sticks are let go.
PilotWins == out = "rc" => ~armed /\ ~pulse.active /\ ~live.active

\* In a build that counts on the receiver, a pass without a signal takes the
\* arm, the pulse and the live drive with it.
LossRevokes ==
  RcRefuses /\ pc # "read" =>
    out = "zero" /\ ~armed /\ ~pulse.active /\ ~live.active

\* Every USB motion uses up an arm, or holds a live setpoint.
G == INSTANCE MotionPermit WITH permit <- armed, motion <- (out = "usb"),
                                MayHold <- LiveEnabled
Guarded == G!Spec

\* Whatever the host sends, a build without live drive comes to rest again and
\* again.
PulseEnds == []<>(out # "usb")
=============================================================================
