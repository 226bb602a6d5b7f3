--------------------------- MODULE StationControl ---------------------------
(***************************************************************************)
(* The rover's integrated control loop in its default build: HC-12 station *)
(* frames, the RC receiver and the motor output, arbitrated once per       *)
(* loop().  A loop first drains the HC-12 buffer (processHC12Line for each *)
(* line, with the RC channels read afresh by handleCommand), then samples  *)
(* the RC channels and decides who drives.                                 *)
(*                                                                         *)
(* Time is discrete.  A timer t = millis() - last is kept as its age,      *)
(* saturated at Never, which also stands for "no frame since boot".        *)
(***************************************************************************)
EXTENDS Naturals, Sequences

CONSTANTS
  Timeout,   \* STATION_TIMEOUT_MS, in ticks
  MaxLoop,   \* bound: ticks between two passes through the arbitration
  InboxCap   \* bound: complete lines waiting in the HC-12 receive buffer

ASSUME StationConstants ==
  /\ Timeout \in Nat \ {0}
  /\ MaxLoop \in Nat \ {0}
  /\ InboxCap \in Nat \ {0}

Never == Timeout + MaxLoop + 1
Age == 0..Never

Modes == {"DISARMED", "MANUAL", "AUTO_READY", "AUTO_RUNNING", "LINK_LOST", "FAILSAFE"}

\* What the receiver delivers.  move: a stick is outside the deadband.
RcStates == [valid : BOOLEAN, auto : BOOLEAN, move : BOOLEAN]

\* Who makes the ESC output differ from neutral.
Drivers == {"none", "station", "rc", "auto"}

\* A station line, after decodeFrame and the payload parsers.  move: the
\* command asks for a non-zero output.  "BAD" fails the checksum, "ERR" is a
\* valid frame whose payload or type is refused, "AUTO_ERR" an AUTO whose two
\* numbers do not parse (refused only after the RC gate has been passed).
Frames ==
  [type : {"HB", "STOP", "BAD", "ERR", "AUTO_ERR"}]
    \cup [type : {"MANUAL"}, move : BOOLEAN, deadman : BOOLEAN, estop : BOOLEAN]
    \cup [type : {"AUTO"}, move : BOOLEAN]

VARIABLES
  inbox,              \* lines received and not yet processed
  rc,                 \* the RC input at this moment
  linkAge,            \* age of lastStationFrameMs
  manualAge,          \* age of stationManual.lastFrameMs
  manual,             \* stationManual: its deadman, and whether it asks to move
  stationEstop,
  autoCommandActive,
  autoMove,           \* autoLeftCmd / autoRightCmd are not both zero
  currentMode,
  out,                \* who is driving the motor output
  sinceLoop           \* ticks since the last arbitration

vars == <<inbox, rc, linkAge, manualAge, manual, stationEstop,
          autoCommandActive, autoMove, currentMode, out, sinceLoop>>

NoManual == [deadman |-> FALSE, move |-> FALSE]

TypeOK ==
  /\ inbox \in Seq(Frames) /\ Len(inbox) <= InboxCap
  /\ rc \in RcStates
  /\ linkAge \in Age
  /\ manualAge \in Age
  /\ manual \in [deadman : BOOLEAN, move : BOOLEAN]
  /\ stationEstop \in BOOLEAN
  /\ autoCommandActive \in BOOLEAN
  /\ autoMove \in BOOLEAN
  /\ currentMode \in Modes
  /\ out \in Drivers
  /\ sinceLoop \in 0..MaxLoop

Init ==
  /\ inbox = <<>>
  /\ rc \in RcStates
  /\ linkAge = Never
  /\ manualAge = Never
  /\ manual = NoManual
  /\ stationEstop = FALSE
  /\ autoCommandActive = FALSE
  /\ autoMove = FALSE
  /\ currentMode = "DISARMED"
  /\ out = "none"
  /\ sinceLoop = 0

-----------------------------------------------------------------------------
(* Helpers of the handlers.                                                *)

motorStop == out' = "none"

\* A driver whose command is zero leaves the output at neutral.
Drive(who, moves) == out' = IF moves THEN who ELSE "none"

clearAutoCommand == autoCommandActive' = FALSE /\ autoMove' = FALSE

clearStationManualCommand == manual' = NoManual /\ manualAge' = Never

\* Mutant for SilenceStops: the timeout is never evaluated.
stationLinkEverValid == TRUE

stationLinkValid == linkAge <= Timeout
stationManualValid == manualAge <= Timeout

Advance(age) == IF age = Never THEN Never ELSE age + 1

-----------------------------------------------------------------------------
(* The environment: the station's radio, the pilot's transmitter, time.    *)

\* A line arrives: any frame, in any order, corrupted or repeated.
Receive(f) ==
  /\ Len(inbox) < InboxCap
  /\ inbox' = Append(inbox, f)
  /\ UNCHANGED <<rc, linkAge, manualAge, manual, stationEstop,
                 autoCommandActive, autoMove, currentMode, out, sinceLoop>>

\* The receiver loses or regains the signal, the pilot moves a stick or the
\* mode switch.
RcChange(r) ==
  /\ rc' = r
  /\ UNCHANGED <<inbox, linkAge, manualAge, manual, stationEstop,
                 autoCommandActive, autoMove, currentMode, out, sinceLoop>>

Tick ==
  /\ sinceLoop < MaxLoop
  /\ sinceLoop' = sinceLoop + 1
  /\ linkAge' = Advance(linkAge)
  /\ manualAge' = Advance(manualAge)
  /\ UNCHANGED <<inbox, rc, manual, stationEstop, autoCommandActive, autoMove,
                 currentMode, out>>

-----------------------------------------------------------------------------
(* processHC12Line and handleCommand, one line at a time.                  *)

\* Every frame whose checksum holds refreshes the link, whatever it says.
TakeFrame(type) ==
  /\ inbox # <<>>
  /\ Head(inbox).type = type
  /\ inbox' = Tail(inbox)
  /\ linkAge' = IF type = "BAD" THEN linkAge ELSE 0
  /\ UNCHANGED <<rc, sinceLoop>>

\* BAD_FRAME, heartbeat, and the refusals that change no command state.
IgnoreFrame ==
  /\ \E type \in {"BAD", "HB", "ERR"} : TakeFrame(type)
  /\ UNCHANGED <<manualAge, manual, stationEstop, autoCommandActive, autoMove,
                 currentMode, out>>

\* Mutant for EstopSilences: STOP is recorded but the output is left to the
\* next arbitration.
StopLater ==
  /\ TakeFrame("STOP")
  /\ stationEstop' = TRUE
  /\ clearStationManualCommand
  /\ clearAutoCommand
  /\ UNCHANGED <<currentMode, out>>

Stop ==
  /\ TakeFrame("STOP")
  /\ stationEstop' = TRUE
  /\ clearStationManualCommand
  /\ clearAutoCommand
  /\ motorStop
  /\ UNCHANGED currentMode

\* Mutant for CommandsExclusive: a manual frame leaves the AUTO command.
acceptStationManualBesideAuto ==
  /\ TakeFrame("MANUAL")
  /\ manual' = [deadman |-> Head(inbox).deadman, move |-> Head(inbox).move]
  /\ manualAge' = 0
  /\ stationEstop' = Head(inbox).estop
  /\ IF Head(inbox).estop THEN motorStop ELSE UNCHANGED out
  /\ UNCHANGED <<autoCommandActive, autoMove, currentMode>>

acceptStationManualCommand ==
  /\ TakeFrame("MANUAL")
  /\ clearAutoCommand
  /\ manual' = [deadman |-> Head(inbox).deadman, move |-> Head(inbox).move]
  /\ manualAge' = 0
  /\ stationEstop' = Head(inbox).estop
  /\ IF Head(inbox).estop THEN motorStop ELSE UNCHANGED out
  /\ UNCHANGED currentMode

\* The RC gate of AUTO/START reads the receiver at this moment.
AutoPermitted == rc.valid /\ rc.auto

RejectAuto ==
  /\ TakeFrame("AUTO") \/ TakeFrame("AUTO_ERR")
  /\ ~AutoPermitted
  /\ clearAutoCommand
  /\ motorStop
  /\ UNCHANGED <<manualAge, manual, stationEstop, currentMode>>

MalformedAuto ==
  /\ TakeFrame("AUTO_ERR")
  /\ AutoPermitted
  /\ UNCHANGED <<manualAge, manual, stationEstop, autoCommandActive, autoMove,
                 currentMode, out>>

AcceptAuto ==
  /\ TakeFrame("AUTO")
  /\ AutoPermitted
  /\ autoCommandActive' = TRUE
  /\ autoMove' = Head(inbox).move
  /\ clearStationManualCommand
  /\ stationEstop' = FALSE
  /\ currentMode' = "AUTO_RUNNING"
  /\ Drive("auto", Head(inbox).move)

-----------------------------------------------------------------------------
(* The arbitration at the end of loop(), after the receive buffer is empty *)
(* and the RC channels have been sampled.                                  *)

linkLost == autoCommandActive /\ ~stationLinkValid

\* Mutant for StationDeadline: the deadman without its timeout.
stationManualHeld == manual.deadman /\ ~stationEstop

stationManualActive == stationManualValid /\ manual.deadman /\ ~stationEstop
\* Mutant for PilotRegains: the pilot needs a station.
rcManualLinked == rc.valid /\ ~rc.auto /\ stationLinkValid

rcManualActive == rc.valid /\ ~rc.auto
autoActive ==
  /\ AutoPermitted
  /\ autoCommandActive /\ ~linkLost
  /\ stationLinkValid
  /\ ~stationEstop

\* Mutant for Authority: a timed-out AUTO command is only suspended.
KeepAutoAlways == UNCHANGED <<autoCommandActive, autoMove>>

\* A timed-out AUTO command is dropped first, whichever branch follows.
KeepAuto ==
  IF linkLost THEN clearAutoCommand ELSE UNCHANGED <<autoCommandActive, autoMove>>

ArbitrateEstop ==
  /\ stationEstop
  /\ currentMode' = "DISARMED"
  /\ motorStop
  /\ KeepAuto

ArbitrateStationManual ==
  /\ ~stationEstop /\ stationManualActive
  /\ currentMode' = "MANUAL"
  /\ Drive("station", manual.move)
  /\ KeepAuto

ArbitrateRcManual ==
  /\ ~stationEstop /\ ~stationManualActive /\ rcManualActive
  /\ currentMode' = "MANUAL"
  /\ clearAutoCommand
  /\ Drive("rc", rc.move)

ArbitrateAuto ==
  /\ ~stationEstop /\ ~stationManualActive /\ ~rcManualActive /\ autoActive
  /\ currentMode' = "AUTO_RUNNING"
  /\ Drive("auto", autoMove)
  /\ KeepAuto

\* Nobody drives.  LINK_LOST stays on display while the switch is in AUTO.
ArbitrateStop ==
  /\ ~stationEstop /\ ~stationManualActive /\ ~rcManualActive /\ ~autoActive
  /\ currentMode' = IF ~rc.valid THEN "FAILSAFE"
                    ELSE IF linkLost \/ currentMode = "LINK_LOST" THEN "LINK_LOST"
                    ELSE "AUTO_READY"
  /\ motorStop
  /\ KeepAuto

Arbitrate ==
  /\ inbox = <<>>
  /\ \/ ArbitrateEstop
     \/ ArbitrateStationManual
     \/ ArbitrateRcManual
     \/ ArbitrateAuto
     \/ ArbitrateStop
  /\ sinceLoop' = 0
  /\ UNCHANGED <<inbox, rc, linkAge, manualAge, manual, stationEstop>>

ProcessLine ==
  IgnoreFrame \/ Stop \/ acceptStationManualCommand
    \/ RejectAuto \/ MalformedAuto \/ AcceptAuto

Environment ==
  \/ \E f \in Frames : Receive(f)
  \/ \E r \in RcStates : RcChange(r)
  \/ Tick

Next == ProcessLine \/ Arbitrate \/ Environment

Spec == Init /\ [][Next]_vars

\* loop() never returns: a pending line is processed, an empty buffer leads to
\* the arbitration, and time goes on.
FairSpec ==
  Spec /\ WF_vars(ProcessLine) /\ WF_vars(Arbitrate) /\ WF_vars(Tick)

-----------------------------------------------------------------------------
(* Properties.                                                             *)

\* STOP neutralises at once: while the station E-stop is set the output is at
\* neutral, also between the frame that set it and the next arbitration.
EstopSilences == stationEstop => out = "none"

\* Motion the station asked for outlives the station's last frame by at most
\* STATION_TIMEOUT_MS and one pass of the loop, whatever was lost or delayed.
StationDeadline ==
  /\ out \in {"station", "auto"} => linkAge # Never
  /\ out = "station" => manualAge # Never

\* The two station commands exclude each other: a manual frame drops the AUTO
\* command and an accepted AUTO drops the manual one.
CommandsExclusive == autoCommandActive => manualAge = Never /\ ~manual.deadman

\* The mode that STAT reports names the driver whenever the output is not at
\* neutral.
ModeTellsDriver ==
  /\ out = "auto" => currentMode = "AUTO_RUNNING"
  /\ out \in {"station", "rc"} => currentMode = "MANUAL"

\* The arbitration implements MotionAuthority: no AUTO motion without a grant
\* that neither STOP, nor the sticks, nor the pilot, nor a timeout has ended.
A == INSTANCE MotionAuthority WITH
       driver <- out, estop <- stationEstop, granted <- autoCommandActive,
       contact <- stationLinkValid
Authority == A!Spec

Silent == inbox = <<>> /\ linkAge = Never

\* A station that falls silent for good drives nothing for good.
SilenceStops == <>[]Silent => <>[](out \notin {"station", "auto"})

\* With the station silent and its E-stop released, a pilot in MANUAL with a
\* valid signal and a stick out of the deadband drives in the end.
PilotRegains ==
  <>[](Silent /\ rc = [valid |-> TRUE, auto |-> FALSE, move |-> TRUE])
    => []<>stationEstop \/ <>[](out = "rc")

\* docs/safety_and_failures.md:21-37: STOP can come from "invalid RC / rover
\* failsafe", and then "rover does not resume motion automatically": AUTO does
\* not follow a failsafe without a new frame.
NoResumeAfterFailsafe ==
  [][currentMode = "FAILSAFE" /\ inbox' = inbox => out' # "auto"]_vars
=============================================================================
