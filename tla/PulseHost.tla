----------------------------- MODULE PulseHost ------------------------------
(***************************************************************************)
(* The host side of the guarded USB drive (executor.py) against the        *)
(* firmware of GuardedUsb, over the two directions of the serial link.     *)
(* send_pulse arms, fires, waits for the pulse to end and stops;           *)
(* send_live_drive refreshes a setpoint until its time is over, and stops. *)
(* Every wait discards the rows it is not looking for, matches rows by     *)
(* event name only (never by sequence number) and may time out; the link   *)
(* is reliable and ordered but arbitrarily slow.                           *)
(***************************************************************************)
EXTENDS GuardedUsb, Sequences

CONSTANTS
  Shots,    \* the CMD lines a plan may hold
  Setpoints,\* the LIVE_SET lines a live drive may hold
  LinkCap,  \* bound: lines, and rows, in transit
  MayCrash  \* the host process may die and be started again

ASSUME HostConstants ==
  /\ Shots \subseteq {line \in Lines : line.op = "CMD"}
  /\ Setpoints \subseteq {line \in Lines : line.op = "SET"}
  /\ LinkCap \in Nat \ {0}
  /\ MayCrash \in BOOLEAN

Phases == {"idle", "arm", "ack", "done", "confirm", "stop",
           "live_next", "live_wait", "live_stop", "crashed"}

VARIABLES
  tx,        \* lines written by the host and not yet read by the firmware
  rx,        \* status rows printed and not yet read by the host
  host,      \* the wait the host is in
  force,     \* planned["force_stop_command"]
  sawAck,    \* an ACK is among the rows of this pulse
  sawStop,   \* a stop row is among the rows of this pulse
  late       \* history: "yes" once a wait has given up before its answer (for a live
             \* row, ARM, ACK or STOP, or for the end of a pulse that was still running),
             \* "died" once the process has died

hostVars == <<tx, rx, host, force, sawAck, sawStop, late>>
allVars == <<usbVars, hostVars>>

\* executor.STOP_CONFIRM_EVENTS; of safety.STOP_EVENTS the firmware prints
\* these two only.
StopEvents == {"STOP", "STOP_ALREADY_ZERO"}

\* What each wait looks for.
Wanted ==
  [arm |-> {"ARM", "REJECT"}, ack |-> {"ACK", "REJECT"}, done |-> StopEvents,
   confirm |-> StopEvents, stop |-> StopEvents,
   live_wait |-> {"ACTIVE", "REJECT"}, live_stop |-> StopEvents]

HostInit ==
  /\ Init
  /\ tx = <<>> /\ rx = <<>>
  /\ host = "idle"
  /\ force = FALSE
  /\ sawAck = FALSE /\ sawStop = FALSE
  /\ late = "no"

-----------------------------------------------------------------------------
(* The firmware and the link.                                              *)

\* A status line reaches a living host, unless the USB buffer is full and stays
\* so: then the print times out and the row is lost.  Heartbeats are rows no
\* wait looks for.
Deliver ==
  IF said' \in {"NONE", "HEARTBEAT"} \/ host = "crashed" \/ Len(rx) = LinkCap
  THEN UNCHANGED rx
  ELSE rx' = Append(rx, said')

FirmwareReads ==
  /\ tx # <<>>
  /\ HandleLine(Head(tx))
  /\ tx' = Tail(tx)
  /\ Deliver
  /\ UNCHANGED <<host, force, sawAck, sawStop, late>>

\* A pass goes on without the lines that are still on their way.
FirmwareRuns ==
  /\ Sample \/ UpdatePulse \/ stage16Heartbeat
  /\ Deliver
  /\ UNCHANGED <<tx, host, force, sawAck, sawStop, late>>

-----------------------------------------------------------------------------
(* The host.                                                               *)

\* The plan and the rows of a pulse are those of its call.
NoRecord == force' = FALSE /\ sawAck' = FALSE /\ sawStop' = FALSE

Write(line) == Len(tx) < LinkCap /\ tx' = Append(tx, line)

BeginPulse ==
  /\ host = "idle"
  /\ Write([op |-> "ARM"])
  /\ host' = "arm"
  /\ force' \in BOOLEAN
  /\ sawAck' = FALSE /\ sawStop' = FALSE
  /\ UNCHANGED <<rx, late>>

\* Mutant for SettlesDisarmed: without its ARM the pulse is given up on the spot.
GiveUpAfterArm ==
  /\ host = "arm"
  /\ IF rx = <<>>
     THEN host' = "idle" /\ UNCHANGED tx
     ELSE host' = "ack" /\ \E line \in Shots : Write(line)

\* After the wait for ARM, whatever it brought, the command is written.
AfterArm ==
  /\ host = "arm"
  /\ \E line \in Shots : Write(line)
  /\ host' = "ack"

\* Mutant for CallsAreGuarded: the acknowledgement is taken for the end.
AckEndsPulse == host = "ack" /\ host' = "idle" /\ UNCHANGED tx

AfterAck == host = "ack" /\ host' = "done" /\ UNCHANGED tx

\* A stop row ended the wait for the pulse: a STOP is added only if the plan
\* wants one, and not waited for.
AfterDone ==
  /\ host = "done"
  /\ IF force THEN Write([op |-> "STOP"]) ELSE UNCHANGED tx
  /\ host' = "idle"

\* No stop row came in time.  If other rows did, one more short wait; then STOP,
\* and a wait for it unless this pulse has shown a stop row already.
DoneTimedOut ==
  \/ host = "done" /\ host' = "confirm" /\ UNCHANGED tx
  \/ /\ host \in {"done", "confirm"}
     /\ Write([op |-> "STOP"])
     /\ host' = IF sawStop THEN "idle" ELSE "stop"

AfterConfirm ==
  /\ host = "confirm"
  /\ Write([op |-> "STOP"])
  /\ host' = "idle"

AfterStop == host \in {"stop", "live_stop"} /\ host' = "idle" /\ UNCHANGED tx

\* send_live_drive: refresh, or stop when the time is over.
BeginLive ==
  /\ host = "idle"
  /\ Setpoints # {}
  /\ host' = "live_next"
  /\ NoRecord
  /\ UNCHANGED <<tx, rx, late>>

Refresh ==
  /\ host = "live_next"
  /\ \E line \in Setpoints : Write(line)
  /\ host' = "live_wait"
  /\ UNCHANGED <<rx, force, sawAck, sawStop, late>>

\* Mutant for PulseBounded: the live drive is left to its time to live.
EndLiveSilently ==
  /\ host = "live_next"
  /\ host' = "idle"
  /\ UNCHANGED <<tx, rx, force, sawAck, sawStop, late>>

EndLive ==
  /\ host = "live_next"
  /\ Write([op |-> "LIVE_STOP"])
  /\ host' = "live_stop"
  /\ UNCHANGED <<rx, force, sawAck, sawStop, late>>

LiveAnswered(event) ==
  /\ host = "live_wait"
  /\ IF event = "REJECT"
     THEN Write([op |-> "LIVE_STOP"]) /\ host' = "live_stop"
     ELSE UNCHANGED tx /\ host' = "live_next"

\* A row the wait is not looking for is kept in the record and skipped.
SkipRow ==
  /\ host \in DOMAIN Wanted /\ rx # <<>>
  /\ Head(rx) \notin Wanted[host]
  /\ rx' = Tail(rx)
  /\ sawAck' = (sawAck \/ Head(rx) = "ACK")
  /\ sawStop' = (sawStop \/ Head(rx) \in StopEvents)
  /\ UNCHANGED <<tx, host, force, late>>

Answered ==
  /\ host \in DOMAIN Wanted /\ rx # <<>>
  /\ Head(rx) \in Wanted[host]
  /\ rx' = Tail(rx)
  /\ sawAck' = (sawAck \/ Head(rx) = "ACK")
  /\ sawStop' = (sawStop \/ Head(rx) \in StopEvents)
  /\ \/ AfterArm \/ AfterAck \/ AfterDone \/ AfterConfirm \/ AfterStop
     \/ LiveAnswered(Head(rx))
  /\ UNCHANGED <<force, late>>

GivenUp == late' = IF late = "died" THEN "died" ELSE "yes"

\* A wait gives up by the clock alone, whatever rows are about to be read.
TimedOut ==
  /\ host \in DOMAIN Wanted
  /\ \/ (AfterArm \/ AfterAck \/ AfterStop) /\ GivenUp
     \/ DoneTimedOut /\ IF pulse.active THEN GivenUp ELSE UNCHANGED late
     \/ host = "live_wait" /\ host' = "live_next" /\ GivenUp /\ UNCHANGED tx
  /\ UNCHANGED <<rx, force, sawAck, sawStop>>

\* The process dies with some of its output unsent, and may be started again,
\* which discards the rows that were waiting.
Crash ==
  /\ MayCrash /\ host # "crashed"
  /\ host' = "crashed" /\ late' = "died"
  /\ \E n \in 0..Len(tx) : tx' = SubSeq(tx, 1, n)
  /\ NoRecord
  /\ UNCHANGED rx

Restart ==
  /\ host = "crashed" /\ tx = <<>>
  /\ host' = "idle"
  /\ rx' = <<>>
  /\ UNCHANGED <<tx, force, sawAck, sawStop, late>>

HostStep ==
  \/ BeginPulse \/ BeginLive \/ Refresh \/ EndLive
  \/ SkipRow \/ Answered \/ TimedOut
  \/ Crash \/ Restart

HostNext == (HostStep /\ UNCHANGED usbVars) \/ FirmwareReads \/ FirmwareRuns

HostSpec == HostInit /\ [][HostNext]_allVars

\* The firmware reads what arrives; nothing is asked of the host.
HostFairSpec ==
  /\ HostSpec
  /\ WF_allVars(Sample /\ FirmwareRuns) /\ WF_allVars(stage16Heartbeat /\ FirmwareRuns)
  /\ SF_allVars(UpdatePulse /\ FirmwareRuns) /\ SF_allVars(TimePasses /\ FirmwareRuns)
  /\ SF_allVars(FirmwareReads)

-----------------------------------------------------------------------------
(* The calls, for a caller that sees neither lines nor rows.               *)

Calling ==
  IF host \in {"arm", "ack", "done", "confirm", "stop"} THEN "pulse"
  ELSE IF host \in {"live_next", "live_wait", "live_stop"} THEN "live" ELSE "none"

Doing ==
  IF live.active THEN "live" ELSE IF pulse.active THEN "pulse"
  ELSE IF armed THEN "armed" ELSE "rest"

Asked == \E i \in 1..Len(tx) : tx[i].op = "ARM"

Trust == IF late = "no" THEN "full" ELSE IF late = "yes" THEN "some" ELSE "none"

Contract == INSTANCE GuardedCall
  WITH call <- Calling, rover <- Doing, asked <- Asked, trust <- Trust

-----------------------------------------------------------------------------
(* Properties.                                                             *)

Resting == out # "usb" /\ ~pulse.active /\ ~live.active /\ ~armed

\* However slow the link and whichever waits time out: once an idle host's
\* lines have all been read no arm and no live drive is left behind; only a process that
\* died in between may leave its arm to the next one.
SettlesDisarmed == host = "idle" /\ tx = <<>> /\ late # "died" => ~armed /\ ~live.active

\* As long as no wait has given up too early, an idle host means a rover at rest,
\* also after rejected arms and commands, and whatever rows are left over.
ReturnsAtRest == host = "idle" /\ late = "no" => Resting

\* While no wait has given up too early, each call of the executor begins and returns
\* with the rover at rest, fires one pulse at most and never mixes a pulse with a live
\* drive; afterwards a pulse still needs an arm.
CallsAreGuarded == Contract!Spec

\* Under a host that lives a pulse ends on its own length also in the live build,
\* where the firmware alone would let a live drive hide it.
PulseBounded == pulse.active /\ late # "died" => ~live.active /\ pulse.age < pulse.ms + MaxStep

\* A host that dies, at any point, leaves a rover that comes to rest.
CrashComesToRest == <>[](host = "crashed") => <>[](out # "usb")

\* safety.py:45: "Events that mark the controlled end of a pulse (motor output
\* must be zero after)": a pulse whose rows hold an ACK and a stop row has ended
\* when send_pulse returns.
CompleteMeansEnded ==
  [][(host \in {"done", "confirm", "stop"} /\ host' = "idle" /\ sawAck' /\ sawStop')
       => ~pulse.active /\ out # "usb"]_allVars
=============================================================================
