--------------------------- MODULE PulseHostProofs ---------------------------
(***************************************************************************)
(* Proofs about PulseHost: a host and a firmware that share nothing but    *)
(* lines and rows in transit, for every build, every set of lines, every   *)
(* length of the link, and a process that may die.                         *)
(***************************************************************************)
EXTENDS PulseHost, GuardedUsbProofs, SequenceTheorems

LinkTypes ==
  /\ tx \in Seq(Lines) /\ rx \in Seq(Events)
  /\ host \in Phases /\ late \in {"no", "yes", "died"}
  /\ force \in BOOLEAN /\ sawAck \in BOOLEAN /\ sawStop \in BOOLEAN

-----------------------------------------------------------------------------
(* What a living host may leave behind, whatever times out.                *)

EndsMotion == {"STOP", "LIVE_STOP"}

\* Once the lines in transit are read an arm is left only by the ARM that the
\* host is about to follow with its command.
ArmWaits ==
  (IF tx = <<>> THEN armed ELSE tx[Len(tx)].op = "ARM") => host = "arm"

\* A live drive is the one the firmware runs (0) or the one a line asks for; a
\* stop in between takes it away.
Holds(i) == IF i = 0 THEN live.active ELSE tx[i].op = "SET"
Stopped(lines, i, k) == \E j \in (i + 1)..(k - 1) : lines[j].op \in EndsMotion

LiveWaits ==
  \A i \in 0..Len(tx) :
    Holds(i) => host \in {"live_next", "live_wait"} \/ Stopped(tx, i, Len(tx) + 1)

\* No pulse begins beside a live drive.
LiveApart ==
  /\ ~(pulse.active /\ live.active)
  /\ \A i \in 0..Len(tx) : \A k \in (i + 1)..Len(tx) :
       Holds(i) /\ tx[k].op \in {"ARM", "CMD"} => Stopped(tx, i, k)

Leftovers ==
  late # "died" => host # "crashed" /\ ArmWaits /\ LiveWaits /\ LiveApart

-----------------------------------------------------------------------------
(* Where lines and rows are while no wait has given up.                    *)

StopLine(line) == line.op = "STOP" \/ (line.op = "LIVE_STOP" /\ LiveEnabled)
StopLines(lines, n) == \A i \in 1..n : StopLine(lines[i])
StopRows(rows, n) == \A i \in 1..n : rows[i] \in StopEvents

AtEase == ~pulse.active /\ ~live.active /\ ~armed /\ StopLines(tx, Len(tx)) /\ StopRows(rx, Len(rx))

\* The ARM is the last line, or its answer the last row.
ArmInHand ==
  /\ ~pulse.active /\ ~live.active
  /\ \/ /\ ~armed /\ tx # <<>> /\ tx[Len(tx)].op = "ARM"
        /\ StopLines(tx, Len(tx) - 1) /\ StopRows(rx, Len(rx))
     \/ tx = <<>> /\ StopRows(rx, Len(rx) - 1)

\* The command is on its way and nothing else is, or its answer is the first row
\* and a stop row says that the pulse is over.
CommandInHand ==
  /\ ~live.active
  /\ \/ Len(tx) = 1 /\ tx[1].op = "CMD" /\ rx = <<>> /\ ~pulse.active
     \/ /\ tx = <<>> /\ ~armed
        /\ \A i \in 2..Len(rx) : rx[i] \in StopEvents
        /\ pulse.active => \A i \in 1..Len(rx) : rx[i] \notin StopEvents

PulseInHand ==
  /\ ~live.active /\ ~armed
  /\ tx = <<>> /\ StopRows(rx, Len(rx))
  /\ pulse.active => rx = <<>>

LiveInHand ==
  /\ LiveEnabled /\ ~pulse.active /\ ~armed
  /\ StopLines(tx, Len(tx)) /\ StopRows(rx, Len(rx))
  /\ live.active => rx = <<>>

\* The setpoint is the last line, or its answer the only row but for stop rows,
\* of which those behind it say that the drive is over.
SetpointInHand ==
  /\ LiveEnabled /\ ~pulse.active /\ ~armed
  /\ \/ /\ tx # <<>> /\ tx[Len(tx)].op = "SET"
        /\ StopLines(tx, Len(tx) - 1) /\ StopRows(rx, Len(rx))
        /\ live.active => rx = <<>>
     \/ /\ tx = <<>>
        /\ \A i \in 1..Len(rx) : rx[i] \notin StopEvents =>
             /\ \A j \in 1..Len(rx) : j # i => rx[j] \in StopEvents
             /\ live.active => i = Len(rx)

Handshake ==
  \/ host \in {"idle", "confirm", "stop"} /\ AtEase
  \/ host = "arm" /\ ArmInHand
  \/ host = "ack" /\ CommandInHand
  \/ host = "done" /\ PulseInHand
  \/ host \in {"live_next", "live_stop"} /\ LiveInHand
  \/ host = "live_wait" /\ SetpointInHand

InStep == late = "no" => Handshake

-----------------------------------------------------------------------------
(* What a step of the firmware does, as its host could tell.               *)

LEMMA LineEffect ==
  ASSUME IInv, NEW line \in Lines, HandleLine(line)
  PROVE  /\ armed' => line.op = "ARM"
         /\ pulse'.active => line.op = "CMD" /\ live' = live /\ said' = "ACK"
         /\ live'.active => line.op = "SET" \/ (live.active /\ line.op \in {"ARM", "CMD"})
         /\ StopLine(line) => said' \in StopEvents
         /\ line.op = "ARM" => said' \in {"ARM", "REJECT"}
         /\ line.op = "CMD" => said' \in {"ACK", "REJECT"}
         /\ line.op = "SET" => said' \in {"ACTIVE", "REJECT"}
<1>. USE DEF StopLine, StopEvents, Say
<1>1. CASE line.op = "STOP" /\ UsbStop
  BY <1>1 DEF UsbStop, Halt, NoPulse, NoLive
<1>2. CASE line.op = "ARM" /\ stage16Arm
  BY <1>2 DEF stage16Arm, ArmAccepted, stage16Reject, Halt, NoPulse, NoLive
<1>3. CASE line.op = "CMD" /\ Cmd(line)
  BY <1>3 DEF Cmd, StartPulse, stage16Reject, Halt, NoPulse, NoLive
<1>4. CASE line.op = "SET" /\ LiveEnabled /\ LiveSet(line)
  BY <1>4 DEF LiveSet, HoldSetpoint, stage16Reject, Halt, NoPulse, NoLive
<1>5. CASE line.op = "LIVE_STOP" /\ LiveEnabled /\ stage16Stop
  BY <1>5 DEF stage16Stop, Halt, NoPulse, NoLive
<1>6. CASE line.op \in {"SET", "LIVE_STOP", "BAD"} /\ ~(line.op = "LIVE_STOP" /\ LiveEnabled)
             /\ stage16Reject
  BY <1>6 DEF stage16Reject, Halt, NoPulse, NoLive
<1>. QED  BY <1>1, <1>2, <1>3, <1>4, <1>5, <1>6 DEF HandleLine

LEMMA RunEffect ==
  ASSUME IInv, Sample \/ UpdatePulse \/ stage16Heartbeat
  PROVE  /\ armed' => armed
         /\ pulse'.active => pulse.active
         /\ live'.active => live.active
         /\ said' \in {"NONE", "HEARTBEAT", "STOP"}
         /\ said' = "STOP" => /\ pulse.active \/ live.active
                              /\ ~pulse'.active /\ ~live'.active
<1>. USE DEF Say
<1>1. CASE Sample
  <2>1. PICK d \in 0..MaxStep, r \in RcStates : Top(d, r)
    BY <1>1 DEF Sample
  <2>2. AgeBy(pulse, d).active = pulse.active /\ AgeBy(live, d).active = live.active
    BY DEF AgeBy, IInv, TypeOK, Pulses, Lives
  <2>3. live'.active = live.active
    <3>1. AgeBy(live, d) \in [active : BOOLEAN, seq : Seqs, ms : Nat, ttl : Nat, age : Nat,
                              sinceSet : Nat]
      BY DEF AgeBy, IInv, TypeOK, Lives
    <3>. QED  BY <2>1, <2>2, <3>1 DEF Top
  <2>. QED  BY <2>1, <2>2, <2>3 DEF Top, PilotTakes, NoPulse
<1>2. CASE UpdatePulse
  BY <1>2 DEF UpdatePulse, UpdateWithoutRc, UpdateLive, UpdateActivePulse, UpdateIdle,
              stage16Stop, Halt, NoPulse, NoLive
<1>3. CASE stage16Heartbeat
  BY <1>3 DEF stage16Heartbeat
<1>. QED  BY <1>1, <1>2, <1>3

LEMMA Delivery ==
  ASSUME Deliver
  PROVE  \/ rx' = rx
         \/ rx' = Append(rx, said') /\ said' \notin {"NONE", "HEARTBEAT"}
  BY DEF Deliver

\* The first element of a queue is taken, or one is added at its end.
LEMMA Taken ==
  ASSUME NEW S, NEW q \in Seq(S), q # <<>>
  PROVE  /\ Head(q) \in S /\ Head(q) = q[1]
         /\ Tail(q) \in Seq(S) /\ Len(Tail(q)) = Len(q) - 1 /\ Len(q) \in Nat \ {0}
         /\ \A i \in 1..(Len(q) - 1) : Tail(q)[i] = q[i + 1]
         /\ Tail(q) = <<>> <=> Len(q) = 1
<1>1. Len(q) \in Nat \ {0}
  BY EmptySeq
<1>2. Tail(q) \in Seq(S) /\ Len(Tail(q)) = Len(q) - 1
  BY HeadTailProperties
<1>3. Tail(q) = <<>> <=> Len(q) = 1
  <2>. DEFINE r == Tail(q)
  <2>1. r \in Seq(S) /\ Len(r) = Len(q) - 1
    BY <1>2
  <2>. HIDE DEF r
  <2>2. r = <<>> <=> Len(r) = 0
    BY <2>1, EmptySeq
  <2>. QED  BY <1>1, <2>1, <2>2 DEF r
<1>. QED  BY <1>1, <1>2, <1>3, HeadTailProperties

LEMMA Added ==
  ASSUME NEW S, NEW q \in Seq(S), NEW e \in S
  PROVE  /\ Append(q, e) \in Seq(S) /\ Append(q, e) # <<>>
         /\ Len(Append(q, e)) = Len(q) + 1 /\ Len(q) \in Nat
         /\ \A i \in 1..Len(q) : Append(q, e)[i] = q[i]
         /\ Append(q, e)[Len(q) + 1] = e
  BY AppendProperties, LenProperties

-----------------------------------------------------------------------------
(* Types of the link, and the firmware behind it.                          *)

LEMMA HostLines ==
  /\ Shots \subseteq Lines /\ Setpoints \subseteq Lines
  /\ \A line \in Shots : line.op = "CMD"
  /\ \A line \in Setpoints : line.op = "SET"
  /\ [op |-> "ARM"] \in Lines /\ [op |-> "STOP"] \in Lines /\ [op |-> "LIVE_STOP"] \in Lines
<1>1. \A o \in {"STOP", "ARM", "LIVE_STOP"} : [op |-> o] \in Lines
  BY DEF Lines
<1>. QED  BY <1>1, HostConstants

LEMMA FirmwareStep ==
  ASSUME IInv, LinkTypes, [HostNext]_allVars
  PROVE  IInv'
<1>1. CASE FirmwareReads
  <2>1. tx # <<>> /\ HandleLine(Head(tx))
    BY <1>1 DEF FirmwareReads
  <2>2. Head(tx) \in Lines
    BY <2>1, Taken DEF LinkTypes
  <2>. QED  BY <2>1, <2>2, LineStep
<1>2. CASE FirmwareRuns
  BY <1>2, TopStep, UpdateStep, BeatStep DEF FirmwareRuns, Sample
<1>3. CASE UNCHANGED usbVars
  BY <1>3, StutterStep
<1>. QED  BY <1>1, <1>2, <1>3 DEF HostNext, allVars

\* The host appends one of its own lines or none, and takes the first row, or none.
Writes == \E line \in Lines : tx' = Append(tx, line)

LEMMA HostWrites ==
  ASSUME HostStep, ~Crash
  PROVE  UNCHANGED tx \/ Writes
<1>. USE HostLines DEF Write, Writes
<1>1. CASE AfterArm
  BY <1>1 DEF AfterArm
<1>2. CASE AfterAck \/ AfterDone \/ AfterConfirm \/ AfterStop
  BY <1>2 DEF AfterAck, AfterDone, AfterConfirm, AfterStop
<1>3. CASE \E e : LiveAnswered(e)
  BY <1>3 DEF LiveAnswered
<1>4. CASE DoneTimedOut
  BY <1>4 DEF DoneTimedOut
<1>5. CASE BeginPulse \/ BeginLive \/ EndLive \/ SkipRow \/ Restart
  BY <1>5 DEF BeginPulse, BeginLive, EndLive, SkipRow, Restart
<1>6. CASE Refresh
  BY <1>6 DEF Refresh
<1>. QED
  BY <1>1, <1>2, <1>3, <1>4, <1>5, <1>6 DEF HostStep, Answered, TimedOut

LEMMA LinkInit == HostInit => IInv /\ LinkTypes
<1>. SUFFICES ASSUME HostInit  PROVE IInv /\ LinkTypes
  OBVIOUS
<1>1. IInv
  BY InitInv DEF HostInit
<1>2. <<>> \in Seq(Lines) /\ <<>> \in Seq(Events)
  OBVIOUS
<1>. QED  BY <1>1, <1>2 DEF HostInit, LinkTypes, Phases

LEMMA LinkStep ==
  ASSUME IInv, LinkTypes, [HostNext]_allVars
  PROVE  LinkTypes'
<1>. USE DEF LinkTypes
<1>1. CASE FirmwareReads \/ FirmwareRuns
  <2>1. rx' \in Seq(Events)
    <3>1. said' \in Events \cup {"NONE"}
      BY FirmwareStep DEF IInv, TypeOK
    <3>2. rx' = rx \/ (rx' = Append(rx, said') /\ said' \in Events)
      BY <1>1, <3>1, Delivery DEF FirmwareReads, FirmwareRuns
    <3>. QED  BY <3>2, Added
  <2>2. tx' \in Seq(Lines)
    <3>1. tx' = tx \/ (tx # <<>> /\ tx' = Tail(tx))
      BY <1>1 DEF FirmwareReads, FirmwareRuns
    <3>. QED  BY <3>1, Taken
  <2>. QED  BY <1>1, <2>1, <2>2 DEF FirmwareReads, FirmwareRuns
<1>2. CASE HostStep
  <2>1. tx' \in Seq(Lines)
    <3>1. CASE Crash
      <4>1. PICK n \in 0..Len(tx) : tx' = SubSeq(tx, 1, n)
        BY <3>1 DEF Crash
      <4>2. \A i \in 1..n : tx[i] \in Lines
        BY <4>1, ElementOfSeq, LenProperties
      <4>3. n \in Int
        OBVIOUS
      <4>. QED  BY <4>1, <4>2, <4>3, SubSeqProperties
    <3>2. CASE ~Crash
      BY <1>2, <3>2, HostWrites, Added DEF Writes
    <3>. QED  BY <3>1, <3>2
  <2>2. rx' \in Seq(Events)
    <3>1. rx' = rx \/ rx' = <<>> \/ (rx # <<>> /\ rx' = Tail(rx))
      BY <1>2 DEF HostStep, BeginPulse, BeginLive, Refresh, EndLive, SkipRow, Answered,
                  TimedOut, Crash, Restart
    <3>. QED  BY <3>1, Taken, EmptySeq
  <2>3. host' \in Phases
    <3>1. CASE Answered
      BY <3>1 DEF Answered, AfterArm, AfterAck, AfterDone, AfterConfirm, AfterStop,
                  LiveAnswered, Phases
    <3>2. CASE TimedOut
      BY <3>2 DEF TimedOut, AfterArm, AfterAck, AfterStop, DoneTimedOut, Phases
    <3>. QED
      BY <1>2, <3>1, <3>2
         DEF HostStep, BeginPulse, BeginLive, Refresh, EndLive, SkipRow, Crash, Restart, Phases
  <2>4. late' \in {"no", "yes", "died"}
    BY <1>2 DEF HostStep, BeginPulse, BeginLive, Refresh, EndLive, SkipRow, Answered,
                TimedOut, Crash, Restart, GivenUp
  <2>5. force' \in BOOLEAN /\ sawAck' \in BOOLEAN /\ sawStop' \in BOOLEAN
    BY <1>2 DEF HostStep, BeginPulse, BeginLive, Refresh, EndLive, SkipRow, Answered,
                TimedOut, Crash, Restart, NoRecord
  <2>. QED  BY <2>1, <2>2, <2>3, <2>4, <2>5
<1>3. CASE UNCHANGED allVars
  BY <1>3 DEF allVars, hostVars
<1>. QED  BY <1>1, <1>2, <1>3 DEF HostNext

-----------------------------------------------------------------------------
(* Leftovers, step by step.                                                *)

\* The host waits on, or goes on without writing.
LEMMA LeftoversKept ==
  ASSUME Leftovers, UNCHANGED <<usbVars, tx>>,
         late' # "died" =>
           /\ late # "died" /\ host' # "crashed"
           /\ host = "arm" => host' = "arm"
           /\ host \in {"live_next", "live_wait"} => host' \in {"live_next", "live_wait"}
  PROVE  Leftovers'
<1>. SUFFICES ASSUME late' # "died"
              PROVE  host' # "crashed" /\ ArmWaits' /\ LiveWaits' /\ LiveApart'
  BY DEF Leftovers
<1>. USE DEF Leftovers, usbVars
<1>1. ArmWaits'
  BY DEF ArmWaits
<1>2. LiveWaits'
  BY DEF LiveWaits, Holds, Stopped
<1>3. LiveApart'
  BY DEF LiveApart, Holds, Stopped
<1>. QED  BY <1>1, <1>2, <1>3

\* The host writes a line: its ARM when nothing is live, its command behind the
\* ARM, its setpoints in a live drive, the end of which is a stop.
LEMMA LeftoversWritten ==
  ASSUME LinkTypes, Leftovers, UNCHANGED usbVars,
         NEW line \in Lines, tx' = Append(tx, line),
         late' # "died" => late # "died", host' # "crashed",
         line.op = "ARM" <=> host' = "arm",
         line.op \in {"ARM", "CMD"} => host \notin {"live_next", "live_wait"},
         line.op = "SET" => host' \in {"live_next", "live_wait"},
         host \in {"live_next", "live_wait"} =>
           host' \in {"live_next", "live_wait"} \/ line.op \in EndsMotion
  PROVE  Leftovers'
<1>. SUFFICES ASSUME late' # "died"
              PROVE  ArmWaits' /\ LiveWaits' /\ LiveApart'
  BY DEF Leftovers
<1>. DEFINE n == Len(tx)
<1>1. /\ n \in Nat /\ Len(tx') = n + 1 /\ tx' # <<>>
      /\ \A i \in 1..n : tx'[i] = tx[i]
      /\ tx'[n + 1] = line
  BY Added DEF LinkTypes
<1>2. UNCHANGED <<pulse, live, armed>>
  BY DEF usbVars
<1>3. \A i \in 0..n : Holds(i)' <=> Holds(i)
  BY <1>1, <1>2 DEF Holds
<1>4. \A i \in 0..n : \A k \in 1..(n + 1) : Stopped(tx', i, k) <=> Stopped(tx, i, k)
  BY <1>1 DEF Stopped
<1>5. ArmWaits'
  BY <1>1 DEF ArmWaits
<1>6. LiveWaits'
  <2>. SUFFICES ASSUME NEW i \in 0..(n + 1), Holds(i)', host' \notin {"live_next", "live_wait"}
                PROVE  Stopped(tx', i, n + 2)
    BY <1>1 DEF LiveWaits
  <2>1. i \in 0..n
    BY <1>1 DEF Holds
  <2>2. CASE host \in {"live_next", "live_wait"}
    BY <1>1, <2>1, <2>2 DEF Stopped
  <2>3. CASE Stopped(tx, i, n + 1)
    BY <1>1, <2>1, <2>3 DEF Stopped
  <2>. QED  BY <1>3, <2>1, <2>2, <2>3 DEF Leftovers, LiveWaits
<1>7. LiveApart'
  <2>1. ~(pulse'.active /\ live'.active)
    BY <1>2 DEF Leftovers, LiveApart
  <2>2. ASSUME NEW i \in 0..(n + 1), NEW k \in (i + 1)..(n + 1), Holds(i)',
               tx'[k].op \in {"ARM", "CMD"}
        PROVE  Stopped(tx', i, k)
    <3>1. i \in 0..n /\ Holds(i)
      BY <1>1, <1>3, <2>2
    <3>2. CASE k <= n
      BY <1>1, <1>4, <2>2, <3>1, <3>2 DEF Leftovers, LiveApart
    <3>3. CASE k = n + 1
      <4>1. Stopped(tx, i, n + 1)
        BY <1>1, <2>2, <3>1, <3>3 DEF Leftovers, LiveWaits
      <4>. QED  BY <1>1, <1>4, <3>1, <3>3, <4>1
    <3>. QED  BY <1>1, <2>2, <3>2, <3>3
  <2>. QED  BY <1>1, <2>1, <2>2 DEF LiveApart
<1>. QED  BY <1>5, <1>6, <1>7

\* The firmware reads a line: what it begins was asked for in it.
LEMMA LeftoversRead ==
  ASSUME IInv, LinkTypes, Leftovers, FirmwareReads
  PROVE  Leftovers'
<1>. SUFFICES ASSUME late # "died"
              PROVE  host' # "crashed" /\ ArmWaits' /\ LiveWaits' /\ LiveApart'
  BY DEF Leftovers, FirmwareReads
<1>. DEFINE n == Len(tx)  line == tx[1]
<1>1. UNCHANGED host /\ host # "crashed"
  BY DEF FirmwareReads, Leftovers
<1>2. /\ n \in Nat \ {0} /\ Len(tx') = n - 1 /\ (tx' = <<>> <=> n = 1)
      /\ \A i \in 1..(n - 1) : tx'[i] = tx[i + 1]
      /\ line \in Lines /\ HandleLine(line)
  BY Taken DEF LinkTypes, FirmwareReads
<1>3. /\ armed' => line.op = "ARM"
      /\ pulse'.active => line.op = "CMD" /\ live' = live
      /\ live'.active => line.op = "SET" \/ (live.active /\ line.op \in {"ARM", "CMD"})
  BY <1>2, LineEffect
<1>. HIDE DEF line
<1>4. ArmWaits'
  <2>1. CASE n = 1
    BY <1>1, <1>2, <1>3, <2>1 DEF ArmWaits, Leftovers, line
  <2>2. CASE n > 1
    <3>1. tx' # <<>> /\ tx'[Len(tx')] = tx[n]
      BY <1>2, <2>2
    <3>. QED  BY <1>1, <1>2, <2>2, <3>1 DEF ArmWaits, Leftovers
  <2>. QED  BY <1>2, <2>1, <2>2
\* A stop behind the line has moved up by one place.
<1>up. ASSUME NEW i \in 0..(n - 1), NEW k \in (i + 2)..(n + 1), Stopped(tx, i + 1, k)
      PROVE  Stopped(tx', i, k - 1)
  <2>1. PICK j \in (i + 2)..(k - 1) : tx[j].op \in EndsMotion
    BY <1>2, <1>up DEF Stopped
  <2>2. j - 1 \in 1..(n - 1) /\ (j - 1) + 1 = j /\ j - 1 \in (i + 1)..(k - 2)
    BY <1>2, <2>1
  <2>3. tx'[j - 1] = tx[j]
    BY <1>2, <2>2
  <2>4. (k - 1) - 1 = k - 2
    OBVIOUS
  <2>. QED  BY <2>1, <2>2, <2>3, <2>4 DEF Stopped
\* What is live after the step was live before, in the line or behind it.
<1>5. ASSUME NEW i \in 0..(n - 1), Holds(i)'
      PROVE  \E h \in 0..(i + 1) :
               /\ Holds(h)
               /\ \A k \in (i + 2)..(n + 1) : Stopped(tx, h, k) => Stopped(tx', i, k - 1)
  <2>1. CASE i = 0 /\ line.op = "SET"
    <3>1. Holds(1)
      BY <2>1 DEF Holds, line
    <3>2. \A k \in 2..(n + 1) : Stopped(tx, 1, k) => Stopped(tx', 0, k - 1)
      BY <1>up
    <3>. QED  BY <1>2, <2>1, <3>1, <3>2
  <2>2. CASE i = 0 /\ line.op # "SET"
    <3>1. Holds(0) /\ line.op \notin EndsMotion
      BY <1>3, <1>5, <2>2 DEF Holds, EndsMotion
    <3>2. ASSUME NEW k \in 2..(n + 1), Stopped(tx, 0, k)
          PROVE  Stopped(tx, 1, k)
      BY <3>1, <3>2 DEF Stopped, line
    <3>3. \A k \in 2..(n + 1) : Stopped(tx, 0, k) => Stopped(tx', 0, k - 1)
      BY <1>up, <3>2
    <3>. QED  BY <1>2, <2>2, <3>1, <3>3
  <2>3. CASE i > 0
    <3>1. Holds(i + 1)
      BY <1>2, <1>5, <2>3 DEF Holds
    <3>2. \A k \in (i + 2)..(n + 1) : Stopped(tx, i + 1, k) => Stopped(tx', i, k - 1)
      BY <1>up
    <3>. QED  BY <1>2, <2>3, <3>1, <3>2
  <2>. QED  BY <2>1, <2>2, <2>3
<1>6. LiveWaits'
  <2>. SUFFICES ASSUME NEW i \in 0..(n - 1), Holds(i)', host \notin {"live_next", "live_wait"}
                PROVE  Stopped(tx', i, n)
    BY <1>1, <1>2 DEF LiveWaits
  <2>1. PICK h \in 0..(i + 1) :
          Holds(h) /\ \A k \in (i + 2)..(n + 1) : Stopped(tx, h, k) => Stopped(tx', i, k - 1)
    BY <1>5
  <2>2. Stopped(tx, h, n + 1)
    BY <1>2, <2>1 DEF Leftovers, LiveWaits
  <2>3. n + 1 \in (i + 2)..(n + 1) /\ (n + 1) - 1 = n
    BY <1>2
  <2>. QED  BY <2>1, <2>2, <2>3
<1>7. LiveApart'
  <2>1. ~(pulse'.active /\ live'.active)
    <3>1. SUFFICES ASSUME line.op = "CMD", live.active  PROVE FALSE
      BY <1>3
    <3>2. Stopped(tx, 0, 1)
      BY <1>2, <3>1 DEF Leftovers, LiveApart, Holds, line
    <3>. QED  BY <3>2 DEF Stopped
  <2>2. ASSUME NEW i \in 0..(n - 1), NEW k \in (i + 1)..(n - 1), Holds(i)',
               tx'[k].op \in {"ARM", "CMD"}
        PROVE  Stopped(tx', i, k)
    <3>1. PICK h \in 0..(i + 1) :
            Holds(h) /\ \A m \in (i + 2)..(n + 1) : Stopped(tx, h, m) => Stopped(tx', i, m - 1)
      BY <1>5, <2>2
    <3>2. k + 1 \in (h + 1)..n /\ tx[k + 1].op \in {"ARM", "CMD"}
      BY <1>2, <2>2, <3>1
    <3>3. Stopped(tx, h, k + 1)
      <4>1. h \in 0..Len(tx) /\ k + 1 \in (h + 1)..Len(tx)
        BY <1>2, <2>2, <3>1, <3>2
      <4>2. \A m \in (h + 1)..Len(tx) : tx[m].op \in {"ARM", "CMD"} => Stopped(tx, h, m)
        BY <3>1, <4>1 DEF Leftovers, LiveApart
      <4>. QED  BY <3>2, <4>1, <4>2
    <3>4. k + 1 \in (i + 2)..(n + 1) /\ (k + 1) - 1 = k
      BY <1>2, <2>2
    <3>. QED  BY <3>1, <3>3, <3>4
  <2>. QED  BY <1>2, <2>1, <2>2 DEF LiveApart
<1>. QED  BY <1>1, <1>4, <1>6, <1>7

\* The firmware runs on: it begins nothing.
LEMMA LeftoversRun ==
  ASSUME IInv, LinkTypes, Leftovers, FirmwareRuns
  PROVE  Leftovers'
<1>. SUFFICES ASSUME late # "died"
              PROVE  host' # "crashed" /\ ArmWaits' /\ LiveWaits' /\ LiveApart'
  BY DEF Leftovers, FirmwareRuns
<1>1. UNCHANGED <<tx, host>> /\ host # "crashed"
  BY DEF FirmwareRuns, Leftovers
<1>2. (armed' => armed) /\ (pulse'.active => pulse.active) /\ (live'.active => live.active)
  BY RunEffect DEF FirmwareRuns
<1>3. \A i \in 0..Len(tx) : Holds(i)' => Holds(i)
  BY <1>1, <1>2 DEF Holds
<1>4. ArmWaits'
  BY <1>1, <1>2 DEF Leftovers, ArmWaits
<1>5. LiveWaits'
  BY <1>1, <1>3 DEF Leftovers, LiveWaits, Stopped
<1>6. LiveApart'
  BY <1>1, <1>2, <1>3 DEF Leftovers, LiveApart, Stopped
<1>. QED  BY <1>1, <1>4, <1>5, <1>6

LEMMA LeftoversHost ==
  ASSUME LinkTypes, Leftovers, HostStep, UNCHANGED usbVars
  PROVE  Leftovers'
<1>. USE DEF Write, EndsMotion
<1>1. CASE BeginPulse
  BY <1>1, HostLines, LeftoversWritten DEF BeginPulse
<1>2. CASE BeginLive \/ SkipRow
  BY <1>2, LeftoversKept DEF BeginLive, SkipRow, Leftovers
<1>3. CASE Refresh
  <2>1. PICK line \in Setpoints : tx' = Append(tx, line)
    BY <1>3 DEF Refresh
  <2>2. line \in Lines /\ line.op = "SET"
    BY HostLines
  <2>. QED  BY <1>3, <2>1, <2>2, LeftoversWritten DEF Refresh
<1>4. CASE EndLive
  BY <1>4, HostLines, LeftoversWritten DEF EndLive
<1>5. CASE Answered \/ TimedOut
  <2>1. late' # "died" => late # "died" /\ host # "crashed"
    BY <1>5 DEF Answered, TimedOut, GivenUp, Leftovers
  <2>2. CASE AfterArm
    <3>1. PICK line \in Shots : tx' = Append(tx, line)
      BY <2>2 DEF AfterArm
    <3>2. line \in Lines /\ line.op = "CMD"
      BY HostLines
    <3>. QED  BY <2>1, <2>2, <3>1, <3>2, LeftoversWritten DEF AfterArm
  <2>3. CASE AfterAck \/ AfterStop
    BY <2>1, <2>3, LeftoversKept DEF AfterAck, AfterStop
  <2>4. CASE AfterDone
    <3>1. CASE force
      BY <2>1, <2>4, <3>1, HostLines, LeftoversWritten DEF AfterDone
    <3>2. CASE ~force
      BY <2>1, <2>4, <3>2, LeftoversKept DEF AfterDone
    <3>. QED  BY <3>1, <3>2
  <2>5. CASE AfterConfirm
    BY <2>1, <2>5, HostLines, LeftoversWritten DEF AfterConfirm
  <2>6. CASE DoneTimedOut
    <3>1. CASE host = "done" /\ host' = "confirm" /\ UNCHANGED tx
      BY <2>1, <3>1, LeftoversKept
    <3>2. CASE /\ host \in {"done", "confirm"} /\ tx' = Append(tx, [op |-> "STOP"])
               /\ host' = IF sawStop THEN "idle" ELSE "stop"
      BY <2>1, <3>2, HostLines, LeftoversWritten
    <3>. QED  BY <2>6, <3>1, <3>2 DEF DoneTimedOut
  <2>7. CASE \E e : LiveAnswered(e)
    BY <2>1, <2>7, HostLines, LeftoversKept, LeftoversWritten DEF LiveAnswered
  <2>8. CASE host = "live_wait" /\ host' = "live_next" /\ UNCHANGED tx
    BY <2>1, <2>8, LeftoversKept
  <2>. QED
    BY <1>5, <2>2, <2>3, <2>4, <2>5, <2>6, <2>7, <2>8 DEF Answered, TimedOut
<1>6. CASE Crash
  BY <1>6 DEF Crash, Leftovers
<1>7. CASE Restart
  BY <1>7 DEF Restart, Leftovers
<1>. QED  BY <1>1, <1>2, <1>3, <1>4, <1>5, <1>6, <1>7 DEF HostStep

LEMMA LeftoversInit == HostInit => Leftovers
<1>. SUFFICES ASSUME HostInit  PROVE Leftovers
  OBVIOUS
<1>1. ~armed /\ ~pulse.active /\ ~live.active /\ tx = <<>> /\ Len(tx) = 0 /\ host = "idle"
  BY DEF HostInit, Init, NoPulse, NoLive
<1>2. ArmWaits
  BY <1>1 DEF ArmWaits
<1>3. LiveWaits /\ LiveApart
  BY <1>1 DEF LiveWaits, LiveApart, Holds
<1>. QED  BY <1>1, <1>2, <1>3 DEF Leftovers

\* What holds in every state of host, link and firmware, whatever times out and
\* whoever dies.
THEOREM HostInvariance == HostSpec => [](IInv /\ LinkTypes /\ Leftovers)
<1>1. HostInit => IInv /\ LinkTypes /\ Leftovers
  BY LinkInit, LeftoversInit
<1>2. ASSUME IInv, LinkTypes, Leftovers, [HostNext]_allVars
      PROVE  IInv' /\ LinkTypes' /\ Leftovers'
  <2>1. IInv' /\ LinkTypes'
    BY <1>2, FirmwareStep, LinkStep
  <2>2. CASE HostStep /\ UNCHANGED usbVars
    BY <1>2, <2>1, <2>2, LeftoversHost
  <2>3. CASE FirmwareReads \/ FirmwareRuns
    BY <1>2, <2>1, <2>3, LeftoversRead, LeftoversRun
  <2>4. CASE UNCHANGED allVars
    BY <1>2, <2>1, <2>4, LeftoversKept DEF allVars, hostVars, Leftovers
  <2>. QED  BY <1>2, <2>2, <2>3, <2>4, <2>1 DEF HostNext
<1>. QED  BY <1>1, <1>2, PTL DEF HostSpec

\* However slow the link, whichever waits time out, and whatever the rows say: a
\* host that has gone idle leaves no arm and no live drive behind (send_pulse and
\* send_live_drive of executor.py).
THEOREM IdleHostLeavesNothing == HostSpec => []SettlesDisarmed
<1>1. ASSUME LinkTypes, Leftovers, host = "idle", tx = <<>>, late # "died"
      PROVE  ~armed /\ ~live.active
  <2>1. ~armed
    BY <1>1 DEF Leftovers, ArmWaits
  <2>2. live.active => Stopped(tx, 0, 1)
    BY <1>1 DEF Leftovers, LiveWaits, Holds
  <2>. QED  BY <2>1, <2>2 DEF Stopped
<1>2. LinkTypes /\ Leftovers => SettlesDisarmed
  BY <1>1 DEF SettlesDisarmed
<1>. QED  BY HostInvariance, <1>2, PTL

\* Under this host a pulse ends within a pass of its own length in every build:
\* the firmware looks at no pulse beside a live drive, and none begins there.
THEOREM PulseIsBounded == HostSpec => []PulseBounded
<1>1. ASSUME IInv, Leftovers, pulse.active, late # "died"
      PROVE  ~live.active /\ pulse.age < pulse.ms + MaxStep
  <2>1. ~live.active
    BY <1>1 DEF Leftovers, LiveApart
  <2>2. pulse.age < pulse.ms + Slack
    BY <1>1, <2>1, Zenon DEF IInv, Relations, Ages
  <2>3. Slack \in 0..MaxStep /\ pulse.age \in Nat /\ pulse.ms \in Nat
    BY <1>1, GuardedConstants DEF IInv, TypeOK, Pulses, Slack
  <2>4. pulse.age < pulse.ms + MaxStep
    BY <2>2, <2>3, GuardedConstants
  <2>. QED  BY <2>1, <2>4
<1>2. IInv /\ Leftovers => PulseBounded
  BY <1>1 DEF PulseBounded
<1>. QED  BY HostInvariance, <1>2, PTL

-----------------------------------------------------------------------------
(* InStep, step by step.                                                   *)

LEMMA Wants ==
  /\ DOMAIN Wanted = {"arm", "ack", "done", "confirm", "stop", "live_wait", "live_stop"}
  /\ Wanted["arm"] = {"ARM", "REJECT"} /\ Wanted["ack"] = {"ACK", "REJECT"}
  /\ Wanted["done"] = StopEvents /\ Wanted["confirm"] = StopEvents
  /\ Wanted["stop"] = StopEvents /\ Wanted["live_stop"] = StopEvents
  /\ Wanted["live_wait"] = {"ACTIVE", "REJECT"}
  BY DEF Wanted

LEMMA Empty ==
  ASSUME LinkTypes
  PROVE  /\ Len(tx) \in Nat /\ (tx = <<>> <=> Len(tx) = 0)
         /\ Len(rx) \in Nat /\ (rx = <<>> <=> Len(rx) = 0)
  BY EmptySeq, LenProperties DEF LinkTypes

\* The first entry has left a queue; one has entered it.
Gone(queue, rest) ==
  /\ Len(queue) \in Nat \ {0} /\ Len(rest) = Len(queue) - 1
  /\ (rest = <<>>) <=> (Len(queue) = 1)
  /\ \A i \in 1..(Len(queue) - 1) : rest[i] = queue[i + 1]

Come(queue, more, entry) ==
  /\ Len(more) = Len(queue) + 1 /\ more # <<>>
  /\ \A i \in 1..Len(queue) : more[i] = queue[i]
  /\ more[Len(queue) + 1] = entry

LEMMA Received ==
  ASSUME IInv, LinkTypes, [HostNext]_allVars, Deliver
  PROVE  \/ rx' = rx
         \/ Come(rx, rx', said') /\ said' \notin {"NONE", "HEARTBEAT"}
<1>1. said' \in Events \cup {"NONE"}
  BY FirmwareStep DEF IInv, TypeOK
<1>2. CASE rx' = Append(rx, said') /\ said' \notin {"NONE", "HEARTBEAT"}
  BY <1>1, <1>2, Added DEF Come, LinkTypes
<1>. QED  BY <1>2, Delivery

LEMMA Read ==
  ASSUME IInv, LinkTypes, FirmwareReads
  PROVE  /\ Gone(tx, tx') /\ tx[1] \in Lines /\ HandleLine(tx[1])
         /\ rx' = rx \/ Come(rx, rx', said')
         /\ UNCHANGED <<host, late>>
<1>1. Deliver /\ tx # <<>> /\ tx' = Tail(tx) /\ HandleLine(Head(tx)) /\ UNCHANGED <<host, late>>
  BY DEF FirmwareReads
<1>2. rx' = rx \/ Come(rx, rx', said')
  BY <1>1, Received DEF HostNext
<1>. QED  BY <1>1, <1>2, Taken DEF LinkTypes, Gone

LEMMA InStepRead ==
  ASSUME IInv, LinkTypes, Handshake, FirmwareReads
  PROVE  Handshake'
<1>. DEFINE n == Len(tx)  line == tx[1]
<1>1. /\ Gone(tx, tx') /\ line \in Lines /\ HandleLine(line)
      /\ rx' = rx \/ Come(rx, rx', said')
      /\ UNCHANGED host
  BY Read
<1>2. /\ armed' => line.op = "ARM"
      /\ pulse'.active => line.op = "CMD" /\ live' = live
      /\ live'.active => line.op = "SET" \/ (live.active /\ line.op \in {"ARM", "CMD"})
      /\ StopLine(line) => said' \in StopEvents
      /\ line.op = "CMD" => said' \in {"ACK", "REJECT"}
      /\ line.op = "SET" => said' \in {"ACTIVE", "REJECT"}
  BY <1>1, LineEffect
<1>3. n \in Nat \ {0} /\ tx # <<>>
  BY <1>1, Empty DEF Gone
<1>4. Len(rx) \in Nat /\ (rx = <<>> <=> Len(rx) = 0)
  BY Empty
\* A stop line, followed by whatever follows it.
<1>5. ASSUME StopLine(line)
      PROVE  /\ ~armed' /\ ~pulse'.active /\ ~live'.active
             /\ StopLines(tx, n) => StopLines(tx', Len(tx'))
             /\ n > 1 /\ StopLines(tx, n - 1) => StopLines(tx', Len(tx') - 1)
             /\ n > 1 => tx' # <<>> /\ tx'[Len(tx')] = tx[n]
             /\ StopRows(rx, Len(rx)) => StopRows(rx', Len(rx'))
  <2>1. ~armed' /\ ~pulse'.active /\ ~live'.active
    BY <1>2, <1>5 DEF StopLine
  <2>2. StopLines(tx, n) => StopLines(tx', Len(tx'))
    BY <1>1 DEF Gone, StopLines
  <2>3. n > 1 /\ StopLines(tx, n - 1) => StopLines(tx', Len(tx') - 1)
    BY <1>1 DEF Gone, StopLines
  <2>4. n > 1 => tx' # <<>> /\ tx'[Len(tx')] = tx[n]
    BY <1>1 DEF Gone
  <2>5. StopRows(rx, Len(rx)) => StopRows(rx', Len(rx'))
    BY <1>1, <1>2, <1>4, <1>5 DEF Come, StopRows
  <2>. QED  BY <2>1, <2>2, <2>3, <2>4, <2>5
<1>. HIDE DEF line
<1>6. StopLines(tx, n) => StopLine(line)
  BY <1>3 DEF StopLines, line
<1>7. n > 1 /\ StopLines(tx, n - 1) => StopLine(line)
  BY <1>3 DEF StopLines, line
<1>8. CASE host \in {"idle", "confirm", "stop"} /\ AtEase
  <2>1. AtEase'
    BY <1>5, <1>6, <1>8 DEF AtEase
  <2>. QED  BY <1>1, <1>8, <2>1 DEF Handshake
<1>9. CASE host = "arm" /\ ArmInHand
  <2>1. /\ ~pulse.active /\ ~live.active /\ ~armed /\ tx[n].op = "ARM"
        /\ StopLines(tx, n - 1) /\ StopRows(rx, Len(rx))
    BY <1>3, <1>9 DEF ArmInHand
  <2>2. CASE n = 1
    <3>1. line.op = "ARM" /\ tx' = <<>>
      BY <1>1, <2>1, <2>2 DEF Gone, line
    <3>2. ~pulse'.active /\ ~live'.active
      BY <1>2, <2>1, <3>1
    <3>3. StopRows(rx', Len(rx') - 1)
      BY <1>1, <1>4, <2>1 DEF Come, StopRows
    <3>. QED  BY <1>1, <1>9, <3>1, <3>2, <3>3 DEF ArmInHand, Handshake
  <2>3. CASE n > 1
    BY <1>1, <1>5, <1>7, <1>9, <2>1, <2>3 DEF ArmInHand, Handshake
  <2>4. n = 1 \/ n > 1
    BY <1>3
  <2>. QED  BY <2>2, <2>3, <2>4
<1>10. CASE host = "ack" /\ CommandInHand
  <2>1. ~live.active /\ n = 1 /\ line.op = "CMD" /\ rx = <<>>
    BY <1>3, <1>10 DEF CommandInHand, line
  <2>2. tx' = <<>> /\ ~armed' /\ ~live'.active /\ said' \in {"ACK", "REJECT"}
    BY <1>1, <1>2, <2>1 DEF Gone
  <2>3. Len(rx') \in {0, 1} /\ (Len(rx') = 1 => rx'[1] = said')
    BY <1>1, <1>4, <2>1 DEF Come
  <2>4. CommandInHand'
    BY <2>2, <2>3 DEF CommandInHand, StopEvents
  <2>. QED  BY <1>1, <1>10, <2>4 DEF Handshake
<1>11. CASE host = "done" /\ PulseInHand
  BY <1>3, <1>11 DEF PulseInHand
<1>12. CASE host \in {"live_next", "live_stop"} /\ LiveInHand
  <2>1. LiveInHand'
    BY <1>5, <1>6, <1>12 DEF LiveInHand
  <2>. QED  BY <1>1, <1>12, <2>1 DEF Handshake
<1>13. CASE host = "live_wait" /\ SetpointInHand
  <2>1. /\ LiveEnabled /\ ~pulse.active /\ ~armed /\ tx[n].op = "SET"
        /\ StopLines(tx, n - 1) /\ StopRows(rx, Len(rx))
    BY <1>3, <1>13 DEF SetpointInHand
  <2>2. CASE n = 1
    <3>1. line.op = "SET" /\ tx' = <<>>
      BY <1>1, <2>1, <2>2 DEF Gone, line
    <3>2. ~pulse'.active /\ ~armed'
      BY <1>2, <2>1, <3>1
    <3>3. Len(rx') \in Nat /\ \A i \in 1..Len(rx') : rx'[i] \notin StopEvents => i = Len(rx')
      BY <1>1, <1>4, <2>1 DEF Come, StopRows
    <3>4. SetpointInHand'
      BY <2>1, <3>1, <3>2, <3>3 DEF SetpointInHand
    <3>. QED  BY <1>1, <1>13, <3>4 DEF Handshake
  <2>3. CASE n > 1
    BY <1>1, <1>5, <1>7, <1>13, <2>1, <2>3 DEF SetpointInHand, Handshake
  <2>4. n = 1 \/ n > 1
    BY <1>3
  <2>. QED  BY <2>2, <2>3, <2>4
<1>. QED  BY <1>8, <1>9, <1>10, <1>11, <1>12, <1>13 DEF Handshake

\* The firmware runs on: what was active ends with a stop row, in the same step.
LEMMA InStepRun ==
  ASSUME IInv, LinkTypes, Handshake, FirmwareRuns
  PROVE  Handshake'
<1>. DEFINE m == Len(rx)
<1>1. /\ UNCHANGED <<tx, host>>
      /\ rx' = rx \/ (/\ Come(rx, rx', "STOP")
                      /\ pulse.active \/ live.active
                      /\ ~pulse'.active /\ ~live'.active)
  BY Received, RunEffect DEF FirmwareRuns, HostNext
<1>2. (armed' => armed) /\ (pulse'.active => pulse.active) /\ (live'.active => live.active)
  BY RunEffect DEF FirmwareRuns
<1>3. m \in Nat /\ (rx = <<>> <=> m = 0)
  BY Empty
<1>4. StopRows(rx, m) => StopRows(rx', Len(rx'))
  BY <1>1, <1>3 DEF Come, StopRows, StopEvents
<1>5. CASE host \in {"idle", "confirm", "stop"} /\ AtEase
  BY <1>1, <1>2, <1>5 DEF AtEase, Handshake
<1>6. CASE host = "arm" /\ ArmInHand
  <2>1. ~pulse.active /\ ~live.active /\ rx' = rx
    BY <1>1, <1>6 DEF ArmInHand
  <2>2. ArmInHand'
    BY <1>1, <1>2, <1>6, <2>1 DEF ArmInHand
  <2>. QED  BY <1>1, <1>6, <2>2 DEF Handshake
<1>7. CASE host = "ack" /\ CommandInHand
  <2>1. CASE Len(tx) = 1 /\ tx[1].op = "CMD" /\ rx = <<>> /\ ~pulse.active
    <3>1. CommandInHand'
      BY <1>1, <1>2, <1>7, <2>1 DEF CommandInHand
    <3>. QED  BY <1>1, <1>7, <3>1 DEF Handshake
  <2>2. CASE /\ tx = <<>> /\ ~armed
             /\ \A i \in 2..m : rx[i] \in StopEvents
             /\ pulse.active => \A i \in 1..m : rx[i] \notin StopEvents
    <3>1. \A i \in 2..Len(rx') : rx'[i] \in StopEvents
      BY <1>1, <1>3, <2>2 DEF Come, StopEvents
    <3>2. pulse'.active => rx' = rx
      BY <1>1
    <3>3. CommandInHand'
      BY <1>1, <1>2, <1>7, <2>2, <3>1, <3>2 DEF CommandInHand
    <3>. QED  BY <1>1, <1>7, <3>3 DEF Handshake
  <2>. QED  BY <1>7, <2>1, <2>2 DEF CommandInHand
<1>8. CASE host = "done" /\ PulseInHand
  <2>1. PulseInHand'
    BY <1>1, <1>2, <1>4, <1>8 DEF PulseInHand
  <2>. QED  BY <1>1, <1>8, <2>1 DEF Handshake
<1>9. CASE host \in {"live_next", "live_stop"} /\ LiveInHand
  <2>1. LiveInHand'
    BY <1>1, <1>2, <1>4, <1>9 DEF LiveInHand
  <2>. QED  BY <1>1, <1>9, <2>1 DEF Handshake
<1>10. CASE host = "live_wait" /\ SetpointInHand
  <2>1. CASE /\ tx # <<>> /\ tx[Len(tx)].op = "SET"
             /\ StopLines(tx, Len(tx) - 1) /\ StopRows(rx, m)
             /\ live.active => rx = <<>>
    <3>1. live'.active => rx' = <<>>
      BY <1>1, <1>2, <2>1
    <3>2. SetpointInHand'
      BY <1>1, <1>2, <1>4, <1>10, <2>1, <3>1 DEF SetpointInHand
    <3>. QED  BY <1>1, <1>10, <3>2 DEF Handshake
  <2>2. CASE /\ tx = <<>>
             /\ \A i \in 1..m : rx[i] \notin StopEvents =>
                  /\ \A j \in 1..m : j # i => rx[j] \in StopEvents
                  /\ live.active => i = m
    <3>1. CASE rx' = rx
      <4>1. SetpointInHand'
        BY <1>1, <1>2, <1>10, <2>2, <3>1 DEF SetpointInHand
      <4>. QED  BY <1>1, <1>10, <4>1 DEF Handshake
    <3>2. CASE Come(rx, rx', "STOP") /\ ~live'.active
      <4>1. ASSUME NEW i \in 1..Len(rx'), rx'[i] \notin StopEvents,
                   NEW j \in 1..Len(rx'), j # i
            PROVE  rx'[j] \in StopEvents
        <5>1. i \in 1..m /\ rx[i] \notin StopEvents
          BY <1>3, <3>2, <4>1 DEF Come, StopEvents
        <5>2. CASE j \in 1..m
          BY <2>2, <3>2, <4>1, <5>1, <5>2 DEF Come
        <5>3. CASE j = m + 1
          BY <3>2, <5>3 DEF Come, StopEvents
        <5>. QED  BY <1>3, <3>2, <5>2, <5>3 DEF Come
      <4>2. SetpointInHand'
        BY <1>1, <1>2, <1>10, <2>2, <3>2, <4>1 DEF SetpointInHand
      <4>. QED  BY <1>1, <1>10, <4>2 DEF Handshake
    <3>. QED  BY <1>1, <3>1, <3>2
  <2>. QED  BY <1>10, <2>1, <2>2 DEF SetpointInHand
<1>. QED  BY <1>5, <1>6, <1>7, <1>8, <1>9, <1>10 DEF Handshake

LEMMA RowTaken ==
  ASSUME LinkTypes, rx # <<>>, rx' = Tail(rx)
  PROVE  Gone(rx, rx') /\ Head(rx) = rx[1]
  BY Taken DEF LinkTypes, Gone

LEMMA LineAdded ==
  ASSUME LinkTypes, NEW line \in Lines, tx' = Append(tx, line)
  PROVE  Come(tx, tx', line)
  BY Added DEF LinkTypes, Come

\* A row is skipped.
LEMMA InStepSkip ==
  ASSUME LinkTypes, Handshake, SkipRow, UNCHANGED usbVars
  PROVE  Handshake'
<1>. DEFINE m == Len(rx)
<1>1. /\ UNCHANGED <<tx, host, pulse, live, armed>> /\ rx # <<>>
      /\ host \in DOMAIN Wanted /\ rx[1] \notin Wanted[host]
      /\ Gone(rx, rx')
  BY RowTaken DEF SkipRow, usbVars
<1>2. m \in Nat \ {0}
  BY <1>1 DEF Gone
<1>3. StopRows(rx, m) => StopRows(rx', Len(rx'))
  BY <1>1 DEF Gone, StopRows
<1>4. CASE host \in {"idle", "confirm", "stop"} /\ AtEase
  BY <1>1, <1>3, <1>4 DEF AtEase, Handshake
<1>5. CASE host = "arm" /\ ArmInHand
  <2>1. StopRows(rx, m - 1) => StopRows(rx', Len(rx') - 1)
    BY <1>1 DEF Gone, StopRows
  <2>2. ArmInHand'
    BY <1>1, <1>3, <1>5, <2>1 DEF ArmInHand
  <2>. QED  BY <1>1, <1>5, <2>2 DEF Handshake
<1>6. CASE host = "ack" /\ CommandInHand
  <2>1. /\ ~live.active /\ tx = <<>> /\ ~armed
        /\ \A i \in 2..m : rx[i] \in StopEvents
        /\ pulse.active => \A i \in 1..m : rx[i] \notin StopEvents
    BY <1>1, <1>6 DEF CommandInHand
  <2>2. /\ \A i \in 2..Len(rx') : rx'[i] \in StopEvents
        /\ pulse.active => \A i \in 1..Len(rx') : rx'[i] \notin StopEvents
    BY <1>1, <2>1 DEF Gone
  <2>3. CommandInHand'
    BY <1>1, <2>1, <2>2 DEF CommandInHand
  <2>. QED  BY <1>1, <1>6, <2>3 DEF Handshake
<1>7. CASE host = "done" /\ PulseInHand
  <2>1. PulseInHand'
    BY <1>1, <1>3, <1>7 DEF PulseInHand
  <2>. QED  BY <1>1, <1>7, <2>1 DEF Handshake
<1>8. CASE host \in {"live_next", "live_stop"} /\ LiveInHand
  <2>1. LiveInHand'
    BY <1>1, <1>3, <1>8 DEF LiveInHand
  <2>. QED  BY <1>1, <1>8, <2>1 DEF Handshake
<1>9. CASE host = "live_wait" /\ SetpointInHand
  <2>1. CASE /\ tx # <<>> /\ tx[Len(tx)].op = "SET"
             /\ StopLines(tx, Len(tx) - 1) /\ StopRows(rx, m)
             /\ live.active => rx = <<>>
    <3>1. SetpointInHand'
      BY <1>1, <1>3, <1>9, <2>1 DEF SetpointInHand
    <3>. QED  BY <1>1, <1>9, <3>1 DEF Handshake
  <2>2. CASE /\ tx = <<>>
             /\ \A i \in 1..m : rx[i] \notin StopEvents =>
                  /\ \A j \in 1..m : j # i => rx[j] \in StopEvents
                  /\ live.active => i = m
    <3>1. ASSUME NEW i \in 1..Len(rx'), rx'[i] \notin StopEvents
          PROVE  /\ \A j \in 1..Len(rx') : j # i => rx'[j] \in StopEvents
                 /\ live.active => i = Len(rx')
      <4>1. i + 1 \in 1..m /\ rx[i + 1] \notin StopEvents
        BY <1>1, <3>1 DEF Gone
      <4>2. ASSUME NEW j \in 1..Len(rx'), j # i  PROVE rx'[j] \in StopEvents
        <5>1. j + 1 \in 1..m /\ j + 1 # i + 1 /\ rx'[j] = rx[j + 1]
          BY <1>1, <4>2 DEF Gone
        <5>. QED  BY <2>2, <4>1, <5>1
      <4>. QED  BY <1>1, <2>2, <4>1, <4>2 DEF Gone
    <3>2. SetpointInHand'
      BY <1>1, <1>9, <2>2, <3>1 DEF SetpointInHand
    <3>. QED  BY <1>1, <1>9, <3>2 DEF Handshake
  <2>. QED  BY <1>9, <2>1, <2>2 DEF SetpointInHand
<1>. QED  BY <1>4, <1>5, <1>6, <1>7, <1>8, <1>9 DEF Handshake

\* The row a wait was for: the only one of its kind.
LEMMA InStepAnswered ==
  ASSUME LinkTypes, Handshake, Answered, UNCHANGED usbVars
  PROVE  Handshake'
<1>. DEFINE m == Len(rx)
<1>1. /\ UNCHANGED <<pulse, live, armed>> /\ rx # <<>>
      /\ rx[1] \in Wanted[host]
      /\ Gone(rx, rx') /\ Head(rx) = rx[1]
  BY RowTaken DEF Answered, usbVars
<1>2. Len(tx) \in Nat /\ (tx = <<>> <=> Len(tx) = 0)
  BY Empty
<1>12. m \in Nat /\ m >= 1 /\ (2 \notin 2..m => m = 1)
  <2>1. \A k \in Nat \ {0} : k >= 1 /\ (2 \notin 2..k => k = 1)
    OBVIOUS
  <2>. QED  BY <1>1, <2>1 DEF Gone
<1>3. StopRows(rx, m) => StopRows(rx', Len(rx')) /\ rx[1] \in StopEvents
  BY <1>1, <1>12 DEF Gone, StopRows
<1>4. UNCHANGED tx => StopLines(tx, Len(tx)) = StopLines(tx', Len(tx'))
  OBVIOUS
<1>5. ASSUME NEW line \in Lines, tx' = Append(tx, line), StopLine(line), StopLines(tx, Len(tx))
      PROVE  StopLines(tx', Len(tx'))
  BY <1>2, <1>5, LineAdded DEF Come, StopLines
<1>6. CASE AfterArm
  <2>1. host = "arm" /\ host' = "ack" /\ \E line \in Shots : tx' = Append(tx, line)
    BY <1>6 DEF AfterArm, Write
  <2>2. ArmInHand /\ rx[1] \notin StopEvents
    BY <1>1, <2>1, Wants DEF Handshake, StopEvents
  <2>3. tx = <<>> /\ StopRows(rx, m - 1) /\ ~pulse.active /\ ~live.active
    BY <1>3, <2>2 DEF ArmInHand
  <2>4. m = 1
    <3>1. 1 \notin 1..(m - 1)
      BY <2>2, <2>3 DEF StopRows
    <3>2. 2 \notin 2..m
      BY <1>12, <3>1
    <3>. QED  BY <1>12, <3>2
  <2>5. rx' = <<>>
    BY <1>1, <2>4 DEF Gone
  <2>6. Len(tx') = 1 /\ tx'[1].op = "CMD"
    <3>1. PICK line \in Shots : tx' = Append(tx, line)
      BY <2>1
    <3>2. line \in Lines /\ line.op = "CMD"
      BY HostLines
    <3>. QED  BY <1>2, <2>3, <3>1, <3>2, LineAdded DEF Come
  <2>. QED  BY <1>1, <2>1, <2>3, <2>5, <2>6 DEF CommandInHand, Handshake
<1>7. CASE AfterAck
  <2>1. host = "ack" /\ host' = "done" /\ UNCHANGED tx
    BY <1>7 DEF AfterAck
  <2>2. CommandInHand
    BY <2>1 DEF Handshake
  <2>3. /\ ~live.active /\ tx = <<>> /\ ~armed
        /\ \A i \in 2..m : rx[i] \in StopEvents
        /\ pulse.active => \A i \in 1..m : rx[i] \notin StopEvents
    BY <1>1, <2>2 DEF CommandInHand
  <2>4. StopRows(rx', Len(rx'))
    BY <1>1, <2>3 DEF Gone, StopRows
  <2>5. pulse.active => rx' = <<>>
    <3>1. pulse.active => 2 \notin 2..m
      BY <1>12, <2>3
    <3>. QED  BY <1>1, <1>12, <3>1 DEF Gone
  <2>. QED  BY <1>1, <2>1, <2>3, <2>4, <2>5 DEF PulseInHand, Handshake
<1>8. CASE AfterDone
  <2>1. host = "done" /\ host' = "idle" /\ PulseInHand
    BY <1>8 DEF AfterDone, Handshake
  <2>2. StopLines(tx', Len(tx'))
    <3>1. StopLines(tx, Len(tx))
      BY <1>2, <2>1 DEF PulseInHand, StopLines
    <3>2. UNCHANGED tx \/ tx' = Append(tx, [op |-> "STOP"])
      BY <1>8 DEF AfterDone, Write
    <3>. QED  BY <1>4, <1>5, <3>1, <3>2, HostLines DEF StopLine
  <2>. QED  BY <1>1, <1>3, <2>1, <2>2 DEF PulseInHand, AtEase, Handshake
<1>9. CASE AfterConfirm
  <2>1. host = "confirm" /\ host' = "idle" /\ AtEase /\ tx' = Append(tx, [op |-> "STOP"])
    BY <1>9 DEF AfterConfirm, Write, Handshake
  <2>2. StopLines(tx', Len(tx'))
    BY <1>5, <2>1, HostLines DEF StopLine, AtEase
  <2>. QED  BY <1>1, <1>3, <2>1, <2>2 DEF AtEase, Handshake
<1>10. CASE AfterStop
  BY <1>1, <1>3, <1>4, <1>10 DEF AfterStop, AtEase, LiveInHand, Handshake
<1>11. CASE LiveAnswered(Head(rx))
  <2>1. /\ host = "live_wait" /\ SetpointInHand /\ host' \in {"live_next", "live_stop"}
        /\ UNCHANGED tx \/ tx' = Append(tx, [op |-> "LIVE_STOP"])
    BY <1>11 DEF LiveAnswered, Write, Handshake
  <2>2. rx[1] \notin StopEvents
    BY <1>1, <2>1, Wants DEF StopEvents
  <2>3. /\ LiveEnabled /\ ~pulse.active /\ ~armed /\ tx = <<>>
        /\ \A i \in 1..m : rx[i] \notin StopEvents =>
             /\ \A j \in 1..m : j # i => rx[j] \in StopEvents
             /\ live.active => i = m
    BY <1>3, <2>1, <2>2 DEF SetpointInHand
  <2>4. StopRows(rx', Len(rx')) /\ (live.active => rx' = <<>>)
    <3>1. 1 \in 1..m /\ \A j \in 2..m : rx[j] \in StopEvents
      BY <1>12, <2>2, <2>3
    <3>2. live.active => m = 1
      BY <2>2, <2>3, <3>1
    <3>. QED  BY <1>1, <3>1, <3>2 DEF Gone, StopRows
  <2>5. StopLines(tx', Len(tx'))
    <3>1. StopLines(tx, Len(tx))
      BY <1>2, <2>3 DEF StopLines
    <3>. QED  BY <1>4, <1>5, <2>1, <2>3, <3>1, HostLines DEF StopLine
  <2>. QED  BY <1>1, <2>1, <2>3, <2>4, <2>5 DEF LiveInHand, Handshake
<1>. QED  BY <1>6, <1>7, <1>8, <1>9, <1>10, <1>11 DEF Answered

\* A line is written at the end of the link, and no row is taken.
LEMMA LineWritten ==
  ASSUME LinkTypes, StopLines(tx, Len(tx)), NEW line \in Lines, tx' = Append(tx, line)
  PROVE  /\ tx' # <<>> /\ tx'[Len(tx')] = line /\ StopLines(tx', Len(tx') - 1)
         /\ StopLine(line) => StopLines(tx', Len(tx'))
<1>1. Come(tx, tx', line) /\ Len(tx) \in Nat
  BY LineAdded, Empty
<1>. QED  BY <1>1 DEF Come, StopLines

\* Every other step of the host, as long as no wait gives up.
LEMMA InStepHost ==
  ASSUME Setpoints # {} => LiveEnabled,
         LinkTypes, late = "no", Handshake, HostStep, UNCHANGED usbVars
  PROVE  InStep'
<1>1. UNCHANGED <<pulse, live, armed>>
  BY DEF usbVars
<1>2. CASE BeginPulse
  <2>1. host' = "arm" /\ tx' = Append(tx, [op |-> "ARM"]) /\ UNCHANGED rx /\ AtEase
    BY <1>2 DEF BeginPulse, Write, Handshake
  <2>2. tx' # <<>> /\ tx'[Len(tx')].op = "ARM" /\ StopLines(tx', Len(tx') - 1)
    BY <2>1, LineWritten, HostLines DEF AtEase
  <2>3. ArmInHand'
    BY <1>1, <2>1, <2>2 DEF AtEase, ArmInHand
  <2>. QED  BY <2>1, <2>3 DEF InStep, Handshake
<1>3. CASE BeginLive
  BY <1>1, <1>3 DEF BeginLive, Handshake, AtEase, LiveInHand, InStep
<1>4. CASE Refresh
  <2>1. PICK line \in Setpoints : tx' = Append(tx, line)
    BY <1>4 DEF Refresh, Write
  <2>2. host' = "live_wait" /\ UNCHANGED rx /\ LiveInHand
    BY <1>4 DEF Refresh, Handshake
  <2>3. tx' # <<>> /\ tx'[Len(tx')].op = "SET" /\ StopLines(tx', Len(tx') - 1)
    BY <2>1, <2>2, LineWritten, HostLines DEF LiveInHand
  <2>4. SetpointInHand'
    BY <1>1, <2>2, <2>3 DEF LiveInHand, SetpointInHand
  <2>. QED  BY <2>2, <2>4 DEF InStep, Handshake
<1>5. CASE EndLive
  <2>1. host' = "live_stop" /\ tx' = Append(tx, [op |-> "LIVE_STOP"]) /\ UNCHANGED rx /\ LiveInHand
    BY <1>5 DEF EndLive, Write, Handshake
  <2>2. StopLines(tx', Len(tx'))
    BY <2>1, LineWritten, HostLines DEF LiveInHand, StopLine
  <2>3. LiveInHand'
    BY <1>1, <2>1, <2>2 DEF LiveInHand
  <2>. QED  BY <2>1, <2>3 DEF InStep, Handshake
<1>6. CASE SkipRow
  BY <1>6, InStepSkip DEF InStep
<1>7. CASE Answered
  BY <1>7, InStepAnswered DEF InStep
<1>8. CASE TimedOut
  <2>1. SUFFICES ASSUME late' = "no"  PROVE Handshake'
    BY DEF InStep
  <2>2. DoneTimedOut /\ ~pulse.active /\ UNCHANGED rx
    BY <1>8, <2>1 DEF TimedOut, GivenUp
  <2>3. AtEase
    <3>1. CASE host = "done"
      <4>1. StopLines(tx, Len(tx))
        BY <3>1, Empty DEF Handshake, PulseInHand, StopLines
      <4>. QED  BY <2>2, <3>1, <4>1 DEF Handshake, PulseInHand, AtEase
    <3>2. CASE host = "confirm"
      BY <3>2 DEF Handshake
    <3>. QED  BY <2>2, <3>1, <3>2 DEF DoneTimedOut
  <2>4. host' \in {"idle", "confirm", "stop"}
    BY <2>2 DEF DoneTimedOut
  <2>5. StopLines(tx', Len(tx'))
    <3>1. UNCHANGED tx \/ tx' = Append(tx, [op |-> "STOP"])
      BY <2>2 DEF DoneTimedOut, Write
    <3>. QED  BY <2>3, <3>1, LineWritten, HostLines DEF AtEase, StopLine
  <2>6. AtEase'
    BY <1>1, <2>2, <2>3, <2>5 DEF AtEase
  <2>. QED  BY <2>4, <2>6 DEF Handshake
<1>9. CASE Crash
  BY <1>9 DEF Crash, InStep
<1>10. CASE Restart
  BY <1>10 DEF Restart, Handshake
<1>. QED  BY <1>2, <1>3, <1>4, <1>5, <1>6, <1>7, <1>8, <1>9, <1>10 DEF HostStep

LEMMA InStepInit == HostInit => InStep
<1>. SUFFICES ASSUME HostInit  PROVE InStep
  OBVIOUS
<1>1. /\ ~armed /\ ~pulse.active /\ ~live.active /\ host = "idle"
      /\ tx = <<>> /\ Len(tx) = 0 /\ rx = <<>> /\ Len(rx) = 0
  BY DEF HostInit, Init, NoPulse, NoLive
<1>2. AtEase
  BY <1>1 DEF AtEase, StopLines, StopRows
<1>. QED  BY <1>1, <1>2 DEF InStep, Handshake

\* Host and firmware stay in step while no wait gives up, if only a firmware with
\* live drive is sent setpoints (every firmware profile of the Stage 20 command
\* line is built with it).
THEOREM HostInStep ==
  ASSUME Setpoints # {} => LiveEnabled
  PROVE  HostSpec => []InStep
<1>. DEFINE LinkInv == IInv /\ LinkTypes /\ InStep
<1>1. HostInit => LinkInv
  BY LinkInit, InStepInit
<1>2. ASSUME LinkInv, [HostNext]_allVars
      PROVE  LinkInv'
  <2>1. IInv' /\ LinkTypes'
    BY <1>2, FirmwareStep, LinkStep
  <2>2. CASE late # "no"
    <3>1. late' # "no"
      BY <1>2, <2>2 DEF HostNext, HostStep, FirmwareReads, FirmwareRuns, BeginPulse, BeginLive,
                        Refresh, EndLive, SkipRow, Answered, TimedOut, GivenUp, Crash, Restart,
                        allVars, hostVars
    <3>. QED  BY <2>1, <3>1 DEF InStep
  <2>3. CASE late = "no"
    <3>1. Handshake
      BY <1>2, <2>3 DEF InStep
    <3>2. CASE HostStep /\ UNCHANGED usbVars
      BY <1>2, <2>1, <2>3, <3>1, <3>2, InStepHost
    <3>3. CASE FirmwareReads \/ FirmwareRuns
      BY <1>2, <2>1, <3>1, <3>3, InStepRead, InStepRun DEF InStep
    <3>4. CASE UNCHANGED allVars
      <4>1. Handshake'
        BY <3>1, <3>4 DEF allVars, hostVars, usbVars, Handshake, AtEase, ArmInHand,
                          CommandInHand, PulseInHand, LiveInHand, SetpointInHand
      <4>. QED  BY <2>1, <4>1 DEF InStep
    <3>. QED  BY <1>2, <3>2, <3>3, <3>4 DEF HostNext
  <2>. QED  BY <2>2, <2>3
<1>. QED  BY <1>1, <1>2, PTL DEF HostSpec

\* As long as no wait has given up before its answer, a host that has gone idle
\* means a rover at rest, also after rejected arms, commands and setpoints and
\* with stale rows and lines still in transit.
THEOREM IdleMeansRest ==
  ASSUME Setpoints # {} => LiveEnabled
  PROVE  HostSpec => []ReturnsAtRest
<1>1. ASSUME IInv, InStep, host = "idle", late = "no"
      PROVE  Resting
  <2>1. ~pulse.active /\ ~live.active /\ ~armed
    BY <1>1 DEF InStep, Handshake, AtEase
  <2>2. out = "usb" => pulse.active \/ live.active
    BY <1>1 DEF IInv, Relations, Causes
  <2>. QED  BY <2>1, <2>2 DEF Resting
<1>2. IInv /\ InStep => ReturnsAtRest
  BY <1>1 DEF ReturnsAtRest
<1>. QED  BY HostInvariance, HostInStep, <1>2, PTL

-----------------------------------------------------------------------------
(* The calls, as GuardedCall tells them.                                   *)

LEMMA StopsAsk ==
  ASSUME LinkTypes, StopLines(tx, Len(tx))
  PROVE  ~Asked
  BY DEF StopLines, StopLine, Asked

LEMMA NothingAsked ==
  ASSUME tx = <<>>
  PROVE  ~Asked
  BY DEF Asked

\* What the rover does while host and firmware are in step.
LEMMA DoingInStep ==
  ASSUME IInv, LinkTypes, Handshake
  PROVE  /\ ~(pulse.active /\ live.active) /\ ~(armed /\ pulse.active) /\ ~(armed /\ live.active)
         /\ Calling = "none" => Doing = "rest" /\ ~Asked
         /\ Doing # "rest" /\ ~live.active => Calling = "pulse"
         /\ host \in {"confirm", "stop"} => Doing = "rest" /\ ~Asked
<1>1. armed => ~pulse.active
  BY DEF IInv, Relations, Causes
<1>2. AtEase => Doing = "rest" /\ ~Asked
  BY StopsAsk DEF AtEase, Doing
<1>. QED
  BY <1>1, <1>2 DEF Handshake, ArmInHand, CommandInHand, PulseInHand, LiveInHand,
     SetpointInHand, AtEase, Calling, Doing

\* A pulse begins only on an arm.
LEMMA ArmedFirst ==
  ASSUME IInv, NEW line \in Lines, HandleLine(line), pulse'.active
  PROVE  armed
<1>1. line.op = "CMD" /\ Cmd(line)
  BY LineEffect DEF HandleLine
<1>2. CmdAccepted(line)
  BY <1>1 DEF Cmd, stage16Reject, Halt, NoPulse
<1>. QED  BY <1>2 DEF CmdAccepted

\* A line that is read is a stop, the one arm of a call, its command, or a setpoint.
LEMMA CallRead ==
  ASSUME IInv, LinkTypes, Handshake, FirmwareReads
  PROVE  /\ Calling' = Calling
         /\ \/ Doing' = "rest" /\ Asked' = Asked
            \/ /\ Calling = "pulse" /\ Doing = "rest" /\ Asked
               /\ Doing' \in {"armed", "rest"} /\ ~Asked'
            \/ Calling = "pulse" /\ Doing = "armed" /\ ~Asked /\ Doing' = "pulse" /\ ~Asked'
            \/ /\ Calling = "live" /\ Doing \in {"rest", "live"} /\ ~Asked
               /\ Doing' = "live" /\ ~Asked'
<1>. DEFINE n == Len(tx)  line == tx[1]
<1>1. Gone(tx, tx') /\ line \in Lines /\ HandleLine(line) /\ UNCHANGED host
  BY Read
<1>2. Calling' = Calling
  BY <1>1 DEF Calling
<1>3. n \in Nat \ {0} /\ tx # <<>> /\ (n = 1 => tx' = <<>>)
  BY <1>1, Empty DEF Gone
<1>4. /\ armed' => line.op = "ARM"
      /\ pulse'.active => line.op = "CMD" /\ armed
      /\ live'.active => line.op = "SET" \/ (live.active /\ line.op \in {"ARM", "CMD"})
  BY <1>1, LineEffect, ArmedFirst
<1>5. n = 1 => ~Asked'
  BY <1>3 DEF Asked
\* The same lines ask for an arm before and after a line that does not.
<1>6. line.op # "ARM" => Asked' = Asked
  <2>1. ASSUME line.op # "ARM", Asked  PROVE Asked'
    <3>1. PICK i \in 1..n : tx[i].op = "ARM"
      BY <2>1 DEF Asked
    <3>2. i - 1 \in 1..Len(tx') /\ tx'[i - 1] = tx[i]
      BY <1>1, <1>3, <2>1, <3>1 DEF Gone
    <3>. QED  BY <3>1, <3>2 DEF Asked
  <2>2. ASSUME Asked'  PROVE Asked
    <3>1. PICK i \in 1..Len(tx') : tx'[i].op = "ARM"
      BY <2>2 DEF Asked
    <3>2. i + 1 \in 1..n /\ tx[i + 1] = tx'[i]
      BY <1>1, <1>3, <3>1 DEF Gone
    <3>. QED  BY <3>1, <3>2 DEF Asked
  <2>3. Asked \in BOOLEAN /\ Asked' \in BOOLEAN
    BY DEF Asked
  <2>. QED  BY <2>1, <2>2, <2>3
<1>7. StopLine(line) => Doing' = "rest" /\ Asked' = Asked
  BY <1>4, <1>6 DEF StopLine, Doing
<1>8. StopLines(tx, n) => StopLine(line)
  BY <1>3 DEF StopLines
<1>9. n > 1 /\ StopLines(tx, n - 1) => StopLine(line)
  BY <1>3 DEF StopLines
<1>10. n = 1 => (Asked <=> line.op = "ARM")
  BY DEF Asked
<1>. HIDE DEF line, n
<1>11. n = 1 \/ n > 1
  BY <1>3
<1>12. CASE StopLine(line)
  BY <1>2, <1>7, <1>12
<1>13. CASE ~StopLine(line)
  <2>1. CASE host = "arm" /\ ArmInHand
    <3>1. n = 1 /\ line.op = "ARM" /\ ~pulse.active /\ ~live.active /\ ~armed
      BY <1>3, <1>9, <1>11, <1>13, <2>1 DEF ArmInHand, n, line
    <3>2. Doing = "rest" /\ Asked /\ ~Asked' /\ Doing' \in {"armed", "rest"}
      BY <1>4, <1>5, <1>10, <3>1 DEF Doing
    <3>. QED  BY <1>2, <2>1, <3>2 DEF Calling
  <2>2. CASE host = "ack" /\ CommandInHand
    <3>1. n = 1 /\ line.op = "CMD" /\ ~pulse.active /\ ~live.active
      BY <1>3, <2>2 DEF CommandInHand, n, line
    <3>2. ~Asked /\ ~Asked' /\ Doing' \in {"pulse", "rest"} /\ (Doing' = "pulse" => Doing = "armed")
      BY <1>4, <1>5, <1>10, <3>1 DEF Doing
    <3>. QED  BY <1>2, <1>6, <2>2, <3>1, <3>2 DEF Calling
  <2>3. CASE host = "live_wait" /\ SetpointInHand
    <3>1. n = 1 /\ line.op = "SET" /\ ~pulse.active /\ ~armed
      BY <1>3, <1>9, <1>11, <1>13, <2>3 DEF SetpointInHand, n, line
    <3>2. /\ ~Asked /\ ~Asked' /\ Doing \in {"rest", "live"} /\ Doing' \in {"live", "rest"}
      BY <1>4, <1>5, <1>10, <3>1 DEF Doing
    <3>. QED  BY <1>2, <1>6, <2>3, <3>1, <3>2 DEF Calling
  <2>. QED
    BY <1>3, <1>8, <1>13, <2>1, <2>2, <2>3 DEF Handshake, AtEase, PulseInHand, LiveInHand, n
<1>. QED  BY <1>12, <1>13

\* Left to itself the rover goes on or comes to rest.
LEMMA CallRun ==
  ASSUME IInv, LinkTypes, FirmwareRuns, ~(pulse.active /\ live.active),
         ~(armed /\ pulse.active), ~(armed /\ live.active)
  PROVE  Calling' = Calling /\ Asked' = Asked /\ Doing' \in {Doing, "rest"}
<1>1. UNCHANGED <<host, tx>>
  BY DEF FirmwareRuns
<1>2. (armed' => armed) /\ (pulse'.active => pulse.active) /\ (live'.active => live.active)
  BY RunEffect DEF FirmwareRuns
<1>3. Doing' \in {Doing, "rest"}
  BY <1>2 DEF Doing
<1>. QED  BY <1>1, <1>3 DEF Calling, Asked

\* The host's own steps leave the rover alone; only BeginPulse asks for an arm.
LEMMA CallLines ==
  ASSUME LinkTypes, NEW line \in Lines, tx' = Append(tx, line)
  PROVE  Asked' <=> Asked \/ line.op = "ARM"
<1>1. Come(tx, tx', line) /\ Len(tx) \in Nat
  BY LineAdded, Empty
<1>. QED  BY <1>1 DEF Come, Asked

LEMMA CallLine ==
  ASSUME LinkTypes, HostStep, late' # "died", ~BeginPulse, host # "crashed"
  PROVE  Asked' = Asked /\ (Calling' = Calling \/ Calling' = "none" \/ BeginLive)
<1>. DEFINE Quiet == UNCHANGED tx \/ \E line \in Lines : tx' = Append(tx, line) /\ line.op # "ARM"
<1>1. Quiet => Asked' = Asked
  <2>1. ASSUME NEW line \in Lines, tx' = Append(tx, line), line.op # "ARM"
        PROVE  Asked' = Asked
    <3>1. Asked' <=> Asked
      BY <2>1, CallLines
    <3>2. Asked \in BOOLEAN /\ Asked' \in BOOLEAN
      BY DEF Asked
    <3>. QED  BY <3>1, <3>2
  <2>. QED  BY <2>1 DEF Asked
<1>2. \A line \in Shots \cup Setpoints \cup {[op |-> "STOP"], [op |-> "LIVE_STOP"]} :
        line \in Lines /\ line.op # "ARM"
  BY HostLines
<1>3. \A line \in Shots \cup Setpoints \cup {[op |-> "STOP"], [op |-> "LIVE_STOP"]} :
        tx' = Append(tx, line) => Quiet
  BY <1>2
<1>. HIDE DEF Quiet
<1>4. UNCHANGED tx => Quiet
  BY DEF Quiet
<1>. USE DEF Write
<1>5. CASE AfterArm
  <2>1. Quiet
    BY <1>3, <1>5 DEF AfterArm
  <2>. QED  BY <1>1, <1>5, <2>1 DEF AfterArm, Calling
<1>6. CASE AfterAck \/ AfterDone \/ AfterConfirm \/ AfterStop
  <2>1. Quiet
    BY <1>3, <1>4, <1>6 DEF AfterAck, AfterDone, AfterConfirm, AfterStop
  <2>. QED  BY <1>1, <1>6, <2>1 DEF AfterAck, AfterDone, AfterConfirm, AfterStop, Calling
<1>7. CASE \E e : LiveAnswered(e)
  <2>1. Quiet
    BY <1>3, <1>4, <1>7 DEF LiveAnswered
  <2>. QED  BY <1>1, <1>7, <2>1 DEF LiveAnswered, Calling
<1>8. CASE DoneTimedOut
  <2>1. Quiet
    BY <1>3, <1>4, <1>8 DEF DoneTimedOut
  <2>. QED  BY <1>1, <1>8, <2>1 DEF DoneTimedOut, Calling
<1>9. CASE BeginLive \/ Refresh \/ EndLive \/ SkipRow
  <2>1. Quiet
    BY <1>3, <1>4, <1>9 DEF BeginLive, Refresh, EndLive, SkipRow
  <2>. QED  BY <1>1, <1>9, <2>1 DEF Refresh, EndLive, SkipRow, Calling
<1>10. CASE TimedOut /\ host = "live_wait" /\ host' = "live_next" /\ UNCHANGED tx
  BY <1>1, <1>4, <1>10 DEF Calling
<1>. QED
  BY <1>5, <1>6, <1>7, <1>8, <1>9, <1>10 DEF HostStep, Answered, TimedOut, Crash, Restart

LEMMA CallHost ==
  ASSUME IInv, LinkTypes, Handshake, IInv', LinkTypes', Handshake', late' # "died",
         HostStep, UNCHANGED usbVars
  PROVE  /\ Doing' = Doing
         /\ \/ Calling' = Calling /\ Asked' = Asked
            \/ /\ Calling = "none" /\ Doing = "rest" /\ ~Asked
               /\ Calling' \in {"pulse", "live"} /\ Asked' = (Calling' = "pulse")
            \/ /\ Calling # "none" /\ Doing = "rest" /\ ~Asked
               /\ Calling' = "none" /\ ~Asked'
<1>1. Doing' = Doing
  BY DEF usbVars, Doing
<1>2. Calling' = "none" => Doing = "rest" /\ ~Asked'
  <2>1. ASSUME Calling' = "none"  PROVE AtEase'
    BY <2>1 DEF Calling, Handshake
  <2>2. AtEase' => Doing' = "rest" /\ ~Asked'
    BY DEF AtEase, Doing, StopLines, StopLine, Asked
  <2>. QED  BY <1>1, <2>1, <2>2
<1>3. Calling \in {"none", "pulse", "live"} /\ host # "crashed"
  BY DEF Calling, Handshake
<1>4. Calling = "none" => Doing = "rest" /\ ~Asked
  BY DoingInStep
<1>5. CASE BeginPulse
  <2>1. tx' = Append(tx, [op |-> "ARM"]) /\ host = "idle" /\ host' = "arm"
    BY <1>5 DEF BeginPulse, Write
  <2>2. Asked'
    BY <2>1, CallLines, HostLines
  <2>3. Calling = "none" /\ Calling' = "pulse"
    BY <2>1 DEF Calling
  <2>4. Asked' \in BOOLEAN
    BY DEF Asked
  <2>5. Asked' = (Calling' = "pulse")
    BY <2>2, <2>3, <2>4
  <2>6. Doing = "rest" /\ ~Asked
    BY <1>4, <2>3
  <2>7. Calling' \in {"pulse", "live"}
    BY <2>3
  <2>. QED  BY <1>1, <2>3, <2>5, <2>6, <2>7
<1>6. CASE BeginLive
  <2>1. Calling = "none" /\ Calling' = "live" /\ UNCHANGED tx
    BY <1>6 DEF BeginLive, Calling
  <2>2. ~Asked'
    BY <1>4, <2>1 DEF Asked
  <2>3. Asked' \in BOOLEAN
    BY DEF Asked
  <2>4. Asked' = (Calling' = "pulse") /\ Calling' \in {"pulse", "live"}
    BY <2>1, <2>2, <2>3
  <2>. QED  BY <1>1, <1>4, <2>1, <2>4
<1>7. CASE ~BeginPulse /\ ~BeginLive
  <2>1. Asked' = Asked /\ (Calling' = Calling \/ Calling' = "none")
    BY <1>3, <1>7, CallLine
  <2>. QED  BY <1>1, <1>2, <1>3, <2>1
<1>. QED  BY <1>5, <1>6, <1>7

\* The executor's calls are guarded, for every link and every set of lines, if only a
\* firmware with live drive is sent setpoints.
THEOREM ExecutorKeepsContract ==
  ASSUME Setpoints # {} => LiveEnabled
  PROVE  HostSpec => CallsAreGuarded
<1>. DEFINE LinkInv == IInv /\ LinkTypes /\ Leftovers /\ InStep
<1>1. HostInit => Contract!Init
  BY DEF HostInit, Init, NoPulse, NoLive, Contract!Init, Calling, Doing, Asked, Trust
<1>2. ASSUME LinkInv, LinkInv', [HostNext]_allVars
      PROVE  [Contract!Next]_(Contract!contract)
  <2>. USE DEF Contract!Next, Contract!Begin, Contract!Arm, Contract!Fire, Contract!Hold,
               Contract!Rest, Contract!Return, Contract!Doubt, Contract!Drift, Contract!Lost,
               Contract!contract
  <2>1. late \in {"no", "yes", "died"} /\ late' \in {"no", "yes", "died"}
    BY <1>2 DEF LinkTypes
  <2>2. CASE UNCHANGED allVars
    BY <2>2 DEF allVars, hostVars, usbVars, Calling, Doing, Asked, Trust
  <2>3. CASE FirmwareReads \/ FirmwareRuns
    <3>1. late' = late /\ Trust' = Trust
      BY <2>3 DEF FirmwareReads, FirmwareRuns, Trust
    <3>2. CASE late = "no"
      <4>1. Trust = "full" /\ Handshake
        BY <1>2, <3>2 DEF Trust, InStep
      <4>2. CASE FirmwareReads
        <5>. HIDE DEF LinkInv
        <5>1. IInv /\ LinkTypes
          BY <1>2 DEF LinkInv
        <5>2. /\ Calling' = Calling
              /\ \/ Doing' = "rest" /\ Asked' = Asked
                 \/ /\ Calling = "pulse" /\ Doing = "rest" /\ Asked
                    /\ Doing' \in {"armed", "rest"} /\ ~Asked'
                 \/ /\ Calling = "pulse" /\ Doing = "armed" /\ ~Asked
                    /\ Doing' = "pulse" /\ ~Asked'
                 \/ /\ Calling = "live" /\ Doing \in {"rest", "live"} /\ ~Asked
                    /\ Doing' = "live" /\ ~Asked'
          BY <4>1, <4>2, <5>1, CallRead
        <5>3. Asked \in BOOLEAN /\ Asked' \in BOOLEAN
          BY DEF Asked
        <5>4. ~Asked /\ ~Asked' => Asked' = Asked
          BY <5>3
        <5>. QED  BY <3>1, <4>1, <5>2, <5>4
      <4>3. CASE FirmwareRuns
        <5>1. Calling' = Calling /\ Asked' = Asked /\ Doing' \in {Doing, "rest"}
          BY <1>2, <4>1, <4>3, DoingInStep, CallRun
        <5>. QED  BY <3>1, <4>1, <5>1
      <4>. QED  BY <2>3, <4>2, <4>3
    <3>3. CASE late = "yes"
      <4>1. ASSUME Doing' = "pulse"  PROVE Doing \in {"armed", "pulse"}
        <5>1. pulse'.active /\ ~live'.active
          BY <4>1 DEF Doing
        <5>2. CASE FirmwareReads
          <6>1. tx[1] \in Lines /\ HandleLine(tx[1])
            BY <1>2, <5>2, Read
          <6>2. armed /\ live' = live
            BY <1>2, <5>1, <6>1, ArmedFirst, LineEffect
          <6>. QED  BY <5>1, <6>2 DEF Doing
        <5>3. CASE FirmwareRuns
          <6>1. pulse.active
            BY <1>2, <5>1, <5>3, RunEffect DEF FirmwareRuns
          <6>2. ~live.active
            BY <1>2, <3>3, <6>1 DEF Leftovers, LiveApart
          <6>. QED  BY <6>1, <6>2 DEF Doing
        <5>. QED  BY <2>3, <5>2, <5>3
      <4>. QED  BY <3>1, <3>3, <4>1 DEF Trust
    <3>4. CASE late = "died"
      BY <3>1, <3>4 DEF Trust
    <3>. QED  BY <2>1, <3>2, <3>3, <3>4
  <2>4. CASE HostStep /\ UNCHANGED usbVars
    <3>1. Doing' = Doing
      BY <2>4 DEF usbVars, Doing
    <3>2. CASE late = "no" /\ late' = "no"
      <4>1. Trust = "full" /\ Trust' = "full" /\ Handshake /\ Handshake'
        BY <1>2, <3>2 DEF Trust, InStep
      <4>. HIDE DEF LinkInv
      <4>2. IInv /\ LinkTypes /\ IInv' /\ LinkTypes'
        BY <1>2 DEF LinkInv
      <4>3. \/ Calling' = Calling /\ Asked' = Asked
            \/ /\ Calling = "none" /\ Doing = "rest" /\ ~Asked
               /\ Calling' \in {"pulse", "live"} /\ Asked' = (Calling' = "pulse")
            \/ /\ Calling # "none" /\ Doing = "rest" /\ ~Asked
               /\ Calling' = "none" /\ ~Asked'
        BY <2>4, <3>2, <4>1, <4>2, CallHost
      <4>4. Asked \in BOOLEAN /\ Asked' \in BOOLEAN
        BY DEF Asked
      <4>. QED  BY <3>1, <4>1, <4>3, <4>4
    <3>3. CASE late # late'
      BY <2>1, <2>4, <3>1, <3>3 DEF Trust, HostStep, BeginPulse, BeginLive, Refresh, EndLive,
         SkipRow, Answered, TimedOut, GivenUp, Crash, Restart
    <3>4. CASE late = late' /\ late # "no"
      <4>1. Trust' = Trust /\ Trust \in {"some", "none"}
        BY <2>1, <3>4 DEF Trust
      <4>2. Doing' = "pulse" => Doing \in {"armed", "pulse"}
        BY <3>1
      <4>. QED  BY <3>1, <4>1, <4>2
    <3>. QED  BY <3>2, <3>3, <3>4
  <2>. QED  BY <1>2, <2>2, <2>3, <2>4 DEF HostNext
<1>. QED
  BY HostInvariance, HostInStep, <1>1, <1>2, PTL DEF HostSpec, CallsAreGuarded, Contract!Spec
=============================================================================
