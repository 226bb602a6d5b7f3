----------------------------- MODULE PpmReceiver -----------------------------
(***************************************************************************)
(* The pilot's receiver as the firmware sees it: one wire on which each    *)
(* frame is a series of edges, the interrupt that measures the time        *)
(* between two edges and writes one channel per edge, and the readers in   *)
(* the loop, which the interrupt may preempt between any two of their      *)
(* reads.  Edges may be lost, spurious, or stop for a while.               *)
(***************************************************************************)
EXTENDS Integers

CONSTANTS
  Sent,         \* channels in a frame of the receiver
  Widths, Gap,  \* its channel widths, and the gap that ends a frame
  Glitches,     \* how far into an interval a spurious edge may fall
  Stored,       \* CHANNEL_COUNT
  Sticks, Mode, \* the channels the firmware reads: steering and throttle, the switch
  Sync,         \* PPM_SYNC_US
  CaptureMin,   \* PPM_CAPTURE_MIN_US
  MinValid, MaxValid, \* RC_MIN_VALID_US, RC_MAX_VALID_US
  AutoOn,       \* RC_AUTO_SWITCH_ON_US
  Timeout,      \* RC_FRAME_TIMEOUT_MS
  Word,         \* the number of values of a uint32_t; millis() has not wrapped yet
  MaxFaults     \* bound: faults of the wire

ASSUME WireConstants ==
  /\ Sent \in Nat \ {0} /\ Gap \in Nat /\ Widths \subseteq Nat /\ Glitches \subseteq Nat \ {0}
  /\ MaxFaults \in Nat

ASSUME DecoderConstants ==
  /\ Stored \in Nat \ {0} /\ Mode \in 0..(Stored - 1) /\ Sticks \subseteq 0..Mode
  /\ {Sync, CaptureMin, MinValid, MaxValid, AutoOn} \subseteq Nat
  /\ Timeout \in Nat /\ Word \in Nat \ {0}

\* A receiver that fits the build: its frames have the channels the firmware reads,
\* and none of its pulses is taken for a gap, or for noise.
ASSUME FittingReceiver ==
  /\ Mode < Sent /\ Gap > Sync
  /\ \A w \in Widths : CaptureMin <= w /\ w <= Sync

Required == Mode + 1  \* PPM_REQUIRED_CHANNEL_COUNT
Slots == 0..(Stored - 1)
Read == Sticks \cup {Mode}

VARIABLES
  slot,     \* the interval that is running: a channel, or Sent for the gap
  part,     \* how much of it was over at the last spurious edge
  unseen,   \* time of intervals that ended without an edge since the last edge
  faults,
  stamped,        \* lastPpmEdgeMicros # 0
  ppmIndex, ppmChannels, lastPpmFrameMs,
  ms,             \* millis()
  at,             \* the next step of the reader, or "idle"
  call,           \* who reads: the loop, an AUTO line, or a status row
  sample, clock, stamp, verdict,  \* the reader's locals
  clean,    \* history: frame starts since the last fault, up to 2
  held,     \* history: whose width a channel holds, of its own place in this frame
            \* ("now") or in the one before ("last"), or another
  written,  \* history: channels written since the last gap the decoder saw
  whole,    \* history: channels written since the frame accepted last began
  began, seen, older  \* history: ms, lastPpmFrameMs, and the channels older than that
                      \* frame, when the reader took its sample

wire == <<slot, part, unseen, faults, clean>>
decoder == <<stamped, ppmIndex, ppmChannels, lastPpmFrameMs, held, written, whole>>
reader == <<at, call, sample, clock, stamp, verdict, began, seen, older>>
vars == <<wire, decoder, ms, reader>>

Init ==
  /\ slot \in 0..Sent /\ part = 0 /\ unseen = 0 /\ faults = 0
  /\ stamped = FALSE /\ ppmIndex = 0 /\ lastPpmFrameMs = 0
  /\ ppmChannels = [c \in Slots |-> 0]
  /\ ms = 0
  /\ at = "idle" /\ call = "none" /\ verdict = "none"
  /\ sample = [c \in Read |-> 0]
  /\ clock = 0 /\ stamp = 0 /\ began = 0 /\ seen = 0 /\ older = {}
  /\ clean = 0 /\ held = [c \in Slots |-> "other"] /\ written = {} /\ whole = {}

-----------------------------------------------------------------------------
(* The interrupt.                                                          *)

Syncs(width) == stamped /\ width > Sync

\* Mutant for CleanFramesCount: exactly the channels that are needed.
ExactCount(width) == Syncs(width) /\ ppmIndex = Required

Accepts(width) == Syncs(width) /\ ppmIndex >= Required

\* Noise is refused before the first channel only.
Captures(width) ==
  /\ stamped /\ width <= Sync
  /\ ~(ppmIndex = 0 /\ width < CaptureMin)
  /\ ppmIndex < Stored

\* Mutant for SelfSynchronises: only an accepted frame starts again at the first channel.
KeepsIncomplete(width) ==
  IF Accepts(width) THEN 0 ELSE IF Captures(width) THEN ppmIndex + 1 ELSE ppmIndex

\* Mutant for TwoFramesAtMost: channels are counted from one.
CountsFromOne(width) ==
  IF Syncs(width) THEN 1 ELSE IF Captures(width) THEN ppmIndex + 1 ELSE ppmIndex

NextIndex(width) ==
  IF Syncs(width) THEN 0 ELSE IF Captures(width) THEN ppmIndex + 1 ELSE ppmIndex

\* History: widths grow older when a frame begins.
Older(whose) == IF whose = "now" THEN "last" ELSE "other"
Aged(next) == [c \in Slots |-> IF next THEN Older(held[c]) ELSE held[c]]

\* An edge that ends a time of this width.  lastPpmEdgeMicros = 0 means no edge yet,
\* and micros() may read 0 ("zero").  "own": the time is that of the wire's channel of
\* this place; "next": a frame begins.
ppmISR(width, own, next, zero) ==
  /\ stamped' = ~zero
  /\ ppmIndex' = NextIndex(width)
  /\ lastPpmFrameMs' = IF Accepts(width) THEN ms ELSE lastPpmFrameMs
  /\ ppmChannels' = IF Captures(width) THEN [ppmChannels EXCEPT ![ppmIndex] = width] ELSE ppmChannels
  /\ held' = IF Captures(width)
              THEN [Aged(next) EXCEPT ![ppmIndex] = IF own THEN "now" ELSE "other"]
              ELSE Aged(next)
  /\ written' = IF Syncs(width) THEN {} ELSE IF Captures(width) THEN written \cup {ppmIndex} ELSE written
  /\ whole' = IF Accepts(width) THEN written
              ELSE IF Captures(width) THEN whole \cup {ppmIndex} ELSE whole

-----------------------------------------------------------------------------
(* The wire.                                                               *)

Lengths == IF slot = Sent THEN {Gap} ELSE Widths
NextSlot == IF slot = Sent THEN 0 ELSE slot + 1

Fault == faults < MaxFaults /\ faults' = faults + 1 /\ clean' = 0

\* An interval ends, and the interrupt sees its edge.  A frame start counts as clean
\* when the decoder can see the gap before it.
Edge ==
  \E length \in Lengths : LET width == unseen + length - part IN
  /\ length > part
  /\ ppmISR(width, part = 0 /\ unseen = 0 /\ slot = ppmIndex, slot = Sent, FALSE)
  /\ slot' = NextSlot /\ part' = 0 /\ unseen' = 0
  /\ clean' = IF slot < Sent THEN clean
              ELSE IF ~Syncs(width) THEN 0 ELSE IF clean = 0 THEN 1 ELSE 2
  /\ UNCHANGED faults

\* The same when micros() reads 0 at the edge: the next width will not be measured.
EdgeAtZero ==
  \E length \in Lengths :
  /\ length > part
  /\ ppmISR(unseen + length - part, part = 0 /\ unseen = 0 /\ slot = ppmIndex, slot = Sent, TRUE)
  /\ slot' = NextSlot /\ part' = 0 /\ unseen' = 0
  /\ Fault

\* An interval ends unseen: its time is added to that of the next.
LostEdge ==
  \E length \in Lengths :
  /\ length > part
  /\ unseen' = unseen + length - part
  /\ slot' = NextSlot /\ part' = 0
  /\ held' = Aged(slot = Sent)
  /\ Fault
  /\ UNCHANGED <<stamped, ppmIndex, ppmChannels, lastPpmFrameMs, written, whole>>

\* A spurious edge cuts an interval in two.
Glitch ==
  \E d \in Glitches :
  /\ \E length \in Lengths : part + d < length
  /\ ppmISR(unseen + d, FALSE, FALSE, FALSE)
  /\ part' = part + d /\ unseen' = 0
  /\ Fault
  /\ UNCHANGED slot

\* The receiver stops in the middle of a frame; when it is back it begins with a gap.
Dropout ==
  /\ unseen' = unseen + Gap
  /\ slot' = Sent /\ part' = 0
  /\ Fault
  /\ UNCHANGED decoder

\* The milliseconds go on with or without edges.
Tick ==
  /\ ms + 1 < Word
  /\ ms' = ms + 1
  /\ UNCHANGED <<wire, decoder, reader>>

-----------------------------------------------------------------------------
(* The readers.                                                            *)

rcPulseValid(width) == MinValid <= width /\ width <= MaxValid
rcAutoSwitchOn(mode) == mode > AutoOn

\* readRcChannels copies its three channels with interrupts off.
readRcChannels == sample' = [c \in Read |-> ppmChannels[c]]

Arrives ==
  /\ began' = ms /\ seen' = lastPpmFrameMs
  /\ older' = (0..Mode) \ whole

\* The loop, and the line that asks for AUTO, take a sample and then judge it.
TakeSample ==
  /\ at = "idle"
  /\ call' \in {"loop", "auto"}
  /\ readRcChannels /\ Arrives
  /\ at' = "sampled"
  /\ UNCHANGED <<clock, stamp, verdict>>

\* printModeSwitchFields copies the switch and the frame time together.
printModeSwitchFields ==
  /\ at = "idle"
  /\ call' = "row"
  /\ readRcChannels /\ Arrives
  /\ stamp' = lastPpmFrameMs
  /\ at' = "stamped"
  /\ UNCHANGED <<clock, verdict>>

\* Unsigned subtraction.
Elapsed(now, mark) == IF now >= mark THEN now - mark ELSE now - mark + Word

\* What is judged: the row looks at the switch only.
Judged == IF call = "row" THEN {Mode} ELSE Read

\* Mutant for LossIsReal: the two operands are swapped.
SwappedOperands(now, mark) ==
  IF mark # 0 /\ Elapsed(mark, now) < Timeout
  THEN IF \A c \in Judged : rcPulseValid(sample[c]) THEN "valid" ELSE "bad"
  ELSE "lost"

\* Mutant for ValidIsRecent: the frame time of the power-up counts.
ZeroIsATime(now, mark) ==
  IF Elapsed(now, mark) < Timeout
  THEN IF \A c \in Judged : rcPulseValid(sample[c]) THEN "valid" ELSE "bad"
  ELSE "lost"

Verdict(now, mark) ==
  IF mark # 0 /\ Elapsed(now, mark) < Timeout
  THEN IF \A c \in Judged : rcPulseValid(sample[c]) THEN "valid" ELSE "bad"
  ELSE "lost"

Judge(now, mark) ==
  /\ verdict' = Verdict(now, mark)
  /\ at' = IF call = "auto" /\ verdict' = "valid" THEN "switch" ELSE "done"

\* rcFrameRecent: first whether there has been a frame at all,
FirstOperand ==
  /\ at = "sampled"
  /\ IF lastPpmFrameMs = 0 THEN verdict' = "lost" /\ at' = "done"
     ELSE UNCHANGED verdict /\ at' = "operands"
  /\ UNCHANGED <<call, sample, clock, stamp, began, seen, older>>

\* then the clock and the frame time, in an order the language leaves open.
ReadClock ==
  /\ \/ at = "operands" /\ clock' = ms /\ at' = "clocked" /\ UNCHANGED <<stamp, verdict>>
     \/ at = "stamped" /\ Judge(ms, stamp) /\ UNCHANGED <<clock, stamp>>
  /\ UNCHANGED <<call, sample, began, seen, older>>

ReadStamp ==
  /\ \/ at = "operands" /\ stamp' = lastPpmFrameMs /\ at' = "stamped" /\ UNCHANGED <<clock, verdict>>
     \/ at = "clocked" /\ Judge(clock, lastPpmFrameMs) /\ UNCHANGED <<clock, stamp>>
  /\ UNCHANGED <<call, sample, began, seen, older>>

\* AUTO takes a sample of its own for the switch.
ReadSwitch ==
  /\ at = "switch"
  /\ readRcChannels
  /\ verdict' = IF rcAutoSwitchOn(ppmChannels[Mode]) THEN "granted" ELSE "refused"
  /\ at' = "done"
  /\ UNCHANGED <<call, clock, stamp, began, seen, older>>

Finish ==
  /\ at = "done"
  /\ at' = "idle" /\ call' = "none" /\ verdict' = "none"
  /\ sample' = [c \in Read |-> 0]
  /\ clock' = 0 /\ stamp' = 0 /\ began' = 0 /\ seen' = 0 /\ older' = {}

WireStep == Edge \/ EdgeAtZero \/ LostEdge \/ Glitch \/ Dropout
ReaderStep ==
  \/ TakeSample \/ printModeSwitchFields \/ FirstOperand \/ ReadClock \/ ReadStamp
  \/ ReadSwitch \/ Finish

Next ==
  \/ WireStep /\ UNCHANGED <<ms, reader>>
  \/ Tick
  \/ ReaderStep /\ UNCHANGED <<wire, decoder, ms>>

Spec == Init /\ [][Next]_vars

-----------------------------------------------------------------------------
(* Properties.                                                             *)

Whose == {"now", "last", "other"}

TypeOK ==
  /\ slot \in 0..Sent /\ part \in Nat /\ unseen \in Nat /\ faults \in 0..MaxFaults
  /\ clean \in 0..2
  /\ stamped \in BOOLEAN /\ ppmIndex \in 0..Stored /\ ppmChannels \in [Slots -> Nat]
  /\ ms \in 0..(Word - 1) /\ lastPpmFrameMs \in 0..ms
  /\ held \in [Slots -> Whose] /\ written \subseteq Slots /\ whole \subseteq Slots
  /\ at \in {"idle", "sampled", "operands", "clocked", "stamped", "switch", "done"}
  /\ call \in {"none", "loop", "auto", "row"}
  /\ verdict \in {"none", "lost", "bad", "valid", "granted", "refused"}
  /\ sample \in [Read -> Nat]
  /\ clock \in 0..ms /\ stamp \in 0..ms /\ began \in 0..ms /\ seen \in 0..ms
  /\ older \subseteq 0..Mode

\* Whatever edges were lost or added before: once one frame has started in sight the
\* decoder is at the place where the wire is, and the channels below hold this frame.
SelfSynchronises ==
  clean > 0 =>
    /\ ppmIndex = IF slot < Stored THEN slot ELSE Stored
    /\ \A c \in Slots : c < slot => held[c] = "now"

\* From the second on, what a sample copies is each channel's own width of this frame
\* or of the one before: a sample may mix two frames, never more, and never shifted.
TwoFramesAtMost == clean = 2 => \A c \in 0..Mode : held[c] \in {"now", "last"}

\* A frame that was whole on the wire is accepted at the gap that ends it.
CleanFramesCount ==
  [][slot = Sent /\ slot' = 0 /\ clean' = 2 => lastPpmFrameMs' = ms]_vars

\* Frames cut short overwrite channels and are not accepted; still no channel that is
\* read is older than the frame accepted last.
AcceptedIsWhole == lastPpmFrameMs # 0 => 0..Mode \subseteq whole

\* Wherever the interrupt falls: a sample taken for valid has a frame that was accepted
\* less than the timeout before the sample, or since; and unless one was accepted
\* since, no width in it is older than that frame.
Approved == verdict \in {"valid", "granted", "refused"}

ValidIsRecent ==
  Approved =>
    /\ lastPpmFrameMs # 0 /\ began < lastPpmFrameMs + Timeout
    /\ lastPpmFrameMs = seen => older = {}

\* The switch a status row reports as present belongs to the frame it is dated by, also
\* when frames were accepted in between.
RowIsWhole == call = "row" /\ verdict = "valid" => older = {} /\ seen # 0 /\ began < seen + Timeout

\* A reader finds the receiver lost only if it was: there had been no frame, the last
\* was too old when the reader ended, or frames were accepted in a later
\* millisecond than the reader began in.
LossIsReal ==
  verdict = "lost" => seen = 0 \/ ms >= seen + Timeout \/ lastPpmFrameMs > began

=============================================================================
