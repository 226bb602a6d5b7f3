-------------------------- MODULE PpmReceiverProofs --------------------------
(***************************************************************************)
(* Proofs about PpmReceiver, for every receiver that fits the build, every *)
(* number of channels and faults, and an interrupt that falls anywhere.    *)
(***************************************************************************)
EXTENDS PpmReceiver, TLAPS

-----------------------------------------------------------------------------
(* What an edge does.                                                      *)

LEMMA DecoderTypes ==
  /\ Sent \in Nat /\ Gap \in Nat /\ Stored \in Nat /\ Mode \in Nat /\ Mode < Stored
  /\ Required \in Nat /\ Required = Mode + 1
  /\ Sync \in Nat /\ CaptureMin \in Nat /\ Timeout \in Nat /\ Word \in Nat
  /\ Read \subseteq Slots /\ Mode \in Read
  BY WireConstants, DecoderConstants DEF Required, Read, Slots

\* The time an edge ends is a natural number.
LEMMA Width ==
  ASSUME TypeOK, NEW length \in Lengths, length > part
  PROVE  length \in Nat /\ unseen + length - part \in Nat
<1>1. length \in Nat
  BY WireConstants DEF Lengths
<1>. QED  BY <1>1 DEF TypeOK

LEMMA NextSlotTypes == TypeOK => NextSlot \in 0..Sent
  BY DecoderTypes DEF TypeOK, NextSlot

DecoderOK ==
  /\ stamped \in BOOLEAN /\ ppmIndex \in 0..Stored /\ ppmChannels \in [Slots -> Nat]
  /\ lastPpmFrameMs \in 0..ms
  /\ held \in [Slots -> Whose] /\ written \subseteq Slots /\ whole \subseteq Slots

LEMMA EdgeTypes ==
  ASSUME TypeOK, NEW width \in Nat, NEW own \in BOOLEAN, NEW next \in BOOLEAN,
         NEW zero \in BOOLEAN, ppmISR(width, own, next, zero), ms' = ms
  PROVE  DecoderOK' /\ lastPpmFrameMs <= lastPpmFrameMs'
<1>. USE DEF TypeOK
<1>1. Captures(width) => ppmIndex \in Slots
  BY DecoderTypes DEF Captures, Slots
<1>2. ppmIndex' \in 0..Stored
  BY DecoderTypes DEF ppmISR, NextIndex, Captures
<1>3. ppmChannels' \in [Slots -> Nat]
  BY <1>1 DEF ppmISR
<1>4. held' \in [Slots -> Whose]
  <2>1. Aged(next) \in [Slots -> Whose]
    BY DEF Aged, Older, Whose
  <2>. QED  BY <1>1, <2>1 DEF ppmISR, Whose
<1>5. written' \subseteq Slots /\ whole' \subseteq Slots
  BY <1>1 DEF ppmISR
<1>6. lastPpmFrameMs' \in 0..ms' /\ lastPpmFrameMs <= lastPpmFrameMs'
  BY DecoderTypes DEF ppmISR
<1>7. stamped' \in BOOLEAN
  BY DEF ppmISR
<1>. QED  BY <1>2, <1>3, <1>4, <1>5, <1>6, <1>7 DEF DecoderOK

\* The index says how far the frame has been written, and nothing that is read is older
\* than the frame accepted last.
DecoderInv ==
  /\ \A c \in Slots : c < ppmIndex => c \in written
  /\ AcceptedIsWhole

LEMMA EdgeKeepsWhole ==
  ASSUME TypeOK, DecoderInv, NEW width \in Nat, NEW own, NEW next, NEW zero,
         ppmISR(width, own, next, zero)
  PROVE  DecoderInv'
<1>. USE DEF TypeOK
<1>1. ASSUME NEW c \in Slots, c < ppmIndex'
      PROVE  c \in written'
  <2>1. CASE Syncs(width)
    BY <1>1, <2>1, DecoderTypes DEF ppmISR, NextIndex, Slots
  <2>2. CASE ~Syncs(width) /\ Captures(width)
    BY <1>1, <2>2, DecoderTypes DEF ppmISR, NextIndex, DecoderInv, Slots
  <2>3. CASE ~Syncs(width) /\ ~Captures(width)
    BY <1>1, <2>3, DecoderTypes DEF ppmISR, NextIndex, DecoderInv, Slots
  <2>. QED  BY <2>1, <2>2, <2>3
<1>2. AcceptedIsWhole'
  <2>1. CASE Accepts(width)
    <3>1. \A c \in 0..Mode : c \in Slots /\ c < ppmIndex
      BY <2>1, DecoderTypes DEF Accepts, Slots
    <3>. QED  BY <2>1, <3>1 DEF ppmISR, DecoderInv, AcceptedIsWhole
  <2>2. CASE ~Accepts(width)
    BY <2>2 DEF ppmISR, DecoderInv, AcceptedIsWhole
  <2>. QED  BY <2>1, <2>2
<1>. QED  BY <1>1, <1>2 DEF DecoderInv

-----------------------------------------------------------------------------
(* Steps of the wire and of the readers.                                   *)

LEMMA WireTypes ==
  ASSUME TypeOK, WireStep, UNCHANGED <<ms, reader>>
  PROVE  /\ TypeOK' /\ lastPpmFrameMs <= lastPpmFrameMs'
         /\ DecoderInv => DecoderInv'
<1>. USE DEF TypeOK, Fault
<1>1. CASE Edge
  <2>1. PICK length \in Lengths :
          /\ length > part
          /\ ppmISR(unseen + length - part, part = 0 /\ unseen = 0 /\ slot = ppmIndex,
                    slot = Sent, FALSE)
    BY <1>1 DEF Edge
  <2>2. unseen + length - part \in Nat
    BY <2>1, Width
  <2>3. DecoderOK' /\ lastPpmFrameMs <= lastPpmFrameMs' /\ (DecoderInv => DecoderInv')
    <3>. DEFINE width == unseen + length - part
    <3>. DEFINE own == part = 0 /\ unseen = 0 /\ slot = ppmIndex
    <3>. DEFINE next == slot = Sent
    <3>1. width \in Nat /\ own \in BOOLEAN /\ next \in BOOLEAN /\ ppmISR(width, own, next, FALSE)
      BY <2>1, <2>2
    <3>2. ms' = ms
      OBVIOUS
    <3>. HIDE DEF width, own, next
    <3>. QED  BY <3>1, <3>2, EdgeTypes, EdgeKeepsWhole
  <2>4. slot' \in 0..Sent /\ part' \in Nat /\ unseen' \in Nat /\ faults' \in 0..MaxFaults
    BY <1>1, NextSlotTypes DEF Edge
  <2>5. clean' \in 0..2
    BY <1>1 DEF Edge
  <2>. QED  BY <2>3, <2>4, <2>5 DEF DecoderOK, reader
<1>2. CASE EdgeAtZero
  <2>1. PICK length \in Lengths :
          /\ length > part
          /\ ppmISR(unseen + length - part, part = 0 /\ unseen = 0 /\ slot = ppmIndex,
                    slot = Sent, TRUE)
    BY <1>2 DEF EdgeAtZero
  <2>2. unseen + length - part \in Nat
    BY <2>1, Width
  <2>3. DecoderOK' /\ lastPpmFrameMs <= lastPpmFrameMs' /\ (DecoderInv => DecoderInv')
    <3>. DEFINE width == unseen + length - part
    <3>. DEFINE own == part = 0 /\ unseen = 0 /\ slot = ppmIndex
    <3>. DEFINE next == slot = Sent
    <3>1. width \in Nat /\ own \in BOOLEAN /\ next \in BOOLEAN /\ ppmISR(width, own, next, TRUE)
      BY <2>1, <2>2
    <3>2. ms' = ms
      OBVIOUS
    <3>. HIDE DEF width, own, next
    <3>. QED  BY <3>1, <3>2, EdgeTypes, EdgeKeepsWhole
  <2>4. slot' \in 0..Sent /\ part' \in Nat /\ unseen' \in Nat /\ faults' \in 0..MaxFaults
        /\ clean' \in 0..2
    BY <1>2, NextSlotTypes, WireConstants DEF EdgeAtZero
  <2>. QED  BY <2>3, <2>4 DEF DecoderOK, reader
<1>3. CASE LostEdge
  <2>1. PICK length \in Lengths : length > part /\ unseen' = unseen + length - part
    BY <1>3 DEF LostEdge
  <2>2. unseen' \in Nat
    BY <2>1, Width
  <2>3. held' \in [Slots -> Whose]
    BY <1>3 DEF LostEdge, Aged, Older, Whose
  <2>4. slot' \in 0..Sent /\ part' \in Nat /\ faults' \in 0..MaxFaults /\ clean' \in 0..2
    BY <1>3, NextSlotTypes, WireConstants DEF LostEdge
  <2>5. UNCHANGED <<stamped, ppmIndex, ppmChannels, lastPpmFrameMs, written, whole>>
    BY <1>3 DEF LostEdge
  <2>. QED  BY <2>2, <2>3, <2>4, <2>5 DEF reader, DecoderInv, AcceptedIsWhole
<1>4. CASE Glitch
  <2>1. PICK d \in Glitches :
          ppmISR(unseen + d, FALSE, FALSE, FALSE) /\ part' = part + d /\ unseen' = 0
    BY <1>4 DEF Glitch
  <2>2. d \in Nat /\ unseen + d \in Nat
    BY WireConstants
  <2>3. DecoderOK' /\ lastPpmFrameMs <= lastPpmFrameMs' /\ (DecoderInv => DecoderInv')
    BY <2>1, <2>2, EdgeTypes, EdgeKeepsWhole
  <2>4. slot' \in 0..Sent /\ part' \in Nat /\ unseen' \in Nat /\ faults' \in 0..MaxFaults
        /\ clean' \in 0..2
    BY <1>4, <2>1, <2>2, WireConstants DEF Glitch
  <2>. QED  BY <2>3, <2>4 DEF DecoderOK, reader
<1>5. CASE Dropout
  BY <1>5, DecoderTypes, WireConstants DEF Dropout, decoder, reader, DecoderInv, AcceptedIsWhole
<1>. QED  BY <1>1, <1>2, <1>3, <1>4, <1>5 DEF WireStep

LEMMA ReaderTypes ==
  ASSUME TypeOK, ReaderStep, UNCHANGED <<wire, decoder, ms>>
  PROVE  TypeOK'
<1>. USE DEF TypeOK, wire, decoder
<1>1. readRcChannels => sample' \in [Read -> Nat]
  BY DecoderTypes DEF readRcChannels
<1>2. CASE TakeSample
  BY <1>1, <1>2 DEF TakeSample, Arrives
<1>3. CASE printModeSwitchFields
  BY <1>1, <1>3 DEF printModeSwitchFields, Arrives
<1>4. CASE FirstOperand
  BY <1>4 DEF FirstOperand
<1>5. CASE ReadClock
  BY <1>5 DEF ReadClock, Judge, Verdict
<1>6. CASE ReadStamp
  BY <1>6 DEF ReadStamp, Judge, Verdict
<1>7. CASE ReadSwitch
  BY <1>1, <1>7 DEF ReadSwitch
<1>8. CASE Finish
  <2>1. sample' \in [Read -> Nat]
    BY <1>8 DEF Finish
  <2>2. 0 \in 0..ms
    BY DecoderTypes
  <2>. QED  BY <1>8, <2>1, <2>2 DEF Finish
<1>. QED  BY <1>2, <1>3, <1>4, <1>5, <1>6, <1>7, <1>8 DEF ReaderStep

LEMMA InitTypes == Init => TypeOK /\ DecoderInv
<1>. SUFFICES ASSUME Init PROVE TypeOK /\ DecoderInv
  OBVIOUS
<1>1. 0 \in 0..Stored /\ 0 \in 0..ms /\ ms \in 0..(Word - 1) /\ faults \in 0..MaxFaults
  BY DecoderTypes, DecoderConstants, WireConstants DEF Init
<1>2. ppmChannels \in [Slots -> Nat] /\ held \in [Slots -> Whose] /\ sample \in [Read -> Nat]
  BY DEF Init, Whose
<1>3. TypeOK
  <2>1. slot \in 0..Sent /\ part \in Nat /\ unseen \in Nat /\ clean \in 0..2
    BY DEF Init
  <2>4. /\ stamped \in BOOLEAN /\ older \subseteq 0..Mode
        /\ written \subseteq Slots /\ whole \subseteq Slots
    BY DEF Init
  <2>2. /\ ppmIndex \in 0..Stored /\ lastPpmFrameMs \in 0..ms
        /\ clock \in 0..ms /\ stamp \in 0..ms /\ began \in 0..ms /\ seen \in 0..ms
    BY <1>1 DEF Init
  <2>3. at = "idle" /\ call = "none" /\ verdict = "none"
    BY DEF Init
  <2>. QED  BY <1>1, <1>2, <2>1, <2>2, <2>3, <2>4 DEF TypeOK
<1>4. DecoderInv
  BY DecoderTypes DEF Init, DecoderInv, AcceptedIsWhole, Slots
<1>. QED  BY <1>3, <1>4

LEMMA StepTypes ==
  ASSUME TypeOK, DecoderInv, [Next]_vars
  PROVE  TypeOK' /\ DecoderInv'
<1>1. CASE WireStep /\ UNCHANGED <<ms, reader>>
  BY <1>1, WireTypes
<1>2. CASE Tick
  BY <1>2, DecoderTypes
  DEF Tick, TypeOK, DecoderInv, AcceptedIsWhole, wire, decoder, reader
<1>3. CASE ReaderStep /\ UNCHANGED <<wire, decoder, ms>>
  BY <1>3, ReaderTypes DEF DecoderInv, AcceptedIsWhole, decoder
<1>4. CASE UNCHANGED vars
  BY <1>4 DEF vars, TypeOK, DecoderInv, AcceptedIsWhole, wire, decoder, reader
<1>. QED  BY <1>1, <1>2, <1>3, <1>4 DEF Next

\* The receiver's variables keep their types; the index never leaves the array.
THEOREM ReceiverTypes == Spec => []TypeOK
<1>1. TypeOK /\ DecoderInv /\ [Next]_vars => (TypeOK /\ DecoderInv)'
  BY StepTypes
<1>. QED  BY <1>1, InitTypes, PTL DEF Spec

\* Whatever frames were cut short, no channel that is read is older than the frame
\* that was accepted last.
THEOREM NothingOlderThanAccepted == Spec => []AcceptedIsWhole
<1>1. TypeOK /\ DecoderInv /\ [Next]_vars => (TypeOK /\ DecoderInv)'
  BY StepTypes
<1>2. DecoderInv => AcceptedIsWhole
  BY DEF DecoderInv
<1>. QED  BY <1>1, <1>2, InitTypes, PTL DEF Spec

-----------------------------------------------------------------------------
(* How the decoder finds the beginning of a frame again.                   *)

\* From the first frame that starts in sight every edge ends one whole interval, and
\* the index goes with the wire; from the second the rest is of the frame before.
SyncInv ==
  clean > 0 =>
    /\ stamped /\ unseen = 0 /\ part = 0
    /\ ppmIndex = IF slot < Stored THEN slot ELSE Stored
    /\ \A c \in Slots : c < slot => held[c] = "now"
    /\ clean = 2 => \A c \in Slots : slot <= c /\ c < Sent => held[c] = "last"

LEMMA AgedHeld ==
  /\ \A c \in Slots : Aged(FALSE)[c] = held[c]
  /\ \A c \in Slots : held[c] = "now" => Aged(TRUE)[c] = "last"
  /\ DOMAIN Aged(FALSE) = Slots
  BY DEF Aged, Older

\* An edge that ends a channel.
LEMMA ChannelEdge ==
  ASSUME TypeOK, SyncInv, slot < Sent, Edge, UNCHANGED <<ms, reader>>
  PROVE  SyncInv'
<1>. SUFFICES ASSUME clean' > 0 PROVE SyncInv'
  BY DEF SyncInv
<1>. USE DecoderTypes
<1>1. clean > 0 /\ clean' = clean /\ slot' = slot + 1 /\ unseen' = 0 /\ part' = 0 /\ slot \in Nat
  BY DEF Edge, NextSlot, TypeOK
<1>2. stamped /\ unseen = 0 /\ part = 0 /\ ppmIndex = (IF slot < Stored THEN slot ELSE Stored)
  BY <1>1 DEF SyncInv
<1>3. PICK length \in Widths : ppmISR(length, slot = ppmIndex, FALSE, FALSE)
  <2>1. PICK length \in Lengths :
          ppmISR(unseen + length - part, part = 0 /\ unseen = 0 /\ slot = ppmIndex, slot = Sent, FALSE)
    BY DEF Edge
  <2>2. length \in Widths /\ length \in Nat
    BY WireConstants DEF Lengths, TypeOK
  <2>3. unseen + length - part = length
    BY <1>2, <2>2
  <2>4. (slot = Sent) = FALSE /\ (part = 0 /\ unseen = 0 /\ slot = ppmIndex) = (slot = ppmIndex)
    BY <1>1, <1>2
  <2>. QED  BY <2>1, <2>2, <2>3, <2>4
<1>4. ~Syncs(length) /\ length \in Nat /\ length <= Sync /\ length >= CaptureMin
  BY FittingReceiver, WireConstants DEF Syncs
<1>5. stamped'
  BY <1>3 DEF ppmISR
<1>6. CASE slot < Stored
  <2>1. Captures(length) /\ slot \in Slots /\ ppmIndex = slot
    BY <1>1, <1>2, <1>4, <1>6 DEF Captures, Slots
  <2>2. ppmIndex' = slot'
    BY <1>1, <1>3, <1>4, <2>1 DEF ppmISR, NextIndex
  <2>3. held' = [Aged(FALSE) EXCEPT ![slot] = "now"]
    BY <1>3, <2>1 DEF ppmISR
  <2>4. \A c \in Slots : held'[c] = IF c = slot THEN "now" ELSE held[c]
    BY <2>1, <2>3, AgedHeld
  <2>5. \A c \in Slots : c < slot' => held'[c] = "now"
    BY <1>1, <2>4 DEF SyncInv, Slots
  <2>6. clean' = 2 => \A c \in Slots : slot' <= c /\ c < Sent => held'[c] = "last"
    BY <1>1, <2>4 DEF SyncInv, Slots
  <2>7. ppmIndex' = IF slot' < Stored THEN slot' ELSE Stored
    BY <1>1, <1>6, <2>2
  <2>. QED  BY <1>1, <1>5, <2>5, <2>6, <2>7 DEF SyncInv
<1>7. CASE ~(slot < Stored)
  <2>1. ~Captures(length) /\ ppmIndex = Stored
    BY <1>2, <1>7 DEF Captures
  <2>2. ppmIndex' = Stored /\ held' = Aged(FALSE)
    BY <1>3, <1>4, <2>1 DEF ppmISR, NextIndex
  <2>3. \A c \in Slots : held'[c] = "now"
    <3>1. \A c \in Slots : c < slot
      BY <1>1, <1>7 DEF Slots
    <3>2. \A c \in Slots : held[c] = "now"
      BY <1>1, <3>1 DEF SyncInv
    <3>. QED  BY <2>2, <3>2, AgedHeld
  <2>4. \A c \in Slots : ~(slot' <= c)
    BY <1>1, <1>7 DEF Slots
  <2>5. ppmIndex' = IF slot' < Stored THEN slot' ELSE Stored
    BY <1>1, <1>7, <2>2
  <2>. QED  BY <1>1, <1>5, <2>3, <2>4, <2>5 DEF SyncInv
<1>. QED  BY <1>6, <1>7

\* An edge that ends the gap: the frame before is over, and accepted if it was whole.
LEMMA FrameEdge ==
  ASSUME TypeOK, SyncInv, slot = Sent, Edge, UNCHANGED <<ms, reader>>
  PROVE  /\ SyncInv'
         /\ clean' = 2 => lastPpmFrameMs' = ms
<1>. SUFFICES ASSUME clean' > 0
              PROVE  SyncInv' /\ (clean' = 2 => lastPpmFrameMs' = ms)
  BY DEF SyncInv
<1>. USE DecoderTypes
<1>1. PICK length \in Lengths :
        /\ ppmISR(unseen + length - part, part = 0 /\ unseen = 0 /\ slot = ppmIndex, slot = Sent, FALSE)
        /\ clean' = IF slot < Sent THEN clean
                    ELSE IF ~Syncs(unseen + length - part) THEN 0 ELSE IF clean = 0 THEN 1 ELSE 2
  BY DEF Edge
<1>2. slot' = 0 /\ unseen' = 0 /\ part' = 0
  BY DEF Edge, NextSlot
<1>. DEFINE width == unseen + length - part
<1>3. Syncs(width) /\ (clean' = 2 => clean > 0) /\ clean' \in {1, 2}
  BY <1>1 DEF TypeOK
<1>4. (slot = Sent) = TRUE
  OBVIOUS
<1>5. ppmISR(width, part = 0 /\ unseen = 0 /\ slot = ppmIndex, TRUE, FALSE)
  BY <1>1, <1>4
<1>. HIDE DEF width
<1>6. ~Captures(width) \/ width \notin Int
  BY <1>3 DEF Captures, Syncs
<1>7. width \in Int
  <2>1. length \in Nat
    BY WireConstants DEF Lengths
  <2>. QED  BY <2>1 DEF width, TypeOK
<1>8. stamped' /\ ppmIndex' = 0 /\ held' = Aged(TRUE)
  BY <1>3, <1>5, <1>6, <1>7 DEF ppmISR, NextIndex
<1>9. \A c \in Slots : ~(c < slot')
  BY <1>2 DEF Slots
<1>10. clean' = 2 => \A c \in Slots : c < Sent => held'[c] = "last"
  BY <1>3, <1>8, AgedHeld DEF SyncInv
<1>11. ppmIndex' = IF slot' < Stored THEN slot' ELSE Stored
  BY <1>2, <1>8
<1>12. SyncInv'
  BY <1>2, <1>8, <1>9, <1>10, <1>11 DEF SyncInv
<1>13. ASSUME clean' = 2 PROVE lastPpmFrameMs' = ms
  <2>1. ppmIndex = IF Sent < Stored THEN Sent ELSE Stored
    BY <1>3, <1>13 DEF SyncInv
  <2>2. ppmIndex >= Required
    BY <2>1, FittingReceiver
  <2>. QED  BY <1>3, <1>5, <2>2 DEF ppmISR, Accepts
<1>. QED  BY <1>12, <1>13

LEMMA SyncStep ==
  ASSUME TypeOK, SyncInv, [Next]_vars
  PROVE  /\ SyncInv'
         /\ slot = Sent /\ slot' = 0 /\ clean' = 2 => lastPpmFrameMs' = ms
<1>1. CASE WireStep /\ UNCHANGED <<ms, reader>>
  <2>1. CASE Edge /\ slot < Sent
    BY <1>1, <2>1, ChannelEdge, DecoderTypes
  <2>2. CASE Edge /\ ~(slot < Sent)
    BY <1>1, <2>2, FrameEdge, DecoderTypes DEF TypeOK
  <2>3. CASE EdgeAtZero \/ LostEdge \/ Glitch \/ Dropout
    <3>1. clean' = 0
      BY <2>3 DEF EdgeAtZero, LostEdge, Glitch, Dropout, Fault
    <3>. QED  BY <3>1 DEF SyncInv
  <2>. QED  BY <1>1, <2>1, <2>2, <2>3 DEF WireStep
<1>2. CASE UNCHANGED <<wire, decoder>>
  <2>1. Sent # 0
    BY WireConstants
  <2>2. UNCHANGED <<slot, part, unseen, clean, stamped, ppmIndex, held>>
    BY <1>2 DEF wire, decoder
  <2>3. SyncInv'
    BY <2>2 DEF SyncInv
  <2>. QED  BY <2>1, <2>2, <2>3
<1>. QED  BY <1>1, <1>2 DEF Next, Tick, vars

LEMMA SyncInit == Init => SyncInv
  BY DEF Init, SyncInv

LEMMA ReceiverInvariance == Spec => [](TypeOK /\ DecoderInv /\ SyncInv)
<1>1. TypeOK /\ DecoderInv /\ SyncInv /\ [Next]_vars => (TypeOK /\ DecoderInv /\ SyncInv)'
  BY StepTypes, SyncStep
<1>. QED  BY <1>1, InitTypes, SyncInit, PTL DEF Spec

\* One frame start in sight is enough, whatever edges were lost or added before.
THEOREM FindsItsPlace == Spec => []SelfSynchronises
<1>1. SyncInv => SelfSynchronises
  BY DEF SyncInv, SelfSynchronises
<1>. QED  BY <1>1, ReceiverInvariance, PTL

\* From the second frame on a sample holds each channel's own width, of this frame or
\* of the one before.
THEOREM SamplesMixTwoFrames == Spec => []TwoFramesAtMost
<1>1. TypeOK /\ SyncInv => TwoFramesAtMost
  <2>. SUFFICES ASSUME TypeOK, SyncInv, clean = 2, NEW c \in 0..Mode
                PROVE  held[c] \in {"now", "last"}
    BY DEF TwoFramesAtMost
  <2>1. c \in Slots /\ c < Sent /\ c \in Nat /\ slot \in Nat
    BY DecoderTypes, FittingReceiver DEF Slots, TypeOK
  <2>. QED  BY <2>1 DEF SyncInv
<1>. QED  BY <1>1, ReceiverInvariance, PTL

\* No whole frame is refused.
THEOREM WholeFramesAreAccepted == Spec => CleanFramesCount
<1>1. TypeOK /\ SyncInv /\ [Next]_vars
        => [slot = Sent /\ slot' = 0 /\ clean' = 2 => lastPpmFrameMs' = ms]_vars
  BY SyncStep
<1>. QED  BY <1>1, ReceiverInvariance, PTL DEF Spec, CleanFramesCount

-----------------------------------------------------------------------------
(* The readers.                                                            *)

\* What the reader knows of the frame accepted last: the one it saw, or a later one.
SeenFacts ==
  /\ seen <= lastPpmFrameMs
  /\ seen <= began
  /\ lastPpmFrameMs = seen \/ began <= lastPpmFrameMs
  /\ seen # 0 => older = {}

\* Where the reader is, and what it has read so far.
PlaceFacts ==
  /\ at = "idle" => verdict = "none" /\ call = "none"
  /\ at \in {"operands", "clocked"} => lastPpmFrameMs # 0
  /\ at = "switch" => verdict = "valid"
  /\ call = "row" => at \in {"stamped", "done"}
  /\ at \in {"sampled", "operands", "clocked", "stamped"} => verdict = "none"

ClockFacts == at = "clocked" => began <= clock

StampFacts ==
  at = "stamped" =>
    /\ stamp <= lastPpmFrameMs
    /\ stamp = seen \/ began <= stamp
    /\ call = "row" => stamp = seen
    /\ call # "row" => stamp # 0

ReaderInv ==
  /\ PlaceFacts /\ ClockFacts /\ StampFacts
  /\ at # "idle" => SeenFacts
  /\ ValidIsRecent /\ RowIsWhole /\ LossIsReal

\* Frames that are accepted, and time that passes, spoil no verdict.
LEMMA ReaderUndisturbed ==
  ASSUME TypeOK, TypeOK', ReaderInv, UNCHANGED reader, ms <= ms',
         lastPpmFrameMs <= lastPpmFrameMs',
         lastPpmFrameMs' = lastPpmFrameMs \/ lastPpmFrameMs' = ms
  PROVE  ReaderInv'
<1>1. /\ ms \in Nat /\ ms' \in Nat /\ lastPpmFrameMs \in Nat /\ lastPpmFrameMs' \in Nat
      /\ began \in Nat /\ seen \in Nat /\ stamp \in Nat /\ clock \in Nat /\ Timeout \in Nat
      /\ began <= ms
  BY DecoderTypes DEF TypeOK
<1>2. UNCHANGED <<at, call, clock, stamp, verdict, began, seen, older>>
  BY DEF reader
<1>3. SeenFacts => SeenFacts'
  BY <1>1, <1>2 DEF SeenFacts
<1>4. verdict # "none" => SeenFacts
  BY DEF ReaderInv, PlaceFacts, ClockFacts, StampFacts
<1>5. ValidIsRecent'
  <2>. SUFFICES ASSUME Approved PROVE ValidIsRecent'
    BY <1>2 DEF ValidIsRecent, Approved
  <2>1. lastPpmFrameMs # 0 /\ began < lastPpmFrameMs + Timeout /\ (lastPpmFrameMs = seen => older = {})
    BY DEF ReaderInv, PlaceFacts, ClockFacts, StampFacts, ValidIsRecent
  <2>2. seen <= lastPpmFrameMs
    BY <1>4 DEF Approved, SeenFacts
  <2>3. lastPpmFrameMs' # 0
    BY <1>1, <2>1
  <2>5. began < lastPpmFrameMs' + Timeout
    <3>1. \A a, b, c, t \in Nat : a < b + t /\ b <= c => a < c + t
      OBVIOUS
    <3>. QED  BY <1>1, <2>1, <3>1
  <2>4. lastPpmFrameMs' = seen => lastPpmFrameMs = seen
    BY <1>1, <2>2
  <2>. QED  BY <1>2, <2>1, <2>3, <2>4, <2>5 DEF ValidIsRecent
<1>6. RowIsWhole'
  BY <1>2 DEF ReaderInv, PlaceFacts, ClockFacts, StampFacts, RowIsWhole
<1>7. LossIsReal'
  <2>1. LossIsReal
    BY DEF ReaderInv, PlaceFacts, ClockFacts, StampFacts
  <2>. QED  BY <1>1, <1>2, <2>1 DEF LossIsReal
<1>8. at \in {"operands", "clocked"} => lastPpmFrameMs' # 0
  BY <1>1 DEF ReaderInv, PlaceFacts, ClockFacts, StampFacts
<1>9. at = "stamped" => stamp <= lastPpmFrameMs'
  BY <1>1 DEF ReaderInv, PlaceFacts, ClockFacts, StampFacts
<1>10. PlaceFacts'
  BY <1>2, <1>8 DEF ReaderInv, PlaceFacts, ClockFacts, StampFacts
<1>11. ClockFacts' /\ StampFacts'
  BY <1>2, <1>9 DEF ReaderInv, PlaceFacts, ClockFacts, StampFacts
<1>. QED  BY <1>2, <1>3, <1>5, <1>6, <1>7, <1>10, <1>11 DEF ReaderInv, PlaceFacts, ClockFacts, StampFacts

\* A sample is taken with what the decoder holds now.
LEMMA Arriving ==
  ASSUME TypeOK, DecoderInv, Arrives, UNCHANGED decoder
  PROVE  SeenFacts'
<1>1. began' = ms /\ seen' = lastPpmFrameMs /\ lastPpmFrameMs' = lastPpmFrameMs
  BY DEF Arrives, decoder
<1>2. lastPpmFrameMs <= ms /\ lastPpmFrameMs \in Nat /\ ms \in Nat
  BY DecoderTypes DEF TypeOK
<1>3. lastPpmFrameMs # 0 => older' = {}
  BY DEF DecoderInv, AcceptedIsWhole, Arrives
<1>4. seen' # 0 => older' = {}
  BY <1>1, <1>3
<1>. QED  BY <1>1, <1>2, <1>4 DEF SeenFacts

LEMMA SampleTaken ==
  ASSUME TypeOK, DecoderInv, ReaderInv, UNCHANGED <<decoder, ms>>,
         TakeSample \/ printModeSwitchFields
  PROVE  ReaderInv'
<1>1. SeenFacts'
  BY Arriving DEF TakeSample, printModeSwitchFields
<1>2. verdict' = "none"
  BY DEF TakeSample, printModeSwitchFields, ReaderInv, PlaceFacts, ClockFacts, StampFacts
<1>3. ValidIsRecent' /\ RowIsWhole' /\ LossIsReal'
  BY <1>2 DEF ValidIsRecent, RowIsWhole, LossIsReal, Approved
<1>4. CASE TakeSample
  BY <1>1, <1>2, <1>3, <1>4 DEF TakeSample, ReaderInv, PlaceFacts, ClockFacts, StampFacts
<1>5. CASE printModeSwitchFields
  <2>1. stamp' = seen' /\ seen' = lastPpmFrameMs' /\ lastPpmFrameMs' \in Nat
    BY <1>5 DEF printModeSwitchFields, Arrives, decoder, TypeOK
  <2>. QED  BY <1>1, <1>2, <1>3, <1>5, <2>1 DEF printModeSwitchFields, ReaderInv, PlaceFacts, ClockFacts, StampFacts
<1>. QED  BY <1>4, <1>5

\* The facts about time a judgement rests on.
LEMMA ReaderNumbers ==
  ASSUME TypeOK
  PROVE  /\ ms \in Nat /\ lastPpmFrameMs \in Nat /\ began \in Nat /\ seen \in Nat
         /\ stamp \in Nat /\ clock \in Nat /\ Timeout \in Nat /\ Word \in Nat
         /\ lastPpmFrameMs <= ms /\ began <= ms /\ clock <= ms /\ stamp <= ms
  BY DecoderTypes DEF TypeOK

\* A judgement over a clock and a frame time that the call has read.
LEMMA Judging ==
  ASSUME TypeOK, ReaderInv, at # "idle", NEW now \in Nat, NEW mark \in Nat,
         began <= now, now <= ms, mark <= lastPpmFrameMs,
         mark = seen \/ began <= mark,
         call = "row" => mark = seen /\ now >= mark,
         call # "row" => mark # 0,
         Judge(now, mark), UNCHANGED <<decoder, ms, call, began, seen, older>>
  PROVE  ValidIsRecent' /\ RowIsWhole' /\ LossIsReal' /\ verdict' \in {"lost", "bad", "valid"}
<1>. USE ReaderNumbers
<1>1. SeenFacts
  BY DEF ReaderInv, PlaceFacts, ClockFacts, StampFacts
<1>2. verdict' \in {"lost", "bad", "valid"}
  BY DEF Judge, Verdict
<1>3. UNCHANGED <<lastPpmFrameMs, began, seen, ms, call>> /\ older' = older
  BY DEF decoder
<1>4. ASSUME verdict' = "valid"
      PROVE  /\ mark # 0 /\ Elapsed(now, mark) < Timeout
             /\ lastPpmFrameMs # 0 /\ began < lastPpmFrameMs + Timeout
             /\ call = "row" => seen # 0 /\ began < seen + Timeout
  <2>1. mark # 0 /\ Elapsed(now, mark) < Timeout
    BY <1>4 DEF Judge, Verdict
  <2>2. lastPpmFrameMs # 0
    BY <2>1
  <2>3. began < lastPpmFrameMs + Timeout
    <3>1. CASE now >= mark
      BY <2>1, <3>1 DEF Elapsed
    <3>2. CASE ~(now >= mark)
      BY <2>1, <3>2 DEF Elapsed
    <3>. QED  BY <3>1, <3>2
  <2>4. call = "row" => seen # 0 /\ began < seen + Timeout
    BY <2>1 DEF Elapsed
  <2>. QED  BY <2>1, <2>2, <2>3, <2>4
<1>5. ASSUME verdict' = "lost"
      PROVE  seen = 0 \/ ms >= seen + Timeout \/ lastPpmFrameMs > began
  <2>1. mark = 0 \/ Elapsed(now, mark) >= Timeout
    <3>1. Elapsed(now, mark) \in Int
      BY DEF Elapsed
    <3>. QED  BY <1>5, <3>1 DEF Judge, Verdict
  <2>2. CASE mark = 0
    BY <2>2
  <2>3. CASE mark # 0 /\ Elapsed(now, mark) >= Timeout
    <3>1. CASE now >= mark
      BY <1>1, <2>3, <3>1 DEF Elapsed, SeenFacts
    <3>2. CASE ~(now >= mark)
      BY <3>2
    <3>. QED  BY <3>1, <3>2
  <2>. QED  BY <2>1, <2>2, <2>3
<1>6. ValidIsRecent'
  <2>. SUFFICES ASSUME Approved' PROVE ValidIsRecent'
    BY DEF ValidIsRecent
  <2>1. verdict' = "valid"
    BY <1>2 DEF Approved
  <2>2. lastPpmFrameMs # 0 /\ began < lastPpmFrameMs + Timeout
    BY <1>4, <2>1
  <2>3. lastPpmFrameMs = seen => older = {}
    <3>1. lastPpmFrameMs = seen => seen # 0
      BY <2>2
    <3>. QED  BY <1>1, <3>1 DEF SeenFacts
  <2>4. lastPpmFrameMs' = seen' => older' = {}
    BY <1>3, <2>3
  <2>. QED  BY <1>3, <2>2, <2>4 DEF ValidIsRecent
<1>7. RowIsWhole'
  <2>. SUFFICES ASSUME call' = "row", verdict' = "valid" PROVE RowIsWhole'
    BY DEF RowIsWhole
  <2>1. seen # 0 /\ began < seen + Timeout
    BY <1>3, <1>4
  <2>2. older' = {}
    BY <1>1, <1>3, <2>1 DEF SeenFacts
  <2>. QED  BY <1>3, <2>1, <2>2 DEF RowIsWhole
<1>8. LossIsReal'
  BY <1>3, <1>5 DEF LossIsReal
<1>. QED  BY <1>2, <1>6, <1>7, <1>8

LEMMA ReaderSteps ==
  ASSUME TypeOK, TypeOK', DecoderInv, ReaderInv, ReaderStep, UNCHANGED <<wire, decoder, ms>>
  PROVE  ReaderInv'
<1>. USE ReaderNumbers
<1>1. CASE TakeSample \/ printModeSwitchFields
  BY <1>1, SampleTaken
<1>2. CASE FirstOperand
  <2>1. at = "sampled" /\ SeenFacts /\ call # "row"
    BY <1>2 DEF FirstOperand, ReaderInv, PlaceFacts, ClockFacts, StampFacts
  <2>2. UNCHANGED <<lastPpmFrameMs, began, seen, call, ms>> /\ older' = older
    BY <1>2 DEF FirstOperand, decoder
  <2>3. SeenFacts'
    BY <2>1, <2>2 DEF SeenFacts
  <2>4. CASE lastPpmFrameMs = 0
    <3>1. verdict' = "lost" /\ at' = "done"
      BY <1>2, <2>4 DEF FirstOperand
    <3>2. seen = 0
      BY <2>1, <2>4 DEF SeenFacts
    <3>3. ValidIsRecent' /\ RowIsWhole' /\ LossIsReal'
      BY <2>2, <3>1, <3>2 DEF ValidIsRecent, RowIsWhole, LossIsReal, Approved
    <3>. QED  BY <2>1, <2>2, <2>3, <3>1, <3>3 DEF ReaderInv, PlaceFacts, ClockFacts, StampFacts
  <2>5. CASE lastPpmFrameMs # 0
    <3>1. verdict' = "none" /\ at' = "operands"
      BY <1>2, <2>5 DEF FirstOperand, ReaderInv, PlaceFacts, ClockFacts, StampFacts
    <3>2. ValidIsRecent' /\ RowIsWhole' /\ LossIsReal'
      BY <3>1 DEF ValidIsRecent, RowIsWhole, LossIsReal, Approved
    <3>. QED  BY <2>1, <2>2, <2>3, <2>5, <3>1, <3>2 DEF ReaderInv, PlaceFacts, ClockFacts, StampFacts
  <2>. QED  BY <2>4, <2>5
<1>3. CASE ReadClock \/ ReadStamp
  <2>1. at \in {"operands", "stamped", "clocked"} /\ SeenFacts
    BY <1>3 DEF ReadClock, ReadStamp, ReaderInv, PlaceFacts, ClockFacts, StampFacts
  <2>2. UNCHANGED <<lastPpmFrameMs, began, seen, call, ms>> /\ older' = older
    BY <1>3 DEF ReadClock, ReadStamp, decoder
  <2>3. SeenFacts'
    BY <2>1, <2>2 DEF SeenFacts
  <2>4. CASE at = "operands"
    <3>1. call # "row" /\ lastPpmFrameMs # 0 /\ verdict' = "none"
      BY <1>3, <2>4 DEF ReadClock, ReadStamp, ReaderInv, PlaceFacts, ClockFacts, StampFacts
    <3>2. ValidIsRecent' /\ RowIsWhole' /\ LossIsReal'
      BY <3>1 DEF ValidIsRecent, RowIsWhole, LossIsReal, Approved
    <3>3. \/ at' = "clocked" /\ clock' = ms
          \/ at' = "stamped" /\ stamp' = lastPpmFrameMs
      BY <1>3, <2>4 DEF ReadClock, ReadStamp
    <3>4. at' = "clocked" => began' <= clock'
      BY <2>2, <3>3
    <3>5. at' = "stamped" =>
            /\ stamp' <= lastPpmFrameMs'
            /\ stamp' = seen' \/ began' <= stamp'
            /\ stamp' # 0
      BY <2>1, <2>2, <3>1, <3>3 DEF SeenFacts
    <3>6. at' \in {"clocked", "stamped"}
      BY <3>3
    <3>7. ClockFacts'
      BY <3>4 DEF ClockFacts
    <3>9. StampFacts'
      <4>1. call' # "row"
        BY <2>2, <3>1
      <4>. QED  BY <3>5, <4>1 DEF StampFacts
    <3>8. PlaceFacts'
      BY <2>2, <3>1, <3>6 DEF PlaceFacts
    <3>. QED  BY <2>3, <3>2, <3>7, <3>8, <3>9 DEF ReaderInv, PlaceFacts, ClockFacts, StampFacts
  <2>5. CASE at \in {"stamped", "clocked"}
    <3>1. PICK now \in Nat, mark \in Nat :
            /\ began <= now /\ now <= ms /\ mark <= lastPpmFrameMs
            /\ mark = seen \/ began <= mark
            /\ call = "row" => mark = seen /\ now >= mark
            /\ call # "row" => mark # 0
            /\ Judge(now, mark)
      <4>1. CASE at = "stamped"
        <5>1. Judge(ms, stamp)
          BY <1>3, <4>1 DEF ReadClock, ReadStamp
        <5>2. /\ stamp <= lastPpmFrameMs /\ (stamp = seen \/ began <= stamp)
              /\ call = "row" => stamp = seen
              /\ call # "row" => stamp # 0
          BY <4>1 DEF ReaderInv, PlaceFacts, ClockFacts, StampFacts
        <5>. QED  BY <5>1, <5>2
      <4>2. CASE at = "clocked"
        <5>1. Judge(clock, lastPpmFrameMs)
          BY <1>3, <4>2 DEF ReadClock, ReadStamp
        <5>2. began <= clock /\ lastPpmFrameMs # 0 /\ call # "row"
          BY <4>2 DEF ReaderInv, PlaceFacts, ClockFacts, StampFacts
        <5>. QED  BY <2>1, <5>1, <5>2 DEF SeenFacts
      <4>. QED  BY <2>5, <4>1, <4>2
    <3>2. /\ ValidIsRecent' /\ RowIsWhole' /\ LossIsReal'
          /\ verdict' \in {"lost", "bad", "valid"}
      BY <2>1, <2>2, <3>1, Judging
    <3>3. at' = "done" \/ (at' = "switch" /\ call = "auto" /\ verdict' = "valid")
      BY <3>1 DEF Judge
    <3>4. at' = "switch" => verdict' = "valid"
      BY <3>3
    <3>5. at' # "idle" /\ at' \notin {"sampled", "operands", "clocked", "stamped"}
      BY <3>3
    <3>6. call' = "row" => at' = "done"
      BY <2>2, <3>3
    <3>. QED  BY <2>3, <3>2, <3>4, <3>5, <3>6 DEF ReaderInv, PlaceFacts, ClockFacts, StampFacts
  <2>. QED  BY <2>1, <2>4, <2>5
<1>4. CASE ReadSwitch
  <2>1. at = "switch" /\ SeenFacts /\ verdict = "valid" /\ call # "row"
    BY <1>4 DEF ReadSwitch, ReaderInv, PlaceFacts, ClockFacts, StampFacts
  <2>2. UNCHANGED <<lastPpmFrameMs, began, seen, call, ms>> /\ older' = older
    BY <1>4 DEF ReadSwitch, decoder
  <2>3. verdict' \in {"granted", "refused"} /\ at' = "done"
    BY <1>4 DEF ReadSwitch
  <2>4. SeenFacts'
    BY <2>1, <2>2 DEF SeenFacts
  <2>5. RowIsWhole' /\ LossIsReal'
    BY <2>3 DEF RowIsWhole, LossIsReal
  <2>6. ValidIsRecent'
    <3>1. lastPpmFrameMs # 0 /\ began < lastPpmFrameMs + Timeout /\ (lastPpmFrameMs = seen => older = {})
      BY <2>1 DEF ReaderInv, PlaceFacts, ClockFacts, StampFacts, ValidIsRecent, Approved
    <3>. QED  BY <2>2, <3>1 DEF ValidIsRecent
  <2>. QED  BY <2>1, <2>2, <2>3, <2>4, <2>5, <2>6 DEF ReaderInv, PlaceFacts, ClockFacts, StampFacts
<1>5. CASE Finish
  BY <1>5 DEF Finish, ReaderInv, PlaceFacts, ClockFacts, StampFacts, ValidIsRecent, RowIsWhole, LossIsReal, Approved
<1>. QED  BY <1>1, <1>2, <1>3, <1>4, <1>5 DEF ReaderStep

LEMMA ReaderPreserved ==
  ASSUME TypeOK, DecoderInv, ReaderInv, [Next]_vars
  PROVE  ReaderInv'
<1>1. TypeOK'
  BY StepTypes
<1>2. ms \in Nat /\ lastPpmFrameMs \in Nat
  BY ReaderNumbers
<1>3. CASE WireStep /\ UNCHANGED <<ms, reader>>
  <2>1. lastPpmFrameMs <= lastPpmFrameMs'
    BY <1>3, WireTypes
  <2>2. lastPpmFrameMs' = lastPpmFrameMs \/ lastPpmFrameMs' = ms
    BY <1>3 DEF WireStep, Edge, EdgeAtZero, LostEdge, Glitch, Dropout, ppmISR, decoder
  <2>. QED  BY <1>1, <1>2, <1>3, <2>1, <2>2, ReaderUndisturbed
<1>4. CASE Tick
  <2>1. UNCHANGED reader /\ lastPpmFrameMs' = lastPpmFrameMs /\ ms' = ms + 1
    BY <1>4 DEF Tick, decoder
  <2>. QED  BY <1>1, <1>2, <2>1, ReaderUndisturbed
<1>5. CASE ReaderStep /\ UNCHANGED <<wire, decoder, ms>>
  BY <1>1, <1>5, ReaderSteps
<1>6. CASE UNCHANGED vars
  <2>1. UNCHANGED reader /\ lastPpmFrameMs' = lastPpmFrameMs /\ ms' = ms
    BY <1>6 DEF vars, decoder
  <2>. QED  BY <1>1, <1>2, <2>1, ReaderUndisturbed
<1>. QED  BY <1>3, <1>4, <1>5, <1>6 DEF Next

LEMMA ReaderInit == Init => ReaderInv
  BY DEF Init, ReaderInv, PlaceFacts, ClockFacts, StampFacts, ValidIsRecent, RowIsWhole,
         LossIsReal, Approved

LEMMA ReaderInvariance == Spec => [](TypeOK /\ DecoderInv /\ ReaderInv)
<1>1. TypeOK /\ DecoderInv /\ ReaderInv /\ [Next]_vars => (TypeOK /\ DecoderInv /\ ReaderInv)'
  BY StepTypes, ReaderPreserved
<1>. QED  BY <1>1, InitTypes, ReaderInit, PTL DEF Spec

\* What passes for valid is as recent as the timeout says, wherever the interrupt fell
\* between the sample, the clock and the frame time.
THEOREM ValidSamplesAreRecent == Spec => []ValidIsRecent
<1>1. ReaderInv => ValidIsRecent
  BY DEF ReaderInv
<1>. QED  BY <1>1, ReaderInvariance, PTL

\* Copying switch and frame time together dates the switch.
THEOREM RowsAreWhole == Spec => []RowIsWhole
<1>1. ReaderInv => RowIsWhole
  BY DEF ReaderInv
<1>. QED  BY <1>1, ReaderInvariance, PTL

\* Besides a loss only a frame accepted in the middle of the call makes a reader say so.
THEOREM LossesAreReal == Spec => []LossIsReal
<1>1. ReaderInv => LossIsReal
  BY DEF ReaderInv
<1>. QED  BY <1>1, ReaderInvariance, PTL
=============================================================================
