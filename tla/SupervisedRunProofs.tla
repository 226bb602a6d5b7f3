------------------------- MODULE SupervisedRunProofs -------------------------
(***************************************************************************)
(* Proofs about SupervisedRun, for every plan, every set of arguments,     *)
(* every tolerance, budget and number of bursts, and rovers that drive and *)
(* turn as far as they like: first where motion is out, then what a turn   *)
(* counts, then where the run takes the rover, how far beyond the end of a *)
(* lane and how far from its heading.                                      *)
(***************************************************************************)
EXTENDS SupervisedRun, WellFoundedInduction, TLAPS

\* Motion is out only while a call drives, or behind a failed port.
RestFacts ==
  driving => pc \in {"drive", "burst"} \/ (pc = "done" /\ abort = "SERIAL_DISCONNECT")

\* What a chunk or a turn has shown stays until its row is recorded; a gate that lets a
\* chunk pass has just read that the run may go on.
CallFacts ==
  /\ called = "pilot" => pc = "done" \/ (pc \in {"settle", "record"} /\ manual)
  /\ called = "fault" =>
       pc = "done" \/ (pc \in {"settle", "turn", "burst", "measure", "record"} /\ fault # "NONE")
  /\ pc \in {"neutral", "go", "drive"} => called \in {"no", "manual"}

\* What has begun since counts from the row that called, and within a turn no further
\* than the turn itself.
ExcessFacts ==
  /\ called = "no" \/ pc \in {"neutral", "go"} => excess = NoMotion
  /\ pc \in {"drive", "settle"} => excess.bursts = 0
  /\ pc \in {"turn", "burst", "measure"} => excess.bursts <= turn.bursts
  /\ pc = "turn" /\ called = "manual" => excess.bursts = 0

-----------------------------------------------------------------------------
(* Arithmetic of headings, and the plan.                                   *)

LEMMA TurnTypes == \A n \in Int : n % Full \in Headings /\ Wrap(n) \in Errors
  BY AngleConstants DEF Headings, Errors, Wrap

LEMMA HeadingsAreInts ==
  /\ Headings \subseteq Int /\ Errors \subseteq Int
  /\ 0 \in Headings /\ 0 \in Errors
  /\ None \notin Int
  BY AngleConstants DEF Headings, Errors

LEMMA SegmentTypes ==
  ASSUME NEW i \in DOMAIN Plan
  PROVE  /\ Plan[i].heading \in Headings /\ Plan[i].angle \in Errors
         /\ Plan[i].length \in Nat /\ Plan[i].way \in {1, -1}
<1>. DEFINE S == [kind : {"lane", "turn"}, way : {1, -1}, length : Nat,
                  heading : Headings, angle : Errors]
<1>1. Plan \in Seq(S)
  BY RunConstants
<1>2. Plan[i] \in S
  <2>. HIDE DEF S
  <2>. QED  BY <1>1
<1>. QED  BY <1>2

\* The naturals are well ordered.
LEMMA LeastNat ==
  ASSUME NEW S, S \subseteq Nat, S # {}
  PROVE  \E i \in S : \A j \in S : i <= j
<1>. DEFINE R == OpToRel(<, Nat)
<1>1. IsWellFoundedOn(R, Nat)
  BY NatLessThanWellFounded
<1>2. \E x \in S : \A y \in S : ~ (<<y, x>> \in R)
  <2>. HIDE DEF R
  <2>. QED  BY <1>1, WFMin
<1>3. \A x, y \in Nat : x < y => <<x, y>> \in R
  BY DEF OpToRel
<1>. HIDE DEF R
<1>4. PICK x \in S : \A y \in S : ~ (<<y, x>> \in R)
  BY <1>2
<1>5. ASSUME NEW j \in S  PROVE ~ (j < x)
  BY <1>3, <1>4, <1>5
<1>6. ASSUME NEW j \in S  PROVE x <= j
  BY <1>5, <1>6
<1>. QED  BY <1>6

LEMMA FirstHeading == first_lane_heading \in Headings
<1>1. CASE Plan = <<>>
  BY <1>1, HeadingsAreInts DEF first_lane_heading
<1>2. CASE Plan # <<>> /\ Lanes = {}
  <2>1. 1 \in DOMAIN Plan
    BY <1>2, RunConstants
  <2>. QED  BY <1>2, <2>1, SegmentTypes DEF first_lane_heading
<1>3. CASE Plan # <<>> /\ Lanes # {}
  <2>1. Lanes \subseteq Nat /\ Lanes \subseteq DOMAIN Plan
    BY RunConstants DEF Lanes
  <2>2. \E i \in Lanes : \A j \in Lanes : i <= j
    BY <1>3, <2>1, LeastNat
  <2>. DEFINE first == CHOOSE i \in Lanes : \A j \in Lanes : i <= j
  <2>3. first \in DOMAIN Plan
    BY <2>1, <2>2
  <2>4. first_lane_heading = Plan[first].heading
    BY <1>3 DEF first_lane_heading
  <2>. HIDE DEF first
  <2>. QED  BY <2>3, <2>4, SegmentTypes
<1>. QED  BY <1>1, <1>2, <1>3

-----------------------------------------------------------------------------
(* What the rows and the poses are.                                        *)

LEMMA SightTypes ==
  ASSUME TypeOK
  PROVE  Sights \subseteq Beats
<1>1. yawNow \in Headings
  BY TurnTypes, RunConstants, HeadingsAreInts DEF TypeOK, yawNow
<1>. QED  BY <1>1 DEF TypeOK, Sights, Beats, Fixes, Modes, Poses

LEMMA SegmentFacts ==
  ASSUME TypeOK, pc \notin {"segment", "done"}
  PROVE  /\ Segment.heading \in Headings /\ Segment.angle \in Errors
         /\ Segment.length \in Nat /\ Segment.way \in {1, -1}
  BY SegmentTypes DEF TypeOK, Segment

LEMMA ReckonTypes ==
  ASSUME TypeOK, pc \notin {"segment", "done"}, NEW at \in Poses
  PROVE  DeadReckon(Segment, at) \in Poses
<1>. DEFINE along == AlongOf(Segment, at)
<1>1. along \in Int
  BY SegmentFacts DEF AlongOf, Clamp, Most, Least, Poses
<1>2. Least(Segment.length, along + 1) \in Int
  BY <1>1, SegmentFacts DEF Least
<1>3. Segment.way * CrossTrack(Segment, at) \in Int
  BY SegmentFacts DEF CrossTrack, Poses
<1>4. PointAt(Segment, Least(Segment.length, along + 1),
              Segment.way * CrossTrack(Segment, at)) \in Poses
  BY <1>2, <1>3, SegmentFacts DEF PointAt, Poses
<1>. QED  BY <1>4 DEF DeadReckon

LEMMA PoseTypes ==
  ASSUME TypeOK, pc \notin {"segment", "done"}, NEW row \in Beats
  PROVE  PoseAfter(opt, Segment, pose, row) \in Poses /\ BelievedPose(row) \in Poses
<1>1. DeadReckon(Segment, pose) \in Poses
  BY ReckonTypes DEF TypeOK
<1>2. PoseAfter(opt, Segment, pose, row) \in Poses
  BY <1>1 DEF PoseAfter, Beats, TypeOK
<1>. QED  BY <1>1, <1>2 DEF BelievedPose

LEMMA OptionTypes ==
  ASSUME TypeOK
  PROVE  /\ opt.auto \in BOOLEAN /\ opt.startYaw \in Headings \cup {None}
         /\ opt.loop \in {"scg", "continuous", "pulse"}
  BY RunConstants DEF TypeOK

LEMMA HeardTypes ==
  ASSUME TypeOK, NEW row \in Beats, NEW lost \in BOOLEAN, Heard(row, lost)
  PROVE  called' \in Calls /\ excess' \in [chunks : Nat, bursts : Nat]
  BY DEF Heard, CalledBy, Calls, NoMotion, TypeOK

LEMMA CountTypes ==
  ASSUME TypeOK
  PROVE  /\ [excess EXCEPT !.chunks = @ + 1] \in [chunks : Nat, bursts : Nat]
         /\ [excess EXCEPT !.bursts = @ + 1] \in [chunks : Nat, bursts : Nat]
  BY DEF TypeOK

LEMMA Reasons ==
  \A rows \in DriveRows : BlockReason(rows) \in Faults
  BY DEF DriveRows, BlockReason, live_drive_block_reason, pulse_block_reason, Faults

LEMMA NextChunkTypes ==
  ASSUME TypeOK, NextChunk, pc \notin {"segment", "done"}
  PROVE  /\ pc' \in {"check", "segment"} /\ chunk' \in Nat /\ seg' \in Nat \ {0}
         /\ pc' = "check" => seg' \in DOMAIN Plan
  BY DEF TypeOK, NextChunk

LEMMA TurnsTyped ==
  ASSUME TypeOK, NEW asked \in Errors, TurnsBy(asked)
  PROVE  heading' \in Headings
<1>1. Turns(asked) \subseteq Int
  BY RunConstants, HeadingsAreInts DEF Turns, Abs
<1>2. PICK n \in Turns(asked) : heading' = (heading + (IF asked < 0 THEN -n ELSE n)) % Full
  BY DEF TurnsBy
<1>. QED  BY <1>1, <1>2, TurnTypes, HeadingsAreInts DEF TypeOK

LEMMA MovesTyped ==
  ASSUME TypeOK, pc = "drive", Moves
  PROVE  heading' \in Headings /\ place' \in Int
<1>1. CASE Turning
  BY <1>1, SegmentFacts, TurnsTyped DEF Moves, TypeOK
<1>2. CASE ~Turning
  <2>1. PICK n \in Advances : place' = place + Segment.way * n
    BY <1>2 DEF Moves
  <2>2. PICK d \in Drifts : heading' = (heading + d) % Full
    BY <1>2 DEF Moves
  <2>3. n \in Int /\ d \in Int
    BY RunConstants DEF Advances, Drifts
  <2>. QED  BY <2>1, <2>2, <2>3, SegmentFacts, TurnTypes, HeadingsAreInts DEF TypeOK
<1>. QED  BY <1>1, <1>2

-----------------------------------------------------------------------------
(* Type correctness.                                                       *)

LEMMA TypeInit == Init => TypeOK
<1>. SUFFICES ASSUME Init  PROVE TypeOK
  OBVIOUS
<1>1. opt.startYaw \in Headings \cup {None}
  BY RunConstants DEF Init
<1>2. frame \in Errors \cup {None}
  <2>1. frame = None \/ (frame = Wrap(first_lane_heading - opt.startYaw) /\ opt.startYaw \in Headings)
    BY <1>1 DEF Init
  <2>2. first_lane_heading \in Int /\ \A n \in Headings : n \in Int
    BY FirstHeading, HeadingsAreInts
  <2>. QED  BY <2>1, <2>2, TurnTypes
<1>. QED
  BY <1>2, FirstHeading, HeadingsAreInts
     DEF Init, TypeOK, Controls, NoBeat, Beats, Poses, Fixes, Modes, NoTurn, Faults

LEMMA TypeBeforeChunk ==
  ASSUME TypeOK,
         StartSegment \/ HeartbeatMissing \/ Preflight \/ NeutralReached \/ NeutralMissing
  PROVE  TypeOK'
<1>1. CASE StartSegment
  <2>1. turn' = NoTurn /\ beat' = NoBeat
    BY <1>1 DEF StartSegment
  <2>2. beat' \in Beats
    BY <2>1, HeadingsAreInts DEF NoBeat, Beats, Poses, Fixes, Modes
  <2>3. turn' \in [start : Headings, asked : Errors, left : Errors, bursts : 0 .. MaxBursts,
                   ok : BOOLEAN]
    BY <2>1, HeadingsAreInts, RunConstants DEF NoTurn
  <2>4. capture' \in BOOLEAN
    BY <1>1 DEF StartSegment, TypeOK
  <2>5. pc' \notin {"segment", "done"} => seg' \in DOMAIN Plan
    BY <1>1, RunConstants DEF StartSegment, TypeOK
  <2>6. ref' \in Headings \cup {None} /\ chunk' \in Nat /\ pc' \in Controls
    BY <1>1 DEF StartSegment, TypeOK, Controls
  <2>. QED  BY <1>1, <2>2, <2>3, <2>4, <2>5, <2>6 DEF StartSegment, TypeOK, Faults, env
<1>2. CASE HeartbeatMissing
  BY <1>2 DEF HeartbeatMissing, Abort, TypeOK, Controls, plans, env
<1>3. CASE Preflight
  <2>1. PICK row \in Sights, rc \in Receivers :
          LET gate == Gate(rc, row.mode, opt.auto, Waits) IN
          /\ Heard(row, ~rc.rcOk /\ ~rc.ignored)
          /\ \/ /\ pc' \in {"go", "neutral"} /\ beat' = row
                /\ UNCHANGED <<plans, abort, turn, fault, manual, ended>>
             \/ Abort(gate)
    BY <1>3 DEF Preflight
  <2>2. row \in Beats
    BY SightTypes
  <2>3. UNCHANGED <<env, driving, basis>> /\ pc = "check"
    BY <1>3 DEF Preflight
  <2>4. called' \in Calls /\ excess' \in [chunks : Nat, bursts : Nat]
    <3>1. (~rc.rcOk /\ ~rc.ignored) \in BOOLEAN
      OBVIOUS
    <3>. QED  BY <2>1, <2>2, <3>1, HeardTypes
  <2>. QED  BY <2>1, <2>2, <2>3, <2>4 DEF Abort, TypeOK, Controls, plans, env
<1>4. CASE NeutralReached
  <2>1. PICK row \in Sights : Heard(row, FALSE) /\ beat' = row
    BY <1>4 DEF NeutralReached
  <2>2. row \in Beats
    BY SightTypes
  <2>3. called' \in Calls /\ excess' \in [chunks : Nat, bursts : Nat]
    BY <2>1, <2>2, HeardTypes
  <2>. QED  BY <1>4, <2>1, <2>2, <2>3 DEF NeutralReached, TypeOK, Controls, plans, env
<1>5. CASE NeutralMissing
  BY <1>5 DEF NeutralMissing, Abort, TypeOK, Controls, plans, env
<1>. QED  BY <1>1, <1>2, <1>3, <1>4, <1>5

LEMMA TypeGo ==
  ASSUME TypeOK, Go \/ StartLiveTurn
  PROVE  TypeOK'
<1>1. CASE StartLiveTurn
  <2>1. beat.yaw \in Headings /\ Segment.angle \in Errors
    BY <1>1, SegmentFacts DEF StartLiveTurn, LiveTurn, TypeOK, Beats
  <2>. QED  BY <1>1, <2>1, RunConstants DEF StartLiveTurn, TypeOK, Controls, plans, env
<1>2. CASE Go
  <2>1. cache' \in Poses
    BY <1>2 DEF Go, Cached, TypeOK, Beats
  <2>2. frame' \in Errors \cup {None}
    BY <1>2, FirstHeading, TurnTypes, HeadingsAreInts
       DEF Go, maybe_capture_mission_frame, TypeOK, Beats
  <2>3. ref' \in Headings \cup {None} /\ pending' \in BOOLEAN
    <3>1. CASE TakeReference
      BY <3>1, OptionTypes DEF TakeReference, reference_yaw_for_segment, TypeOK, Beats
    <3>. QED  BY <1>2, <3>1 DEF Go, TypeOK
  <2>4. pose' \in Poses
    BY <1>2 DEF Go, TypeOK, Beats
  <2>5. /\ pc' \in Controls /\ chunk' \in Nat /\ seg' \in Nat \ {0}
        /\ pc' \notin {"segment", "done"} => seg' \in DOMAIN Plan
        /\ driving' \in BOOLEAN /\ excess' \in [chunks : Nat, bursts : Nat]
    <3>1. CASE NextChunk /\ UNCHANGED <<abort, driving, excess>>
      <4>1. pc \notin {"segment", "done"}
        BY <1>2 DEF Go
      <4>. QED  BY <3>1, <4>1, NextChunkTypes DEF TypeOK, Controls
    <3>2. CASE Drive
      <4>1. excess' \in [chunks : Nat, bursts : Nat]
        BY <3>2, CountTypes DEF Drive, TypeOK
      <4>. QED  BY <1>2, <3>2, <4>1 DEF Go, Drive, TypeOK, Controls
    <3>3. CASE pc' = "done" /\ UNCHANGED <<seg, chunk, driving, excess>>
      BY <3>3 DEF TypeOK, Controls
    <3>. QED  BY <1>2, <3>1, <3>2, <3>3 DEF Go
  <2>6. UNCHANGED <<opt, capture, begun, beat, turn, fault, manual, ended, env, called, basis>>
    BY <1>2 DEF Go
  <2>. QED  BY <2>1, <2>2, <2>3, <2>4, <2>5, <2>6 DEF TypeOK, env
<1>. QED  BY <1>1, <1>2

LEMMA SettledTypes ==
  ASSUME TypeOK, NEW row \in Sights \cup {beat}, SettledRow(row)
  PROVE  /\ row \in Beats /\ called' \in Calls /\ excess' \in [chunks : Nat, bursts : Nat]
         /\ basis' \subseteq {"stale", "reckoned"}
<1>1. row \in Beats
  BY SightTypes DEF TypeOK
<1>2. called' \in Calls /\ excess' \in [chunks : Nat, bursts : Nat]
  <2>1. CASE \E lost \in BOOLEAN : Heard(row, lost)
    BY <1>1, <2>1, HeardTypes
  <2>2. CASE UNCHANGED <<called, excess>>
    BY <2>2 DEF TypeOK
  <2>. QED  BY <2>1, <2>2 DEF SettledRow
<1>3. basis' \subseteq {"stale", "reckoned"}
  BY DEF SettledRow, Reckoned
<1>. QED  BY <1>1, <1>2, <1>3

LEMMA ErrorTypes ==
  ASSUME TypeOK, pc \notin {"segment", "done"}, NEW yaw \in Headings
  PROVE  HeadingError(yaw) \in Errors
<1>1. \A n \in Int : Wrap(n) \in Int
  BY TurnTypes, HeadingsAreInts
<1>2. CASE Segment.heading \in Int
  <2>. DEFINE target == Segment.heading
              current == IF opt.mission /\ yaw # None /\ frame # None THEN Wrap(yaw + frame)
                         ELSE current_heading_deg(target, yaw, ref)
  <2>0. yaw \in Int /\ target \in Int /\ (ref = None \/ ref \in Int)
    BY <1>2, HeadingsAreInts DEF TypeOK
  <2>1. current_heading_deg(target, yaw, ref) \in Int
    <3>1. current_heading_deg(target, yaw, ref) \in {target, Wrap(target + Wrap(yaw - ref))}
      BY DEF current_heading_deg
    <3>2. ref = None => current_heading_deg(target, yaw, ref) = target
      BY DEF current_heading_deg
    <3>. HIDE DEF target
    <3>3. ASSUME ref # None  PROVE Wrap(target + Wrap(yaw - ref)) \in Int
      <4>1. yaw - ref \in Int
        BY <2>0, <3>3
      <4>2. target + Wrap(yaw - ref) \in Int
        BY <1>1, <2>0, <4>1
      <4>. QED  BY <1>1, <4>2
    <3>. QED  BY <2>0, <3>1, <3>2, <3>3
  <2>2. current \in Int
    BY <1>1, <2>1, HeadingsAreInts DEF TypeOK
  <2>3. HeadingError(yaw) = Wrap(target - current)
    BY DEF HeadingError
  <2>. HIDE DEF target, current
  <2>. QED  BY <1>2, <2>2, <2>3, TurnTypes DEF target
<1>. QED  BY <1>2, SegmentFacts, HeadingsAreInts

LEMMA TypeSettle ==
  ASSUME TypeOK, ChunkReturns \/ SettleLane \/ SettleCountedTurn \/ SettleClosedLoop
  PROVE  TypeOK'
<1>1. CASE ChunkReturns
  <2>1. heading' \in Headings /\ place' \in Int
    BY <1>1, MovesTyped DEF ChunkReturns
  <2>2. fault' \in Faults
    BY <1>1, Reasons DEF ChunkReturns
  <2>3. manual' \in BOOLEAN
    BY <1>1, OptionTypes DEF ChunkReturns
  <2>4. called' \in Calls /\ excess' \in [chunks : Nat, bursts : Nat]
    BY <1>1 DEF ChunkReturns, CalledBy, Calls, NoMotion, TypeOK
  <2>5. pose' \in Poses
    BY <1>1, <2>1 DEF ChunkReturns, TypeOK, Poses
  <2>. QED
    BY <1>1, <2>1, <2>2, <2>3, <2>4, <2>5 DEF ChunkReturns, TypeOK, Controls
<1>2. CASE SettleLane
  <2>. DEFINE Turn(row) == [start |-> row.yaw, asked |-> HeadingError(row.yaw),
                            left |-> HeadingError(row.yaw), bursts |-> 0, ok |-> FALSE]
  <2>1. PICK row \in Sights \cup {beat} :
          /\ SettledRow(row)
          /\ pose' = BelievedPose(row)
          /\ ended' = (AlongOf(Segment, pose') = Segment.length)
          /\ \/ pc' \in {"done", "record"} /\ UNCHANGED turn
             \/ pc' = "turn" /\ row.yaw # None /\ turn' = Turn(row)
    BY <1>2 DEF SettleLane
  <2>2. /\ row \in Beats /\ called' \in Calls /\ excess' \in [chunks : Nat, bursts : Nat]
        /\ basis' \subseteq {"stale", "reckoned"}
    BY <2>1, SettledTypes
  <2>3. pc \notin {"segment", "done"}
    BY <1>2 DEF SettleLane
  <2>4. pose' \in Poses
    BY <2>1, <2>2, <2>3, PoseTypes
  <2>5. turn' \in [start : Headings, asked : Errors, left : Errors, bursts : 0 .. MaxBursts,
                   ok : BOOLEAN]
    <3>1. CASE UNCHANGED turn
      BY <3>1 DEF TypeOK
    <3>2. CASE row.yaw # None /\ turn' = Turn(row)
      <4>1. row.yaw \in Headings
        BY <2>2, <3>2 DEF Beats
      <4>2. HeadingError(row.yaw) \in Errors
        BY <2>3, <4>1, ErrorTypes
      <4>. QED  BY <3>2, <4>1, <4>2, RunConstants
    <3>. QED  BY <2>1, <3>1, <3>2
  <2>6. ended' \in BOOLEAN
    BY <2>1
  <2>7. /\ pc' \in Controls /\ seg' \in DOMAIN Plan
        /\ UNCHANGED <<opt, seg, chunk, frame, capture, ref, pending, cache, begun, beat, fault,
                       manual, env, driving>>
    BY <1>2, <2>1, <2>3 DEF SettleLane, TypeOK, Controls
  <2>. QED  BY <2>2, <2>4, <2>5, <2>6, <2>7 DEF TypeOK, env
<1>3. CASE SettleCountedTurn
  <2>1. PICK row \in Sights \cup {beat} : SettledRow(row)
    BY <1>3 DEF SettleCountedTurn
  <2>2. /\ called' \in Calls /\ excess' \in [chunks : Nat, bursts : Nat]
        /\ basis' \subseteq {"stale", "reckoned"}
    BY <2>1, SettledTypes
  <2>. QED  BY <1>3, <2>2 DEF SettleCountedTurn, TypeOK, Controls, plans, env
<1>4. CASE SettleClosedLoop
  <2>1. PICK row \in Sights \cup {beat} :
          /\ SettledRow(row)
          /\ cache' = Cached(row)
          /\ pose' \in {pose, PoseAfter(opt, Segment, pose, row)}
          /\ ended' \in {TurnEnds(row.yaw),
                         AlongOf(Segment, IF opt.loop = "continuous" THEN pose ELSE cache)
                           = Segment.length}
    BY <1>4 DEF SettleClosedLoop
  <2>2. /\ row \in Beats /\ called' \in Calls /\ excess' \in [chunks : Nat, bursts : Nat]
        /\ basis' \subseteq {"stale", "reckoned"}
    BY <2>1, SettledTypes
  <2>3. pc \notin {"segment", "done"}
    BY <1>4 DEF SettleClosedLoop
  <2>4. pose' \in Poses
    BY <2>1, <2>2, <2>3, PoseTypes DEF TypeOK
  <2>5. cache' \in Poses
    BY <2>1, <2>2 DEF Cached, Beats, TypeOK
  <2>6. ended' \in BOOLEAN
    BY <2>1 DEF TurnEnds
  <2>7. pc' = "record" /\ seg \in DOMAIN Plan
        /\ UNCHANGED <<opt, seg, chunk, frame, capture, ref, pending, begun, abort, beat, turn,
                       fault, manual, env, driving>>
    BY <1>4, <2>3 DEF SettleClosedLoop, TypeOK
  <2>. QED  BY <2>2, <2>4, <2>5, <2>6, <2>7 DEF TypeOK, Controls, env
<1>. QED  BY <1>1, <1>2, <1>3, <1>4

LEMMA LeftTypes ==
  ASSUME TypeOK, NEW yaw \in Headings
  PROVE  LeftByYaw(yaw) \in Errors
<1>1. turn.start \in Int /\ turn.asked \in Int /\ yaw \in Int
  BY HeadingsAreInts DEF TypeOK
<1>2. yaw - turn.start \in Int
  BY <1>1
<1>3. Wrap(yaw - turn.start) \in Int
  BY <1>2, TurnTypes, HeadingsAreInts
<1>4. turn.asked - Wrap(yaw - turn.start) \in Int
  BY <1>1, <1>3
<1>. QED  BY <1>4, TurnTypes DEF LeftByYaw

TurnRecords == [start : Headings, asked : Errors, left : Errors, bursts : 0 .. MaxBursts,
                ok : BOOLEAN]

LEMMA TurnDoneTypes ==
  ASSUME NEW t \in TurnRecords, TurnDone(t)
  PROVE  turn' \in TurnRecords
<1>1. (Abs(t.left) <= Tolerance) \in BOOLEAN
  OBVIOUS
<1>. QED  BY <1>1 DEF TurnDone, TurnRecords

LEMMA TypeTurn ==
  ASSUME TypeOK, BeginBurst \/ LeaveTurn \/ BurstReturns \/ MeasureNothing \/ Measure
  PROVE  TypeOK'
<1>1. CASE BeginBurst
  <2>1. turn' \in TurnRecords
    <3>1. turn \in TurnRecords /\ turn.bursts + 1 \in 0 .. MaxBursts
      BY <1>1, RunConstants DEF BeginBurst, MayBurst, TypeOK, TurnRecords
    <3>2. turn' = [turn EXCEPT !.bursts = turn.bursts + 1]
      BY <1>1 DEF BeginBurst
    <3>. QED  BY <3>1, <3>2 DEF TurnRecords
  <2>2. excess' \in [chunks : Nat, bursts : Nat]
    BY <1>1, CountTypes DEF BeginBurst, TypeOK
  <2>. QED  BY <1>1, <2>1, <2>2 DEF BeginBurst, TypeOK, TurnRecords, Controls, plans, env
<1>2. CASE LeaveTurn
  <2>1. turn' \in TurnRecords
    BY <1>2, TurnDoneTypes DEF LeaveTurn, TypeOK, TurnRecords
  <2>. QED  BY <1>2, <2>1 DEF LeaveTurn, TurnDone, TypeOK, TurnRecords, Controls, plans, env
<1>3. CASE BurstReturns
  <2>1. heading' \in Headings
    BY <1>3, TurnsTyped DEF BurstReturns, TypeOK
  <2>. QED  BY <1>3, <2>1 DEF BurstReturns, TypeOK, Controls, plans, env
<1>4. CASE MeasureNothing
  BY <1>4 DEF MeasureNothing, TypeOK, Controls, plans, env
<1>5. CASE Measure
  <2>1. PICK row \in Sights :
          \/ MeasureManual(row)
          \/ /\ \E lost \in BOOLEAN : Heard(row, lost)
             /\ \/ MeasureYaw(row)
                \/ row.yaw = None /\ pc' = "record" /\ UNCHANGED <<turn, manual>>
    BY <1>5 DEF Measure
  <2>2. row \in Beats
    BY SightTypes
  <2>3. called' \in Calls /\ excess' \in [chunks : Nat, bursts : Nat]
    <3>1. CASE MeasureManual(row)
      BY <3>1 DEF MeasureManual, CalledBy, Calls, NoMotion, TypeOK
    <3>2. CASE \E lost \in BOOLEAN : Heard(row, lost)
      BY <2>2, <3>2, HeardTypes
    <3>. QED  BY <2>1, <3>1, <3>2
  <2>4. /\ turn' \in [start : Headings, asked : Errors, left : Errors, bursts : 0 .. MaxBursts,
                      ok : BOOLEAN]
        /\ manual' \in BOOLEAN /\ pc' \in {"record", "turn"}
    <3>1. CASE MeasureManual(row)
      BY <3>1 DEF MeasureManual, TypeOK
    <3>2. CASE MeasureYaw(row)
      <4>1. LeftByYaw(row.yaw) \in Errors
        BY <2>2, <3>2, LeftTypes DEF MeasureYaw, Beats
      <4>. DEFINE next == [turn EXCEPT !.left = LeftByYaw(row.yaw)]
      <4>2. next \in TurnRecords
        BY <4>1 DEF TypeOK, TurnRecords
      <4>3. CASE pc' = "turn" /\ turn' = next
        BY <3>2, <4>2, <4>3 DEF MeasureYaw, TypeOK, TurnRecords
      <4>4. CASE TurnDone(next)
        <5>1. turn' \in TurnRecords
          <6>. HIDE DEF next
          <6>. QED  BY <4>2, <4>4, TurnDoneTypes
        <5>. QED  BY <3>2, <4>4, <5>1 DEF MeasureYaw, TurnDone, TypeOK, TurnRecords
      <4>. QED  BY <3>2, <4>3, <4>4 DEF MeasureYaw
    <3>3. CASE pc' = "record" /\ UNCHANGED <<turn, manual>>
      BY <3>3 DEF TypeOK
    <3>. QED  BY <2>1, <3>1, <3>2, <3>3
  <2>5. pc = "measure" /\ UNCHANGED <<plans, abort, beat, fault, ended, env, driving, basis>>
    BY <1>5 DEF Measure
  <2>. QED  BY <2>3, <2>4, <2>5 DEF TypeOK, Controls, plans, env
<1>. QED  BY <1>1, <1>2, <1>3, <1>4, <1>5

LEMMA TypeRest ==
  ASSUME TypeOK,
         Record \/ SerialDisconnect \/ FlipSwitch \/ StopArrives \/ LeaseRunsOut
  PROVE  TypeOK'
<1>1. CASE Record
  <2>1. /\ pc' \in Controls /\ chunk' \in Nat /\ seg' \in Nat \ {0}
        /\ pc' \notin {"segment", "done"} => seg' \in DOMAIN Plan
    <3>1. CASE NextChunk
      BY <1>1, <3>1, NextChunkTypes DEF Record, Controls
    <3>2. CASE pc' \in {"done", "segment"} /\ chunk' = chunk /\ seg' \in {seg, seg + 1}
      BY <3>2 DEF TypeOK, Controls
    <3>. QED  BY <1>1, <3>1, <3>2 DEF Record
  <2>2. beat' \in Beats
    BY <1>1, HeadingsAreInts DEF Record, NoBeat, Beats, Poses, Fixes, Modes
  <2>3. turn' \in [start : Headings, asked : Errors, left : Errors, bursts : 0 .. MaxBursts,
                   ok : BOOLEAN]
    BY <1>1, HeadingsAreInts, RunConstants DEF Record, NoTurn
  <2>. QED  BY <1>1, <2>1, <2>2, <2>3 DEF Record, TypeOK, Faults, env
<1>2. CASE SerialDisconnect
  BY <1>2 DEF SerialDisconnect, Abort, TypeOK, Controls, plans, env
<1>3. CASE FlipSwitch
  BY <1>3 DEF FlipSwitch, TypeOK, plans
<1>4. CASE StopArrives
  <2>1. heading' \in Headings
    BY <1>4, RunConstants, TurnTypes, HeadingsAreInts DEF StopArrives, Drifts, TypeOK
  <2>. QED  BY <1>4, <2>1 DEF StopArrives, TypeOK, plans
<1>5. CASE LeaseRunsOut
  BY <1>5 DEF LeaseRunsOut, TypeOK, plans, env
<1>. QED  BY <1>1, <1>2, <1>3, <1>4, <1>5

LEMMA TypeStep == TypeOK /\ [Next]_vars => TypeOK'
<1>. SUFFICES ASSUME TypeOK, [Next]_vars  PROVE TypeOK'
  OBVIOUS
<1>1. CASE UNCHANGED vars
  BY <1>1 DEF vars, TypeOK
<1>. QED
  BY <1>1, TypeBeforeChunk, TypeGo, TypeSettle, TypeTurn, TypeRest DEF Next, Host

\* TypeOK: the headings, references and turns of a run stay headings and turns of the
\* compass, a turn takes at most the bursts its deadline leaves, and no chunk is driven
\* outside the plan.
THEOREM TypeCorrect == Spec => []TypeOK
  BY TypeInit, TypeStep, PTL DEF Spec

-----------------------------------------------------------------------------
(* How a run stops.                                                        *)

StopInv == RestFacts /\ CallFacts /\ ExcessFacts /\ CallsAreHeeded

LEMMA StopInit == Init => StopInv
  BY DEF Init, StopInv, RestFacts, CallFacts, ExcessFacts, CallsAreHeeded

\* The gate lets nothing pass once its row says MANUAL, or has no receiver.
LEMMA GatePasses ==
  ASSUME NEW rc \in Receivers, NEW row, NEW waits \in BOOLEAN,
         ShowsManual(row) \/ (~rc.rcOk /\ ~rc.ignored)
  PROVE  Gate(rc, row.mode, opt.auto, waits) \notin {"NONE", "WAIT_NEUTRAL"}
  BY DEF Gate, ShowsManual

\* A row outside a call that drives leaves what a chunk or a turn has shown, and starts
\* a new count whenever what it calls for differs.
LEMMA HeardFacts ==
  ASSUME NEW row, NEW lost, Heard(row, lost)
  PROVE  /\ called \in {"pilot", "fault"} => called' = called
         /\ called \notin {"pilot", "fault"} => called' \in {"no", "manual", "lost"}
         /\ called' = called => excess' = excess
         /\ called' # called => excess' = NoMotion
         /\ called' = "manual" => ShowsManual(row)
         /\ called' = "lost" => lost
  BY DEF Heard, CalledBy

\* Such a row keeps every bound on what has begun.
LEMMA HeardKeeps ==
  ASSUME StopInv,
         \/ called' = called /\ excess' = excess
         \/ called' # called /\ excess' = NoMotion
  PROVE  CallsAreHeeded' /\ (called' = "no" => excess' = NoMotion)
  BY RunConstants DEF StopInv, ExcessFacts, CallsAreHeeded, NoMotion

LEMMA StopsBeforeChunk ==
  ASSUME TypeOK, StopInv,
         StartSegment \/ HeartbeatMissing \/ Preflight \/ NeutralReached \/ NeutralMissing
  PROVE  StopInv'
<1>. USE DEF RestFacts, CallFacts, ExcessFacts
<1>1. CASE StartSegment \/ HeartbeatMissing \/ NeutralMissing
  <2>1. /\ pc \in {"segment", "check", "neutral"} /\ pc' \in {"done", "check"}
        /\ pc' = "check" => pc = "segment"
        /\ UNCHANGED <<driving, called, excess>>
    BY <1>1 DEF StartSegment, HeartbeatMissing, NeutralMissing, Abort
  <2>2. ~driving /\ called \notin {"pilot", "fault"} /\ (called = "no" => excess = NoMotion)
    BY <2>1 DEF StopInv
  <2>. QED  BY <2>1, <2>2, HeardKeeps DEF StopInv
<1>2. CASE Preflight
  <2>1. PICK row \in Sights, rc \in Receivers :
          /\ Heard(row, ~rc.rcOk /\ ~rc.ignored)
          /\ IF Gate(rc, row.mode, opt.auto, Waits) \in {"NONE", "WAIT_NEUTRAL"}
             THEN pc' \in {"go", "neutral"}
             ELSE pc' = "done"
    BY <1>2 DEF Preflight, Abort
  <2>2. pc = "check" /\ UNCHANGED driving
    BY <1>2 DEF Preflight
  <2>3. ~driving /\ called \notin {"pilot", "fault"} /\ (called = "no" => excess = NoMotion)
    BY <2>2 DEF StopInv
  <2>4. CallsAreHeeded' /\ (called' = "no" => excess' = NoMotion)
    BY <2>1, HeardFacts, HeardKeeps
  <2>5. pc' \in {"go", "neutral"} => called' = "no"
    <3>1. ASSUME pc' \in {"go", "neutral"}
          PROVE  ~ShowsManual(row) /\ ~(~rc.rcOk /\ ~rc.ignored)
      BY <2>1, <3>1, GatePasses DEF Waits
    <3>. QED  BY <2>1, <2>3, <3>1, HeardFacts
  <2>6. called' \in {"no", "manual", "lost"}
    BY <2>1, <2>3, HeardFacts
  <2>7. pc' \in {"go", "neutral", "done"}
    BY <2>1
  <2>. QED  BY <2>2, <2>3, <2>4, <2>5, <2>6, <2>7 DEF StopInv
<1>3. CASE NeutralReached
  <2>1. PICK row \in Sights : Heard(row, FALSE)
    BY <1>3 DEF NeutralReached
  <2>2. pc = "neutral" /\ pc' = "go" /\ UNCHANGED driving
    BY <1>3 DEF NeutralReached
  <2>3. excess = NoMotion /\ called \in {"no", "manual"} /\ ~driving
    BY <2>2 DEF StopInv
  <2>4. CallsAreHeeded' /\ excess' = NoMotion /\ called' \in {"no", "manual"}
    BY <2>1, <2>3, HeardFacts, HeardKeeps
  <2>. QED  BY <2>2, <2>3, <2>4 DEF StopInv
<1>. QED  BY <1>1, <1>2, <1>3

LEMMA StopsInChunk ==
  ASSUME TypeOK, StopInv, Go \/ StartLiveTurn \/ ChunkReturns
  PROVE  StopInv'
<1>. USE DEF RestFacts, CallFacts, ExcessFacts
<1>1. CASE Go
  <2>1. pc = "go" /\ excess = NoMotion /\ called \in {"no", "manual"} /\ ~driving
        /\ UNCHANGED called
    BY <1>1 DEF Go, StopInv
  <2>2. CASE Drive
    <3>1. pc' = "drive"
      BY <2>2 DEF Drive
    <3>2. /\ called = "no" => excess' = NoMotion
          /\ called = "manual" => excess' = [chunks |-> 1, bursts |-> 0]
      BY <2>1, <2>2 DEF Drive, NoMotion
    <3>. QED  BY <2>1, <3>1, <3>2 DEF StopInv, CallsAreHeeded, NoMotion
  <2>3. CASE pc' \in {"done", "check", "segment"} /\ UNCHANGED <<driving, excess>>
    BY <2>1, <2>3 DEF StopInv, CallsAreHeeded, NoMotion
  <2>. QED  BY <1>1, <2>2, <2>3 DEF Go, NextChunk
<1>2. CASE StartLiveTurn
  <2>1. /\ pc = "go" /\ excess = NoMotion /\ called \in {"no", "manual"} /\ ~driving
        /\ pc' = "turn" /\ UNCHANGED <<called, excess, driving>> /\ turn'.bursts = 0
    BY <1>2 DEF StartLiveTurn, StopInv
  <2>. QED  BY <2>1 DEF StopInv, CallsAreHeeded, NoMotion
<1>3. CASE ChunkReturns
  <2>1. /\ pc = "drive" /\ pc' = "settle" /\ ~driving'
        /\ CalledBy(IF manual' THEN "pilot" ELSE IF fault' # "NONE" THEN "fault" ELSE called)
    BY <1>3 DEF ChunkReturns
  <2>2. called \in {"no", "manual"} /\ excess.bursts = 0
    BY <2>1 DEF StopInv
  <2>3. /\ called' = "pilot" => manual'
        /\ called' = "fault" => fault' # "NONE"
        /\ called' \in {"pilot", "fault"} => called' # called /\ excess' = NoMotion
        /\ called' \notin {"pilot", "fault"} => called' = called /\ excess' = excess
    BY <2>1, <2>2 DEF CalledBy
  <2>4. CallsAreHeeded' /\ (called' = "no" => excess' = NoMotion)
    BY <2>3, HeardKeeps
  <2>. QED  BY <2>1, <2>2, <2>3, <2>4 DEF StopInv, NoMotion
<1>. QED  BY <1>1, <1>2, <1>3

LEMMA StopsSettling ==
  ASSUME TypeOK, StopInv, SettleLane \/ SettleCountedTurn \/ SettleClosedLoop
  PROVE  StopInv'
<1>1. /\ pc = "settle" /\ pc' \in {"done", "turn", "record"}
      /\ pc' = "turn" => ~manual /\ turn'.bursts = 0
      /\ UNCHANGED <<driving, manual, fault>>
  BY DEF SettleLane, SettleCountedTurn, SettleClosedLoop
<1>2. PICK row \in Sights \cup {beat} : SettledRow(row)
  BY DEF SettleLane, SettleCountedTurn, SettleClosedLoop
<1>3. /\ \/ called' = called /\ excess' = excess
         \/ called' # called /\ excess' = NoMotion
      /\ called \in {"pilot", "fault"} => called' = called
      /\ called' \in {"pilot", "fault"} => called' = called
  <2>1. CASE \E lost \in BOOLEAN : Heard(row, lost)
    BY <2>1, HeardFacts
  <2>2. CASE UNCHANGED <<called, excess>>
    BY <2>2
  <2>. QED  BY <1>2, <2>1, <2>2 DEF SettledRow
<1>4. CallsAreHeeded' /\ (called' = "no" => excess' = NoMotion)
  BY <1>3, HeardKeeps
<1>5. excess'.bursts = 0
  BY <1>1, <1>3 DEF StopInv, ExcessFacts, NoMotion
<1>6. ~driving
  BY <1>1 DEF StopInv, RestFacts
<1>7. /\ called' = "pilot" => manual
      /\ called' = "fault" => fault # "NONE"
  BY <1>1, <1>3 DEF StopInv, CallFacts
<1>. QED  BY <1>1, <1>3, <1>4, <1>5, <1>6, <1>7 DEF StopInv, RestFacts, CallFacts, ExcessFacts

LEMMA StopsTurning ==
  ASSUME TypeOK, StopInv, BeginBurst \/ LeaveTurn \/ BurstReturns \/ MeasureNothing \/ Measure
  PROVE  StopInv'
<1>. USE DEF RestFacts, CallFacts, ExcessFacts
<1>0. /\ turn.bursts \in 0 .. MaxBursts /\ MaxBursts \in Nat /\ MaxBursts >= 1
      /\ excess \in [chunks : Nat, bursts : Nat]
  BY RunConstants DEF TypeOK
<1>1. CASE BeginBurst
  <2>1. /\ pc = "turn" /\ pc' = "burst" /\ turn.bursts < MaxBursts
        /\ turn'.bursts = turn.bursts + 1
        /\ UNCHANGED <<called, fault, manual>>
        /\ excess' = IF called # "no" THEN [excess EXCEPT !.bursts = @ + 1] ELSE excess
    BY <1>1 DEF BeginBurst, MayBurst, TypeOK
  <2>2. /\ excess.bursts <= turn.bursts /\ (called = "manual" => excess.bursts = 0)
        /\ called # "pilot" /\ (called = "fault" => fault # "NONE")
        /\ called = "no" => excess = NoMotion
    BY <2>1 DEF StopInv
  <2>3. /\ called # "no" => excess'.chunks = excess.chunks /\ excess'.bursts = excess.bursts + 1
        /\ called = "no" => excess' = excess
    BY <1>0, <2>1
  <2>4. excess'.bursts <= turn'.bursts
    BY <1>0, <2>1, <2>2, <2>3
  <2>5. CallsAreHeeded'
    BY <1>0, <2>1, <2>2, <2>3 DEF StopInv, CallsAreHeeded
  <2>. QED  BY <2>1, <2>2, <2>3, <2>4, <2>5 DEF StopInv
<1>2. CASE LeaveTurn \/ BurstReturns \/ MeasureNothing
  <2>1. /\ pc \in {"turn", "burst", "measure"} /\ pc' \in {"measure", "record"}
        /\ UNCHANGED <<called, excess, fault, manual>>
        /\ turn'.bursts = turn.bursts
        /\ ~driving' \/ (UNCHANGED driving /\ pc # "burst")
    BY <1>2 DEF LeaveTurn, TurnDone, BurstReturns, MeasureNothing, TypeOK
  <2>. QED  BY <2>1 DEF StopInv, CallsAreHeeded
<1>3. CASE Measure
  <2>1. /\ pc = "measure" /\ ~driving /\ UNCHANGED <<driving, fault>>
        /\ called # "pilot" /\ (called = "fault" => fault # "NONE")
        /\ excess.bursts <= turn.bursts
    BY <1>3 DEF Measure, StopInv
  <2>2. PICK row \in Sights :
          \/ MeasureManual(row)
          \/ /\ ~ShowsManual(row) /\ (\E lost \in BOOLEAN : Heard(row, lost))
             /\ MeasureYaw(row) \/ (pc' = "record" /\ UNCHANGED <<turn, manual>>)
    BY <1>3 DEF Measure
  <2>3. CASE MeasureManual(row)
    <3>1. pc' = "record" /\ manual' /\ called' = "pilot" /\ excess' = NoMotion
      BY <2>1, <2>3 DEF MeasureManual, CalledBy
    <3>. QED  BY <2>1, <3>1 DEF StopInv, CallsAreHeeded
  <2>4. CASE /\ ~ShowsManual(row) /\ (\E lost \in BOOLEAN : Heard(row, lost))
             /\ MeasureYaw(row) \/ (pc' = "record" /\ UNCHANGED <<turn, manual>>)
    <3>1. /\ \/ called' = called /\ excess' = excess
             \/ called' # called /\ excess' = NoMotion
          /\ called' \in {"pilot", "fault"} => called' = called
          /\ called' # "manual"
      BY <2>1, <2>4, HeardFacts
    <3>2. CallsAreHeeded' /\ (called' = "no" => excess' = NoMotion)
      BY <3>1, HeardKeeps
    <3>3. pc' \in {"turn", "record"} /\ turn'.bursts = turn.bursts
      BY <2>4 DEF MeasureYaw, TurnDone, TypeOK
    <3>4. excess'.bursts <= turn'.bursts
      BY <1>0, <2>1, <3>1, <3>3 DEF NoMotion
    <3>. QED  BY <2>1, <3>1, <3>2, <3>3, <3>4 DEF StopInv
  <2>. QED  BY <2>2, <2>3, <2>4
<1>. QED  BY <1>1, <1>2, <1>3

LEMMA StopStep == TypeOK /\ StopInv /\ [Next]_vars => StopInv'
<1>. SUFFICES ASSUME TypeOK, StopInv, [Next]_vars  PROVE StopInv'
  OBVIOUS
<1>. USE DEF RestFacts, CallFacts, ExcessFacts
<1>1. CASE Record
  <2>1. /\ pc = "record" /\ UNCHANGED <<driving, called, excess>>
        /\ pc' \in {"done", "segment", "check"}
        /\ manual \/ fault # "NONE" => pc' = "done"
    BY <1>1 DEF Record, NextChunk
  <2>. QED  BY <2>1 DEF StopInv, CallsAreHeeded
<1>2. CASE SerialDisconnect
  <2>1. pc' = "done" /\ abort' = "SERIAL_DISCONNECT" /\ UNCHANGED <<called, excess>>
    BY <1>2 DEF SerialDisconnect, Abort
  <2>. QED  BY <2>1 DEF StopInv, CallsAreHeeded
<1>3. CASE FlipSwitch \/ StopArrives \/ UNCHANGED vars
  <2>1. UNCHANGED <<pc, abort, called, excess, turn, fault, manual, driving>>
    BY <1>3 DEF FlipSwitch, StopArrives, vars
  <2>. QED  BY <2>1 DEF StopInv, CallsAreHeeded
<1>4. CASE LeaseRunsOut
  <2>1. ~driving' /\ UNCHANGED <<pc, abort, called, excess, turn, fault, manual>>
    BY <1>4 DEF LeaseRunsOut
  <2>. QED  BY <2>1 DEF StopInv, CallsAreHeeded
<1>. QED
  BY <1>1, <1>2, <1>3, <1>4, StopsBeforeChunk, StopsInChunk, StopsSettling, StopsTurning
     DEF Next, Host

\* CallsAreHeeded: whatever the pilot, the receiver and the chunks do, what still begins
\* after one of them has called for the end of the run is bounded: nothing after MANUAL
\* in a chunk or a turn, one correction after a bad chunk.
THEOREM EndingsCostLittle == Spec => []CallsAreHeeded
<1>1. Init => TypeOK /\ StopInv
  BY TypeInit, StopInit
<1>2. TypeOK /\ StopInv /\ [Next]_vars => (TypeOK /\ StopInv)'
  BY TypeStep, StopStep
<1>3. TypeOK /\ StopInv => CallsAreHeeded
  BY DEF StopInv
<1>. QED  BY <1>1, <1>2, <1>3, PTL DEF Spec

\* RestsUnlessUnplugged: every way out of a run but a failed port has written a stop line
\* after the last motion line.
THEOREM RunsEndStopped == Spec => []RestsUnlessUnplugged
<1>1. Init => TypeOK /\ StopInv
  BY TypeInit, StopInit
<1>2. TypeOK /\ StopInv /\ [Next]_vars => (TypeOK /\ StopInv)'
  BY TypeStep, StopStep
<1>3. TypeOK /\ StopInv => RestsUnlessUnplugged
  BY DEF StopInv, RestFacts, RestsUnlessUnplugged
<1>. QED  BY <1>1, <1>2, <1>3, PTL DEF Spec

-----------------------------------------------------------------------------
(* What a turn reports.                                                    *)

\* Between two steps of the host only a stop line read late turns the rover, so the
\* yaw of the row a turn starts from still holds, and so does what it has measured.
TurnFacts ==
  /\ pc = "go" /\ coasting = "no" /\ beat.yaw # None => beat.yaw = yawNow
  /\ pc = "turn" /\ coasting = "no" /\ Abs(turn.left) <= Tolerance
       => Abs(LeftByYaw(yawNow)) <= Tolerance
  /\ pc \notin {"record", "done"} => ~turn.ok

TurnInv == TurnFacts /\ CompletedMeansTurned

LEMMA YawTypes == TypeOK => yawNow \in Headings
  BY TurnTypes, RunConstants, HeadingsAreInts DEF TypeOK, yawNow

LEMMA SightsAreTrue == \A row \in Sights : row.yaw \in {yawNow, None}
  BY DEF Sights

LEMMA WrapOfError == \A e \in Errors : Abs(Wrap(e - 0)) = Abs(e)
  BY AngleConstants DEF Errors, Wrap, Abs

LEMMA TurnInit == Init => TurnInv
  BY DEF Init, TurnInv, TurnFacts, CompletedMeansTurned, NoTurn

LEMMA TurnDoneFacts ==
  ASSUME NEW t, TurnDone(t), t.start = turn.start, t.asked = turn.asked,
         t \in [start : Headings, asked : Errors, left : Errors, bursts : 0 .. MaxBursts,
                ok : BOOLEAN],
         coasting = "no" /\ Abs(t.left) <= Tolerance => Abs(LeftByYaw(yawNow)) <= Tolerance,
         UNCHANGED <<heading, coasting>>
  PROVE  TurnInv'
<1>1. /\ turn'.start = turn.start /\ turn'.asked = turn.asked /\ pc' = "record"
      /\ turn'.ok = (Abs(t.left) <= Tolerance)
  BY DEF TurnDone
<1>2. LeftByYaw(yawNow)' = LeftByYaw(yawNow)
  BY <1>1 DEF LeftByYaw, yawNow
<1>. QED  BY <1>1, <1>2 DEF TurnInv, TurnFacts, CompletedMeansTurned, LeftByYaw

\* Steps that leave the turn and the rover's heading as they are.
LEMMA TurnQuiet ==
  ASSUME TurnInv, UNCHANGED <<turn, heading>>,
         coasting' = "no" => coasting = "no",
         pc' = "go" /\ coasting = "no" /\ beat'.yaw # None => beat'.yaw = yawNow,
         pc' = "turn" => pc = "turn",
         pc' = "record" /\ turn.ok => pc = "record",
         pc \in {"record", "done"} => pc' \in {"record", "done"}
  PROVE  TurnInv'
<1>1. yawNow' = yawNow /\ LeftByYaw(yawNow)' = LeftByYaw(yawNow)
  BY DEF yawNow, LeftByYaw
<1>. QED  BY <1>1 DEF TurnInv, TurnFacts, CompletedMeansTurned, LeftByYaw

LEMMA TurnSettles ==
  ASSUME TypeOK, TurnInv, Tolerance <= Threshold,
         SettleLane \/ SettleCountedTurn \/ SettleClosedLoop
  PROVE  TurnInv'
<1>0. pc = "settle" /\ ~turn.ok /\ UNCHANGED <<heading, coasting>>
  BY DEF SettleLane, SettleCountedTurn, SettleClosedLoop, TurnInv, TurnFacts, env
<1>1. CASE UNCHANGED turn /\ pc' \in {"record", "done"}
  BY <1>0, <1>1, TurnQuiet
<1>2. CASE SettleLane /\ pc' = "turn"
  <2>1. PICK row \in Sights \cup {beat} :
          /\ Abs(HeadingError(row.yaw)) > Threshold
          /\ turn' = [start |-> row.yaw, asked |-> HeadingError(row.yaw),
                      left |-> HeadingError(row.yaw), bursts |-> 0, ok |-> FALSE]
          /\ row.yaw # None
    BY <1>2 DEF SettleLane
  <2>2. row.yaw \in Headings
    BY <2>1, SightTypes DEF TypeOK, Beats
  <2>3. HeadingError(row.yaw) \in Int
    BY <1>0, <2>2, ErrorTypes, HeadingsAreInts
  <2>4. ~(Abs(turn'.left) <= Tolerance) /\ ~turn'.ok
    BY <2>1, <2>3, AngleConstants DEF Abs
  <2>. QED  BY <1>2, <2>4 DEF TurnInv, TurnFacts, CompletedMeansTurned
<1>. QED  BY <1>0, <1>1, <1>2 DEF SettleLane, SettleCountedTurn, SettleClosedLoop

LEMMA TurnMeasures ==
  ASSUME TypeOK, TurnInv, Measure
  PROVE  TurnInv'
<1>1. PICK row \in Sights :
        \/ MeasureManual(row)
        \/ MeasureYaw(row)
        \/ row.yaw = None /\ pc' = "record" /\ UNCHANGED <<turn, manual>>
  BY DEF Measure
<1>2. row.yaw = yawNow \/ row.yaw = None
  BY SightsAreTrue
<1>3. pc = "measure" /\ ~turn.ok /\ UNCHANGED <<heading, coasting>>
  BY DEF Measure, TurnInv, TurnFacts, env
<1>4. yawNow' = yawNow
  BY <1>3 DEF yawNow
<1>5. CASE MeasureManual(row)
  <2>1. /\ pc' = "record" /\ turn'.start = turn.start /\ turn'.asked = turn.asked
        /\ turn'.ok => row.yaw # None /\ Abs(LeftByYaw(row.yaw)) <= Tolerance
    BY <1>5 DEF MeasureManual, TypeOK
  <2>. QED  BY <1>2, <1>4, <2>1 DEF TurnInv, TurnFacts, CompletedMeansTurned, LeftByYaw
<1>6. CASE MeasureYaw(row)
  <2>. DEFINE next == [turn EXCEPT !.left = LeftByYaw(row.yaw)]
  <2>1. row.yaw = yawNow /\ yawNow \in Headings
    BY <1>2, <1>6, YawTypes DEF MeasureYaw
  <2>2. LeftByYaw(row.yaw) \in Errors
    BY <2>1, LeftTypes
  <2>3. /\ next \in [start : Headings, asked : Errors, left : Errors, bursts : 0 .. MaxBursts,
                     ok : BOOLEAN]
        /\ next.start = turn.start /\ next.asked = turn.asked /\ next.left = LeftByYaw(yawNow)
        /\ next.ok = turn.ok
    BY <2>1, <2>2 DEF TypeOK
  <2>4. CASE pc' = "turn" /\ turn' = next
    <3>1. /\ turn'.start = turn.start /\ turn'.asked = turn.asked /\ ~turn'.ok
          /\ turn'.left = LeftByYaw(yawNow)
      BY <1>3, <2>3, <2>4
    <3>2. LeftByYaw(yawNow)' = LeftByYaw(yawNow)
      BY <1>4, <3>1 DEF LeftByYaw
    <3>. QED  BY <2>4, <3>1, <3>2 DEF TurnInv, TurnFacts, CompletedMeansTurned
  <2>5. CASE TurnDone(next)
    <3>. HIDE DEF next
    <3>. QED  BY <1>3, <2>3, <2>5, TurnDoneFacts
  <2>. QED  BY <1>6, <2>4, <2>5 DEF MeasureYaw
<1>7. CASE pc' = "record" /\ UNCHANGED <<turn, manual>>
  BY <1>3, <1>7, TurnQuiet
<1>. QED  BY <1>1, <1>5, <1>6, <1>7

LEMMA TurnStep ==
  ASSUME TypeOK, TurnInv, [Next]_vars, Tolerance <= Threshold
  PROVE  TurnInv'
<1>1. CASE StartSegment \/ Record
  <2>1. turn' = NoTurn /\ pc' \in {"segment", "check", "done"}
    BY <1>1 DEF StartSegment, Record, NextChunk
  <2>. QED  BY <2>1 DEF TurnInv, TurnFacts, CompletedMeansTurned, NoTurn
<1>2. CASE HeartbeatMissing \/ NeutralMissing \/ SerialDisconnect
  BY <1>2, TurnQuiet DEF HeartbeatMissing, NeutralMissing, SerialDisconnect, Abort, env,
                         TurnInv, TurnFacts
<1>3. CASE Preflight \/ NeutralReached
  <2>1. /\ pc \in {"check", "neutral"} /\ pc' \in {"go", "neutral", "done"}
        /\ UNCHANGED <<turn, heading, coasting>>
    BY <1>3 DEF Preflight, NeutralReached, Abort, env
  <2>2. pc' = "go" => \E row \in Sights : beat' = row
    BY <1>3 DEF Preflight, NeutralReached, Abort
  <2>3. pc' = "go" /\ beat'.yaw # None => beat'.yaw = yawNow
    BY <2>2, SightsAreTrue
  <2>. QED  BY <2>1, <2>3, TurnQuiet DEF TurnInv, TurnFacts
<1>4. CASE Go
  <2>1. /\ pc = "go" /\ pc' \in {"drive", "done", "check", "segment"}
        /\ UNCHANGED <<turn, heading, coasting>>
    BY <1>4 DEF Go, Drive, NextChunk, env
  <2>. QED  BY <2>1, TurnQuiet DEF TurnInv, TurnFacts
<1>5. CASE StartLiveTurn
  <2>1. /\ pc = "go" /\ pc' = "turn" /\ UNCHANGED <<heading, coasting>> /\ beat.yaw # None
        /\ turn' = [start |-> beat.yaw, asked |-> Segment.angle, left |-> Segment.angle,
                    bursts |-> 0, ok |-> FALSE]
    BY <1>5 DEF StartLiveTurn, LiveTurn, env
  <2>2. Segment.angle \in Errors
    BY <2>1, SegmentFacts
  <2>3. CASE coasting = "no"
    <3>1. beat.yaw = yawNow /\ yawNow \in Int /\ yawNow' = yawNow
      BY <2>1, <2>3, YawTypes, HeadingsAreInts DEF TurnInv, TurnFacts, yawNow
    <3>2. Wrap(yawNow - yawNow) = 0
      BY <3>1, AngleConstants DEF Wrap
    <3>3. Abs(Wrap(Segment.angle - 0)) = Abs(Segment.angle)
      BY <2>2, WrapOfError
    <3>4. Abs(LeftByYaw(yawNow)') = Abs(turn'.left)
      BY <2>1, <3>1, <3>2, <3>3 DEF LeftByYaw
    <3>. QED  BY <2>1, <3>4 DEF TurnInv, TurnFacts, CompletedMeansTurned, LeftByYaw, Abs
  <2>4. CASE coasting # "no"
    BY <2>1, <2>4 DEF TurnInv, TurnFacts, CompletedMeansTurned
  <2>. QED  BY <2>3, <2>4
<1>6. CASE ChunkReturns
  BY <1>6 DEF ChunkReturns, TurnInv, TurnFacts, CompletedMeansTurned
<1>7. CASE SettleLane \/ SettleCountedTurn \/ SettleClosedLoop
  BY <1>7, TurnSettles
<1>8. CASE BeginBurst
  <2>1. pc' = "burst" /\ ~turn'.ok
    BY <1>8 DEF BeginBurst, TypeOK, TurnInv, TurnFacts
  <2>. QED  BY <2>1 DEF TurnInv, TurnFacts, CompletedMeansTurned
<1>9. CASE LeaveTurn
  <2>1. TurnDone(turn) /\ UNCHANGED <<heading, coasting>> /\ pc = "turn"
    BY <1>9 DEF LeaveTurn, env
  <2>. QED  BY <2>1, TurnDoneFacts DEF TypeOK, TurnInv, TurnFacts
<1>10. CASE BurstReturns
  <2>1. pc' \in {"measure", "record"} /\ ~turn'.ok
    BY <1>10 DEF BurstReturns, TurnInv, TurnFacts
  <2>. QED  BY <2>1 DEF TurnInv, TurnFacts, CompletedMeansTurned
<1>11. CASE MeasureNothing
  <2>1. pc = "measure" /\ pc' = "record" /\ ~turn.ok /\ UNCHANGED <<turn, heading, coasting>>
    BY <1>11 DEF MeasureNothing, env, TurnInv, TurnFacts
  <2>. QED  BY <2>1, TurnQuiet
<1>12. CASE Measure
  BY <1>12, TurnMeasures
<1>13. CASE StopArrives
  <2>1. coasting' = "late" /\ UNCHANGED <<pc, turn>>
    BY <1>13 DEF StopArrives
  <2>. QED  BY <2>1 DEF TurnInv, TurnFacts, CompletedMeansTurned
<1>14. CASE FlipSwitch \/ LeaseRunsOut \/ UNCHANGED vars
  <2>1. UNCHANGED <<pc, turn, heading, coasting, beat>>
    BY <1>14 DEF FlipSwitch, LeaseRunsOut, vars, env
  <2>. QED  BY <2>1, TurnQuiet DEF TurnInv, TurnFacts
<1>. QED
  BY <1>1, <1>2, <1>3, <1>4, <1>5, <1>6, <1>7, <1>8, <1>9, <1>10, <1>11, <1>12, <1>13,
     <1>14 DEF Next, Host

\* CompletedMeansTurned: with a tolerance no wider than the threshold, as the defaults
\* of 5 and 8 degrees are, a turn reported complete with its stop confirmed has turned
\* the rover by what was asked, up to the tolerance.
THEOREM ReportedTurnsAreTurned ==
  ASSUME Tolerance <= Threshold
  PROVE  Spec => []CompletedMeansTurned
<1>1. Init => TypeOK /\ TurnInv
  BY TypeInit, TurnInit
<1>2. TypeOK /\ TurnInv /\ [Next]_vars => (TypeOK /\ TurnInv)'
  BY TypeStep, TurnStep
<1>3. TypeOK /\ TurnInv => CompletedMeansTurned
  BY DEF TurnInv
<1>. QED  BY <1>1, <1>2, <1>3, PTL DEF Spec


-----------------------------------------------------------------------------
(* The end of a lane.                                                      *)

\* The arguments and the sky under which a lane ends by its fixes.
GoodFixes == opt.clearSky /\ opt.reanchor /\ opt.jump = None

Reach == Most(Segment.length + MaxAdvance - 1, Progress(begun))

\* The position that decides, after a chunk, whether the lane has ended: a chunk old
\* at most.
Seen ==
  IF opt.loop = "pulse" THEN cache.p ELSE IF opt.loop = "continuous" THEN pose.p ELSE beat.at.p

Driven == {"turn", "burst", "measure", "record"}

\* Another chunk begins only where the position looked at last was before the end.
LaneFacts ==
  /\ pc \in {"check", "neutral", "go", "drive"} => Progress(place) <= Reach
  /\ pc = "drive" => Seen = place
  /\ pc = "settle" => /\ Progress(place) <= Progress(Seen) + MaxAdvance
                      /\ Progress(place) <= Reach + MaxAdvance
  /\ pc \in Driven => /\ Progress(place) <= Reach + MaxAdvance
                      /\ ~ended => Progress(place) <= Reach

OverrunInv ==
  GoodFixes =>
    /\ pc \in {"go", "drive", "settle"} => beat.gps = "fix"
    /\ pc = "go" => beat.at.p = place
    /\ pc \notin {"segment", "done"} /\ ~Turning => LaneFacts

LEMMA OverrunTypes ==
  ASSUME TypeOK, pc \notin {"segment", "done"}
  PROVE  /\ Segment.length \in Nat /\ Segment.way \in {1, -1} /\ MaxAdvance \in Nat \ {0}
         /\ begun \in Int /\ place \in Int /\ Reach \in Int
         /\ \A at \in Int : Progress(at) \in Int
         /\ pose.p \in Int /\ cache.p \in Int /\ beat.at.p \in Int /\ Seen \in Int
         /\ \A at \in Int : Progress(at) < Segment.length => Progress(at) + MaxAdvance <= Reach
<1>1. /\ Segment.length \in Nat /\ Segment.way \in {1, -1} /\ MaxAdvance \in Nat \ {0}
      /\ begun \in Int /\ place \in Int
  BY SegmentFacts, RunConstants DEF TypeOK
<1>2. \A at \in Int : Progress(at) \in Int
  BY <1>1 DEF Progress
<1>3. pose.p \in Int /\ cache.p \in Int /\ beat.at.p \in Int
  BY DEF TypeOK, Poses, Beats
<1>4. Reach \in Int /\ Reach >= Segment.length + MaxAdvance - 1
  BY <1>1, <1>2 DEF Reach, Most
<1>5. \A at \in Int : Progress(at) < Segment.length => Progress(at) + MaxAdvance <= Reach
  BY <1>1, <1>2, <1>4
<1>. QED  BY <1>1, <1>2, <1>3, <1>4, <1>5 DEF Seen

\* A position that does not end the lane is before its end.
LEMMA NotEnded ==
  ASSUME TypeOK, pc \notin {"segment", "done"}, NEW at \in Poses,
         AlongOf(Segment, at) # Segment.length
  PROVE  Progress(at.p) < Segment.length
  BY SegmentFacts DEF AlongOf, Clamp, Most, Least, Progress, Poses

\* Steps that leave the rover and the lane where they are.
LEMMA LaneQuiet ==
  ASSUME OverrunInv, UNCHANGED <<opt, seg, place, begun, pose, cache>>,
         pc' # pc /\ pc' \in {"neutral", "go"} =>
           (GoodFixes => beat'.gps = "fix" /\ beat'.at.p = place),
         pc \notin {"check", "neutral"} => UNCHANGED <<beat, ended>>,
         \/ pc' = pc
         \/ pc' \in {"segment", "done"}
         \/ pc = "check" /\ pc' = "neutral"
         \/ pc \in {"check", "neutral"} /\ pc' = "go"
         \/ pc \in Driven /\ pc' \in Driven,
         pc' = pc => UNCHANGED <<beat, ended>>
  PROVE  OverrunInv'
<1>1. Segment' = Segment /\ Turning' = Turning /\ GoodFixes' = GoodFixes
  BY DEF Segment, Turning, GoodFixes
<1>2. Reach' = Reach /\ Progress(place)' = Progress(place)
  BY <1>1 DEF Reach, Progress
<1>3. pc' = pc => Seen' = Seen /\ Progress(Seen)' = Progress(Seen)
  BY <1>1 DEF Seen, Progress
<1>. QED  BY <1>1, <1>2, <1>3 DEF OverrunInv, LaneFacts, Driven

LEMMA GoDrives ==
  ASSUME TypeOK, OverrunInv, Go
  PROVE  OverrunInv'
<1>. SUFFICES ASSUME GoodFixes  PROVE OverrunInv'
  BY DEF Go, OverrunInv, GoodFixes
<1>1. /\ pc = "go" /\ beat.gps = "fix" /\ beat.at.p = place
      /\ UNCHANGED <<opt, beat, begun, place>>
  BY DEF Go, OverrunInv, env
<1>2. GpsAction = "continue"
  BY <1>1 DEF GpsAction, gps_policy_action
<1>3. pc' = "drive" /\ UNCHANGED seg
  BY <1>2 DEF Go, Drive
<1>4. ~Turning => Progress(place) <= Reach
  BY <1>1 DEF OverrunInv, LaneFacts
<1>5. Segment' = Segment /\ Turning' = Turning
  BY <1>3 DEF Segment, Turning
<1>6. (Progress(place) <= Reach)' = (Progress(place) <= Reach)
  BY <1>1, <1>5 DEF Reach, Progress
<1>7. ~Turning => Seen' = place'
  <2>1. opt.loop = "pulse" => cache' = beat.at
    BY <1>1 DEF Go, Cached
  <2>2. opt.loop = "continuous" /\ ~Turning => pose' = beat.at
    BY <1>1, <1>2 DEF Go, GoodFixes
  <2>. QED  BY <1>1, <2>1, <2>2 DEF Seen
<1>. QED  BY <1>1, <1>3, <1>4, <1>5, <1>6, <1>7 DEF OverrunInv, LaneFacts, Driven

LEMMA ChunkOverruns ==
  ASSUME TypeOK, OverrunInv, ChunkReturns
  PROVE  OverrunInv'
<1>. SUFFICES ASSUME GoodFixes  PROVE OverrunInv'
  BY DEF ChunkReturns, OverrunInv, GoodFixes
<1>1. /\ pc = "drive" /\ pc' = "settle" /\ beat.gps = "fix"
      /\ UNCHANGED <<opt, seg, beat, begun, cache>>
  BY DEF ChunkReturns, OverrunInv
<1>2. Segment' = Segment /\ Turning' = Turning /\ Reach' = Reach
  BY <1>1 DEF Segment, Turning, Reach, Progress
<1>3. CASE Turning
  BY <1>1, <1>2, <1>3 DEF OverrunInv
<1>4. CASE ~Turning
  <2>1. Progress(place) <= Reach /\ Seen = place
    BY <1>1, <1>4 DEF OverrunInv, LaneFacts
  <2>2. PICK n \in Advances : place' = place + Segment.way * n
    BY <1>4 DEF ChunkReturns, Moves
  <2>3. n \in 0 .. MaxAdvance
    BY RunConstants DEF Advances
  <2>4. place' \in Int
    BY <1>1, <2>2, <2>3, OverrunTypes
  <2>5. Progress(place)' = Progress(place) + n
    <3>1. CASE Segment.way = 1
      BY <1>1, <1>2, <2>2, <2>3, <3>1, OverrunTypes DEF Progress
    <3>2. CASE Segment.way = -1
      <4>1. place' = place - n
        BY <1>1, <2>2, <2>3, <3>2, OverrunTypes
      <4>. QED  BY <1>1, <1>2, <2>3, <3>2, <4>1, OverrunTypes DEF Progress
    <3>. QED  BY <1>1, <3>1, <3>2, OverrunTypes
  <2>6. Seen' \in {place, place'}
    <3>1. opt.loop = "continuous" => pose'.p \in {pose.p, place'}
      BY DEF ChunkReturns
    <3>. QED  BY <1>1, <2>1, <3>1 DEF Seen
  <2>7. Progress(Seen)' \in {Progress(place), Progress(place)'}
    BY <1>2, <2>6 DEF Progress
  <2>8. Progress(place)' <= Progress(Seen)' + MaxAdvance
    BY <1>1, <2>3, <2>5, <2>7, OverrunTypes
  <2>9. Progress(place)' <= Reach + MaxAdvance
    BY <1>1, <2>1, <2>3, <2>5, OverrunTypes
  <2>. QED  BY <1>1, <1>2, <2>8, <2>9 DEF OverrunInv, LaneFacts, Driven
<1>. QED  BY <1>3, <1>4

LEMMA SettleOverruns ==
  ASSUME TypeOK, OverrunInv, SettleLane \/ SettleCountedTurn \/ SettleClosedLoop
  PROVE  OverrunInv'
<1>0. /\ pc = "settle" /\ pc' \in {"turn", "record", "done"}
      /\ UNCHANGED <<opt, seg, beat, begun, place>>
  <2>1. CASE SettleLane
    BY <2>1 DEF SettleLane, env
  <2>2. CASE SettleCountedTurn
    BY <2>2 DEF SettleCountedTurn, plans, env
  <2>3. CASE SettleClosedLoop
    BY <2>3 DEF SettleClosedLoop, env
  <2>. QED  BY <2>1, <2>2, <2>3
<1>. SUFFICES ASSUME GoodFixes  PROVE OverrunInv'
  BY <1>0 DEF OverrunInv, GoodFixes
<1>1. /\ pc = "settle" /\ beat.gps = "fix" /\ pc' \in Driven \cup {"done"}
      /\ UNCHANGED <<opt, seg, beat, begun, place>>
  BY <1>0 DEF OverrunInv, Driven
<1>2. Segment' = Segment /\ Turning' = Turning /\ Reach' = Reach
      /\ Progress(place)' = Progress(place)
  BY <1>1 DEF Segment, Turning, Reach, Progress
<1>3. CASE Turning
  BY <1>1, <1>2, <1>3 DEF OverrunInv, Driven
<1>4. CASE ~Turning
  <2>1. /\ Progress(place) <= Progress(Seen) + MaxAdvance
        /\ Progress(place) <= Reach + MaxAdvance
    BY <1>1, <1>4 DEF OverrunInv, LaneFacts
  \* A position before the end, old by a chunk or not, leaves a chunk to the reach.
  <2>2. ASSUME NEW at \in Poses, AlongOf(Segment, at) # Segment.length, at.p \in {Seen, place}
        PROVE  Progress(place) <= Reach
    <3>1. Progress(at.p) < Segment.length /\ at.p \in Int
      BY <1>1, <2>2, NotEnded DEF Poses
    <3>2. Progress(at.p) + MaxAdvance <= Reach
      BY <1>1, <3>1, OverrunTypes
    <3>3. Progress(place) <= Progress(at.p) + MaxAdvance
      BY <1>1, <2>1, <2>2, OverrunTypes
    <3>. QED  BY <1>1, <3>1, <3>2, <3>3, OverrunTypes
  <2>3. ~ended' => Progress(place) <= Reach
    <3>1. CASE SettleLane
      <4>1. PICK row \in Sights \cup {beat} :
              pose' = BelievedPose(row) /\ ended' = (AlongOf(Segment, pose') = Segment.length)
        BY <3>1 DEF SettleLane
      <4>2. row \in Beats /\ row.gps = "fix" /\ row.at.p \in {beat.at.p, place}
        BY <1>1, SightTypes DEF Sights, GoodFixes, TypeOK
      <4>3. pose' = row.at
        BY <4>1, <4>2 DEF BelievedPose, Rejected, PoseAfter, GoodFixes
      <4>4. pose' \in Poses /\ pose'.p \in {Seen, place}
        BY <3>1, <4>2, <4>3 DEF Beats, Seen, SettleLane
      <4>. QED  BY <2>2, <4>1, <4>4
    <3>2. CASE SettleClosedLoop
      <4>. DEFINE at == IF opt.loop = "continuous" THEN pose ELSE cache
      <4>1. ended' = (AlongOf(Segment, at) = Segment.length) /\ opt.loop # "scg"
        BY <1>4, <3>2 DEF SettleClosedLoop
      <4>2. at \in Poses /\ at.p = Seen
        BY <4>1, OptionTypes DEF TypeOK, Seen
      <4>. QED  BY <2>2, <4>1, <4>2
    <3>. QED  BY <1>4, <3>1, <3>2 DEF SettleCountedTurn
  <2>. QED  BY <1>1, <1>2, <2>1, <2>3 DEF OverrunInv, LaneFacts, Driven
<1>. QED  BY <1>3, <1>4

LEMMA OverrunInit == Init => OverrunInv
  BY DEF Init, OverrunInv

LEMMA OverrunStep ==
  ASSUME TypeOK, OverrunInv, [Next]_vars
  PROVE  OverrunInv'
<1>1. CASE StartSegment
  <2>1. /\ pc' \in {"check", "done"} /\ UNCHANGED <<opt, seg, place>>
        /\ pc' = "check" => begun' = place
    BY <1>1 DEF StartSegment, env
  <2>2. pc' = "check" => Progress(place)' <= Reach'
    <3>1. SUFFICES ASSUME pc' = "check"  PROVE Progress(place)' <= Reach'
      OBVIOUS
    <3>2. TypeOK'
      BY TypeBeforeChunk, <1>1
    <3>3. /\ Segment'.length \in Nat /\ Segment'.way \in {1, -1} /\ place' \in Int
          /\ MaxAdvance \in Nat /\ begun' = place'
      <4>1. seg' \in DOMAIN Plan
        BY <3>1, <3>2 DEF TypeOK
      <4>. QED  BY <2>1, <3>1, <3>2, <4>1, SegmentTypes, RunConstants DEF TypeOK, Segment
    <3>. QED  BY <3>3 DEF Reach, Most, Progress
  <2>. QED  BY <2>1, <2>2 DEF OverrunInv, LaneFacts, Driven
<1>2. CASE HeartbeatMissing \/ NeutralMissing \/ SerialDisconnect
  BY <1>2 DEF HeartbeatMissing, NeutralMissing, SerialDisconnect, Abort, OverrunInv
<1>3. CASE Preflight \/ NeutralReached
  <2>1. /\ pc \in {"check", "neutral"} /\ pc' \in {"go", "neutral", "done"}
        /\ pc = "neutral" => pc' = "go"
        /\ UNCHANGED <<plans, place>>
    BY <1>3 DEF Preflight, NeutralReached, Abort, env
  <2>2. pc' \in {"go", "neutral"} => \E row \in Sights : beat' = row
    BY <1>3 DEF Preflight, NeutralReached, Abort
  <2>3. GoodFixes => \A row \in Sights : row.gps = "fix" /\ row.at.p = place
    BY DEF Sights, GoodFixes
  <2>4. UNCHANGED <<opt, seg, begun, pose, cache>>
    BY <2>1 DEF plans
  <2>. QED  BY <2>1, <2>2, <2>3, <2>4, LaneQuiet
<1>4. CASE Go
  BY <1>4, GoDrives
<1>5. CASE StartLiveTurn
  <2>1. Turning /\ pc' = "turn" /\ UNCHANGED seg
    BY <1>5 DEF StartLiveTurn, LiveTurn, plans
  <2>. QED  BY <2>1 DEF OverrunInv, Turning, Segment
<1>6. CASE ChunkReturns
  BY <1>6, ChunkOverruns
<1>7. CASE SettleLane \/ SettleCountedTurn \/ SettleClosedLoop
  BY <1>7, SettleOverruns
<1>8. CASE BeginBurst \/ LeaveTurn \/ BurstReturns \/ MeasureNothing \/ Measure
  <2>1. /\ pc \in Driven /\ pc' \in Driven
        /\ UNCHANGED <<plans, place, beat, ended>>
    BY <1>8 DEF BeginBurst, LeaveTurn, TurnDone, BurstReturns, MeasureNothing, Measure,
                MeasureManual, MeasureYaw, env, Driven
  <2>2. UNCHANGED <<opt, seg, begun, pose, cache>>
    BY <2>1 DEF plans
  <2>. QED  BY <2>1, <2>2, LaneQuiet DEF Driven
<1>9. CASE Record
  <2>1. /\ pc = "record" /\ pc' \in {"check", "segment", "done"}
        /\ UNCHANGED <<opt, place, begun>>
        /\ pc' = "check" => ~ended /\ UNCHANGED seg
    BY <1>9 DEF Record, NextChunk, env
  <2>2. pc' = "check" => /\ Segment' = Segment /\ Turning' = Turning
                         /\ Reach' = Reach /\ Progress(place)' = Progress(place)
    BY <2>1 DEF Segment, Turning, Reach, Progress
  <2>. QED  BY <2>1, <2>2 DEF OverrunInv, LaneFacts, Driven, GoodFixes
<1>10. CASE FlipSwitch \/ StopArrives \/ LeaseRunsOut \/ UNCHANGED vars
  <2>1. UNCHANGED <<pc, opt, seg, place, begun, pose, cache, beat, ended>>
    BY <1>10 DEF FlipSwitch, StopArrives, LeaseRunsOut, vars, plans, env
  <2>. QED  BY <2>1, LaneQuiet
<1>. QED
  BY <1>1, <1>2, <1>3, <1>4, <1>5, <1>6, <1>7, <1>8, <1>9, <1>10 DEF Next, Host

\* With good fixes a lane is overrun by less than two chunks, or by one if it began
\* beyond its end, in every loop of controller.py, whatever rows are missing.
THEOREM LanesEnd == Spec => []OverrunBounded
<1>1. Init => TypeOK /\ OverrunInv
  BY TypeInit, OverrunInit
<1>2. TypeOK /\ OverrunInv /\ [Next]_vars => (TypeOK /\ OverrunInv)'
  BY TypeStep, OverrunStep
<1>3. ASSUME TypeOK, OverrunInv, pc \notin {"segment", "done"}, ~Turning, GoodFixes
      PROVE  Progress(place) <= Reach + MaxAdvance
  <2>1. LaneFacts
    BY <1>3 DEF OverrunInv
  <2>2. Progress(place) <= Reach \/ Progress(place) <= Reach + MaxAdvance
    BY <1>3, <2>1 DEF LaneFacts, Driven, TypeOK, Controls
  <2>. QED  BY <1>3, <2>2, OverrunTypes
<1>4. TypeOK /\ OverrunInv => OverrunBounded
  BY <1>3 DEF OverrunBounded, GoodFixes, Reach
<1>. QED  BY <1>1, <1>2, <1>4, PTL DEF Spec

-----------------------------------------------------------------------------
(* Headings that stand for the same direction.                             *)

Same(a, b) == \E k \in Int : a = b + Full * k

LEMMA Remainder ==
  \A n \in Int : \E k \in Int : n = (n % Full) + Full * k
<1>1. Full \in Nat \ {0}
  BY AngleConstants
<1>2. \A n \in Int : n = (n % Full) + Full * (n \div Full) /\ n \div Full \in Int
  BY <1>1, Z3
<1>. QED  BY <1>2

LEMMA SameSum ==
  ASSUME NEW a \in Int, NEW b \in Int, NEW c \in Int, NEW d \in Int, Same(a, b), Same(c, d)
  PROVE  Same(a + c, b + d) /\ Same(a - c, b - d)
<1>1. PICK i \in Int : a = b + Full * i
  BY DEF Same
<1>2. PICK j \in Int : c = d + Full * j
  BY DEF Same
<1>3. Full \in Int
  BY AngleConstants
<1>4. Full * (i + j) = Full * i + Full * j /\ Full * (i - j) = Full * i - Full * j
  BY <1>3
<1>5. Full * i \in Int /\ Full * j \in Int
  BY <1>3
<1>6. a + c = (b + d) + Full * (i + j) /\ a - c = (b - d) + Full * (i - j)
  BY <1>1, <1>2, <1>4, <1>5
<1>7. i + j \in Int /\ i - j \in Int
  OBVIOUS
<1>. QED  BY <1>6, <1>7 DEF Same

LEMMA SameRemainder ==
  ASSUME NEW a \in Int, NEW b \in Int, Same(a, b)
  PROVE  a % Full = b % Full
<1>. DEFINE r == a % Full
            s == b % Full
<1>1. PICK i \in Int : a = b + Full * i
  BY DEF Same
<1>2. PICK j \in Int : a = r + Full * j
  BY Remainder
<1>3. PICK k \in Int : b = s + Full * k
  BY Remainder
<1>4. Full \in Nat \ {0} /\ r \in 0 .. Full - 1 /\ s \in 0 .. Full - 1
  BY AngleConstants, TurnTypes DEF Headings
<1>. HIDE DEF r, s
<1>5. PICK m \in Int : m = j - k - i
  OBVIOUS
<1>6. Full * m = Full * j - Full * k - Full * i
  BY <1>4, <1>5
<1>7. Full * i \in Int /\ Full * j \in Int /\ Full * k \in Int
  BY <1>4
<1>8. s - r = Full * m
  BY <1>1, <1>2, <1>3, <1>4, <1>6, <1>7
<1>9. m >= 1 => Full * m >= Full
  BY <1>4
<1>10. m <= -1 => Full * m <= -Full
  BY <1>4
<1>11. m = 0
  BY <1>4, <1>8, <1>9, <1>10
<1>12. Full * m = 0
  BY <1>4, <1>11
<1>13. r = s
  BY <1>4, <1>8, <1>12
<1>. QED  BY <1>13 DEF r, s

LEMMA SameFacts ==
  ASSUME NEW a \in Int
  PROVE  Same(a, a) /\ Same(a % Full, a) /\ Same(Wrap(a), a) /\ Wrap(a) \in Int
<1>. DEFINE r == a % Full
<1>1. Full \in Nat \ {0} /\ r \in Int /\ Wrap(a) \in {r, r - Full}
  BY AngleConstants, TurnTypes, HeadingsAreInts DEF Wrap
<1>2. PICK k \in Int : a = r + Full * k
  BY Remainder
<1>3. Same(r, a) => Same(a % Full, a)
  OBVIOUS
<1>. HIDE DEF r
<1>4. Full * k \in Int /\ Full * (-k) = -(Full * k) /\ Full * (-k - 1) = -(Full * k) - Full
  BY <1>1
<1>5. r = a + Full * (-k) /\ r - Full = a + Full * (-k - 1) /\ a = a + Full * 0
  BY <1>1, <1>2, <1>4
<1>6. -k \in Int /\ -k - 1 \in Int
  OBVIOUS
<1>7. Same(a, a) /\ Same(r, a) /\ Same(r - Full, a)
  BY <1>5, <1>6 DEF Same
<1>. QED  BY <1>1, <1>3, <1>7

LEMMA SameWrap ==
  ASSUME NEW a \in Int, NEW b \in Int, Same(a, b)
  PROVE  Wrap(a) = Wrap(b)
  BY SameRemainder DEF Wrap

LEMMA SameChain ==
  ASSUME NEW a \in Int, NEW b \in Int, NEW c \in Int, Same(a, b), Same(b, c)
  PROVE  Same(a, c)
<1>1. PICK i \in Int : a = b + Full * i
  BY DEF Same
<1>2. PICK j \in Int : b = c + Full * j
  BY DEF Same
<1>3. Full * (i + j) = Full * i + Full * j /\ Full * i \in Int /\ Full * j \in Int
  BY AngleConstants
<1>4. a = c + Full * (i + j) /\ i + j \in Int
  BY <1>1, <1>2, <1>3
<1>. QED  BY <1>4 DEF Same

-----------------------------------------------------------------------------
(* What a chunk of stop_correct_go leaves of the heading error.            *)

\* The yaw at the start is that of the first lane.
Homed == opt.mission /\ opt.startYaw = (first_lane_heading + YawZero) % Full

Correcting == opt.loop = "scg" /\ ~Turning /\ Homed

\* A frame that was given is never taken again.
FrameKept == opt.startYaw # None => frame = Wrap(first_lane_heading - opt.startYaw)

\* A correction is asked for the error its first row shows, and where none is asked
\* for, a row of the standing rover has shown none.
CorrectionFacts ==
  /\ pc \notin Driven \cup {"done"} => turn.asked = 0
  /\ pc \in Driven \ {"record"} /\ ~Turning => turn.asked # 0
  /\ pc \in Driven /\ Correcting /\ turn.asked # 0 => turn.asked = HeadingError(turn.start)
  /\ /\ pc = "record" /\ Correcting /\ turn.asked = 0
     /\ opt.clearSky /\ "stale" \notin basis /\ coasting = "no" /\ ~manual
     => Abs(HeadingError(yawNow)) <= Threshold

HeadingInv == FrameKept /\ CorrectionFacts

\* In that frame the error is that of the rover itself, and so is what is left of a
\* turn asked for it.
LEMMA ErrorIsTrue ==
  ASSUME TypeOK, FrameKept, Homed, pc \notin {"segment", "done"}
  PROVE  /\ HeadingError(yawNow) = Wrap(Segment.heading - heading)
         /\ \A yaw \in Headings :
              Wrap(HeadingError(yaw) - Wrap(yawNow - yaw)) = Wrap(Segment.heading - heading)
<1>. DEFINE first == first_lane_heading
            h == Segment.heading
<1>1. first \in Int /\ h \in Int /\ heading \in Int /\ YawZero \in Int /\ yawNow \in Headings
  BY FirstHeading, SegmentFacts, RunConstants, YawTypes, HeadingsAreInts DEF TypeOK
<1>2. /\ opt.startYaw \in Int /\ Same(opt.startYaw, first + YawZero)
      /\ frame = Wrap(first - opt.startYaw) /\ frame # None
  <2>1. opt.startYaw = (first + YawZero) % Full /\ first + YawZero \in Int
    BY <1>1 DEF Homed
  <2>2. opt.startYaw \in Int /\ opt.startYaw # None
    BY <2>1, TurnTypes, HeadingsAreInts
  <2>3. frame = Wrap(first - opt.startYaw) /\ first - opt.startYaw \in Int
    BY <1>1, <2>2 DEF FrameKept
  <2>4. Wrap(first - opt.startYaw) \in Int
    BY <2>3, SameFacts
  <2>. QED  BY <2>1, <2>2, <2>3, <2>4, SameFacts, HeadingsAreInts
<1>. HIDE DEF first, h
<1>3. frame \in Int /\ Same(frame, -YawZero)
  <2>1. Same(first - opt.startYaw, first - (first + YawZero))
    <3>1. first + YawZero \in Int /\ Same(first, first)
      BY <1>1, SameFacts
    <3>. QED  BY <1>1, <1>2, <3>1, SameSum
  <2>2. first - (first + YawZero) = -YawZero
    BY <1>1
  <2>3. frame \in Int /\ Same(frame, first - opt.startYaw) /\ first - opt.startYaw \in Int
    BY <1>1, <1>2, SameFacts
  <2>. QED  BY <1>1, <2>1, <2>2, <2>3, SameChain
<1>4. ASSUME NEW yaw \in Headings
      PROVE  /\ HeadingError(yaw) \in Int
             /\ HeadingError(yaw) = Wrap(h - Wrap(yaw + frame))
             /\ Same(h - Wrap(yaw + frame), h - (yaw - YawZero))
             /\ h - Wrap(yaw + frame) \in Int
  <2>1. yaw \in Int /\ yaw # None
    BY HeadingsAreInts
  <2>2. HeadingError(yaw) = Wrap(h - Wrap(yaw + frame))
    BY <1>2, <2>1 DEF HeadingError, Homed, h
  <2>3. Same(yaw + frame, yaw + -YawZero) /\ yaw + frame \in Int
    BY <1>1, <1>3, <2>1, SameFacts, SameSum
  <2>4. Wrap(yaw + frame) \in Int /\ Same(Wrap(yaw + frame), yaw + frame)
    BY <2>3, SameFacts
  <2>5. Same(Wrap(yaw + frame), yaw - YawZero)
    <3>1. yaw + -YawZero = yaw - YawZero /\ yaw - YawZero \in Int
      BY <1>1, <2>1
    <3>. QED  BY <2>3, <2>4, <3>1, SameChain
  <2>6. Same(h - Wrap(yaw + frame), h - (yaw - YawZero))
    BY <1>1, <2>1, <2>4, <2>5, SameFacts, SameSum
  <2>7. h - Wrap(yaw + frame) \in Int
    BY <1>1, <2>4
  <2>. QED  BY <2>2, <2>6, <2>7, SameFacts
<1>5. Same(yawNow, heading + YawZero) /\ yawNow \in Int
  <2>1. heading + YawZero \in Int
    BY <1>1
  <2>2. Same((heading + YawZero) % Full, heading + YawZero)
    BY <2>1, SameFacts
  <2>. QED  BY <1>1, <2>2, HeadingsAreInts DEF yawNow
<1>6. HeadingError(yawNow) = Wrap(h - heading)
  <2>1. Same(yawNow - YawZero, (heading + YawZero) - YawZero)
    BY <1>1, <1>5, SameFacts, SameSum
  <2>2. (heading + YawZero) - YawZero = heading
    BY <1>1
  <2>3. Same(h - (yawNow - YawZero), h - heading)
    BY <1>1, <1>5, <2>1, <2>2, SameFacts, SameSum
  <2>4. h - (yawNow - YawZero) \in Int /\ h - heading \in Int
    BY <1>1, <1>5
  <2>. QED  BY <1>1, <1>4, <2>3, <2>4, SameChain, SameWrap
<1>7. ASSUME NEW yaw \in Headings
      PROVE  Wrap(HeadingError(yaw) - Wrap(yawNow - yaw)) = Wrap(h - heading)
  <2>. DEFINE asked == HeadingError(yaw)
              turned == Wrap(yawNow - yaw)
  <2>1. yaw \in Int /\ asked \in Int /\ yawNow - yaw \in Int
    BY <1>4, <1>5, HeadingsAreInts
  <2>2. Same(asked, h - (yaw - YawZero))
    <3>1. h - (yaw - YawZero) \in Int
      BY <1>1, <2>1
    <3>2. Same(asked, h - Wrap(yaw + frame))
      BY <1>4, SameFacts
    <3>. QED  BY <1>4, <2>1, <3>1, <3>2, SameChain
  <2>3. turned \in Int /\ Same(turned, (heading + YawZero) - yaw)
    <3>1. Same(yawNow - yaw, (heading + YawZero) - yaw) /\ (heading + YawZero) - yaw \in Int
      BY <1>1, <1>5, <2>1, SameFacts, SameSum
    <3>. QED  BY <2>1, <3>1, SameFacts, SameChain
  <2>. HIDE DEF asked, turned
  <2>4. (h - (yaw - YawZero)) - ((heading + YawZero) - yaw) = h - heading
    BY <1>1, <2>1
  <2>5. Same(asked - turned, h - heading)
    BY <1>1, <2>1, <2>2, <2>3, <2>4, SameSum
  <2>6. Wrap(asked - turned) = Wrap(h - heading)
    BY <1>1, <2>1, <2>3, <2>5, SameWrap
  <2>. QED  BY <2>6 DEF asked, turned
<1>. QED  BY <1>6, <1>7 DEF h

LEMMA HeadingInit == Init => HeadingInv
  BY DEF Init, NoTurn, HeadingInv, FrameKept, CorrectionFacts, Driven

\* Steps outside a correction, and those that begin none.
LEMMA NoCorrection ==
  ASSUME HeadingInv, UNCHANGED <<opt, frame>>,
         \/ pc' = "done"
         \/ pc' \notin Driven /\ (turn' = NoTurn \/ (UNCHANGED turn /\ pc \notin Driven \cup {"done"}))
  PROVE  HeadingInv'
<1>1. FrameKept'
  BY DEF HeadingInv, FrameKept
<1>2. pc' = "done" => CorrectionFacts'
  BY DEF CorrectionFacts, Driven
<1>3. pc' \notin Driven /\ turn'.asked = 0 => CorrectionFacts'
  BY DEF CorrectionFacts, Driven
<1>. QED  BY <1>1, <1>2, <1>3 DEF HeadingInv, CorrectionFacts, NoTurn

\* The bursts of a turn, and what is not a step of the host.
LEMMA CorrectionQuiet ==
  ASSUME HeadingInv, UNCHANGED <<opt, seg, frame, ref>>,
         turn'.asked = turn.asked, turn'.start = turn.start,
         \/ pc' = pc /\ UNCHANGED <<heading, coasting, basis, manual>>
         \/ pc' = pc /\ coasting' # "no"
         \/ pc \in Driven \ {"record"} /\ pc' \in Driven
  PROVE  HeadingInv'
<1>1. Segment' = Segment /\ Turning' = Turning /\ Homed' = Homed /\ Correcting' = Correcting
  BY DEF Segment, Turning, Homed, Correcting
<1>2. HeadingError(turn.start)' = HeadingError(turn.start)
  BY <1>1 DEF HeadingError
<1>3. UNCHANGED heading => HeadingError(yawNow)' = HeadingError(yawNow)
  BY <1>1 DEF HeadingError, yawNow
<1>4. FrameKept'
  BY DEF HeadingInv, FrameKept
<1>5. \/ ~Correcting \/ turn.asked = 0 \/ pc \notin Driven
      \/ turn'.asked = HeadingError(turn.start)'
  BY <1>2 DEF HeadingInv, CorrectionFacts
<1>6. CASE pc' = pc /\ (UNCHANGED <<heading, coasting, basis, manual>> \/ coasting' # "no")
  <2>1. coasting' = "no" => HeadingError(yawNow)' = HeadingError(yawNow)
                            /\ UNCHANGED <<coasting, basis, manual>>
    BY <1>3, <1>6
  <2>2. CorrectionFacts
    BY DEF HeadingInv
  <2>3. /\ pc' \notin Driven \cup {"done"} => turn'.asked = 0
        /\ pc' \in Driven \ {"record"} /\ ~Turning' => turn'.asked # 0
    BY <1>1, <1>6, <2>2 DEF CorrectionFacts
  <2>4. /\ pc' = "record" /\ Correcting' /\ turn'.asked = 0
        /\ opt'.clearSky /\ "stale" \notin basis' /\ coasting' = "no" /\ ~manual'
        => Abs(HeadingError(yawNow))' <= Threshold
    BY <1>1, <1>6, <2>1, <2>2 DEF CorrectionFacts, Abs
  <2>. QED  BY <1>1, <1>4, <1>5, <1>6, <2>3, <2>4 DEF HeadingInv, CorrectionFacts
<1>7. CASE pc \in Driven \ {"record"} /\ pc' \in Driven
  <2>1. ~Turning => turn'.asked # 0
    BY <1>7 DEF HeadingInv, CorrectionFacts
  <2>. QED  BY <1>1, <1>4, <1>5, <1>7, <2>1 DEF HeadingInv, CorrectionFacts, Correcting
<1>. QED  BY <1>6, <1>7

LEMMA HeadingSettles ==
  ASSUME TypeOK, HeadingInv, SettleLane
  PROVE  HeadingInv'
<1>1. /\ pc = "settle" /\ turn.asked = 0 /\ ~Turning
      /\ UNCHANGED <<opt, seg, frame, ref, heading, coasting, manual>>
  BY DEF SettleLane, env, HeadingInv, CorrectionFacts, Driven
<1>2. Segment' = Segment /\ Turning' = Turning /\ Homed' = Homed /\ Correcting' = Correcting
  BY <1>1 DEF Segment, Turning, Homed, Correcting
<1>3. \A yaw : HeadingError(yaw)' = HeadingError(yaw)
  BY <1>1, <1>2 DEF HeadingError
<1>4. FrameKept'
  BY <1>1 DEF HeadingInv, FrameKept
<1>5. PICK row \in Sights \cup {beat} :
        /\ SettledRow(row)
        /\ \/ pc' = "done"
           \/ /\ pc' = "turn" /\ row.yaw # None /\ Abs(HeadingError(row.yaw)) > Threshold
              /\ turn' = [start |-> row.yaw, asked |-> HeadingError(row.yaw),
                          left |-> HeadingError(row.yaw), bursts |-> 0, ok |-> FALSE]
           \/ /\ pc' = "record" /\ UNCHANGED turn
              /\ row.yaw = None \/ ~(Abs(HeadingError(row.yaw)) > Threshold) \/ manual
  BY DEF SettleLane
<1>6. CASE pc' = "done"
  BY <1>4, <1>6 DEF HeadingInv, CorrectionFacts, Driven
<1>7. CASE pc' = "turn"
  <2>1. /\ turn'.start = row.yaw /\ turn'.asked = HeadingError(row.yaw)
        /\ Abs(HeadingError(row.yaw)) > Threshold /\ row.yaw # None
    BY <1>5, <1>7
  <2>2. HeadingError(row.yaw) \in Int
    <3>1. row.yaw \in Headings
      BY <2>1, SightTypes DEF TypeOK, Beats
    <3>. QED  BY <1>1, <3>1, ErrorTypes, HeadingsAreInts
  <2>3. turn'.asked # 0
    BY <2>1, <2>2, AngleConstants DEF Abs
  <2>4. turn'.asked = HeadingError(turn.start)'
    BY <1>2, <1>3, <2>1 DEF HeadingError
  <2>. QED  BY <1>4, <1>7, <2>3, <2>4 DEF HeadingInv, CorrectionFacts, Driven
<1>8. CASE pc' = "record"
  <2>1. turn'.asked = 0
    BY <1>1, <1>5, <1>8
  <2>2. ASSUME Correcting', opt'.clearSky, "stale" \notin basis', ~manual'
        PROVE  Abs(HeadingError(yawNow))' <= Threshold
    <3>1. row \in Sights /\ opt.clearSky
      BY <1>1, <1>5, <2>2 DEF SettledRow
    <3>2. row.yaw = yawNow
      BY <3>1 DEF Sights
    <3>3. yawNow # None /\ HeadingError(yawNow) \in Int
      BY <1>1, YawTypes, ErrorTypes, HeadingsAreInts
    <3>4. ~(Abs(HeadingError(yawNow)) > Threshold)
      BY <1>1, <1>5, <1>8, <2>2, <3>2, <3>3
    <3>5. Abs(HeadingError(yawNow))' = Abs(HeadingError(yawNow))
      BY <1>1, <1>2 DEF HeadingError, yawNow, Abs
    <3>. QED  BY <3>3, <3>4, <3>5, AngleConstants DEF Abs
  <2>. QED  BY <1>4, <1>8, <2>1, <2>2 DEF HeadingInv, CorrectionFacts, Driven
<1>. QED  BY <1>5, <1>6, <1>7, <1>8

LEMMA HeadingStep ==
  ASSUME TypeOK, HeadingInv, [Next]_vars
  PROVE  HeadingInv'
<1>1. CASE StartSegment \/ Record
  <2>1. turn' = NoTurn /\ pc' \notin Driven /\ UNCHANGED <<opt, frame>>
    BY <1>1 DEF StartSegment, Record, NextChunk, Driven
  <2>. QED  BY <2>1, NoCorrection
<1>2. CASE HeartbeatMissing \/ NeutralMissing \/ SerialDisconnect
  <2>1. pc' = "done" /\ UNCHANGED <<opt, frame>>
    BY <1>2 DEF HeartbeatMissing, NeutralMissing, SerialDisconnect, Abort, plans
  <2>. QED  BY <2>1, NoCorrection
<1>3. CASE Preflight \/ NeutralReached \/ ChunkReturns
  <2>1. /\ pc \notin Driven \cup {"done"} /\ pc' \notin Driven
        /\ UNCHANGED <<opt, frame, turn>>
    BY <1>3 DEF Preflight, NeutralReached, ChunkReturns, Abort, plans, Driven
  <2>. QED  BY <2>1, NoCorrection
<1>4. CASE Go
  <2>1. pc = "go" /\ pc' \notin Driven /\ UNCHANGED <<opt, turn>>
    BY <1>4 DEF Go, Drive, NextChunk, Driven
  <2>2. opt.startYaw # None => UNCHANGED frame
    <3>1. opt.startYaw # None => frame # None
      <4>1. SUFFICES ASSUME opt.startYaw # None  PROVE frame # None
        OBVIOUS
      <4>2. first_lane_heading \in Int /\ opt.startYaw \in Int
        BY <4>1, FirstHeading, OptionTypes, HeadingsAreInts
      <4>3. first_lane_heading - opt.startYaw \in Int
        BY <4>2
      <4>4. Wrap(first_lane_heading - opt.startYaw) \in Int
        BY <4>3, SameFacts
      <4>. QED  BY <4>1, <4>4, HeadingsAreInts DEF HeadingInv, FrameKept
    <3>. QED  BY <1>4, <3>1 DEF Go, maybe_capture_mission_frame
  <2>3. FrameKept'
    BY <2>1, <2>2 DEF HeadingInv, FrameKept
  <2>. QED  BY <2>1, <2>3 DEF HeadingInv, CorrectionFacts, Driven
<1>5. CASE StartLiveTurn
  <2>1. pc' = "turn" /\ Turning /\ UNCHANGED <<opt, seg, frame>>
    BY <1>5 DEF StartLiveTurn, LiveTurn, plans
  <2>2. Turning' /\ FrameKept'
    BY <2>1 DEF Turning, Segment, HeadingInv, FrameKept
  <2>. QED  BY <2>1, <2>2 DEF HeadingInv, CorrectionFacts, Correcting, Driven
<1>6. CASE SettleLane
  BY <1>6, HeadingSettles
<1>7. CASE SettleCountedTurn \/ SettleClosedLoop
  <2>1. /\ pc = "settle" /\ pc' = "record" /\ (Turning \/ opt.loop # "scg")
        /\ UNCHANGED <<opt, seg, frame, turn>>
    BY <1>7 DEF SettleCountedTurn, SettleClosedLoop, plans
  <2>2. ~Correcting' /\ FrameKept' /\ turn'.asked = 0
    BY <2>1 DEF Correcting, Turning, Segment, HeadingInv, FrameKept, CorrectionFacts, Driven
  <2>. QED  BY <2>1, <2>2 DEF HeadingInv, CorrectionFacts, Driven
<1>8. CASE BeginBurst \/ LeaveTurn \/ BurstReturns \/ MeasureNothing \/ Measure
  <2>1. pc \in Driven \ {"record"} /\ pc' \in Driven /\ UNCHANGED plans
    BY <1>8 DEF BeginBurst, LeaveTurn, TurnDone, BurstReturns, MeasureNothing, Measure,
                MeasureManual, MeasureYaw, Driven
  <2>2. turn'.asked = turn.asked /\ turn'.start = turn.start
    BY <1>8 DEF BeginBurst, LeaveTurn, TurnDone, BurstReturns, MeasureNothing, Measure,
                MeasureManual, MeasureYaw, TypeOK
  <2>. QED  BY <2>1, <2>2, CorrectionQuiet DEF plans
<1>9. CASE StopArrives
  <2>1. UNCHANGED <<plans, turn, pc>> /\ coasting' # "no"
    BY <1>9 DEF StopArrives
  <2>. QED  BY <2>1, CorrectionQuiet DEF plans
<1>10. CASE FlipSwitch \/ LeaseRunsOut \/ UNCHANGED vars
  <2>1. UNCHANGED <<opt, seg, frame, ref, turn, pc, heading, coasting, basis, manual>>
    BY <1>10 DEF FlipSwitch, LeaseRunsOut, vars, plans, env
  <2>. QED  BY <2>1, CorrectionQuiet
<1>. QED
  BY <1>1, <1>2, <1>3, <1>4, <1>5, <1>6, <1>7, <1>8, <1>9, <1>10 DEF Next, Host

\* CorrectsHeading: with a tolerance no wider than the threshold, as the defaults are, a
\* chunk of stop_correct_go that began with the frame of the first lane leaves the rover
\* near the heading of its lane, or says that its correction has not succeeded.
THEOREM ChunksCorrectHeading ==
  ASSUME Tolerance <= Threshold
  PROVE  Spec => []CorrectsHeading
<1>1. Init => TypeOK /\ TurnInv /\ HeadingInv
  BY TypeInit, TurnInit, HeadingInit
<1>2. TypeOK /\ TurnInv /\ HeadingInv /\ [Next]_vars => (TypeOK /\ TurnInv /\ HeadingInv)'
  BY TypeStep, TurnStep, HeadingStep
<1>3. TypeOK /\ TurnInv /\ HeadingInv => CorrectsHeading
  <2>1. SUFFICES ASSUME TypeOK, CompletedMeansTurned, HeadingInv,
                        pc = "record", opt.loop = "scg", ~Turning, Homed,
                        opt.clearSky, "stale" \notin basis, coasting = "no",
                        ~manual, turn.asked = 0 \/ turn.ok
                 PROVE  Abs(Wrap(Segment.heading - heading)) <= Most(Threshold, Tolerance)
    BY DEF TurnInv, CorrectsHeading, Homed
  <2>2. FrameKept /\ CorrectionFacts /\ Correcting
    BY <2>1 DEF HeadingInv, Correcting
  <2>3. Wrap(Segment.heading - heading) \in Int
    <3>1. Segment.heading \in Int /\ heading \in Int
      BY <2>1, SegmentFacts, HeadingsAreInts DEF TypeOK
    <3>2. Segment.heading - heading \in Int
      BY <3>1
    <3>. QED  BY <3>2, SameFacts
  <2>4. CASE turn.asked = 0
    <3>1. Abs(HeadingError(yawNow)) <= Threshold
      BY <2>1, <2>2, <2>4 DEF CorrectionFacts
    <3>2. HeadingError(yawNow) = Wrap(Segment.heading - heading)
      BY <2>1, <2>2, ErrorIsTrue
    <3>. QED  BY <2>3, <3>1, <3>2, AngleConstants DEF Most, Abs
  <2>5. CASE turn.asked # 0
    <3>1. Abs(Wrap(turn.asked - Wrap(yawNow - turn.start))) <= Tolerance
      BY <2>1, <2>5 DEF CompletedMeansTurned
    <3>2. turn.asked = HeadingError(turn.start) /\ turn.start \in Headings
      BY <2>1, <2>2, <2>5 DEF CorrectionFacts, Driven, TypeOK
    <3>3. Wrap(turn.asked - Wrap(yawNow - turn.start)) = Wrap(Segment.heading - heading)
      BY <2>1, <2>2, <3>2, ErrorIsTrue
    <3>. QED  BY <2>3, <3>1, <3>3, AngleConstants DEF Most, Abs
  <2>. QED  BY <2>4, <2>5
<1>. QED  BY <1>1, <1>2, <1>3, PTL DEF Spec
=============================================================================
