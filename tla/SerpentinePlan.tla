---------------------------- MODULE SerpentinePlan ----------------------------
(* The segments that geometry.py lays over a coverage rectangle whose axes are *)
(* those of the local frame: lanes driven forward and backward in turn, and    *)
(* between two of them a corner of a pivot, a short straight and a pivot.      *)
(* Distances are counted in a unit that divides all of them, headings in       *)
(* quarter turns to the left of the local x axis.                              *)
EXTENDS Integers, Sequences, SequencesExt

CONSTANTS
  Nominal,    \* nominal_forward_pulse_m
  MaxPulses   \* max_segment_pulses

Mag(n) == IF n < 0 THEN -n ELSE n
Lesser(a, b) == IF a < b THEN a ELSE b
Greater(a, b) == IF a > b THEN a ELSE b
CeilDiv(n, d) == (n + d - 1) \div d
Moved(at, way, by) == <<at[1] + by * way[1], at[2] + by * way[2]>>

\* Wrapped into one turn, half a turn being left.
WrapQuarters(q) == CHOOSE r \in -1..2 : (q - r) % 4 = 0

\* The unit vector of a heading, and the heading from one point to another on
\* the same line of the grid.
Way(q) == CASE q % 4 = 0 -> <<1, 0>> [] q % 4 = 1 -> <<0, 1>>
            [] q % 4 = 2 -> <<-1, 0>> [] OTHER -> <<0, -1>>
HeadingTo(from, to) ==
  CHOOSE q \in -1..2 : \E by \in 1..Mag(to[1] - from[1]) + Mag(to[2] - from[2]) :
    Moved(from, Way(q), by) = to

-----------------------------------------------------------------------------
\* The larger component of the goal is the way of the lanes; the width lies on
\* the side of the other.
build_axis_aligned_lawnmower_workspace(goal, width, spacing) ==
  LET east == Mag(goal[1]) >= Mag(goal[2])
      sign(n) == IF n < 0 THEN -1 ELSE 1
  IN [u |-> IF east THEN <<sign(goal[1]), 0>> ELSE <<0, sign(goal[2])>>,
      v |-> IF east THEN <<0, sign(goal[2])>> ELSE <<sign(goal[1]), 0>>,
      length |-> IF east THEN Mag(goal[1]) ELSE Mag(goal[2]),
      width |-> width, spacing |-> spacing]

\* A lane on either edge and every spacing between them.
track_offsets(ws) ==
  [i \in 1..CeilDiv(ws.width, ws.spacing) + 1 |-> Lesser((i - 1) * ws.spacing, ws.width)]

point_on_rectangle(ws, along, across) == Moved(Moved(<<0, 0>>, ws.u, along), ws.v, across)

pulse_budget(length) == Greater(1, Lesser(MaxPulses, CeilDiv(length, Nominal)))

Straight(type, motion, from, to) ==
  LET travel == HeadingTo(from, to)
      length == Mag(to[1] - from[1]) + Mag(to[2] - from[2])
  IN [type |-> type, motion |-> motion, start |-> from, end |-> to,
      target |-> travel, body |-> IF motion = "forward" THEN travel ELSE WrapQuarters(travel + 2),
      angle |-> 0, length |-> length, tool |-> type # "step_lane", budget |-> pulse_budget(length)]

connector_turn_segment(at, before, after) ==
  LET angle == WrapQuarters(after - before)
  IN [type |-> "connector_turn", motion |-> IF angle >= 0 THEN "turn_left" ELSE "turn_right",
      start |-> at, end |-> at, target |-> after, body |-> after,
      angle |-> angle, length |-> 0, tool |-> FALSE, budget |-> 1]

Motion(lane) == IF lane % 2 = 1 THEN "forward" ELSE "backward"

LaneSegment(ws, lane) ==
  LET near == point_on_rectangle(ws, 0, track_offsets(ws)[lane])
      far == point_on_rectangle(ws, ws.length, track_offsets(ws)[lane])
  IN IF Motion(lane) = "forward" THEN Straight("forward_lane", "forward", near, far)
     ELSE Straight("backward_lane", "backward", far, near)

\* The step-over goes on the way the lane was driven, so that the body stands as
\* the next lane needs it.
StepSegment(ws, lane) ==
  Straight("step_lane", Motion(lane), LaneSegment(ws, lane).end, LaneSegment(ws, lane + 1).start)

\* Mutant for PlanIsDrivable: the pivots face the way of travel, not the body's.
CornerToTravel(ws, lane) ==
  LET from == LaneSegment(ws, lane)
      step == StepSegment(ws, lane)
      to == LaneSegment(ws, lane + 1)
  IN <<connector_turn_segment(from.end, from.target, step.target), step,
       connector_turn_segment(step.end, step.target, to.target)>>

Corner(ws, lane) ==
  LET from == LaneSegment(ws, lane)
      step == StepSegment(ws, lane)
      to == LaneSegment(ws, lane + 1)
  IN <<connector_turn_segment(from.end, from.body, step.body), step,
       connector_turn_segment(step.end, step.body, to.body)>>

\* connector_style turn_step_turn, the default.
build_serpentine_segments(ws) ==
  LET lanes == Len(track_offsets(ws))
      AddLane(segments, lane) ==
        Append(segments, LaneSegment(ws, lane))
          \o (IF lane < lanes THEN Corner(ws, lane) ELSE <<>>)
  IN FoldLeft(AddLane, <<>>, [lane \in 1..lanes |-> lane])

-----------------------------------------------------------------------------
\* A rover that turns its body by the angle of each turn and drives each
\* straight by its length, ahead or astern.
Follow(pose, segment) ==
  [body |-> (pose.body + segment.angle) % 4,
   at |-> Moved(pose.at, Way(pose.body),
                IF segment.motion = "backward" THEN -segment.length ELSE segment.length)]

\* ... is, segment for segment, where the plan says and faces as it says.
FollowsPlan(segments) ==
  LET poses == [k \in 0..Len(segments) |->
                  FoldLeft(Follow, [body |-> segments[1].body % 4, at |-> <<0, 0>>],
                           SubSeq(segments, 1, k))]
  IN \A k \in 1..Len(segments) :
       /\ poses[k - 1].at = segments[k].start
       /\ poses[k] = [body |-> segments[k].body % 4, at |-> segments[k].end]

\* Every point of the rectangle is within half a spacing of a straight on which
\* the tool works.
Near(ws, point, segment) ==
  \E along \in 0..segment.length :
    LET on == Moved(segment.start, Way(segment.target), along)
    IN 2 * (Mag(point[1] - on[1]) + Mag(point[2] - on[2])) <= ws.spacing
Covers(ws, segments) ==
  \A along \in 0..ws.length, across \in 0..ws.width :
    \E k \in 1..Len(segments) :
      segments[k].tool /\ Near(ws, point_on_rectangle(ws, along, across), segments[k])

\* A straight's pulses are enough for its length, unless there is a limit to them.
Affords(segments) ==
  \A k \in 1..Len(segments) :
    segments[k].budget = MaxPulses \/ segments[k].budget * Nominal >= segments[k].length

PlansAreDrivable(goals, widths, spacings) ==
  \A goal \in goals, width \in widths, spacing \in spacings :
    LET ws == build_axis_aligned_lawnmower_workspace(goal, width, spacing)
        segments == build_serpentine_segments(ws)
    IN FollowsPlan(segments) /\ Covers(ws, segments) /\ Affords(segments)
=============================================================================
