---------------------------- MODULE PatternSteps ----------------------------
(* The lawnmower that rcAutoPatternBuildSteps lays out: lanes along the      *)
(* body's heading at the start, forward and reverse in turn, joined by       *)
(* corners of two pivots around a step-over.  Headings count in turn         *)
(* targets (90 degrees), A is 1 forward and -1 in reverse, and a drive of ms *)
(* ticks covers ms units of length.                                          *)
EXTENDS Integers, Sequences, SequencesExt

CONSTANTS
  LaneMs,     \* RC_AUTO_PATTERN_LANE_MS
  StepMs,     \* RC_AUTO_PATTERN_STEP_MS
  TurnMs,     \* RC_AUTO_PATTERN_TURN_TIMEOUT_MS
  MaxLanes    \* bound: the lane counts a build may ask for, in PatternIsLawnmower

\* RC_AUTO_PATTERN_MAX_STEPS
MaxSteps == 64

\* A full array takes no further step.
Push(steps, step) == IF Len(steps) >= MaxSteps THEN steps ELSE Append(steps, step)

PushDrive(steps, a, ms, body) ==
  Push(steps, [type |-> "drive", a |-> a, ms |-> ms, target |-> 0, body |-> body])

PushTurn(steps, target, body) ==
  Push(steps, [type |-> "turn", a |-> 0, ms |-> TurnMs, target |-> target, body |-> body])

Lanes(asked) == IF asked < 1 THEN 1 ELSE IF asked > 12 THEN 12 ELSE asked

\* Mutant for RunsTheLawnmower: the step-over of a return lane drives ahead.
CornerAhead(steps, dir) ==
  PushTurn(PushDrive(PushTurn(steps, dir, dir), 1, StepMs, dir), -dir, 0)

\* Pivot away, drive the step-over the way the lane was driven, pivot back.
Corner(steps, dir) ==
  PushTurn(PushDrive(PushTurn(steps, dir, dir), dir, StepMs, dir), -dir, 0)

BuildSteps(asked) ==
  LET n == Lanes(asked)
      dir(lane) == IF lane % 2 = 0 THEN 1 ELSE -1
      AddLane(steps, lane) ==
        LET driven == PushDrive(steps, dir(lane), LaneMs, 0)
        IN  IF lane = n - 1 THEN driven ELSE Corner(driven, dir(lane))
  IN  FoldLeft(AddLane, <<>>, [i \in 1..n |-> i - 1])

-----------------------------------------------------------------------------
\* Where a step leaves a rover that follows it exactly.
After(p, step) ==
  LET d == step.a * step.ms
  IN  IF step.body = 0 THEN <<p[1] + d, p[2]>> ELSE <<p[1], p[2] + step.body * d>>

\* The places where the drives of a pattern end, from the origin on.
Path(steps) ==
  FoldLeft(LAMBDA path, s : IF s.type = "turn" THEN path ELSE Append(path, After(Last(path), s)),
           <<<<0, 0>>>>, steps)

\* Row after row, each from the end where the last one stopped, always further
\* from the first.
Lawnmower(n) ==
  [p \in 1..2 * n |->
     <<IF (p \div 2) % 2 = 1 THEN LaneMs ELSE 0, ((p - 1) \div 2) * StepMs>>]

\* Each pivot turns by what its heading differs from the one before, and a drive
\* keeps the heading it finds.
HeadingsChain(steps) ==
  \A k \in 1..Len(steps) :
    steps[k].target = steps[k].body - (IF k = 1 THEN 0 ELSE steps[k - 1].body)

\* The steps drive the lawnmower for every lane count a build may ask for.
PatternIsLawnmower ==
  \A asked \in -1..MaxLanes :
    LET steps == BuildSteps(asked)
    IN  Path(steps) = Lawnmower(Lanes(asked)) /\ HeadingsChain(steps)
=============================================================================
