--------------------------- MODULE MCSupervisedRun ---------------------------
(* A lane, a corner of two quarter turns and the lane back, as the planner    *)
(* lays them out.                                                             *)
EXTENDS SupervisedRun

Planner == INSTANCE SerpentinePlan WITH Nominal <- 2, MaxPulses <- 3

Serpentine ==
  Planner!build_serpentine_segments(
    Planner!build_axis_aligned_lawnmower_workspace(<<1, 0>>, 1, 1))

\* A segment as the controllers read it: a lane keeps the heading of the body.
AsDriven(s) ==
  [kind |-> IF s.type = "connector_turn" THEN "turn" ELSE "lane",
   way |-> IF s.motion = "backward" THEN -1 ELSE 1, length |-> s.length,
   heading |-> (s.body * (Full \div 4)) % Full, angle |-> s.angle * (Full \div 4)]

\* The step-over between the turns, a lane across the axis on which places are
\* counted, is left out.
MCPlan ==
  LET driven == SelectSeq(Serpentine, LAMBDA s : s.type # "step_lane")
  IN [i \in 1..Len(driven) |-> AsDriven(driven[i])]

Run(loop) ==
  [loop |-> loop, auto |-> FALSE, policy |-> "continue", reanchor |-> TRUE,
   mission |-> TRUE, startYaw |-> YawZero, jump |-> None, fallback |-> TRUE,
   fixedTurns |-> FALSE, clearSky |-> TRUE, spread |-> "none",
   chunks |-> 2]

Loops == {"scg", "continuous", "pulse"}

\* Everything the sky does to one loop, under arguments that differ in one place.
Cloudy(loop) == [Run(loop) EXCEPT !.clearSky = FALSE]

MCOptions ==
       {[Run(loop) EXCEPT !.auto = TRUE] : loop \in Loops}
  \cup {[Run(loop) EXCEPT !.spread = "lanes", !.chunks = 4] : loop \in Loops}
  \cup {[Run(loop) EXCEPT !.spread = "turns"] : loop \in Loops}
  \cup {Cloudy(loop) : loop \in Loops}
  \cup {[Cloudy(loop) EXCEPT !.policy = policy] : loop \in Loops, policy \in {"abort", "pause"}}
  \cup {[Cloudy("scg") EXCEPT !.startYaw = None], [Cloudy("scg") EXCEPT !.jump = 3],
        [Cloudy("scg") EXCEPT !.fallback = FALSE], [Run("scg") EXCEPT !.mission = FALSE],
        [Run("pulse") EXCEPT !.fixedTurns = TRUE], [Cloudy("continuous") EXCEPT !.reanchor = FALSE]}

\* For the claim the code does not keep.
SkyOptions == {Cloudy("scg")}

-----------------------------------------------------------------------------
MCGoals == {<<x, y>> : x, y \in -3..3} \ {<<0, 0>>}

\* geometry.py:590: corners have to align the body for the next lane to start as
\* planned. Whatever the goal, the width and the spacing, a rover that turns and
\* drives by the segments is where the plan says after each of them, the tool
\* passes over the whole rectangle, and no budget is too small for its straight.
PlanIsDrivable ==
  pc = "segment" /\ seg = 1 /\ opt = Cloudy("scg") => Planner!PlansAreDrivable(MCGoals, 1..4, 1..3)
=============================================================================
