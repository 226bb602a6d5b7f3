--------------------------- MODULE MCRcAutoPattern ---------------------------
(* Model-checking instance of RcAutoPattern: the four lanes of the default   *)
(* layout.                                                                   *)
EXTENDS RcAutoPattern, PatternSteps

MCSteps == BuildSteps(4)

\* README_physical_path_planning.md:229-231: a run sets out on the lawnmower,
\* whatever number of lanes the build was given: no corner walks back over a row
\* and no step falls off the end of the array.
RunsTheLawnmower == state = "RUNNING" /\ index = 1 => PatternIsLawnmower
=============================================================================
