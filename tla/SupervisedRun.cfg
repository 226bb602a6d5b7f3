SPECIFICATION FairSpec
CONSTANTS
  Full = 8
  Tolerance = 0
  Threshold = 0
  Stall = 1
  PerPulse = 1
  None = None
  Plan <- MCPlan
  Options <- MCOptions
  TurnPulses = 2
  FixedPulses = 1
  MaxBursts = 2
  MaxAdvance = 2
  MaxTurn = 2
  YawZero = 3
INVARIANTS PlanIsDrivable CallsAreHeeded RestsUnlessUnplugged CompletedMeansTurned CorrectsHeading OverrunBounded
PROPERTY RunEnds
CHECK_DEADLOCK FALSE
