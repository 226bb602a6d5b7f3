SPECIFICATION Spec
CONSTANTS
  Full = 8
  Tolerance = 0
  Threshold = 0
  Stall = 1
  PerPulse = 1
  None = None
  Plan <- MCPlan
  Options <- SkyOptions
  TurnPulses = 2
  FixedPulses = 1
  MaxBursts = 2
  MaxAdvance = 2
  MaxTurn = 2
  YawZero = 3
PROPERTY DeadReckonKeepsSide
CHECK_DEADLOCK FALSE
