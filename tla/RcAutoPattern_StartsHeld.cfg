CONSTANTS
  Steps <- MCSteps
  Grace = 2
  ArmMs = 3
  PauseMs = 1
  Retries = 2
  MaxPass = 2
  LaneMs = 6
  StepMs = 2
  TurnMs = 2
  MaxLanes = 14

SPECIFICATION Spec
PROPERTIES StartsHeld
