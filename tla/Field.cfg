SPECIFICATION FieldSpec
CONSTANTS
  Half = 5
  Tolerance = 1
  MaxSwing = 1
  MaxSamples = 6
  MaxRows = 2
  MaxPlans = 2
  MaxSessions = 1
INVARIANTS
  DrivesOnePlan
  LicensedMotion
  AlignedFacesTarget
CHECK_DEADLOCK FALSE
