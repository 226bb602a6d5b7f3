SPECIFICATION Spec
CONSTANTS
  Primitives <- MCPrimitives
  MinMs = 250
  MaxMs = 2400
  MaxAbs = 300
  MaxTrials = 3
  Proposals <- MCProposals
  MaxClock = 2
  MaxJobs = 2
INVARIANTS
  StoreValid
  ApprovedWasDriven
PROPERTIES
  BackupKeepsValues
  KeepsStore
CHECK_DEADLOCK FALSE
