SPECIFICATION FairSpec
CONSTANTS
  RcRequired = TRUE
  Stage20 = TRUE
  LiveEnabled = FALSE
  MaxMs = 3
  LiveMaxMs = 1
  LiveTtl = 1
  HbPeriod = 2
  MaxStep = 2
  Seqs = {s1}
INVARIANTS MotionBounded PilotWins LossRevokes
PROPERTIES Guarded PulseEnds
