SPECIFICATION HostSpec
CONSTANTS
  RcRequired = TRUE
  Stage20 = TRUE
  LiveEnabled = FALSE
  MaxMs = 1
  LiveMaxMs = 1
  LiveTtl = 1
  HbPeriod = 1
  MaxStep = 1
  Seqs = {s1}
  Shots <- MCShots
  Setpoints <- MCNoSetpoints
  LinkCap = 3
  MayCrash = FALSE
PROPERTIES CompleteMeansEnded
