SPECIFICATION HostFairSpec
CONSTANTS
  RcRequired = TRUE
  Stage20 = TRUE
  LiveEnabled = TRUE
  MaxMs = 1
  LiveMaxMs = 1
  LiveTtl = 1
  HbPeriod = 1
  MaxStep = 1
  Seqs = {s1}
  Shots <- MCShots
  Setpoints <- MCSetpoints
  LinkCap = 2
  MayCrash = TRUE
INVARIANTS SettlesDisarmed PulseBounded MotionBounded
PROPERTIES CrashComesToRest CallsAreGuarded
