CONSTANTS
  Timeout = 2
  MaxLoop = 1
  InboxCap = 2
SPECIFICATION FairSpec
INVARIANTS EstopSilences StationDeadline CommandsExclusive
PROPERTIES Authority SilenceStops PilotRegains
