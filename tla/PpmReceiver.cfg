SPECIFICATION Spec
CONSTANTS
  Sent = 3
  Widths <- MCWidths
  Gap = 40
  Glitches <- MCGlitches
  Stored = 3
  Sticks <- MCSticks
  Mode = 1
  Sync = 30
  CaptureMin = 8
  MinValid = 9
  MaxValid = 21
  AutoOn = 16
  Timeout = 2
  Word = 4
  MaxFaults = 1
INVARIANTS SelfSynchronises TwoFramesAtMost ValidIsRecent LossIsReal
PROPERTIES CleanFramesCount
