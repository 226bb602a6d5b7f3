CONSTANTS
  Timeout = 1
  MaxLoop = 1
  InboxCap = 1
SPECIFICATION Spec
PROPERTIES
  NoResumeAfterFailsafe
