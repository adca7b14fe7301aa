SPECIFICATION Spec
CONSTANTS
  MaxKeys = 2
  ChanCap = 1
INVARIANT TerminalRestored
CHECK_DEADLOCK FALSE
