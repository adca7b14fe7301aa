SPECIFICATION FairSpec
CONSTANTS
  MaxKeys = 4
  ChanCap = 1
INVARIANTS KeysInterpreted NoRunningCleanedUp QuitStopsContainer
PROPERTY RunReturns
CHECK_DEADLOCK FALSE
