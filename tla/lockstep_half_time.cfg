SPECIFICATION FairSpec
CONSTANTS
  Input = {0}
  Idle = 0
  None = None
  Delay = 1
  HashEvery = 2
  MaxHistory = 6
  MaxCatchUp = 3
  HalfLen = 1
  MaxTick = 5
  MaxPauses = 1
  MayQuit = TRUE
  MayFail = TRUE
CHECK_DEADLOCK FALSE
PROPERTY LeaveTogether
