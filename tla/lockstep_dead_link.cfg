SPECIFICATION FairSpec
CONSTANTS
  Input = {0}
  Idle = 0
  None = None
  Delay = 1
  HashEvery = 2
  MaxHistory = 4
  MaxCatchUp = 2
  HalfLen = 9
  MaxTick = 3
  MaxPauses = 0
  MayQuit = FALSE
  MayFail = TRUE
CHECK_DEADLOCK FALSE
PROPERTY DeadLinkNoticed
