SPECIFICATION FairSpec
CONSTANTS
  Input = {0}
  Idle = 0
  None = None
  Delay = 1
  HashEvery = 2
  MaxHistory = 4
  MaxCatchUp = 1
  HalfLen = 2
  MaxTick = 4
  MaxPauses = 0
  MayQuit = FALSE
  MayFail = FALSE
CHECK_DEADLOCK FALSE
PROPERTY GuestFollowsHost
