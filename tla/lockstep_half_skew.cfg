SPECIFICATION Spec
CONSTANTS
  Input = {0, 1}
  Idle = 0
  None = None
  Delay = 1
  HashEvery = 2
  MaxHistory = 4
  MaxCatchUp = 2
  HalfLen = 2
  MaxTick = 4
  MaxPauses = 0
  MayQuit = FALSE
  MayFail = FALSE
CHECK_DEADLOCK FALSE
INVARIANT PlayedAlike
