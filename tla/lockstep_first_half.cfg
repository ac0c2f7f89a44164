SPECIFICATION FewerSpec
CONSTANTS
  Input = {0, 1}
  Idle = 0
  None = None
  Delay = 1
  HashEvery = 2
  MaxHistory = 4
  MaxCatchUp = 2
  HalfLen = 9
  MaxTick = 3
  MaxPauses = 1
  MayQuit = FALSE
  MayFail = FALSE
CHECK_DEADLOCK FALSE
INVARIANTS
  TypeOK
  PlayedAlike
  NoFalseAlarm
  OwnInputStaged
  BoundedSkew
  PauseHasResumer
PROPERTIES
  SentTicksFrozen
  OneHistory
  Progress
