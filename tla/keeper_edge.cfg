SPECIFICATION Spec
CONSTANTS
  None = None
  Outfielders = 1
  SetupTicks = 2
  IdleTicks = 2
  AITicks = 1
  GoalTicks = 1
  BufferTicks = 1
  PassTicks = 1
  ChargeTicks = 1
  HoldTicks = 1
  AIHold = {0, 1}
  LockTicks = 2
INVARIANT OneEdgeOneAction
CHECK_DEADLOCK FALSE
