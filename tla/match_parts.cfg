SPECIFICATION MCSpec
CONSTANTS
  None = None
  Outfielders = 2
  SetupTicks = 2
  IdleTicks = 2
  AITicks = 1
  GoalTicks = 1
  BufferTicks = 1
  PassTicks = 1
  ChargeTicks = 1
  HoldTicks = 1
  AIHold = {0, 1}
  LockTicks = 2
  \* Frames of half a tick, a whole one, and of two and a half.
  Delay = 1
  TickTime = 2
  Elapsed = {1, 2, 5}
  MaxDebt = 6
  MaxCatchUp = 2
  MaxPresses = 2
  MaxTick = 2
  MaxResyncs = 1
  \* Three opponents, one after the other, on a page that is loaded twice.
  MaxPairings = 3
  MaxLoads = 2
  \* Two renders of two frames at most.
  MaxFrames = 2
  MaxRuns = 2
  \* The frame rates of the tool; scenes of their default length, much shorter and longer.
  Rates = {24, 30, 60}
  Durations = {2000, 12000}
  Styles = {"central", "wing", "counter"}
INVARIANTS RestartTaken EachEdgeOnce VerdictIsThisMatch WaitIsServed
  NothingLeftRunning ExitIsTrue NothingTwice SaidAsSeen
PROPERTIES PressStands MatchNotLeft InStep
CHECK_DEADLOCK FALSE
