SPECIFICATION ShellSpec
CONSTANTS
  MaxPairings = 2
  MaxLoads = 1
INVARIANT RecordIsThisMatch
CHECK_DEADLOCK FALSE
