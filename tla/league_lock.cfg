SPECIFICATION Spec
CONSTANTS
  Client = {a, b}
  Bot = Bot
  Country = {k1, k2}
  Score <- HomeOrAway
  None = None
  MaxMatches = 1
  MaxSeason = 2
  MaxOpen = 2
PROPERTY LockedWeekly
CHECK_DEADLOCK FALSE
