SPECIFICATION MCSpec
CONSTANTS
  Client = {a, b}
  Bot = Bot
  Country = {k1, k2}
  Score <- HomeOrAway
  None = None
  MaxMatches = 1
  MaxSeason = 2
  MaxOpen = 2
  \* Two players of one country, and one of another, who search once.
  c1 = c1
  c2 = c2
  c3 = c3
  Searcher = {c1, c2, c3}
  CountryOf <- TwoAndOne
  MaxSearches <- Once
  MaxRestarts = 1
  Null = Null
  \* Two friends and their fixture, with three requests at a time.
  Friend = {1, 2}
  Result <- HomeOrAway
  Nothing = Nothing
  MaxStarts = 1
  Watched = {1}
  MaxCalls = 3
  MaxSchedule = 8
  \* Three clients of the Node server, one of whom comes back on a second socket.
  ClientOf <- FourSockets
  Nil = Nil
  MaxMembers = 2
  MaxMessages = 3
SYMMETRY Exchanged
INVARIANTS VerdictIsTheirs ReservedOnce SeatedTogether ReportsDecide EveryPairOnce NeverOverfull
PROPERTIES ReportsStand TableOnlyGrows
CHECK_DEADLOCK FALSE
