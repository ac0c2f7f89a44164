SPECIFICATION MCSpec
CONSTANTS
  \* A player each of two countries, one of whom searches again.
  c1 = c1
  c2 = c2
  c3 = c3
  Searcher = {c2, c3}
  CountryOf <- OneEach
  MaxSearches <- Again
  MaxRestarts = 1
  Null = Null
  \* A room and the sockets of two clients.
  ann = ann
  bob = bob
  None = None
  Code = {code}
  Socket <- SocketNames
  Holder <- ThreeSockets
  Creator = ann
  Rostered = {ann, bob}
  MaxSaid = 1
INVARIANTS PairAgrees SeatIffSocket PresenceAgrees
PROPERTIES CancelIsFinal SearchEnds
CHECK_DEADLOCK FALSE
