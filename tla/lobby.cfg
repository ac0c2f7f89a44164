CONSTANTS
  None = None
  Host = ann
  Guest = bob
  Mode = {"friend", "ranked"}
  MaxAttempts = 2
  Budget = 3
  Socket <- Attempt
  Holder <- Self
  Code <- HostAttempt
SPECIFICATION Spec
INVARIANTS OwnAttemptOnly SameMatch NoCandidateLost
  NoSocketForgotten LobbyEnds StartTogether
CHECK_DEADLOCK FALSE
