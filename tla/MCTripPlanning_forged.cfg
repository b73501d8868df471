SPECIFICATION Spec
CONSTANTS
  DayLength = 24
  NoRoute = NoRoute
  Requests <- ForgedRequests
  Destinations <- MCDestinations
  Mobilities <- MCMobilities
  Matrices <- MCMatrices
  Drafts <- ForgedDrafts
  MaxRounds = 1
INVARIANTS
  PublishedKeepsHardConstraints
CHECK_DEADLOCK FALSE
