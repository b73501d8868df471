SPECIFICATION Spec
CONSTANTS
  DayLength = 24
  NoRoute = NoRoute
  Requests <- MCRequests
  Destinations <- MCDestinations
  Mobilities <- MCMobilities
  Matrices <- MCMatrices
  Drafts <- MCDrafts
  MaxRounds = 1
INVARIANTS
  BundleIsFeasible
  OptimizerKeepsHardRules
  StrategiesDeliver
  ReviewFindsOnlyUnseen
  PassIsFinal
CHECK_DEADLOCK FALSE
