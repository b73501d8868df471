SPECIFICATION FairSpec
CONSTANTS
  nA = nA
  nB = nB
  nC = nC
  nD = nD
  nE = nE
  Nodes <- FanNodes
  Deps <- FanDeps
  MaxAttempts <- FanAttempts
  MaxConcurrency = 2
  RetryDelay = TRUE
INVARIANTS
  StartsAfterDependencies
  ReturnsComplete
PROPERTIES
  RunEnds
