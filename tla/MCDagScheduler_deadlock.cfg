SPECIFICATION Spec
CONSTANTS
  nA = nA
  nB = nB
  nC = nC
  nD = nD
  nE = nE
  Nodes <- ChainNodes
  Deps <- ChainDeps
  MaxAttempts <- ChainAttempts
  MaxConcurrency = 1
  RetryDelay = FALSE
INVARIANTS
  NeverDeadlocked
