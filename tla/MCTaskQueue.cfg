SPECIFICATION FairSpec
CONSTANTS
  r1 = r1
  r2 = r2
  w1 = w1
  w2 = w2
  first = first
  second = second
  NoWorker = NoWorker
  NoJob = NoJob
  Runs <- MCRuns
  Workers <- MCWorkers
  Tasks <- MCTasks
  RunOf <- MCRunOf
  Deps <- MCDeps
  Rank <- MCRank
  MaxAttempts <- MCMaxAttempts
  Delay <- MCDelay
  Deadline <- MCDeadline
  Forever <- MCForever
  LeaseSeconds = 2
  MaxStep = 1
INVARIANTS
  LeaseHolderUndisturbed
  CheckpointsContiguous
PROPERTIES
  ImplementsLifecycle
  TasksSettle
