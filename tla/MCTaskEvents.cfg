SPECIFICATION TFairSpec
CONSTANTS
  r1 = r1
  w1 = w1
  w2 = w2
  first = first
  second = second
  doneFirst = doneFirst
  doneSecond = doneSecond
  stray = stray
  p1 = p1
  p2 = p2
  NoWorker = NoWorker
  NoJob = NoJob
  NoPublisher = NoPublisher
  NoEvent = NoEvent
  Runs = {r1}
  Workers = {w1, w2}
  Publishers = {p1}
  Tasks <- MCTasks
  RunOf <- MCRunOf
  Deps <- MCDeps
  Rank <- MCRank
  MaxAttempts <- MCMaxAttempts
  Delay <- MCDelay
  Deadline <- MCDeadline
  Forever <- MCForever
  CompletionOf <- MCCompletionOf
  Events <- MCEvents
  KeyOf <- MCKeyOf
  EventRank <- MCEventRank
  EventDelay <- MCEventDelay
  LeaseSeconds = 1
  MaxStep = 0
  OutboxLease = 1
  Limit = 1
  MaxFaults = 1
INVARIANTS
  SucceededIffCommitted
  ToldIsSettled
PROPERTIES
  SuccessIsPublished
