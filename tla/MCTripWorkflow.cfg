SPECIFICATION TripSpec
CONSTANTS
  run = run
  c1 = c1
  c2 = c2
  s1 = s1
  s2 = s2
  Calls <- MCCalls
  RunOfCall <- MCRunOfCall
  Sessions <- MCSessions
  RepairRun = run
  MaxRounds = 1
  Reviews <- MCReviews
  HandlerLooks = FALSE
  NoArtifact = NoArtifact
  NoRecord = NoRecord
  Artifacts <- MCArtifacts
  Slots <- MCSlots
  RunOf <- MCRunOf
  MaxVersion = 4
\* Calls and sessions end.
CHECK_DEADLOCK FALSE
INVARIANTS
  ResultIsOneCall
  StaleOnlyIfReported
  RepairsExactlyDownstream
PROPERTIES
  WorkSettles
