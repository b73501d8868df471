SPECIFICATION Spec
CONSTANTS
  r1 = r1
  r2 = r2
  intel = intel
  matrix = matrix
  other = other
  a1 = a1
  a2 = a2
  a3 = a3
  a4 = a4
  NoArtifact = NoArtifact
  NoRecord = NoRecord
  Artifacts <- MCArtifacts
  Slots <- MCSlots
  RunOf <- MCRunOf
  MaxVersion = 3
\* The artifact ids run out.
CHECK_DEADLOCK FALSE
INVARIANTS
  LineageIsTopological
PROPERTIES
  ImplementsLog
