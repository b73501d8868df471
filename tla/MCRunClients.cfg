SPECIFICATION AppSpec
CONSTANTS
  r1 = r1
  r2 = r2
  k1 = k1
  t1 = t1
  Runs = {r1, r2}
  Keys = {k1}
  Tabs = {t1}
  Requests = {"beijing", "elsewhere"}
  Supported = {"beijing"}
  Instructions = {"relaxed"}
  Unused = Unused
  Deleted = Deleted
  Nothing = Nothing
  MaxOpen = 2
  MaxClarified = 1
SYMMETRY MCSymmetry
INVARIANTS
  OneKeyPerRun
  HistoryIsConsistent
  ReplanBuildsOnDisplay
PROPERTIES
  VersionsArePermanent
CHECK_DEADLOCK FALSE
