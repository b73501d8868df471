SPECIFICATION MCSpec
CONSTANTS
  a = a
  b = b
  Callers = {"x", "y"}
  Urls <- MCUrls
  Bodies = {"ok", "error"}
  Accepted = {"ok"}
  MaxAttempts = 2
  Threshold = 2
  Interval = 1
  Backoff = 1
  Recovery = 2
  CacheTtl = 2
  Flight = 1
  MaxSlot = 1
  Matrices <- MCMatrices
  MaxPairs = 2
  Singles <- MCSingles
  Forecast = Forecast
  NoWork = NoWork
  Clients = {"adapter", "h1", "h2"}
  Adapter = "adapter"
  Pages <- MCPages
  Allowed = {"b", "c"}
  PageLimit = 2
  MaxId = 6
INVARIANTS
  OpensAfterFailuresInARow
  AnswersAreFresh
  MatrixIsWhole
  AnswerIsOwn
PROPERTIES
  SendsAreSpaced
  ToolsEnd
  MismatchOnlyAfterStray
