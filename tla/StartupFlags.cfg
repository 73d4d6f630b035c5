SPECIFICATION Spec
CONSTANTS
  NoFile = NoFile
  Torn = Torn
  Process = {p1}
  Setting = {"client", "taco", "upload", "keyPath", "dao", "batchSize", "clientTimeout"}
  MaxRuns = 1
  MaxFlags = 1
CHECK_DEADLOCK FALSE
INVARIANT OnlyGivenOverridden
