SPECIFICATION Spec
CONSTANTS
  NoFile = NoFile
  Torn = Torn
  Process = {p1, p2}
  Setting = {"taco", "upload", "keyPath"}
  MaxRuns = 3
  MaxFlags = 1
CHECK_DEADLOCK FALSE
INVARIANTS
  SessionsKept
  RowNamesKey
PROPERTY SharedKeyNeverReplaced
SYMMETRY ProcessSymmetry
