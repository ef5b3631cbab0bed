SPECIFICATION Spec
CONSTANTS
  Proc = {p1, p2}
  None = None
  Torn = Torn
  MaxLaunch = 1
  MaxRevision = 2
  MaxRequest = 1
  MaxGeneration = 2
  DirectorySyncMayFail = TRUE
SYMMETRY ProcSymmetry
PROPERTIES
  UndoRemovesUnreferenced
CHECK_DEADLOCK FALSE
