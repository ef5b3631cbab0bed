SPECIFICATION Spec
CONSTANTS
  Proc = {p1, p2}
  None = None
  Torn = Torn
  MaxLaunch = 1
  MaxRevision = 2
  MaxRequest = 1
  MaxGeneration = 2
  DirectorySyncMayFail = FALSE
SYMMETRY ProcSymmetry
INVARIANTS
  PendingControlReadable
CHECK_DEADLOCK FALSE
