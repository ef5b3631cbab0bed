SPECIFICATION Spec
CONSTANTS
  Proc = {p1, p2}
  None = None
  Torn = Torn
  MaxLaunch = 2
  MaxRevision = 2
  MaxRequest = 1
  MaxGeneration = 2
  DirectorySyncMayFail = FALSE
SYMMETRY ProcSymmetry
INVARIANTS
  TypeOK
  RecordHasSecret
  ControlHasSecret
  PendingStartHasSecret
  LiveControlIsCurrent
PROPERTIES
  RecordAdvances
  ClaimNotStolen
  ImplementsRegister
CHECK_DEADLOCK FALSE
