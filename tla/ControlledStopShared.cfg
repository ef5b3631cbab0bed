SPECIFICATION Spec
CONSTANTS
  Controllers = {c1, c2}
  c1 = c1
  c2 = c2
  None = None
  Tries = 2
  MaxRequest = 2
  MaxGeneration = 2
  MaxLosses = 0
  Concurrent = TRUE
  LeasesMayLapse = FALSE
SYMMETRY Symmetry
INVARIANTS
  DrainIsCovered
  PermitKeepsAttempt
PROPERTIES
  SignalOnlyOnPermit
CHECK_DEADLOCK FALSE
