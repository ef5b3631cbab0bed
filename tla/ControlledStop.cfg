SPECIFICATION FairSpec
CONSTANTS
  Controllers = {c1, c2}
  c1 = c1
  c2 = c2
  None = None
  Tries = 2
  MaxRequest = 1
  MaxGeneration = 2
  MaxLosses = 1
  Concurrent = FALSE
  LeasesMayLapse = TRUE
INVARIANTS
  TypeOK
  DrainIsCovered
  PermitKeepsAttempt
PROPERTIES
  SignalOnlyOnPermit
  CommitUndoneOnlyExpired
  StopEnds
CHECK_DEADLOCK FALSE
