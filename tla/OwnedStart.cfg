SPECIFICATION Spec
CONSTANTS
  Supervisors = {s1, s2}
  NoOne = NoOne
  MaxLaunch = 2
  MaxOwner = 3
  MaxLosses = 1
SYMMETRY Symmetry
CHECK_DEADLOCK FALSE
INVARIANTS
  TypeOK
  NoEngineForgotten
  OneColdStart
  OwnerWasAttempted
  RecordNotAhead
PROPERTIES
  RecordKept
