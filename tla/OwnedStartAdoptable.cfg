SPECIFICATION Spec
CONSTANTS
  Supervisors = {s1, s2}
  NoOne = NoOne
  MaxLaunch = 1
  MaxOwner = 2
  MaxLosses = 0
SYMMETRY Symmetry
CHECK_DEADLOCK FALSE
INVARIANTS
  AdoptableRecord
