SPECIFICATION FairSpec
CONSTANTS
  MaxPrompts = 2
  MaxTurns = 2
  Script <- MCScript
  MaxLag = 1
  MaxTroubles = 2
INVARIANTS TypeOK NoneRunsUnseen CursorCovered HeldUntilStored ProjectedOnce CommitsInOrder OnlyCallRetained
PROPERTIES StreamAnswered CloseEnds InterruptionResolved
CHECK_DEADLOCK FALSE
