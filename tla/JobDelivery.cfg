SPECIFICATION FairSpec
CONSTANTS
  Ids = {bg1, bg2}
  NoRun = NoRun
  MaxRuns = 2
  MaxEpoch = 1
  MaxWaits = 1
  Limit = 2
  SlowExit = FALSE
  SlowStep = FALSE
INVARIANTS TypeOK QuiescenceIsFinal ReportedOnce ActiveIsTracked
PROPERTIES OwnTranscript LossIsKnown EventuallyReported
CHECK_DEADLOCK FALSE
