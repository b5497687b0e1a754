SPECIFICATION FairSpec
CONSTANTS
  Definitions <- Submitted
  Blank = 0
INVARIANTS TypeOK ValidIsRunnable CycleIsReal
PROPERTY ValidateReturns
CHECK_DEADLOCK FALSE
