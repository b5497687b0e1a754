SPECIFICATION FairSpec
CONSTANTS
  Steps <- ChainSteps
  DependsOn <- ChainDeps
  MaxAttempts <- ChainMax
  SignalSteps = {}
  SignalNames = {}
  SignalName <- NoSignal
  Txs = {t1, t2}
  MaxSignals = 0
  MaxFaults = 1
  MayCancel = FALSE
  Sharding = TRUE
  ReaperFaults = TRUE
PROPERTIES RunEnds
CHECK_DEADLOCK FALSE
