SPECIFICATION Spec
CONSTANTS
  Steps <- ChainSteps
  DependsOn <- ChainDeps
  MaxAttempts <- ChainMax
  SignalSteps = {}
  SignalNames = {}
  SignalName <- NoSignal
  Txs = {t1, t2}
  MaxSignals = 0
  MaxFaults = 0
  MayCancel = TRUE
  Sharding = TRUE
  ReaperFaults = FALSE
INVARIANTS CancelReachesEveryStep
CHECK_DEADLOCK FALSE
