SPECIFICATION FairSpec
CONSTANTS
  Steps <- ApprovalSteps
  DependsOn <- ApprovalDeps
  MaxAttempts <- ApprovalMax
  SignalSteps <- ApprovalWaits
  SignalNames = {"go"}
  SignalName <- ApprovalSignal
  Txs = {t1, t2}
  MaxSignals = 1
  MaxFaults = 1
  MayCancel = FALSE
  Sharding = TRUE
  ReaperFaults = FALSE
PROPERTIES RunEnds
CHECK_DEADLOCK FALSE
