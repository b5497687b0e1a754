SPECIFICATION FairSpec
CONSTANTS
  Steps <- ApprovalSteps
  DependsOn <- ApprovalDeps
  MaxAttempts <- ApprovalMax
  SignalSteps <- ApprovalWaits
  SignalNames = {"go"}
  SignalName <- ApprovalSignal
  Txs = {t1, t2}
  MaxSignals = 1
  MaxFaults = 0
  MayCancel = FALSE
  Sharding = FALSE
  ReaperFaults = FALSE
PROPERTIES RunEnds
CHECK_DEADLOCK FALSE
