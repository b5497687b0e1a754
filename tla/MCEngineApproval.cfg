SPECIFICATION Spec
CONSTANTS
  Steps <- ApprovalSteps
  DependsOn <- ApprovalDeps
  MaxAttempts <- ApprovalMax
  SignalSteps <- ApprovalWaits
  SignalNames = {"go"}
  SignalName <- ApprovalSignal
  Txs = {t1, t2, t3}
  MaxSignals = 2
  MaxFaults = 1
  MayCancel = TRUE
  Sharding = TRUE
  ReaperFaults = TRUE
SYMMETRY Slots
INVARIANTS DependenciesCompleted ViewsSound BlockedIsSkipped
 
CHECK_DEADLOCK FALSE
