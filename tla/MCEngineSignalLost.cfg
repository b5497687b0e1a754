SPECIFICATION Spec
CONSTANTS
  Steps <- GatesSteps
  DependsOn <- GatesDeps
  MaxAttempts <- GatesMax
  SignalSteps <- GatesWaits
  SignalNames = {"go"}
  SignalName <- GatesSignal
  Txs = {t1, t2}
  MaxSignals = 2
  MaxFaults = 0
  MayCancel = FALSE
  Sharding = TRUE
  ReaperFaults = FALSE
INVARIANTS SignalsComplete
CHECK_DEADLOCK FALSE
