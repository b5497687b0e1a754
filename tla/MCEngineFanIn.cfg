SPECIFICATION Spec
CONSTANTS
  Steps <- FanInSteps
  DependsOn <- FanInDeps
  MaxAttempts <- FanInMax
  SignalSteps = {}
  SignalNames = {}
  SignalName <- NoSignal
  Txs = {t1, t2, t3}
  MaxSignals = 0
  MaxFaults = 1
  MayCancel = FALSE
  Sharding = TRUE
  ReaperFaults = TRUE
SYMMETRY Slots
INVARIANTS TypeOK ReadyIsDispatched RunVerdict
PROPERTIES AttemptsLawful
CHECK_DEADLOCK FALSE
