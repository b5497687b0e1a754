SPECIFICATION Spec
CONSTANTS
  Steps <- ChainSteps
  DependsOn <- ChainDeps
  MaxAttempts <- ChainMax
  SignalSteps = {}
  SignalNames = {}
  SignalName <- NoSignal
  Txs = {t1, t2, t3}
  MaxSignals = 0
  MaxFaults = 1
  MayCancel = TRUE
  Sharding = TRUE
  ReaperFaults = TRUE
SYMMETRY Slots
INVARIANTS ReportHoldsLease AttemptsInSequence OutcomeReachesStep RetryHasTimer 
PROPERTIES TerminalIsFinal 
CHECK_DEADLOCK FALSE
