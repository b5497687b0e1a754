\* A task, its retry and a fault, under fair scheduling.
CONSTANTS
  Workers = {w1, w2}
  Relays = {r1}
  Hands = {h1}
  MaxAttempts = 2
  MaxFaults = 1
  BatchSize = 2
  NoWorker = NoWorker
SPECIFICATION FairSpec
INVARIANTS ClaimExclusive
PROPERTIES AttemptsKept AttemptSettles DeliveriesEnd
CHECK_DEADLOCK FALSE
