\* One task, republished, stolen and delivered again to a worker that has it.
CONSTANTS
  Workers = {w1, w2}
  Relays = {r1, r2}
  Hands = {h1, h2}
  MaxAttempts = 1
  MaxFaults = 2
  BatchSize = 2
  NoWorker = NoWorker
SPECIFICATION Spec
SYMMETRY Alike
INVARIANTS  NoTaskLost HandlerOnce
CHECK_DEADLOCK FALSE
