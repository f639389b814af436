SPECIFICATION Spec
CONSTANTS
  Calls = {c1, c2}
  Capacity = 1
  Refill = 2
  MaxAttempts = 2
  MaxBatches = 2
  MaxTime = 4
  Faults = {"provider", "db", "cancel", "rollback"}
INVARIANTS TypeOK RateBounded EveryAnswerLogged
PROPERTY EveryCallEnds
CHECK_DEADLOCK FALSE
