SPECIFICATION Spec
CONSTANTS
  Reqs = {r1, r2, r3, r4}
  Window = 3
  Limit = 2
  MaxDelay = 1
  MaxTime = 4
  Faults = {"redis", "crash"}
SYMMETRY RequestSymmetry
INVARIANTS TypeOK AtMostLimit CountIsExact
CHECK_DEADLOCK FALSE
