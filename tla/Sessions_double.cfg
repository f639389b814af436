SPECIFICATION Spec
CONSTANTS
  Users = {ann}
  Reqs = {r1, r2, r3}
  NoToken = NoToken
  NoUser = NoUser
  MaxAttempts = 1
SYMMETRY SessionSymmetry
INVARIANT RedeemedOnce
CHECK_DEADLOCK FALSE
