SPECIFICATION Spec
CONSTANTS
  Users = {ann, bob}
  Reqs = {r1, r2, r3, r4, r5}
  NoToken = NoToken
  NoUser = NoUser
  MaxAttempts = 1
SYMMETRY SessionSymmetry
INVARIANTS TypeOK SignupIsWhole RedeemedOnceUnlessOvertaken LiveUnlessOvertaken
CHECK_DEADLOCK FALSE
