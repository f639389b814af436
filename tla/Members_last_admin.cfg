SPECIFICATION Spec
CONSTANTS
  Users = {ann, bob}
  Founder = ann
  Reqs = {r1, r2, r3}
  First = First
  NoRow = NoRow
SYMMETRY MemberSymmetry
INVARIANT AdminRemains
CHECK_DEADLOCK FALSE
