SPECIFICATION Spec
CONSTANTS
  Users = {ann, bob, cid}
  Founder = ann
  Reqs = {r1, r2, r3, r4}
  First = First
  NoRow = NoRow
SYMMETRY MemberSymmetry
INVARIANTS TypeOK OneMembership AdminUnlessOvertaken
CHECK_DEADLOCK FALSE
