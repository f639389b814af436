SPECIFICATION Spec
CONSTANTS
  Sources = {u1, u2}
  Heavy = {u2}
  Parts = 2
  Pushes = {q1, q2}
  MaxIds = 2
  Cards = {g1, g2}
  Visits = {v1, v2}
  Flows = {f1, f2}
  Syncs = {s1, s2}
  Files = {d1, d2, d3}
  Unfit = {d3}
  MaxFiles = 2
  MaxBegun = 4
  Faults = {"google", "db", "crash"}
SYMMETRY RequestSymmetry
INVARIANTS TypeOK RowHasItsBytes FileOnceUnlessRaced ConnectedKeepsToken OthersStillSynced
CHECK_DEADLOCK FALSE
