SPECIFICATION Spec
CONSTANTS
  Target = 4
  Cap = 5
  Least = 2
  Window = 3
  Stride = 2
  Batch = 2
  Weights = {1, 3, 6}
  Docs = {d1, d2}
  TopKs = {1, 2}
  Extra = 1
  Budgets = {4, 6}
  MaxScore = 2
  MaxWords = 3
  MaxText = 4
  MaxLong = 2
  MaxGen = 2
SYMMETRY DocSymmetry
INVARIANTS TypeOK NothingLost CapNearlyKept GraphOnlyAdds ContextFillsBudget
CHECK_DEADLOCK FALSE
