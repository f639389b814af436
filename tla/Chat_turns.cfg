SPECIFICATION Spec
CONSTANTS
  Turns = {t1, t2, t3}
  Convs = {k1, k2}
  Window = 2
  Faults = {"db", "upstream", "leave"}
SYMMETRY TurnSymmetry
INVARIANTS TypeOK TurnIsWhole HistoryHasWholeTurns FollowUpSeesPrior FollowUpAnswered
CHECK_DEADLOCK FALSE
