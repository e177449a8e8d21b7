CONSTANTS
  Scopes = {m1, m2}
  NoScope = NoScope
  Builds = {b1}
  MaxBudget = 1
  MaxTurns = 2
  MaxPromotions = 0
SPECIFICATION Spec
SYMMETRY Symmetry
CHECK_DEADLOCK FALSE
INVARIANTS NoDraftFromStaleEvidence
