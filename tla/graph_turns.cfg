CONSTANTS
  Scopes = {m1, m2}
  NoScope = NoScope
  Builds = {b1, b2}
  MaxBudget = 2
  MaxTurns = 2
  MaxPromotions = 1
SPECIFICATION Spec
SYMMETRY Symmetry
CHECK_DEADLOCK FALSE
INVARIANTS TypeOK WithinBudget AcceptedAsReviewed OneManual OneBuild

