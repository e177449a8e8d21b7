CONSTANTS
  Scopes = {m1, m2}
  NoScope = NoScope
  Builds = {b1}
  MaxBudget = 2
  MaxTurns = 2
  MaxPromotions = 0
SPECIFICATION FairSpec
CHECK_DEADLOCK FALSE
PROPERTIES TurnsFinish
