CONSTANTS
  Workers = {w1}
  Turns = {t1, t2}
  NoTurn = NoTurn
  MaxCalls = 1
  MaxFaults = 1
  MaxRows = 1
SPECIFICATION Spec
SYMMETRY Symmetry
CHECK_DEADLOCK FALSE
INVARIANTS OnlyScreenedAnswersCommitted
