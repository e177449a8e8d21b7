CONSTANTS
  Workers = {w1, w2}
  Turns = {t1, t2}
  NoTurn = NoTurn
  MaxCalls = 2
  MaxFaults = 1
  MaxRows = 1
SPECIFICATION Spec
SYMMETRY Symmetry
CHECK_DEADLOCK FALSE
INVARIANTS MemoryWasScreened
PROPERTIES LedgerSpec
