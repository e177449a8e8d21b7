CONSTANTS
  Builds = {b1, b2}
  NoBuild = NoBuild
  Operators = {o1, o2}
  NoOperator = NoOperator
  MaxOps = 3
  MaxFaults = 2
SPECIFICATION Spec
SYMMETRY Symmetry
CHECK_DEADLOCK FALSE
INVARIANTS TypeOK ServesCompleteBuild RollbackWasServed JournalExplainsAlias
PROPERTIES SwapReplacesExpected
