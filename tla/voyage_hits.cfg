CONSTANTS
  t1 = t1
  t2 = t2
  Callers = {c1}
  NoCaller = NoCaller
  Texts = {t1, t2}
  NoText = NoText
  Partitions = {p1}
  Score <- ScoreOf
  Threshold = 2
  Interval = 1
  Backoff <- Waits
  MaxCalls = 3
  MaxFaults = 0
SPECIFICATION Spec
CHECK_DEADLOCK FALSE
INVARIANTS SemanticHitIsFree
