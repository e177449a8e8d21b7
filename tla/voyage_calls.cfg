CONSTANTS
  t1 = t1
  t2 = t2
  Callers = {c1, c2}
  NoCaller = NoCaller
  Texts = {t1, t2}
  NoText = NoText
  Partitions = {p1, p2}
  Score <- ScoreOf
  Threshold = 2
  Interval = 1
  Backoff <- Waits
  MaxCalls = 3
  MaxFaults = 2
SPECIFICATION FairSpec
CHECK_DEADLOCK FALSE
INVARIANTS TypeOK HitsAreWhatTheySay
PROPERTIES RequestsSpaced CallsReturn
