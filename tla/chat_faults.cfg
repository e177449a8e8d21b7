CONSTANTS
  Workers = {w1}
  Turns = {t1, t2, t3}
  NoTurn = NoTurn
  MaxCalls = 3
  MaxFaults = 2
  MaxRows = 1
SPECIFICATION FairSpec
CHECK_DEADLOCK FALSE
INVARIANTS TypeOK ExactlyOnce OnlyFinishedTurnsCommitted ReplyIsDurable CalmServiceAgrees
PROPERTIES RecoverySucceeds
