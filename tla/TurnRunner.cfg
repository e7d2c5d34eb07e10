\* Four turns of two requests, a history of two: turns are dropped, unfinished ones too.
CONSTANTS
  TurnIds = {t1, t2, t3, t4}
  Keys = {a, b}
  History = 2
  PoolSize = 2
  NoKey = NoKey
  NoTurn = NoTurn
SPECIFICATION FairRunner
INVARIANT
  OneLiveTurnPerRequest
PROPERTIES
  TurnsFinish
CHECK_DEADLOCK FALSE
