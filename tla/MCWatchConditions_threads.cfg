CONSTANTS
  Threads = {t1, t2}
  Levels = {l1, l2}
  PerTurn = 1
  MaxConditions = 1
  MaxConds = 2
  Keys = {1, 2}
  NoKey = NoKey
  MaxRecords = 2
  MaxAlerts = 2
SPECIFICATION WatchSpec
INVARIANTS  PagesOnlyCrossings 
PROPERTY LifecycleRespected
