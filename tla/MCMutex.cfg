CONSTANTS
  t1 = t1
  t2 = t2
  t3 = t3
  NoTask = NoTask
  Tasks <- MCTasks
  Killable <- MCKillable
  Errnos <- MCErrnos
  MaxCalls = 2
SPECIFICATION FairSpec
INVARIANTS TypeOK HolderOwns
PROPERTIES CounterTells TakeReturns
CHECK_DEADLOCK FALSE
