CONSTANTS
  t1 = t1
  t2 = t2
  t3 = t3
  NoTask = NoTask
  Tasks <- MCTasks
  Killable <- MCKillable
  MaxCounts <- MCMaxCounts
  SEM_VALUE_MAX = 2
  Errnos <- MCErrnos
  MaxCalls = 2
SPECIFICATION FairSpec
INVARIANT TypeOK
PROPERTIES NeverGivesPastMax Implements CallsServed
CHECK_DEADLOCK FALSE
