CONSTANTS
  c1 = c1
  c2 = c2
  xt = xt
  XT = xt
  Cells <- MCCells
  Exceptions <- MCExceptions
  MaxArgs = 2
  MaxPolls = 2
SPECIFICATION FairSpec
INVARIANTS TypeOK FreedOnce
PROPERTIES JoinDelivers Returns
CHECK_DEADLOCK FALSE
