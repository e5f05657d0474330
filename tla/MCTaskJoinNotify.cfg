CONSTANTS
  c1 = c1
  c2 = c2
  xt = xt
  XT = xt
  Cells <- MCCells
  Exceptions <- MCExceptions
  MaxArgs = 2
  MaxPolls = 2
SPECIFICATION Spec
INVARIANT NotifyOutlivesTask
CHECK_DEADLOCK FALSE
