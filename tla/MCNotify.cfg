CONSTANTS
  n1 = n1
  n2 = n2
  Notifiers <- MCNotifiers
  Width = 2
  MaxNotifies = 2
  MaxWaits = 3
SPECIFICATION NotifyFairSpec
INVARIANTS NotifyTypeOK IncrementsConserved
PROPERTIES TakeNotEmpty NoLostWakeup
CHECK_DEADLOCK FALSE
