CONSTANTS
  BlockSize = 4
  PoolAddr = 3
  PoolSize = 23
  Requests <- MCRequests
  Sizes <- MCSizes
  Values <- MCValues
SPECIFICATION HeapSpec
INVARIANTS HeapTypeOK Partition
PROPERTIES Implements HeapKeeps
CHECK_DEADLOCK FALSE
