CONSTANTS
  NBITS = 10
  CodeSize = 420
  StackDepth = 16
  ReturnDepth = 40
  MaxCatch = 4
  TIB_SIZE = 8
  Programs <- MCPrograms
  MaxCommands = 2
  Junk = 165
  BufSize = 2
  FOPEN_MAX = 3
  MaxFails = 1
SPECIFICATION Spec
INVARIANTS TypeOK CleanExit
PROPERTIES ReturnsToCaller CatchRestores WordsCompute FilesKeep
CHECK_DEADLOCK FALSE
