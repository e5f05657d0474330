CONSTANTS
  f1 = f1
  f2 = f2
  s1 = s1
  x = x
  y = y
  STDIN = STDIN
  NULL = NULL
  Files <- MCFiles
  Strings <- MCStrings
  Texts <- MCTexts
  StringLength = 1
  TIB_SIZE = 3
  MAX_INCLUDE_DEPTH = 2
  MaxActivations = 5
  MaxLines = 1
SPECIFICATION Spec
INVARIANT FilesClosedOnce
CHECK_DEADLOCK FALSE
