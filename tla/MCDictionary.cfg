CONSTANTS
  Names = {a, b}
  Empty = Empty
  FileMark = FileMark
  HeaderLimit = 6
  CodeLimit = 9
  Margin = 4
  MaxHeaders = 3
  MaxCode = 10
  MaxStack = 2
  MaxCommands = 7
SPECIFICATION Spec
INVARIANTS TypeOK DefinitionsWhole
PROPERTIES BalancedReveal ForgetKeepsFrames Implements
SYMMETRY Symmetry
CHECK_DEADLOCK FALSE
