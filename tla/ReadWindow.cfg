SPECIFICATION Spec
CONSTANTS
  Calls <- MCCalls
  Sizes = {0, 2, 4}
  MaxRead = 2
  HardMax = 3
  MaxWrite = 2
  MaxSize = 5
  MaxNodes = 3
  MaxChanges = 4
INVARIANTS
  TypeOK
  WindowIsExact
  WithinLimit
CHECK_DEADLOCK FALSE
