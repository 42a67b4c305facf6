SPECIFICATION Spec
CONSTANTS
  Conns = {c1, c2}
  MaxRequests = 2
INVARIANTS
  CleanExit
  NothingAnswerableDropped
PROPERTIES
  StopEnds
CHECK_DEADLOCK FALSE
