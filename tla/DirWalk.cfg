SPECIFICATION Spec
CONSTANTS
  Order <- MCOrder
  Parent <- MCParent
  Kind <- MCKind
  Target = "t"
  Calls <- MCCalls
  Default = 4
  MaxChanges = 2
  MaxFaults = 1
INVARIANTS
  TypeOK
  StillIsExact
  SteadyIsListed
  ListedInOrder
CHECK_DEADLOCK FALSE
