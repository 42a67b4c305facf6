SPECIFICATION Spec
CONSTANTS
  n1 = n1
  n2 = n2
  Names <- TwoNames
  Befores <- SomeBefores
  Archives <- UpToThree
  Block = 2
  MaxExtract = 4
  MaxFaults = 1
INVARIANTS
  TypeOK
  DiskIsPrefix
  SuccessIsWhole
  OvershootIsOneEntry
  FailedForReason
CHECK_DEADLOCK FALSE
