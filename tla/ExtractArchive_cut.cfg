SPECIFICATION Spec
CONSTANTS
  n1 = n1
  n2 = n2
  Names <- TwoNames
  Befores <- SomeBefores
  Archives <- TwoFiles
  Block = 2
  MaxExtract = 4
  MaxFaults = 0
INVARIANTS
  ExtractedMeansAll
CHECK_DEADLOCK FALSE
