SPECIFICATION Spec
CONSTANTS
  j1 = j1
  j2 = j2
  root = root
  sub = sub
  dot = dot
  n1 = n1
  n2 = n2
  NoJob = NoJob
  Root <- MCRoot
  Jobs <- TwoJobs
  SubDirs <- OneDir
  Dotted <- OneDot
  Names <- TwoNames
  Requests <- Mixed
  MaxSize = 1
  MaxClock = 0
  MaxDeletes = 1
  MaxWrites = 1
  MaxFaults = 1
SYMMETRY JobSymmetry
INVARIANTS
  DoneIsThere
  DoneIsClean
PROPERTIES
  OnlyInDest
  SkipKeepsOld
CHECK_DEADLOCK FALSE
