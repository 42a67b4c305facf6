SPECIFICATION FairSpec
CONSTANTS
  j1 = j1
  j2 = j2
  root = root
  sub = sub
  dot = dot
  n1 = n1
  n2 = n2
  NoJob = NoJob
  Root <- MCRoot
  Jobs <- TwoJobs
  SubDirs <- NoDir
  Dotted <- NoDir
  Names <- TwoNames
  Requests <- Overlapping
  MaxSize = 1
  MaxClock = 1
  MaxDeletes = 1
  MaxWrites = 0
  MaxFaults = 1
INVARIANTS
  TypeOK
PROPERTIES
  KeepsPromise
  EveryDownloadEnds
CHECK_DEADLOCK FALSE
