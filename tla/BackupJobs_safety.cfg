SPECIFICATION Spec
CONSTANTS
  a = a
  b = b
  j1 = j1
  j2 = j2
  NoJob = NoJob
  Servers <- TwoServers
  Jobs <- TwoJobs
  BigTrees <- TwoJobs
  MaxClock = 1
  MaxDirs = 2
  MaxFaults = 1
SYMMETRY JobSymmetry
INVARIANTS
  TypeOK
  DoneHasArchive
  OneWriterPerArchive
  RunningIsOwed
  OutcomeIsFinal
PROPERTIES
  CompleteIsImmutable
  KeepsPromise
CHECK_DEADLOCK FALSE
