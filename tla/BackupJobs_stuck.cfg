SPECIFICATION FairSpec
CONSTANTS
  a = a
  b = b
  j1 = j1
  j2 = j2
  NoJob = NoJob
  Servers <- OneServer
  Jobs <- TwoJobs
  BigTrees <- TwoJobs
  MaxClock = 0
  MaxDirs = 1
  MaxFaults = 0
PROPERTIES
  EveryBackupEnds
CHECK_DEADLOCK FALSE
