SPECIFICATION FairSpec
CONSTANTS
  a = a
  b = b
  j1 = j1
  j2 = j2
  NoJob = NoJob
  Servers <- OneServer
  Jobs <- TwoJobs
  BigTrees <- OneJob
  MaxClock = 0
  MaxDirs = 1
  MaxFaults = 1
PROPERTIES
  EndsOrIsStuck
CHECK_DEADLOCK FALSE
