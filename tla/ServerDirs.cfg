SPECIFICATION Spec
CONSTANTS
  r1 = r1
  r2 = r2
  r3 = r3
  gw = gw
  o1 = o1
  o2 = o2
  srvP = srvP
  srvQ = srvQ
  sub = sub
  file1 = file1
  bkDir = bkDir
  Requests <- ThreeRequests
  Names <- AllNames
  Backups <- MCBackups
  Owners <- AllOwners
  Gateway <- MCGateway
  Calls <- SomeCalls
  Trees <- SomeTrees
  MaxNodes = 11
  MaxFaults = 1
INVARIANTS
  TypeOK
PROPERTIES
  NothingLost
  OkMeansDone
  OldDirsKeepOwner
CHECK_DEADLOCK FALSE
