SPECIFICATION RestoreSpec
CONSTANTS
  MaxTotal = 3
  Capacity = 1
  MaxDeaths = 1
  Names = {1, 2, 3, 4}
  Links = {4}
  Layouts = {{1, 2}}
  Archives <- MCArchives
  MaxAttempts = 2
  MaxLive = 1
INVARIANTS
  DoneMeansWhole
  BlockedOnlyByDeath
  RestoredIsWhole
  
  ReplacedInOrder
PROPERTIES
  AnsweredOrBlocked
CHECK_DEADLOCK FALSE
