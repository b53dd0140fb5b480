CONSTANTS
  NumPages = 3
  Slots = 2
  Key = {"name", "bond"}
  QueueSize = 2
  MaxWrites = 3
  MaxGcs = 2
  MaxFaults = 2
  MaxOpens = 1
SPECIFICATION FairSpec
INVARIANTS
  FdsPagesInv
  RecordsKept
  AlwaysMounts
PROPERTIES
  OperationsEnd
CHECK_DEADLOCK FALSE
