CONSTANTS
  Window = {1, 2}
  Choice = {{1}, {1, 2}}
  QueueSize = 2
  MaxInputs = 2
  MaxFaults = 2
SPECIFICATION FairSpec
INVARIANTS
  StorageInv
  RecordsWhole
  AckedSurvives
  ConfigAgrees
  AdvertisedNameCurrent
PROPERTIES
  EveryCommandAnswered
CHECK_DEADLOCK FALSE
