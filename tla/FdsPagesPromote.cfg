CONSTANTS
  NumPages = 3
  Slots = 2
  Key = {"name", "bond"}
  QueueSize = 1
  MaxWrites = 5
  MaxGcs = 2
  MaxFaults = 1
  MaxOpens = 0
SPECIFICATION Spec
INVARIANTS
  SwapHasNoRecord
CHECK_DEADLOCK FALSE
