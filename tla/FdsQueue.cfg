CONSTANTS
  QueueSize = 2
  Steps = 2
  MaxWrites = 4
SPECIFICATION FairSpec
INVARIANTS
  
  QueueExact
PROPERTIES
  EventComes
CHECK_DEADLOCK FALSE
