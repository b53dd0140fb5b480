CONSTANTS
  MsgLen = 2
  DefaultSeg = 1
  LongSeg = 2
  Depth = 1
  HvnQueue = 1
  MaxMessages = 3
  MaxLinks = 1
  MaxSubscriptions = 1
SPECIFICATION Spec
INVARIANT LockedAwaitsCompletion
CHECK_DEADLOCK FALSE
