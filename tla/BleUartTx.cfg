\* One place in the queue and one in the SoftDevice: with a message of two
\* default segments, one of the three finds both full.
CONSTANTS
  MsgLen = 2
  DefaultSeg = 1
  LongSeg = 2
  Depth = 1
  HvnQueue = 1
  MaxMessages = 3
  MaxLinks = 2
  MaxSubscriptions = 1
SPECIFICATION FairSpec
INVARIANTS
  OneSender
  LockedImpliesWakeup
  OnlyItsLink
  TxInv
PROPERTIES
  WireInOrder
  EventuallySettled
\* The bounds of the model end the behaviour.
CHECK_DEADLOCK FALSE
