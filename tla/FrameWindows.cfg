SPECIFICATION FairSpec
CONSTANTS
  NO_CC430_ON_BOARD = 0
  Depth = 2
  BufferSize = 2
  MaxForwards = 2
  Window <- MCWindow
  Choice <- MCChoice
  TimeMod = 4
  MaxLag = 2
  MaxInputs = 2
INVARIANTS
  FrameInv
  RepliesInOrder
PROPERTIES
  FramesPaced
  EveryForwardSettled
  WindowServed
