\* Two places in the inbox and five frames: enough for two evictions during a
\* single read.
CONSTANTS
  FrameLen = 3
  BufferSize = 4
  Depth = 2
  MaxFrames = 5
  MaxStreamed = 2
SPECIFICATION FairSpec
INVARIANTS
  BufferIsPartOfFrame
  NothingLeaks
  AnswersInOrder
  InboxSignalled
  OutboxSignalled
PROPERTIES
  HandledInOrder
  EventuallyHandled
