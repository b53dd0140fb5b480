\* Two frames, the first of which is cut by the loss of a link.
CONSTANTS
  FrameLen = 3
  BufferSize = 4
  Depth = 2
  MaxFrames = 2
  MaxStreamed = 0
SPECIFICATION Spec
INVARIANT FailedFrameDiscarded
