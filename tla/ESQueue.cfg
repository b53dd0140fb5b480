\* A ring of 8 bytes: the longest frame fills it, two or three short ones too.
CONSTANTS
  Size = 8
  MaxWrites = 4
  Frames <- MCFrames
SPECIFICATION Spec
INVARIANTS
  ReadsOldest
  BytesIntact
  RingInv
PROPERTY IsDropOldestFifo
