SPECIFICATION Spec
CONSTANTS
  Cap = 7
  HeaderLen = 2
  Lengths = {3, 4}
  SizeMod = 32
  MaxFrames = 4
  MaxBreaks = 1
CHECK_DEADLOCK FALSE
INVARIANTS TypeOK FramesInOrder NoFrameLeft
