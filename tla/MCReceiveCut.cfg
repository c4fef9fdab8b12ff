SPECIFICATION Spec
CONSTANTS
  Cap = 7
  HeaderLen = 2
  Lengths = {3, 4}
  SizeMod = 32
  MaxFrames = 3
  MaxBreaks = 1
CHECK_DEADLOCK FALSE
PROPERTIES HandledHasArrived
