CONSTANTS
  Capacity = 2
  TrimSlack = 1
  MemCap = 1
  Times = {1}
  MaxSeq = 3
  MaxTrimFails = 0
  Misses = {{}, {"later"}}
  Batches = {1, 2}
  SendCap = 2
  MaxFaults = 2
SPECIFICATION StayingSpec
PROPERTIES LeftoversGoOut
CHECK_DEADLOCK FALSE
