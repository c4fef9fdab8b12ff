CONSTANTS
  Capacity = 2
  TrimSlack = 2
  MemCap = 3
  Times = {1, 2}
  MaxSeq = 5
  MaxTrimFails = 1
  Misses <- FewMisses
SPECIFICATION Spec
PROPERTIES TrimTakesExcess
