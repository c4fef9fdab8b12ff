CONSTANTS
  Capacity = 2
  TrimSlack = 1
  MemCap = 1
  Times = {1, 2}
  MaxSeq = 3
  MaxTrimFails = 0
  Misses = {{}, {"later"}}
  Batches = {1, 2}
  SendCap = 2
  MaxFaults = 3
SPECIFICATION FairReportSpec
INVARIANTS ReportTypeOK NothingForgotten
PROPERTIES OnceWhenUndisturbed EventuallyReported
CHECK_DEADLOCK FALSE
