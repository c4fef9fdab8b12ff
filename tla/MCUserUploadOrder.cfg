SPECIFICATION UploadSpec
CONSTANTS
  LastId = 7
  Lists <- PairedLists
  MaxRows = 2
  Records = 2
  IndexMod = 8
  FirstIndex = 1
  MaxStarts = 1
  MaxChanges = 0
  MaxLost = 1
  MaxErrors = 0
CHECK_DEADLOCK FALSE
INVARIANTS AskingAgainKeepsOrder
