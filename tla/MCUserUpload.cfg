SPECIFICATION UploadSpec
CONSTANTS
  LastId = 5
  Lists <- SomeLists
  MaxRows = 2
  Records = 2
  IndexMod = 3
  FirstIndex = 1
  MaxStarts = 2
  MaxChanges = 2
  MaxLost = 2
  MaxErrors = 1
CHECK_DEADLOCK FALSE
INVARIANTS EveryoneFetched OnceInOrder SerialIsPlace
