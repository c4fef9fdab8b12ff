SPECIFICATION MCSpec
CONSTANTS
  Outputs = {o1}
  Paths = {p1, p2}
  QueueCap = 2
  MaxCards = 3
  MaxSwitches = 2
  MaxWrites = 1
  MaxReloads = 1
CHECK_DEADLOCK FALSE
INVARIANTS InputsReported CardsJudgedInOrder AlarmOutputsFollow ForceOpenAgrees
PROPERTIES FireEndsForceOpen
