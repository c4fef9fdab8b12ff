SPECIFICATION Spec
CONSTANTS
  Instants <- Clock
  DayMinutes = 3
  Rows <- AnyRow
  Unknown = unknown
  Periods <- AnyPeriod
  Slots <- AnySlots
CHECK_DEADLOCK FALSE
INVARIANTS GrantIsAllowed DenialHasReason
