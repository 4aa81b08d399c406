SPECIFICATION Spec
CONSTANTS
  Window = 1
  Rearm = 1
  Reminder = 3
  MaxAttempts = 2
  Batch = 2
  Capacity = 1
  MaxTime = 3
  MaxRows = 2
  MaxEvents = 2
CHECK_DEADLOCK FALSE
INVARIANTS
  RepeatsAreExplained
  ConditionCadence
  EveryOccurrenceCounted
PROPERTIES
  AlertsSettle
