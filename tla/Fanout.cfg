SPECIFICATION Spec
CONSTANTS
  Names = {"a", "b"}
  Clients = {"tab"}
  MaxQueue = 2
  MaxWrites = 2
  MaxEvents = 2
CHECK_DEADLOCK FALSE
INVARIANTS
  NothingUntold
PROPERTIES
  CatchesUp
