SPECIFICATION Spec
CONSTANTS
  Size = 2
  MaxPrice = 2
  Views <- MCViews
  MaxSession = 2
  MaxStops = 2
  MaxEvents = 1
CHECK_DEADLOCK FALSE
INVARIANTS
  HeldIsGuarded
  ShortNeedsOverlap
PROPERTIES
  StopNeverFalls
  TriggerIsAnswered
