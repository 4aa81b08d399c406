SPECIFICATION Spec
CONSTANTS
  Portfolios = {1}
  Size = 2
  MaxDay = 2
  MaxHoldings = 2
  MaxEvents = 2
CHECK_DEADLOCK FALSE
INVARIANTS
  NoShareForgotten
  NeverSoldShort
  DoneMeansFlat
PROPERTIES
  ExitComesBack
