SPECIFICATION Spec
CONSTANTS
  p1 = p1
  p2 = p2
  Portfolios <- MCPortfolios
  LastDay = 3
  Sessions = {1, 2, 3}
  DefaultNightly = 5
  NightlyTimes = {0, 5}
  MaxStaleness = 1
  Lookback = 2
  MaxDisturbances = 2
CHECK_DEADLOCK FALSE
INVARIANTS
  DecidedOnce
  RebalanceWaitsForNextDay
  DoneMeansDecided
PROPERTIES
  MissedStaysMissed
