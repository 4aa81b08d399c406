\* One strategy, two portfolios, two visible levels.
SPECIFICATION Spec
CONSTANTS
  Portfolio = {p1, p2}
  Security = {crude}
  Strategy = {mcx}
  Price = {2, 4}
  Quantity = {1, 2}
  Charge = {1, 2}
  MoneyUnit = 2
  VisibleLevels = 2
  MaxExecutions = 3
INVARIANTS
  OneOpenRow
  SingleLevelReplayAgrees
  RealisedExplainsTotals
PROPERTY ImplementsNetPosition
CHECK_DEADLOCK FALSE
