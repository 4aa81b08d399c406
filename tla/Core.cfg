SPECIFICATION Spec
CONSTANTS
  Portfolio = {p1}
  Security = {crude}
  Strategy = {mcx}
  Claims <- OneClaim
  Session = {s1, s2}
  Events = {"submit", "close", "cancel", "restart"}
  OrderTypes = {"MARKET", "LIMIT"}
  Quantity = {2}
  Quotes <- TwoWideQuotes
  Limits = {6}
  MaxWalk = 1
  MoneyUnit = 2
  Brokerage = 1
  Levy = 1
  MarginPercent = 100
  Amounts = {}
  Opening = 20
  MaxOrders = 2
  MaxCash = 20
  Unspecified = Unspecified
SYMMETRY Symmetry
INVARIANTS
  StatusTellsFill
  PositionsMatchFills
  LedgerMatchesPositions
PROPERTIES HistoryStands KeepsStatement
CHECK_DEADLOCK FALSE
