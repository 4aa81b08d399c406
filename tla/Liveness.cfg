SPECIFICATION FairSpec
CONSTANTS
  Portfolio = {p1}
  Security = {crude}
  Strategy = {mcx}
  Claims <- OneClaim
  Session = {s1}
  Events = {"submit", "archive"}
  OrderTypes = {"LIMIT"}
  Quantity = {2}
  Quotes <- TwoQuotes
  Limits = {3}
  MaxWalk = 0
  MoneyUnit = 1
  Brokerage = 1
  Levy = 1
  MarginPercent = 100
  Amounts = {}
  Opening = 20
  MaxOrders = 2
  MaxCash = 20
  Unspecified = Unspecified
PROPERTIES NoOrderStarves
CHECK_DEADLOCK FALSE
