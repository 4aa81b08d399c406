SPECIFICATION Spec
CONSTANTS
  Portfolio = {p1, p2}
  Security = {crude}
  Strategy = {mcx}
  Claims <- OneClaim
  Session = {s1, s2}
  Events = {"submit", "deposit", "withdraw", "close", "switch"}
  OrderTypes = {"MARKET"}
  Quantity = {1}
  Quotes <- OneQuote
  Limits = {3}
  MaxWalk = 0
  MoneyUnit = 1
  Brokerage = 1
  Levy = 1
  MarginPercent = 100
  Amounts = {1}
  Opening = 6
  MaxOrders = 2
  MaxCash = 7
  Unspecified = Unspecified
SYMMETRY Symmetry
PROPERTIES PortfoliosApart
CHECK_DEADLOCK FALSE
