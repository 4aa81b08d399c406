SPECIFICATION Spec
CONSTANTS
  Portfolios = {1, 2}
  Operated = {1}
  Sessions = {"s1"}
  Size = 1
  Levels = {1, 2}
  MaxTrades = 2
  MaxEvents = 1
CHECK_DEADLOCK FALSE
INVARIANTS
  NeverWritesOption
  HeldIsUnderTrade
  OneTradePerContract
PROPERTIES BracketsAnswer
