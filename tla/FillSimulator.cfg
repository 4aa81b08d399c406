SPECIFICATION ChargedSpec
CONSTANTS
  Depths <- MCDepths
  Quantities = {1, 3, 4}
  LimitPrices = {2, 4, 5}
  Slippages = {0, 1}
  Tick = 2
  MaxWalk = 6
  Scale = 10
  Rupee = 4
  Cards <- MCCards
INVARIANTS
  NeverFlattering
  MeetsContract
PROPERTIES
  ChargesOnlyGrow
\* An order is filled, or nothing more of it fills.
CHECK_DEADLOCK FALSE
