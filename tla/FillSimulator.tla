--------------------------- MODULE FillSimulator ----------------------------
(***************************************************************************)
(* orders/services/fill_simulator.py: one call that walks the published    *)
(* depth for one order, level by level.  A MARKET order and a LIMIT order  *)
(* that is marketable on arrival cross the spread; a RESTING limit fills   *)
(* when the book trades through it.                                        *)
(*                                                                         *)
(* The list of fills is kept as what was taken at each level with its two  *)
(* sums, the filled quantity and the value, from which the average price   *)
(* is computed.                                                            *)
(***************************************************************************)
EXTENDS BookFills, FiniteSets, Sequences, Functions

CONSTANTS
  Depths,      \* what one side of the feed's depth can hold
  Quantities,  \* order quantities
  LimitPrices,
  Slippages,   \* trading.slippage_ticks
  Tick         \* the instrument's tick size

ASSUME TickAssumption == Tick \in Nat \ {0}
ASSUME QuantitiesAssumption == Quantities \subseteq Nat \ {0}
ASSUME LimitPricesAssumption == LimitPrices \subseteq Nat \ {0}
ASSUME SlippagesAssumption == Slippages \subseteq Nat
\* An exchange quotes multiples of the tick.
ASSUME DepthsAssumption ==
  \A depth \in Depths :
    /\ depth \in Seq([price : Nat, qty : Nat])
    /\ \A i \in DOMAIN depth : depth[i].price % Tick = 0

VARIABLES
  order,    \* the arguments of the call
  levels,   \* what extract_side_levels made of the depth
  next,     \* the level the loop is at
  taken,    \* per level, the quantity taken from it
  filled,   \* FillResult.filled_quantity ...
  value,    \* ... and the sum average_price divides by it
  done      \* the call has returned

vars == <<order, levels, next, taken, filled, value, done>>

-----------------------------------------------------------------------------
\* extract_side_levels: the levels that show something, from the touch out.
Shown(level) == level.price > 0 /\ level.qty > 0

\* MaxWalk covers the published depth, from its touch to its last level, and
\* the slippage: that is what MaxWalk stands for in the order core.
ASSUME MaxWalkCovers ==
  \A depth \in Depths, ticks \in Slippages :
    \A i, j \in DOMAIN depth : Shown(depth[i]) /\ Shown(depth[j]) =>
      depth[i].price + ticks * Tick <= depth[j].price + MaxWalk

FromTheTouch(side, s) ==
  \A i, j \in DOMAIN s : i < j =>
    IF side = "BUY" THEN s[i].price <= s[j].price ELSE s[i].price >= s[j].price

\* The feed's own order, trusted.
AsPublished(depth, side) ==
  LET kept == {i \in DOMAIN depth : Shown(depth[i])}
  IN  {[n \in 1..Cardinality(kept) |-> depth[place[n]]] :
         place \in {p \in Bijection(1..Cardinality(kept), kept) :
                      \A m, n \in DOMAIN p : m < n => p[m] < p[n]}}

SideLevels(depth, side) ==
  LET kept == {i \in DOMAIN depth : Shown(depth[i])}
  IN  {s \in {[n \in 1..Cardinality(kept) |-> depth[place[n]]] :
                place \in Bijection(1..Cardinality(kept), kept)} :
         FromTheTouch(side, s)}

\* The top of those levels, as a quote.
TopOf(s) ==
  LET touch == IF s = <<>> THEN 0 ELSE s[1].price
  IN  [bid |-> touch, ask |-> touch, ltp |-> 0]

\* apply_slippage
ApplySlippage(price, side, ticks) ==
  IF ticks = 0 THEN price
  ELSE IF side = "BUY" THEN price + ticks * Tick
  ELSE IF price - ticks * Tick > Tick THEN price - ticks * Tick ELSE Tick

\* The price a fill at this level is recorded at.
FillPrice(o, level) ==
  IF o.kind = "RESTING" THEN o.limit ELSE ApplySlippage(level.price, o.side, o.slippage)

\* A limit compared with the displayed price, before the slippage.
StopsOnDisplayed(o, level) ==
  CASE o.kind = "MARKET"  -> FALSE
    [] o.kind = "LIMIT"   -> ~Within(o.side, o.limit, level.price)
    [] o.kind = "RESTING" -> ~Through(o.side, o.limit, level.price)

\* Whether the loop breaks at this level.
Stops(o, level) ==
  CASE o.kind = "MARKET"  -> FALSE
    [] o.kind = "LIMIT"   -> ~Within(o.side, o.limit, FillPrice(o, level))
    [] o.kind = "RESTING" -> IF o.cross THEN ~Through(o.side, o.limit, level.price)
                                        ELSE ~Within(o.side, o.limit, level.price)

-----------------------------------------------------------------------------
\* The arguments each of the two functions has; the others are neutral.
Marketable(kind, limits) ==
  [kind : {kind}, side : Sides, qty : Quantities, limit : limits,
   slippage : Slippages, partial : BOOLEAN, cross : {TRUE}]

Resting ==
  [kind : {"RESTING"}, side : Sides, qty : Quantities, limit : LimitPrices,
   slippage : {0}, partial : {TRUE}, cross : BOOLEAN]

Orders == Marketable("MARKET", {0}) \cup Marketable("LIMIT", LimitPrices) \cup Resting

\* The order service simulates a LIMIT order only when it is marketable.
Init ==
  /\ order \in Orders
  /\ \E depth \in Depths : levels \in SideLevels(depth, order.side)
  /\ order.kind = "LIMIT" => IsMarketable(order.side, order.limit, TopOf(levels))
  /\ next = 1
  /\ taken = [i \in DOMAIN levels |-> 0]
  /\ filled = 0 /\ value = 0
  /\ done = FALSE

Remaining == order.qty - filled

\* One iteration of the loop.
Take ==
  /\ ~done
  /\ Remaining > 0 /\ next \in DOMAIN levels /\ ~Stops(order, levels[next])
  /\ LET take == IF Remaining < levels[next].qty THEN Remaining ELSE levels[next].qty
     IN  /\ taken' = [taken EXCEPT ![next] = take]
         /\ filled' = filled + take
         /\ value' = value + FillPrice(order, levels[next]) * take
  /\ next' = next + 1
  /\ UNCHANGED <<order, levels, done>>

\* Where the loop ends.
Exhausted ==
  Remaining > 0 /\ next \in DOMAIN levels => Stops(order, levels[next])

\* Partial fills switched off: the fills are dropped.
Drops == order.kind # "RESTING" /\ Remaining > 0 /\ ~order.partial

Return ==
  /\ ~done /\ Exhausted
  /\ done' = TRUE
  /\ taken' = IF Drops THEN [i \in DOMAIN levels |-> 0] ELSE taken
  /\ filled' = IF Drops THEN 0 ELSE filled
  /\ value' = IF Drops THEN 0 ELSE value
  /\ UNCHANGED <<order, levels, next>>

Next == Take \/ Return

Spec == Init /\ [][Next]_vars

\* What the caller reads: filled_quantity and average_price.
Outcome == IF filled = 0 THEN NoFill ELSE [qty |-> filled, price |-> HalfUp(value, filled)]

-----------------------------------------------------------------------------
(***************************************************************************)
(* "The remainder does not get invented": the fills never add up to more   *)
(* than was asked, none is larger than what its level displayed, and no    *)
(* level supplies twice.                                                   *)
(***************************************************************************)
WithinBook ==
  /\ filled <= order.qty
  /\ \A i \in DOMAIN levels : taken[i] <= levels[i].qty

NeverInventsQuantity == WithinBook /\ filled = FoldFunction(+, 0, taken)

(***************************************************************************)
(* "Errs deliberately on the pessimistic side": what fills never does so,  *)
(* on average, at a better price than the touch, slippage and rounding     *)
(* included, and never beyond the limit of an order that has one.          *)
(***************************************************************************)
Average == HalfUp(value, filled)

NeverFlattering ==
  filled > 0 =>
    /\ IF order.side = "BUY" THEN Average >= levels[1].price ELSE Average <= levels[1].price
    /\ order.kind = "LIMIT" => Within(order.side, order.limit, Average)
    /\ order.kind = "RESTING" => Average = order.limit

(***************************************************************************)
(* What returns short of its quantity has used up every level it could     *)
(* have traded with: the walk skips nothing and does not stop early.       *)
(***************************************************************************)
NothingLeftBehind ==
  done /\ 0 < filled /\ filled < order.qty =>
    \A i \in DOMAIN levels : taken[i] = levels[i].qty \/ Stops(order, levels[i])

(***************************************************************************)
(* The order core is modelled with the sets of BookFills instead of this   *)
(* walk: with the defaults of the configuration every answer is in them,   *)
(* and with partial fills switched off an answer is all or nothing.        *)
(***************************************************************************)
MeetsContract ==
  done =>
    CASE order.kind = "RESTING" ->
           order.cross =>
             Outcome \in RestingFills(order.side, order.qty, order.limit, TopOf(levels))
      [] order.kind # "RESTING" /\ order.partial ->
           Outcome \in MarketableFills(order.side, order.qty, TopOf(levels),
                                       order.kind = "LIMIT", order.limit)
      [] OTHER -> Outcome = NoFill \/ Outcome.qty = order.qty
=============================================================================
