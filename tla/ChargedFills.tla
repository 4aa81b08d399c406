---------------------------- MODULE ChargedFills ----------------------------
(***************************************************************************)
(* orders/services/order_service.py, _apply_fills, around the simulator:   *)
(* what an order's row makes of the fills, its average price and its       *)
(* charges.  The walk of FillSimulator is the first call that may fill     *)
(* something; a limit order's later calls fill at its limit.  The average  *)
(* is stored rounded, and the next call computes with the stored one, so   *)
(* its rounding compounds.                                                 *)
(***************************************************************************)
EXTENDS FillSimulator

CONSTANTS
  Cards,        \* the rate cards, conf/charges/*.yaml
  Scale,        \* the denominator of every rate
  Rupee         \* money quanta in a rupee

ASSUME CardsAssumption == Scale \in Nat \ {0} /\ Rupee \in Nat \ {0}

\* A unit traded is worth more than the rounding of the average on the whole
\* order: an order is of at most twice as many units as its limit has quanta.
\* (A quantum is 0.0001: at a limit of 10, 200,000 units.  A cheap option fills
\* by the lot, and the bound is then in lots.)
ASSUME WorthItsRounding == \A qty \in Quantities, limit \in LimitPrices : qty <= 2 * limit

VARIABLES
  executed,  \* the row's filled_quantity
  average    \* its average_fill_price, as the column holds it

row == <<executed, average>>

Charges == INSTANCE ChargesEngine

-----------------------------------------------------------------------------
LastCallOnly(stored, before, qty, worth) == HalfUp(worth, qty)     \* mutant

\* The new average: the stored one times the previous quantity, plus the fills.
AverageFillPrice(stored, before, qty, worth) ==
  HalfUp(stored * before + worth, before + qty)

\* _recompute_charges: on the cumulative quantity, at the stored average.
RecomputeCharges(card, premium, quantity) ==
  Charges!OrderCharges(card, order.side, premium, quantity)

\* _apply_fills, for fills of this quantity and of this sum of price x quantity.
ApplyFills(qty, worth) ==
  /\ executed' = executed + qty
  /\ average' = AverageFillPrice(average, executed, qty, worth)
  /\ UNCHANGED vars

-----------------------------------------------------------------------------
ChargedInit == Init /\ executed = 0 /\ average = 0

Walk == Next /\ UNCHANGED row

ApplyWalk ==
  /\ done /\ filled > 0 /\ executed = 0
  /\ ApplyFills(filled, value)

\* A matcher pass over a limit order that rests, with what the walk left of it.
ApplyResting ==
  /\ done /\ order.kind # "MARKET"
  /\ filled > 0 => executed > 0
  /\ \E qty \in 1..(order.qty - executed) : ApplyFills(qty, qty * order.limit)

ChargedNext == Walk \/ ApplyWalk \/ ApplyResting

ChargedSpec == ChargedInit /\ [][ChargedNext]_<<vars, row>>

-----------------------------------------------------------------------------
(***************************************************************************)
(* "The difference is what this fill actually added": however an order is  *)
(* cut into calls, no later call lowers the charges on the cumulative      *)
(* quantity -- through the average rounded once more at every call, the    *)
(* cap of a brokerage and the rounding of single lines -- so no fill is    *)
(* booked a negative charge.                                               *)
(***************************************************************************)
ChargesOnlyGrow ==
  [][\A card \in Cards :
       RecomputeCharges(card, average', executed') >= RecomputeCharges(card, average, executed)]_row
=============================================================================
