----------------------------- MODULE BookFills ------------------------------
(***************************************************************************)
(* What orders/services/fill_simulator.py may answer, whatever the depth   *)
(* behind the touch is: how much of an order fills, and at which average   *)
(* price.  The order core is built on these sets; FillSimulator walks the  *)
(* published levels and is shown to answer inside them.                    *)
(*                                                                         *)
(* A quote is what the two touches and the last trade show, 0 where there  *)
(* is none.                                                                *)
(***************************************************************************)
EXTENDS Quanta

CONSTANT MaxWalk   \* how far past the touch an average fill can land

ASSUME MaxWalkAssumption == MaxWalk \in Nat

NoFill == [qty |-> 0, price |-> 0]

\* extract_side_levels: a buy lifts the ask, a sell hits the bid.
Touch(side, q) == IF side = "BUY" THEN q.ask ELSE q.bid

\* Within a limit: at it, or on the trader's side of it.
Within(side, limit, price) == IF side = "BUY" THEN price <= limit ELSE price >= limit

\* Through a limit: strictly better for the trader.
Through(side, limit, price) == IF side = "BUY" THEN price < limit ELSE price > limit

\* simulate_marketable_fill: walking the book and slippage only worsen the
\* touch, a limit is never exceeded, and depth can run out anywhere.
MarketableFills(side, qty, q, limited, limit) ==
  LET touch  == Touch(side, q)
      prices == {price \in 1..(touch + MaxWalk) :
                   /\ IF side = "BUY" THEN price >= touch
                                      ELSE price <= touch /\ price >= touch - MaxWalk
                   /\ limited => Within(side, limit, price)}
  IN  IF touch = 0 THEN {NoFill}
      ELSE [qty : 1..qty, price : prices]
           \cup (IF limited /\ MaxWalk > 0 THEN {NoFill} ELSE {})

\* is_marketable
IsMarketable(side, limit, q) ==
  Touch(side, q) > 0 /\ Within(side, limit, Touch(side, q))

\* try_fill_resting_limit: a strict cross fills, at the limit.
RestingFills(side, remaining, limit, q) ==
  IF Touch(side, q) > 0 /\ Through(side, limit, Touch(side, q))
  THEN [qty : 1..remaining, price : {limit}]
  ELSE {NoFill}
=============================================================================
