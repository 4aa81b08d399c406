------------------------------- MODULE Quanta -------------------------------
(***************************************************************************)
(* Sides and rounding: what every module that counts prices, quantities    *)
(* and money in whole quanta shares.                                       *)
(***************************************************************************)
EXTENDS Integers

Sides == {"BUY", "SELL"}

Abs(n) == IF n < 0 THEN -n ELSE n

\* n/d rounded ROUND_HALF_UP, for n >= 0 and d > 0 (Decimal.quantize).
HalfUp(n, d) == (2 * n + d) \div (2 * d)

Signed(side, qty) == IF side = "BUY" THEN qty ELSE -qty
=============================================================================
