--------------------------- MODULE ChargesEngine ----------------------------
(***************************************************************************)
(* charges/services/charges_engine.py: what one order is charged under a   *)
(* rate card, and the recomputation on what it has executed so far.        *)
(*                                                                         *)
(* A card is a record: its rounding mode, its brokerage, and its levies in *)
(* order.  Rates are in 1/Scale; an unrounded amount is exact, as the      *)
(* code's Decimal is, in 1/Whole of the money quantum.                     *)
(***************************************************************************)
EXTENDS Quanta, Sequences, SequencesExt, Functions

CONSTANTS
  Scale,     \* the denominator of every rate
  Rupee      \* money quanta in a rupee

Whole == Scale * Scale

\* n/d rounded ROUND_HALF_EVEN.
HalfEven(n, d) ==
  IF (2 * n) % (2 * d) = d /\ (n \div d) % 2 = 0 THEN n \div d ELSE HalfUp(n, d)

-----------------------------------------------------------------------------
\* compute_brokerage: a flat fee, or a share of the turnover with a cap.
Brokerage(card, turnover) ==
  LET fee == card.brokerage
      share == fee.rate * turnover * Scale
  IN  IF fee.mode = "flat" THEN fee.flat * Whole
      ELSE IF fee.cap # 0 /\ share > fee.cap * Whole THEN fee.cap * Whole
      ELSE share

\* _levy_applies: no sides are both.
Applies(levy, side) == levy.sides = {} \/ side \in levy.sides

\* _compute_levy, with the amounts of the levies before it.
Levied(card, levy, side, turnover, computed) ==
  IF ~Applies(levy, side) THEN 0
  ELSE CASE levy.kind = "brokerage"  -> Brokerage(card, turnover)
         [] levy.kind = "flat"       -> levy.rate * Whole
         [] levy.kind = "turnover"   -> levy.rate * turnover * Scale
         [] levy.kind = "components" ->
              levy.rate * (FoldFunctionOnSet(+, 0, computed, levy.of) \div Scale)

\* _intermediate: only a broker's note rounds a line before the sum.
Intermediate(card, levy, amount) ==
  CASE card.mode # "broker_compatible" \/ levy.rounding = "none" -> amount
    [] levy.rounding = "paise_half_even" -> HalfEven(amount, Whole) * Whole
    [] levy.rounding = "paise_half_up"   -> HalfUp(amount, Whole) * Whole
    [] levy.rounding = "rupee_half_up"   -> HalfUp(amount, Whole * Rupee) * Whole * Rupee

\* The levies' effective amounts, in the card's order.
Effective(card, side, turnover) ==
  FoldLeft(LAMBDA computed, levy :
             computed @@ (levy.name :> Intermediate(card, levy,
                            Levied(card, levy, side, turnover, computed))),
           <<>>, card.levies)

\* _compute: the rounded sum of the effective amounts.
Total(card, side, turnover) ==
  HalfUp(FoldFunction(+, 0, Effective(card, side, turnover)), Whole)

\* compute_order_charges_for_quantity: the turnover is premium x quantity.
OrderCharges(card, side, premium, quantity) ==
  IF quantity = 0 THEN 0 ELSE Total(card, side, premium * quantity)
=============================================================================
