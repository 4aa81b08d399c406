-------------------------- MODULE MCFillSimulator --------------------------
(* A TLC instance of the fill simulator and of the row that books its       *)
(* fills: up to three published levels, in any order, dead ones included,   *)
(* on a grid of ticks of 2 quanta so that an average can fall between two   *)
(* ticks and be rounded, under five rate cards.                             *)
EXTENDS ChargedFills

MCLevel == [price : {2, 4, 6}, qty : {1, 2}] \cup {[price |-> 0, qty |-> 1], [price |-> 4, qty |-> 0]}
MCDepths == UNION {[1..n -> MCLevel] : n \in 0..3}

Levy(name, kind, rate, sides, rounding, of) ==
  [name |-> name, kind |-> kind, rate |-> rate, sides |-> sides, rounding |-> rounding, of |-> of]

\* A commodity card: a tax on sales, stamp duty on purchases, one charge both
\* ways, and a tax on the service.
Commodity(mode, brokerage) ==
  [mode |-> mode, brokerage |-> brokerage,
   levies |-> <<Levy("brokerage", "brokerage", 0, {}, "none", {}),
                Levy("ctt", "turnover", 1, {"SELL"}, "none", {}),
                Levy("exchange", "turnover", 2, {}, "paise_half_even", {}),
                Levy("stamp", "turnover", 1, {"BUY"}, "rupee_half_up", {}),
                Levy("gst", "components", 3, {}, "paise_half_up", {"brokerage", "exchange"})>>]

\* A delivery card: a tax both ways and a flat fee on a sale.
Delivery(mode) ==
  [mode |-> mode, brokerage |-> [mode |-> "flat", flat |-> 0, rate |-> 0, cap |-> 0],
   levies |-> <<Levy("brokerage", "brokerage", 0, {}, "none", {}),
                Levy("stt", "turnover", 2, {"BUY", "SELL"}, "rupee_half_up", {}),
                Levy("dp", "flat", 3, {"SELL"}, "none", {}),
                Levy("gst", "components", 3, {}, "paise_half_up", {"brokerage", "dp"})>>]

Flat == [mode |-> "flat", flat |-> 3, rate |-> 0, cap |-> 0]
Capped == [mode |-> "percentage", flat |-> 0, rate |-> 4, cap |-> 5]

MCCards == {Commodity("exact", Flat), Commodity("broker_compatible", Flat),
          Commodity("broker_compatible", Capped), Delivery("exact"), Delivery("broker_compatible")}
=============================================================================
