-------------------------- MODULE PositionReports ---------------------------
(***************************************************************************)
(* reports/services/pnl_service.py: realised P&L is not read from the      *)
(* positions table but REPLAYED from every recorded fill, "through the     *)
(* same weighted-average logic the live position book uses ... the report  *)
(* and the positions screen can never disagree".  This module puts the     *)
(* replay next to the book and asks where that is so.                      *)
(***************************************************************************)
EXTENDS PositionBook, SequencesExt

\* order_fills holds one row per level an execution consumed.
LevelFills(e) == <<[side |-> e.side, level |-> e.near]>>
                 \o IF e.far = NoLevel THEN <<>> ELSE <<[side |-> e.side, level |-> e.far]>>

\* list_fills, oldest first, of one portfolio and contract.
FillsOf(p, s) ==
  FlattenSeq([k \in DOMAIN log |->
    IF log[k].portfolio = p /\ log[k].security = s THEN LevelFills(log[k]) ELSE <<>>])

\* _RunningPosition, with the sum of the events it has emitted.
Flat == [net |-> 0, avg |-> 0, realised |-> 0]

Larger(a, b) == IF a > b THEN a ELSE b

\* A replay that flips without taking the new price as the average.
ReplayFlipKeepsAverage(run, fill) ==
  LET after == run.net + Signed(fill.side, fill.level.qty)
      closing == IF fill.level.qty < Abs(run.net) THEN fill.level.qty ELSE Abs(run.net)
      value == (fill.level.price - run.avg) * closing
  IN  IF run.net = 0 \/ (run.net > 0 <=> fill.side = "BUY")
      THEN [run EXCEPT !.net = after,
                       !.avg = HalfUp(run.avg * Abs(run.net) + fill.level.price * fill.level.qty,
                                      Abs(after))]
      ELSE [run EXCEPT !.net = after,
                       !.realised = @ + ToMoney(IF run.net > 0 THEN value ELSE -value)]

\* The loop body of replay_fills.
Replay(run, fill) ==
  LET price  == fill.level.price
      qty    == fill.level.qty
      after  == run.net + Signed(fill.side, qty)
      adding == run.net = 0 \/ (run.net > 0 <=> fill.side = "BUY")
      closing == IF qty < Abs(run.net) THEN qty ELSE Abs(run.net)
      gross  == IF run.net > 0 THEN (price - run.avg) * closing
                               ELSE (run.avg - price) * closing
  IN  IF adding
      THEN [run EXCEPT !.net = after,
                       !.avg = HalfUp(run.avg * Abs(run.net) + price * qty, Abs(after))]
      ELSE [net |-> after,
            avg |-> IF qty > closing THEN price ELSE IF after = 0 THEN 0 ELSE run.avg,
            realised |-> run.realised + ToMoney(gross)]

Report(p, s) == FoldLeft(Replay, Flat, FillsOf(p, s))

\* The positions screen: what the rows of one contract realised.
RowsRealised(p, s) ==
  FoldLeft(LAMBDA sum, row : IF row.portfolio = p /\ row.security = s
                             THEN sum + row.realized ELSE sum,
           0, rows)

-----------------------------------------------------------------------------
(***************************************************************************)
(* While no execution consumed a second level, each is one recorded fill   *)
(* at the price the position saw, and only money can be rounded apart: the *)
(* report rounds every realisation, the row rounds its running sum.  That  *)
(* takes an average off the money grid (two executions) and a realisation  *)
(* before the one that differs, so from the fourth execution on, and then  *)
(* by one money quantum at a time.                                         *)
(***************************************************************************)
SingleLevelReplayAgrees ==
  (\A k \in DOMAIN log : log[k].far = NoLevel) =>
    \A p \in Portfolio, s \in Security :
       Abs(Report(p, s).realised - RowsRealised(p, s)) <=
         IF Len(log) <= 3 THEN 0 ELSE Len(log) - 3

(***************************************************************************)
(* A row has realised exactly the money it took out beyond the cost of     *)
(* what it no longer holds, up to rounding: an execution rounds a leg's    *)
(* value and either the average, by half a price quantum per unit, or what *)
(* is realised, each by half a money quantum.                              *)
(***************************************************************************)
RealisedExplainsTotals ==
  \A i \in DOMAIN rows :
     LET row == rows[i]
         rounding == MoneyUnit * (row.realized - (row.soldValue - row.boughtValue))
                     - row.net * row.avg
     IN  2 * Abs(rounding) <= Len(log) * (2 * MoneyUnit + Larger(row.bought, row.sold))

-----------------------------------------------------------------------------
(* What the documentation says and the code does not keep: pnl_service.py  *)
(* promises that the two "can never disagree".  An execution of two levels *)
(* is two fills for the report and one averaged fill for the position.     *)
ReplayedRealisedAgrees ==
  \A p \in Portfolio, s \in Security : Report(p, s).realised = RowsRealised(p, s)
=============================================================================
