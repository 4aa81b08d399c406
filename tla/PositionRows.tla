---------------------------- MODULE PositionRows ----------------------------
(***************************************************************************)
(* The position table and the one way a fill changes it:                   *)
(* positions/services/position_service.py, PositionService.apply_fill.     *)
(*                                                                         *)
(* A row is one round trip in one contract in one portfolio.  `net' is     *)
(* signed, `avg' is the weighted average price of what is open, and the    *)
(* bought/sold totals are the running sums the code keeps for audit.       *)
(* Rows are never deleted, so the table is a sequence and a row's id is    *)
(* its index; rows with larger ids were opened later.                      *)
(*                                                                         *)
(* Prices are counted in price quanta (four decimals in the code), money   *)
(* in the coarser money quanta (two decimals), each a whole number of      *)
(* price quanta.                                                           *)
(***************************************************************************)
EXTENDS Quanta, Sequences, FiniteSetsExt

CONSTANT MoneyUnit   \* the price quanta in one money quantum

ASSUME MoneyUnitAssumption == MoneyUnit \in Nat \ {0}

\* An amount in price quanta, rounded to money: halves away from zero.
ToMoney(v) == IF v < 0 THEN -HalfUp(-v, MoneyUnit) ELSE HalfUp(v, MoneyUnit)

IsOpenFor(row, p, s) == row.open /\ row.portfolio = p /\ row.security = s

\* The mistakes the runs are shown to catch stand before what they replace.
\* A lookup that forgets the portfolio, or that a row may be closed.
OpenIdsOfSecurity(rows, p, s) ==
  {i \in DOMAIN rows : rows[i].open /\ rows[i].security = s}

OpenIdsClosedToo(rows, p, s) ==
  {i \in DOMAIN rows : rows[i].portfolio = p /\ rows[i].security = s}

OpenIds(rows, p, s) == {i \in DOMAIN rows : IsOpenFor(rows[i], p, s)}

\* get_open_for_security orders by opened_at descending and takes the first.
Newest(ids) == CHOOSE i \in ids : \A j \in ids : j <= i

\* _open_position: the row a fill starts when nothing is open.
NewRow(f) ==
  [portfolio |-> f.portfolio, security |-> f.security, strategy |-> f.strategy,
   net |-> 0, avg |-> 0, realized |-> 0, charges |-> 0,
   bought |-> 0, boughtValue |-> 0, sold |-> 0, soldValue |-> 0,
   open |-> TRUE]

\* _weighted_average
Weighted(avg, held, price, qty) == HalfUp(avg * held + price * qty, held + qty)

\* What a quantity costs at a price.
Worth(price, qty) == ToMoney(price * qty)

\* _record_leg: the gross totals and the charges a row has accrued.
Leg(row, side, qty, price, charges) ==
  IF side = "BUY"
  THEN [row EXCEPT !.bought = @ + qty, !.boughtValue = @ + Worth(price, qty),
                   !.charges = @ + charges]
  ELSE [row EXCEPT !.sold = @ + qty, !.soldValue = @ + Worth(price, qty),
                   !.charges = @ + charges]

\* _close_position
Shut(row) == [row EXCEPT !.open = FALSE, !.avg = 0]

\* What a row has realised once `qty' of it are closed at `price', gross of
\* charges: the sum is rounded, not the addend.
Realised(row, price, qty) ==
  LET gain == IF row.net > 0 THEN price - row.avg ELSE row.avg - price
  IN  ToMoney(MoneyUnit * row.realized + gain * qty)

\* A fill on the side the row already has (or on a new row) adds to it.
SameWay(row, f) == row.net = 0 \/ (row.net > 0 <=> f.side = "BUY")

Increase(row, f) ==
  Leg([row EXCEPT !.avg = Weighted(row.avg, Abs(row.net), f.price, f.qty),
                  !.net = @ + Signed(f.side, f.qty)],
      f.side, f.qty, f.price, f.charges)

Decrease(row, f) ==
  Leg([row EXCEPT !.realized = Realised(row, f.price, f.qty),
                  !.net = @ + Signed(f.side, f.qty)],
      f.side, f.qty, f.price, f.charges)

Flips(row, f) == ~SameWay(row, f) /\ f.qty > Abs(row.net)

\* The row after a fill that does not flip it.
Absorb(row, f) ==
  LET moved == IF SameWay(row, f) THEN Increase(row, f) ELSE Decrease(row, f)
  IN  IF moved.net = 0 THEN Shut(moved) ELSE moved

\* A flip that leaves the old row open, or closes it with the whole fill.
CloseLegLeftOpen(row, f) ==
  Leg([row EXCEPT !.realized = Realised(row, f.price, Abs(row.net)), !.net = 0],
      f.side, Abs(row.net), f.price, f.charges)

CloseLegWholeFill(row, f) ==
  Shut(Leg([row EXCEPT !.realized = Realised(row, f.price, f.qty), !.net = 0],
           f.side, f.qty, f.price, f.charges))

\* A flip closes the old row (all of the fill's charges go to it) ...
CloseLeg(row, f) ==
  Shut(Leg([row EXCEPT !.realized = Realised(row, f.price, Abs(row.net)),
                       !.net = 0],
           f.side, Abs(row.net), f.price, f.charges))

\* A residual as large as the whole fill, or charged a second time.
ResidualUnreduced(row, f) ==
  Leg([NewRow(f) EXCEPT !.net = Signed(f.side, f.qty), !.avg = f.price],
      f.side, f.qty, f.price, 0)

ResidualCharged(row, f) ==
  LET left == f.qty - Abs(row.net)
  IN  Leg([NewRow(f) EXCEPT !.net = Signed(f.side, left), !.avg = f.price],
          f.side, left, f.price, f.charges)

\* ... and opens a fresh one for what is left of the fill.
Residual(row, f) ==
  LET left == f.qty - Abs(row.net)
  IN  Leg([NewRow(f) EXCEPT !.net = Signed(f.side, left), !.avg = f.price],
          f.side, left, f.price, 0)

(***************************************************************************)
(* What reaches the table.  A session that read a row earlier keeps the    *)
(* object it loaded: a later SELECT finds the row again but does not       *)
(* refresh it, and the UPDATE writes only the columns whose value differs  *)
(* from what the session loaded.                                           *)
(***************************************************************************)
Column(stored, seen, new) == IF new = seen THEN stored ELSE new

Flush(stored, seen, new) ==
  [portfolio   |-> stored.portfolio,
   security    |-> stored.security,
   strategy    |-> stored.strategy,
   net         |-> Column(stored.net, seen.net, new.net),
   avg         |-> Column(stored.avg, seen.avg, new.avg),
   realized    |-> Column(stored.realized, seen.realized, new.realized),
   charges     |-> Column(stored.charges, seen.charges, new.charges),
   bought      |-> Column(stored.bought, seen.bought, new.bought),
   boughtValue |-> Column(stored.boughtValue, seen.boughtValue, new.boughtValue),
   sold        |-> Column(stored.sold, seen.sold, new.sold),
   soldValue   |-> Column(stored.soldValue, seen.soldValue, new.soldValue),
   open        |-> Column(stored.open, seen.open, new.open)]

(***************************************************************************)
(* apply_fill.  `held' maps the ids of the rows this session loaded before *)
(* to the contents it loaded; it is empty for a session that did not.      *)
(***************************************************************************)
Loaded(rows, held, i) == IF i \in DOMAIN held THEN held[i] ELSE rows[i]

ApplyFill(rows, held, f) ==
  LET ids == OpenIds(rows, f.portfolio, f.security)
      i   == Newest(ids)
      row == Loaded(rows, held, i)
  IN  IF ids = {}
      THEN Append(rows, Absorb(NewRow(f), f))
      ELSE IF Flips(row, f)
           THEN Append([rows EXCEPT ![i] = Flush(rows[i], row, CloseLeg(row, f))],
                       Residual(row, f))
           ELSE [rows EXCEPT ![i] = Flush(rows[i], row, Absorb(row, f))]

\* The net quantity a reader of the open rows sees.
NetOf(rows, p, s) ==
  LET ids == OpenIds(rows, p, s)
  IN  IF ids = {} THEN 0 ELSE rows[Newest(ids)].net

\* The sum of a function's values.
Sum(f) == MapThenSumSet(LAMBDA x : f[x], DOMAIN f)

\* What a row and a fill are, over the given sets.
RowIn(P, S, K) ==
  [portfolio : P, security : S, strategy : K,
   net : Int, avg : Nat, realized : Int, charges : Int,
   bought : Nat, boughtValue : Nat, sold : Nat, soldValue : Nat, open : BOOLEAN]

FillIn(P, S, K) ==
  [portfolio : P, security : S, strategy : K, side : Sides,
   qty : Nat \ {0}, price : Nat, charges : Int]

\* The two things every reader of the table assumes of it.
OneOpenEach(rows) ==
  \A i, j \in DOMAIN rows :
     /\ rows[i].open /\ rows[j].open
     /\ rows[i].portfolio = rows[j].portfolio
     /\ rows[i].security = rows[j].security
     => i = j

OpenWhileHolding(rows) ==
  \A i \in DOMAIN rows : rows[i].open <=> rows[i].net # 0
=============================================================================
