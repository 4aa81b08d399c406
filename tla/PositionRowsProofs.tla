-------------------------- MODULE PositionRowsProofs --------------------------
(***************************************************************************)
(* What one fill does to the positions table, for every fill, every table  *)
(* and every set of rows a session may still hold from an earlier read:    *)
(* to its rows one by one, and to the sums over the rows of a position.    *)
(***************************************************************************)
EXTENDS PositionRows, FiniteSetTheorems, SequenceTheorems, WellFoundedInduction, TLAPS

(* Rounding a non-negative quotient half up gives a natural number.        *)
LEMMA HalfUpIsNat ==
  ASSUME NEW n, n \in Nat, NEW d, d \in Nat \ {0}
  PROVE  HalfUp(n, d) \in Nat
<1> DEFINE a == 2 * n + d
           b == 2 * d
<1>1. a \in Nat /\ b \in Nat /\ b > 0
  BY SMT
<1> HIDE DEF a, b
<1>2. a \div b \in Nat
  BY <1>1, SMT
<1> QED
  BY <1>2 DEF HalfUp, a, b

(* Products of naturals are naturals, of integers integers.                *)
LEMMA ProductIsNat ==
  ASSUME NEW m, m \in Nat, NEW n, n \in Nat
  PROVE  m * n \in Nat
BY SMT

LEMMA ProductIsInt ==
  ASSUME NEW m, m \in Int, NEW n, n \in Int
  PROVE  m * n \in Int
BY SMT

(* Rounding to money keeps integers, and what is not negative.             *)
LEMMA MoneyIsInt ==
  ASSUME NEW v, v \in Int
  PROVE  ToMoney(v) \in Int /\ (v >= 0 => ToMoney(v) \in Nat)
<1>1. PICK n : n \in Nat /\ n = IF v < 0 THEN -v ELSE v
  OBVIOUS
<1>2. PICK h : h \in Nat /\ h = HalfUp(n, MoneyUnit)
  BY <1>1, HalfUpIsNat, MoneyUnitAssumption
<1>3. ToMoney(v) = IF v < 0 THEN -h ELSE h
  BY <1>1, <1>2 DEF ToMoney
<1> QED
  BY <1>2, <1>3

LEMMA WorthIsNat ==
  ASSUME NEW price, price \in Nat, NEW qty, qty \in Nat
  PROVE  Worth(price, qty) \in Nat
<1>1. PICK v : v \in Nat /\ v = price * qty
  BY ProductIsNat
<1>2. ToMoney(v) \in Nat
  BY <1>1, MoneyIsInt
<1> QED
  BY <1>1, <1>2 DEF Worth

LEMMA AbsIsNat ==
  ASSUME NEW n, n \in Int
  PROVE  Abs(n) \in Nat /\ (n # 0 => Abs(n) # 0)
BY DEF Abs

(* Rounding is off by half a unit at most.                                 *)
LEMMA HalfUpNear ==
  ASSUME NEW n, n \in Nat, NEW d, d \in Nat \ {0}
  PROVE  2 * Abs(HalfUp(n, d) * d - n) <= d
<1> DEFINE a == 2 * n + d
           b == 2 * d
           q == a \div b
<1>1. a \in Nat /\ b \in Nat /\ b > 0
  OBVIOUS
<1>2. HalfUp(n, d) = q
  BY DEF HalfUp
<1> HIDE DEF a, b
<1>3. q \in Int /\ b * q <= a /\ a < b * q + b
  BY <1>1
<1> HIDE DEF q
<1>4. PICK m : m \in Int /\ m = q * d
  BY <1>3, ProductIsInt
<1>5. b * q = 2 * m
  BY <1>3, <1>4 DEF b
<1>6. 2 * m <= 2 * n + d /\ 2 * n + d < 2 * m + 2 * d
  BY <1>3, <1>5 DEF a, b
<1>7. 2 * Abs(m - n) <= d
  BY <1>4, <1>6 DEF Abs
<1> QED
  BY <1>2, <1>4, <1>7

LEMMA MoneyNear ==
  ASSUME NEW v, v \in Int
  PROVE  2 * Abs(MoneyUnit * ToMoney(v) - v) <= MoneyUnit
<1>1. PICK n : n \in Nat /\ n = IF v < 0 THEN -v ELSE v
  OBVIOUS
<1>2. PICK h : h \in Nat /\ h = HalfUp(n, MoneyUnit)
  BY <1>1, HalfUpIsNat, MoneyUnitAssumption
<1>3. 2 * Abs(h * MoneyUnit - n) <= MoneyUnit
  BY <1>1, <1>2, HalfUpNear, MoneyUnitAssumption
<1>4. ToMoney(v) = IF v < 0 THEN -h ELSE h
  BY <1>1, <1>2 DEF ToMoney
<1>5. PICK m : m \in Int /\ m = h * MoneyUnit
  BY <1>2, MoneyUnitAssumption
<1>6. MoneyUnit * ToMoney(v) = IF v < 0 THEN -m ELSE m
  BY <1>2, <1>4, <1>5, MoneyUnitAssumption
<1>7. PICK w : w = MoneyUnit * ToMoney(v)
  OBVIOUS
<1>8. 2 * Abs(w - v) <= MoneyUnit
  <2>1. w = IF v < 0 THEN -m ELSE m
    BY <1>6, <1>7
  <2>2. 2 * Abs(m - n) <= MoneyUnit
    BY <1>3, <1>5
  <2> QED
    BY <1>1, <1>5, <2>1, <2>2, MoneyUnitAssumption DEF Abs
<1> QED
  BY <1>7, <1>8

-----------------------------------------------------------------------------
\* What a row has brought in, and what a fill does.
Cash(row) == row.soldValue - row.boughtValue
Flow(side, value) == IF side = "BUY" THEN -value ELSE value

(* _record_leg: only the audit totals and the charges change.              *)
LEMMA LegRecords ==
  ASSUME NEW P, NEW S, NEW K, NEW row \in RowIn(P, S, K),
         NEW side, side \in Sides, NEW qty, qty \in Nat, NEW price, price \in Nat, NEW charges, charges \in Int,
         NEW leg, leg = Leg(row, side, qty, price, charges)
  PROVE  /\ leg \in RowIn(P, S, K)
         /\ leg.net = row.net /\ leg.avg = row.avg /\ leg.open = row.open
         /\ leg.portfolio = row.portfolio /\ leg.security = row.security
         /\ leg.strategy = row.strategy
         /\ leg.bought - leg.sold = row.bought - row.sold + Signed(side, qty)
         /\ leg.charges = row.charges + charges
         /\ Cash(leg) = Cash(row) + Flow(side, Worth(price, qty))
<1> DEFINE value == Worth(price, qty)
<1>1. value \in Nat
  BY WorthIsNat
<1>2. leg = IF side = "BUY"
            THEN [row EXCEPT !.bought = @ + qty, !.boughtValue = @ + value,
                             !.charges = @ + charges]
            ELSE [row EXCEPT !.sold = @ + qty, !.soldValue = @ + value,
                             !.charges = @ + charges]
  BY DEF Leg
<1>5. Flow(side, Worth(price, qty)) = IF side = "BUY" THEN -value ELSE value
  BY DEF Flow
<1> HIDE DEF value
<1>3. CASE side = "BUY"
  <2>1. leg = [portfolio |-> row.portfolio, security |-> row.security,
               strategy |-> row.strategy, net |-> row.net, avg |-> row.avg,
               realized |-> row.realized, charges |-> row.charges + charges,
               bought |-> row.bought + qty,
               boughtValue |-> row.boughtValue + value, sold |-> row.sold,
               soldValue |-> row.soldValue, open |-> row.open]
    BY <1>2, <1>3 DEF RowIn
  <2> QED
    BY <2>1, <1>1, <1>3, <1>5 DEF RowIn, Signed, Cash
<1>4. CASE side = "SELL"
  <2>1. leg = [portfolio |-> row.portfolio, security |-> row.security,
               strategy |-> row.strategy, net |-> row.net, avg |-> row.avg,
               realized |-> row.realized, charges |-> row.charges + charges,
               bought |-> row.bought, boughtValue |-> row.boughtValue,
               sold |-> row.sold + qty, soldValue |-> row.soldValue + value,
               open |-> row.open]
    BY <1>2, <1>4 DEF RowIn
  <2> QED
    BY <2>1, <1>1, <1>4, <1>5 DEF RowIn, Signed, Cash
<1> QED
  BY <1>3, <1>4 DEF Sides

(* What a row has realised stays an integer.                               *)
LEMMA RealisedIsInt ==
  ASSUME NEW P, NEW S, NEW K, NEW row \in RowIn(P, S, K),
         NEW price, price \in Nat, NEW qty, qty \in Nat
  PROVE  Realised(row, price, qty) \in Int
<1>1. PICK gain : gain \in Int /\ gain = IF row.net > 0 THEN price - row.avg ELSE row.avg - price
  BY DEF RowIn
<1>2. PICK more : more \in Int /\ more = gain * qty
  BY <1>1, ProductIsInt
<1>3. row.realized \in Int
  BY DEF RowIn
<1>4. PICK before : before \in Int /\ before = MoneyUnit * row.realized
  BY <1>3, ProductIsInt, MoneyUnitAssumption
<1>5. PICK sum : sum \in Int /\ sum = before + more
  BY <1>2, <1>4
<1>6. ToMoney(sum) \in Int
  BY <1>5, MoneyIsInt
<1> QED
  BY <1>1, <1>2, <1>4, <1>5, <1>6 DEF Realised

(* What a fill changes of a row, apart from its audit totals.              *)
Averaged(row, avg, net) == [row EXCEPT !.avg = avg, !.net = net]
Booked(row, realized, net) == [row EXCEPT !.realized = realized, !.net = net]
Started(f, net) == [NewRow(f) EXCEPT !.net = net, !.avg = f.price]

LEMMA AveragedRow ==
  ASSUME NEW P, NEW S, NEW K, NEW row \in RowIn(P, S, K),
         NEW avg, avg \in Nat, NEW net, net \in Int, NEW base
  PROVE  base = Averaged(row, avg, net) =>
         /\ base \in RowIn(P, S, K)
         /\ base.net = net /\ base.open = row.open
         /\ base.portfolio = row.portfolio /\ base.security = row.security
         /\ base.strategy = row.strategy
         /\ base.bought = row.bought /\ base.sold = row.sold
         /\ base.charges = row.charges /\ Cash(base) = Cash(row)
<1>1. ASSUME base = Averaged(row, avg, net)
      PROVE  base = [portfolio |-> row.portfolio, security |-> row.security,
                     strategy |-> row.strategy, net |-> net, avg |-> avg,
                     realized |-> row.realized, charges |-> row.charges,
                     bought |-> row.bought, boughtValue |-> row.boughtValue,
                     sold |-> row.sold, soldValue |-> row.soldValue,
                     open |-> row.open]
  BY <1>1 DEF Averaged, RowIn
<1>2. CASE base = Averaged(row, avg, net)
  BY <1>1, <1>2 DEF RowIn, Cash
<1> QED
  BY <1>2

LEMMA BookedRow ==
  ASSUME NEW P, NEW S, NEW K, NEW row \in RowIn(P, S, K),
         NEW realized, realized \in Int, NEW net, net \in Int, NEW base
  PROVE  base = Booked(row, realized, net) =>
         /\ base \in RowIn(P, S, K)
         /\ base.net = net /\ base.open = row.open
         /\ base.portfolio = row.portfolio /\ base.security = row.security
         /\ base.strategy = row.strategy
         /\ base.bought = row.bought /\ base.sold = row.sold
         /\ base.charges = row.charges /\ Cash(base) = Cash(row)
<1>1. ASSUME base = Booked(row, realized, net)
      PROVE  base = [portfolio |-> row.portfolio, security |-> row.security,
                     strategy |-> row.strategy, net |-> net, avg |-> row.avg,
                     realized |-> realized, charges |-> row.charges,
                     bought |-> row.bought, boughtValue |-> row.boughtValue,
                     sold |-> row.sold, soldValue |-> row.soldValue,
                     open |-> row.open]
  BY <1>1 DEF Booked, RowIn
<1>2. CASE base = Booked(row, realized, net)
  BY <1>1, <1>2 DEF RowIn, Cash
<1> QED
  BY <1>2

LEMMA StartedRow ==
  ASSUME NEW P, NEW S, NEW K, NEW f \in FillIn(P, S, K),
         NEW net, net \in Int, NEW base
  PROVE  base = Started(f, net) =>
         /\ base \in RowIn(P, S, K) /\ base.open /\ base.net = net
         /\ base.portfolio = f.portfolio /\ base.security = f.security
         /\ base.strategy = f.strategy
         /\ base.bought = 0 /\ base.sold = 0
         /\ base.charges = 0 /\ Cash(base) = 0
<1>1. ASSUME base = Started(f, net)
      PROVE  base = [portfolio |-> f.portfolio, security |-> f.security,
                     strategy |-> f.strategy, net |-> net, avg |-> f.price,
                     realized |-> 0, charges |-> 0, bought |-> 0,
                     boughtValue |-> 0, sold |-> 0, soldValue |-> 0,
                     open |-> TRUE]
  BY <1>1 DEF Started, NewRow
<1>2. f.portfolio \in P /\ f.security \in S /\ f.strategy \in K /\ f.price \in Nat
  BY DEF FillIn
<1>3. [portfolio |-> f.portfolio, security |-> f.security,
       strategy |-> f.strategy, net |-> net, avg |-> f.price,
       realized |-> 0, charges |-> 0, bought |-> 0,
       boughtValue |-> 0, sold |-> 0, soldValue |-> 0,
       open |-> TRUE] \in RowIn(P, S, K)
  BY <1>2 DEF RowIn
<1>4. CASE base = Started(f, net)
  <2>1. base \in RowIn(P, S, K)
    BY <1>1, <1>3, <1>4, Zenon
  <2> QED
    BY <1>1, <1>4, <2>1 DEF Cash
<1> QED
  BY <1>4

LEMMA ShutRow ==
  ASSUME NEW P, NEW S, NEW K, NEW row \in RowIn(P, S, K), NEW shut, shut = Shut(row)
  PROVE  /\ shut \in RowIn(P, S, K)
         /\ shut.net = row.net /\ ~shut.open /\ shut.avg = 0
         /\ shut.portfolio = row.portfolio /\ shut.security = row.security
         /\ shut.strategy = row.strategy
         /\ shut.bought = row.bought /\ shut.sold = row.sold
         /\ shut.charges = row.charges /\ Cash(shut) = Cash(row)
<1>1. shut = [portfolio |-> row.portfolio, security |-> row.security,
              strategy |-> row.strategy, net |-> row.net, avg |-> 0,
              realized |-> row.realized, charges |-> row.charges,
              bought |-> row.bought, boughtValue |-> row.boughtValue,
              sold |-> row.sold, soldValue |-> row.soldValue, open |-> FALSE]
  BY DEF Shut, RowIn
<1> QED
  BY <1>1 DEF RowIn, Cash

(* Adding to a row and taking from it move the quantity by the signed size *)
(* of the fill.                                                            *)
LEMMA IncreaseMoves ==
  ASSUME NEW P, NEW S, NEW K,
         NEW row \in RowIn(P, S, K), NEW f \in FillIn(P, S, K),
         NEW moved, moved = Increase(row, f) \/ moved = Decrease(row, f)
  PROVE  /\ moved \in RowIn(P, S, K)
         /\ moved.net = row.net + Signed(f.side, f.qty)
         /\ moved.open <=> row.open
         /\ moved.portfolio = row.portfolio /\ moved.security = row.security
         /\ moved.strategy = row.strategy
         /\ moved.bought - moved.sold = row.bought - row.sold + Signed(f.side, f.qty)
         /\ moved.charges = row.charges + f.charges
         /\ Cash(moved) = Cash(row) + Flow(f.side, Worth(f.price, f.qty))
<1>1. f.side \in Sides /\ f.price \in Nat /\ f.qty \in Nat /\ f.charges \in Int
  BY DEF FillIn
<1>2. f.qty # 0
  BY DEF FillIn
<1>3. PICK net : net \in Int /\ net = row.net + Signed(f.side, f.qty)
  BY <1>1 DEF Signed, RowIn
<1>4. PICK average : average \in Nat /\ average = Weighted(row.avg, Abs(row.net), f.price, f.qty)
  <2>1. Abs(row.net) \in Nat /\ row.avg \in Nat
    BY AbsIsNat DEF RowIn
  <2>2. row.avg * Abs(row.net) \in Nat /\ f.price * f.qty \in Nat
    BY <2>1, <1>1, ProductIsNat
  <2>3. row.avg * Abs(row.net) + f.price * f.qty \in Nat
    BY <2>2, SMT
  <2>4. Abs(row.net) + f.qty \in Nat \ {0}
    BY <2>1, <1>1, <1>2
  <2> QED
    BY <2>3, <2>4, HalfUpIsNat DEF Weighted
<1>5. PICK realized : realized \in Int /\ realized = Realised(row, f.price, f.qty)
  <2>1. Realised(row, f.price, f.qty) \in Int
    BY <1>1, RealisedIsInt
  <2> QED
    BY <2>1 DEF RowIn
<1>6. PICK base : /\ base = Averaged(row, average, net) \/ base = Booked(row, realized, net)
                  /\ moved = Leg(base, f.side, f.qty, f.price, f.charges)
  BY <1>3, <1>4, <1>5 DEF Increase, Decrease, Averaged, Booked
<1>7. /\ base \in RowIn(P, S, K)
      /\ base.net = net /\ base.open = row.open
      /\ base.portfolio = row.portfolio /\ base.security = row.security
      /\ base.strategy = row.strategy
      /\ base.bought = row.bought /\ base.sold = row.sold
      /\ base.charges = row.charges /\ Cash(base) = Cash(row)
  <2>1. CASE base = Averaged(row, average, net)
    BY <1>3, <1>4, <2>1, AveragedRow
  <2>2. CASE base = Booked(row, realized, net)
    BY <1>3, <1>5, <2>2, BookedRow
  <2> QED
    BY <1>6, <2>1, <2>2
<1>8. /\ moved \in RowIn(P, S, K)
      /\ moved.net = base.net /\ moved.open = base.open
      /\ moved.portfolio = base.portfolio /\ moved.security = base.security
      /\ moved.strategy = base.strategy
      /\ moved.bought - moved.sold = base.bought - base.sold + Signed(f.side, f.qty)
      /\ moved.charges = base.charges + f.charges
      /\ Cash(moved) = Cash(base) + Flow(f.side, Worth(f.price, f.qty))
  BY <1>1, <1>6, <1>7, LegRecords
<1> QED
  BY <1>3, <1>7, <1>8

(* A fill that does not flip the row: it stays open exactly while it holds *)
(* something, and the row it ends has no average left.                     *)
LEMMA AbsorbMoves ==
  ASSUME NEW P, NEW S, NEW K,
         NEW row \in RowIn(P, S, K), NEW f \in FillIn(P, S, K), row.open,
         NEW new, new = Absorb(row, f)
  PROVE  /\ new \in RowIn(P, S, K)
         /\ new.net = row.net + Signed(f.side, f.qty)
         /\ new.open <=> new.net # 0
         /\ ~new.open => new.avg = 0
         /\ new.portfolio = row.portfolio /\ new.security = row.security
         /\ new.strategy = row.strategy
         /\ new.bought - new.sold = row.bought - row.sold + Signed(f.side, f.qty)
         /\ new.charges = row.charges + f.charges
         /\ Cash(new) = Cash(row) + Flow(f.side, Worth(f.price, f.qty))
<1>1. PICK moved : /\ moved = Increase(row, f) \/ moved = Decrease(row, f)
                   /\ new = IF moved.net = 0 THEN Shut(moved) ELSE moved
  BY DEF Absorb
<1>2. /\ moved \in RowIn(P, S, K)
      /\ moved.net = row.net + Signed(f.side, f.qty)
      /\ moved.open <=> row.open
      /\ moved.portfolio = row.portfolio /\ moved.security = row.security
      /\ moved.strategy = row.strategy
      /\ moved.bought - moved.sold = row.bought - row.sold + Signed(f.side, f.qty)
      /\ moved.charges = row.charges + f.charges
      /\ Cash(moved) = Cash(row) + Flow(f.side, Worth(f.price, f.qty))
  <2>1. moved = Increase(row, f) \/ moved = Decrease(row, f)
    BY <1>1
  <2> QED
    BY <2>1, IncreaseMoves
<1>3. CASE moved.net = 0
  <2>1. new = Shut(moved)
    BY <1>1, <1>3
  <2>2. /\ new \in RowIn(P, S, K)
        /\ new.net = moved.net /\ ~new.open /\ new.avg = 0
        /\ new.portfolio = moved.portfolio /\ new.security = moved.security
        /\ new.strategy = moved.strategy
        /\ new.bought = moved.bought /\ new.sold = moved.sold
        /\ new.charges = moved.charges /\ Cash(new) = Cash(moved)
    BY <1>2, <2>1, ShutRow
  <2> QED
    BY <1>2, <1>3, <2>2
<1>4. CASE moved.net # 0
  BY <1>1, <1>2, <1>4
<1> QED
  BY <1>3, <1>4

(* A flip: the old row is closed at zero, the new one holds the residual   *)
(* on the other side, and together they moved by the size of the fill.     *)
LEMMA FlipMoves ==
  ASSUME NEW P, NEW S, NEW K,
         NEW row \in RowIn(P, S, K), NEW f \in FillIn(P, S, K), Flips(row, f),
         NEW old, old = CloseLeg(row, f), NEW new, new = Residual(row, f)
  PROVE  /\ old \in RowIn(P, S, K) /\ new \in RowIn(P, S, K)
         /\ old.net = 0 /\ ~old.open /\ old.avg = 0
         /\ old.portfolio = row.portfolio /\ old.security = row.security
         /\ old.strategy = row.strategy
         /\ old.bought - old.sold = row.bought - row.sold - row.net
         /\ new.open /\ new.net # 0
         /\ new.net = row.net + Signed(f.side, f.qty)
         /\ new.portfolio = f.portfolio /\ new.security = f.security
         /\ new.strategy = f.strategy
         /\ new.bought - new.sold = new.net
         /\ old.charges = row.charges + f.charges /\ new.charges = 0
         /\ \E a \in Nat, b \in Nat :
              /\ a + b = f.qty
              /\ Cash(old) = Cash(row) + Flow(f.side, Worth(f.price, a))
              /\ Cash(new) = Flow(f.side, Worth(f.price, b))
<1>1. f.qty \in Nat /\ f.qty # 0 /\ f.side \in Sides
  BY DEF FillIn
<1>7. f.side \in Sides /\ f.price \in Nat /\ f.charges \in Int
  BY DEF FillIn
<1>8. Abs(row.net) \in Nat
  BY AbsIsNat DEF RowIn
<1>2. row.net \in Int /\ row.net # 0 /\ Abs(row.net) \in Nat
  BY AbsIsNat DEF RowIn, Flips, SameWay
<1> DEFINE left == f.qty - Abs(row.net)
<1>3. left \in Nat /\ left # 0
  BY <1>1, <1>2 DEF Flips
<1>4. /\ Signed(f.side, Abs(row.net)) = -row.net
      /\ Signed(f.side, left) = row.net + Signed(f.side, f.qty)
      /\ Signed(f.side, left) \in Int /\ Signed(f.side, left) # 0
  BY <1>1, <1>2, <1>3 DEF Flips, SameWay, Signed, Abs, Sides
<1> HIDE DEF left
<1>5. /\ old \in RowIn(P, S, K)
      /\ old.net = 0 /\ ~old.open /\ old.avg = 0
      /\ old.portfolio = row.portfolio /\ old.security = row.security
      /\ old.strategy = row.strategy
      /\ old.bought - old.sold = row.bought - row.sold - row.net
      /\ old.charges = row.charges + f.charges
      /\ Cash(old) = Cash(row) + Flow(f.side, Worth(f.price, Abs(row.net)))
  <2>1. PICK realized : /\ realized \in Int
                        /\ realized = Realised(row, f.price, Abs(row.net))
    <3>1. Realised(row, f.price, Abs(row.net)) \in Int
      BY <1>7, <1>8, RealisedIsInt
    <3> QED
      BY <3>1 DEF RowIn
  <2>10. PICK zero : zero \in Int /\ zero = 0
    OBVIOUS
  <2>2. PICK base : base = Booked(row, realized, zero)
    OBVIOUS
  <2>3. /\ base \in RowIn(P, S, K) /\ base.net = zero
        /\ base.portfolio = row.portfolio /\ base.security = row.security
        /\ base.strategy = row.strategy
        /\ base.bought = row.bought /\ base.sold = row.sold
        /\ base.charges = row.charges /\ Cash(base) = Cash(row)
    BY <2>1, <2>2, <2>10, BookedRow
  <2>4. PICK leg : leg = Leg(base, f.side, Abs(row.net), f.price, f.charges)
    OBVIOUS
  <2>5. /\ leg \in RowIn(P, S, K) /\ leg.net = base.net
        /\ leg.portfolio = base.portfolio /\ leg.security = base.security
        /\ leg.strategy = base.strategy
        /\ leg.bought - leg.sold = base.bought - base.sold + Signed(f.side, Abs(row.net))
        /\ leg.charges = base.charges + f.charges
        /\ Cash(leg) = Cash(base) + Flow(f.side, Worth(f.price, Abs(row.net)))
    BY <2>3, <2>4, <1>7, <1>8, LegRecords
  <2>6. row.bought \in Nat /\ row.sold \in Nat
    BY DEF RowIn
  <2>7. leg.bought - leg.sold = row.bought - row.sold - row.net
    BY <2>3, <2>5, <2>6, <1>2, <1>4
  <2>8. old = Shut(leg)
    BY <2>1, <2>2, <2>4, <2>10 DEF CloseLeg, Booked
  <2>9. /\ old \in RowIn(P, S, K)
        /\ old.net = leg.net /\ ~old.open /\ old.avg = 0
        /\ old.portfolio = leg.portfolio /\ old.security = leg.security
        /\ old.strategy = leg.strategy
        /\ old.bought = leg.bought /\ old.sold = leg.sold
        /\ old.charges = leg.charges /\ Cash(old) = Cash(leg)
    BY <2>5, <2>8, ShutRow
  <2> QED
    BY <2>3, <2>5, <2>7, <2>9, <2>10
<1>6. /\ new \in RowIn(P, S, K) /\ new.open
      /\ new.net = Signed(f.side, left)
      /\ new.portfolio = f.portfolio /\ new.security = f.security
      /\ new.strategy = f.strategy
      /\ new.bought - new.sold = new.net
      /\ new.charges = 0 /\ Cash(new) = Flow(f.side, Worth(f.price, left))
  <2>1. PICK size : size \in Int /\ size = Signed(f.side, left)
    BY <1>4
  <2>2. PICK base : base = Started(f, size)
    OBVIOUS
  <2>3. /\ base \in RowIn(P, S, K) /\ base.open /\ base.net = size
        /\ base.portfolio = f.portfolio /\ base.security = f.security
        /\ base.strategy = f.strategy
        /\ base.bought = 0 /\ base.sold = 0
        /\ base.charges = 0 /\ Cash(base) = 0
    BY <2>1, <2>2, StartedRow
  <2>4. PICK a : a = [side |-> f.side, qty |-> left, price |-> f.price, charges |-> 0]
    OBVIOUS
  <2>5. a.side \in Sides /\ a.qty \in Nat /\ a.price \in Nat /\ a.charges \in Int
    BY <2>4, <1>3, <1>7
  <2>6. new = Leg(base, a.side, a.qty, a.price, a.charges)
    BY <2>1, <2>2, <2>4 DEF Residual, Started, left
  <2>7. /\ new \in RowIn(P, S, K)
        /\ new.net = base.net /\ new.open = base.open
        /\ new.portfolio = base.portfolio /\ new.security = base.security
        /\ new.strategy = base.strategy
        /\ new.bought - new.sold = base.bought - base.sold + Signed(a.side, a.qty)
        /\ new.charges = base.charges + a.charges
        /\ Cash(new) = Cash(base) + Flow(a.side, Worth(a.price, a.qty))
    <3>1. base \in RowIn(P, S, K)
      BY <2>3
    <3> QED
      BY <3>1, <2>5, <2>6, LegRecords
  <2>8. Signed(a.side, a.qty) = size
    BY <2>1, <2>4
  <2>9. Flow(f.side, Worth(f.price, left)) \in Int
    <3>1. Worth(f.price, left) \in Nat
      BY <1>3, <1>7, WorthIsNat
    <3> QED
      BY <3>1 DEF Flow
  <2>10. new.charges = 0 /\ Cash(new) = Flow(f.side, Worth(f.price, left))
    BY <2>3, <2>4, <2>7, <2>9
  <2> QED
    BY <2>1, <2>3, <2>7, <2>8, <2>10
<1>9. Abs(row.net) + left = f.qty
  BY <1>1, <1>8 DEF left
<1> QED
  BY <1>3, <1>4, <1>5, <1>6, <1>8, <1>9

(* Two rows that agree with what one fill left are told apart by id.       *)
RowKept(new, old) ==
  /\ new.portfolio = old.portfolio
  /\ new.security = old.security
  /\ new.strategy = old.strategy

(* Writing a changed quantity back: the quantity and the open flag that    *)
(* reach the table are the ones computed, however stale the copy was.      *)
LEMMA FlushWrites ==
  ASSUME NEW P, NEW S, NEW K,
         NEW stored \in RowIn(P, S, K), NEW seen \in RowIn(P, S, K), NEW new \in RowIn(P, S, K),
         stored.open, seen.open, new.net # seen.net,
         NEW out, out = Flush(stored, seen, new)
  PROVE  /\ out \in RowIn(P, S, K)
         /\ out.net = new.net
         /\ out.open <=> new.open
         /\ RowKept(out, stored)
         /\ stored = seen => /\ out.avg = new.avg
                             /\ out.bought = new.bought /\ out.sold = new.sold
                             /\ out.charges = new.charges /\ Cash(out) = Cash(new)
<1>1. out.net = new.net
  BY DEF Flush, Column
<1>2. /\ out.portfolio = stored.portfolio /\ out.security = stored.security
      /\ out.strategy = stored.strategy
  BY DEF Flush
<1>3. out.open <=> new.open
  <2>1. out.open = IF new.open = seen.open THEN stored.open ELSE new.open
    BY DEF Flush, Column
  <2>2. stored.open \in BOOLEAN /\ seen.open \in BOOLEAN /\ new.open \in BOOLEAN
    BY DEF RowIn
  <2> QED
    BY <2>1, <2>2, Zenon
<1>4. out \in RowIn(P, S, K)
  <2>1. out.open \in BOOLEAN
    BY DEF Flush, Column, RowIn
  <2>2. /\ out.portfolio \in P /\ out.security \in S /\ out.strategy \in K
        /\ out.net \in Int /\ out.avg \in Nat /\ out.realized \in Int /\ out.charges \in Int
        /\ out.bought \in Nat /\ out.boughtValue \in Nat
        /\ out.sold \in Nat /\ out.soldValue \in Nat
    BY DEF Flush, Column, RowIn
  <2>3. out = [portfolio |-> out.portfolio, security |-> out.security,
               strategy |-> out.strategy, net |-> out.net, avg |-> out.avg,
               realized |-> out.realized, charges |-> out.charges,
               bought |-> out.bought, boughtValue |-> out.boughtValue,
               sold |-> out.sold, soldValue |-> out.soldValue, open |-> out.open]
    BY DEF Flush
  <2> QED
    BY <2>1, <2>2, <2>3, Zenon DEF RowIn
<1>5. stored = seen => /\ out.avg = new.avg
                       /\ out.bought = new.bought /\ out.sold = new.sold
                       /\ out.charges = new.charges /\ Cash(out) = Cash(new)
  BY DEF Flush, Column, Cash
<1> QED
  BY <1>1, <1>2, <1>3, <1>4, <1>5 DEF RowKept

\* The rows a session holds are rows of this position that were open.
HeldFits(P, S, K, rows, held, f) ==
  \A i \in OpenIds(rows, f.portfolio, f.security) :
    /\ Loaded(rows, held, i) \in RowIn(P, S, K)
    /\ Loaded(rows, held, i).open
    /\ Loaded(rows, held, i).portfolio = f.portfolio
    /\ Loaded(rows, held, i).security = f.security

\* The three things a fill can do to the table.
Starts(P, S, K, rows, f, new) ==
  /\ OpenIds(rows, f.portfolio, f.security) = {}
  /\ \E r \in RowIn(P, S, K) :
       /\ new = Append(rows, r)
       /\ r.open /\ r.net # 0 /\ r.net = Signed(f.side, f.qty)
       /\ RowKept(r, f)
       /\ r.bought - r.sold = r.net
       /\ r.charges = f.charges /\ Cash(r) = Flow(f.side, Worth(f.price, f.qty))

Changes(P, S, K, rows, held, f, new, i) ==
  \E r \in RowIn(P, S, K) :
       /\ new = [rows EXCEPT ![i] = r]
       /\ RowKept(r, rows[i])
       /\ r.open <=> r.net # 0
       /\ r.net = Loaded(rows, held, i).net + Signed(f.side, f.qty)
       /\ Loaded(rows, held, i) = rows[i] =>
            /\ ~r.open => r.avg = 0
            /\ r.bought - r.sold = rows[i].bought - rows[i].sold + Signed(f.side, f.qty)
            /\ r.charges = rows[i].charges + f.charges
            /\ Cash(r) = Cash(rows[i]) + Flow(f.side, Worth(f.price, f.qty))

Turns(P, S, K, rows, held, f, new, i) ==
  \E r \in RowIn(P, S, K), t \in RowIn(P, S, K) :
       /\ new = Append([rows EXCEPT ![i] = r], t)
       /\ RowKept(r, rows[i]) /\ RowKept(t, f)
       /\ r.net = 0 /\ ~r.open
       /\ t.open /\ t.net # 0
       /\ t.net = Loaded(rows, held, i).net + Signed(f.side, f.qty)
       /\ t.bought - t.sold = t.net
       /\ Loaded(rows, held, i) = rows[i] =>
            /\ r.avg = 0
            /\ r.bought - r.sold = rows[i].bought - rows[i].sold - rows[i].net
            /\ r.charges = rows[i].charges + f.charges /\ t.charges = 0
            /\ \E a \in Nat, b \in Nat :
                 /\ a + b = f.qty
                 /\ Cash(r) = Cash(rows[i]) + Flow(f.side, Worth(f.price, a))
                 /\ Cash(t) = Flow(f.side, Worth(f.price, b))

(* apply_fill starts a row, changes the open one, or turns it over.        *)
LEMMA ApplyFillCases ==
  ASSUME NEW P, NEW S, NEW K,
         NEW rows \in Seq(RowIn(P, S, K)), NEW held, NEW f \in FillIn(P, S, K),
         OneOpenEach(rows), HeldFits(P, S, K, rows, held, f),
         NEW new, new = ApplyFill(rows, held, f)
  PROVE  \/ Starts(P, S, K, rows, f, new)
         \/ \E i \in DOMAIN rows :
              /\ IsOpenFor(rows[i], f.portfolio, f.security)
              /\ \/ Changes(P, S, K, rows, held, f, new, i)
                 \/ Turns(P, S, K, rows, held, f, new, i)
<1> DEFINE ids == OpenIds(rows, f.portfolio, f.security)
<1>1. CASE ids = {}
  <2>1. PICK r0 : r0 = NewRow(f)
    OBVIOUS
  <2>2. r0 = [portfolio |-> f.portfolio, security |-> f.security,
              strategy |-> f.strategy, net |-> 0, avg |-> 0, realized |-> 0,
              charges |-> 0, bought |-> 0, boughtValue |-> 0, sold |-> 0,
              soldValue |-> 0, open |-> TRUE]
    BY <2>1 DEF NewRow
  <2>3. r0 \in RowIn(P, S, K)
    <3>1. f.portfolio \in P /\ f.security \in S /\ f.strategy \in K
      BY DEF FillIn
    <3> QED
      BY <2>2, <3>1 DEF RowIn
  <2>4. /\ r0.open /\ r0.net = 0 /\ r0.bought = 0 /\ r0.sold = 0
        /\ r0.portfolio = f.portfolio /\ r0.security = f.security
        /\ r0.strategy = f.strategy /\ r0.charges = 0 /\ Cash(r0) = 0
    BY <2>2 DEF Cash
  <2>5. PICK r : r = Absorb(r0, f)
    OBVIOUS
  <2>6. /\ r \in RowIn(P, S, K)
        /\ r.net = r0.net + Signed(f.side, f.qty)
        /\ r.open <=> r.net # 0
        /\ r.portfolio = r0.portfolio /\ r.security = r0.security
        /\ r.strategy = r0.strategy
        /\ r.bought - r.sold = r0.bought - r0.sold + Signed(f.side, f.qty)
        /\ r.charges = r0.charges + f.charges
        /\ Cash(r) = Cash(r0) + Flow(f.side, Worth(f.price, f.qty))
    BY <2>3, <2>4, <2>5, AbsorbMoves
  <2>7. Signed(f.side, f.qty) \in Int /\ Signed(f.side, f.qty) # 0
    BY DEF FillIn, Signed
  <2>8. /\ r.net = Signed(f.side, f.qty) /\ r.net # 0
        /\ r.bought - r.sold = r.net
    BY <2>4, <2>6, <2>7
  <2>9. new = Append(rows, r)
    BY <1>1, <2>1, <2>5 DEF ApplyFill
  <2>10. r.open
    BY <2>6, <2>8
  <2>11. RowKept(r, f)
    BY <2>4, <2>6 DEF RowKept
  <2>12. r.charges = f.charges /\ Cash(r) = Flow(f.side, Worth(f.price, f.qty))
    <3>1. f.charges \in Int /\ f.price \in Nat /\ f.qty \in Nat
      BY DEF FillIn
    <3>2. Worth(f.price, f.qty) \in Nat
      BY <3>1, WorthIsNat
    <3>3. Flow(f.side, Worth(f.price, f.qty)) \in Int
      BY <3>2 DEF Flow
    <3> QED
      BY <2>4, <2>6, <3>1, <3>3
  <2> QED
    BY <1>1, <2>6, <2>8, <2>9, <2>10, <2>11, <2>12 DEF Starts
<1>2. CASE ids # {}
  <2>1. PICK i \in ids : TRUE
    BY <1>2
  <2>2. /\ i \in DOMAIN rows /\ rows[i].open
        /\ rows[i].portfolio = f.portfolio /\ rows[i].security = f.security
    BY DEF OpenIds, IsOpenFor
  <2>3. \A j \in ids : j = i
    BY <2>2 DEF OneOpenEach, OpenIds, IsOpenFor
  <2>4. Newest(ids) = i
    <3>1. i \in Int
      BY <2>2
    <3>2. \A j \in ids : j <= i
      BY <2>3, <3>1
    <3> QED
      BY <2>1, <2>3, <3>2 DEF Newest
  <2>5. PICK row : row = Loaded(rows, held, i)
    OBVIOUS
  <2>6. /\ row \in RowIn(P, S, K) /\ row.open
        /\ row.portfolio = f.portfolio /\ row.security = f.security
    BY <2>1, <2>5 DEF HeldFits
  <2>7. rows[i] \in RowIn(P, S, K)
    BY <2>2
  <2>8. CASE Flips(row, f)
    <3>1. PICK old, t : old = CloseLeg(row, f) /\ t = Residual(row, f)
      OBVIOUS
    <3>2. /\ old \in RowIn(P, S, K) /\ t \in RowIn(P, S, K)
          /\ old.net = 0 /\ ~old.open /\ old.avg = 0
          /\ old.bought - old.sold = row.bought - row.sold - row.net
          /\ t.open /\ t.net # 0
          /\ t.net = row.net + Signed(f.side, f.qty)
          /\ t.portfolio = f.portfolio /\ t.security = f.security
          /\ t.strategy = f.strategy
          /\ t.bought - t.sold = t.net
          /\ old.charges = row.charges + f.charges /\ t.charges = 0
          /\ \E a \in Nat, b \in Nat :
               /\ a + b = f.qty
               /\ Cash(old) = Cash(row) + Flow(f.side, Worth(f.price, a))
               /\ Cash(t) = Flow(f.side, Worth(f.price, b))
      BY <2>6, <2>8, <3>1, FlipMoves
    <3>3. PICK r : r = Flush(rows[i], row, old)
      OBVIOUS
    <3>4. row.net # 0
      BY <2>8 DEF Flips, SameWay
    <3>5. /\ r \in RowIn(P, S, K) /\ r.net = old.net /\ (r.open <=> old.open)
          /\ RowKept(r, rows[i])
          /\ rows[i] = row => /\ r.avg = old.avg /\ r.bought = old.bought /\ r.sold = old.sold
                              /\ r.charges = old.charges /\ Cash(r) = Cash(old)
      BY <2>2, <2>6, <2>7, <3>2, <3>3, <3>4, FlushWrites
    <3>6. new = Append([rows EXCEPT ![i] = r], t)
      BY <1>2, <2>4, <2>5, <2>8, <3>1, <3>3 DEF ApplyFill
    <3>7. RowKept(t, f)
      BY <3>2 DEF RowKept
    <3>8. r.net = 0 /\ ~r.open
      BY <3>2, <3>5
    <3>9. row = rows[i] =>
            /\ r.avg = 0
            /\ r.bought - r.sold = rows[i].bought - rows[i].sold - rows[i].net
            /\ r.charges = rows[i].charges + f.charges /\ t.charges = 0
            /\ \E a \in Nat, b \in Nat :
                 /\ a + b = f.qty
                 /\ Cash(r) = Cash(rows[i]) + Flow(f.side, Worth(f.price, a))
                 /\ Cash(t) = Flow(f.side, Worth(f.price, b))
      BY <3>2, <3>5
    <3>10. Turns(P, S, K, rows, held, f, new, i)
      BY <2>5, <3>2, <3>5, <3>6, <3>7, <3>8, <3>9 DEF Turns
    <3> QED
      BY <2>2, <3>10 DEF IsOpenFor
  <2>9. CASE ~Flips(row, f)
    <3>1. PICK moved : moved = Absorb(row, f)
      OBVIOUS
    <3>2. /\ moved \in RowIn(P, S, K)
          /\ moved.net = row.net + Signed(f.side, f.qty)
          /\ moved.open <=> moved.net # 0
          /\ ~moved.open => moved.avg = 0
          /\ moved.bought - moved.sold = row.bought - row.sold + Signed(f.side, f.qty)
          /\ moved.charges = row.charges + f.charges
          /\ Cash(moved) = Cash(row) + Flow(f.side, Worth(f.price, f.qty))
      BY <2>6, <3>1, AbsorbMoves
    <3>3. PICK r : r = Flush(rows[i], row, moved)
      OBVIOUS
    <3>4. moved.net # row.net
      <4>1. Signed(f.side, f.qty) \in Int /\ Signed(f.side, f.qty) # 0
        BY DEF FillIn, Signed
      <4>2. row.net \in Int
        BY <2>6 DEF RowIn
      <4> QED
        BY <3>2, <4>1, <4>2
    <3>5. /\ r \in RowIn(P, S, K) /\ r.net = moved.net /\ (r.open <=> moved.open)
          /\ RowKept(r, rows[i])
          /\ rows[i] = row => /\ r.avg = moved.avg /\ r.bought = moved.bought /\ r.sold = moved.sold
                              /\ r.charges = moved.charges /\ Cash(r) = Cash(moved)
      BY <2>2, <2>6, <2>7, <3>2, <3>3, <3>4, FlushWrites
    <3>6. new = [rows EXCEPT ![i] = r]
      BY <1>2, <2>4, <2>5, <2>9, <3>1, <3>3 DEF ApplyFill
    <3>7. (r.open <=> r.net # 0) /\ r.net = row.net + Signed(f.side, f.qty)
      BY <3>2, <3>5
    <3>8. row = rows[i] =>
            /\ ~r.open => r.avg = 0
            /\ r.bought - r.sold = rows[i].bought - rows[i].sold + Signed(f.side, f.qty)
            /\ r.charges = rows[i].charges + f.charges
            /\ Cash(r) = Cash(rows[i]) + Flow(f.side, Worth(f.price, f.qty))
      BY <3>2, <3>5
    <3>9. Changes(P, S, K, rows, held, f, new, i)
      BY <2>5, <3>5, <3>6, <3>7, <3>8 DEF Changes
    <3> QED
      BY <2>2, <3>9 DEF IsOpenFor
  <2> QED
    BY <2>8, <2>9
<1> QED
  BY <1>1, <1>2

(* The table after a fill, row by row: ids keep their row, a closed row is *)
(* untouched, at most one row is new.                                      *)
LEMMA ApplyFillRows ==
  ASSUME NEW P, NEW S, NEW K,
         NEW rows \in Seq(RowIn(P, S, K)), NEW held, NEW f \in FillIn(P, S, K),
         OneOpenEach(rows), HeldFits(P, S, K, rows, held, f),
         NEW new, new = ApplyFill(rows, held, f)
  PROVE  /\ new \in Seq(RowIn(P, S, K))
         /\ Len(new) = Len(rows) \/ Len(new) = Len(rows) + 1
         /\ \A i \in DOMAIN rows :
              /\ i \in DOMAIN new
              /\ RowKept(new[i], rows[i])
              /\ ~IsOpenFor(rows[i], f.portfolio, f.security) => new[i] = rows[i]
         /\ \A i \in DOMAIN new :
              i \notin DOMAIN rows => RowKept(new[i], f) /\ new[i].open /\ new[i].net # 0
<1>1. CASE Starts(P, S, K, rows, f, new)
  <2>1. PICK r \in RowIn(P, S, K) :
          new = Append(rows, r) /\ RowKept(r, f) /\ r.open /\ r.net # 0
    BY <1>1 DEF Starts
  <2>2. /\ new \in Seq(RowIn(P, S, K)) /\ Len(new) = Len(rows) + 1
        /\ \A i \in 1..Len(rows) : new[i] = rows[i]
        /\ new[Len(rows) + 1] = r
    BY <2>1, AppendProperties
  <2>3. DOMAIN rows = 1..Len(rows) /\ DOMAIN new = 1..(Len(rows) + 1) /\ Len(rows) \in Nat
    BY <2>2
  <2>4. \A i \in DOMAIN new : i \notin DOMAIN rows => new[i] = r
    BY <2>2, <2>3
  <2>5. \A i \in DOMAIN rows : i \in DOMAIN new /\ new[i] = rows[i]
    BY <2>2, <2>3
  <2>6. \A i \in DOMAIN rows : RowKept(new[i], rows[i])
    BY <2>5 DEF RowKept
  <2> QED
    BY <2>1, <2>2, <2>4, <2>5, <2>6
<1>2. ASSUME NEW i \in DOMAIN rows, IsOpenFor(rows[i], f.portfolio, f.security),
             NEW r \in RowIn(P, S, K), RowKept(r, rows[i])
      PROVE  /\ [rows EXCEPT ![i] = r] \in Seq(RowIn(P, S, K))
             /\ Len([rows EXCEPT ![i] = r]) = Len(rows)
             /\ \A j \in DOMAIN rows :
                  /\ RowKept([rows EXCEPT ![i] = r][j], rows[j])
                  /\ ~IsOpenFor(rows[j], f.portfolio, f.security)
                       => [rows EXCEPT ![i] = r][j] = rows[j]
  <2>1. /\ [rows EXCEPT ![i] = r] \in Seq(RowIn(P, S, K))
        /\ Len([rows EXCEPT ![i] = r]) = Len(rows)
    BY ExceptSeq
  <2>2. \A j \in DOMAIN rows : [rows EXCEPT ![i] = r][j] = IF j = i THEN r ELSE rows[j]
    OBVIOUS
  <2>3. \A j \in DOMAIN rows : RowKept([rows EXCEPT ![i] = r][j], rows[j])
    BY <1>2, <2>2 DEF RowKept
  <2> QED
    BY <1>2, <2>1, <2>2, <2>3
<1>3. ASSUME NEW i \in DOMAIN rows, IsOpenFor(rows[i], f.portfolio, f.security),
             Changes(P, S, K, rows, held, f, new, i)
      PROVE  /\ new \in Seq(RowIn(P, S, K)) /\ Len(new) = Len(rows)
             /\ \A j \in DOMAIN rows :
                  /\ RowKept(new[j], rows[j])
                  /\ ~IsOpenFor(rows[j], f.portfolio, f.security) => new[j] = rows[j]
  <2>1. PICK r \in RowIn(P, S, K) : new = [rows EXCEPT ![i] = r] /\ RowKept(r, rows[i])
    BY <1>3 DEF Changes
  <2> QED
    BY <1>2, <1>3, <2>1
<1>4. ASSUME NEW i \in DOMAIN rows, IsOpenFor(rows[i], f.portfolio, f.security),
             Turns(P, S, K, rows, held, f, new, i)
      PROVE  /\ new \in Seq(RowIn(P, S, K)) /\ Len(new) = Len(rows) + 1
             /\ \A j \in DOMAIN rows :
                  /\ RowKept(new[j], rows[j])
                  /\ ~IsOpenFor(rows[j], f.portfolio, f.security) => new[j] = rows[j]
             /\ RowKept(new[Len(rows) + 1], f)
             /\ new[Len(rows) + 1].open /\ new[Len(rows) + 1].net # 0
  <2>1. PICK r \in RowIn(P, S, K), t \in RowIn(P, S, K) :
          /\ new = Append([rows EXCEPT ![i] = r], t)
          /\ RowKept(r, rows[i]) /\ RowKept(t, f) /\ t.open /\ t.net # 0
    BY <1>4 DEF Turns
  <2>2. PICK mid : mid = [rows EXCEPT ![i] = r]
    OBVIOUS
  <2>3. /\ mid \in Seq(RowIn(P, S, K)) /\ Len(mid) = Len(rows)
        /\ \A j \in DOMAIN rows :
             /\ RowKept(mid[j], rows[j])
             /\ ~IsOpenFor(rows[j], f.portfolio, f.security) => mid[j] = rows[j]
    BY <1>2, <1>4, <2>1, <2>2
  <2>4. /\ new \in Seq(RowIn(P, S, K)) /\ Len(new) = Len(mid) + 1
        /\ \A j \in 1..Len(mid) : new[j] = mid[j]
        /\ new[Len(mid) + 1] = t
    BY <2>1, <2>2, <2>3, AppendProperties
  <2> QED
    BY <2>1, <2>3, <2>4
<1>5. DOMAIN rows = 1..Len(rows) /\ Len(rows) \in Nat
  OBVIOUS
<1>6. ASSUME NEW i \in DOMAIN rows, IsOpenFor(rows[i], f.portfolio, f.security),
             Changes(P, S, K, rows, held, f, new, i)
      PROVE  DOMAIN new = DOMAIN rows
  BY <1>3, <1>5, <1>6
<1>7. ASSUME NEW i \in DOMAIN rows, IsOpenFor(rows[i], f.portfolio, f.security),
             Turns(P, S, K, rows, held, f, new, i)
      PROVE  DOMAIN new = DOMAIN rows \cup {Len(rows) + 1}
  <2>1. DOMAIN new = 1..(Len(rows) + 1)
    BY <1>4, <1>7
  <2> QED
    BY <2>1, <1>5
<1>8. CASE \E i \in DOMAIN rows : /\ IsOpenFor(rows[i], f.portfolio, f.security)
                                  /\ Changes(P, S, K, rows, held, f, new, i)
  BY <1>3, <1>6, <1>8
<1>9. CASE \E i \in DOMAIN rows : /\ IsOpenFor(rows[i], f.portfolio, f.security)
                                  /\ Turns(P, S, K, rows, held, f, new, i)
  BY <1>4, <1>7, <1>9
<1> QED
  BY <1>1, <1>8, <1>9, ApplyFillCases

(* One open row per position, open exactly while it holds something: a     *)
(* fill keeps both, whatever copy of the open row its session worked on.   *)
LEMMA ApplyFillKeeps ==
  ASSUME NEW P, NEW S, NEW K,
         NEW rows \in Seq(RowIn(P, S, K)), NEW held, NEW f \in FillIn(P, S, K),
         OneOpenEach(rows), OpenWhileHolding(rows), HeldFits(P, S, K, rows, held, f),
         NEW new, new = ApplyFill(rows, held, f)
  PROVE  OneOpenEach(new) /\ OpenWhileHolding(new)
<1> DEFINE Mine(row) == row.portfolio = f.portfolio /\ row.security = f.security
<1>1. /\ \A i \in DOMAIN rows :
           /\ i \in DOMAIN new
           /\ RowKept(new[i], rows[i])
           /\ ~IsOpenFor(rows[i], f.portfolio, f.security) => new[i] = rows[i]
      /\ \A i \in DOMAIN new :
           i \notin DOMAIN rows => RowKept(new[i], f) /\ new[i].open /\ new[i].net # 0
  BY ApplyFillRows
<1>2. DOMAIN rows = 1..Len(rows) /\ Len(rows) \in Nat
  OBVIOUS
<1>3. \/ Starts(P, S, K, rows, f, new)
      \/ \E i \in DOMAIN rows :
           /\ IsOpenFor(rows[i], f.portfolio, f.security)
           /\ \/ Changes(P, S, K, rows, held, f, new, i)
              \/ Turns(P, S, K, rows, held, f, new, i)
  BY ApplyFillCases
\* Where the open row of this position is afterwards, if there is one.
<1>4. \E x : /\ \A j \in DOMAIN new : new[j].open /\ Mine(new[j]) => j = x
             /\ \A j \in DOMAIN rows :
                  IsOpenFor(rows[j], f.portfolio, f.security) =>
                    (new[j].open <=> new[j].net # 0)
  <2>1. CASE Starts(P, S, K, rows, f, new)
    <3>1. OpenIds(rows, f.portfolio, f.security) = {}
      BY <2>1 DEF Starts
    <3>2. PICK r \in RowIn(P, S, K) : new = Append(rows, r)
      BY <2>1 DEF Starts
    <3>3. Len(new) = Len(rows) + 1 /\ new \in Seq(RowIn(P, S, K))
      BY <3>2, AppendProperties
    <3>4. \A j \in DOMAIN rows : ~IsOpenFor(rows[j], f.portfolio, f.security)
      BY <3>1 DEF OpenIds
    <3>5. \A j \in DOMAIN rows : ~(new[j].open /\ Mine(new[j]))
      BY <3>4, <1>1 DEF IsOpenFor
    <3>6. \A j \in DOMAIN new : new[j].open /\ Mine(new[j]) => j = Len(rows) + 1
      BY <3>3, <3>5, <1>2
    <3> QED
      BY <3>4, <3>6
  <2>2. ASSUME NEW i \in DOMAIN rows, IsOpenFor(rows[i], f.portfolio, f.security)
        PROVE  \A j \in DOMAIN rows : new[j].open /\ Mine(new[j]) => j = i
    <3> SUFFICES ASSUME NEW j \in DOMAIN rows, new[j].open, Mine(new[j]), j # i
                 PROVE  FALSE
      OBVIOUS
    <3>1. Mine(rows[j])
      BY <1>1 DEF RowKept
    <3>2. ~IsOpenFor(rows[j], f.portfolio, f.security)
      BY <2>2 DEF OneOpenEach, IsOpenFor
    <3>3. new[j] = rows[j]
      BY <3>2, <1>1
    <3> QED
      BY <3>1, <3>2, <3>3 DEF IsOpenFor
  <2>3. ASSUME NEW i \in DOMAIN rows, IsOpenFor(rows[i], f.portfolio, f.security)
        PROVE  \A j \in DOMAIN rows : IsOpenFor(rows[j], f.portfolio, f.security) => j = i
    BY <2>3 DEF OneOpenEach, IsOpenFor
  <2>4. ASSUME NEW i \in DOMAIN rows, IsOpenFor(rows[i], f.portfolio, f.security),
               Changes(P, S, K, rows, held, f, new, i)
        PROVE  /\ \A j \in DOMAIN new : new[j].open /\ Mine(new[j]) => j = i
               /\ \A j \in DOMAIN rows :
                    IsOpenFor(rows[j], f.portfolio, f.security) =>
                      (new[j].open <=> new[j].net # 0)
    <3>1. PICK r \in RowIn(P, S, K) :
            new = [rows EXCEPT ![i] = r] /\ (r.open <=> r.net # 0)
      BY <2>4 DEF Changes
    <3>2. DOMAIN new = DOMAIN rows /\ new[i] = r
      BY <3>1
    <3>3. new[i].open <=> new[i].net # 0
      BY <3>1, <3>2
    <3> QED
      BY <2>2, <2>3, <2>4, <3>2, <3>3
  <2>5. ASSUME NEW i \in DOMAIN rows, IsOpenFor(rows[i], f.portfolio, f.security),
               Turns(P, S, K, rows, held, f, new, i)
        PROVE  /\ \A j \in DOMAIN new : new[j].open /\ Mine(new[j]) => j = Len(rows) + 1
               /\ \A j \in DOMAIN rows :
                    IsOpenFor(rows[j], f.portfolio, f.security) =>
                      (new[j].open <=> new[j].net # 0)
    <3>1. PICK r \in RowIn(P, S, K), t \in RowIn(P, S, K) :
            new = Append([rows EXCEPT ![i] = r], t) /\ r.net = 0 /\ ~r.open
      BY <2>5 DEF Turns
    <3>2. /\ [rows EXCEPT ![i] = r] \in Seq(RowIn(P, S, K))
          /\ Len([rows EXCEPT ![i] = r]) = Len(rows)
          /\ [rows EXCEPT ![i] = r][i] = r
      BY ExceptSeq
    <3>3. /\ Len(new) = Len(rows) + 1 /\ new \in Seq(RowIn(P, S, K))
          /\ new[i] = r
      BY <3>1, <3>2, AppendProperties
    <3>4. DOMAIN new = 1..(Len(rows) + 1)
      BY <3>3
    <3>5. ~new[i].open /\ new[i].net = 0
      BY <3>1, <3>3
    <3>6. \A j \in DOMAIN rows : ~(new[j].open /\ Mine(new[j]))
      BY <2>2, <2>5, <3>5
    <3>7. \A j \in DOMAIN new : new[j].open /\ Mine(new[j]) => j = Len(rows) + 1
      BY <3>4, <3>6, <1>2
    <3> QED
      BY <2>3, <2>5, <3>5, <3>7
  <2>6. CASE \E i \in DOMAIN rows : /\ IsOpenFor(rows[i], f.portfolio, f.security)
                                    /\ Changes(P, S, K, rows, held, f, new, i)
    <3>1. PICK i \in DOMAIN rows : /\ IsOpenFor(rows[i], f.portfolio, f.security)
                                   /\ Changes(P, S, K, rows, held, f, new, i)
      BY <2>6
    <3> WITNESS i
    <3> QED
      BY <2>4, <3>1
  <2>7. CASE \E i \in DOMAIN rows : /\ IsOpenFor(rows[i], f.portfolio, f.security)
                                    /\ Turns(P, S, K, rows, held, f, new, i)
    <3>1. PICK i \in DOMAIN rows : /\ IsOpenFor(rows[i], f.portfolio, f.security)
                                   /\ Turns(P, S, K, rows, held, f, new, i)
      BY <2>7
    <3> WITNESS Len(rows) + 1
    <3> QED
      BY <2>5, <3>1
  <2> QED
    BY <1>3, <2>1, <2>6, <2>7
<1>5. PICK x : /\ \A j \in DOMAIN new : new[j].open /\ Mine(new[j]) => j = x
               /\ \A j \in DOMAIN rows :
                    IsOpenFor(rows[j], f.portfolio, f.security) =>
                      (new[j].open <=> new[j].net # 0)
  BY <1>4
<1>6. \A j \in DOMAIN new : ~Mine(new[j]) => j \in DOMAIN rows /\ new[j] = rows[j]
  BY <1>1 DEF RowKept, IsOpenFor
<1>7. OneOpenEach(new)
  <2> SUFFICES ASSUME NEW i \in DOMAIN new, NEW j \in DOMAIN new,
                      new[i].open, new[j].open,
                      new[i].portfolio = new[j].portfolio,
                      new[i].security = new[j].security
               PROVE  i = j
    BY DEF OneOpenEach
  <2>1. CASE Mine(new[i])
    BY <1>5, <2>1
  <2>2. CASE ~Mine(new[i])
    BY <1>6, <2>2 DEF OneOpenEach
  <2> QED
    BY <2>1, <2>2
<1>8. OpenWhileHolding(new)
  <2> SUFFICES ASSUME NEW i \in DOMAIN new
               PROVE  new[i].open <=> new[i].net # 0
    BY DEF OpenWhileHolding
  <2>1. CASE i \notin DOMAIN rows
    BY <1>1, <2>1
  <2>2. CASE i \in DOMAIN rows /\ IsOpenFor(rows[i], f.portfolio, f.security)
    BY <1>5, <2>2
  <2>3. CASE i \in DOMAIN rows /\ ~IsOpenFor(rows[i], f.portfolio, f.security)
    BY <1>1, <2>3 DEF OpenWhileHolding
  <2> QED
    BY <2>1, <2>2, <2>3
<1> QED
  BY <1>7, <1>8

(* The net quantity a reader sees is that of the one open row.             *)
LEMMA NetOfOpen ==
  ASSUME NEW P, NEW S, NEW K, NEW rows \in Seq(RowIn(P, S, K)), OneOpenEach(rows),
         NEW p, NEW s
  PROVE  /\ \A i \in DOMAIN rows : IsOpenFor(rows[i], p, s) => NetOf(rows, p, s) = rows[i].net
         /\ (\A i \in DOMAIN rows : ~IsOpenFor(rows[i], p, s)) => NetOf(rows, p, s) = 0
<1>1. ASSUME NEW i \in DOMAIN rows, IsOpenFor(rows[i], p, s)
      PROVE  NetOf(rows, p, s) = rows[i].net
  <2>1. i \in OpenIds(rows, p, s)
    BY <1>1 DEF OpenIds
  <2>2. \A j \in OpenIds(rows, p, s) : j = i
    BY <1>1 DEF OneOpenEach, OpenIds, IsOpenFor
  <2>3. Newest(OpenIds(rows, p, s)) = i
    <3>1. i \in Int
      OBVIOUS
    <3>2. \A j \in OpenIds(rows, p, s) : j <= i
      BY <2>2, <3>1
    <3> QED
      BY <2>1, <2>2, <3>2 DEF Newest
  <2> QED
    BY <2>1, <2>3 DEF NetOf
<1>2. ASSUME \A i \in DOMAIN rows : ~IsOpenFor(rows[i], p, s)
      PROVE  NetOf(rows, p, s) = 0
  <2>1. OpenIds(rows, p, s) = {}
    BY <1>2 DEF OpenIds
  <2> QED
    BY <2>1 DEF NetOf
<1> QED
  BY <1>1, <1>2
-----------------------------------------------------------------------------
(* Sums.  A fold over a finite set is defined by taking its elements out   *)
(* one at a time, in an order of its own: what follows shows that the      *)
(* order does not matter, by taking a smallest set for which it would.     *)

(* One of a set, as the fold chooses it.                                   *)
One(s) == CHOOSE x \in s : TRUE

(* g is the running total of f over the subsets of A.                      *)
Totals(f, A, g) ==
  g = [s \in SUBSET A |-> IF s = {} THEN 0 ELSE f[One(s)] + g[s \ {One(s)}]]

LEMMA OneIsIn == ASSUME NEW s, s # {} PROVE One(s) \in s
  BY DEF One

(* A set of subsets of a finite set has a smallest one.                    *)
LEMMA SmallestSubset ==
  ASSUME NEW A, IsFiniteSet(A), NEW T, T \subseteq SUBSET A, T # {}
  PROVE  \E s \in T : \A t \in T : t \subseteq s => t = s
<1>1. T \subseteq FiniteSubsetsOf(A)
  BY FS_FiniteSubsetsOfFinite
<1>2. PICK s \in T : \A t \in T : ~(<<t, s>> \in StrictSubsetOrdering(A))
  BY <1>1, WFMin, FS_StrictSubsetOrderingWellFounded
<1> QED
  BY <1>2 DEF StrictSubsetOrdering

LEMMA TotalsAt ==
  ASSUME NEW f, NEW A, NEW g, Totals(f, A, g), NEW s \in SUBSET A
  PROVE  /\ s = {} => g[s] = 0
         /\ s # {} => /\ One(s) \in s
                      /\ g[s] = f[One(s)] + g[s \ {One(s)}]
<1>1. g[s] = IF s = {} THEN 0 ELSE f[One(s)] + g[s \ {One(s)}]
  BY DEF Totals
<1> QED
  BY <1>1, OneIsIn

LEMMA TotalsAgree ==
  ASSUME NEW f, NEW A, NEW g, Totals(f, A, g),
         NEW e, NEW B, NEW h, Totals(e, B, h),
         NEW s, IsFiniteSet(s), s \subseteq A, s \subseteq B,
         \A x \in s : f[x] = e[x]
  PROVE  g[s] = h[s]
<1> DEFINE Bad == {t \in SUBSET s : g[t] # h[t]}
<1> SUFFICES ASSUME Bad # {} PROVE FALSE
  OBVIOUS
<1>1. Bad \subseteq SUBSET s
  OBVIOUS
<1>2. PICK t \in Bad : \A u \in Bad : u \subseteq t => u = t
  <2> HIDE DEF Bad
  <2> QED
    BY <1>1, SmallestSubset
<1>3. t # {}
  BY <1>2, TotalsAt
<1> DEFINE u == t \ {One(t)}
<1>4. One(t) \in t /\ g[t] = f[One(t)] + g[u] /\ h[t] = e[One(t)] + h[u]
  BY <1>2, <1>3, TotalsAt
<1>5. u \notin Bad
  BY <1>2, <1>4
<1>6. g[u] = h[u] /\ f[One(t)] = e[One(t)]
  BY <1>2, <1>4, <1>5
<1> QED
  BY <1>2, <1>4, <1>6

LEMMA TotalsExist ==
  ASSUME NEW f, NEW A, IsFiniteSet(A)
  PROVE  \E g : Totals(f, A, g)
<1> DEFINE Bad == {B \in SUBSET A : ~ \E g : Totals(f, B, g)}
<1> SUFFICES ASSUME Bad # {} PROVE FALSE
  OBVIOUS
<1>1. Bad \subseteq SUBSET A
  OBVIOUS
<1>2. PICK B \in Bad : \A C \in Bad : C \subseteq B => C = B
  <2> HIDE DEF Bad
  <2> QED
    BY <1>1, SmallestSubset
<1> DEFINE G(C) == CHOOSE g : Totals(f, C, g)
           h == [s \in SUBSET B |->
                   IF s = {} THEN 0
                   ELSE f[One(s)] + G(s \ {One(s)})[s \ {One(s)}]]
<1>3. \A C : C \subseteq B /\ C # B => Totals(f, C, G(C))
  <2> SUFFICES ASSUME NEW C, C \subseteq B, C # B PROVE Totals(f, C, G(C))
    OBVIOUS
  <2>1. \E g : Totals(f, C, g)
    BY <1>2
  <2> QED
    BY <2>1
<1>4. ASSUME NEW t, t \subseteq B, t # B PROVE h[t] = G(t)[t]
  <2>1. Totals(f, t, G(t)) /\ IsFiniteSet(t)
    BY <1>1, <1>2, <1>3, <1>4, FS_Subset
  <2>2. CASE t = {}
    <3>1. h[t] = 0
      BY <2>2
    <3> HIDE DEF G, h
    <3> QED
      BY <2>1, <2>2, <3>1, TotalsAt
  <2>3. CASE t # {}
    <3> DEFINE u == t \ {One(t)}
    <3>1. One(t) \in t
      BY <2>3, OneIsIn
    <3>2. h[t] = f[One(t)] + G(u)[u]
      BY <1>4, <2>3
    <3>3. u \subseteq B /\ u # B /\ u \subseteq t
      BY <1>4, <3>1
    <3>4. Totals(f, u, G(u)) /\ IsFiniteSet(u)
      BY <1>3, <2>1, <3>3, FS_Subset
    <3>5. G(t)[t] = f[One(t)] + G(t)[u]
      <4> HIDE DEF G
      <4> QED BY <2>1, <2>3, TotalsAt
    <3>6. G(t)[u] = G(u)[u]
      <4> HIDE DEF G
      <4> QED BY <2>1, <3>3, <3>4, TotalsAgree
    <3> QED
      BY <3>2, <3>5, <3>6
  <2> QED
    BY <2>2, <2>3
<1>5. Totals(f, B, h)
  <2>1. ASSUME NEW s \in SUBSET B, s # {}
        PROVE  h[s \ {One(s)}] = G(s \ {One(s)})[s \ {One(s)}]
    <3>1. s \ {One(s)} \subseteq B /\ s \ {One(s)} # B
      BY <2>1, OneIsIn
    <3> HIDE DEF G, h
    <3> QED
      BY <1>4, <3>1
  <2>2. ASSUME NEW s \in SUBSET B
        PROVE  h[s] = IF s = {} THEN 0 ELSE f[One(s)] + h[s \ {One(s)}]
    <3>1. h[s] = IF s = {} THEN 0 ELSE f[One(s)] + G(s \ {One(s)})[s \ {One(s)}]
      OBVIOUS
    <3> HIDE DEF G, h
    <3> QED
      BY <2>1, <3>1
  <2>3. h = [s \in SUBSET B |-> h[s]]
    OBVIOUS
  <2> HIDE DEF G, h
  <2> QED
    BY <2>2, <2>3 DEF Totals
<1> QED
  BY <1>2, <1>5

LEMMA SumIsTotal ==
  ASSUME NEW f, IsFiniteSet(DOMAIN f)
  PROVE  \E g : Totals(f, DOMAIN f, g) /\ Sum(f) = g[DOMAIN f]
<1> DEFINE g == CHOOSE h : h = [s \in SUBSET (DOMAIN f) |->
                   IF s = {} THEN 0
                   ELSE f[CHOOSE x \in s : TRUE] + h[s \ {CHOOSE x \in s : TRUE}]]
<1>1. Sum(f) = g[DOMAIN f]
  BY DEF Sum, MapThenSumSet, MapThenFoldSet
<1>2. \E h : h = [s \in SUBSET (DOMAIN f) |->
                   IF s = {} THEN 0
                   ELSE f[CHOOSE x \in s : TRUE] + h[s \ {CHOOSE x \in s : TRUE}]]
  <2>1. PICK h : Totals(f, DOMAIN f, h)
    BY TotalsExist
  <2>2. h = [s \in SUBSET (DOMAIN f) |->
                   IF s = {} THEN 0
                   ELSE f[CHOOSE x \in s : TRUE] + h[s \ {CHOOSE x \in s : TRUE}]]
    BY <2>1 DEF Totals, One
  <2> QED
    BY <2>2
<1>3. Totals(f, DOMAIN f, g)
  BY <1>2 DEF Totals, One
<1> QED
  BY <1>1, <1>3

LEMMA TotalIsInt ==
  ASSUME NEW f, NEW A, NEW g, Totals(f, A, g), IsFiniteSet(A), \A x \in A : f[x] \in Int,
         NEW s \in SUBSET A
  PROVE  g[s] \in Int
<1> DEFINE Bad == {t \in SUBSET A : g[t] \notin Int}
<1> SUFFICES ASSUME Bad # {} PROVE FALSE
  OBVIOUS
<1>1. Bad \subseteq SUBSET A
  OBVIOUS
<1>2. PICK t \in Bad : \A u \in Bad : u \subseteq t => u = t
  <2> HIDE DEF Bad
  <2> QED
    BY <1>1, SmallestSubset
<1> HIDE DEF Bad
<1>3. t \in SUBSET A /\ g[t] \notin Int
  BY <1>2 DEF Bad
<1>4. t # {}
  <2>1. t = {} => g[t] = 0
    BY <1>3, TotalsAt
  <2> QED
    BY <1>3, <2>1
<1>5. One(t) \in t /\ g[t] = f[One(t)] + g[t \ {One(t)}]
  BY <1>3, <1>4, TotalsAt
<1>6. g[t \ {One(t)}] \in Int
  BY <1>2, <1>3, <1>5 DEF Bad
<1> QED
  BY <1>3, <1>5, <1>6

(* It does not matter which one is taken out first.                        *)
LEMMA TotalTakesAny ==
  ASSUME NEW f, NEW A, NEW g, Totals(f, A, g), IsFiniteSet(A), \A x \in A : f[x] \in Int,
         NEW s \in SUBSET A, NEW x \in s
  PROVE  g[s] = f[x] + g[s \ {x}]
<1>0. \A u \in SUBSET A :
        u # {} => One(u) \in u /\ g[u] = f[One(u)] + g[u \ {One(u)}]
  BY TotalsAt
<1> DEFINE Bad == {t \in SUBSET A : \E y \in t : g[t] # f[y] + g[t \ {y}]}
<1> SUFFICES ASSUME Bad # {} PROVE FALSE
  OBVIOUS
<1>1. Bad \subseteq SUBSET A
  OBVIOUS
<1>2. PICK t \in Bad : \A u \in Bad : u \subseteq t => u = t
  <2> HIDE DEF Bad
  <2> QED
    BY <1>1, SmallestSubset
<1>3. PICK y \in t : g[t] # f[y] + g[t \ {y}]
  BY <1>2
<1>4. t \in SUBSET A /\ t # {}
  BY <1>2, <1>3
<1>5. One(t) \in t /\ g[t] = f[One(t)] + g[t \ {One(t)}]
  BY <1>0, <1>4
<1>6. PICK c \in t : g[t] = f[c] + g[t \ {c}]
  BY <1>5
<1> DEFINE v == t \ {c, y}
<1>7. c # y
  BY <1>3, <1>6
<1>8. t \ {c} \notin Bad /\ t \ {y} \notin Bad
  BY <1>2, <1>3, <1>6
<1>9. g[t \ {c}] = f[y] + g[v]
  <2>1. y \in t \ {c} /\ t \ {c} \in SUBSET A /\ (t \ {c}) \ {y} = v
    BY <1>3, <1>4, <1>7
  <2> QED
    BY <1>8, <2>1
<1>10. g[t \ {y}] = f[c] + g[v]
  <2>1. c \in t \ {y} /\ t \ {y} \in SUBSET A /\ (t \ {y}) \ {c} = v
    BY <1>4, <1>6, <1>7
  <2> QED
    BY <1>8, <2>1
<1>11. f[c] \in Int /\ f[y] \in Int /\ g[v] \in Int
  BY <1>3, <1>4, <1>6, TotalIsInt
<1> HIDE DEF v, Bad
<1> QED
  BY <1>3, <1>6, <1>9, <1>10, <1>11

LEMMA SumOfNothing ==
  ASSUME NEW f, DOMAIN f = {}
  PROVE  Sum(f) = 0
<1>1. PICK g : Totals(f, DOMAIN f, g) /\ Sum(f) = g[DOMAIN f]
  BY SumIsTotal, FS_EmptySet
<1> QED
  BY <1>1, TotalsAt

LEMMA SumIsInt ==
  ASSUME NEW S, IsFiniteSet(S), NEW f, f \in [S -> Int]
  PROVE  Sum(f) \in Int
<1>1. PICK g : Totals(f, S, g) /\ Sum(f) = g[S]
  BY SumIsTotal
<1> QED
  BY <1>1, TotalIsInt

\* An element comes in.
Joins(x, S, T) == x \notin S /\ T = S \cup {x}

\* The functions have the same values on a set.
Agree(f, g, S) == \A y \in S : g[y] = f[y]

LEMMA SumGrows ==
  ASSUME NEW S, IsFiniteSet(S), NEW x, NEW T, Joins(x, S, T),
         NEW f, f \in [S -> Int], NEW g, g \in [T -> Int],
         Agree(f, g, S)
  PROVE  Sum(g) = Sum(f) + g[x]
<1>1. IsFiniteSet(T) /\ S \in SUBSET T /\ x \in T
  BY FS_AddElement DEF Joins
<1>2. PICK a : Totals(f, S, a) /\ Sum(f) = a[S]
  BY SumIsTotal
<1>3. PICK b : Totals(g, T, b) /\ Sum(g) = b[T]
  BY SumIsTotal, <1>1
<1>4. b[T] = g[x] + b[T \ {x}]
  BY <1>1, <1>3, TotalTakesAny
<1>5. T \ {x} = S
  BY DEF Joins
<1>6. b[S] = a[S]
  BY <1>1, <1>2, <1>3, TotalsAgree DEF Agree
<1>7. a[S] \in Int /\ g[x] \in Int
  BY <1>1, <1>2, TotalIsInt
<1> QED
  <2>1. Sum(g) = g[x] + a[S] /\ Sum(f) = a[S]
    BY <1>2, <1>3, <1>4, <1>5, <1>6
  <2> QED
    BY <1>7, <2>1

LEMMA SumMoves ==
  ASSUME NEW S, IsFiniteSet(S), NEW x \in S,
         NEW f, f \in [S -> Int], NEW g, g \in [S -> Int],
         Agree(f, g, S \ {x})
  PROVE  Sum(g) = Sum(f) + g[x] - f[x]
<1> DEFINE R == S \ {x}
           r == [y \in R |-> f[y]]
<1>1. IsFiniteSet(R) /\ Joins(x, R, S) /\ r \in [R -> Int]
  BY FS_RemoveElement DEF Joins
<1>0. Agree(r, f, R) /\ Agree(r, g, R)
  BY <1>1 DEF Agree
<1> HIDE DEF R, r
<1>2. Sum(r) \in Int
  BY <1>1, SumIsInt
<1>3. Sum(f) = Sum(r) + f[x]
  BY <1>0, <1>1, SumGrows
<1>4. Sum(g) = Sum(r) + g[x]
  BY <1>0, <1>1, SumGrows
<1>5. f[x] \in Int /\ g[x] \in Int
  OBVIOUS
<1> QED
  BY <1>2, <1>3, <1>4, <1>5

(* One value changes and one comes in.                                     *)
LEMMA SumTurns ==
  ASSUME NEW S, IsFiniteSet(S), NEW x \in S,
         NEW y, NEW T, Joins(y, S, T),
         NEW f, f \in [S -> Int], NEW g, g \in [T -> Int],
         Agree(f, g, S \ {x})
  PROVE  Sum(g) = Sum(f) + g[x] - f[x] + g[y]
<1>1. PICK h : h = [z \in S |-> g[z]]
  OBVIOUS
<1>2. h \in [S -> Int] /\ Agree(h, g, S) /\ Agree(f, h, S \ {x}) /\ h[x] = g[x]
  BY <1>1 DEF Agree, Joins
<1>3. Sum(g) = Sum(h) + g[y]
  BY <1>2, SumGrows
<1>4. Sum(h) = Sum(f) + h[x] - f[x]
  BY <1>2, SumMoves
<1>5. Sum(f) \in Int /\ g[x] \in Int /\ f[x] \in Int /\ g[y] \in Int
  BY SumIsInt DEF Joins
<1> QED
  BY <1>2, <1>3, <1>4, <1>5

-----------------------------------------------------------------------------
(* The sums over the rows of a position.                                   *)

PairRows(rows, p, c) == {i \in DOMAIN rows : rows[i].portfolio = p /\ rows[i].security = c}

NetSum(rows, p, c) == Sum([i \in PairRows(rows, p, c) |-> rows[i].net])
ChargeSum(rows, p, c) == Sum([i \in PairRows(rows, p, c) |-> rows[i].charges])
CashSum(rows, p, c) == Sum([i \in PairRows(rows, p, c) |-> Cash(rows[i])])

\* How many rows of the position came of a flip, at most.
Spare(rows, p, c) ==
  IF PairRows(rows, p, c) = {} THEN 0 ELSE Cardinality(PairRows(rows, p, c)) - 1

LEMMA PairRowsFinite ==
  ASSUME NEW T, NEW rows \in Seq(T), NEW p, NEW c
  PROVE  IsFiniteSet(PairRows(rows, p, c)) /\ PairRows(rows, p, c) \subseteq 1..Len(rows)
<1>1. DOMAIN rows = 1..Len(rows) /\ Len(rows) \in Int
  OBVIOUS
<1>2. IsFiniteSet(1..Len(rows)) /\ PairRows(rows, p, c) \subseteq 1..Len(rows)
  BY <1>1, FS_Interval DEF PairRows
<1> QED
  BY <1>2, FS_Subset

LEMMA RowNumbers ==
  ASSUME NEW P, NEW S, NEW K, NEW rows \in Seq(RowIn(P, S, K)), NEW i \in DOMAIN rows
  PROVE  rows[i].net \in Int /\ rows[i].charges \in Int /\ Cash(rows[i]) \in Int
<1>1. rows[i] \in RowIn(P, S, K)
  OBVIOUS
<1> QED
  BY <1>1 DEF RowIn, Cash

(* The two legs of a flip are rounded apart.                               *)
LEMMA WorthSplits ==
  ASSUME NEW price \in Nat, NEW a \in Nat, NEW b \in Nat
  PROVE  Abs(Worth(price, a) + Worth(price, b) - Worth(price, a + b)) <= 1
<1>1. PICK u : u \in Int /\ u = price * a
  BY ProductIsInt
<1>2. PICK v : v \in Int /\ v = price * b
  BY ProductIsInt
<1>3. price * (a + b) = u + v
  BY <1>1, <1>2
<1>4. PICK x : x \in Int /\ x = ToMoney(u)
  BY <1>1, MoneyIsInt
<1>5. PICK y : y \in Int /\ y = ToMoney(v)
  BY <1>2, MoneyIsInt
<1>6. PICK z : z \in Int /\ z = ToMoney(u + v)
  BY <1>1, <1>2, MoneyIsInt
<1>7. PICK M : M \in Nat \ {0} /\ M = MoneyUnit
  BY MoneyUnitAssumption
<1>8. /\ 2 * Abs(M * x - u) <= M /\ 2 * Abs(M * y - v) <= M
      /\ 2 * Abs(M * z - (u + v)) <= M
  BY <1>1, <1>2, <1>4, <1>5, <1>6, <1>7, MoneyNear
<1>9. PICK n : n \in Int /\ n = x + y - z
  BY <1>4, <1>5, <1>6
<1>10. M * n = M * x + M * y - M * z
  BY <1>4, <1>5, <1>6, <1>7, <1>9
<1>11. PICK mx, my, mz : /\ mx \in Int /\ my \in Int /\ mz \in Int
                         /\ mx = M * x /\ my = M * y /\ mz = M * z
  BY <1>4, <1>5, <1>6, <1>7, ProductIsInt
<1>12. PICK mn : mn \in Int /\ mn = M * n /\ mn = mx + my - mz
  BY <1>9, <1>10, <1>11, <1>7, ProductIsInt
<1>13. 2 * Abs(mn) <= 3 * M
  BY <1>1, <1>2, <1>7, <1>8, <1>11, <1>12 DEF Abs
<1>14. n >= 2 => mn >= 2 * M
  BY <1>7, <1>9, <1>12
<1>15. n <= -2 => mn <= -(2 * M)
  BY <1>7, <1>9, <1>12
<1>16. Abs(n) <= 1
  BY <1>7, <1>9, <1>12, <1>13, <1>14, <1>15 DEF Abs
<1>17. Worth(price, a) = x /\ Worth(price, b) = y /\ Worth(price, a + b) = z
  BY <1>1, <1>2, <1>3, <1>4, <1>5, <1>6 DEF Worth
<1> QED
  BY <1>9, <1>16, <1>17

LEMMA FlowIsInt ==
  ASSUME NEW price \in Nat, NEW qty \in Nat, NEW side
  PROVE  Flow(side, Worth(price, qty)) \in Int
<1>1. Worth(price, qty) \in Nat
  BY WorthIsNat
<1> QED
  BY <1>1 DEF Flow

LEMMA FlowSplits ==
  ASSUME NEW price \in Nat, NEW a \in Nat, NEW b \in Nat, NEW side
  PROVE  Abs(Flow(side, Worth(price, a)) + Flow(side, Worth(price, b))
             - Flow(side, Worth(price, a + b))) <= 1
<1>1. Abs(Worth(price, a) + Worth(price, b) - Worth(price, a + b)) <= 1
  BY WorthSplits
<1>2. /\ Worth(price, a) \in Nat /\ Worth(price, b) \in Nat
      /\ Worth(price, a + b) \in Nat
  BY WorthIsNat
<1> QED
  BY <1>1, <1>2 DEF Flow, Abs

(* The rows of another position are the ones they were.                    *)
LEMMA ApplyFillLeavesOthers ==
  ASSUME NEW P, NEW S, NEW K,
         NEW rows \in Seq(RowIn(P, S, K)), NEW held, NEW f \in FillIn(P, S, K),
         OneOpenEach(rows), HeldFits(P, S, K, rows, held, f),
         NEW new, new = ApplyFill(rows, held, f),
         NEW p, NEW c, p # f.portfolio \/ c # f.security
  PROVE  /\ PairRows(new, p, c) = PairRows(rows, p, c)
         /\ \A i \in PairRows(rows, p, c) : new[i] = rows[i]
         /\ NetSum(new, p, c) = NetSum(rows, p, c)
         /\ ChargeSum(new, p, c) = ChargeSum(rows, p, c)
         /\ CashSum(new, p, c) = CashSum(rows, p, c)
<1>1. /\ \A i \in DOMAIN rows :
           /\ i \in DOMAIN new
           /\ RowKept(new[i], rows[i])
           /\ ~IsOpenFor(rows[i], f.portfolio, f.security) => new[i] = rows[i]
      /\ \A i \in DOMAIN new : i \notin DOMAIN rows => RowKept(new[i], f)
  BY ApplyFillRows
<1>2. PairRows(new, p, c) = PairRows(rows, p, c)
  BY <1>1 DEF PairRows, RowKept
<1>3. \A i \in PairRows(rows, p, c) : new[i] = rows[i]
  BY <1>1 DEF PairRows, IsOpenFor
<1>4. /\ [i \in PairRows(new, p, c) |-> new[i].net] = [i \in PairRows(rows, p, c) |-> rows[i].net]
      /\ [i \in PairRows(new, p, c) |-> new[i].charges]
           = [i \in PairRows(rows, p, c) |-> rows[i].charges]
      /\ [i \in PairRows(new, p, c) |-> Cash(new[i])]
           = [i \in PairRows(rows, p, c) |-> Cash(rows[i])]
  BY <1>2, <1>3
<1> QED
  BY <1>2, <1>3, <1>4 DEF NetSum, ChargeSum, CashSum

LEMMA SpareOf ==
  ASSUME NEW T, NEW rows \in Seq(T), NEW p, NEW c
  PROVE  /\ Spare(rows, p, c) \in Nat
         /\ PairRows(rows, p, c) # {} =>
              Spare(rows, p, c) = Cardinality(PairRows(rows, p, c)) - 1
<1>1. IsFiniteSet(PairRows(rows, p, c))
  BY PairRowsFinite
<1>2. Cardinality(PairRows(rows, p, c)) \in Nat
  BY <1>1, FS_CardinalityType
<1>3. PairRows(rows, p, c) # {} => Cardinality(PairRows(rows, p, c)) # 0
  BY <1>1, FS_EmptySet
<1> QED
  BY <1>2, <1>3 DEF Spare

(* The sums are integers, and nothing over nothing.                        *)
LEMMA SumsTyped ==
  ASSUME NEW P, NEW S, NEW K, NEW rows \in Seq(RowIn(P, S, K)), NEW p, NEW c
  PROVE  /\ NetSum(rows, p, c) \in Int /\ ChargeSum(rows, p, c) \in Int
         /\ CashSum(rows, p, c) \in Int
         /\ PairRows(rows, p, c) = {} =>
              NetSum(rows, p, c) = 0 /\ ChargeSum(rows, p, c) = 0 /\ CashSum(rows, p, c) = 0
         /\ [i \in PairRows(rows, p, c) |-> rows[i].net] \in [PairRows(rows, p, c) -> Int]
         /\ [i \in PairRows(rows, p, c) |-> rows[i].charges] \in [PairRows(rows, p, c) -> Int]
         /\ [i \in PairRows(rows, p, c) |-> Cash(rows[i])] \in [PairRows(rows, p, c) -> Int]
<1>1. \A i \in PairRows(rows, p, c) :
        rows[i].net \in Int /\ rows[i].charges \in Int /\ Cash(rows[i]) \in Int
  BY RowNumbers DEF PairRows
<1>2. IsFiniteSet(PairRows(rows, p, c))
  BY PairRowsFinite
<1>3. /\ [i \in PairRows(rows, p, c) |-> rows[i].net] \in [PairRows(rows, p, c) -> Int]
      /\ [i \in PairRows(rows, p, c) |-> rows[i].charges] \in [PairRows(rows, p, c) -> Int]
      /\ [i \in PairRows(rows, p, c) |-> Cash(rows[i])] \in [PairRows(rows, p, c) -> Int]
  BY <1>1
<1>4. NetSum(rows, p, c) \in Int /\ ChargeSum(rows, p, c) \in Int /\ CashSum(rows, p, c) \in Int
  BY <1>2, <1>3, SumIsInt DEF NetSum, ChargeSum, CashSum
<1>5. ASSUME PairRows(rows, p, c) = {}
      PROVE  NetSum(rows, p, c) = 0 /\ ChargeSum(rows, p, c) = 0 /\ CashSum(rows, p, c) = 0
  <2>1. /\ DOMAIN [i \in PairRows(rows, p, c) |-> rows[i].net] = {}
        /\ DOMAIN [i \in PairRows(rows, p, c) |-> rows[i].charges] = {}
        /\ DOMAIN [i \in PairRows(rows, p, c) |-> Cash(rows[i])] = {}
    BY <1>5
  <2> QED
    BY <2>1, SumOfNothing DEF NetSum, ChargeSum, CashSum
<1> QED
  BY <1>3, <1>4, <1>5

\* What a fill adds to its position in all: its quantity, its charges and
\* its money, the last but for one money quantum if it flips.
Adds(rows, new, f) ==
  LET p == f.portfolio
      c == f.security
  IN  /\ NetSum(new, p, c) = NetSum(rows, p, c) + Signed(f.side, f.qty)
      /\ ChargeSum(new, p, c) = ChargeSum(rows, p, c) + f.charges
      /\ Abs(CashSum(new, p, c) - CashSum(rows, p, c) - Flow(f.side, Worth(f.price, f.qty)))
           <= Spare(new, p, c) - Spare(rows, p, c)

(* A fill that starts a row.                                               *)
LEMMA StartsAdds ==
  ASSUME NEW P, NEW S, NEW K,
         NEW rows \in Seq(RowIn(P, S, K)), NEW f \in FillIn(P, S, K),
         NEW new, Starts(P, S, K, rows, f, new)
  PROVE  Adds(rows, new, f)
<1>1. PICK p, c : p = f.portfolio /\ c = f.security
  OBVIOUS
<1>2. PICK r \in RowIn(P, S, K) :
        /\ new = Append(rows, r)
        /\ r.net = Signed(f.side, f.qty) /\ RowKept(r, f)
        /\ r.charges = f.charges /\ Cash(r) = Flow(f.side, Worth(f.price, f.qty))
  BY DEF Starts
<1>3. PICK n : n = Len(rows) + 1
  OBVIOUS
<1>4. /\ new \in Seq(RowIn(P, S, K)) /\ Len(new) = n /\ new[n] = r
      /\ \A i \in 1..Len(rows) : new[i] = rows[i]
  BY <1>2, <1>3, AppendProperties
<1>5. DOMAIN rows = 1..Len(rows) /\ DOMAIN new = DOMAIN rows \cup {n} /\ n \notin DOMAIN rows
  <2>1. Len(rows) \in Nat /\ DOMAIN rows = 1..Len(rows) /\ DOMAIN new = 1..(Len(rows) + 1)
    BY <1>3, <1>4
  <2> QED
    BY <1>3, <2>1
<1> DEFINE A == PairRows(rows, p, c)
           B == PairRows(new, p, c)
<1>6. B = A \cup {n} /\ n \notin A /\ \A i \in A : new[i] = rows[i]
  BY <1>1, <1>2, <1>4, <1>5 DEF PairRows, RowKept
<1>7. IsFiniteSet(A)
  BY PairRowsFinite
<1>8. /\ [i \in A |-> rows[i].net] \in [A -> Int]
      /\ [i \in A |-> rows[i].charges] \in [A -> Int]
      /\ [i \in A |-> Cash(rows[i])] \in [A -> Int]
      /\ CashSum(rows, p, c) \in Int
  BY SumsTyped
<1>9. /\ [i \in B |-> new[i].net] \in [B -> Int]
      /\ [i \in B |-> new[i].charges] \in [B -> Int]
      /\ [i \in B |-> Cash(new[i])] \in [B -> Int]
  BY <1>4, SumsTyped
<1>10. /\ NetSum(new, p, c) = NetSum(rows, p, c) + r.net
       /\ ChargeSum(new, p, c) = ChargeSum(rows, p, c) + r.charges
       /\ CashSum(new, p, c) = CashSum(rows, p, c) + Cash(r)
  <2> DEFINE a == [i \in A |-> rows[i].net]
             b == [i \in B |-> new[i].net]
             d == [i \in A |-> rows[i].charges]
             e == [i \in B |-> new[i].charges]
             g == [i \in A |-> Cash(rows[i])]
             h == [i \in B |-> Cash(new[i])]
  <2>1. b[n] = r.net /\ e[n] = r.charges /\ h[n] = Cash(r)
    BY <1>4, <1>6
  <2>2. a \in [A -> Int] /\ b \in [B -> Int] /\ Agree(a, b, A)
    BY <1>6, <1>8, <1>9 DEF Agree
  <2>3. d \in [A -> Int] /\ e \in [B -> Int] /\ Agree(d, e, A)
    BY <1>6, <1>8, <1>9 DEF Agree
  <2>4. g \in [A -> Int] /\ h \in [B -> Int] /\ Agree(g, h, A)
    BY <1>6, <1>8, <1>9 DEF Agree
  <2>5. /\ NetSum(new, p, c) = Sum(b) /\ NetSum(rows, p, c) = Sum(a)
        /\ ChargeSum(new, p, c) = Sum(e) /\ ChargeSum(rows, p, c) = Sum(d)
        /\ CashSum(new, p, c) = Sum(h) /\ CashSum(rows, p, c) = Sum(g)
    BY DEF NetSum, ChargeSum, CashSum
  <2> HIDE DEF a, b, d, e, g, h, A, B
  <2>6. Joins(n, A, B)
    BY <1>6 DEF Joins
  <2>7. Sum(b) = Sum(a) + b[n]
    BY <1>7, <2>2, <2>6, SumGrows
  <2>8. Sum(e) = Sum(d) + e[n]
    BY <1>7, <2>3, <2>6, SumGrows
  <2>9. Sum(h) = Sum(g) + h[n]
    BY <1>7, <2>4, <2>6, SumGrows
  <2> QED
    BY <2>1, <2>5, <2>7, <2>8, <2>9
<1>11. Spare(rows, p, c) \in Nat /\ Spare(new, p, c) - Spare(rows, p, c) \in Nat
  <2>1. Cardinality(B) = Cardinality(A) + 1
    BY <1>6, <1>7, FS_AddElement
  <2>2. Spare(new, p, c) = Cardinality(B) - 1
    BY <1>4, <1>6, SpareOf
  <2>3. Cardinality(A) \in Nat /\ Spare(new, p, c) = Cardinality(A)
    BY <1>7, <2>1, <2>2, FS_CardinalityType
  <2>4. A = {} => Spare(rows, p, c) = 0
    BY DEF Spare
  <2>5. A # {} => Spare(rows, p, c) = Cardinality(A) - 1
    BY SpareOf
  <2>6. Spare(rows, p, c) \in Nat
    BY SpareOf
  <2> QED
    BY <2>3, <2>4, <2>5, <2>6
<1>12. Flow(f.side, Worth(f.price, f.qty)) \in Int
  BY FlowIsInt DEF FillIn
<1>13. Abs(CashSum(new, p, c) - CashSum(rows, p, c) - Flow(f.side, Worth(f.price, f.qty))) = 0
  BY <1>2, <1>8, <1>10, <1>12 DEF Abs
<1> QED
  BY <1>1, <1>2, <1>10, <1>11, <1>13 DEF Adds

(* A fill that changes the open row, which its session read afresh.        *)
LEMMA ChangesAdds ==
  ASSUME NEW P, NEW S, NEW K,
         NEW rows \in Seq(RowIn(P, S, K)), NEW held, NEW f \in FillIn(P, S, K),
         NEW i \in DOMAIN rows, IsOpenFor(rows[i], f.portfolio, f.security),
         Loaded(rows, held, i) = rows[i],
         NEW new, Changes(P, S, K, rows, held, f, new, i)
  PROVE  Adds(rows, new, f)
<1>1. PICK p, c : p = f.portfolio /\ c = f.security
  OBVIOUS
<1>2. PICK r \in RowIn(P, S, K) :
        /\ new = [rows EXCEPT ![i] = r] /\ RowKept(r, rows[i])
        /\ r.net = rows[i].net + Signed(f.side, f.qty)
        /\ r.charges = rows[i].charges + f.charges
        /\ Cash(r) = Cash(rows[i]) + Flow(f.side, Worth(f.price, f.qty))
  BY DEF Changes
<1>3. /\ new \in Seq(RowIn(P, S, K)) /\ DOMAIN new = DOMAIN rows
      /\ \A j \in DOMAIN rows : new[j] = IF j = i THEN r ELSE rows[j]
  BY <1>2, ExceptSeq
<1> DEFINE A == PairRows(rows, p, c)
           a == [j \in A |-> rows[j].net]
           b == [j \in A |-> new[j].net]
           d == [j \in A |-> rows[j].charges]
           e == [j \in A |-> new[j].charges]
           g == [j \in A |-> Cash(rows[j])]
           h == [j \in A |-> Cash(new[j])]
<1>4. PairRows(new, p, c) = A /\ i \in A
  BY <1>1, <1>2, <1>3 DEF PairRows, RowKept, IsOpenFor
<1>5. \A j \in A \ {i} : new[j] = rows[j]
  BY <1>3 DEF PairRows
<1>6. new[i] = r
  BY <1>3
<1>7. IsFiniteSet(A)
  BY PairRowsFinite
<1>8. a \in [A -> Int] /\ b \in [A -> Int] /\ Agree(a, b, A \ {i})
  BY <1>3, <1>4, <1>5, SumsTyped DEF Agree
<1>9. d \in [A -> Int] /\ e \in [A -> Int] /\ Agree(d, e, A \ {i})
  BY <1>3, <1>4, <1>5, SumsTyped DEF Agree
<1>10. g \in [A -> Int] /\ h \in [A -> Int] /\ Agree(g, h, A \ {i})
  BY <1>3, <1>4, <1>5, SumsTyped DEF Agree
<1>11. /\ NetSum(new, p, c) = Sum(b) /\ NetSum(rows, p, c) = Sum(a)
       /\ ChargeSum(new, p, c) = Sum(e) /\ ChargeSum(rows, p, c) = Sum(d)
       /\ CashSum(new, p, c) = Sum(h) /\ CashSum(rows, p, c) = Sum(g)
       /\ Spare(new, p, c) = Spare(rows, p, c)
  BY <1>4 DEF NetSum, ChargeSum, CashSum, Spare
<1>12. /\ a[i] = rows[i].net /\ b[i] = r.net
       /\ d[i] = rows[i].charges /\ e[i] = r.charges
       /\ g[i] = Cash(rows[i]) /\ h[i] = Cash(r)
  BY <1>4, <1>6
<1> HIDE DEF A, a, b, d, e, g, h
<1>13. Sum(b) = Sum(a) + b[i] - a[i]
  BY <1>4, <1>7, <1>8, SumMoves
<1>14. Sum(e) = Sum(d) + e[i] - d[i]
  BY <1>4, <1>7, <1>9, SumMoves
<1>15. Sum(h) = Sum(g) + h[i] - g[i]
  BY <1>4, <1>7, <1>10, SumMoves
<1>16. /\ Flow(f.side, Worth(f.price, f.qty)) \in Int /\ Spare(rows, p, c) \in Nat
       /\ Signed(f.side, f.qty) \in Int /\ f.charges \in Int
  BY FlowIsInt, SpareOf DEF FillIn, Signed
<1>17. /\ rows[i].net \in Int /\ rows[i].charges \in Int /\ Cash(rows[i]) \in Int
       /\ NetSum(rows, p, c) \in Int /\ ChargeSum(rows, p, c) \in Int
       /\ CashSum(rows, p, c) \in Int
  BY RowNumbers, SumsTyped
<1>18. NetSum(new, p, c) = NetSum(rows, p, c) + Signed(f.side, f.qty)
  BY <1>2, <1>11, <1>12, <1>13, <1>16, <1>17
<1>19. ChargeSum(new, p, c) = ChargeSum(rows, p, c) + f.charges
  BY <1>2, <1>11, <1>12, <1>14, <1>16, <1>17
<1>20. CashSum(new, p, c) = CashSum(rows, p, c) + Flow(f.side, Worth(f.price, f.qty))
  BY <1>2, <1>11, <1>12, <1>15, <1>16, <1>17
<1>21. Abs(CashSum(new, p, c) - CashSum(rows, p, c) - Flow(f.side, Worth(f.price, f.qty)))
         <= Spare(new, p, c) - Spare(rows, p, c)
  <2>1. PICK x \in Int : x = CashSum(rows, p, c)
    BY <1>17
  <2>2. PICK y \in Int : y = Flow(f.side, Worth(f.price, f.qty))
    BY <1>16
  <2>3. CashSum(new, p, c) - CashSum(rows, p, c) - Flow(f.side, Worth(f.price, f.qty)) = 0
    BY <1>20, <2>1, <2>2
  <2>4. Spare(new, p, c) - Spare(rows, p, c) = 0
    BY <1>11, <1>16
  <2> QED
    BY <2>3, <2>4 DEF Abs
<1> QED
  BY <1>1, <1>18, <1>19, <1>21 DEF Adds

(* A fill that turns the position over: two rows share it.                 *)
LEMMA TurnsAdds ==
  ASSUME NEW P, NEW S, NEW K,
         NEW rows \in Seq(RowIn(P, S, K)), NEW held, NEW f \in FillIn(P, S, K),
         NEW i \in DOMAIN rows, IsOpenFor(rows[i], f.portfolio, f.security),
         Loaded(rows, held, i) = rows[i],
         NEW new, Turns(P, S, K, rows, held, f, new, i)
  PROVE  Adds(rows, new, f)
<1>1. PICK p, c : p = f.portfolio /\ c = f.security
  OBVIOUS
<1>2. PICK r \in RowIn(P, S, K), t \in RowIn(P, S, K) :
        /\ new = Append([rows EXCEPT ![i] = r], t)
        /\ RowKept(r, rows[i]) /\ RowKept(t, f)
        /\ r.net = 0 /\ t.net = rows[i].net + Signed(f.side, f.qty)
        /\ r.charges = rows[i].charges + f.charges /\ t.charges = 0
        /\ \E x \in Nat, y \in Nat :
             /\ x + y = f.qty
             /\ Cash(r) = Cash(rows[i]) + Flow(f.side, Worth(f.price, x))
             /\ Cash(t) = Flow(f.side, Worth(f.price, y))
  BY DEF Turns
<1>3. PICK n : n = Len(rows) + 1
  OBVIOUS
<1>4. PICK mid : mid = [rows EXCEPT ![i] = r]
  OBVIOUS
<1>5. /\ mid \in Seq(RowIn(P, S, K)) /\ Len(mid) = Len(rows) /\ DOMAIN mid = DOMAIN rows
      /\ \A j \in DOMAIN rows : mid[j] = IF j = i THEN r ELSE rows[j]
  BY <1>4, ExceptSeq
<1>6. /\ new \in Seq(RowIn(P, S, K)) /\ Len(new) = n /\ new[n] = t
      /\ \A j \in 1..Len(rows) : new[j] = mid[j]
  BY <1>2, <1>3, <1>4, <1>5, AppendProperties
<1>7. DOMAIN rows = 1..Len(rows) /\ DOMAIN new = DOMAIN rows \cup {n} /\ n \notin DOMAIN rows
  <2>1. Len(rows) \in Nat /\ DOMAIN rows = 1..Len(rows) /\ DOMAIN new = 1..(Len(rows) + 1)
    BY <1>3, <1>6
  <2> QED
    BY <1>3, <2>1
<1>8. \A j \in DOMAIN rows : new[j] = IF j = i THEN r ELSE rows[j]
  BY <1>5, <1>6, <1>7
<1> DEFINE A == PairRows(rows, p, c)
           B == PairRows(new, p, c)
           a == [j \in A |-> rows[j].net]
           b == [j \in B |-> new[j].net]
           d == [j \in A |-> rows[j].charges]
           e == [j \in B |-> new[j].charges]
           g == [j \in A |-> Cash(rows[j])]
           h == [j \in B |-> Cash(new[j])]
<1>9. B = A \cup {n} /\ n \notin A /\ i \in A /\ Joins(n, A, B)
  <2>1. \A j \in DOMAIN rows : (j \in B) <=> (j \in A)
    BY <1>2, <1>7, <1>8 DEF PairRows, RowKept
  <2>2. n \in B /\ i \in A
    BY <1>1, <1>2, <1>6, <1>7 DEF PairRows, RowKept, IsOpenFor
  <2>3. A \subseteq DOMAIN rows /\ B \subseteq DOMAIN new
    BY DEF PairRows
  <2> HIDE DEF A, B
  <2> QED
    BY <1>7, <2>1, <2>2, <2>3 DEF Joins
<1>10. /\ \A j \in A \ {i} : new[j] = rows[j]
       /\ new[i] = r
  BY <1>8 DEF PairRows
<1>11. IsFiniteSet(A)
  BY PairRowsFinite
<1>12. a \in [A -> Int] /\ b \in [B -> Int] /\ Agree(a, b, A \ {i})
  BY <1>6, <1>9, <1>10, SumsTyped DEF Agree
<1>13. d \in [A -> Int] /\ e \in [B -> Int] /\ Agree(d, e, A \ {i})
  BY <1>6, <1>9, <1>10, SumsTyped DEF Agree
<1>14. g \in [A -> Int] /\ h \in [B -> Int] /\ Agree(g, h, A \ {i})
  BY <1>6, <1>9, <1>10, SumsTyped DEF Agree
<1>15. /\ NetSum(new, p, c) = Sum(b) /\ NetSum(rows, p, c) = Sum(a)
       /\ ChargeSum(new, p, c) = Sum(e) /\ ChargeSum(rows, p, c) = Sum(d)
       /\ CashSum(new, p, c) = Sum(h) /\ CashSum(rows, p, c) = Sum(g)
  BY DEF NetSum, ChargeSum, CashSum
<1>16. /\ a[i] = rows[i].net /\ b[i] = r.net /\ b[n] = t.net
       /\ d[i] = rows[i].charges /\ e[i] = r.charges /\ e[n] = t.charges
       /\ g[i] = Cash(rows[i]) /\ h[i] = Cash(r) /\ h[n] = Cash(t)
  BY <1>6, <1>9, <1>10
<1>17. Spare(new, p, c) = Spare(rows, p, c) + 1
  <2>1. Cardinality(B) = Cardinality(A) + 1 /\ Cardinality(A) \in Nat
    BY <1>9, <1>11, FS_AddElement, FS_CardinalityType
  <2>2. Spare(new, p, c) = Cardinality(B) - 1
    BY <1>6, <1>9, SpareOf
  <2>3. Spare(rows, p, c) = Cardinality(A) - 1
    BY <1>9, SpareOf
  <2> QED
    BY <2>1, <2>2, <2>3
<1> HIDE DEF A, B, a, b, d, e, g, h
<1>18. Sum(b) = Sum(a) + b[i] - a[i] + b[n]
  BY <1>9, <1>11, <1>12, SumTurns
<1>19. Sum(e) = Sum(d) + e[i] - d[i] + e[n]
  BY <1>9, <1>11, <1>13, SumTurns
<1>20. Sum(h) = Sum(g) + h[i] - g[i] + h[n]
  BY <1>9, <1>11, <1>14, SumTurns
<1>21. /\ rows[i].net \in Int /\ rows[i].charges \in Int /\ Cash(rows[i]) \in Int
       /\ NetSum(rows, p, c) \in Int /\ ChargeSum(rows, p, c) \in Int
       /\ CashSum(rows, p, c) \in Int
       /\ Signed(f.side, f.qty) \in Int /\ f.charges \in Int
       /\ Spare(rows, p, c) \in Nat
  BY RowNumbers, SumsTyped, SpareOf DEF FillIn, Signed
<1>22. NetSum(new, p, c) = NetSum(rows, p, c) + Signed(f.side, f.qty)
  BY <1>2, <1>15, <1>16, <1>18, <1>21
<1>23. ChargeSum(new, p, c) = ChargeSum(rows, p, c) + f.charges
  BY <1>2, <1>15, <1>16, <1>19, <1>21
<1>24. Abs(CashSum(new, p, c) - CashSum(rows, p, c) - Flow(f.side, Worth(f.price, f.qty)))
         <= Spare(new, p, c) - Spare(rows, p, c)
  <2>1. PICK x \in Nat, y \in Nat :
          /\ x + y = f.qty
          /\ Cash(r) = Cash(rows[i]) + Flow(f.side, Worth(f.price, x))
          /\ Cash(t) = Flow(f.side, Worth(f.price, y))
    BY <1>2
  <2>2. f.price \in Nat /\ f.qty \in Nat
    BY DEF FillIn
  <2>3. PICK u \in Int : u = Flow(f.side, Worth(f.price, x))
    BY <2>2, FlowIsInt
  <2>4. PICK v \in Int : v = Flow(f.side, Worth(f.price, y))
    BY <2>2, FlowIsInt
  <2>5. PICK w \in Int : w = Flow(f.side, Worth(f.price, f.qty))
    BY <2>2, FlowIsInt
  <2>6. Abs(u + v - w) <= 1
    BY <2>1, <2>2, <2>3, <2>4, <2>5, FlowSplits
  <2>7. CashSum(new, p, c) - CashSum(rows, p, c) = u + v
    <3>1. PICK k \in Int : k = CashSum(rows, p, c)
      BY <1>21
    <3>2. PICK m \in Int : m = Cash(rows[i])
      BY <1>21
    <3>3. Cash(r) = m + u /\ Cash(t) = v
      BY <2>1, <2>3, <2>4, <3>2
    <3>4. CashSum(new, p, c) = k + Cash(r) - m + Cash(t)
      BY <1>15, <1>16, <1>20, <3>1, <3>2
    <3> QED
      BY <3>1, <3>3, <3>4
  <2>8. Spare(new, p, c) - Spare(rows, p, c) = 1
    BY <1>17, <1>21
  <2>9. CashSum(new, p, c) - CashSum(rows, p, c) - Flow(f.side, Worth(f.price, f.qty))
          = u + v - w
    BY <2>5, <2>7
  <2> QED
    BY <2>6, <2>8, <2>9
<1> QED
  BY <1>1, <1>22, <1>23, <1>24 DEF Adds

(* A fill whose session read the open row afresh, if it read one, adds its *)
(* whole quantity, its charges once, and its money but for the rounding of *)
(* a flip: over all the rows of its position.                              *)
LEMMA ApplyFillAdds ==
  ASSUME NEW P, NEW S, NEW K,
         NEW rows \in Seq(RowIn(P, S, K)), NEW held, NEW f \in FillIn(P, S, K),
         OneOpenEach(rows), HeldFits(P, S, K, rows, held, f),
         \A i \in OpenIds(rows, f.portfolio, f.security) : Loaded(rows, held, i) = rows[i],
         NEW new, new = ApplyFill(rows, held, f)
  PROVE  Adds(rows, new, f)
<1>1. \A i \in DOMAIN rows :
        IsOpenFor(rows[i], f.portfolio, f.security) => Loaded(rows, held, i) = rows[i]
  BY DEF OpenIds
<1>2. CASE Starts(P, S, K, rows, f, new)
  BY <1>2, StartsAdds
<1>3. ASSUME NEW i \in DOMAIN rows, IsOpenFor(rows[i], f.portfolio, f.security),
             Changes(P, S, K, rows, held, f, new, i)
      PROVE  Adds(rows, new, f)
  BY <1>1, <1>3, ChangesAdds
<1>4. ASSUME NEW i \in DOMAIN rows, IsOpenFor(rows[i], f.portfolio, f.security),
             Turns(P, S, K, rows, held, f, new, i)
      PROVE  Adds(rows, new, f)
  BY <1>1, <1>4, TurnsAdds
<1> QED
  BY <1>2, <1>3, <1>4, ApplyFillCases
=============================================================================
