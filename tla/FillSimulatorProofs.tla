------------------------ MODULE FillSimulatorProofs -------------------------
(***************************************************************************)
(* The walk over the published depth is safe for every depth, order, tick  *)
(* and slippage: it invents no quantity, flatters no price and leaves      *)
(* nothing it could have traded behind.                                    *)
(***************************************************************************)
EXTENDS FillSimulator, FiniteSetTheorems, SequenceTheorems, TLAPS

-----------------------------------------------------------------------------
(* Rounding to the nearest does not cross a whole number.                  *)
LEMMA HalfUpAtLeast ==
  ASSUME NEW n, n \in Nat, NEW d, d \in Nat \ {0}, NEW p, p \in Nat, p * d <= n
  PROVE  HalfUp(n, d) >= p
<1> DEFINE a == 2 * n + d
           b == 2 * d
           q == a \div b
<1>1. a \in Nat /\ b \in Nat /\ b > 0 /\ b * p <= a
  OBVIOUS
<1>2. HalfUp(n, d) = q
  BY DEF HalfUp
<1> HIDE DEF a, b
<1>3. q \in Int /\ b * q <= a /\ a < b * q + b
  BY <1>1
<1> HIDE DEF q
<1>4. ASSUME q < p PROVE FALSE
  <2>1. q + 1 <= p
    BY <1>3, <1>4
  <2>2. b * (q + 1) <= b * p
    BY <1>1, <1>3, <2>1
  <2> QED
    BY <1>1, <1>3, <2>2
<1> QED
  BY <1>2, <1>3, <1>4

LEMMA HalfUpAtMost ==
  ASSUME NEW n, n \in Nat, NEW d, d \in Nat \ {0}, NEW p, p \in Nat, n <= p * d
  PROVE  HalfUp(n, d) <= p
<1> DEFINE a == 2 * n + d
           b == 2 * d
           q == a \div b
<1>1. a \in Nat /\ b \in Nat /\ b > 0 /\ a < b * p + b
  OBVIOUS
<1>2. HalfUp(n, d) = q
  BY DEF HalfUp
<1> HIDE DEF a, b
<1>3. q \in Int /\ b * q <= a
  BY <1>1
<1> HIDE DEF q
<1>4. ASSUME q > p PROVE FALSE
  <2>1. q >= p + 1
    BY <1>3, <1>4
  <2>2. b * q >= b * (p + 1)
    BY <1>1, <1>3, <2>1
  <2> QED
    BY <1>1, <1>3, <2>2
<1> QED
  BY <1>2, <1>3, <1>4

(* An order's arguments are what the functions are given.                  *)
LEMMA OrderTyped ==
  ASSUME NEW o, o \in Orders
  PROVE  /\ o.kind \in {"MARKET", "LIMIT", "RESTING"}
         /\ o.side \in Sides
         /\ o.qty \in Nat \ {0}
         /\ o.limit \in Nat
         /\ o.slippage \in Nat
<1>0. {0} \subseteq Nat
  OBVIOUS
<1>1. CASE o \in Marketable("MARKET", {0})
  <2>1. o.kind = "MARKET" /\ o.side \in Sides /\ o.qty \in Quantities
    BY <1>1, Zenon DEF Marketable
  <2>2. o.limit \in {0} /\ o.slippage \in Slippages
    BY <1>1, Zenon DEF Marketable
  <2> QED
    BY <1>0, <2>1, <2>2, QuantitiesAssumption, SlippagesAssumption, Zenon
<1>2. CASE o \in Marketable("LIMIT", LimitPrices)
  BY <1>2, QuantitiesAssumption, LimitPricesAssumption, SlippagesAssumption DEF Marketable
<1>3. CASE o \in Resting
  <2>1. o.kind = "RESTING" /\ o.side \in Sides /\ o.qty \in Quantities
    BY <1>3, Zenon DEF Resting
  <2>2. o.limit \in LimitPrices /\ o.slippage \in {0}
    BY <1>3, Zenon DEF Resting
  <2> QED
    BY <1>0, <2>1, <2>2, QuantitiesAssumption, LimitPricesAssumption, Zenon
<1> QED
  BY <1>1, <1>2, <1>3 DEF Orders

(* Slippage moves a quoted price against the trader, never below a tick.   *)
LEMMA SlippageHurts ==
  ASSUME NEW price, price \in Nat, price > 0, price % Tick = 0,
         NEW side, side \in Sides,
         NEW ticks, ticks \in Nat
  PROVE  /\ ApplySlippage(price, side, ticks) \in Nat
         /\ side = "BUY" => ApplySlippage(price, side, ticks) >= price
         /\ side = "SELL" => ApplySlippage(price, side, ticks) <= price
<1>1. Tick <= price
  BY TickAssumption
<1>2. PICK away : away \in Nat /\ away = ticks * Tick
  BY TickAssumption
<1> QED
  BY <1>1, <1>2, TickAssumption DEF ApplySlippage, Sides

(* A level the walk takes from: what its fill is recorded at, compared with *)
(* the touch, which is no worse than the level, and with the limit.         *)
LEMMA FillPriceIsFair ==
  ASSUME NEW o, o \in Orders,
         NEW level, level \in [price : Nat, qty : Nat],
         Shown(level), level.price % Tick = 0, ~Stops(o, level),
         NEW touch, touch \in Nat,
         IF o.side = "BUY" THEN touch <= level.price ELSE touch >= level.price
  PROVE  /\ FillPrice(o, level) \in Nat
         /\ IF o.side = "BUY" THEN FillPrice(o, level) >= touch
                              ELSE FillPrice(o, level) <= touch
         /\ o.kind = "LIMIT" => Within(o.side, o.limit, FillPrice(o, level))
         /\ o.kind = "RESTING" => FillPrice(o, level) = o.limit
<1>1. /\ o.kind \in {"MARKET", "LIMIT", "RESTING"}
      /\ o.side \in Sides /\ o.limit \in Nat /\ o.slippage \in Nat
  BY OrderTyped
<1>2. level.price \in Nat /\ level.price > 0
  BY DEF Shown
<1>3. CASE o.kind = "RESTING"
  <2>1. FillPrice(o, level) = o.limit
    BY <1>3 DEF FillPrice
  <2>2. Within(o.side, o.limit, level.price)
    BY <1>1, <1>2, <1>3 DEF Stops, Through, Within
  <2> QED
    BY <1>1, <1>2, <1>3, <2>1, <2>2 DEF Within, Sides
<1>4. CASE o.kind # "RESTING"
  <2>1. FillPrice(o, level) = ApplySlippage(level.price, o.side, o.slippage)
    BY <1>4 DEF FillPrice
  <2>2. PICK p : p = FillPrice(o, level)
    OBVIOUS
  <2>3. /\ p \in Nat
        /\ o.side = "BUY" => p >= level.price
        /\ o.side = "SELL" => p <= level.price
    BY <1>1, <1>2, <2>1, <2>2, SlippageHurts
  <2>4. o.kind = "LIMIT" => Within(o.side, o.limit, p)
    BY <2>2 DEF Stops
  <2> QED
    BY <1>1, <1>2, <1>4, <2>2, <2>3, <2>4 DEF Sides
<1> QED
  BY <1>3, <1>4

(* Once the walk would stop at a level it would stop at every later one.    *)
LEMMA StoppingIsFinal ==
  ASSUME NEW o, o \in Orders,
         NEW near, near \in [price : Nat, qty : Nat], Shown(near), near.price % Tick = 0,
         NEW far, far \in [price : Nat, qty : Nat], Shown(far), far.price % Tick = 0,
         IF o.side = "BUY" THEN near.price <= far.price ELSE near.price >= far.price,
         Stops(o, near)
  PROVE  Stops(o, far)
<1>1. /\ o.kind \in {"MARKET", "LIMIT", "RESTING"}
      /\ o.side \in Sides /\ o.limit \in Nat /\ o.slippage \in Nat
  BY OrderTyped
<1>2. near.price \in Nat /\ near.price > 0 /\ far.price \in Nat /\ far.price > 0
  BY DEF Shown
<1>3. CASE o.kind = "MARKET"
  BY <1>3 DEF Stops
<1>4. CASE o.kind = "RESTING"
  <2>1. IF o.cross THEN ~Through(o.side, o.limit, near.price)
                   ELSE ~Within(o.side, o.limit, near.price)
    BY <1>4 DEF Stops
  <2>2. IF o.cross THEN ~Through(o.side, o.limit, far.price)
                   ELSE ~Within(o.side, o.limit, far.price)
    BY <1>1, <1>2, <2>1 DEF Through, Within, Sides
  <2> QED
    BY <1>4, <2>2 DEF Stops
<1>5. CASE o.kind = "LIMIT"
  <2>1. ~Within(o.side, o.limit, FillPrice(o, near))
    BY <1>5 DEF Stops
  <2>2. PICK away : away \in Nat /\ away = o.slippage * Tick
    BY <1>1, TickAssumption
  <2>3. IF o.side = "BUY" THEN FillPrice(o, near) <= FillPrice(o, far)
                          ELSE FillPrice(o, near) >= FillPrice(o, far)
    <3>1. Tick \in Nat /\ Tick <= near.price /\ Tick <= far.price
      BY <1>2, TickAssumption
    <3>2. /\ FillPrice(o, near) = ApplySlippage(near.price, o.side, o.slippage)
          /\ FillPrice(o, far) = ApplySlippage(far.price, o.side, o.slippage)
      BY <1>5 DEF FillPrice
    <3> QED
      BY <1>1, <1>2, <2>2, <3>1, <3>2 DEF ApplySlippage, Sides
  <2>4. FillPrice(o, near) \in Nat /\ FillPrice(o, far) \in Nat
    BY <1>1, <1>2, <1>5, SlippageHurts DEF FillPrice
  <2>5. ~Within(o.side, o.limit, FillPrice(o, far))
    BY <1>1, <2>1, <2>3, <2>4 DEF Within, Sides
  <2> QED
    BY <1>5, <2>5 DEF Stops
<1> QED
  BY <1>1, <1>3, <1>4, <1>5

-----------------------------------------------------------------------------
(* The inductive invariant.  The levels the walk reads run from the touch   *)
(* out and each shows something on the grid of ticks; what is behind it is  *)
(* used up; the value it sums lies between the touch's and the limit's.     *)
Typed ==
  /\ order \in Orders
  /\ \E n \in Nat : levels \in [1..n -> [price : Nat, qty : Nat]]
  /\ next \in Nat \ {0}
  /\ taken \in [DOMAIN levels -> Nat]
  /\ filled \in Nat /\ value \in Nat
  /\ done \in BOOLEAN

Quoted ==
  /\ \A i \in DOMAIN levels : Shown(levels[i]) /\ levels[i].price % Tick = 0
  /\ FromTheTouch(order.side, levels)

Walked ==
  /\ filled = 0 /\ ~done => next = 1
  /\ \A i \in DOMAIN levels : i >= next => taken[i] = 0
  /\ 0 < filled /\ filled < order.qty =>
       \A i \in DOMAIN levels : i < next => taken[i] = levels[i].qty
  /\ done /\ 0 < filled => Exhausted

Valued ==
  /\ 1 \notin DOMAIN levels => filled = 0
  /\ 1 \in DOMAIN levels =>
       IF order.side = "BUY" THEN levels[1].price * filled <= value
                             ELSE value <= levels[1].price * filled
  /\ order.kind = "LIMIT" => IF order.side = "BUY" THEN value <= order.limit * filled
                                                   ELSE order.limit * filled <= value
  /\ order.kind = "RESTING" => value = order.limit * filled

IInv == Typed /\ Quoted /\ WithinBook /\ Walked /\ Valued

LEMMA LevelTyped ==
  ASSUME NEW s, s \in Seq([price : Nat, qty : Nat]), NEW i, i \in DOMAIN s
  PROVE  s[i] \in [price : Nat, qty : Nat] /\ s[i].price \in Nat /\ s[i].qty \in Nat
<1>1. DOMAIN s = 1..Len(s)
  BY Zenon, LenProperties
<1>2. s[i] \in [price : Nat, qty : Nat]
  BY <1>1, ElementOfSeq, Zenon
<1> QED
  BY <1>2

(* The levels are some of the published ones.                               *)
LEMMA LevelsArePublished ==
  ASSUME NEW depth \in Depths, NEW side, NEW s \in SideLevels(depth, side)
  PROVE  /\ \E n \in Nat : s \in [1..n -> [price : Nat, qty : Nat]]
         /\ \A i \in DOMAIN s : Shown(s[i]) /\ s[i].price % Tick = 0
         /\ FromTheTouch(side, s)
<1> DEFINE kept == {i \in DOMAIN depth : Shown(depth[i])}
<1>1. depth \in Seq([price : Nat, qty : Nat]) /\ \A i \in DOMAIN depth : depth[i].price % Tick = 0
  BY DepthsAssumption
<1>2. Cardinality(kept) \in Nat
  <2>1. DOMAIN depth = 1..Len(depth) /\ Len(depth) \in Nat
    BY <1>1
  <2>2. IsFiniteSet(1..Len(depth))
    BY <2>1, FS_Interval
  <2>3. IsFiniteSet(kept)
    BY <2>1, <2>2, FS_Subset
  <2> QED
    BY <2>3, FS_CardinalityType
<1>3. PICK n : n \in Nat /\ n = Cardinality(kept)
  BY <1>2
<1>4. PICK place \in Bijection(1..n, kept) : s = [m \in 1..n |-> depth[place[m]]]
  BY <1>3, Zenon DEF SideLevels
<1>5. place \in [1..n -> kept]
  BY Zenon DEF Bijection, Injection
<1> HIDE DEF kept
<1>6. \A m \in 1..n : place[m] \in DOMAIN depth /\ Shown(depth[place[m]])
  BY <1>5 DEF kept
<1>7. DOMAIN s = 1..n /\ \A m \in 1..n : s[m] = depth[place[m]]
  BY <1>4, Zenon
<1>8. \A m \in 1..n : s[m] \in [price : Nat, qty : Nat] /\ s[m].price % Tick = 0 /\ Shown(s[m])
  <2>1. TAKE m \in 1..n
  <2>2. PICK i : i = place[m]
    OBVIOUS
  <2>3. i \in DOMAIN depth /\ Shown(depth[i]) /\ s[m] = depth[i]
    BY <1>6, <1>7, <2>2
  <2>4. depth[i] \in [price : Nat, qty : Nat] /\ depth[i].price % Tick = 0
    BY <1>1, <2>3, LevelTyped, Zenon
  <2> QED
    BY <2>3, <2>4, Zenon
<1>9. s \in [1..n -> [price : Nat, qty : Nat]]
  BY <1>4, <1>7, <1>8
<1>10. FromTheTouch(side, s)
  BY Zenon DEF SideLevels
<1> QED
  BY <1>3, <1>7, <1>8, <1>9, <1>10, Zenon

LEMMA InitInv == Init => IInv
<1> SUFFICES ASSUME Init PROVE IInv
  OBVIOUS
<1>1. /\ \E n \in Nat : levels \in [1..n -> [price : Nat, qty : Nat]]
      /\ \A i \in DOMAIN levels : Shown(levels[i]) /\ levels[i].price % Tick = 0
      /\ FromTheTouch(order.side, levels)
  BY LevelsArePublished DEF Init
<1>2. /\ order \in Orders /\ next = 1 /\ filled = 0 /\ value = 0 /\ done = FALSE
      /\ taken = [i \in DOMAIN levels |-> 0]
  BY DEF Init
<1>3. order.qty \in Nat \ {0} /\ order.limit \in Nat
  BY <1>2, OrderTyped
<1>4. \A i \in DOMAIN levels : levels[i].qty \in Nat /\ levels[i].price \in Nat
  BY <1>1
<1>6. Typed /\ Quoted
  <2>1. taken \in [DOMAIN levels -> Nat]
    BY <1>2
  <2>2. next \in Nat \ {0} /\ filled \in Nat /\ value \in Nat
    BY <1>2
  <2> QED
    BY <1>1, <1>2, <2>1, <2>2, Zenon DEF Typed, Quoted
<1>7. WithinBook /\ Walked
  BY <1>2, <1>3, <1>4 DEF WithinBook, Walked
<1>8. Valued
  BY <1>2, <1>3, <1>4 DEF Valued
<1> QED
  BY <1>6, <1>7, <1>8 DEF IInv

(* What the invariant says of one level the loop is at.                     *)
LEMMA AtLevel ==
  ASSUME IInv, next \in DOMAIN levels, ~Stops(order, levels[next])
  PROVE  /\ levels[next].price \in Nat /\ levels[next].qty \in Nat \ {0}
         /\ 1 \in DOMAIN levels /\ levels[1].price \in Nat
         /\ FillPrice(order, levels[next]) \in Nat
         /\ IF order.side = "BUY" THEN FillPrice(order, levels[next]) >= levels[1].price
                                  ELSE FillPrice(order, levels[next]) <= levels[1].price
         /\ order.kind = "LIMIT" =>
              Within(order.side, order.limit, FillPrice(order, levels[next]))
         /\ order.kind = "RESTING" => FillPrice(order, levels[next]) = order.limit
<1>1. PICK n \in Nat : levels \in [1..n -> [price : Nat, qty : Nat]]
  BY DEF IInv, Typed
<1>2. DOMAIN levels = 1..n /\ next \in Nat \ {0}
  BY <1>1 DEF IInv, Typed
<1>3. 1 \in DOMAIN levels
  BY <1>2
<1>4. PICK level : level = levels[next]
  OBVIOUS
<1>5. PICK touch : touch = levels[1].price
  OBVIOUS
<1>6. /\ level \in [price : Nat, qty : Nat] /\ levels[1] \in [price : Nat, qty : Nat]
      /\ Shown(level) /\ level.price % Tick = 0
  BY <1>1, <1>2, <1>3, <1>4 DEF IInv, Quoted
<1>7. touch \in Nat /\ level.price \in Nat /\ level.qty \in Nat
  BY <1>5, <1>6
<1>8. IF order.side = "BUY" THEN touch <= level.price ELSE touch >= level.price
  <2>1. CASE next = 1
    BY <2>1, <1>4, <1>5, <1>7
  <2>2. CASE next > 1
    BY <2>2, <1>2, <1>3, <1>4, <1>5 DEF IInv, Quoted, FromTheTouch
  <2> QED
    BY <1>2, <2>1, <2>2
<1>9. order \in Orders /\ ~Stops(order, level)
  BY <1>4 DEF IInv, Typed
<1>10. /\ FillPrice(order, level) \in Nat
       /\ IF order.side = "BUY" THEN FillPrice(order, level) >= touch
                                ELSE FillPrice(order, level) <= touch
       /\ order.kind = "LIMIT" => Within(order.side, order.limit, FillPrice(order, level))
       /\ order.kind = "RESTING" => FillPrice(order, level) = order.limit
  BY <1>6, <1>7, <1>8, <1>9, FillPriceIsFair
<1>11. level.qty \in Nat \ {0}
  BY <1>6, <1>7 DEF Shown
<1> QED
  BY <1>3, <1>4, <1>5, <1>7, <1>10, <1>11

(* Adding take units at a price on one side of a bound keeps the sum there. *)
LEMMA SumMoves ==
  ASSUME NEW bound, bound \in Nat, NEW price, price \in Nat,
         NEW sum, sum \in Nat, NEW qty, qty \in Nat, NEW more, more \in Nat
  PROVE  /\ bound * qty <= sum /\ bound <= price => bound * (qty + more) <= sum + price * more
         /\ sum <= bound * qty /\ price <= bound => sum + price * more <= bound * (qty + more)
         /\ sum = bound * qty /\ price = bound => sum + price * more = bound * (qty + more)
<1>1. bound * (qty + more) = bound * qty + bound * more
  OBVIOUS
<1>2. bound <= price => bound * more <= price * more
  OBVIOUS
<1>3. price <= bound => price * more <= bound * more
  OBVIOUS
<1>4. PICK a, b, c : a = bound * qty /\ b = bound * more /\ c = price * more
  OBVIOUS
<1>5. a \in Nat /\ b \in Nat /\ c \in Nat
  BY <1>4
<1> QED
  BY <1>1, <1>2, <1>3, <1>4, <1>5

LEMMA TakeInv == IInv /\ Take => IInv'
<1> SUFFICES ASSUME IInv, Take PROVE IInv'
  OBVIOUS
<1>1. /\ order.qty \in Nat \ {0} /\ order.limit \in Nat /\ order.side \in Sides
      /\ order.kind \in {"MARKET", "LIMIT", "RESTING"}
  BY OrderTyped DEF IInv, Typed
<1>2. /\ filled \in Nat /\ value \in Nat /\ next \in Nat \ {0} /\ next \in DOMAIN levels
      /\ filled < order.qty
  BY <1>1 DEF IInv, Typed, Take, Remaining
<1>3. PICK level, price : level = levels[next] /\ price = FillPrice(order, level)
  OBVIOUS
<1>4. /\ level.price \in Nat /\ level.qty \in Nat \ {0}
      /\ 1 \in DOMAIN levels /\ levels[1].price \in Nat
      /\ price \in Nat
      /\ IF order.side = "BUY" THEN price >= levels[1].price ELSE price <= levels[1].price
      /\ order.kind = "LIMIT" => Within(order.side, order.limit, price)
      /\ order.kind = "RESTING" => price = order.limit
  BY <1>2, <1>3, AtLevel DEF Take
<1>5. PICK take : take = IF Remaining < levels[next].qty THEN Remaining ELSE levels[next].qty
  OBVIOUS
<1>6. /\ take \in Nat \ {0} /\ filled + take <= order.qty /\ take <= level.qty
      /\ filled + take < order.qty => take = level.qty
  BY <1>1, <1>2, <1>3, <1>4, <1>5 DEF Remaining
<1>7. /\ taken' = [taken EXCEPT ![next] = take]
      /\ filled' = filled + take /\ value' = value + price * take
      /\ next' = next + 1
      /\ order' = order /\ levels' = levels /\ done' = done /\ done = FALSE
  BY <1>3, <1>5 DEF Take, IInv, Typed
<1>8. taken \in [DOMAIN levels -> Nat] /\ order \in Orders
  BY DEF IInv, Typed
<1>9. Typed'
  <2>1. taken' \in [DOMAIN levels -> Nat]
    BY <1>6, <1>7, <1>8
  <2>2. filled' \in Nat /\ value' \in Nat /\ next' \in Nat \ {0}
    BY <1>2, <1>4, <1>6, <1>7
  <2> QED
    BY <1>7, <2>1, <2>2 DEF IInv, Typed
<1>10. Quoted'
  BY <1>7 DEF IInv, Quoted
<1>11. \A i \in DOMAIN levels : taken'[i] = IF i = next THEN take ELSE taken[i]
  BY <1>7, <1>8
<1>12. WithinBook'
  BY <1>3, <1>6, <1>7, <1>11 DEF IInv, WithinBook
<1>13. \A i \in DOMAIN levels : i \in Nat \ {0}
  BY DEF IInv, Typed
<1>14. Walked'
  <2>1. filled' > 0
    BY <1>2, <1>6, <1>7
  <2>2. \A i \in DOMAIN levels : i >= next + 1 => taken'[i] = 0
    BY <1>2, <1>11, <1>13 DEF IInv, Walked
  <2>3. ASSUME filled' < order.qty, NEW i \in DOMAIN levels, i < next + 1
        PROVE  taken'[i] = levels[i].qty
    <3>1. CASE i = next
      BY <1>3, <1>6, <1>7, <1>11, <2>3, <3>1
    <3>2. CASE i # next
      <4>1. i < next
        BY <1>2, <1>13, <2>3, <3>2
      <4>2. filled # 0
        BY <1>2, <1>7, <1>13, <4>1 DEF IInv, Walked
      <4>3. 0 < filled /\ filled < order.qty
        BY <1>2, <4>2
      <4> QED
        BY <1>11, <3>2, <4>1, <4>3 DEF IInv, Walked
    <3> QED
      BY <3>1, <3>2
  <2> QED
    BY <1>7, <2>1, <2>2, <2>3 DEF Walked
<1>15. Valued'
  <2>1. 1 \in DOMAIN levels'
    BY <1>4, <1>7
  <2>2. PICK touch : touch = levels[1].price /\ touch \in Nat
    BY <1>4
  <2>3. take \in Nat
    BY <1>6
  <2>4. IF order.side = "BUY" THEN touch * (filled + take) <= value + price * take
                              ELSE value + price * take <= touch * (filled + take)
    BY <1>2, <1>4, <2>2, <2>3, SumMoves DEF IInv, Valued
  <2>5. order.kind = "LIMIT" =>
          IF order.side = "BUY" THEN value + price * take <= order.limit * (filled + take)
                                ELSE order.limit * (filled + take) <= value + price * take
    BY <1>1, <1>2, <1>4, <2>3, SumMoves DEF IInv, Valued, Within
  <2>6. order.kind = "RESTING" => value + price * take = order.limit * (filled + take)
    <3> SUFFICES ASSUME order.kind = "RESTING"
                 PROVE  value + price * take = order.limit * (filled + take)
      OBVIOUS
    <3>1. PICK limit : limit = order.limit /\ limit \in Nat
      BY <1>1
    <3>2. value = limit * filled /\ price = limit
      BY <1>4, <3>1 DEF IInv, Valued
    <3>3. limit * filled + limit * take = limit * (filled + take)
      BY <1>2, <2>3, <3>1
    <3> QED
      BY <3>1, <3>2, <3>3
  <2> QED
    BY <1>7, <2>1, <2>2, <2>4, <2>5, <2>6 DEF Valued
<1> QED
  BY <1>9, <1>10, <1>12, <1>14, <1>15 DEF IInv

LEMMA ReturnInv == IInv /\ Return => IInv'
<1> SUFFICES ASSUME IInv, Return PROVE IInv'
  OBVIOUS
<1>1. order.qty \in Nat \ {0} /\ order.limit \in Nat
  BY OrderTyped DEF IInv, Typed
<1>2. order' = order /\ levels' = levels /\ next' = next /\ done' = TRUE /\ Exhausted
  BY DEF Return
<1>3. CASE Drops
  <2>1. filled' = 0 /\ value' = 0 /\ taken' = [i \in DOMAIN levels |-> 0]
    BY <1>3 DEF Return
  <2>2. Typed' /\ Quoted'
    BY <1>2, <2>1 DEF IInv, Typed, Quoted
  <2>3. \A i \in DOMAIN levels : levels[i].qty \in Nat /\ levels[i].price \in Nat
    BY DEF IInv, Typed
  <2>4. WithinBook' /\ Walked'
    BY <1>1, <1>2, <2>1, <2>3 DEF WithinBook, Walked
  <2>5. Valued'
    BY <1>1, <1>2, <2>1, <2>3 DEF Valued
  <2> QED
    BY <2>2, <2>4, <2>5 DEF IInv
<1>4. CASE ~Drops
  <2>1. filled' = filled /\ value' = value /\ taken' = taken
    BY <1>4 DEF Return
  <2>2. Typed' /\ Quoted' /\ WithinBook' /\ Valued'
    BY <1>2, <2>1 DEF IInv, Typed, Quoted, WithinBook, Valued
  <2>3. Exhausted'
    BY <1>2, <2>1 DEF Exhausted, Remaining
  <2>4. Walked'
    BY <1>2, <2>1, <2>3 DEF IInv, Walked
  <2> QED
    BY <2>2, <2>4 DEF IInv
<1> QED
  BY <1>3, <1>4

LEMMA NextInv == IInv /\ [Next]_vars => IInv'
<1> SUFFICES ASSUME IInv, [Next]_vars PROVE IInv'
  OBVIOUS
<1>1. CASE Take
  BY <1>1, TakeInv
<1>2. CASE Return
  BY <1>2, ReturnInv
<1>3. CASE UNCHANGED vars
  BY <1>3 DEF vars, IInv, Typed, Quoted, WithinBook, Walked, Valued, Exhausted, Remaining
<1> QED
  BY <1>1, <1>2, <1>3 DEF Next

LEMMA FairFromInv == IInv => NeverFlattering
<1> SUFFICES ASSUME IInv, filled > 0
    PROVE  /\ IF order.side = "BUY" THEN Average >= levels[1].price ELSE Average <= levels[1].price
           /\ order.kind = "LIMIT" => Within(order.side, order.limit, Average)
           /\ order.kind = "RESTING" => Average = order.limit
  BY DEF NeverFlattering
<1>1. order.side \in Sides /\ order.limit \in Nat
  BY OrderTyped DEF IInv, Typed
<1>2. filled \in Nat \ {0} /\ value \in Nat
  BY DEF IInv, Typed
<1>3. 1 \in DOMAIN levels /\ levels[1].price \in Nat
  BY <1>2 DEF IInv, Typed, Valued
<1>4. PICK touch : touch = levels[1].price /\ touch \in Nat
  BY <1>3
<1>5. IF order.side = "BUY" THEN touch * filled <= value ELSE value <= touch * filled
  BY <1>3, <1>4 DEF IInv, Valued
<1>6. IF order.side = "BUY" THEN HalfUp(value, filled) >= touch ELSE HalfUp(value, filled) <= touch
  BY <1>2, <1>4, <1>5, HalfUpAtLeast, HalfUpAtMost
<1>7. order.kind = "LIMIT" => Within(order.side, order.limit, HalfUp(value, filled))
  BY <1>1, <1>2, HalfUpAtLeast, HalfUpAtMost DEF IInv, Valued, Within
<1>8. order.kind = "RESTING" => HalfUp(value, filled) = order.limit
  <2>1. HalfUp(value, filled) \in Int
    BY <1>2 DEF HalfUp
  <2>2. order.kind = "RESTING" => HalfUp(value, filled) <= order.limit /\ HalfUp(value, filled) >= order.limit
    BY <1>1, <1>2, HalfUpAtLeast, HalfUpAtMost DEF IInv, Valued
  <2> QED
    BY <1>1, <2>1, <2>2
<1> QED
  BY <1>4, <1>6, <1>7, <1>8 DEF Average

LEMMA LeftBehindFromInv == IInv => NothingLeftBehind
<1> SUFFICES ASSUME IInv, done, 0 < filled, filled < order.qty, NEW i \in DOMAIN levels
    PROVE  taken[i] = levels[i].qty \/ Stops(order, levels[i])
  BY DEF NothingLeftBehind
<1>1. order \in Orders /\ order.qty \in Nat \ {0} /\ filled \in Nat
  BY OrderTyped DEF IInv, Typed
<1>2. PICK n \in Nat : levels \in [1..n -> [price : Nat, qty : Nat]]
  BY DEF IInv, Typed
<1>3. DOMAIN levels = 1..n /\ next \in Nat \ {0}
  BY <1>2 DEF IInv, Typed
<1>4. CASE i < next
  BY <1>4 DEF IInv, Walked
<1>5. CASE i >= next
  <2>1. next \in DOMAIN levels
    BY <1>3, <1>5
  <2>2. Stops(order, levels[next])
    BY <1>1, <2>1 DEF IInv, Walked, Exhausted, Remaining
  <2>3. CASE i = next
    BY <2>2, <2>3
  <2>4. CASE i > next
    <3>1. PICK near, far : near = levels[next] /\ far = levels[i]
      OBVIOUS
    <3>2. near \in [price : Nat, qty : Nat] /\ far \in [price : Nat, qty : Nat]
      BY <1>2, <1>3, <2>1, <3>1
    <3>3. Shown(near) /\ near.price % Tick = 0 /\ Shown(far) /\ far.price % Tick = 0
      BY <2>1, <3>1 DEF IInv, Quoted
    <3>4. IF order.side = "BUY" THEN near.price <= far.price ELSE near.price >= far.price
      BY <2>1, <2>4, <3>1 DEF IInv, Quoted, FromTheTouch
    <3> QED
      BY <1>1, <2>2, <3>1, <3>2, <3>3, <3>4, StoppingIsFinal
  <2> QED
    BY <1>3, <1>5, <2>3, <2>4
<1> QED
  BY <1>3, <1>4, <1>5

-----------------------------------------------------------------------------
(***************************************************************************)
(* Whatever the depth, the order, the tick and the slippage:               *)
(* simulate_marketable_fill and try_fill_resting_limit take from no level  *)
(* more than it displayed nor more than was asked, never at an average     *)
(* better than the touch or beyond the limit, and when they come back      *)
(* short every level they left is one the order could not trade with.      *)
(***************************************************************************)
THEOREM WalkIsFair == Spec => [](WithinBook /\ NeverFlattering /\ NothingLeftBehind)
<1>1. IInv => WithinBook
  BY DEF IInv
<1> QED
  BY InitInv, NextInv, FairFromInv, LeftBehindFromInv, <1>1, PTL DEF Spec

-----------------------------------------------------------------------------
(* The walk answers inside BookFills.  For that the invariant also says how *)
(* far the levels are from the touch, hence how far the value can be, and   *)
(* that a walk that took nothing met nothing at the touch.                  *)

\* The lowest average a sale can come to.
Floor(touch) == IF touch - MaxWalk > 1 THEN touch - MaxWalk ELSE 1

Spread ==
  order.kind # "RESTING" =>
    \A i, j \in DOMAIN levels :
      levels[i].price + order.slippage * Tick <= levels[j].price + MaxWalk

Reach ==
  order.kind # "RESTING" /\ 1 \in DOMAIN levels =>
    IF order.side = "BUY" THEN value <= (levels[1].price + MaxWalk) * filled
                          ELSE Floor(levels[1].price) * filled <= value

Begun ==
  /\ filled > 0 => ~Stops(order, levels[1])
  /\ done /\ filled = 0 /\ order.partial => 1 \notin DOMAIN levels \/ Stops(order, levels[1])
  /\ done /\ filled > 0 /\ ~order.partial => filled = order.qty
  /\ order.kind = "LIMIT" => IsMarketable(order.side, order.limit, TopOf(levels))

CInv == IInv /\ Spread /\ Reach /\ Begun

(* Only a marketable order may refuse partial fills or be slipped.          *)
LEMMA OrderSettings ==
  ASSUME NEW o, o \in Orders
  PROVE  /\ o.partial \in BOOLEAN /\ o.cross \in BOOLEAN
         /\ o.kind = "RESTING" => o.partial = TRUE
         /\ o.kind # "RESTING" => o.slippage \in Slippages
<1>1. CASE o \in Marketable("MARKET", {0})
  BY <1>1, Zenon DEF Marketable
<1>2. CASE o \in Marketable("LIMIT", LimitPrices)
  BY <1>2, Zenon DEF Marketable
<1>3. CASE o \in Resting
  <2>1. o.kind = "RESTING" /\ o.partial \in {TRUE} /\ o.cross \in BOOLEAN
    BY <1>3, Zenon DEF Resting
  <2> QED
    BY <2>1
<1> QED
  BY <1>1, <1>2, <1>3 DEF Orders

(* The levels lie as far apart as the published ones.                       *)
LEMMA LevelsSpread ==
  ASSUME NEW depth \in Depths, NEW side, NEW s \in SideLevels(depth, side),
         NEW ticks \in Slippages, NEW i \in DOMAIN s, NEW j \in DOMAIN s
  PROVE  s[i].price + ticks * Tick <= s[j].price + MaxWalk
<1> DEFINE kept == {m \in DOMAIN depth : Shown(depth[m])}
<1>1. PICK n : n = Cardinality(kept)
  OBVIOUS
<1>2. PICK place \in Bijection(1..n, kept) : s = [m \in 1..n |-> depth[place[m]]]
  BY <1>1, Zenon DEF SideLevels
<1>3. place \in [1..n -> kept]
  BY Zenon DEF Bijection, Injection
<1>4. DOMAIN s = 1..n /\ \A m \in 1..n : s[m] = depth[place[m]]
  BY <1>2, Zenon
<1> HIDE DEF kept
<1>5. \A m \in 1..n : place[m] \in DOMAIN depth /\ Shown(depth[place[m]])
  BY <1>3 DEF kept
<1>6. PICK a, b : a = place[i] /\ b = place[j]
  OBVIOUS
<1>7. /\ a \in DOMAIN depth /\ b \in DOMAIN depth /\ Shown(depth[a]) /\ Shown(depth[b])
      /\ s[i] = depth[a] /\ s[j] = depth[b]
  BY <1>4, <1>5, <1>6
<1>8. depth[a].price + ticks * Tick <= depth[b].price + MaxWalk
  BY <1>7, MaxWalkCovers, Zenon
<1> QED
  BY <1>7, <1>8

(* The slipped price of a level is no further from the touch than MaxWalk.  *)
LEMMA FillPriceReaches ==
  ASSUME NEW o, o \in Orders, o.kind # "RESTING",
         NEW level, level \in [price : Nat, qty : Nat], Shown(level), level.price % Tick = 0,
         NEW touch, touch \in Nat,
         level.price + o.slippage * Tick <= touch + MaxWalk,
         touch + o.slippage * Tick <= level.price + MaxWalk
  PROVE  IF o.side = "BUY" THEN FillPrice(o, level) <= touch + MaxWalk
                           ELSE FillPrice(o, level) >= Floor(touch)
<1>1. o.side \in Sides /\ o.slippage \in Nat
  BY OrderTyped
<1>2. level.price \in Nat /\ level.price > 0
  BY DEF Shown
<1>3. Tick <= level.price /\ Tick \in Nat /\ Tick > 0 /\ MaxWalk \in Nat
  BY <1>2, TickAssumption, MaxWalkAssumption
<1>4. PICK away : away \in Nat /\ away = o.slippage * Tick
  BY <1>1, <1>3
<1>5. PICK ticks : ticks = o.slippage
  OBVIOUS
<1>6. ticks = 0 => away = 0
  BY <1>3, <1>4, <1>5
<1>7. FillPrice(o, level) =
        IF ticks = 0 THEN level.price
        ELSE IF o.side = "BUY" THEN level.price + away
        ELSE IF level.price - away > Tick THEN level.price - away ELSE Tick
  BY <1>4, <1>5 DEF FillPrice, ApplySlippage
<1>8. level.price + away <= touch + MaxWalk /\ touch + away <= level.price + MaxWalk
  BY <1>4
<1>9. PICK p, price : p = level.price /\ price = FillPrice(o, level)
  OBVIOUS
<1>10. /\ p \in Nat /\ Tick <= p /\ p + away <= touch + MaxWalk /\ touch + away <= p + MaxWalk
       /\ price = IF ticks = 0 THEN p
                  ELSE IF o.side = "BUY" THEN p + away
                  ELSE IF p - away > Tick THEN p - away ELSE Tick
  BY <1>2, <1>3, <1>7, <1>8, <1>9
<1>11. CASE o.side = "BUY"
  <2>1. price <= p + away
    BY <1>4, <1>10, <1>11
  <2>2. price \in Int
    BY <1>4, <1>10, <1>11
  <2>3. price <= touch + MaxWalk
    BY <1>3, <1>4, <1>10, <2>1, <2>2
  <2> QED
    BY <1>9, <1>11, <2>3
<1>12. CASE o.side # "BUY"
  <2>1. price \in Int /\ price >= p - away /\ price >= 1
    <3>1. CASE ticks = 0
      BY <1>3, <1>4, <1>10, <3>1
    <3>2. CASE ticks # 0 /\ p - away > Tick
      BY <1>3, <1>4, <1>10, <1>12, <3>2
    <3>3. CASE ticks # 0 /\ ~ (p - away > Tick)
      BY <1>3, <1>4, <1>10, <1>12, <3>3
    <3> QED
      BY <3>1, <3>2, <3>3
  <2>2. price >= touch - MaxWalk
    BY <1>3, <1>4, <1>10, <2>1
  <2>3. price >= Floor(touch)
    BY <2>1, <2>2 DEF Floor
  <2> QED
    BY <1>9, <1>12, <2>3
<1> QED
  BY <1>11, <1>12

LEMMA CInitInv == Init => CInv
<1> SUFFICES ASSUME Init PROVE CInv
  OBVIOUS
<1>1. IInv
  BY InitInv
<1>2. order \in Orders /\ filled = 0 /\ value = 0 /\ done = FALSE
  BY DEF Init
<1>3. Spread
  <2> SUFFICES ASSUME order.kind # "RESTING"
               PROVE  \A i, j \in DOMAIN levels :
                        levels[i].price + order.slippage * Tick <= levels[j].price + MaxWalk
    BY DEF Spread
  <2>1. order.slippage \in Slippages
    BY <1>2, OrderSettings
  <2>2. PICK depth \in Depths : levels \in SideLevels(depth, order.side)
    BY DEF Init
  <2> QED
    BY <2>1, <2>2, LevelsSpread
<1>4. Reach
  <2>1. \A x \in Int : x * 0 = 0
    OBVIOUS
  <2>2. 1 \in DOMAIN levels => levels[1].price + MaxWalk \in Int /\ Floor(levels[1].price) \in Int
    BY <1>1, MaxWalkAssumption DEF IInv, Typed, Floor
  <2> QED
    BY <1>2, <2>1, <2>2 DEF Reach
<1>5. Begun
  BY <1>2 DEF Begun, Init
<1> QED
  BY <1>1, <1>3, <1>4, <1>5 DEF CInv

LEMMA CTakeInv == CInv /\ Take => CInv'
<1> SUFFICES ASSUME CInv, Take PROVE CInv'
  OBVIOUS
<1>1. IInv /\ IInv'
  BY TakeInv DEF CInv
<1>2. order \in Orders /\ filled \in Nat /\ value \in Nat /\ next \in DOMAIN levels
      /\ ~Stops(order, levels[next])
  BY <1>1 DEF IInv, Typed, Take
<1>3. PICK take : take = IF Remaining < levels[next].qty THEN Remaining ELSE levels[next].qty
  OBVIOUS
<1>4. PICK price : price = FillPrice(order, levels[next])
  OBVIOUS
<1>5. /\ filled' = filled + take /\ value' = value + price * take
      /\ order' = order /\ levels' = levels /\ ~done /\ done' = done
  BY <1>3, <1>4 DEF Take
<1>6. PICK n \in Nat : levels \in [1..n -> [price : Nat, qty : Nat]]
  BY <1>1 DEF IInv, Typed
<1>7. /\ 1 \in DOMAIN levels /\ levels[1].price \in Nat
      /\ levels[next].qty \in Nat \ {0} /\ price \in Nat
  BY <1>1, <1>2, <1>4, AtLevel
<1>8. take \in Nat /\ take > 0
  BY <1>2, <1>3, <1>7, OrderTyped DEF Take, Remaining
<1>9. Spread'
  BY <1>5 DEF CInv, Spread
<1>10. Reach'
  <2> SUFFICES ASSUME order.kind # "RESTING"
               PROVE  IF order.side = "BUY"
                      THEN value + price * take <= (levels[1].price + MaxWalk) * (filled + take)
                      ELSE Floor(levels[1].price) * (filled + take) <= value + price * take
    BY <1>5 DEF Reach
  <2>1. PICK level, touch : level = levels[next] /\ touch = levels[1].price
    OBVIOUS
  <2>2. /\ level \in [price : Nat, qty : Nat] /\ Shown(level) /\ level.price % Tick = 0
        /\ touch \in Nat
    BY <1>1, <1>2, <1>6, <1>7, <2>1 DEF IInv, Quoted
  <2>3. /\ level.price + order.slippage * Tick <= touch + MaxWalk
        /\ touch + order.slippage * Tick <= level.price + MaxWalk
    BY <1>2, <1>7, <2>1 DEF CInv, Spread
  <2>4. IF order.side = "BUY" THEN price <= touch + MaxWalk ELSE price >= Floor(touch)
    BY <1>2, <1>4, <2>1, <2>2, <2>3, FillPriceReaches
  <2>5. PICK high, low : high = touch + MaxWalk /\ low = Floor(touch)
    OBVIOUS
  <2>6. high \in Nat /\ low \in Nat
    BY <2>2, <2>5, MaxWalkAssumption DEF Floor
  <2>7. IF order.side = "BUY" THEN value <= high * filled ELSE low * filled <= value
    BY <1>7, <2>1, <2>5 DEF CInv, Reach
  <2>8. IF order.side = "BUY" THEN value + price * take <= high * (filled + take)
                              ELSE low * (filled + take) <= value + price * take
    BY <1>2, <1>7, <1>8, <2>4, <2>5, <2>6, <2>7, SumMoves
  <2> QED
    BY <2>1, <2>5, <2>8
<1>11. Begun'
  <2>1. ~Stops(order, levels[1])
    <3>1. CASE filled > 0
      BY <3>1 DEF CInv, Begun
    <3>2. CASE filled = 0
      BY <1>1, <1>2, <1>5, <3>2 DEF IInv, Walked
    <3> QED
      BY <1>2, <3>1, <3>2
  <2> QED
    BY <1>5, <2>1 DEF CInv, Begun
<1> QED
  BY <1>1, <1>9, <1>10, <1>11 DEF CInv

LEMMA CReturnInv == CInv /\ Return => CInv'
<1> SUFFICES ASSUME CInv, Return PROVE CInv'
  OBVIOUS
<1>1. IInv /\ IInv'
  BY ReturnInv DEF CInv
<1>2. order \in Orders /\ filled \in Nat /\ order.qty \in Nat \ {0}
  BY <1>1, OrderTyped DEF IInv, Typed
<1>3. order' = order /\ levels' = levels /\ ~done /\ Exhausted
  BY DEF Return
<1>4. Spread'
  BY <1>3 DEF CInv, Spread
<1>5. CASE Drops
  <2>1. filled' = 0 /\ value' = 0 /\ ~order.partial
    BY <1>5 DEF Return, Drops
  <2>2. \A x \in Int : x * 0 = 0
    OBVIOUS
  <2>3. 1 \in DOMAIN levels => levels[1].price + MaxWalk \in Int /\ Floor(levels[1].price) \in Int
    BY <1>1, MaxWalkAssumption DEF IInv, Typed, Floor
  <2>4. Reach'
    BY <1>3, <2>1, <2>2, <2>3 DEF Reach
  <2>5. Begun'
    BY <1>3, <2>1 DEF CInv, Begun
  <2> QED
    BY <1>1, <1>4, <2>4, <2>5 DEF CInv
<1>6. CASE ~Drops
  <2>1. filled' = filled /\ value' = value
    BY <1>6 DEF Return
  <2>2. Reach'
    BY <1>3, <2>1 DEF CInv, Reach
  <2>3. filled = 0 => 1 \notin DOMAIN levels \/ Stops(order, levels[1])
    <3> SUFFICES ASSUME filled = 0, 1 \in DOMAIN levels PROVE Stops(order, levels[1])
      OBVIOUS
    <3>1. next = 1
      BY <1>1, <1>3 DEF IInv, Walked
    <3>2. Remaining > 0
      BY <1>2 DEF Remaining
    <3> QED
      BY <1>3, <3>1, <3>2 DEF Exhausted
  <2>4. ~order.partial => filled = order.qty
    <3> SUFFICES ASSUME ~order.partial PROVE filled = order.qty
      OBVIOUS
    <3>1. order.kind # "RESTING"
      BY <1>2, OrderSettings
    <3>2. ~ (Remaining > 0)
      BY <1>6, <3>1 DEF Drops
    <3>3. filled <= order.qty
      BY <1>1 DEF IInv, WithinBook
    <3> QED
      BY <1>2, <3>2, <3>3 DEF Remaining
  <2>5. Begun'
    BY <1>3, <2>1, <2>3, <2>4 DEF CInv, Begun
  <2> QED
    BY <1>1, <1>4, <2>2, <2>5 DEF CInv
<1> QED
  BY <1>5, <1>6

LEMMA CNextInv == CInv /\ [Next]_vars => CInv'
<1> SUFFICES ASSUME CInv, [Next]_vars PROVE CInv'
  OBVIOUS
<1>1. CASE Take
  BY <1>1, CTakeInv
<1>2. CASE Return
  BY <1>2, CReturnInv
<1>3. CASE UNCHANGED vars
  <2>1. IInv'
    BY <1>3, NextInv DEF CInv
  <2> QED
    BY <1>3, <2>1 DEF vars, CInv, Spread, Reach, Begun
<1> QED
  BY <1>1, <1>2, <1>3 DEF Next

(* The top of the levels, as BookFills reads it.                            *)
LEMMA TouchIs ==
  ASSUME IInv
  PROVE  Touch(order.side, TopOf(levels)) = IF 1 \in DOMAIN levels THEN levels[1].price ELSE 0
<1>1. PICK n \in Nat : levels \in [1..n -> [price : Nat, qty : Nat]]
  BY DEF IInv, Typed
<1>2. levels \in Seq([price : Nat, qty : Nat]) /\ DOMAIN levels = 1..n
  BY <1>1, SeqDef
<1>3. 1 \in DOMAIN levels => levels # <<>>
  BY <1>2, EmptySeq
<1>4. 1 \notin DOMAIN levels => levels = <<>>
  <2> SUFFICES ASSUME 1 \notin DOMAIN levels PROVE levels = <<>>
    OBVIOUS
  <2>1. n = 0
    BY <1>2
  <2>2. Len(levels) = 0
    BY <1>2, <2>1, LenProperties
  <2> QED
    BY <1>2, <2>2, EmptySeq
<1> QED
  BY <1>3, <1>4 DEF Touch, TopOf

(* A limit that is in reach and slipped out of it means there is slippage.  *)
LEMMA SlippedOut ==
  ASSUME CInv, order.kind = "LIMIT", 1 \in DOMAIN levels, Stops(order, levels[1])
  PROVE  MaxWalk > 0
<1>1. order.slippage \in Nat /\ order.side \in Sides /\ order.limit \in Nat
  BY OrderTyped DEF CInv, IInv, Typed
<1>2. PICK level : level = levels[1]
  OBVIOUS
<1>3. level.price \in Nat
  BY <1>2 DEF CInv, IInv, Typed
<1>4. Within(order.side, order.limit, level.price)
  BY <1>2, TouchIs DEF CInv, Begun, IsMarketable
<1>5. ~Within(order.side, order.limit, FillPrice(order, level))
  BY <1>2 DEF Stops
<1>6. FillPrice(order, level) # level.price
  BY <1>4, <1>5
<1>7. order.slippage # 0
  BY <1>6 DEF FillPrice, ApplySlippage
<1>8. PICK away : away = order.slippage * Tick
  OBVIOUS
<1>9. away \in Nat /\ away > 0
  BY <1>1, <1>7, <1>8, TickAssumption
<1>10. level.price + away <= level.price + MaxWalk
  BY <1>2, <1>8 DEF CInv, Spread
<1> QED
  BY <1>3, <1>9, <1>10, MaxWalkAssumption

(* What a marketable walk that took something returns.                      *)
LEMMA MarketableAnswers ==
  ASSUME CInv, order.kind # "RESTING", filled > 0
  PROVE  Outcome \in MarketableFills(order.side, order.qty, TopOf(levels),
                                     order.kind = "LIMIT", order.limit)
<1>1. /\ order.side \in Sides /\ order.limit \in Nat /\ order.qty \in Nat \ {0}
      /\ order.kind \in {"MARKET", "LIMIT"}
  BY OrderTyped DEF CInv, IInv, Typed
<1>2. filled \in Nat \ {0} /\ value \in Nat /\ filled <= order.qty
  BY DEF CInv, IInv, Typed, WithinBook
<1>3. 1 \in DOMAIN levels
  BY DEF CInv, IInv, Valued
<1>4. PICK touch : touch = levels[1].price
  OBVIOUS
<1>5. touch \in Nat /\ touch > 0 /\ touch = Touch(order.side, TopOf(levels))
  BY <1>3, <1>4, TouchIs DEF CInv, IInv, Typed, Quoted, Shown
<1>6. PICK price : price = HalfUp(value, filled)
  OBVIOUS
<1>7. /\ IF order.side = "BUY" THEN price >= touch ELSE price <= touch
      /\ order.kind = "LIMIT" => Within(order.side, order.limit, price)
  BY <1>4, <1>6, FairFromInv DEF CInv, NeverFlattering, Average
<1>8. PICK high, low : high = touch + MaxWalk /\ low = Floor(touch)
  OBVIOUS
<1>9. high \in Nat /\ low \in Nat /\ low >= 1 /\ low >= touch - MaxWalk /\ MaxWalk \in Nat
  BY <1>5, <1>8, MaxWalkAssumption DEF Floor
<1>10. IF order.side = "BUY" THEN value <= high * filled ELSE low * filled <= value
  BY <1>3, <1>4, <1>8 DEF CInv, Reach
<1>11. IF order.side = "BUY" THEN price <= high ELSE price >= low
  BY <1>2, <1>6, <1>9, <1>10, HalfUpAtLeast, HalfUpAtMost
<1>12. price \in Int
  BY <1>2, <1>6 DEF HalfUp
<1>13. price \in 1..(touch + MaxWalk)
  BY <1>1, <1>5, <1>7, <1>8, <1>9, <1>11, <1>12 DEF Sides
<1>14. IF order.side = "BUY" THEN price >= touch
                             ELSE price <= touch /\ price >= touch - MaxWalk
  BY <1>1, <1>5, <1>7, <1>8, <1>9, <1>11, <1>12 DEF Sides
<1>15. Outcome = [qty |-> filled, price |-> price]
  BY <1>2, <1>6 DEF Outcome
<1>16. filled \in 1..order.qty
  BY <1>1, <1>2
<1> QED
  BY <1>5, <1>7, <1>13, <1>14, <1>15, <1>16 DEF MarketableFills

LEMMA ContractFromInv == CInv => MeetsContract
<1> SUFFICES ASSUME CInv, done PROVE MeetsContract
  BY DEF MeetsContract
<1>1. /\ order.side \in Sides /\ order.limit \in Nat /\ order.qty \in Nat \ {0}
      /\ order.kind \in {"MARKET", "LIMIT", "RESTING"}
      /\ order.kind = "RESTING" => order.partial = TRUE
  BY OrderTyped, OrderSettings DEF CInv, IInv, Typed
<1>2. filled \in Nat /\ value \in Nat /\ filled <= order.qty
  BY DEF CInv, IInv, Typed, WithinBook
<1>3. PICK touch : touch = Touch(order.side, TopOf(levels))
  OBVIOUS
<1>4. touch = IF 1 \in DOMAIN levels THEN levels[1].price ELSE 0
  BY <1>3, TouchIs DEF CInv
<1>5. 1 \in DOMAIN levels => touch \in Nat /\ touch > 0
  BY <1>4 DEF CInv, IInv, Typed, Quoted, Shown
<1>6. filled = 0 => Outcome = NoFill
  BY DEF Outcome
<1>7. filled > 0 => Outcome = [qty |-> filled, price |-> HalfUp(value, filled)] /\ 1 \in DOMAIN levels
  BY DEF Outcome, CInv, IInv, Valued
<1>8. filled = 0 /\ order.partial => 1 \notin DOMAIN levels \/ Stops(order, levels[1])
  BY DEF CInv, Begun
<1>9. CASE order.kind = "RESTING"
  <2> SUFFICES ASSUME order.cross
               PROVE  Outcome \in RestingFills(order.side, order.qty, order.limit, TopOf(levels))
    BY <1>9 DEF MeetsContract
  <2>1. CASE filled = 0
    <3>1. 1 \in DOMAIN levels => ~Through(order.side, order.limit, levels[1].price)
      BY <1>1, <1>8, <1>9, <2>1 DEF Stops
    <3>2. ~ (touch > 0 /\ Through(order.side, order.limit, touch))
      BY <1>4, <3>1
    <3> QED
      BY <1>3, <1>6, <2>1, <3>2 DEF RestingFills
  <2>2. CASE filled > 0
    <3>1. Through(order.side, order.limit, levels[1].price)
      BY <1>9, <2>2 DEF CInv, Begun, Stops
    <3>2. touch > 0 /\ Through(order.side, order.limit, touch)
      BY <1>4, <1>5, <1>7, <2>2, <3>1
    <3>3. HalfUp(value, filled) = order.limit
      BY <1>9, <2>2, FairFromInv DEF CInv, NeverFlattering, Average
    <3>4. filled \in 1..order.qty
      BY <1>1, <1>2, <2>2
    <3> QED
      BY <1>3, <1>7, <2>2, <3>2, <3>3, <3>4 DEF RestingFills
  <2> QED
    BY <1>2, <2>1, <2>2
<1>10. CASE order.kind # "RESTING" /\ order.partial
  <2> SUFFICES Outcome \in MarketableFills(order.side, order.qty, TopOf(levels),
                                           order.kind = "LIMIT", order.limit)
    BY <1>10 DEF MeetsContract
  <2>1. CASE filled > 0
    BY <1>10, <2>1, MarketableAnswers
  <2>2. CASE filled = 0 /\ touch = 0
    BY <1>3, <1>6, <2>2 DEF MarketableFills
  <2>3. CASE filled = 0 /\ touch # 0
    <3>1. 1 \in DOMAIN levels /\ Stops(order, levels[1])
      BY <1>4, <1>8, <1>10, <2>3
    <3>2. order.kind = "LIMIT"
      BY <1>1, <1>10, <3>1 DEF Stops
    <3>3. MaxWalk > 0
      BY <3>1, <3>2, SlippedOut
    <3> QED
      BY <1>3, <1>6, <2>3, <3>2, <3>3 DEF MarketableFills
  <2> QED
    BY <1>2, <2>1, <2>2, <2>3
<1>11. CASE order.kind # "RESTING" /\ ~order.partial
  <2>1. filled > 0 => filled = order.qty
    BY <1>11 DEF CInv, Begun
  <2>2. Outcome = NoFill \/ Outcome.qty = order.qty
    BY <1>2, <1>6, <1>7, <2>1
  <2> QED
    BY <1>11, <2>2 DEF MeetsContract
<1> QED
  BY <1>9, <1>10, <1>11

-----------------------------------------------------------------------------
(***************************************************************************)
(* Whatever the depth, the order, the tick and the slippage, as long as    *)
(* MaxWalk covers them: what a call to the fill simulator returns is one   *)
(* of the answers the order core is modelled with (fill_simulator.py:      *)
(* simulate_marketable_fill, try_fill_resting_limit).                      *)
(***************************************************************************)
THEOREM WalkMeetsContract == Spec => []MeetsContract
  BY CInitInv, CNextInv, ContractFromInv, PTL DEF Spec
=============================================================================
