-------------------------- MODULE PaperOrdersProofs --------------------------
(***************************************************************************)
(* The order core, for any sessions, portfolios, contracts, quotes, order  *)
(* sizes and number of orders: no order over-executes, statuses, charges   *)
(* and position rows stay sound, committed history stands; then orders,    *)
(* rows and ledger balance; then each portfolio is a book of its own.      *)
(***************************************************************************)
EXTENDS PaperOrders, PositionRowsProofs, WellFoundedInduction

(* The order the matcher works on exists while any is loaded.              *)
LEMMA LeastExists ==
  ASSUME NEW T, T \subseteq Nat, T # {}
  PROVE  \E x \in T : \A y \in T : x <= y
<1> DEFINE R == OpToRel(<, Nat)
<1>1. IsWellFoundedOn(R, Nat)
  BY NatLessThanWellFounded
<1>2. R = {ss \in Nat \X Nat : ss[1] < ss[2]}
  BY DEF OpToRel
<1> HIDE DEF R
<1>3. PICK x \in T : \A y \in T : ~ (<<y, x>> \in R)
  BY <1>1, WFMin
<1>4. ASSUME NEW y \in T PROVE x <= y
  <2>1. ~ (<<y, x>> \in R) /\ x \in Nat /\ y \in Nat
    BY <1>3
  <2>2. ~ (y < x)
    BY <2>1, <1>2
  <2> QED
    BY <2>1, <2>2
<1> QED
  BY <1>4

LEMMA NextOrderLoaded ==
  ASSUME DOMAIN matcher.loaded # {}, DOMAIN matcher.loaded \subseteq Nat
  PROVE  NextOrder \in DOMAIN matcher.loaded
<1>1. \E o \in DOMAIN matcher.loaded : \A x \in DOMAIN matcher.loaded : o <= x
  BY LeastExists
<1> QED
  BY <1>1 DEF NextOrder

-----------------------------------------------------------------------------
(* What the book answers.                                                  *)

\* A fill that can be applied to an order with `room' units to go.
FillWithin(fill, room) == fill.qty \in 1..room /\ fill.price \in Nat

Quoted(q) == q.bid \in Nat /\ q.ask \in Nat /\ q.ltp \in Nat

LEMMA RestingFillsWithin ==
  ASSUME NEW side, NEW room, room \in Nat, NEW limit, limit \in Nat, NEW q, Quoted(q),
         NEW fill \in RestingFills(side, room, limit, q), fill # NoFill
  PROVE  FillWithin(fill, room)
<1>1. fill \in [qty : 1..room, price : {limit}]
  BY DEF RestingFills
<1> QED
  BY <1>1 DEF FillWithin

LEMMA InitialFillsWithin ==
  ASSUME NEW r, r.qty \in Nat, r.limit \in Nat, NEW q, Quoted(q),
         NEW fill \in InitialFills(r, q), fill.qty > 0
  PROVE  FillWithin(fill, r.qty)
<1>1. fill # NoFill
  BY DEF NoFill
<1>2. PICK touch : touch = Touch(r.side, q)
  OBVIOUS
<1>3. touch \in Nat
  BY <1>2 DEF Touch, Quoted
<1>4. ASSUME NEW limited, NEW limit, fill \in MarketableFills(r.side, r.qty, q, limited, limit)
      PROVE  FillWithin(fill, r.qty)
  <2>1. fill \in [qty : 1..r.qty, price : 1..(touch + MaxWalk)]
    BY <1>1, <1>2, <1>4, Zenon DEF MarketableFills
  <2> QED
    BY <2>1, <1>3, MaxWalkAssumption DEF FillWithin
<1> QED
  BY <1>1, <1>4, Zenon DEF InitialFills

-----------------------------------------------------------------------------
(* Applying a fill to an order, the position, the charges and the cash.    *)

\* The charges recorded are those of the quantity executed.
Charged(x) == x.booked = ChargeOn(x.filled) /\ x.charged = x.booked

GoodRows(table) == OneOpenEach(table) /\ OpenWhileHolding(table)

\* The rows a session holds are open copies of rows of the table.
HeldFrom(held, table) ==
  \A i \in DOMAIN held :
    /\ i \in DOMAIN table
    /\ held[i] \in Row /\ held[i].open
    /\ RowKept(held[i], table[i])

\* What becomes of a table: rows keep their identity, closed ones stay.
RowsStand(table, later) ==
  \A i \in DOMAIN table :
    /\ i \in DOMAIN later
    /\ RowKept(later[i], table[i])
    /\ ~table[i].open => later[i] = table[i]

\* Whose order it is, and what it has executed.
SameOrder(x, y) == x.portfolio = y.portfolio /\ x.security = y.security /\ x.side = y.side

SameAccount(x, y) ==
  SameOrder(x, y) /\ x.filled = y.filled /\ x.traded = y.traded /\ x.booked = y.booked

\* The order `o' of `d' is `x' in `e', one fill of it is in the rows and the
\* cash.
Executes(d, held, o, e, x) ==
  /\ e.orders = [d.orders EXCEPT ![o] = x]
  /\ SameOrder(x, d.orders[o])
  /\ \E f \in FillIn(Portfolio, Security, Strategy) :
       /\ SameOrder(f, x)
       /\ e.rows = ApplyFill(d.rows, held, f)
       /\ x.filled = d.orders[o].filled + f.qty
       /\ x.traded = d.orders[o].traded + Flow(f.side, Worth(f.price, f.qty))
       /\ x.booked = d.orders[o].booked + f.charges
       /\ e.cash = [d.cash EXCEPT ![f.portfolio] =
                      @ + Flow(f.side, Worth(f.price, f.qty)) - f.charges]

LEMMA ChargeOnIsNat ==
  ASSUME NEW n, n \in Nat
  PROVE  ChargeOn(n) \in Nat
<1>1. Levy * n \in Nat /\ Brokerage \in Nat
  BY MoneyAssumption, ProductIsNat
<1>2. Brokerage + Levy * n \in Nat
  BY <1>1
<1> QED
  BY <1>2 DEF ChargeOn

LEMMA HeldFromFits ==
  ASSUME NEW table, table \in Seq(Row), NEW held, HeldFrom(held, table), NEW f
  PROVE  HeldFits(Portfolio, Security, Strategy, table, held, f)
<1> SUFFICES ASSUME NEW i \in OpenIds(table, f.portfolio, f.security)
             PROVE  /\ Loaded(table, held, i) \in Row
                    /\ Loaded(table, held, i).open
                    /\ Loaded(table, held, i).portfolio = f.portfolio
                    /\ Loaded(table, held, i).security = f.security
  BY DEF HeldFits, Row
<1>1. /\ i \in DOMAIN table /\ table[i].open
      /\ table[i].portfolio = f.portfolio /\ table[i].security = f.security
  BY DEF OpenIds, IsOpenFor
<1>2. table[i] \in Row
  BY <1>1
<1>3. CASE i \in DOMAIN held
  <2>1. /\ held[i] \in Row /\ held[i].open
        /\ held[i].portfolio = table[i].portfolio /\ held[i].security = table[i].security
    BY <1>3 DEF HeldFrom, RowKept
  <2> QED
    BY <1>1, <1>3, <2>1 DEF Loaded
<1>4. CASE i \notin DOMAIN held
  BY <1>1, <1>2, <1>4 DEF Loaded
<1> QED
  BY <1>3, <1>4

LEMMA CreditSound ==
  ASSUME NEW order \in Order, NEW filled, filled \in Nat, NEW total, total \in Nat,
         NEW moved, moved \in Int, NEW added, added \in Int, order.booked + added = total,
         NEW x, x = Credit(order, filled, total, moved, added)
  PROVE  /\ x \in Order
         /\ x.filled = filled /\ x.charged = total /\ x.booked = total
         /\ x.qty = order.qty /\ x.status = order.status
         /\ SameOrder(x, order) /\ x.traded = order.traded + moved
<1>1. order.traded \in Int /\ order.traded + moved \in Int
  BY DEF Order
<1>2. x = [portfolio |-> order.portfolio, security |-> order.security,
           strategy |-> order.strategy, side |-> order.side, type |-> order.type,
           qty |-> order.qty, limit |-> order.limit, close |-> order.close,
           status |-> order.status, filled |-> filled, completed |-> order.completed,
           charged |-> total, traded |-> order.traded + moved, booked |-> total]
  BY DEF Credit, Order
<1>3. x \in Order
  BY <1>1, <1>2 DEF Order
<1>4. SameOrder(x, order) /\ x.traded = order.traded + moved
  BY <1>2 DEF SameOrder
<1> QED
  BY <1>2, <1>3, <1>4

\* The order `o' of `d' is `x' in `e', a fill further on.
Takes(d, o, fill, e, x) ==
  /\ e.orders = [d.orders EXCEPT ![o] = x]
  /\ x.filled = d.orders[o].filled + fill.qty
  /\ x.qty = d.orders[o].qty /\ x.status = d.orders[o].status
  /\ Charged(x)

LEMMA ApplyFillsSound ==
  ASSUME NEW d \in Database, GoodRows(d.rows),
         NEW held, HeldFrom(held, d.rows),
         NEW o, o \in DOMAIN d.orders, Charged(d.orders[o]),
         NEW seen, seen.filled = d.orders[o].filled,
         NEW fill, FillWithin(fill, d.orders[o].qty - d.orders[o].filled),
         NEW e, e = ApplyFills(d, held, o, seen, fill)
  PROVE  /\ e \in Database /\ GoodRows(e.rows) /\ RowsStand(d.rows, e.rows)
         /\ \E x \in Order : Takes(d, o, fill, e, x) /\ Executes(d, held, o, e, x)
<1>1. PICK order : order = d.orders[o]
  OBVIOUS
<1>2. /\ d.orders \in Seq(Order) /\ d.rows \in Seq(Row) /\ d.cash \in [Portfolio -> Int]
      /\ d = [orders |-> d.orders, rows |-> d.rows, cash |-> d.cash]
  BY DEF Database
<1>3. order \in Order
  BY <1>1, <1>2
<1>4. /\ order.portfolio \in Portfolio /\ order.security \in Security
      /\ order.strategy \in Strategy /\ order.side \in Sides
      /\ order.qty \in Nat /\ order.filled \in Nat
      /\ order.charged \in Nat /\ order.booked \in Nat
  BY <1>3 DEF Order
<1>5. fill.qty \in Nat \ {0} /\ fill.price \in Nat
  BY <1>1, <1>4 DEF FillWithin
<1>6. PICK filled : filled \in Nat /\ filled = seen.filled + fill.qty
                    /\ filled = order.filled + fill.qty
  BY <1>1, <1>4, <1>5
<1>7. PICK total : total \in Nat /\ total = ChargeOn(filled)
  BY <1>6, ChargeOnIsNat
<1>8. PICK added : added = total - order.charged
  OBVIOUS
<1>27. added \in Int /\ order.booked + added = total
  <2>1. order.booked = order.charged
    BY <1>1 DEF Charged
  <2> QED
    BY <1>4, <1>7, <1>8, <2>1
<1>9. PICK value : value \in Nat /\ value = Worth(fill.price, fill.qty)
  BY <1>5, WorthIsNat
<1>10. PICK moved : moved \in Int /\ moved = IF order.side = "BUY" THEN -value ELSE value
  BY <1>9
<1>11. PICK x : x = Credit(order, filled, total, moved, added)
  OBVIOUS
<1>12. /\ x \in Order
       /\ x.filled = filled /\ x.charged = total /\ x.booked = total
       /\ x.qty = order.qty /\ x.status = order.status
       /\ SameOrder(x, order) /\ x.traded = order.traded + moved
  BY <1>3, <1>6, <1>7, <1>10, <1>11, <1>27, CreditSound
<1>13. PICK f : f = [portfolio |-> order.portfolio, security |-> order.security,
                     strategy |-> order.strategy, side |-> order.side,
                     qty |-> fill.qty, price |-> fill.price, charges |-> added]
  OBVIOUS
<1>14. f \in FillIn(Portfolio, Security, Strategy)
  BY <1>4, <1>5, <1>13, <1>27 DEF FillIn
<1>15. PICK table : table = ApplyFill(d.rows, held, f)
  OBVIOUS
<1>16. PICK purse : purse = [d.cash EXCEPT ![order.portfolio] = @ + moved - added]
  OBVIOUS
<1>17. e = [orders |-> [d.orders EXCEPT ![o] = x], rows |-> table, cash |-> purse]
  <2> DEFINE qty   == seen.filled + fill.qty
             sum   == RecomputeCharges(d.orders[o].charged, qty, fill.qty)
             extra == sum - d.orders[o].charged
             worth == Worth(fill.price, fill.qty)
             flow  == IF d.orders[o].side = "BUY" THEN -worth ELSE worth
             exec  == [portfolio |-> d.orders[o].portfolio, security |-> d.orders[o].security,
                       strategy |-> d.orders[o].strategy, side |-> d.orders[o].side,
                       qty |-> fill.qty, price |-> fill.price, charges |-> extra]
  <2>1. ApplyFills(d, held, o, seen, fill) =
          [orders |-> [d.orders EXCEPT ![o] = Credit(d.orders[o], qty, sum, flow, extra)],
           rows |-> ApplyFill(d.rows, held, exec),
           cash |-> [d.cash EXCEPT ![d.orders[o].portfolio] = @ + flow - extra]]
    BY Zenon DEF ApplyFills, Credit
  <2>2. qty = filled /\ worth = value
    BY <1>6, <1>9
  <2>3. sum = total
    BY <1>7, <2>2, Zenon DEF RecomputeCharges
  <2>4. extra = added /\ flow = moved
    BY <1>1, <1>8, <1>10, <2>2, <2>3
  <2>5. exec = f
    BY <1>1, <1>13, <2>4
  <2> HIDE DEF qty, sum, extra, worth, flow, exec
  <2> QED
    BY <1>1, <1>11, <1>15, <1>16, <2>1, <2>2, <2>3, <2>4, <2>5
<1>18. /\ d.rows \in Seq(RowIn(Portfolio, Security, Strategy))
       /\ OneOpenEach(d.rows) /\ OpenWhileHolding(d.rows)
       /\ HeldFits(Portfolio, Security, Strategy, d.rows, held, f)
  BY <1>2, HeldFromFits DEF Row, GoodRows
<1>19. /\ table \in Seq(Row)
       /\ \A i \in DOMAIN d.rows :
            /\ i \in DOMAIN table
            /\ RowKept(table[i], d.rows[i])
            /\ ~IsOpenFor(d.rows[i], f.portfolio, f.security) => table[i] = d.rows[i]
  BY <1>14, <1>15, <1>18, ApplyFillRows DEF Row
<1>20. GoodRows(table)
  BY <1>14, <1>15, <1>18, ApplyFillKeeps DEF GoodRows
<1>21. RowsStand(d.rows, table)
  BY <1>19 DEF RowsStand, IsOpenFor
<1>22. purse \in [Portfolio -> Int]
  <2>1. \A p \in Portfolio : d.cash[p] \in Int
    BY <1>2
  <2>2. \A p \in Portfolio : d.cash[p] + moved - added \in Int
    BY <2>1, <1>10, <1>27
  <2> QED
    BY <1>2, <1>16, <2>1, <2>2
<1>23. [d.orders EXCEPT ![o] = x] \in Seq(Order)
  BY <1>2, <1>12, ExceptSeq
<1>24. e \in Database
  BY <1>17, <1>19, <1>22, <1>23 DEF Database
<1>25. e.orders = [d.orders EXCEPT ![o] = x] /\ e.rows = table
  BY <1>17
<1>26. Charged(x)
  BY <1>7, <1>12 DEF Charged
<1>28. Takes(d, o, fill, e, x)
  BY <1>1, <1>6, <1>12, <1>25, <1>26 DEF Takes
<1>29. Executes(d, held, o, e, x)
  <2>1. /\ f.portfolio = order.portfolio /\ f.security = order.security /\ f.side = order.side
        /\ f.qty = fill.qty /\ f.price = fill.price /\ f.charges = added
    BY <1>13
  <2>2. SameOrder(x, d.orders[o]) /\ SameOrder(f, x)
    BY <1>1, <1>12, <2>1 DEF SameOrder
  <2>3. e.rows = ApplyFill(d.rows, held, f)
    BY <1>15, <1>25
  <2>4. x.filled = d.orders[o].filled + f.qty
    BY <1>1, <1>6, <1>12, <2>1
  <2>5. x.traded = d.orders[o].traded + Flow(f.side, Worth(f.price, f.qty))
    BY <1>1, <1>9, <1>10, <1>12, <2>1 DEF Flow
  <2>6. x.booked = d.orders[o].booked + f.charges
    BY <1>1, <1>12, <1>27, <2>1
  <2>7. e.cash = [d.cash EXCEPT ![f.portfolio] =
                    @ + Flow(f.side, Worth(f.price, f.qty)) - f.charges]
    <3>1. moved = Flow(f.side, Worth(f.price, f.qty))
      BY <1>9, <1>10, <2>1 DEF Flow
    <3>2. e.cash = purse
      BY <1>17
    <3> QED
      BY <1>16, <2>1, <3>1, <3>2
  <2> QED
    BY <1>14, <1>25, <2>2, <2>3, <2>4, <2>5, <2>6, <2>7 DEF Executes
<1> QED
  BY <1>12, <1>20, <1>21, <1>24, <1>25, <1>28, <1>29

-----------------------------------------------------------------------------
(* Finishing an order.                                                     *)

\* What the invariants say of one stored order.
SoundOrder(x) ==
  /\ x.filled <= x.qty
  /\ x.status # "PENDING"
  /\ x.status = "FILLED" => x.filled = x.qty
  /\ x.status = "OPEN" => x.filled = 0 /\ ~x.completed
  /\ x.status = "PARTIALLY_FILLED" => x.filled \in 1..(x.qty - 1)
  /\ Charged(x)

\* The order with a status and a completion flag of its own.
Ended(order, status, completed) == [order EXCEPT !.status = status, !.completed = completed]

LEMMA EndedOrder ==
  ASSUME NEW order \in Order,
         NEW status, status \in {"OPEN", "PARTIALLY_FILLED", "FILLED", "CANCELLED", "REJECTED"},
         NEW completed, completed \in BOOLEAN,
         NEW x, x = Ended(order, status, completed)
  PROVE  /\ x \in Order
         /\ x.status = status /\ (x.completed <=> completed)
         /\ x.filled = order.filled /\ x.qty = order.qty
         /\ Charged(order) => Charged(x)
         /\ SameAccount(x, order)
<1>1. x = [portfolio |-> order.portfolio, security |-> order.security,
           strategy |-> order.strategy, side |-> order.side, type |-> order.type,
           qty |-> order.qty, limit |-> order.limit, close |-> order.close,
           status |-> status, filled |-> order.filled, completed |-> completed,
           charged |-> order.charged, traded |-> order.traded, booked |-> order.booked]
  BY DEF Ended, Order
<1>2. /\ order.portfolio \in Portfolio /\ order.security \in Security
      /\ order.strategy \in Strategy /\ order.side \in Sides
      /\ order.type \in {"MARKET", "LIMIT"} /\ order.qty \in Nat \ {0}
      /\ order.limit \in Nat /\ order.close \in BOOLEAN /\ order.filled \in Nat
      /\ order.charged \in Nat /\ order.traded \in Int /\ order.booked \in Nat
  BY DEF Order
<1>3. status \in {"PENDING", "OPEN", "PARTIALLY_FILLED", "FILLED", "CANCELLED", "REJECTED"}
  OBVIOUS
<1>4. x \in Order
  BY <1>1, <1>3 DEF Order
<1>5. SameAccount(x, order)
  BY <1>1 DEF SameAccount, SameOrder
<1> QED
  BY <1>1, <1>4, <1>5 DEF Charged

LEMMA FinaliseSound ==
  ASSUME NEW order \in Order, Charged(order), order.filled \in 1..order.qty,
         NEW seen, seen.status \in {"PENDING", "OPEN", "PARTIALLY_FILLED"},
         order.status \in {seen.status, "CANCELLED"},
         NEW terminal, terminal \in BOOLEAN,
         NEW x, x = Finalise(order, seen, terminal)
  PROVE  /\ x \in Order /\ SoundOrder(x)
         /\ x.filled = order.filled /\ x.qty = order.qty
         /\ SameAccount(x, order)
<1>1. order.filled \in Nat /\ order.qty \in Nat /\ order.completed \in BOOLEAN
  BY DEF Order
<1> DEFINE complete  == order.filled >= order.qty
           completed == order.completed \/ complete \/ terminal
<1>2. PICK new : new = IF complete THEN "FILLED" ELSE "PARTIALLY_FILLED"
  OBVIOUS
<1>3. PICK status : status = SetStatus(order, seen, new)
  OBVIOUS
<1>4. PICK ended : ended = completed
  OBVIOUS
<1>5. ended \in BOOLEAN
  BY <1>4, Zenon
<1>6. \/ status = "FILLED" /\ complete
      \/ status = "PARTIALLY_FILLED" /\ ~complete
      \/ status = "CANCELLED"
  BY <1>2, <1>3, Zenon DEF SetStatus, Column
<1>8. x = Ended(order, status, ended)
  BY <1>2, <1>3, <1>4, Zenon DEF Finalise, Ended
<1>9. status \in {"OPEN", "PARTIALLY_FILLED", "FILLED", "CANCELLED", "REJECTED"}
  BY <1>6
<1>10. /\ x \in Order
       /\ x.status = status
       /\ x.filled = order.filled /\ x.qty = order.qty
       /\ Charged(x) /\ SameAccount(x, order)
  BY <1>5, <1>8, <1>9, EndedOrder
<1>11. SoundOrder(x)
  BY <1>1, <1>6, <1>10 DEF SoundOrder
<1> QED
  BY <1>10, <1>11

LEMMA RetireSound ==
  ASSUME NEW order \in Order, Charged(order), order.filled <= order.qty,
         NEW seen, NEW status, status \in {"CANCELLED", "REJECTED"}, seen.status # status,
         NEW x, x = Retire(order, seen, status)
  PROVE  /\ x \in Order /\ SoundOrder(x) /\ x.status = status
         /\ x.filled = order.filled /\ x.qty = order.qty
         /\ SameAccount(x, order)
<1>1. SetStatus(order, seen, status) = status
  BY DEF SetStatus, Column
<1>2. PICK completed : completed = TRUE
  OBVIOUS
<1>3. x = Ended(order, status, completed)
  BY <1>1, <1>2, Zenon DEF Retire, Ended
<1>4. status \in {"OPEN", "PARTIALLY_FILLED", "FILLED", "CANCELLED", "REJECTED"}
  OBVIOUS
<1>5. completed \in BOOLEAN
  BY <1>2
<1>6. /\ x \in Order /\ x.status = status
      /\ x.filled = order.filled /\ x.qty = order.qty
      /\ Charged(x) /\ SameAccount(x, order)
  BY <1>3, <1>4, <1>5, EndedOrder
<1>7. SoundOrder(x)
  BY <1>6 DEF SoundOrder
<1> QED
  BY <1>6, <1>7

-----------------------------------------------------------------------------
(* The database.                                                           *)

WithOrder(d, o, x) == [d EXCEPT !.orders[o] = x]

LEMMA WithOrderFields ==
  ASSUME NEW d \in Database, NEW o, o \in DOMAIN d.orders, NEW x \in Order,
         NEW e, e = WithOrder(d, o, x)
  PROVE  /\ e \in Database /\ e.rows = d.rows /\ e.cash = d.cash
         /\ e.orders = [d.orders EXCEPT ![o] = x]
         /\ DOMAIN e.orders = DOMAIN d.orders
         /\ \A k \in DOMAIN d.orders : e.orders[k] = IF k = o THEN x ELSE d.orders[k]
<1>1. /\ d.orders \in Seq(Order) /\ d.rows \in Seq(Row) /\ d.cash \in [Portfolio -> Int]
      /\ d = [orders |-> d.orders, rows |-> d.rows, cash |-> d.cash]
  BY DEF Database
<1>2. e = [orders |-> [d.orders EXCEPT ![o] = x], rows |-> d.rows, cash |-> d.cash]
  BY <1>1 DEF WithOrder
<1>3. [d.orders EXCEPT ![o] = x] \in Seq(Order)
  BY <1>1, ExceptSeq
<1>4. e \in Database
  BY <1>1, <1>2, <1>3 DEF Database
<1> QED
  BY <1>1, <1>2, <1>4

\* The order `o' of `d' is a sound `x' in `e'.
Becomes(d, o, e, x) ==
  /\ e.orders = [d.orders EXCEPT ![o] = x]
  /\ SoundOrder(x)
  /\ x.filled >= d.orders[o].filled
  /\ x.qty = d.orders[o].qty

LEMMA ExecuteSound ==
  ASSUME NEW d \in Database, GoodRows(d.rows),
         NEW held, HeldFrom(held, d.rows),
         NEW o, o \in DOMAIN d.orders, Charged(d.orders[o]),
         NEW seen, seen.filled = d.orders[o].filled,
         seen.status \in {"PENDING", "OPEN", "PARTIALLY_FILLED"},
         d.orders[o].status \in {seen.status, "CANCELLED"},
         NEW fill, FillWithin(fill, d.orders[o].qty - d.orders[o].filled),
         NEW terminal, terminal \in BOOLEAN,
         NEW e, e = Execute(d, held, o, seen, fill, terminal)
  PROVE  /\ e \in Database /\ GoodRows(e.rows) /\ RowsStand(d.rows, e.rows)
         /\ \E x \in Order : Becomes(d, o, e, x) /\ Executes(d, held, o, e, x)
<1>1. PICK mid : mid = ApplyFills(d, held, o, seen, fill)
  OBVIOUS
<1>2. /\ mid \in Database /\ GoodRows(mid.rows) /\ RowsStand(d.rows, mid.rows)
      /\ \E x \in Order : Takes(d, o, fill, mid, x) /\ Executes(d, held, o, mid, x)
  BY <1>1, ApplyFillsSound
<1>3. PICK x \in Order :
        /\ mid.orders = [d.orders EXCEPT ![o] = x]
        /\ x.filled = d.orders[o].filled + fill.qty
        /\ x.qty = d.orders[o].qty /\ x.status = d.orders[o].status
        /\ Charged(x) /\ Executes(d, held, o, mid, x)
  BY <1>2 DEF Takes
<1>4. d.orders \in Seq(Order) /\ d.orders[o] \in Order
  BY DEF Database
<1>5. d.orders[o].filled \in Nat /\ d.orders[o].qty \in Nat
  BY <1>4 DEF Order
<1>6. x.filled \in 1..x.qty /\ x.filled >= d.orders[o].filled
  BY <1>3, <1>5 DEF FillWithin
<1>7. mid.orders[o] = x /\ o \in DOMAIN mid.orders
  BY <1>3
<1>8. PICK y : y = Finalise(x, seen, terminal)
  OBVIOUS
<1>9. x.status \in {seen.status, "CANCELLED"}
  BY <1>3
<1>10. /\ y \in Order /\ SoundOrder(y)
       /\ y.filled = x.filled /\ y.qty = x.qty
       /\ SameAccount(y, x)
  BY <1>3, <1>6, <1>8, <1>9, FinaliseSound
<1>11. e = WithOrder(mid, o, y)
  BY <1>1, <1>7, <1>8, Zenon DEF Execute, WithOrder
<1>12. /\ e \in Database /\ e.rows = mid.rows /\ e.cash = mid.cash
       /\ e.orders = [mid.orders EXCEPT ![o] = y]
  <2>1. mid \in Database /\ o \in DOMAIN mid.orders /\ y \in Order
    BY <1>2, <1>7, <1>10
  <2> QED
    BY <2>1, <1>11, WithOrderFields
<1>13. [mid.orders EXCEPT ![o] = y] = [d.orders EXCEPT ![o] = y]
  BY <1>3, <1>4
<1>14. GoodRows(e.rows) /\ RowsStand(d.rows, e.rows)
  BY <1>2, <1>12
<1>15. /\ e.orders = [d.orders EXCEPT ![o] = y] /\ y.filled >= d.orders[o].filled
       /\ y.qty = d.orders[o].qty
  BY <1>3, <1>6, <1>10, <1>12, <1>13
<1>16. Becomes(d, o, e, y)
  BY <1>10, <1>15 DEF Becomes
<1>17. Executes(d, held, o, e, y)
  <2>1. Executes(d, held, o, mid, x)
    BY <1>3
  <2>2. PICK f \in FillIn(Portfolio, Security, Strategy) :
          /\ SameOrder(f, x)
          /\ mid.rows = ApplyFill(d.rows, held, f)
          /\ x.filled = d.orders[o].filled + f.qty
          /\ x.traded = d.orders[o].traded + Flow(f.side, Worth(f.price, f.qty))
          /\ x.booked = d.orders[o].booked + f.charges
          /\ mid.cash = [d.cash EXCEPT ![f.portfolio] =
                           @ + Flow(f.side, Worth(f.price, f.qty)) - f.charges]
    BY <2>1, Zenon DEF Executes
  <2>3. SameOrder(x, d.orders[o])
    BY <2>1, Zenon DEF Executes
  <2>4. /\ SameOrder(y, x) /\ y.filled = x.filled
        /\ y.traded = x.traded /\ y.booked = x.booked
    BY <1>10 DEF SameAccount
  <2>5. SameOrder(y, d.orders[o]) /\ SameOrder(f, y)
    BY <2>2, <2>3, <2>4 DEF SameOrder
  <2>6. /\ e.rows = ApplyFill(d.rows, held, f)
        /\ e.cash = [d.cash EXCEPT ![f.portfolio] =
                       @ + Flow(f.side, Worth(f.price, f.qty)) - f.charges]
    BY <1>12, <2>2, Zenon
  <2>7. /\ y.filled = d.orders[o].filled + f.qty
        /\ y.traded = d.orders[o].traded + Flow(f.side, Worth(f.price, f.qty))
        /\ y.booked = d.orders[o].booked + f.charges
    BY <2>2, <2>4, Zenon
  <2> QED
    BY <1>15, <2>5, <2>6, <2>7, Zenon DEF Executes
<1> QED
  BY <1>10, <1>12, <1>14, <1>16, <1>17

LEMMA WithSoundOrder ==
  ASSUME NEW d \in Database, NEW o, o \in DOMAIN d.orders, NEW x \in Order,
         SoundOrder(x), x.filled >= d.orders[o].filled, x.qty = d.orders[o].qty,
         NEW e, e = WithOrder(d, o, x)
  PROVE  e \in Database /\ e.rows = d.rows /\ e.cash = d.cash /\ Becomes(d, o, e, x)
BY WithOrderFields DEF Becomes

-----------------------------------------------------------------------------
(* What the invariants say of a database, and what a step keeps of it.     *)

SoundDb(d) ==
  /\ d \in Database
  /\ GoodRows(d.rows)
  /\ \A o \in DOMAIN d.orders : SoundOrder(d.orders[o])

Stands(d, e) ==
  /\ RowsStand(d.rows, e.rows)
  /\ \A o \in DOMAIN d.orders :
       o \in DOMAIN e.orders /\ e.orders[o].filled >= d.orders[o].filled

LEMMA StandsItself ==
  ASSUME NEW d \in Database
  PROVE  Stands(d, d)
<1>1. \A o \in DOMAIN d.orders : d.orders[o].filled \in Nat
  <2>1. d.orders \in Seq(Order)
    BY DEF Database
  <2>2. \A o \in DOMAIN d.orders : d.orders[o] \in Order
    BY <2>1
  <2> QED
    BY <2>2 DEF Order
<1>2. RowsStand(d.rows, d.rows)
  BY DEF RowsStand, RowKept
<1> QED
  BY <1>1, <1>2 DEF Stands

LEMMA StandsThrough ==
  ASSUME NEW d \in Database, NEW e \in Database, NEW f \in Database, Stands(d, e), Stands(e, f)
  PROVE  Stands(d, f)
<1>1. RowsStand(d.rows, f.rows)
  <2> SUFFICES ASSUME NEW i \in DOMAIN d.rows
               PROVE  /\ i \in DOMAIN f.rows
                      /\ RowKept(f.rows[i], d.rows[i])
                      /\ ~d.rows[i].open => f.rows[i] = d.rows[i]
    BY DEF RowsStand
  <2>1. /\ i \in DOMAIN e.rows /\ RowKept(e.rows[i], d.rows[i])
        /\ ~d.rows[i].open => e.rows[i] = d.rows[i]
    BY DEF Stands, RowsStand
  <2>2. /\ i \in DOMAIN f.rows /\ RowKept(f.rows[i], e.rows[i])
        /\ ~e.rows[i].open => f.rows[i] = e.rows[i]
    BY <2>1 DEF Stands, RowsStand
  <2> QED
    BY <2>1, <2>2 DEF RowKept
<1>2. ASSUME NEW o \in DOMAIN d.orders
      PROVE  o \in DOMAIN f.orders /\ f.orders[o].filled >= d.orders[o].filled
  <2>1. /\ o \in DOMAIN e.orders /\ e.orders[o].filled >= d.orders[o].filled
        /\ o \in DOMAIN f.orders /\ f.orders[o].filled >= e.orders[o].filled
    BY DEF Stands
  <2>2. d.orders \in Seq(Order) /\ e.orders \in Seq(Order) /\ f.orders \in Seq(Order)
    BY DEF Database
  <2>3. d.orders[o] \in Order /\ e.orders[o] \in Order /\ f.orders[o] \in Order
    BY <2>1, <2>2
  <2>4. d.orders[o].filled \in Nat /\ e.orders[o].filled \in Nat /\ f.orders[o].filled \in Nat
    BY <2>3 DEF Order
  <2> QED
    BY <2>1, <2>4
<1> QED
  BY <1>1, <1>2 DEF Stands

(* One order replaced by a sound one, beside sound rows that stand.        *)
LEMMA OrderReplaced ==
  ASSUME NEW d, SoundDb(d), NEW o, o \in DOMAIN d.orders,
         NEW e \in Database, NEW x \in Order, Becomes(d, o, e, x),
         GoodRows(e.rows), RowsStand(d.rows, e.rows)
  PROVE  SoundDb(e) /\ Stands(d, e)
<1>1. /\ DOMAIN e.orders = DOMAIN d.orders
      /\ \A k \in DOMAIN d.orders : e.orders[k] = IF k = o THEN x ELSE d.orders[k]
  <2>1. d.orders \in Seq(Order) /\ e.orders = [d.orders EXCEPT ![o] = x]
    BY DEF SoundDb, Database, Becomes
  <2> QED
    BY <2>1
<1>2. \A k \in DOMAIN e.orders : SoundOrder(e.orders[k])
  BY <1>1 DEF SoundDb, Becomes
<1>3. \A k \in DOMAIN d.orders : d.orders[k].filled >= d.orders[k].filled
  BY StandsItself DEF SoundDb, Stands
<1>4. \A k \in DOMAIN d.orders :
        k \in DOMAIN e.orders /\ e.orders[k].filled >= d.orders[k].filled
  BY <1>1, <1>3 DEF Becomes
<1> QED
  BY <1>2, <1>4 DEF SoundDb, Stands

-----------------------------------------------------------------------------
(* The sums over the orders of a position.                                 *)

LEMMA OrderNumbers ==
  ASSUME NEW x \in Order
  PROVE  x.traded \in Int /\ x.booked \in Int /\ Signed(x.side, x.filled) \in Int
BY DEF Order, Signed

LEMMA OrdersOfFinite ==
  ASSUME NEW d, d.orders \in Seq(Order), NEW p, NEW c
  PROVE  /\ IsFiniteSet(OrdersOf(d, p, c))
         /\ \A k \in OrdersOf(d, p, c) : k \in DOMAIN d.orders /\ d.orders[k] \in Order
<1>1. DOMAIN d.orders = 1..Len(d.orders) /\ Len(d.orders) \in Int
  OBVIOUS
<1>2. IsFiniteSet(1..Len(d.orders)) /\ OrdersOf(d, p, c) \subseteq 1..Len(d.orders)
  BY <1>1, FS_Interval DEF OrdersOf
<1>3. IsFiniteSet(OrdersOf(d, p, c))
  BY <1>2, FS_Subset
<1> QED
  BY <1>3 DEF OrdersOf

\* What the three sums add.
ExecutedBy(d, p, c) ==
  [o \in OrdersOf(d, p, c) |-> Signed(d.orders[o].side, d.orders[o].filled)]
TradedBy(d, p, c) == [o \in OrdersOf(d, p, c) |-> d.orders[o].traded]
BookedBy(d, p, c) == [o \in OrdersOf(d, p, c) |-> d.orders[o].booked]

LEMMA OrderSumsTyped ==
  ASSUME NEW d, d.orders \in Seq(Order), NEW p, NEW c
  PROVE  /\ ExecutedBy(d, p, c) \in [OrdersOf(d, p, c) -> Int]
         /\ TradedBy(d, p, c) \in [OrdersOf(d, p, c) -> Int]
         /\ BookedBy(d, p, c) \in [OrdersOf(d, p, c) -> Int]
         /\ Executed(d, p, c) = Sum(ExecutedBy(d, p, c)) /\ Executed(d, p, c) \in Int
         /\ OrdersMoney(d, p, c) = Sum(TradedBy(d, p, c)) /\ OrdersMoney(d, p, c) \in Int
         /\ OrdersCharges(d, p, c) = Sum(BookedBy(d, p, c)) /\ OrdersCharges(d, p, c) \in Int
<1>1. /\ IsFiniteSet(OrdersOf(d, p, c))
      /\ \A k \in OrdersOf(d, p, c) : d.orders[k] \in Order
  BY OrdersOfFinite
<1>2. /\ ExecutedBy(d, p, c) \in [OrdersOf(d, p, c) -> Int]
      /\ TradedBy(d, p, c) \in [OrdersOf(d, p, c) -> Int]
      /\ BookedBy(d, p, c) \in [OrdersOf(d, p, c) -> Int]
  BY <1>1, OrderNumbers DEF ExecutedBy, TradedBy, BookedBy
<1>3. /\ Executed(d, p, c) = Sum(ExecutedBy(d, p, c))
      /\ OrdersMoney(d, p, c) = Sum(TradedBy(d, p, c))
      /\ OrdersCharges(d, p, c) = Sum(BookedBy(d, p, c))
  BY DEF Executed, OrdersMoney, OrdersCharges, ExecutedBy, TradedBy, BookedBy
<1>4. /\ Sum(ExecutedBy(d, p, c)) \in Int /\ Sum(TradedBy(d, p, c)) \in Int
      /\ Sum(BookedBy(d, p, c)) \in Int
  BY <1>1, <1>2, SumIsInt
<1> QED
  BY <1>2, <1>3, <1>4

(* Replacing an order moves the sums of its position by what it moved.     *)
LEMMA OrderSumsMove ==
  ASSUME NEW d, d.orders \in Seq(Order), NEW o \in DOMAIN d.orders,
         NEW x \in Order, SameOrder(x, d.orders[o]),
         NEW e, e.orders = [d.orders EXCEPT ![o] = x],
         NEW p, NEW c, p = x.portfolio, c = x.security
  PROVE  /\ Executed(e, p, c) = Executed(d, p, c) + Signed(x.side, x.filled)
                                - Signed(x.side, d.orders[o].filled)
         /\ OrdersMoney(e, p, c) = OrdersMoney(d, p, c) + x.traded - d.orders[o].traded
         /\ OrdersCharges(e, p, c) = OrdersCharges(d, p, c) + x.booked - d.orders[o].booked
<1>1. /\ e.orders \in Seq(Order) /\ DOMAIN e.orders = DOMAIN d.orders
      /\ \A k \in DOMAIN d.orders : e.orders[k] = IF k = o THEN x ELSE d.orders[k]
  BY ExceptSeq
<1> DEFINE S  == OrdersOf(d, p, c)
           f  == ExecutedBy(d, p, c)
           f1 == ExecutedBy(e, p, c)
           g  == TradedBy(d, p, c)
           g1 == TradedBy(e, p, c)
           h  == BookedBy(d, p, c)
           h1 == BookedBy(e, p, c)
<1>2. OrdersOf(e, p, c) = S /\ o \in S
  BY <1>1 DEF OrdersOf, SameOrder
<1>3. IsFiniteSet(S)
  BY OrdersOfFinite
<1>4. \A k \in S \ {o} : e.orders[k] = d.orders[k]
  BY <1>1 DEF OrdersOf
<1>5. e.orders[o] = x
  BY <1>1
<1>6. /\ f \in [S -> Int] /\ g \in [S -> Int] /\ h \in [S -> Int]
      /\ f1 \in [S -> Int] /\ g1 \in [S -> Int] /\ h1 \in [S -> Int]
  <2>1. f \in [S -> Int] /\ g \in [S -> Int] /\ h \in [S -> Int]
    BY OrderSumsTyped
  <2>2. /\ f1 \in [OrdersOf(e, p, c) -> Int] /\ g1 \in [OrdersOf(e, p, c) -> Int]
        /\ h1 \in [OrdersOf(e, p, c) -> Int]
    BY <1>1, OrderSumsTyped
  <2> QED
    BY <1>2, <2>1, <2>2
<1>7. Agree(f, f1, S \ {o}) /\ Agree(g, g1, S \ {o})
  BY <1>2, <1>4 DEF Agree, ExecutedBy, TradedBy
<1>8. Agree(h, h1, S \ {o})
  BY <1>2, <1>4 DEF Agree, BookedBy
<1>9. /\ f[o] = Signed(x.side, d.orders[o].filled) /\ f1[o] = Signed(x.side, x.filled)
      /\ g[o] = d.orders[o].traded /\ g1[o] = x.traded
      /\ h[o] = d.orders[o].booked /\ h1[o] = x.booked
  BY <1>2, <1>5 DEF ExecutedBy, TradedBy, BookedBy, SameOrder
<1>10. /\ Executed(d, p, c) = Sum(f) /\ Executed(e, p, c) = Sum(f1)
       /\ OrdersMoney(d, p, c) = Sum(g) /\ OrdersMoney(e, p, c) = Sum(g1)
       /\ OrdersCharges(d, p, c) = Sum(h) /\ OrdersCharges(e, p, c) = Sum(h1)
  BY <1>1, OrderSumsTyped
<1> HIDE DEF S, f, f1, g, g1, h, h1
<1>11. o \in S
  BY <1>2
<1>12. Sum(f1) = Sum(f) + f1[o] - f[o]
  <2>1. f \in [S -> Int] /\ f1 \in [S -> Int] /\ Agree(f, f1, S \ {o})
    BY <1>6, <1>7
  <2> QED
    BY <1>3, <1>11, <2>1, SumMoves
<1>13. Sum(g1) = Sum(g) + g1[o] - g[o]
  <2>1. g \in [S -> Int] /\ g1 \in [S -> Int] /\ Agree(g, g1, S \ {o})
    BY <1>6, <1>7
  <2> QED
    BY <1>3, <1>11, <2>1, SumMoves
<1>14. Sum(h1) = Sum(h) + h1[o] - h[o]
  <2>1. h \in [S -> Int] /\ h1 \in [S -> Int] /\ Agree(h, h1, S \ {o})
    BY <1>6, <1>8
  <2> QED
    BY <1>3, <1>11, <2>1, SumMoves
<1> QED
  BY <1>9, <1>10, <1>12, <1>13, <1>14

(* The sums of a position whose orders are the same.                       *)
OrdersStay(d, e, p, c) ==
  /\ OrdersOf(e, p, c) = OrdersOf(d, p, c)
  /\ \A k \in OrdersOf(d, p, c) : e.orders[k] = d.orders[k]

LEMMA OrderSumsStay ==
  ASSUME NEW d, NEW e, NEW p, NEW c, OrdersStay(d, e, p, c)
  PROVE  /\ Executed(e, p, c) = Executed(d, p, c)
         /\ OrdersMoney(e, p, c) = OrdersMoney(d, p, c)
         /\ OrdersCharges(e, p, c) = OrdersCharges(d, p, c)
<1>1. /\ ExecutedBy(e, p, c) = ExecutedBy(d, p, c)
      /\ TradedBy(e, p, c) = TradedBy(d, p, c)
      /\ BookedBy(e, p, c) = BookedBy(d, p, c)
  BY DEF OrdersStay, ExecutedBy, TradedBy, BookedBy
<1> QED
  BY <1>1 DEF Executed, OrdersMoney, OrdersCharges, ExecutedBy, TradedBy, BookedBy

LEMMA OtherOrderSums ==
  ASSUME NEW d, d.orders \in Seq(Order), NEW o \in DOMAIN d.orders,
         NEW x \in Order, SameOrder(x, d.orders[o]),
         NEW e, e.orders = [d.orders EXCEPT ![o] = x],
         NEW p, NEW c, p # x.portfolio \/ c # x.security
  PROVE  /\ Executed(e, p, c) = Executed(d, p, c)
         /\ OrdersMoney(e, p, c) = OrdersMoney(d, p, c)
         /\ OrdersCharges(e, p, c) = OrdersCharges(d, p, c)
<1>1. /\ DOMAIN e.orders = DOMAIN d.orders
      /\ \A k \in DOMAIN d.orders : e.orders[k] = IF k = o THEN x ELSE d.orders[k]
  BY ExceptSeq
<1>2. OrdersOf(e, p, c) = OrdersOf(d, p, c)
  BY <1>1 DEF OrdersOf, SameOrder
<1>3. \A k \in OrdersOf(d, p, c) : e.orders[k] = d.orders[k]
  BY <1>1 DEF OrdersOf, SameOrder
<1>4. OrdersStay(d, e, p, c)
  BY <1>2, <1>3 DEF OrdersStay
<1> QED
  BY <1>4, OrderSumsStay

(* An order that has executed nothing adds nothing.                        *)
LEMMA OrderSumsGrow ==
  ASSUME NEW d, d.orders \in Seq(Order), NEW x \in Order,
         x.filled = 0, x.traded = 0, x.booked = 0,
         NEW e, e.orders = Append(d.orders, x), NEW p, NEW c
  PROVE  /\ Executed(e, p, c) = Executed(d, p, c)
         /\ OrdersMoney(e, p, c) = OrdersMoney(d, p, c)
         /\ OrdersCharges(e, p, c) = OrdersCharges(d, p, c)
<1>1. PICK o : o = Len(d.orders) + 1
  OBVIOUS
<1>2. /\ e.orders \in Seq(Order) /\ Len(e.orders) = o /\ e.orders[o] = x
      /\ \A k \in 1..Len(d.orders) : e.orders[k] = d.orders[k]
  BY <1>1, AppendProperties
<1>3. /\ DOMAIN d.orders = 1..Len(d.orders) /\ DOMAIN e.orders = DOMAIN d.orders \cup {o}
      /\ o \notin DOMAIN d.orders
  <2>1. /\ Len(d.orders) \in Nat /\ DOMAIN d.orders = 1..Len(d.orders)
        /\ DOMAIN e.orders = 1..(Len(d.orders) + 1)
    BY <1>1, <1>2
  <2> QED
    BY <1>1, <2>1
<1>4. CASE ~ (x.portfolio = p /\ x.security = c)
  <2>1. OrdersOf(e, p, c) = OrdersOf(d, p, c)
    BY <1>2, <1>3, <1>4 DEF OrdersOf
  <2>2. \A k \in OrdersOf(d, p, c) : e.orders[k] = d.orders[k]
    BY <1>2, <1>3 DEF OrdersOf
  <2>3. OrdersStay(d, e, p, c)
    BY <2>1, <2>2 DEF OrdersStay
  <2> QED
    BY <2>3, OrderSumsStay
<1>5. CASE x.portfolio = p /\ x.security = c
  <2> DEFINE S  == OrdersOf(d, p, c)
             T  == OrdersOf(e, p, c)
             f  == ExecutedBy(d, p, c)
             f1 == ExecutedBy(e, p, c)
             g  == TradedBy(d, p, c)
             g1 == TradedBy(e, p, c)
             h  == BookedBy(d, p, c)
             h1 == BookedBy(e, p, c)
  <2>1. Joins(o, S, T)
    BY <1>2, <1>3, <1>5 DEF OrdersOf, Joins
  <2>2. \A k \in S : e.orders[k] = d.orders[k] /\ k \in T
    BY <1>2, <1>3 DEF OrdersOf
  <2>3. IsFiniteSet(S)
    BY OrdersOfFinite
  <2>4. o \in T
    BY <2>1 DEF Joins
  <2>5. /\ f \in [S -> Int] /\ g \in [S -> Int] /\ h \in [S -> Int]
        /\ f1 \in [T -> Int] /\ g1 \in [T -> Int] /\ h1 \in [T -> Int]
    <3>1. f \in [S -> Int] /\ g \in [S -> Int] /\ h \in [S -> Int]
      BY OrderSumsTyped
    <3>2. f1 \in [T -> Int] /\ g1 \in [T -> Int] /\ h1 \in [T -> Int]
      BY <1>2, OrderSumsTyped
    <3> QED
      BY <3>1, <3>2
  <2>6. Agree(f, f1, S) /\ Agree(g, g1, S)
    BY <2>2 DEF Agree, ExecutedBy, TradedBy
  <2>7. Agree(h, h1, S)
    BY <2>2 DEF Agree, BookedBy
  <2>8. f1[o] = 0 /\ g1[o] = 0 /\ h1[o] = 0
    BY <1>2, <2>4 DEF ExecutedBy, TradedBy, BookedBy, Signed
  <2>9. /\ Executed(d, p, c) = Sum(f) /\ Executed(e, p, c) = Sum(f1) /\ Sum(f) \in Int
        /\ OrdersMoney(d, p, c) = Sum(g) /\ OrdersMoney(e, p, c) = Sum(g1) /\ Sum(g) \in Int
        /\ OrdersCharges(d, p, c) = Sum(h) /\ OrdersCharges(e, p, c) = Sum(h1) /\ Sum(h) \in Int
    BY <1>2, OrderSumsTyped
  <2> HIDE DEF S, T, f, f1, g, g1, h, h1
  <2>10. Sum(f1) = Sum(f) + f1[o]
    <3>1. f \in [S -> Int] /\ f1 \in [T -> Int] /\ Agree(f, f1, S)
      BY <2>5, <2>6
    <3> QED
      BY <2>1, <2>3, <3>1, SumGrows
  <2>11. Sum(g1) = Sum(g) + g1[o]
    <3>1. g \in [S -> Int] /\ g1 \in [T -> Int] /\ Agree(g, g1, S)
      BY <2>5, <2>6
    <3> QED
      BY <2>1, <2>3, <3>1, SumGrows
  <2>12. Sum(h1) = Sum(h) + h1[o]
    <3>1. h \in [S -> Int] /\ h1 \in [T -> Int] /\ Agree(h, h1, S)
      BY <2>5, <2>7
    <3> QED
      BY <2>1, <2>3, <3>1, SumGrows
  <2> QED
    BY <2>8, <2>9, <2>10, <2>11, <2>12
<1> QED
  BY <1>4, <1>5

-----------------------------------------------------------------------------
(* Orders, rows and ledger agree on a position.                            *)

Balanced(d, p, c) ==
  /\ Held(d, p, c) = Executed(d, p, c)
  /\ MoneyAgrees(d, p, c)
  /\ RowsCharges(d, p, c) = OrdersCharges(d, p, c)

LEMMA BalancedAs ==
  ASSUME NEW d, d.orders \in Seq(Order), d.rows \in Seq(Row), NEW p, NEW c
  PROVE  Balanced(d, p, c) <=>
           /\ NetSum(d.rows, p, c) = Executed(d, p, c)
           /\ Abs(CashSum(d.rows, p, c) - OrdersMoney(d, p, c)) <= Spare(d.rows, p, c)
           /\ ChargeSum(d.rows, p, c) = OrdersCharges(d, p, c)
<1>1. RowsOf(d, p, c) = PairRows(d.rows, p, c)
  BY DEF RowsOf, PairRows
<1>2. /\ Held(d, p, c) = NetSum(d.rows, p, c)
      /\ RowsCharges(d, p, c) = ChargeSum(d.rows, p, c)
      /\ RowsMoney(d, p, c) = CashSum(d.rows, p, c)
  BY <1>1 DEF Held, RowsCharges, RowsMoney, NetSum, ChargeSum, CashSum, Cash
<1>3. d.rows \in Seq(RowIn(Portfolio, Security, Strategy))
  BY DEF Row
<1>4. PICK m \in Int : m = OrdersMoney(d, p, c)
  BY OrderSumsTyped
<1>5. PICK n \in Int : n = CashSum(d.rows, p, c)
  BY <1>3, SumsTyped
<1>6. CASE PairRows(d.rows, p, c) = {}
  <2>1. n = 0
    BY <1>3, <1>5, <1>6, SumsTyped
  <2>2. Spare(d.rows, p, c) = 0
    BY <1>6 DEF Spare
  <2>3. MoneyAgrees(d, p, c) <=> m = 0
    BY <1>1, <1>4, <1>6 DEF MoneyAgrees
  <2>4. Abs(n - m) <= 0 <=> m = 0
    BY <2>1 DEF Abs
  <2> QED
    BY <1>2, <1>4, <1>5, <2>2, <2>3, <2>4 DEF Balanced
<1>7. CASE PairRows(d.rows, p, c) # {}
  <2>1. Spare(d.rows, p, c) = Cardinality(PairRows(d.rows, p, c)) - 1
    BY <1>7 DEF Spare
  <2>2. MoneyAgrees(d, p, c) <=> Abs(n - m) <= Spare(d.rows, p, c)
    BY <1>1, <1>2, <1>4, <1>5, <1>7, <2>1 DEF MoneyAgrees
  <2> QED
    BY <1>2, <1>4, <1>5, <2>2 DEF Balanced
<1> QED
  BY <1>6, <1>7

\* Whatever was balanced is, the positions in `stale' aside.
KeepsBalance(d, stale, e) ==
  \A p \in Portfolio, c \in Security :
    <<p, c>> \notin stale /\ Balanced(d, p, c) => Balanced(e, p, c)

\* The open rows a session holds are as it read them.
Fresh(held, table) == \A i \in DOMAIN held : table[i].open => held[i] = table[i]

\* The orders of every position still add up to what they did.
SumsStay(d, e) ==
  \A p \in Portfolio, c \in Security :
    /\ Executed(e, p, c) = Executed(d, p, c)
    /\ OrdersMoney(e, p, c) = OrdersMoney(d, p, c)
    /\ OrdersCharges(e, p, c) = OrdersCharges(d, p, c)

LEMMA SumsStayKeeps ==
  ASSUME NEW d \in Database, NEW e \in Database, SumsStay(d, e), e.rows = d.rows, NEW stale
  PROVE  KeepsBalance(d, stale, e)
<1>1. /\ d.orders \in Seq(Order) /\ d.rows \in Seq(Row)
      /\ e.orders \in Seq(Order) /\ e.rows \in Seq(Row)
  BY DEF Database
<1> SUFFICES ASSUME NEW p \in Portfolio, NEW c \in Security, Balanced(d, p, c)
             PROVE  Balanced(e, p, c)
  BY DEF KeepsBalance
<1>2. /\ Executed(e, p, c) = Executed(d, p, c)
      /\ OrdersMoney(e, p, c) = OrdersMoney(d, p, c)
      /\ OrdersCharges(e, p, c) = OrdersCharges(d, p, c)
  BY DEF SumsStay
<1>3. /\ NetSum(d.rows, p, c) = Executed(d, p, c)
      /\ Abs(CashSum(d.rows, p, c) - OrdersMoney(d, p, c)) <= Spare(d.rows, p, c)
      /\ ChargeSum(d.rows, p, c) = OrdersCharges(d, p, c)
  BY <1>1, BalancedAs
<1>4. /\ NetSum(e.rows, p, c) = Executed(e, p, c)
      /\ Abs(CashSum(e.rows, p, c) - OrdersMoney(e, p, c)) <= Spare(e.rows, p, c)
      /\ ChargeSum(e.rows, p, c) = OrdersCharges(e, p, c)
  BY <1>2, <1>3
<1> QED
  BY <1>1, <1>4, BalancedAs

(* An order that ends, or only changes its status.                         *)
LEMMA AccountKeeps ==
  ASSUME NEW d \in Database, NEW o \in DOMAIN d.orders, NEW x \in Order,
         SameAccount(x, d.orders[o]),
         NEW e \in Database, e.orders = [d.orders EXCEPT ![o] = x], e.rows = d.rows,
         NEW stale
  PROVE  KeepsBalance(d, stale, e)
<1>1. d.orders \in Seq(Order) /\ SameOrder(x, d.orders[o])
  BY DEF Database, SameAccount
<1>2. SumsStay(d, e)
  <2> SUFFICES ASSUME NEW p \in Portfolio, NEW c \in Security
               PROVE  /\ Executed(e, p, c) = Executed(d, p, c)
                      /\ OrdersMoney(e, p, c) = OrdersMoney(d, p, c)
                      /\ OrdersCharges(e, p, c) = OrdersCharges(d, p, c)
    BY DEF SumsStay
  <2>1. CASE p # x.portfolio \/ c # x.security
    BY <1>1, <2>1, OtherOrderSums
  <2>2. CASE p = x.portfolio /\ c = x.security
    <3>1. /\ Executed(e, p, c) = Executed(d, p, c) + Signed(x.side, x.filled)
                                 - Signed(x.side, d.orders[o].filled)
          /\ OrdersMoney(e, p, c) = OrdersMoney(d, p, c) + x.traded - d.orders[o].traded
          /\ OrdersCharges(e, p, c) = OrdersCharges(d, p, c) + x.booked - d.orders[o].booked
      BY <1>1, <2>2, OrderSumsMove
    <3>2. /\ x.filled = d.orders[o].filled /\ x.traded = d.orders[o].traded
          /\ x.booked = d.orders[o].booked
      BY DEF SameAccount
    <3>3. /\ Executed(d, p, c) \in Int /\ OrdersMoney(d, p, c) \in Int
          /\ OrdersCharges(d, p, c) \in Int
      BY <1>1, OrderSumsTyped
    <3>4. x.traded \in Int /\ x.booked \in Int /\ Signed(x.side, x.filled) \in Int
      BY OrderNumbers
    <3> QED
      BY <3>1, <3>2, <3>3, <3>4
  <2> QED
    BY <2>1, <2>2
<1> QED
  BY <1>2, SumsStayKeeps

(* One fill of one order, the open row read afresh or its position stale.  *)
LEMMA ExecutesKeeps ==
  ASSUME NEW d \in Database, OneOpenEach(d.rows),
         NEW held, HeldFrom(held, d.rows), NEW stale,
         NEW o \in DOMAIN d.orders, NEW x \in Order,
         Fresh(held, d.rows) \/ <<x.portfolio, x.security>> \in stale,
         NEW e \in Database, Executes(d, held, o, e, x)
  PROVE  KeepsBalance(d, stale, e)
<1>1. /\ d.orders \in Seq(Order) /\ d.rows \in Seq(Row)
      /\ e.orders \in Seq(Order) /\ e.rows \in Seq(Row)
  BY DEF Database
<1>2. PICK f \in FillIn(Portfolio, Security, Strategy) :
        /\ SameOrder(f, x)
        /\ e.rows = ApplyFill(d.rows, held, f)
        /\ x.filled = d.orders[o].filled + f.qty
        /\ x.traded = d.orders[o].traded + Flow(f.side, Worth(f.price, f.qty))
        /\ x.booked = d.orders[o].booked + f.charges
  BY DEF Executes
<1>3. e.orders = [d.orders EXCEPT ![o] = x] /\ SameOrder(x, d.orders[o])
  BY DEF Executes
<1>4. /\ d.rows \in Seq(RowIn(Portfolio, Security, Strategy))
      /\ HeldFits(Portfolio, Security, Strategy, d.rows, held, f)
  BY <1>1, HeldFromFits DEF Row
<1> SUFFICES ASSUME NEW p \in Portfolio, NEW c \in Security, Balanced(d, p, c),
                    <<p, c>> \notin stale
             PROVE  Balanced(e, p, c)
  BY DEF KeepsBalance
<1>5. /\ NetSum(d.rows, p, c) = Executed(d, p, c)
      /\ Abs(CashSum(d.rows, p, c) - OrdersMoney(d, p, c)) <= Spare(d.rows, p, c)
      /\ ChargeSum(d.rows, p, c) = OrdersCharges(d, p, c)
  BY <1>1, BalancedAs
\* Another position.
<1>6. CASE p # x.portfolio \/ c # x.security
  <2>1. /\ Executed(e, p, c) = Executed(d, p, c)
        /\ OrdersMoney(e, p, c) = OrdersMoney(d, p, c)
        /\ OrdersCharges(e, p, c) = OrdersCharges(d, p, c)
    <3>1. d.orders \in Seq(Order)
      BY <1>1
    <3> QED
      BY <1>3, <1>6, <3>1, OtherOrderSums
  <2>2. p # f.portfolio \/ c # f.security
    BY <1>2, <1>6 DEF SameOrder
  <2>3. /\ PairRows(e.rows, p, c) = PairRows(d.rows, p, c)
        /\ NetSum(e.rows, p, c) = NetSum(d.rows, p, c)
        /\ ChargeSum(e.rows, p, c) = ChargeSum(d.rows, p, c)
        /\ CashSum(e.rows, p, c) = CashSum(d.rows, p, c)
    BY <1>2, <1>4, <2>2, ApplyFillLeavesOthers
  <2>4. Spare(e.rows, p, c) = Spare(d.rows, p, c)
    BY <2>3 DEF Spare
  <2>5. /\ NetSum(e.rows, p, c) = Executed(e, p, c)
        /\ Abs(CashSum(e.rows, p, c) - OrdersMoney(e, p, c)) <= Spare(e.rows, p, c)
        /\ ChargeSum(e.rows, p, c) = OrdersCharges(e, p, c)
    BY <1>5, <2>1, <2>3, <2>4
  <2> QED
    BY <1>1, <2>5, BalancedAs
\* The position of the order.
<1>7. CASE p = x.portfolio /\ c = x.security
  <2>1. /\ Executed(e, p, c) = Executed(d, p, c) + Signed(x.side, x.filled)
                               - Signed(x.side, d.orders[o].filled)
        /\ OrdersMoney(e, p, c) = OrdersMoney(d, p, c) + x.traded - d.orders[o].traded
        /\ OrdersCharges(e, p, c) = OrdersCharges(d, p, c) + x.booked - d.orders[o].booked
    BY <1>1, <1>3, <1>7, OrderSumsMove
  <2>2. Fresh(held, d.rows)
    BY <1>7
  <2>3. \A i \in OpenIds(d.rows, f.portfolio, f.security) :
          Loaded(d.rows, held, i) = d.rows[i]
    BY <2>2 DEF Fresh, Loaded, OpenIds, IsOpenFor
  <2>4. Adds(d.rows, e.rows, f)
    BY <1>2, <1>4, <2>3, ApplyFillAdds
  <2>5. f.portfolio = p /\ f.security = c /\ f.side = x.side
    BY <1>2, <1>7 DEF SameOrder
  <2>6. /\ NetSum(e.rows, p, c) = NetSum(d.rows, p, c) + Signed(f.side, f.qty)
        /\ ChargeSum(e.rows, p, c) = ChargeSum(d.rows, p, c) + f.charges
        /\ Abs(CashSum(e.rows, p, c) - CashSum(d.rows, p, c)
               - Flow(f.side, Worth(f.price, f.qty)))
             <= Spare(e.rows, p, c) - Spare(d.rows, p, c)
    BY <2>4, <2>5 DEF Adds
  <2>7. d.orders[o] \in Order
    BY <1>1
  <2>8. /\ x.filled \in Nat /\ d.orders[o].filled \in Nat /\ f.qty \in Nat
        /\ d.orders[o].traded \in Int /\ d.orders[o].booked \in Int /\ f.charges \in Int
        /\ f.price \in Nat
    BY <2>7 DEF Order, FillIn
  <2>9. Signed(x.side, x.filled) - Signed(x.side, d.orders[o].filled) = Signed(f.side, f.qty)
    BY <1>2, <2>5, <2>8 DEF Signed
  <2>10. PICK v \in Int : v = Flow(f.side, Worth(f.price, f.qty))
    BY <2>8, FlowIsInt
  <2>11. /\ Executed(d, p, c) \in Int /\ OrdersMoney(d, p, c) \in Int
         /\ OrdersCharges(d, p, c) \in Int /\ Spare(d.rows, p, c) \in Nat
         /\ Spare(e.rows, p, c) \in Nat
    BY <1>1, OrderSumsTyped, SpareOf
  <2>12. CashSum(d.rows, p, c) \in Int /\ CashSum(e.rows, p, c) \in Int
    BY <1>1, <1>4, SumsTyped DEF Row
  <2>13. Signed(x.side, x.filled) \in Int /\ Signed(x.side, d.orders[o].filled) \in Int
    BY <2>8 DEF Signed
  <2>14. NetSum(e.rows, p, c) = Executed(e, p, c)
    BY <1>5, <2>1, <2>6, <2>9, <2>11, <2>13
  <2>15. ChargeSum(e.rows, p, c) = OrdersCharges(e, p, c)
    BY <1>2, <1>5, <2>1, <2>6, <2>8, <2>11
  <2>16. Abs(CashSum(e.rows, p, c) - OrdersMoney(e, p, c)) <= Spare(e.rows, p, c)
    <3>1. PICK a \in Int, b \in Int : a = CashSum(d.rows, p, c) /\ b = CashSum(e.rows, p, c)
      BY <2>12
    <3>2. PICK m \in Int, n \in Int : m = OrdersMoney(d, p, c) /\ n = OrdersMoney(e, p, c)
      BY <1>1, OrderSumsTyped
    <3>3. PICK s \in Nat, t \in Nat : s = Spare(d.rows, p, c) /\ t = Spare(e.rows, p, c)
      BY <2>11
    <3>4. n = m + v
      BY <1>2, <2>1, <2>8, <2>10, <3>2
    <3>5. Abs(a - m) <= s /\ Abs(b - a - v) <= t - s
      BY <1>5, <2>6, <2>10, <3>1, <3>2, <3>3
    <3>6. Abs(b - n) <= t
      BY <3>4, <3>5 DEF Abs
    <3> QED
      BY <3>1, <3>2, <3>3, <3>6
  <2> QED
    BY <1>1, <2>14, <2>15, <2>16, BalancedAs
<1> QED
  BY <1>6, <1>7

LEMMA KeepsBalanceThrough ==
  ASSUME NEW d, NEW e, NEW g, NEW stale,
         KeepsBalance(d, stale, e), KeepsBalance(e, stale, g)
  PROVE  KeepsBalance(d, stale, g)
BY DEF KeepsBalance

-----------------------------------------------------------------------------
(* Two portfolios are two books.                                           *)

PortfolioOrders(d, p) == {o \in DOMAIN d.orders : d.orders[o].portfolio = p}

SettledBy(d, p) ==
  [o \in PortfolioOrders(d, p) |-> d.orders[o].traded - d.orders[o].booked]

LEMMA SettledTyped ==
  ASSUME NEW d, d.orders \in Seq(Order), NEW p
  PROVE  /\ IsFiniteSet(PortfolioOrders(d, p))
         /\ SettledBy(d, p) \in [PortfolioOrders(d, p) -> Int]
         /\ Settled(d, p) = Sum(SettledBy(d, p)) /\ Settled(d, p) \in Int
<1>1. DOMAIN d.orders = 1..Len(d.orders) /\ Len(d.orders) \in Int
  OBVIOUS
<1>2. IsFiniteSet(1..Len(d.orders)) /\ PortfolioOrders(d, p) \subseteq 1..Len(d.orders)
  BY <1>1, FS_Interval DEF PortfolioOrders
<1>3. IsFiniteSet(PortfolioOrders(d, p))
  BY <1>2, FS_Subset
<1>4. SettledBy(d, p) \in [PortfolioOrders(d, p) -> Int]
  <2>1. \A o \in PortfolioOrders(d, p) : d.orders[o] \in Order
    BY DEF PortfolioOrders
  <2>2. \A o \in PortfolioOrders(d, p) : d.orders[o].traded - d.orders[o].booked \in Int
    BY <2>1, OrderNumbers
  <2> QED
    BY <2>2 DEF SettledBy
<1>5. Settled(d, p) = Sum(SettledBy(d, p))
  BY DEF Settled, SettledBy, PortfolioOrders
<1>6. Sum(SettledBy(d, p)) \in Int
  BY <1>3, <1>4, SumIsInt
<1> QED
  BY <1>3, <1>4, <1>5, <1>6

LEMMA SettledMoves ==
  ASSUME NEW d, d.orders \in Seq(Order), NEW o \in DOMAIN d.orders,
         NEW x \in Order, x.portfolio = d.orders[o].portfolio,
         NEW e, e.orders = [d.orders EXCEPT ![o] = x], NEW p
  PROVE  Settled(e, p) = IF p = x.portfolio
                         THEN Settled(d, p) + (x.traded - x.booked)
                              - (d.orders[o].traded - d.orders[o].booked)
                         ELSE Settled(d, p)
<1>1. /\ e.orders \in Seq(Order) /\ DOMAIN e.orders = DOMAIN d.orders
      /\ \A k \in DOMAIN d.orders : e.orders[k] = IF k = o THEN x ELSE d.orders[k]
  BY ExceptSeq
<1> DEFINE S == PortfolioOrders(d, p)
           f == SettledBy(d, p)
           g == SettledBy(e, p)
<1>2. PortfolioOrders(e, p) = S
  BY <1>1 DEF PortfolioOrders
<1>3. IsFiniteSet(S) /\ f \in [S -> Int] /\ Settled(d, p) = Sum(f)
  BY SettledTyped
<1>4. g \in [PortfolioOrders(e, p) -> Int] /\ Settled(e, p) = Sum(g)
  BY <1>1, SettledTyped
<1>5. \A k \in S \ {o} : f[k] = g[k]
  BY <1>1, <1>2 DEF SettledBy, PortfolioOrders
<1>6. CASE p = x.portfolio
  <2>1. o \in S
    BY <1>6 DEF PortfolioOrders
  <2>2. f[o] = d.orders[o].traded - d.orders[o].booked /\ g[o] = x.traded - x.booked
    BY <1>1, <1>2, <2>1 DEF SettledBy
  <2>3. f \in [S -> Int] /\ g \in [S -> Int] /\ Agree(f, g, S \ {o})
    BY <1>2, <1>3, <1>4, <1>5 DEF Agree
  <2> HIDE DEF S, f, g
  <2>4. Sum(g) = Sum(f) + g[o] - f[o]
    BY <1>3, <2>1, <2>3, SumMoves
  <2> QED
    BY <1>3, <1>4, <1>6, <2>2, <2>4
<1>7. CASE p # x.portfolio
  <2>1. o \notin S
    BY <1>7 DEF PortfolioOrders
  <2>2. g = f
    BY <1>1, <1>2, <2>1 DEF SettledBy, PortfolioOrders
  <2> QED
    BY <1>3, <1>4, <1>7, <2>2
<1> QED
  BY <1>6, <1>7

LEMMA SettledGrows ==
  ASSUME NEW d, d.orders \in Seq(Order), NEW x \in Order, x.traded = 0, x.booked = 0,
         NEW e, e.orders = Append(d.orders, x), NEW p
  PROVE  Settled(e, p) = Settled(d, p)
<1>1. PICK o : o = Len(d.orders) + 1
  OBVIOUS
<1>2. /\ e.orders \in Seq(Order) /\ Len(e.orders) = o /\ e.orders[o] = x
      /\ \A k \in 1..Len(d.orders) : e.orders[k] = d.orders[k]
  BY <1>1, AppendProperties
<1>3. /\ DOMAIN d.orders = 1..Len(d.orders) /\ DOMAIN e.orders = DOMAIN d.orders \cup {o}
      /\ o \notin DOMAIN d.orders
  <2>1. /\ Len(d.orders) \in Nat /\ DOMAIN d.orders = 1..Len(d.orders)
        /\ DOMAIN e.orders = 1..(Len(d.orders) + 1)
    BY <1>1, <1>2
  <2> QED
    BY <1>1, <2>1
<1> DEFINE S == PortfolioOrders(d, p)
           T == PortfolioOrders(e, p)
           f == SettledBy(d, p)
           g == SettledBy(e, p)
<1>4. IsFiniteSet(S) /\ f \in [S -> Int] /\ Settled(d, p) = Sum(f) /\ Sum(f) \in Int
  BY SettledTyped
<1>5. g \in [T -> Int] /\ Settled(e, p) = Sum(g)
  BY <1>2, SettledTyped
<1>6. \A k \in S : k \in T /\ f[k] = g[k]
  BY <1>2, <1>3 DEF SettledBy, PortfolioOrders
<1>7. CASE x.portfolio = p
  <2>1. Joins(o, S, T)
    BY <1>2, <1>3, <1>7 DEF PortfolioOrders, Joins
  <2>2. o \in T
    BY <2>1 DEF Joins
  <2>3. g[o] = 0
    BY <1>2, <2>2 DEF SettledBy
  <2>4. f \in [S -> Int] /\ g \in [T -> Int] /\ Agree(f, g, S)
    BY <1>4, <1>5, <1>6 DEF Agree
  <2> HIDE DEF S, T, f, g
  <2>5. Sum(g) = Sum(f) + g[o]
    BY <1>4, <2>1, <2>4, SumGrows
  <2> QED
    BY <1>4, <1>5, <2>3, <2>5
<1>8. CASE x.portfolio # p
  <2>1. T = S
    BY <1>2, <1>3, <1>8 DEF PortfolioOrders
  <2>2. g = f
    BY <1>2, <1>3, <2>1 DEF SettledBy, PortfolioOrders
  <2> QED
    BY <1>4, <1>5, <2>2
<1> QED
  BY <1>7, <1>8

\* What a portfolio's cash is beside what its orders settled.
Purse(d, p) == d.cash[p] - Settled(d, p)

\* What an order may become: it stays what it is for, gives back nothing it
\* executed, and pays or is paid only for more of it.
Continues(y, x) ==
  /\ SameOrder(y, x) /\ y.qty = x.qty
  /\ y.filled >= x.filled
  /\ y.filled = x.filled => y.traded = x.traded
  /\ IF y.side = "BUY" THEN y.traded <= x.traded ELSE y.traded >= x.traded

Blank(x) == [x EXCEPT !.filled = 0, !.traded = 0]

OrdersContinue(d, e) ==
  /\ \A o \in DOMAIN d.orders : o \in DOMAIN e.orders /\ Continues(e.orders[o], d.orders[o])
  /\ \A o \in DOMAIN e.orders :
       o \notin DOMAIN d.orders => Continues(e.orders[o], Blank(e.orders[o]))

\* No order of the portfolio is new, or has executed more.
Quiet(d, e, p) ==
  \A o \in DOMAIN e.orders :
    e.orders[o].portfolio = p =>
      o \in DOMAIN d.orders /\ e.orders[o].filled = d.orders[o].filled

\* The rows of a portfolio move only with its own orders ...
RowsApart(d, e) ==
  /\ OrdersContinue(d, e)
  /\ \A p \in Portfolio : Quiet(d, e, p) => RowsHeldBy(e, p) = RowsHeldBy(d, p)

\* ... and its cash only by what they settle.
CashApart(d, e) == \A p \in Portfolio : Purse(e, p) = Purse(d, p)

BooksApart(d, e) == RowsApart(d, e) /\ CashApart(d, e)

LEMMA FilledIsNat ==
  ASSUME NEW d \in Database, NEW o \in DOMAIN d.orders
  PROVE  d.orders[o].filled \in Nat
<1>1. d.orders[o] \in Order
  BY DEF Database
<1> QED
  BY <1>1 DEF Order

LEMMA ContinuesItself ==
  ASSUME NEW x \in Order
  PROVE  Continues(x, x)
BY DEF Continues, SameOrder, Order

LEMMA ContinuesThrough ==
  ASSUME NEW x \in Order, NEW y \in Order, NEW z \in Order, Continues(y, x), Continues(z, y)
  PROVE  Continues(z, x)
<1>1. /\ x.filled \in Int /\ y.filled \in Int /\ z.filled \in Int
      /\ x.traded \in Int /\ y.traded \in Int /\ z.traded \in Int
  BY DEF Order
<1>2. SameOrder(z, x) /\ z.qty = x.qty /\ z.side = y.side
  BY DEF Continues, SameOrder
<1>3. z.filled >= x.filled /\ (z.filled = x.filled => z.traded = x.traded)
  BY <1>1 DEF Continues
<1>4. IF z.side = "BUY" THEN z.traded <= x.traded ELSE z.traded >= x.traded
  BY <1>1, <1>2 DEF Continues
<1> QED
  BY <1>2, <1>3, <1>4 DEF Continues

LEMMA BlankOrder ==
  ASSUME NEW x \in Order
  PROVE  /\ Blank(x) \in Order
         /\ SameOrder(Blank(x), x) /\ Blank(x).qty = x.qty
         /\ Blank(x).filled = 0 /\ Blank(x).traded = 0 /\ Blank(x).booked = x.booked
<1>1. PICK y : y = [x EXCEPT !.filled = 0]
  OBVIOUS
<1>2. /\ y \in Order /\ y.filled = 0 /\ y.qty = x.qty /\ y.booked = x.booked
      /\ y.portfolio = x.portfolio /\ y.security = x.security /\ y.side = x.side
  BY <1>1 DEF Order
<1>3. PICK z : z = [y EXCEPT !.traded = 0]
  OBVIOUS
<1>4. /\ z \in Order /\ z.filled = 0 /\ z.traded = 0 /\ z.qty = x.qty
      /\ z.booked = x.booked
      /\ z.portfolio = x.portfolio /\ z.security = x.security /\ z.side = x.side
  BY <1>2, <1>3 DEF Order
<1>5. Blank(x) = z
  BY <1>1, <1>3 DEF Blank
<1> QED
  BY <1>4, <1>5 DEF SameOrder

LEMMA ContinuesFromBlank ==
  ASSUME NEW y \in Order, NEW z \in Order, Continues(y, Blank(y)), Continues(z, y)
  PROVE  Continues(z, Blank(z))
<1>1. Blank(y) \in Order /\ Blank(y).filled = 0 /\ Blank(y).traded = 0
  BY BlankOrder
<1>2. Continues(z, Blank(y))
  BY <1>1, ContinuesThrough
<1>3. /\ SameOrder(Blank(z), z) /\ Blank(z).qty = z.qty
      /\ Blank(z).filled = 0 /\ Blank(z).traded = 0
  BY BlankOrder
<1> QED
  BY <1>1, <1>2, <1>3 DEF Continues, SameOrder

LEMMA OrdersContinueItself ==
  ASSUME NEW d \in Database, NEW e, e.orders = d.orders
  PROVE  OrdersContinue(d, e)
<1>1. \A o \in DOMAIN d.orders : d.orders[o] \in Order
  BY DEF Database
<1>2. \A o \in DOMAIN d.orders : Continues(d.orders[o], d.orders[o])
  BY <1>1, ContinuesItself
<1> QED
  BY <1>2 DEF OrdersContinue

LEMMA OrdersContinueThrough ==
  ASSUME NEW d \in Database, NEW e \in Database, NEW g \in Database,
         OrdersContinue(d, e), OrdersContinue(e, g)
  PROVE  OrdersContinue(d, g)
<1>1. ASSUME NEW o \in DOMAIN d.orders
      PROVE  o \in DOMAIN g.orders /\ Continues(g.orders[o], d.orders[o])
  <2>1. o \in DOMAIN e.orders /\ Continues(e.orders[o], d.orders[o])
    BY DEF OrdersContinue
  <2>2. o \in DOMAIN g.orders /\ Continues(g.orders[o], e.orders[o])
    BY <2>1 DEF OrdersContinue
  <2>3. d.orders[o] \in Order /\ e.orders[o] \in Order /\ g.orders[o] \in Order
    BY <2>1, <2>2 DEF Database
  <2> QED
    BY <2>1, <2>2, <2>3, ContinuesThrough
<1>2. ASSUME NEW o \in DOMAIN g.orders, o \notin DOMAIN d.orders
      PROVE  Continues(g.orders[o], Blank(g.orders[o]))
  <2>1. CASE o \notin DOMAIN e.orders
    BY <2>1 DEF OrdersContinue
  <2>2. CASE o \in DOMAIN e.orders
    <3>1. Continues(e.orders[o], Blank(e.orders[o])) /\ Continues(g.orders[o], e.orders[o])
      BY <1>2, <2>2 DEF OrdersContinue
    <3>2. e.orders[o] \in Order /\ g.orders[o] \in Order
      BY <2>2 DEF Database
    <3> QED
      BY <3>1, <3>2, ContinuesFromBlank
  <2> QED
    BY <2>1, <2>2
<1> QED
  BY <1>1, <1>2 DEF OrdersContinue

\* The same rows.
LEMMA RowsApartSame ==
  ASSUME NEW d, NEW e, OrdersContinue(d, e), e.rows = d.rows
  PROVE  RowsApart(d, e)
BY DEF RowsApart, RowsHeldBy

LEMMA BooksApartItself ==
  ASSUME NEW d \in Database
  PROVE  BooksApart(d, d)
BY OrdersContinueItself, RowsApartSame DEF BooksApart, CashApart

LEMMA BooksApartThrough ==
  ASSUME NEW d \in Database, NEW e \in Database, NEW g \in Database,
         BooksApart(d, e), BooksApart(e, g)
  PROVE  BooksApart(d, g)
<1>1. OrdersContinue(d, e) /\ OrdersContinue(e, g)
  BY DEF BooksApart, RowsApart
<1>2. ASSUME NEW o \in DOMAIN d.orders
      PROVE  /\ o \in DOMAIN e.orders /\ o \in DOMAIN g.orders
             /\ e.orders[o].portfolio = d.orders[o].portfolio
             /\ g.orders[o].portfolio = d.orders[o].portfolio
             /\ d.orders[o].filled \in Nat /\ e.orders[o].filled \in Nat
             /\ g.orders[o].filled \in Nat
             /\ e.orders[o].filled >= d.orders[o].filled
             /\ g.orders[o].filled >= e.orders[o].filled
  <2>1. o \in DOMAIN e.orders /\ Continues(e.orders[o], d.orders[o])
    BY <1>1 DEF OrdersContinue
  <2>2. o \in DOMAIN g.orders /\ Continues(g.orders[o], e.orders[o])
    BY <1>1, <2>1 DEF OrdersContinue
  <2> QED
    BY <2>1, <2>2, FilledIsNat DEF Continues, SameOrder
<1>3. OrdersContinue(d, g)
  BY <1>1, OrdersContinueThrough
<1>4. ASSUME NEW p \in Portfolio, Quiet(d, g, p)
      PROVE  RowsHeldBy(g, p) = RowsHeldBy(d, p)
  <2>1. ASSUME NEW o \in DOMAIN e.orders, e.orders[o].portfolio = p
        PROVE  /\ o \in DOMAIN d.orders /\ o \in DOMAIN g.orders
               /\ g.orders[o].portfolio = p
               /\ g.orders[o].filled = d.orders[o].filled
    <3>1. o \in DOMAIN g.orders /\ g.orders[o].portfolio = p
      BY <1>1, <2>1 DEF OrdersContinue, Continues, SameOrder
    <3> QED
      BY <1>4, <3>1 DEF Quiet
  <2>2. Quiet(d, e, p)
    <3> SUFFICES ASSUME NEW o \in DOMAIN e.orders, e.orders[o].portfolio = p
                 PROVE  o \in DOMAIN d.orders /\ e.orders[o].filled = d.orders[o].filled
      BY DEF Quiet
    <3>1. o \in DOMAIN d.orders /\ g.orders[o].filled = d.orders[o].filled
      BY <2>1
    <3> QED
      BY <1>2, <3>1
  <2>3. Quiet(e, g, p)
    <3> SUFFICES ASSUME NEW o \in DOMAIN g.orders, g.orders[o].portfolio = p
                 PROVE  o \in DOMAIN e.orders /\ g.orders[o].filled = e.orders[o].filled
      BY DEF Quiet
    <3>1. o \in DOMAIN d.orders /\ g.orders[o].filled = d.orders[o].filled
      BY <1>4 DEF Quiet
    <3> QED
      BY <1>2, <3>1
  <2> QED
    BY <2>2, <2>3 DEF BooksApart, RowsApart
<1>5. CashApart(d, g)
  BY DEF BooksApart, CashApart
<1> QED
  BY <1>3, <1>4, <1>5 DEF BooksApart, RowsApart

(* A fill.                                                                 *)
LEMMA ExecutesApart ==
  ASSUME NEW d \in Database, OneOpenEach(d.rows),
         NEW held, HeldFrom(held, d.rows),
         NEW o \in DOMAIN d.orders, NEW x \in Order,
         x.qty = d.orders[o].qty,
         NEW e \in Database, Executes(d, held, o, e, x)
  PROVE  BooksApart(d, e)
<1>1. d.orders \in Seq(Order) /\ d.rows \in Seq(Row) /\ d.cash \in [Portfolio -> Int]
  BY DEF Database
<1>2. PICK f \in FillIn(Portfolio, Security, Strategy) :
        /\ SameOrder(f, x)
        /\ e.rows = ApplyFill(d.rows, held, f)
        /\ x.filled = d.orders[o].filled + f.qty
        /\ x.traded = d.orders[o].traded + Flow(f.side, Worth(f.price, f.qty))
        /\ x.booked = d.orders[o].booked + f.charges
        /\ e.cash = [d.cash EXCEPT ![f.portfolio] =
                       @ + Flow(f.side, Worth(f.price, f.qty)) - f.charges]
  BY DEF Executes
<1>3. e.orders = [d.orders EXCEPT ![o] = x] /\ SameOrder(x, d.orders[o])
  BY DEF Executes
<1>4. /\ d.rows \in Seq(RowIn(Portfolio, Security, Strategy))
      /\ HeldFits(Portfolio, Security, Strategy, d.rows, held, f)
  BY <1>1, HeldFromFits DEF Row
<1>5. /\ f.qty \in Nat \ {0} /\ f.price \in Nat /\ f.charges \in Int
      /\ d.orders[o].filled \in Nat
  BY FilledIsNat DEF FillIn
<1>6. x.filled > d.orders[o].filled
  BY <1>2, <1>5
<1>7. /\ DOMAIN e.orders = DOMAIN d.orders
      /\ \A k \in DOMAIN d.orders : e.orders[k] = IF k = o THEN x ELSE d.orders[k]
  BY <1>1, <1>3
<1>8. OrdersContinue(d, e)
  <2>1. \A k \in DOMAIN d.orders : Continues(d.orders[k], d.orders[k])
    BY <1>1, ContinuesItself
  <2>2. Continues(x, d.orders[o])
    <3>1. PICK v \in Nat : v = Worth(f.price, f.qty)
      BY <1>5, WorthIsNat
    <3>2. x.traded = d.orders[o].traded + IF f.side = "BUY" THEN -v ELSE v
      BY <1>2, <3>1 DEF Flow
    <3>3. d.orders[o].traded \in Int
      <4>1. d.orders[o] \in Order
        BY <1>1
      <4> QED
        BY <4>1, OrderNumbers
    <3>4. IF x.side = "BUY" THEN x.traded <= d.orders[o].traded
                            ELSE x.traded >= d.orders[o].traded
      BY <1>2, <3>1, <3>2, <3>3 DEF SameOrder
    <3>5. x.filled >= d.orders[o].filled /\ x.filled # d.orders[o].filled
      BY <1>2, <1>5
    <3> QED
      BY <1>3, <3>4, <3>5 DEF Continues
  <2> QED
    BY <1>7, <2>1, <2>2 DEF OrdersContinue
<1>9. ASSUME NEW p \in Portfolio, Quiet(d, e, p)
      PROVE  RowsHeldBy(e, p) = RowsHeldBy(d, p)
  <2>1. e.orders[o] = x /\ x.filled # d.orders[o].filled
    BY <1>2, <1>5, <1>7
  <2>2. f.portfolio # p
    BY <1>2, <1>7, <1>9, <2>1 DEF Quiet, SameOrder
  <2>3. /\ \A i \in DOMAIN d.rows :
             /\ i \in DOMAIN e.rows
             /\ RowKept(e.rows[i], d.rows[i])
             /\ ~IsOpenFor(d.rows[i], f.portfolio, f.security) => e.rows[i] = d.rows[i]
        /\ \A i \in DOMAIN e.rows : i \notin DOMAIN d.rows => RowKept(e.rows[i], f)
    BY <1>2, <1>4, ApplyFillRows
  <2>4. {i \in DOMAIN e.rows : e.rows[i].portfolio = p}
          = {i \in DOMAIN d.rows : d.rows[i].portfolio = p}
    BY <2>2, <2>3 DEF RowKept
  <2>5. \A i \in DOMAIN d.rows : d.rows[i].portfolio = p => e.rows[i] = d.rows[i]
    BY <2>2, <2>3 DEF IsOpenFor
  <2> QED
    BY <2>4, <2>5 DEF RowsHeldBy
<1>10. CashApart(d, e)
  <2> SUFFICES ASSUME NEW p \in Portfolio PROVE Purse(e, p) = Purse(d, p)
    BY DEF CashApart
  <2>1. PICK v \in Int : v = Flow(f.side, Worth(f.price, f.qty))
    BY <1>5, FlowIsInt
  <2>2. PICK c \in Int, s \in Int : c = d.cash[p] /\ s = Settled(d, p)
    BY <1>1, SettledTyped
  <2>3. PICK t \in Int, b \in Int : t = d.orders[o].traded /\ b = d.orders[o].booked
    <3>1. d.orders[o] \in Order
      BY <1>1
    <3> QED
      BY <3>1, OrderNumbers
  <2>4. x.traded = t + v /\ x.booked = b + f.charges
    BY <1>2, <2>1, <2>3
  <2>5. x.portfolio = d.orders[o].portfolio /\ f.portfolio = x.portfolio
    BY <1>2, <1>3 DEF SameOrder
  <2>6. Settled(e, p) = IF p = x.portfolio
                        THEN Settled(d, p) + (x.traded - x.booked)
                             - (d.orders[o].traded - d.orders[o].booked)
                        ELSE Settled(d, p)
    BY <1>1, <1>3, <2>5, SettledMoves
  <2>7. CASE p = x.portfolio
    <3>1. e.cash[p] = c + v - f.charges
      BY <1>1, <1>2, <2>1, <2>2, <2>5, <2>7
    <3>2. Settled(e, p) = s + ((t + v) - (b + f.charges)) - (t - b)
      BY <2>2, <2>3, <2>4, <2>6, <2>7
    <3>3. e.cash[p] - Settled(e, p) = c - s
      BY <1>5, <3>1, <3>2
    <3> QED
      BY <2>2, <3>3 DEF Purse
  <2>8. CASE p # x.portfolio
    <3>1. e.cash[p] = d.cash[p]
      BY <1>1, <1>2, <2>5, <2>8
    <3> QED
      BY <2>6, <2>8, <3>1 DEF Purse
  <2> QED
    BY <2>7, <2>8
<1> QED
  BY <1>8, <1>9, <1>10 DEF BooksApart, RowsApart

(* The same order, at most ended, beside the same rows and cash.           *)
Restated(d, o, e, x) ==
  /\ SameAccount(x, d.orders[o]) /\ x.qty = d.orders[o].qty
  /\ e.orders = [d.orders EXCEPT ![o] = x]
  /\ e.rows = d.rows /\ e.cash = d.cash

LEMMA AccountApart ==
  ASSUME NEW d \in Database, NEW o \in DOMAIN d.orders, NEW x \in Order,
         NEW e \in Database, Restated(d, o, e, x)
  PROVE  BooksApart(d, e)
<1>1. /\ d.orders \in Seq(Order) /\ d.orders[o] \in Order
      /\ e.orders = [d.orders EXCEPT ![o] = x] /\ e.rows = d.rows /\ e.cash = d.cash
  BY DEF Database, Restated
<1>2. /\ x.portfolio = d.orders[o].portfolio /\ x.filled = d.orders[o].filled
      /\ x.traded = d.orders[o].traded /\ x.booked = d.orders[o].booked
  BY DEF Restated, SameAccount, SameOrder
<1>3. OrdersContinue(d, e)
  <2>1. /\ DOMAIN e.orders = DOMAIN d.orders
        /\ \A k \in DOMAIN d.orders : e.orders[k] = IF k = o THEN x ELSE d.orders[k]
    BY <1>1
  <2>2. \A k \in DOMAIN d.orders : Continues(d.orders[k], d.orders[k])
    BY <1>1, ContinuesItself
  <2>3. Continues(x, d.orders[o])
    BY <2>2 DEF Restated, SameAccount, SameOrder, Continues
  <2> QED
    BY <2>1, <2>2, <2>3 DEF OrdersContinue
<1>4. ASSUME NEW p PROVE Settled(e, p) = Settled(d, p)
  <2>1. Settled(e, p) = IF p = x.portfolio
                        THEN Settled(d, p) + (x.traded - x.booked)
                             - (d.orders[o].traded - d.orders[o].booked)
                        ELSE Settled(d, p)
    BY <1>1, <1>2, SettledMoves
  <2>2. Settled(d, p) \in Int /\ x.traded \in Int /\ x.booked \in Int
    BY <1>1, SettledTyped, OrderNumbers
  <2> QED
    BY <1>2, <2>1, <2>2
<1>5. CashApart(d, e)
  BY <1>1, <1>4 DEF CashApart, Purse
<1> QED
  BY <1>1, <1>3, <1>5, RowsApartSame DEF BooksApart

(* An order just inserted.                                                 *)
LEMMA AppendApart ==
  ASSUME NEW d \in Database, NEW x \in Order, x.filled = 0, x.traded = 0, x.booked = 0,
         NEW e \in Database, e.orders = Append(d.orders, x),
         e.rows = d.rows, e.cash = d.cash
  PROVE  BooksApart(d, e)
<1>1. d.orders \in Seq(Order)
  BY DEF Database
<1>2. OrdersContinue(d, e)
  <2>1. /\ Len(e.orders) = Len(d.orders) + 1 /\ e.orders \in Seq(Order)
        /\ \A k \in 1..Len(d.orders) : e.orders[k] = d.orders[k]
        /\ e.orders[Len(d.orders) + 1] = x
    BY <1>1, AppendProperties
  <2>2. /\ DOMAIN d.orders = 1..Len(d.orders) /\ DOMAIN d.orders \subseteq DOMAIN e.orders
        /\ \A k \in DOMAIN e.orders : k \in DOMAIN d.orders \/ k = Len(d.orders) + 1
    BY <1>1, <2>1
  <2>3. \A k \in DOMAIN d.orders : Continues(e.orders[k], d.orders[k])
    BY <1>1, <2>1, <2>2, ContinuesItself
  <2>4. Continues(x, Blank(x))
    BY BlankOrder DEF Continues, SameOrder
  <2> QED
    BY <2>1, <2>2, <2>3, <2>4 DEF OrdersContinue
<1>3. CashApart(d, e)
  BY <1>1, SettledGrows DEF CashApart, Purse
<1> QED
  BY <1>2, <1>3, RowsApartSame DEF BooksApart

-----------------------------------------------------------------------------
(* Placing an order.                                                       *)

Request ==
  [portfolio : Portfolio, security : Security, strategy : Strategy, side : Sides,
   type : {"MARKET", "LIMIT"}, qty : Nat \ {0}, limit : Nat, close : BOOLEAN]

LEMMA NewOrderTyped ==
  ASSUME NEW r \in Request, NEW n, n = NewOrder(r)
  PROVE  /\ n \in Order /\ Charged(n)
         /\ n.filled = 0 /\ n.qty = r.qty /\ n.status = "PENDING" /\ ~n.completed
         /\ SameOrder(n, r) /\ n.traded = 0 /\ n.booked = 0
<1>1. n = [portfolio |-> r.portfolio, security |-> r.security, strategy |-> r.strategy,
           side |-> r.side, type |-> r.type, qty |-> r.qty, limit |-> r.limit,
           close |-> r.close, status |-> "PENDING", filled |-> 0, completed |-> FALSE,
           charged |-> 0, traded |-> 0, booked |-> 0]
  BY DEF NewOrder
<1>2. n \in Order
  BY <1>1 DEF Order, Request
<1>3. ChargeOn(n.filled) = 0
  BY <1>1 DEF ChargeOn
<1> QED
  BY <1>1, <1>2, <1>3 DEF Charged, SameOrder

LEMMA OpenedOrder ==
  ASSUME NEW n \in Order, Charged(n), n.filled = 0, ~n.completed,
         NEW x, x = [n EXCEPT !.status = "OPEN"]
  PROVE  x \in Order /\ SoundOrder(x) /\ x.qty = n.qty /\ SameAccount(x, n)
<1>1. n.completed \in BOOLEAN /\ n.qty \in Nat /\ n.filled \in Nat
  BY DEF Order
<1>2. PICK y : y = Ended(n, "OPEN", n.completed)
  OBVIOUS
<1>3. /\ y \in Order /\ y.status = "OPEN" /\ (y.completed <=> n.completed)
      /\ y.filled = n.filled /\ y.qty = n.qty /\ Charged(y) /\ SameAccount(y, n)
  BY <1>1, <1>2, EndedOrder
<1>4. x = y
  BY <1>2 DEF Ended, Order
<1>5. SoundOrder(y)
  BY <1>1, <1>3 DEF SoundOrder
<1> QED
  BY <1>3, <1>4, <1>5

\* The orders of `d' are the same in `e'.
OrdersUntouched(d, e) ==
  \A o \in DOMAIN d.orders : o \in DOMAIN e.orders /\ e.orders[o] = d.orders[o]

(* A sound order appended, beside sound rows that stand.                   *)
LEMMA OrderAppended ==
  ASSUME NEW d, SoundDb(d), NEW n \in Order, NEW x \in Order, SoundOrder(x),
         NEW e \in Database,
         e.orders = [Append(d.orders, n) EXCEPT ![Len(d.orders) + 1] = x],
         GoodRows(e.rows), RowsStand(d.rows, e.rows)
  PROVE  SoundDb(e) /\ Stands(d, e) /\ OrdersUntouched(d, e)
<1>1. d.orders \in Seq(Order)
  BY DEF SoundDb, Database
<1>2. PICK long : long = Append(d.orders, n)
  OBVIOUS
<1>3. /\ long \in Seq(Order) /\ Len(long) = Len(d.orders) + 1
      /\ \A k \in 1..Len(d.orders) : long[k] = d.orders[k]
  BY <1>1, <1>2, AppendProperties
<1>4. PICK last : last = Len(d.orders) + 1 /\ last \in Nat /\ last \notin 1..Len(d.orders)
  BY <1>1
<1>5. DOMAIN long = 1..last /\ DOMAIN d.orders = 1..Len(d.orders)
  BY <1>1, <1>3, <1>4
<1>6. e.orders = [long EXCEPT ![last] = x]
  BY <1>2, <1>4
<1>7. /\ DOMAIN e.orders = DOMAIN long
      /\ \A k \in DOMAIN long : e.orders[k] = IF k = last THEN x ELSE long[k]
  BY <1>6
<1>8. \A k \in DOMAIN d.orders : k \in DOMAIN e.orders /\ e.orders[k] = d.orders[k]
  BY <1>1, <1>3, <1>4, <1>5, <1>7
<1>9. \A k \in DOMAIN e.orders : k = last \/ k \in DOMAIN d.orders
  BY <1>1, <1>4, <1>5, <1>7
<1>10. \A k \in DOMAIN e.orders : SoundOrder(e.orders[k])
  BY <1>5, <1>7, <1>8, <1>9 DEF SoundDb
<1>11. \A k \in DOMAIN d.orders : d.orders[k].filled >= d.orders[k].filled
  BY StandsItself DEF SoundDb, Stands
<1> QED
  BY <1>8, <1>10, <1>11 DEF SoundDb, Stands, OrdersUntouched

LEMMA InitialFillSound ==
  ASSUME NEW d, SoundDb(d),
         NEW held, HeldFrom(held, d.rows),
         NEW n \in Order, Charged(n), n.filled = 0, n.status = "PENDING", ~n.completed,
         n.traded = 0, n.booked = 0,
         NEW fill, fill.qty > 0 => FillWithin(fill, n.qty),
         NEW stale,
         fill.qty > 0 => Fresh(held, d.rows) \/ <<n.portfolio, n.security>> \in stale,
         NEW m \in Database, m.orders = Append(d.orders, n), m.rows = d.rows,
         m.cash = d.cash,
         NEW e, e = AttemptInitialFill(m, held, fill)
  PROVE  /\ SoundDb(e) /\ Stands(d, e) /\ OrdersUntouched(d, e)
         /\ KeepsBalance(d, stale, e) /\ BooksApart(d, e)
<1>1. d.orders \in Seq(Order)
  BY DEF SoundDb, Database
<1>3. n.qty \in Nat
  BY DEF Order
<1>4. /\ Append(d.orders, n) \in Seq(Order)
      /\ Len(Append(d.orders, n)) = Len(d.orders) + 1
      /\ Append(d.orders, n)[Len(d.orders) + 1] = n
  BY <1>1, AppendProperties
<1>7. PICK o : o = Len(m.orders)
  OBVIOUS
<1>8. /\ o = Len(d.orders) + 1 /\ m.orders[o] = n /\ o \in DOMAIN m.orders
  BY <1>1, <1>4, <1>7
<1>9. GoodRows(m.rows) /\ HeldFrom(held, m.rows) /\ RowsStand(d.rows, m.rows)
  BY StandsItself DEF SoundDb, Stands
<1>15. KeepsBalance(d, stale, m)
  <2>1. SumsStay(d, m)
    BY <1>1, OrderSumsGrow DEF SumsStay
  <2> QED
    BY <2>1, SumsStayKeeps DEF SoundDb
<1>16. BooksApart(d, m)
  <2>1. d \in Database
    BY DEF SoundDb
  <2> QED
    BY <2>1, AppendApart
<1>10. SUFFICES /\ e \in Database /\ GoodRows(e.rows) /\ RowsStand(d.rows, e.rows)
                /\ \E x \in Order : Becomes(m, o, e, x)
                /\ KeepsBalance(m, stale, e) /\ BooksApart(m, e)
  <2>1. PICK x \in Order : e.orders = [m.orders EXCEPT ![o] = x] /\ SoundOrder(x)
    BY <1>10 DEF Becomes
  <2>2. e.orders = [Append(d.orders, n) EXCEPT ![Len(d.orders) + 1] = x]
    BY <2>1, <1>8
  <2>3. KeepsBalance(d, stale, e)
    BY <1>10, <1>15, KeepsBalanceThrough
  <2>4. BooksApart(d, e)
    <3>1. BooksApart(m, e) /\ d \in Database /\ e \in Database
      BY <1>10 DEF SoundDb
    <3> QED
      BY <3>1, <1>16, BooksApartThrough
  <2> QED
    BY <1>10, <2>1, <2>2, <2>3, <2>4, OrderAppended
\* Something fills at once ...
<1>11. CASE fill.qty > 0
  <2>1. PICK terminal : terminal = (n.type = "MARKET")
    OBVIOUS
  <2>2. terminal \in BOOLEAN
    BY <2>1, Zenon
  <2>3. e = Execute(m, held, o, n, fill, terminal)
    BY <1>7, <1>8, <1>11, <2>1 DEF AttemptInitialFill
  <2>5. FillWithin(fill, m.orders[o].qty - m.orders[o].filled)
    BY <1>3, <1>8, <1>11 DEF FillWithin
  <2>6. /\ Charged(m.orders[o]) /\ n.filled = m.orders[o].filled
        /\ n.status \in {"PENDING", "OPEN", "PARTIALLY_FILLED"}
        /\ m.orders[o].status \in {n.status, "CANCELLED"}
    BY <1>8
  <2>7. /\ e \in Database /\ GoodRows(e.rows) /\ RowsStand(m.rows, e.rows)
        /\ \E x \in Order : Becomes(m, o, e, x) /\ Executes(m, held, o, e, x)
    BY <1>8, <1>9, <2>2, <2>3, <2>5, <2>6, ExecuteSound
  <2>8. PICK x \in Order : Becomes(m, o, e, x) /\ Executes(m, held, o, e, x)
    BY <2>7
  <2>9. x.portfolio = n.portfolio /\ x.security = n.security
    BY <1>8, <2>8 DEF Executes, SameOrder
  <2>10. Fresh(held, m.rows) \/ <<x.portfolio, x.security>> \in stale
    BY <1>11, <2>9
  <2>11. KeepsBalance(m, stale, e)
    BY <1>8, <1>9, <2>7, <2>8, <2>10, ExecutesKeeps DEF GoodRows
  <2>12. BooksApart(m, e)
    <3>1. x.qty = m.orders[o].qty /\ Executes(m, held, o, e, x) /\ OneOpenEach(m.rows)
      BY <1>9, <2>8 DEF Becomes, GoodRows
    <3> QED
      BY <1>8, <1>9, <2>7, <2>8, <3>1, ExecutesApart
  <2> QED
    BY <2>7, <2>8, <2>11, <2>12
\* ... or the order is refused or rests.
<1>12. ASSUME NEW x \in Order, SoundOrder(x), x.qty = n.qty, SameAccount(x, n),
              e = WithOrder(m, o, x)
       PROVE  /\ e \in Database /\ GoodRows(e.rows) /\ RowsStand(d.rows, e.rows)
              /\ \E y \in Order : Becomes(m, o, e, y)
              /\ KeepsBalance(m, stale, e) /\ BooksApart(m, e)
  <2>1. o \in DOMAIN m.orders
    BY <1>8
  <2>3. x.filled >= m.orders[o].filled /\ x.qty = m.orders[o].qty
    BY <1>8, <1>12 DEF Order
  <2>4. e \in Database /\ e.rows = m.rows /\ e.cash = m.cash /\ Becomes(m, o, e, x)
    BY <1>12, <2>1, <2>3, WithSoundOrder
  <2>5. GoodRows(e.rows) /\ RowsStand(d.rows, e.rows)
    BY <1>9, <2>4
  <2>6. SameAccount(x, m.orders[o]) /\ e.orders = [m.orders EXCEPT ![o] = x]
    BY <1>8, <1>12, <2>4 DEF Becomes
  <2>7. KeepsBalance(m, stale, e)
    BY <2>1, <2>4, <2>6, AccountKeeps
  <2>8. BooksApart(m, e)
    <3>1. /\ m \in Database /\ e \in Database
          /\ e.rows = m.rows /\ e.cash = m.cash
      BY <2>4
    <3>2. Restated(m, o, e, x)
      BY <2>3, <2>6, <3>1 DEF Restated
    <3> QED
      BY <2>1, <3>1, <3>2, AccountApart
  <2> QED
    BY <2>4, <2>5, <2>7, <2>8
<1>13. CASE ~(fill.qty > 0) /\ n.type = "MARKET"
  <2>1. PICK x : x = Retire(n, n, "REJECTED")
    OBVIOUS
  <2>2. e = WithOrder(m, o, x)
    BY <1>7, <1>8, <1>13, <2>1 DEF AttemptInitialFill, WithOrder
  <2>3. n.filled <= n.qty /\ n.status # "REJECTED"
    BY <1>3
  <2>4. x \in Order /\ SoundOrder(x) /\ x.qty = n.qty /\ SameAccount(x, n)
    BY <2>1, <2>3, RetireSound
  <2> QED
    BY <1>12, <2>2, <2>4
<1>14. CASE ~(fill.qty > 0) /\ n.type # "MARKET"
  <2>1. PICK x : x = [n EXCEPT !.status = "OPEN"]
    OBVIOUS
  <2>2. e = WithOrder(m, o, x)
    BY <1>7, <1>8, <1>14, <2>1 DEF AttemptInitialFill, WithOrder
  <2>3. x \in Order /\ SoundOrder(x) /\ x.qty = n.qty /\ SameAccount(x, n)
    BY <2>1, OpenedOrder
  <2> QED
    BY <1>12, <2>2, <2>3
<1> QED
  BY <1>11, <1>13, <1>14

LEMMA DatabaseRecord ==
  ASSUME NEW orders, orders \in Seq(Order), NEW table, table \in Seq(Row),
         NEW purse, purse \in [Portfolio -> Int],
         NEW d, d = [orders |-> orders, rows |-> table, cash |-> purse]
  PROVE  d \in Database
BY DEF Database

LEMMA WithOrders ==
  ASSUME NEW d \in Database, NEW orders
  PROVE  [d EXCEPT !.orders = orders] = [orders |-> orders, rows |-> d.rows, cash |-> d.cash]
BY DEF Database

LEMMA PlaceSound ==
  ASSUME NEW d, SoundDb(d), NEW r \in Request,
         NEW held, HeldFrom(held, d.rows),
         NEW fill, fill.qty > 0 => FillWithin(fill, r.qty),
         NEW stale,
         fill.qty > 0 => Fresh(held, d.rows) \/ <<r.portfolio, r.security>> \in stale,
         NEW e, e = AttemptInitialFill([d EXCEPT !.orders = Append(@, NewOrder(r))], held, fill)
  PROVE  /\ SoundDb(e) /\ Stands(d, e) /\ OrdersUntouched(d, e)
         /\ KeepsBalance(d, stale, e) /\ BooksApart(d, e)
<1>1. PICK n : n = NewOrder(r)
  OBVIOUS
<1>2. /\ n \in Order /\ Charged(n)
      /\ n.filled = 0 /\ n.qty = r.qty /\ n.status = "PENDING" /\ ~n.completed
      /\ SameOrder(n, r) /\ n.traded = 0 /\ n.booked = 0
  BY <1>1, NewOrderTyped
<1>3. /\ d.orders \in Seq(Order) /\ d.rows \in Seq(Row) /\ d.cash \in [Portfolio -> Int]
  BY DEF SoundDb, Database
<1>12. d \in Database
  BY DEF SoundDb
<1>4. PICK orders : orders = Append(d.orders, n)
  OBVIOUS
<1>5. orders \in Seq(Order)
  BY <1>2, <1>3, <1>4, AppendProperties
<1>6. PICK m : m = [orders |-> orders, rows |-> d.rows, cash |-> d.cash]
  OBVIOUS
<1>7. m = [d EXCEPT !.orders = Append(@, NewOrder(r))]
  <2>1. [d EXCEPT !.orders = orders] = m
    BY <1>6, <1>12, WithOrders
  <2>2. orders = Append(d.orders, NewOrder(r))
    BY <1>1, <1>4
  <2> QED
    BY <2>1, <2>2, Zenon
<1>8. m \in Database
  BY <1>3, <1>5, <1>6, DatabaseRecord
<1>9. m.orders = Append(d.orders, n) /\ m.rows = d.rows /\ m.cash = d.cash
  BY <1>4, <1>6
<1>10. e = AttemptInitialFill(m, held, fill)
  BY <1>7
<1>11. fill.qty > 0 => FillWithin(fill, n.qty)
  BY <1>2
<1>13. fill.qty > 0 => Fresh(held, d.rows) \/ <<n.portfolio, n.security>> \in stale
  BY <1>2 DEF SameOrder
<1> QED
  BY <1>2, <1>8, <1>9, <1>10, <1>11, <1>13, InitialFillSound

-----------------------------------------------------------------------------
(* The inductive invariant.  A request or a matcher's pass acts on what it *)
(* read earlier, so it says how far such a copy can be from what is stored *)
(* when it is used: a row held for a close is still the row of that id, an *)
(* order the matcher loaded has the quantities it had, and at most a       *)
(* cancellation more.                                                      *)

DataSound ==
  /\ locked \in BOOLEAN
  /\ SoundDb(db) /\ SoundDb(work)
  /\ Stands(db, work)
  /\ ~locked => work = db

SessionSound(x, d) ==
  /\ x.kind \in {"idle", "place", "cancel", "withdraw"}
  /\ x.kind = "place" => x.request \in Request /\ HeldFrom(x.held, d.rows)
  /\ x.kind = "cancel" => x.order \in DOMAIN d.orders /\ x.seen.status \notin FinalStatuses
  /\ x.kind = "withdraw" => x.portfolio \in Portfolio /\ x.amount \in Amounts

SessionsSound ==
  /\ DOMAIN sess = Session
  /\ \A s \in Session : SessionSound(sess[s], db)

\* A copy of an order, and the order now.
CopySound(copy, order) ==
  /\ copy \in Order /\ IsOpenOrder(copy)
  /\ copy.filled = order.filled /\ copy.qty = order.qty
  /\ order.status \in {copy.status, "CANCELLED"}

LoadedSound(loaded, d) ==
  \A o \in DOMAIN loaded : o \in DOMAIN d.orders /\ CopySound(loaded[o], d.orders[o])

MatcherSound ==
  /\ matcher = [pc |-> matcher.pc, loaded |-> matcher.loaded, fill |-> matcher.fill,
                refused |-> matcher.refused]
  /\ matcher.pc \in {"asleep", "next", "decided"}
  /\ matcher.pc = "asleep" => ~locked
  /\ LoadedSound(matcher.loaded, work)
  /\ matcher.pc = "decided" =>
       /\ NextOrder \in DOMAIN matcher.loaded
       /\ FillWithin(matcher.fill, matcher.loaded[NextOrder].qty
                                   - matcher.loaded[NextOrder].filled)

Settings ==
  /\ active \in [Portfolio -> BOOLEAN] /\ enabled \in [Strategy -> BOOLEAN]
  /\ quote \in [Security -> Quotes \cup {NoQuote}]

IInv == DataSound /\ SessionsSound /\ MatcherSound /\ Settings

-----------------------------------------------------------------------------
(* What a step that leaves a part alone keeps of it.                       *)

LEMMA SessionKeeps ==
  ASSUME NEW x, NEW d, NEW e, SessionSound(x, d), Stands(d, e)
  PROVE  SessionSound(x, e)
<1>1. RowsStand(d.rows, e.rows) /\ \A o \in DOMAIN d.orders : o \in DOMAIN e.orders
  BY DEF Stands
<1>2. ASSUME NEW held, HeldFrom(held, d.rows) PROVE HeldFrom(held, e.rows)
  BY <1>1, <1>2 DEF HeldFrom, RowsStand, RowKept
<1> QED
  BY <1>1, <1>2 DEF SessionSound

LEMMA SessionsKeep ==
  ASSUME SessionsSound, Stands(db, db'), UNCHANGED sess
  PROVE  SessionsSound'
BY SessionKeeps DEF SessionsSound

LEMMA SessionMoves ==
  ASSUME SessionsSound, Stands(db, db'), NEW s \in Session, NEW x, SessionSound(x, db'),
         sess' = [sess EXCEPT ![s] = x]
  PROVE  SessionsSound'
<1>1. DOMAIN sess' = Session
  BY DEF SessionsSound
<1>2. \A t \in Session : sess'[t] = IF t = s THEN x ELSE sess[t]
  BY DEF SessionsSound
<1>3. \A t \in Session : SessionSound(sess[t], db')
  BY SessionKeeps DEF SessionsSound
<1> QED
  BY <1>1, <1>2, <1>3 DEF SessionsSound

LEMMA IdleSound ==
  ASSUME NEW d
  PROVE  SessionSound(Idle, d)
BY DEF SessionSound, Idle

LEMMA DataKeeps ==
  ASSUME DataSound, UNCHANGED <<db, work, locked>>
  PROVE  DataSound' /\ Stands(db, db')
BY StandsItself DEF DataSound, SoundDb

\* A transaction of a request.
LEMMA DataMoves ==
  ASSUME DataSound, ~locked, UNCHANGED locked, SoundDb(db'), Stands(db, db'), work' = db'
  PROVE  DataSound'
BY StandsItself DEF DataSound, SoundDb

LEMMA MatcherKeeps ==
  ASSUME MatcherSound, UNCHANGED <<matcher, locked>>, LoadedSound(matcher.loaded, work')
  PROVE  MatcherSound'
BY DEF MatcherSound, NextOrder

\* Orders may be cancelled or added around the matcher's copies.
OrdersCancelledAtMost(d, e) ==
  \A o \in DOMAIN d.orders :
    /\ o \in DOMAIN e.orders
    /\ e.orders[o].filled = d.orders[o].filled /\ e.orders[o].qty = d.orders[o].qty
    /\ e.orders[o].status \in {d.orders[o].status, "CANCELLED"}

LEMMA LoadedKeeps ==
  ASSUME NEW loaded, NEW d, NEW e, LoadedSound(loaded, d), OrdersCancelledAtMost(d, e)
  PROVE  LoadedSound(loaded, e)
BY DEF LoadedSound, OrdersCancelledAtMost, CopySound

LEMMA SettingsKeep ==
  ASSUME Settings, UNCHANGED <<active, enabled, quote>>
  PROVE  Settings'
BY DEF Settings

-----------------------------------------------------------------------------
LEMMA InitInv == Init => IInv
<1> SUFFICES ASSUME Init PROVE IInv
  OBVIOUS
<1>1. PICK none : none = [p \in Portfolio |-> Opening]
  OBVIOUS
<1>2. none \in [Portfolio -> Int]
  BY <1>1, MoneyAssumption
<1>3. db = [orders |-> <<>>, rows |-> <<>>, cash |-> none] /\ work = db /\ locked = FALSE
  BY <1>1 DEF Init
<1>4. db \in Database
  <2>1. <<>> \in Seq(Order) /\ <<>> \in Seq(Row)
    OBVIOUS
  <2> QED
    BY <1>2, <1>3, <2>1, DatabaseRecord
<1>5. db.orders = <<>> /\ db.rows = <<>>
  BY <1>3
<1>6. DOMAIN <<>> = {}
  OBVIOUS
<1>7. SoundDb(db)
  BY <1>4, <1>5, <1>6 DEF SoundDb, GoodRows, OneOpenEach, OpenWhileHolding
<1>8. DataSound
  BY <1>3, <1>4, <1>7, StandsItself DEF DataSound
<1>9. SessionsSound
  BY IdleSound DEF Init, SessionsSound
<1>10. matcher = Asleep
  BY DEF Init
<1>11. MatcherSound
  BY <1>3, <1>6, <1>10 DEF MatcherSound, Asleep, LoadedSound
<1>12. Settings
  BY DEF Init, Settings
<1> QED
  BY <1>8, <1>9, <1>11, <1>12 DEF IInv

-----------------------------------------------------------------------------
(* Requests that read.                                                     *)

\* A step that only moves one session.
LEMMA ReadInv ==
  ASSUME IInv, UNCHANGED <<db, work, locked, matcher, active, enabled, quote>>,
         NEW s \in Session, NEW x, SessionSound(x, db), sess' = [sess EXCEPT ![s] = x]
  PROVE  IInv'
<1>1. DataSound' /\ Stands(db, db')
  BY DataKeeps DEF IInv
<1>2. SessionsSound'
  BY <1>1, SessionMoves DEF IInv
<1>3. MatcherSound'
  BY MatcherKeeps DEF IInv, MatcherSound
<1>4. Settings'
  BY SettingsKeep DEF IInv
<1> QED
  BY <1>1, <1>2, <1>3, <1>4 DEF IInv

LEMMA LimitOfIsNat ==
  ASSUME NEW type, NEW limit \in Limits
  PROVE  LimitOf(type, limit) \in Nat
BY LimitsAssumption DEF LimitOf

LEMMA ResolveStrategyTyped ==
  ASSUME NEW c \in Security, NEW key, NEW p, NEW close,
         NEW k \in ResolveStrategy(c, key, p, close)
  PROVE  k \in Strategy
<1>1. Claims[c] \subseteq Strategy
  BY ClaimsAssumption
<1>2. k \in Claims[c]
  BY Zenon DEF ResolveStrategy
<1> QED
  BY <1>1, <1>2

LEMMA ResolvePortfolioTyped ==
  ASSUME NEW given, NEW p \in ResolvePortfolio(given)
  PROVE  p \in Portfolio
<1>1. p \in {q \in Portfolio : active[q]}
  BY Zenon DEF ResolvePortfolio
<1> QED
  BY <1>1

LEMMA SubmitReadInv ==
  ASSUME IInv, NEW s \in Session, NEW given, NEW c \in Security, NEW key,
         NEW side \in Sides, NEW type \in OrderTypes, NEW qty \in Quantity,
         NEW limit \in Limits, SubmitRead(s, given, c, key, side, type, qty, limit)
  PROVE  IInv'
<1>1. PICK p \in ResolvePortfolio(given), k \in ResolveStrategy(c, key, given, FALSE) :
        Placing(s, [portfolio |-> p, security |-> c, strategy |-> k, side |-> side,
                    type |-> type, qty |-> qty, limit |-> LimitOf(type, limit),
                    close |-> FALSE], <<>>)
  BY DEF SubmitRead
<1>2. PICK r : r = [portfolio |-> p, security |-> c, strategy |-> k, side |-> side,
                    type |-> type, qty |-> qty, limit |-> LimitOf(type, limit),
                    close |-> FALSE]
  OBVIOUS
<1>3. r \in Request
  <2>1. p \in Portfolio /\ k \in Strategy
    BY ResolvePortfolioTyped, ResolveStrategyTyped
  <2>2. qty \in Nat \ {0} /\ type \in {"MARKET", "LIMIT"} /\ LimitOf(type, limit) \in Nat
    BY LimitOfIsNat, QuantityAssumption, OrderTypesAssumption
  <2> QED
    BY <1>2, <2>1, <2>2 DEF Request
<1>4. HeldFrom(<<>>, db.rows)
  <2>1. DOMAIN <<>> = {}
    OBVIOUS
  <2> QED
    BY <2>1 DEF HeldFrom
<1>5. PICK x : x = [kind |-> "place", request |-> r, held |-> <<>>]
  OBVIOUS
<1>6. SessionSound(x, db)
  BY <1>3, <1>4, <1>5 DEF SessionSound
<1>7. sess' = [sess EXCEPT ![s] = x]
  BY <1>1, <1>2, <1>5 DEF Placing
<1>8. UNCHANGED <<db, work, locked, matcher, active, enabled, quote>>
  BY DEF SubmitRead
<1> QED
  BY <1>6, <1>7, <1>8, ReadInv

LEMMA CloseReadInv ==
  ASSUME IInv, NEW s \in Session, NEW i \in DOMAIN db.rows,
         NEW type \in OrderTypes, NEW limit \in Limits, NEW qty \in 1..Abs(db.rows[i].net),
         CloseRead(s, i, type, qty, limit)
  PROVE  IInv'
<1>1. PICK row : row = db.rows[i]
  OBVIOUS
<1>2. row \in Row /\ db.rows \in Seq(Row)
  BY <1>1 DEF IInv, DataSound, SoundDb, Database
<1>3. row.open /\ row.security \in Security /\ row.net \in Int
  <2>1. row.open
    BY <1>1 DEF CloseRead
  <2> QED
    BY <1>2, <2>1 DEF Row, RowIn
<1>4. PICK side : side = IF row.net > 0 THEN "SELL" ELSE "BUY"
  OBVIOUS
<1>5. PICK held : held = [id \in {i} |-> row]
  OBVIOUS
<1>6. PICK p \in ResolvePortfolio(row.portfolio),
           k \in ResolveStrategy(row.security, Unspecified, row.portfolio, TRUE) :
        Placing(s, [portfolio |-> p, security |-> row.security, strategy |-> k,
                    side |-> side, type |-> type, qty |-> qty,
                    limit |-> LimitOf(type, limit), close |-> TRUE], held)
  BY <1>1, <1>4, <1>5, Zenon DEF CloseRead
<1>7. PICK r : r = [portfolio |-> p, security |-> row.security, strategy |-> k,
                    side |-> side, type |-> type, qty |-> qty,
                    limit |-> LimitOf(type, limit), close |-> TRUE]
  OBVIOUS
<1>8. r \in Request
  <2>1. p \in Portfolio /\ k \in Strategy
    BY <1>3, ResolvePortfolioTyped, ResolveStrategyTyped
  <2>2. type \in {"MARKET", "LIMIT"} /\ LimitOf(type, limit) \in Nat
    BY LimitOfIsNat, OrderTypesAssumption
  <2>3. Abs(row.net) \in Nat
    BY <1>3, AbsIsNat
  <2>4. qty \in Nat \ {0}
    BY <1>1, <2>3
  <2>5. side \in Sides
    BY <1>4 DEF Sides
  <2> QED
    BY <1>3, <1>7, <2>1, <2>2, <2>4, <2>5 DEF Request
<1>9. HeldFrom(held, db.rows)
  <2>1. DOMAIN held = {i} /\ held[i] = row
    BY <1>5
  <2> QED
    BY <1>1, <1>2, <1>3, <2>1 DEF HeldFrom, RowKept
<1>10. PICK x : x = [kind |-> "place", request |-> r, held |-> held]
  OBVIOUS
<1>11. SessionSound(x, db)
  BY <1>8, <1>9, <1>10 DEF SessionSound
<1>12. sess' = [sess EXCEPT ![s] = x]
  BY <1>6, <1>7, <1>10 DEF Placing
<1>13. UNCHANGED <<db, work, locked, matcher, active, enabled, quote>>
  BY DEF CloseRead
<1> QED
  BY <1>11, <1>12, <1>13, ReadInv

LEMMA CancelReadInv ==
  ASSUME IInv, NEW s \in Session, NEW o \in DOMAIN db.orders, CancelRead(s, o)
  PROVE  IInv'
<1>1. PICK x : x = [kind |-> "cancel", order |-> o, seen |-> db.orders[o]]
  OBVIOUS
<1>2. SessionSound(x, db)
  BY <1>1 DEF SessionSound, CancelRead
<1>3. /\ sess' = [sess EXCEPT ![s] = x]
      /\ UNCHANGED <<db, work, locked, matcher, active, enabled, quote>>
  BY <1>1 DEF CancelRead
<1> QED
  BY <1>2, <1>3, ReadInv

LEMMA WithdrawReadInv ==
  ASSUME IInv, NEW s \in Session, NEW p \in Portfolio, NEW amount \in Amounts,
         WithdrawRead(s, p, amount)
  PROVE  IInv'
<1>1. PICK x : x = [kind |-> "withdraw", portfolio |-> p, amount |-> amount]
  OBVIOUS
<1>2. SessionSound(x, db)
  BY <1>1 DEF SessionSound
<1>3. /\ sess' = [sess EXCEPT ![s] = x]
      /\ UNCHANGED <<db, work, locked, matcher, active, enabled, quote>>
  BY <1>1 DEF WithdrawRead
<1> QED
  BY <1>2, <1>3, ReadInv

-----------------------------------------------------------------------------
(* Requests that write: each is a transaction of its own.                  *)

LEMMA WriteInv ==
  ASSUME IInv, ~locked, UNCHANGED <<locked, matcher, active, enabled, quote>>,
         SoundDb(db'), Stands(db, db'), OrdersCancelledAtMost(db, db'), work' = db',
         UNCHANGED sess \/ \E s \in Session : sess' = [sess EXCEPT ![s] = Idle]
  PROVE  IInv' /\ Stands(db, db')
<1>1. DataSound'
  BY DataMoves DEF IInv
<1>2. SessionsSound'
  <2>1. CASE UNCHANGED sess
    BY <2>1, SessionsKeep DEF IInv
  <2>2. CASE \E s \in Session : sess' = [sess EXCEPT ![s] = Idle]
    <3>1. PICK s \in Session : sess' = [sess EXCEPT ![s] = Idle]
      BY <2>2
    <3>2. SessionSound(Idle, db')
      BY IdleSound
    <3> QED
      BY <3>1, <3>2, SessionMoves DEF IInv
  <2> QED
    BY <2>1, <2>2
<1>3. MatcherSound'
  <2>1. work = db
    BY DEF IInv, DataSound
  <2>2. LoadedSound(matcher.loaded, db)
    BY <2>1 DEF IInv, MatcherSound
  <2>3. LoadedSound(matcher.loaded, work')
    BY <2>2, LoadedKeeps
  <2> QED
    BY <2>3, MatcherKeeps DEF IInv
<1>4. Settings'
  BY SettingsKeep DEF IInv
<1> QED
  BY <1>1, <1>2, <1>3, <1>4 DEF IInv

LEMMA QuoteIsQuoted ==
  ASSUME Settings, NEW c \in Security
  PROVE  Quoted(quote[c])
<1>1. quote[c] \in Quotes \/ quote[c] = NoQuote
  BY DEF Settings
<1> QED
  BY <1>1, QuotesAssumption DEF Quoted, NoQuote

LEMMA PlaceWriteInv ==
  ASSUME IInv, NEW s \in Session, PlaceWrite(s)
  PROVE  /\ IInv' /\ Stands(db, db') /\ KeepsBalance(db, overwritten', db')
         /\ BooksApart(db, db')
<1>1. PICK r : r = sess[s].request
  OBVIOUS
<1>2. PICK held : held = sess[s].held
  OBVIOUS
<1>3. r \in Request /\ HeldFrom(held, db.rows)
  BY <1>1, <1>2 DEF IInv, SessionsSound, SessionSound, PlaceWrite
<1>4. PICK q : q = quote[r.security]
  OBVIOUS
<1>5. Quoted(q)
  BY <1>3, <1>4, QuoteIsQuoted DEF IInv, Request
<1>6. PICK fill \in InitialFills(r, q) :
        /\ db' = AttemptInitialFill([db EXCEPT !.orders = Append(@, NewOrder(r))], held, fill)
        /\ overwritten' = overwritten \cup Overwrites(r, held, fill)
  BY <1>1, <1>2, <1>4 DEF PlaceWrite
<1>7. fill.qty > 0 => FillWithin(fill, r.qty)
  <2>1. r.qty \in Nat /\ r.limit \in Nat
    BY <1>3 DEF Request
  <2> QED
    BY <1>5, <2>1, InitialFillsWithin
<1>8. SoundDb(db)
  BY DEF IInv, DataSound
<1>12. PICK stale : stale = overwritten'
  OBVIOUS
<1>13. fill.qty > 0 => Fresh(held, db.rows) \/ <<r.portfolio, r.security>> \in stale
  <2>1. CASE \E i \in DOMAIN held : db.rows[i].open /\ held[i] # db.rows[i]
    BY <1>6, <1>12, <2>1 DEF Overwrites
  <2>2. CASE ~ \E i \in DOMAIN held : db.rows[i].open /\ held[i] # db.rows[i]
    BY <2>2 DEF Fresh
  <2> QED
    BY <2>1, <2>2
<1>9. /\ SoundDb(db') /\ Stands(db, db') /\ OrdersUntouched(db, db')
      /\ KeepsBalance(db, stale, db') /\ BooksApart(db, db')
  BY <1>3, <1>6, <1>7, <1>8, <1>13, PlaceSound
<1>10. OrdersCancelledAtMost(db, db')
  BY <1>9 DEF OrdersUntouched, OrdersCancelledAtMost
<1>11. /\ ~locked /\ work' = db' /\ sess' = [sess EXCEPT ![s] = Idle]
       /\ UNCHANGED <<locked, matcher, active, enabled, quote>>
  BY DEF PlaceWrite
<1> QED
  BY <1>9, <1>10, <1>11, <1>12, WriteInv

LEMMA CancelWriteInv ==
  ASSUME IInv, NEW s \in Session, CancelWrite(s)
  PROVE  /\ IInv' /\ Stands(db, db') /\ KeepsBalance(db, overwritten', db')
         /\ BooksApart(db, db')
<1>1. PICK o : o = sess[s].order
  OBVIOUS
<1>2. PICK seen : seen = sess[s].seen
  OBVIOUS
<1>3. o \in DOMAIN db.orders /\ seen.status # "CANCELLED"
  BY <1>1, <1>2 DEF IInv, SessionsSound, SessionSound, CancelWrite, FinalStatuses
<1>4. PICK x : x = Retire(db.orders[o], seen, "CANCELLED")
  OBVIOUS
<1>5. SoundDb(db) /\ db \in Database /\ db.orders \in Seq(Order) /\ GoodRows(db.rows)
  BY DEF IInv, DataSound, SoundDb, Database
<1>6. PICK order \in Order : order = db.orders[o]
  BY <1>3, <1>5
<1>7. Charged(order) /\ order.filled <= order.qty /\ order.filled \in Nat
  BY <1>3, <1>5, <1>6 DEF SoundDb, SoundOrder, Order
<1>8. /\ x \in Order /\ SoundOrder(x) /\ x.status = "CANCELLED"
      /\ x.filled = order.filled /\ x.qty = order.qty
      /\ SameAccount(x, order)
  BY <1>3, <1>4, <1>6, <1>7, RetireSound
<1>9. PICK e : e = WithOrder(db, o, x)
  OBVIOUS
<1>10. db' = e
  BY <1>1, <1>2, <1>4, <1>9 DEF CancelWrite, WithOrder
<1>11. x.filled >= db.orders[o].filled /\ x.qty = db.orders[o].qty
  BY <1>6, <1>7, <1>8
<1>12. e \in Database /\ e.rows = db.rows /\ e.cash = db.cash /\ Becomes(db, o, e, x)
  BY <1>3, <1>5, <1>8, <1>9, <1>11, WithSoundOrder
<1>13. GoodRows(e.rows) /\ RowsStand(db.rows, e.rows)
  BY <1>5, <1>12, StandsItself DEF Stands
<1>14. SoundDb(e) /\ Stands(db, e)
  BY <1>3, <1>5, <1>8, <1>12, <1>13, OrderReplaced
<1>15. OrdersCancelledAtMost(db, e)
  <2>1. e.orders = [db.orders EXCEPT ![o] = x]
    BY <1>12 DEF Becomes
  <2>2. /\ DOMAIN e.orders = DOMAIN db.orders
        /\ \A k \in DOMAIN db.orders : e.orders[k] = IF k = o THEN x ELSE db.orders[k]
    BY <1>5, <2>1
  <2> QED
    BY <1>6, <1>8, <2>2 DEF OrdersCancelledAtMost
<1>16. /\ ~locked /\ work' = db' /\ sess' = [sess EXCEPT ![s] = Idle]
       /\ UNCHANGED <<locked, matcher, active, enabled, quote>>
  BY DEF CancelWrite
<1>17. KeepsBalance(db, overwritten', e) /\ BooksApart(db, e)
  <2>1. e.orders = [db.orders EXCEPT ![o] = x] /\ SameAccount(x, db.orders[o])
    BY <1>6, <1>8, <1>12 DEF Becomes
  <2>2. Restated(db, o, e, x)
    BY <1>11, <1>12, <2>1 DEF Restated
  <2> QED
    BY <1>3, <1>5, <1>8, <1>12, <2>1, <2>2, AccountKeeps, AccountApart
<1> QED
  BY <1>10, <1>14, <1>15, <1>16, <1>17, WriteInv

\* A ledger entry without an order.
LEMMA CashMoves ==
  ASSUME NEW d, SoundDb(d), NEW p \in Portfolio, NEW amount, amount \in Int,
         NEW e, e = [d EXCEPT !.cash[p] = amount]
  PROVE  /\ SoundDb(e) /\ Stands(d, e) /\ OrdersCancelledAtMost(d, e)
         /\ \A stale : KeepsBalance(d, stale, e)
<1>1. d \in Database /\ d.orders \in Seq(Order) /\ d.rows \in Seq(Row) /\ d.cash \in [Portfolio -> Int]
  BY DEF SoundDb, Database
<1>2. PICK purse : purse = [d.cash EXCEPT ![p] = amount]
  OBVIOUS
<1>3. purse \in [Portfolio -> Int]
  BY <1>1, <1>2
<1>4. e = [orders |-> d.orders, rows |-> d.rows, cash |-> purse]
  BY <1>2 DEF SoundDb, Database
<1>5. e \in Database
  BY <1>1, <1>3, <1>4, DatabaseRecord
<1>6. e.orders = d.orders /\ e.rows = d.rows
  BY <1>4
<1>7. SoundDb(e)
  BY <1>5, <1>6 DEF SoundDb
<1>8. Stands(d, e)
  BY <1>1, <1>6, StandsItself DEF Stands
<1>9. OrdersCancelledAtMost(d, e)
  BY <1>6 DEF OrdersCancelledAtMost
<1>10. SumsStay(d, e)
  <2>1. \A p1 \in Portfolio, c \in Security : OrdersStay(d, e, p1, c)
    BY <1>6 DEF OrdersStay, OrdersOf
  <2> QED
    BY <2>1, OrderSumsStay DEF SumsStay
<1>11. ASSUME NEW stale PROVE KeepsBalance(d, stale, e)
  BY <1>1, <1>5, <1>6, <1>10, SumsStayKeeps
<1> QED
  BY <1>7, <1>8, <1>9, <1>11

LEMMA WithdrawWriteInv ==
  ASSUME IInv, NEW s \in Session, WithdrawWrite(s)
  PROVE  IInv' /\ Stands(db, db') /\ KeepsBalance(db, overwritten', db')
<1>1. PICK p : p = sess[s].portfolio
  OBVIOUS
<1>2. PICK amount : amount = db.cash[p] - sess[s].amount
  OBVIOUS
<1>3. p \in Portfolio /\ sess[s].amount \in Nat
  BY <1>1, MoneyAssumption DEF IInv, SessionsSound, SessionSound, WithdrawWrite
<1>4. SoundDb(db) /\ db.cash \in [Portfolio -> Int]
  BY DEF IInv, DataSound, SoundDb, Database
<1>5. amount \in Int
  BY <1>2, <1>3, <1>4
<1>6. db' = [db EXCEPT !.cash[p] = amount]
  BY <1>1, <1>2 DEF WithdrawWrite
<1>7. /\ SoundDb(db') /\ Stands(db, db') /\ OrdersCancelledAtMost(db, db')
      /\ KeepsBalance(db, overwritten', db')
  BY <1>3, <1>4, <1>5, <1>6, CashMoves
<1>8. /\ ~locked /\ work' = db' /\ sess' = [sess EXCEPT ![s] = Idle]
      /\ UNCHANGED <<locked, matcher, active, enabled, quote>>
  BY DEF WithdrawWrite
<1> QED
  BY <1>7, <1>8, WriteInv

LEMMA DepositInv ==
  ASSUME IInv, NEW p \in Portfolio, NEW amount \in Amounts, Deposit(p, amount)
  PROVE  IInv' /\ Stands(db, db') /\ KeepsBalance(db, overwritten', db')
<1>1. PICK total : total = db.cash[p] + amount
  OBVIOUS
<1>2. SoundDb(db) /\ db.cash \in [Portfolio -> Int] /\ amount \in Nat
  BY MoneyAssumption DEF IInv, DataSound, SoundDb, Database
<1>3. total \in Int
  BY <1>1, <1>2
<1>4. db' = [db EXCEPT !.cash[p] = total]
  BY <1>1 DEF Deposit
<1>5. /\ SoundDb(db') /\ Stands(db, db') /\ OrdersCancelledAtMost(db, db')
      /\ KeepsBalance(db, overwritten', db')
  BY <1>2, <1>3, <1>4, CashMoves
<1>6. ~locked /\ work' = db' /\ UNCHANGED <<locked, sess, matcher, active, enabled, quote>>
  BY DEF Deposit
<1> QED
  BY <1>5, <1>6, WriteInv

-----------------------------------------------------------------------------
(* Switches and the book.                                                  *)

LEMMA QuietInv ==
  ASSUME IInv, UNCHANGED <<db, work, locked, sess, matcher>>, Settings'
  PROVE  IInv'
<1>1. DataSound' /\ Stands(db, db')
  BY DataKeeps DEF IInv
<1>2. SessionsSound'
  BY <1>1, SessionsKeep DEF IInv
<1>3. MatcherSound'
  BY MatcherKeeps DEF IInv, MatcherSound
<1> QED
  BY <1>1, <1>2, <1>3 DEF IInv

LEMMA SwitchInv ==
  ASSUME IInv, \/ \E p \in Portfolio, on \in BOOLEAN : SetActive(p, on)
               \/ \E k \in Strategy, on \in BOOLEAN : SetEnabled(k, on)
  PROVE  IInv'
<1>1. ASSUME NEW p \in Portfolio, NEW on \in BOOLEAN, SetActive(p, on)
      PROVE  IInv'
  <2>1. active' = [active EXCEPT ![p] = on] /\ UNCHANGED <<enabled, quote>>
    BY <1>1 DEF SetActive
  <2>2. Settings'
    BY <2>1 DEF IInv, Settings
  <2> QED
    BY <1>1, <2>2, QuietInv DEF SetActive
<1>2. ASSUME NEW k \in Strategy, NEW on \in BOOLEAN, SetEnabled(k, on)
      PROVE  IInv'
  <2>1. enabled' = [enabled EXCEPT ![k] = on] /\ UNCHANGED <<active, quote>>
    BY <1>2 DEF SetEnabled
  <2>2. Settings'
    BY <2>1 DEF IInv, Settings
  <2> QED
    BY <1>2, <2>2, QuietInv DEF SetEnabled
<1> QED
  BY <1>1, <1>2

LEMMA TickInv ==
  ASSUME IInv, NEW c \in Security, NEW q \in Quotes, Tick(c, q)
  PROVE  IInv'
<1>1. quote' = [quote EXCEPT ![c] = q] /\ UNCHANGED <<active, enabled>>
  BY DEF Tick
<1>2. Settings'
  BY <1>1 DEF IInv, Settings
<1> QED
  BY <1>2, QuietInv DEF Tick

-----------------------------------------------------------------------------
(* The matcher.                                                            *)

\* A step of the pass that writes nothing.
LEMMA PassInv ==
  ASSUME IInv, UNCHANGED <<db, work, locked, sess, active, enabled, quote>>, MatcherSound'
  PROVE  IInv'
<1>1. DataSound' /\ Stands(db, db')
  BY DataKeeps DEF IInv
<1>2. SessionsSound'
  BY <1>1, SessionsKeep DEF IInv
<1>3. Settings'
  BY SettingsKeep DEF IInv
<1> QED
  BY <1>1, <1>2, <1>3 DEF IInv

LEMMA WakesInv ==
  ASSUME IInv, MatcherWakes
  PROVE  IInv'
<1>1. PICK loaded : loaded = [o \in OpenOrders(db) |-> db.orders[o]]
  OBVIOUS
<1>2. work = db /\ ~locked
  BY DEF IInv, DataSound, MatcherSound, MatcherWakes
<1>3. LoadedSound(loaded, db)
  <2> SUFFICES ASSUME NEW o \in DOMAIN loaded
               PROVE  o \in DOMAIN db.orders /\ CopySound(loaded[o], db.orders[o])
    BY DEF LoadedSound
  <2>1. /\ o \in DOMAIN db.orders /\ IsOpenOrder(db.orders[o])
        /\ loaded[o] = db.orders[o]
    BY <1>1 DEF OpenOrders
  <2>2. db.orders \in Seq(Order)
    BY DEF IInv, DataSound, SoundDb, Database
  <2>3. db.orders[o] \in Order
    BY <2>1, <2>2
  <2> QED
    BY <2>1, <2>3 DEF CopySound
<1>4. matcher' = [pc |-> "next", loaded |-> loaded, fill |-> NoFill, refused |-> FALSE]
  BY <1>1 DEF MatcherWakes, Asleep
<1>5. UNCHANGED <<db, work, locked, sess, active, enabled, quote>>
  BY DEF MatcherWakes
<1>6. MatcherSound'
  BY <1>2, <1>3, <1>4, <1>5 DEF MatcherSound
<1> QED
  BY <1>5, <1>6, PassInv

LEMMA WithoutNextSound ==
  ASSUME NEW d, LoadedSound(matcher.loaded, d), NEW e, DOMAIN d.orders \subseteq DOMAIN e.orders,
         \A o \in DOMAIN d.orders : o # NextOrder => e.orders[o] = d.orders[o]
  PROVE  LoadedSound(WithoutNext, e)
<1> SUFFICES ASSUME NEW o \in DOMAIN WithoutNext
             PROVE  o \in DOMAIN e.orders /\ CopySound(WithoutNext[o], e.orders[o])
  BY DEF LoadedSound
<1>1. o \in DOMAIN matcher.loaded /\ o # NextOrder /\ WithoutNext[o] = matcher.loaded[o]
  BY DEF WithoutNext
<1>2. o \in DOMAIN d.orders /\ CopySound(matcher.loaded[o], d.orders[o])
  BY <1>1 DEF LoadedSound
<1> QED
  BY <1>1, <1>2

LEMMA SkipsInv ==
  ASSUME IInv, MatcherSkips
  PROVE  IInv'
<1>1. UNCHANGED <<db, work, locked, sess, active, enabled, quote>> /\ matcher.pc = "next"
  BY DEF MatcherSkips
<1>2. LoadedSound(WithoutNext, work)
  BY WithoutNextSound DEF IInv, MatcherSound
<1>3. matcher' = [pc |-> "next", loaded |-> WithoutNext, fill |-> matcher.fill,
                  refused |-> matcher.refused]
  <2>1. matcher = [pc |-> matcher.pc, loaded |-> matcher.loaded, fill |-> matcher.fill,
                   refused |-> matcher.refused]
    BY DEF IInv, MatcherSound
  <2>2. matcher' = [matcher EXCEPT !.loaded = WithoutNext]
    BY DEF MatcherSkips
  <2> QED
    BY <1>1, <2>1, <2>2
<1>4. MatcherSound'
  BY <1>1, <1>2, <1>3 DEF MatcherSound
<1> QED
  BY <1>1, <1>4, PassInv

LEMMA DecidesInv ==
  ASSUME IInv, MatcherDecides
  PROVE  IInv'
<1>1. /\ UNCHANGED <<db, work, locked, sess, active, enabled, quote>>
      /\ matcher.pc = "next" /\ DOMAIN matcher.loaded # {}
  BY DEF MatcherDecides
<1>2. LoadedSound(matcher.loaded, work)
  BY DEF IInv, MatcherSound
<1>3. NextOrder \in DOMAIN matcher.loaded
  <2>1. work.orders \in Seq(Order)
    BY DEF IInv, DataSound, SoundDb, Database
  <2>2. DOMAIN matcher.loaded \subseteq Nat
    BY <1>2, <2>1 DEF LoadedSound
  <2> QED
    BY <1>1, <2>2, NextOrderLoaded
<1>4. PICK order : order = matcher.loaded[NextOrder]
  OBVIOUS
<1>5. order \in Order
  BY <1>2, <1>3, <1>4 DEF LoadedSound, CopySound
<1>6. PICK fill \in FillsFor(order) \ {NoFill}, refused \in BOOLEAN :
        matcher' = [matcher EXCEPT !.pc = "decided", !.fill = fill, !.refused = refused]
  BY <1>4 DEF MatcherDecides
<1>7. PICK room : room = order.qty - order.filled
  OBVIOUS
<1>8. room \in Nat /\ order.limit \in Nat
  <2>1. order.qty > order.filled
    BY <1>4 DEF MatcherDecides, CanFill
  <2>2. order.qty \in Nat /\ order.filled \in Nat /\ order.limit \in Nat
    BY <1>5 DEF Order
  <2> QED
    BY <1>7, <2>1, <2>2
<1>9. PICK q : q = quote[order.security]
  OBVIOUS
<1>10. Quoted(q)
  BY <1>5, <1>9, QuoteIsQuoted DEF IInv, Order
<1>11. PICK limit : limit = order.limit
  OBVIOUS
<1>12. fill \in RestingFills(order.side, room, limit, q) /\ fill # NoFill
  BY <1>6, <1>7, <1>9, <1>11 DEF FillsFor
<1>13. FillWithin(fill, room)
  BY <1>8, <1>10, <1>11, <1>12, RestingFillsWithin
<1>14. matcher' = [pc |-> "decided", loaded |-> matcher.loaded, fill |-> fill,
                   refused |-> refused]
  <2>1. matcher = [pc |-> matcher.pc, loaded |-> matcher.loaded, fill |-> matcher.fill,
                   refused |-> matcher.refused]
    BY DEF IInv, MatcherSound
  <2> QED
    BY <1>6, <2>1
<1>15. matcher'.loaded = matcher.loaded
  BY <1>14
<1>16. NextOrder' = NextOrder
  BY <1>15 DEF NextOrder
<1>17. MatcherSound'
  BY <1>1, <1>2, <1>3, <1>4, <1>7, <1>13, <1>14, <1>16 DEF MatcherSound
<1> QED
  BY <1>1, <1>17, PassInv

\* What the write of a pass does to its transaction.
LEMMA WritesSound ==
  ASSUME IInv, MatcherWrites
  PROVE  /\ SoundDb(work') /\ Stands(work, work')
         /\ LoadedSound(WithoutNext, work')
         /\ KeepsBalance(work, overwritten, work') /\ BooksApart(work, work')
<1>1. PICK o : o = NextOrder
  OBVIOUS
<1>2. PICK seen : seen = matcher.loaded[o]
  OBVIOUS
<1>3. o \in DOMAIN work.orders /\ CopySound(seen, work.orders[o])
  BY <1>1, <1>2 DEF IInv, MatcherSound, LoadedSound, MatcherWrites
<1>4. FillWithin(matcher.fill, seen.qty - seen.filled)
  BY <1>1, <1>2 DEF IInv, MatcherSound, MatcherWrites
<1>5. /\ SoundDb(work) /\ work \in Database /\ work.orders \in Seq(Order)
      /\ work.rows \in Seq(Row) /\ GoodRows(work.rows)
  BY DEF IInv, DataSound, SoundDb, Database
<1>6. PICK order \in Order : order = work.orders[o]
  BY <1>3, <1>5
<1>7. Charged(order) /\ order.filled <= order.qty /\ order.filled \in Nat
  BY <1>3, <1>5, <1>6 DEF SoundDb, SoundOrder, Order
<1>8. /\ seen.filled = order.filled /\ seen.qty = order.qty
      /\ seen.status \in {"OPEN", "PARTIALLY_FILLED"}
      /\ order.status \in {seen.status, "CANCELLED"}
  BY <1>3, <1>6 DEF CopySound, IsOpenOrder
<1>9. View = work
  BY DEF View, IInv, DataSound
<1>10. SUFFICES ASSUME NEW x \in Order, Becomes(work, o, work', x),
                       work' \in Database, GoodRows(work'.rows),
                       RowsStand(work.rows, work'.rows),
                       KeepsBalance(work, overwritten, work'), BooksApart(work, work')
                PROVE  /\ SoundDb(work') /\ Stands(work, work')
                       /\ LoadedSound(WithoutNext, work')
  <2>1. CASE matcher.refused
    <3>1. PICK x : x = Retire(order, seen, "REJECTED")
      OBVIOUS
    <3>2. work' = WithOrder(work, o, x)
      BY <1>1, <1>2, <1>6, <1>9, <2>1, <3>1 DEF MatcherWrites, WithOrder
    <3>3. /\ x \in Order /\ SoundOrder(x)
          /\ x.filled = order.filled /\ x.qty = order.qty
          /\ SameAccount(x, order)
      BY <1>7, <1>8, <3>1, RetireSound
    <3>4. x.filled >= work.orders[o].filled /\ x.qty = work.orders[o].qty
      BY <1>6, <1>7, <3>3
    <3>5. /\ work' \in Database /\ work'.rows = work.rows /\ work'.cash = work.cash
          /\ Becomes(work, o, work', x)
      BY <1>3, <1>5, <3>2, <3>3, <3>4, WithSoundOrder
    <3>6. GoodRows(work'.rows) /\ RowsStand(work.rows, work'.rows)
      BY <1>5, <3>5, StandsItself DEF Stands
    <3>7. KeepsBalance(work, overwritten, work') /\ BooksApart(work, work')
      <4>1. /\ work'.orders = [work.orders EXCEPT ![o] = x]
            /\ SameAccount(x, work.orders[o])
        BY <1>6, <3>3, <3>5 DEF Becomes
      <4>2. Restated(work, o, work', x)
        BY <3>4, <3>5, <4>1 DEF Restated
      <4> QED
        BY <1>3, <1>5, <3>3, <3>5, <4>1, <4>2, AccountKeeps, AccountApart
    <3> QED
      BY <1>10, <3>3, <3>5, <3>6, <3>7
  <2>2. CASE ~matcher.refused
    <3>1. PICK held : held = <<>>
      OBVIOUS
    <3>2. PICK terminal : terminal = FALSE
      OBVIOUS
    <3>3. PICK fill : fill = matcher.fill
      OBVIOUS
    <3>4. HeldFrom(held, work.rows)
      <4>1. DOMAIN held = {}
        BY <3>1
      <4> QED
        BY <4>1 DEF HeldFrom
    <3>5. work' = Execute(work, held, o, seen, fill, terminal)
      BY <1>1, <1>2, <1>9, <2>2, <3>1, <3>2, <3>3 DEF MatcherWrites
    <3>6. FillWithin(fill, work.orders[o].qty - work.orders[o].filled)
      BY <1>4, <1>6, <1>8, <3>3
    <3>7. /\ Charged(work.orders[o]) /\ seen.filled = work.orders[o].filled
          /\ seen.status \in {"PENDING", "OPEN", "PARTIALLY_FILLED"}
          /\ work.orders[o].status \in {seen.status, "CANCELLED"}
          /\ terminal \in BOOLEAN
      BY <1>6, <1>7, <1>8, <3>2
    <3>8. /\ work' \in Database /\ GoodRows(work'.rows) /\ RowsStand(work.rows, work'.rows)
          /\ \E x \in Order : Becomes(work, o, work', x) /\ Executes(work, held, o, work', x)
      BY <1>3, <1>5, <3>4, <3>5, <3>6, <3>7, ExecuteSound
    <3>9. PICK x \in Order : Becomes(work, o, work', x) /\ Executes(work, held, o, work', x)
      BY <3>8
    <3>10. Fresh(held, work.rows) /\ OneOpenEach(work.rows)
      <4>1. DOMAIN held = {}
        BY <3>1
      <4> QED
        BY <1>5, <4>1 DEF Fresh, GoodRows
    <3>11. KeepsBalance(work, overwritten, work')
      BY <1>3, <1>5, <3>4, <3>8, <3>9, <3>10, ExecutesKeeps
    <3>12. BooksApart(work, work')
      <4>1. x.qty = work.orders[o].qty
        BY <3>9 DEF Becomes
      <4> QED
        BY <1>3, <1>5, <3>4, <3>8, <3>9, <3>10, <4>1, ExecutesApart
    <3> QED
      BY <1>10, <3>8, <3>9, <3>11, <3>12
  <2> QED
    BY <2>1, <2>2
<1>11. SoundDb(work') /\ Stands(work, work')
  BY <1>3, <1>5, <1>10, OrderReplaced
<1>12. /\ DOMAIN work'.orders = DOMAIN work.orders
       /\ \A k \in DOMAIN work.orders : k # o => work'.orders[k] = work.orders[k]
  <2>1. work'.orders = [work.orders EXCEPT ![o] = x]
    BY <1>10 DEF Becomes
  <2> QED
    BY <1>5, <2>1
<1>13. LoadedSound(WithoutNext, work')
  BY <1>1, <1>12, WithoutNextSound DEF IInv, MatcherSound
<1> QED
  BY <1>11, <1>13

LEMMA WritesInv ==
  ASSUME IInv, MatcherWrites
  PROVE  IInv' /\ KeepsBalance(work, overwritten, work') /\ BooksApart(work, work')
<1>1. /\ SoundDb(work') /\ Stands(work, work')
      /\ LoadedSound(WithoutNext, work')
      /\ KeepsBalance(work, overwritten, work') /\ BooksApart(work, work')
  BY WritesSound
<1>2. locked' = TRUE /\ UNCHANGED <<db, sess, active, enabled, quote>>
  BY DEF MatcherWrites
<1>3. /\ SoundDb(db) /\ Stands(db, work)
      /\ db \in Database /\ work \in Database /\ work' \in Database
  BY <1>1 DEF IInv, DataSound, SoundDb
<1>4. Stands(db, work')
  BY <1>1, <1>3, StandsThrough
<1>5. DataSound'
  BY <1>1, <1>2, <1>3, <1>4 DEF DataSound
<1>6. SessionsSound'
  BY <1>2, <1>3, StandsItself, SessionsKeep DEF IInv
<1>7. matcher' = [pc |-> "next", loaded |-> WithoutNext, fill |-> NoFill, refused |-> FALSE]
  BY DEF MatcherWrites, Asleep
<1>8. MatcherSound'
  BY <1>1, <1>7 DEF MatcherSound
<1>9. Settings'
  BY <1>2, SettingsKeep DEF IInv
<1> QED
  BY <1>1, <1>5, <1>6, <1>8, <1>9 DEF IInv

LEMMA AsleepSound ==
  ASSUME matcher' = Asleep, locked' = FALSE
  PROVE  MatcherSound'
<1>1. DOMAIN <<>> = {}
  OBVIOUS
<1> QED
  BY <1>1 DEF MatcherSound, Asleep, LoadedSound

LEMMA CommitsInv ==
  ASSUME IInv, MatcherCommits
  PROVE  IInv' /\ Stands(db, db')
<1>1. /\ db' = work /\ work' = work /\ locked' = FALSE /\ matcher' = Asleep
      /\ UNCHANGED <<sess, active, enabled, quote>>
  BY DEF MatcherCommits, View, IInv, DataSound
<1>2. Stands(db, db') /\ SoundDb(work)
  BY <1>1 DEF IInv, DataSound
<1>3. DataSound'
  BY <1>1, <1>2, StandsItself DEF DataSound, SoundDb
<1>4. SessionsSound'
  BY <1>1, <1>2, SessionsKeep DEF IInv
<1>5. MatcherSound' /\ Settings'
  BY <1>1, AsleepSound, SettingsKeep DEF IInv
<1> QED
  BY <1>2, <1>3, <1>4, <1>5 DEF IInv

LEMMA RestartInv ==
  ASSUME IInv, Restart
  PROVE  IInv'
<1>1. /\ db' = db /\ work' = db /\ locked' = FALSE /\ matcher' = Asleep
      /\ sess' = [s \in Session |-> Idle]
      /\ quote' = [c \in Security |-> NoQuote] /\ UNCHANGED <<active, enabled>>
  BY DEF Restart
<1>2. DataSound'
  BY <1>1, StandsItself DEF IInv, DataSound, SoundDb
<1>3. SessionsSound'
  BY <1>1, IdleSound DEF SessionsSound
<1>4. MatcherSound'
  BY <1>1, AsleepSound
<1>5. Settings'
  BY <1>1 DEF IInv, Settings
<1> QED
  BY <1>2, <1>3, <1>4, <1>5 DEF IInv

-----------------------------------------------------------------------------
(* Every step.                                                             *)

\* A step that commits nothing.
LEMMA Unmoved ==
  ASSUME IInv, UNCHANGED db
  PROVE  Stands(db, db')
<1>1. Stands(db, db)
  BY StandsItself DEF IInv, DataSound, SoundDb
<1> QED
  BY <1>1

LEMMA SubmitsInv == ASSUME IInv, Submits PROVE IInv' /\ Stands(db, db')
<1>1. PICK s \in Session, given \in Portfolio \cup {Unspecified}, c \in Security,
           key \in Strategy \cup {Unspecified}, side \in Sides, type \in OrderTypes,
           qty \in Quantity, limit \in Limits :
        SubmitRead(s, given, c, key, side, type, qty, limit)
  BY DEF Submits
<1>2. UNCHANGED db
  BY <1>1 DEF SubmitRead
<1> QED
  BY <1>1, <1>2, SubmitReadInv, Unmoved

LEMMA ClosesInv == ASSUME IInv, Closes PROVE IInv' /\ Stands(db, db')
<1>1. PICK s \in Session, i \in DOMAIN db.rows, type \in OrderTypes, limit \in Limits :
        \E qty \in 1..Abs(db.rows[i].net) : CloseRead(s, i, type, qty, limit)
  BY DEF Closes
<1>2. PICK qty \in 1..Abs(db.rows[i].net) : CloseRead(s, i, type, qty, limit)
  BY <1>1
<1>3. UNCHANGED db
  BY <1>2 DEF CloseRead
<1> QED
  BY <1>2, <1>3, CloseReadInv, Unmoved

LEMMA UsersInv == ASSUME IInv, Users PROVE IInv' /\ Stands(db, db')
<1>1. CASE Submits
  BY <1>1, SubmitsInv
<1>2. CASE Closes
  BY <1>2, ClosesInv
<1>3. ASSUME NEW s \in Session, PlaceWrite(s) \/ CancelWrite(s) \/ WithdrawWrite(s)
      PROVE  IInv' /\ Stands(db, db')
  BY <1>3, PlaceWriteInv, CancelWriteInv, WithdrawWriteInv
<1>4. ASSUME NEW s \in Session, NEW o \in DOMAIN db.orders, CancelRead(s, o)
      PROVE  IInv' /\ Stands(db, db')
  <2>1. UNCHANGED db
    BY <1>4 DEF CancelRead
  <2> QED
    BY <1>4, <2>1, CancelReadInv, Unmoved
<1>5. ASSUME NEW s \in Session, NEW p \in Portfolio, NEW a \in Amounts, WithdrawRead(s, p, a)
      PROVE  IInv' /\ Stands(db, db')
  <2>1. UNCHANGED db
    BY <1>5 DEF WithdrawRead
  <2> QED
    BY <1>5, <2>1, WithdrawReadInv, Unmoved
<1>6. ASSUME NEW p \in Portfolio, NEW a \in Amounts, Deposit(p, a)
      PROVE  IInv' /\ Stands(db, db')
  BY <1>6, DepositInv
<1>7. ASSUME \/ \E p \in Portfolio, on \in BOOLEAN : SetActive(p, on)
             \/ \E k \in Strategy, on \in BOOLEAN : SetEnabled(k, on)
      PROVE  IInv' /\ Stands(db, db')
  <2>1. UNCHANGED db
    BY <1>7 DEF SetActive, SetEnabled
  <2> QED
    BY <1>7, <2>1, SwitchInv, Unmoved
<1> QED
  BY <1>1, <1>2, <1>3, <1>4, <1>5, <1>6, <1>7 DEF Users

LEMMA MatcherInv == ASSUME IInv, Matcher PROVE IInv' /\ Stands(db, db')
<1>1. CASE MatcherWakes
  BY <1>1, WakesInv, Unmoved DEF MatcherWakes
<1>2. CASE MatcherSkips
  BY <1>2, SkipsInv, Unmoved DEF MatcherSkips
<1>3. CASE MatcherDecides
  BY <1>3, DecidesInv, Unmoved DEF MatcherDecides
<1>4. CASE MatcherWrites
  BY <1>4, WritesInv, Unmoved DEF MatcherWrites
<1>5. CASE MatcherCommits
  BY <1>5, CommitsInv
<1> QED
  BY <1>1, <1>2, <1>3, <1>4, <1>5 DEF Matcher

LEMMA NextInv == IInv /\ [Next]_vars => IInv' /\ Stands(db, db')
<1> SUFFICES ASSUME IInv, [Next]_vars PROVE IInv' /\ Stands(db, db')
  OBVIOUS
<1>1. CASE Users
  BY <1>1, UsersInv
<1>2. CASE Matcher
  BY <1>2, MatcherInv
<1>3. CASE Market
  <2>1. PICK c \in Security, q \in Quotes : Tick(c, q)
    BY <1>3 DEF Market
  <2> QED
    BY <2>1, TickInv, Unmoved DEF Tick
<1>4. CASE Restart
  BY <1>4, RestartInv, Unmoved DEF Restart
<1>5. CASE UNCHANGED vars
  <2>1. UNCHANGED <<db, work, locked, sess, matcher>> /\ UNCHANGED <<active, enabled, quote>>
    BY <1>5 DEF vars
  <2>2. Settings'
    BY <2>1, SettingsKeep DEF IInv
  <2> QED
    BY <2>1, <2>2, QuietInv, Unmoved
<1> QED
  BY <1>1, <1>2, <1>3, <1>4, <1>5 DEF Next

\* What the invariant says of the stored orders and rows.
Sound ==
  /\ TypeOK /\ NeverOverfilled /\ StatusTellsFill /\ ChargesBookedOnce
  /\ OneOpenRow /\ OpenIffHolding

LEMMA IInvIsSound == IInv => Sound
<1> SUFFICES ASSUME IInv PROVE Sound
  OBVIOUS
<1>1. SoundDb(db) /\ SoundDb(work)
  BY DEF IInv, DataSound
<1>2. TypeOK
  <2>1. db \in Database /\ work \in Database /\ locked \in BOOLEAN
    BY <1>1 DEF IInv, DataSound, SoundDb
  <2>2. \A s \in Session : sess[s].kind \in {"idle", "place", "cancel", "withdraw"}
    BY DEF IInv, SessionsSound, SessionSound
  <2>3. /\ matcher.pc \in {"asleep", "next", "decided"}
        /\ \A o \in DOMAIN matcher.loaded : matcher.loaded[o] \in Order
    BY DEF IInv, MatcherSound, LoadedSound, CopySound
  <2> QED
    BY <2>1, <2>2, <2>3 DEF TypeOK, IInv, Settings
<1>3. ASSUME NEW o \in DOMAIN db.orders
      PROVE  /\ db.orders[o].filled \in Nat /\ db.orders[o].qty \in Nat
             /\ SoundOrder(db.orders[o])
  <2>1. db.orders \in Seq(Order)
    BY <1>1 DEF SoundDb, Database
  <2>2. db.orders[o] \in Order
    BY <2>1
  <2> QED
    BY <1>1, <2>2 DEF SoundDb, Order
<1>4. NeverOverfilled
  BY <1>3 DEF NeverOverfilled, SoundOrder
<1>5. StatusTellsFill
  BY <1>3 DEF StatusTellsFill, SoundOrder
<1>6. ChargesBookedOnce
  BY <1>3 DEF ChargesBookedOnce, SoundOrder, Charged
<1>7. OneOpenRow /\ OpenIffHolding
  BY <1>1 DEF SoundDb, GoodRows, OneOpenRow, OpenIffHolding
<1> QED
  BY <1>2, <1>4, <1>5, <1>6, <1>7 DEF Sound

(***************************************************************************)
(* For any number of portfolios, contracts, sessions and orders, and any   *)
(* interleaving of requests, matcher passes and restarts: no order is      *)
(* overfilled, its status tells its fill, its charges are booked once, and *)
(* a contract has at most one open row per portfolio, open exactly while   *)
(* it holds something (order_service.py, order_matcher.py,                 *)
(* position_service.py).                                                   *)
(***************************************************************************)
THEOREM OrdersAreSound ==
  Spec => [](/\ TypeOK /\ NeverOverfilled /\ StatusTellsFill /\ ChargesBookedOnce
             /\ OneOpenRow /\ OpenIffHolding)
<1>1. Init => IInv
  BY InitInv
<1>2. IInv /\ [Next]_vars => IInv'
  BY NextInv
<1>3. IInv => /\ TypeOK /\ NeverOverfilled /\ StatusTellsFill /\ ChargesBookedOnce
              /\ OneOpenRow /\ OpenIffHolding
  BY IInvIsSound DEF Sound
<1> QED
  BY <1>1, <1>2, <1>3, PTL DEF Spec

(***************************************************************************)
(* What an order is charged is booked once, at whatever mix of initial and *)
(* matcher fills it takes (order_service.py, _recompute_charges: the charge on *)
(* the whole executed quantity less what was booked before).               *)
(***************************************************************************)
THEOREM ChargesAreBookedOnce == Spec => []ChargesBookedOnce
  BY OrdersAreSound, PTL

(***************************************************************************)
(* No commit rewrites history, whatever copies its session held: a closed  *)
(* row stays as it is, no row or order disappears, and no order gives back *)
(* what it has executed.                                                   *)
(***************************************************************************)
THEOREM HistoryIsKept == Spec => HistoryStands
<1> DEFINE Kept ==
      /\ \A i \in DOMAIN db.rows :
           i \in DOMAIN db'.rows /\ (~db.rows[i].open => db'.rows[i] = db.rows[i])
      /\ \A o \in DOMAIN db.orders :
           o \in DOMAIN db'.orders /\ db'.orders[o].filled >= db.orders[o].filled
<1>1. Init => IInv
  BY InitInv
<1>2. IInv /\ [Next]_vars => IInv'
  BY NextInv
<1>3. IInv /\ [Next]_vars => [Kept]_db
  <2> SUFFICES ASSUME IInv, [Next]_vars PROVE Kept
    OBVIOUS
  <2>1. Stands(db, db')
    BY NextInv
  <2> QED
    BY <2>1 DEF Stands, RowsStand, RowKept
<1>4. Spec => [][Kept]_db
  <2> HIDE DEF Kept
  <2> QED
    BY <1>1, <1>2, <1>3, PTL DEF Spec
<1> QED
  BY <1>4 DEF HistoryStands

-----------------------------------------------------------------------------
(* The books.  A position that no stale close wrote over balances in what  *)
(* is committed and in what the matcher's open transaction would commit.   *)

Balance ==
  \A p \in Portfolio, c \in Security :
    <<p, c>> \notin overwritten => Balanced(db, p, c) /\ Balanced(work, p, c)

LEMMA InitBalance == Init => Balance
<1> SUFFICES ASSUME Init, NEW p \in Portfolio, NEW c \in Security
             PROVE  Balanced(db, p, c) /\ Balanced(work, p, c)
  BY DEF Balance
<1>1. db.orders = <<>> /\ db.rows = <<>> /\ work = db
  BY DEF Init
<1>2. db.orders \in Seq(Order) /\ db.rows \in Seq(Row)
  BY <1>1
<1>3. OrdersOf(db, p, c) = {} /\ RowsOf(db, p, c) = {}
  <2>1. DOMAIN db.orders = {} /\ DOMAIN db.rows = {}
    BY <1>1
  <2> QED
    BY <2>1 DEF OrdersOf, RowsOf
<1>4. /\ Executed(db, p, c) = 0 /\ OrdersMoney(db, p, c) = 0 /\ OrdersCharges(db, p, c) = 0
  BY <1>3, SumOfNothing DEF Executed, OrdersMoney, OrdersCharges
<1>5. Held(db, p, c) = 0 /\ RowsCharges(db, p, c) = 0
  BY <1>3, SumOfNothing DEF Held, RowsCharges
<1>6. MoneyAgrees(db, p, c)
  BY <1>3, <1>4 DEF MoneyAgrees
<1> QED
  BY <1>1, <1>4, <1>5, <1>6 DEF Balanced

LEMMA BalanceStays ==
  ASSUME Balance, UNCHANGED <<db, work, overwritten>>
  PROVE  Balance'
BY DEF Balance

\* A transaction of a request.
LEMMA BalanceMoves ==
  ASSUME Balance, overwritten \subseteq overwritten', work' = db',
         KeepsBalance(db, overwritten', db')
  PROVE  Balance'
<1> SUFFICES ASSUME NEW p \in Portfolio, NEW c \in Security, <<p, c>> \notin overwritten'
             PROVE  Balanced(db', p, c) /\ Balanced(work', p, c)
  BY DEF Balance
<1>1. Balanced(db, p, c)
  BY DEF Balance
<1> QED
  BY <1>1 DEF KeepsBalance

LEMMA UsersBalance == ASSUME IInv, Balance, Users PROVE Balance'
<1>1. CASE Submits
  BY <1>1, BalanceStays DEF Submits, SubmitRead
<1>2. CASE Closes
  BY <1>2, BalanceStays DEF Closes, CloseRead
<1>3. ASSUME NEW s \in Session, PlaceWrite(s) PROVE Balance'
  <2>1. overwritten \subseteq overwritten' /\ work' = db'
    BY <1>3 DEF PlaceWrite
  <2> QED
    BY <1>3, <2>1, PlaceWriteInv, BalanceMoves
<1>4. ASSUME NEW s \in Session, CancelWrite(s) PROVE Balance'
  <2>1. UNCHANGED overwritten /\ work' = db'
    BY <1>4 DEF CancelWrite
  <2> QED
    BY <1>4, <2>1, CancelWriteInv, BalanceMoves
<1>5. ASSUME NEW s \in Session, WithdrawWrite(s) PROVE Balance'
  <2>1. UNCHANGED overwritten /\ work' = db'
    BY <1>5 DEF WithdrawWrite
  <2> QED
    BY <1>5, <2>1, WithdrawWriteInv, BalanceMoves
<1>6. ASSUME NEW p \in Portfolio, NEW a \in Amounts, Deposit(p, a) PROVE Balance'
  <2>1. UNCHANGED overwritten /\ work' = db'
    BY <1>6 DEF Deposit
  <2> QED
    BY <1>6, <2>1, DepositInv, BalanceMoves
<1>7. ASSUME \/ \E s \in Session, o \in DOMAIN db.orders : CancelRead(s, o)
             \/ \E s \in Session, p \in Portfolio, a \in Amounts : WithdrawRead(s, p, a)
             \/ \E p \in Portfolio, on \in BOOLEAN : SetActive(p, on)
             \/ \E k \in Strategy, on \in BOOLEAN : SetEnabled(k, on)
      PROVE  Balance'
  BY <1>7, BalanceStays DEF CancelRead, WithdrawRead, SetActive, SetEnabled
<1> QED
  BY <1>1, <1>2, <1>3, <1>4, <1>5, <1>6, <1>7 DEF Users

LEMMA MatcherBalance == ASSUME IInv, Balance, Matcher PROVE Balance'
<1>1. CASE MatcherWakes \/ MatcherSkips \/ MatcherDecides
  BY <1>1, BalanceStays DEF MatcherWakes, MatcherSkips, MatcherDecides
<1>2. CASE MatcherWrites
  <2>1. KeepsBalance(work, overwritten, work')
    BY <1>2, WritesInv
  <2>2. UNCHANGED <<db, overwritten>>
    BY <1>2 DEF MatcherWrites
  <2> QED
    BY <2>1, <2>2 DEF Balance, KeepsBalance
<1>3. CASE MatcherCommits
  <2>1. db' = work /\ work' = work /\ UNCHANGED overwritten
    BY <1>3 DEF MatcherCommits, View, IInv, DataSound
  <2> QED
    BY <2>1 DEF Balance
<1> QED
  BY <1>1, <1>2, <1>3 DEF Matcher

LEMMA NextBalance == IInv /\ Balance /\ [Next]_vars => Balance'
<1> SUFFICES ASSUME IInv, Balance, [Next]_vars PROVE Balance'
  OBVIOUS
<1>1. CASE Users
  BY <1>1, UsersBalance
<1>2. CASE Matcher
  BY <1>2, MatcherBalance
<1>3. CASE Market
  BY <1>3, BalanceStays DEF Market, Tick
<1>4. CASE Restart
  <2>1. db' = db /\ work' = db /\ UNCHANGED overwritten
    BY <1>4 DEF Restart
  <2> QED
    BY <2>1 DEF Balance
<1>5. CASE UNCHANGED vars
  BY <1>5, BalanceStays DEF vars
<1> QED
  BY <1>1, <1>2, <1>3, <1>4, <1>5 DEF Next

(***************************************************************************)
(* "the reports and the positions screen can never disagree": for any      *)
(* number of fills, averaged, partly closed or flipped, by requests or by  *)
(* the matcher, the quantity the orders of a contract executed is the      *)
(* quantity its rows hold, unless a close wrote over a change of the row   *)
(* made since it was read (position_service.py, apply_fill).               *)
(***************************************************************************)
THEOREM PositionsAgreeWithFills == Spec => []PositionsMatchFills
<1>1. Init => IInv /\ Balance
  BY InitInv, InitBalance
<1>2. IInv /\ Balance /\ [Next]_vars => IInv' /\ Balance'
  BY NextInv, NextBalance
<1>3. IInv /\ Balance => PositionsMatchFills
  BY DEF Balance, Balanced, PositionsMatchFills
<1> QED
  BY <1>1, <1>2, <1>3, PTL DEF Spec

(***************************************************************************)
(* The ledger and the positions account for the same money: what the cash  *)
(* ledger moved for the orders of a contract is what its rows bought and   *)
(* sold, but for one money quantum per flip, and what it booked as charges *)
(* is what the rows accrued, over any history (order_service.py,           *)
(* _apply_fills; position_service.py, apply_fill).                         *)
(***************************************************************************)
THEOREM LedgerAgreesWithPositions == Spec => []LedgerMatchesPositions
<1>1. Init => IInv /\ Balance
  BY InitInv, InitBalance
<1>2. IInv /\ Balance /\ [Next]_vars => IInv' /\ Balance'
  BY NextInv, NextBalance
<1>3. IInv /\ Balance => LedgerMatchesPositions
  BY DEF Balance, Balanced, LedgerMatchesPositions
<1> QED
  BY <1>1, <1>2, <1>3, PTL DEF Spec

-----------------------------------------------------------------------------
(* The portfolios.  What the matcher's open transaction would commit keeps *)
(* them apart from what is committed, so its commit keeps them apart, and  *)
(* every request's write does so itself but for the ledger entries.        *)

PassApart == BooksApart(db, work)

\* A deposit or a withdrawal.
CashEntry(d, e) ==
  /\ e.orders = d.orders
  /\ \E p \in Portfolio, amount \in Amounts :
       \/ e.cash = [d.cash EXCEPT ![p] = @ + amount]
       \/ e.cash = [d.cash EXCEPT ![p] = @ - amount]

\* What any commit keeps: cash that no order explains is one entry.
CommitApart(d, e) == RowsApart(d, e) /\ (CashApart(d, e) \/ CashEntry(d, e))

LEMMA BooksApartCommit ==
  ASSUME NEW d, NEW e, BooksApart(d, e)
  PROVE  CommitApart(d, e)
BY DEF BooksApart, CommitApart

(* An entry commits as one.                                                *)
LEMMA EntryApart ==
  ASSUME NEW d \in Database, NEW p \in Portfolio, NEW amount \in Amounts,
         NEW left, left \in {d.cash[p] + amount, d.cash[p] - amount},
         NEW e, e = [d EXCEPT !.cash[p] = left]
  PROVE  CommitApart(d, e)
<1>1. d.orders \in Seq(Order) /\ d.cash \in [Portfolio -> Int] /\ amount \in Nat
  BY MoneyAssumption DEF Database
<1>2. e.orders = d.orders /\ e.rows = d.rows /\ e.cash = [d.cash EXCEPT ![p] = left]
  BY DEF Database
<1>3. RowsApart(d, e)
  BY <1>2, OrdersContinueItself, RowsApartSame
<1>4. CashEntry(d, e)
  <2>1. CASE left = d.cash[p] + amount
    <3>1. e.cash = [d.cash EXCEPT ![p] = @ + amount]
      BY <1>1, <1>2, <2>1
    <3> QED
      BY <1>2, <3>1 DEF CashEntry
  <2>2. CASE left = d.cash[p] - amount
    <3>1. e.cash = [d.cash EXCEPT ![p] = @ - amount]
      BY <1>1, <1>2, <2>2
    <3> QED
      BY <1>2, <3>1 DEF CashEntry
  <2> QED
    BY <2>1, <2>2
<1> QED
  BY <1>3, <1>4 DEF CommitApart

(* ... and moves one purse, by its amount.                                 *)
LEMMA EntryMovesOnePurse ==
  ASSUME NEW d \in Database, NEW e, CashEntry(d, e),
         NEW q \in Portfolio, Purse(e, q) # Purse(d, q)
  PROVE  Abs(Purse(e, q) - Purse(d, q)) \in Amounts /\ e.orders = d.orders
<1>1. d.orders \in Seq(Order) /\ d.cash \in [Portfolio -> Int] /\ e.orders = d.orders
  BY DEF Database, CashEntry
<1>2. PICK p \in Portfolio, amount \in Amounts :
        \/ e.cash = [d.cash EXCEPT ![p] = @ + amount]
        \/ e.cash = [d.cash EXCEPT ![p] = @ - amount]
  BY DEF CashEntry
<1>3. Settled(e, q) = Settled(d, q)
  BY <1>1 DEF Settled
<1>4. PICK s \in Int, c \in Int : s = Settled(d, q) /\ c = d.cash[q]
  BY <1>1, SettledTyped
<1>5. amount \in Nat
  BY MoneyAssumption
<1>6. q = p
  BY <1>1, <1>2, <1>3 DEF Purse
<1>7. e.cash[q] \in {c + amount, c - amount}
  BY <1>1, <1>2, <1>4, <1>6
<1>8. PICK c1 \in Int : c1 = e.cash[q]
  BY <1>4, <1>5, <1>7
<1>9. Purse(e, q) = c1 - s /\ Purse(d, q) = c - s
  BY <1>3, <1>4, <1>8 DEF Purse
<1>10. (c1 - s) - (c - s) \in {amount, -amount}
  BY <1>4, <1>5, <1>7, <1>8
<1>11. Abs(amount) = amount /\ Abs(-amount) = amount
  BY <1>5 DEF Abs
<1> QED
  BY <1>1, <1>9, <1>10, <1>11

\* What is committed is what the next transaction starts from.
LEMMA PassApartAnew ==
  ASSUME IInv', work' = db'
  PROVE  PassApart'
<1>1. db' \in Database
  BY DEF IInv, DataSound, SoundDb
<1>2. BooksApart(db', db')
  BY <1>1, BooksApartItself
<1> QED
  BY <1>2 DEF PassApart

LEMMA PassApartStays ==
  ASSUME IInv, PassApart, UNCHANGED <<db, work>>
  PROVE  PassApart' /\ CommitApart(db, db')
<1>1. db \in Database
  BY DEF IInv, DataSound, SoundDb
<1>2. BooksApart(db, db)
  BY <1>1, BooksApartItself
<1>3. CommitApart(db, db)
  BY <1>2, BooksApartCommit
<1> QED
  BY <1>3 DEF PassApart

LEMMA InitApart == Init => PassApart
<1> SUFFICES ASSUME Init PROVE PassApart
  OBVIOUS
<1>1. db \in Database
  BY InitInv DEF IInv, DataSound, SoundDb
<1>2. work = db
  BY DEF Init
<1>3. BooksApart(db, db)
  BY <1>1, BooksApartItself
<1> QED
  BY <1>2, <1>3, Zenon DEF PassApart

LEMMA UsersApart ==
  ASSUME IInv, IInv', PassApart, Users
  PROVE  PassApart' /\ CommitApart(db, db')
<1>1. CASE Submits \/ Closes
  <2>1. UNCHANGED <<db, work>>
    <3>1. CASE Submits
      BY <3>1 DEF Submits, SubmitRead
    <3>2. CASE Closes
      BY <3>2 DEF Closes, CloseRead
    <3> QED
      BY <1>1, <3>1, <3>2
  <2> QED
    BY <2>1, PassApartStays
<1>2. ASSUME NEW s \in Session, PlaceWrite(s) \/ CancelWrite(s)
      PROVE  PassApart' /\ CommitApart(db, db')
  <2>1. BooksApart(db, db')
    BY <1>2, PlaceWriteInv, CancelWriteInv
  <2>2. work' = db'
    BY <1>2 DEF PlaceWrite, CancelWrite
  <2> QED
    BY <2>1, <2>2, PassApartAnew, BooksApartCommit
<1>3. ASSUME NEW s \in Session, WithdrawWrite(s)
      PROVE  PassApart' /\ CommitApart(db, db')
  <2>1. PICK p, amount : p = sess[s].portfolio /\ amount = sess[s].amount
    OBVIOUS
  <2>2. p \in Portfolio /\ amount \in Amounts /\ db \in Database
    BY <1>3, <2>1 DEF IInv, DataSound, SoundDb, SessionsSound, SessionSound, WithdrawWrite
  <2>3. PICK left : left = db.cash[p] - amount
    OBVIOUS
  <2>4. db' = [db EXCEPT !.cash[p] = left] /\ work' = db'
    BY <1>3, <2>1, <2>3 DEF WithdrawWrite
  <2>5. CommitApart(db, db')
    BY <2>2, <2>3, <2>4, EntryApart
  <2> QED
    BY <2>4, <2>5, PassApartAnew
<1>4. ASSUME NEW p \in Portfolio, NEW amount \in Amounts, Deposit(p, amount)
      PROVE  PassApart' /\ CommitApart(db, db')
  <2>1. db \in Database
    BY DEF IInv, DataSound, SoundDb
  <2>2. PICK left : left = db.cash[p] + amount
    OBVIOUS
  <2>3. db' = [db EXCEPT !.cash[p] = left] /\ work' = db'
    BY <1>4, <2>2 DEF Deposit
  <2>4. CommitApart(db, db')
    BY <2>1, <2>2, <2>3, EntryApart
  <2> QED
    BY <2>3, <2>4, PassApartAnew
<1>5. ASSUME \/ \E s \in Session, o \in DOMAIN db.orders : CancelRead(s, o)
             \/ \E s \in Session, p \in Portfolio, a \in Amounts : WithdrawRead(s, p, a)
             \/ \E p \in Portfolio, on \in BOOLEAN : SetActive(p, on)
             \/ \E k \in Strategy, on \in BOOLEAN : SetEnabled(k, on)
      PROVE  PassApart' /\ CommitApart(db, db')
  BY <1>5, PassApartStays DEF CancelRead, WithdrawRead, SetActive, SetEnabled
<1> QED
  BY <1>1, <1>2, <1>3, <1>4, <1>5 DEF Users

LEMMA MatcherApart ==
  ASSUME IInv, IInv', PassApart, Matcher
  PROVE  PassApart' /\ CommitApart(db, db')
<1>1. CASE MatcherWakes \/ MatcherSkips \/ MatcherDecides
  BY <1>1, PassApartStays DEF MatcherWakes, MatcherSkips, MatcherDecides
<1>2. CASE MatcherWrites
  <2>1. BooksApart(db, work) /\ BooksApart(work, work')
    BY <1>2, WritesInv DEF PassApart
  <2>2. db \in Database /\ work \in Database /\ work' \in Database
    BY DEF IInv, DataSound, SoundDb
  <2>3. BooksApart(db, work')
    BY <2>1, <2>2, BooksApartThrough
  <2>4. db' = db
    BY <1>2 DEF MatcherWrites
  <2>5. CommitApart(db, db)
    BY <2>2, BooksApartItself, BooksApartCommit
  <2> QED
    BY <2>3, <2>4, <2>5 DEF PassApart
<1>3. CASE MatcherCommits
  <2>1. db' = work /\ work' = work
    BY <1>3 DEF MatcherCommits, View, IInv, DataSound
  <2>2. CommitApart(db, db')
    BY <2>1, BooksApartCommit DEF PassApart
  <2> QED
    BY <2>1, <2>2, PassApartAnew
<1> QED
  BY <1>1, <1>2, <1>3 DEF Matcher

LEMMA NextApart == IInv /\ PassApart /\ [Next]_vars => PassApart' /\ CommitApart(db, db')
<1> SUFFICES ASSUME IInv, PassApart, [Next]_vars PROVE PassApart' /\ CommitApart(db, db')
  OBVIOUS
<1>1. IInv'
  BY NextInv
<1>2. CASE Users
  BY <1>1, <1>2, UsersApart
<1>3. CASE Matcher
  BY <1>1, <1>3, MatcherApart
<1>4. CASE Market
  BY <1>4, PassApartStays DEF Market, Tick
<1>5. CASE Restart
  <2>1. db' = db /\ work' = db'
    BY <1>5 DEF Restart
  <2>2. db \in Database
    BY DEF IInv, DataSound, SoundDb
  <2>3. CommitApart(db, db)
    BY <2>2, BooksApartItself, BooksApartCommit
  <2> QED
    BY <1>1, <2>1, <2>3, PassApartAnew
<1>6. CASE UNCHANGED vars
  BY <1>6, PassApartStays DEF vars
<1> QED
  BY <1>2, <1>3, <1>4, <1>5, <1>6 DEF Next

\* The orders of a portfolio unchanged: none is new, none executed more.
LEMMA UnchangedIsQuiet ==
  ASSUME NEW d, NEW e, NEW p, OrdersHeldBy(e, p) = OrdersHeldBy(d, p)
  PROVE  Quiet(d, e, p)
<1> SUFFICES ASSUME NEW o \in DOMAIN e.orders, e.orders[o].portfolio = p
             PROVE  o \in DOMAIN d.orders /\ e.orders[o].filled = d.orders[o].filled
  BY DEF Quiet
<1>1. o \in DOMAIN OrdersHeldBy(e, p) /\ OrdersHeldBy(e, p)[o] = e.orders[o]
  BY DEF OrdersHeldBy
<1>2. o \in DOMAIN OrdersHeldBy(d, p) /\ OrdersHeldBy(d, p)[o] = e.orders[o]
  BY <1>1
<1>3. o \in DOMAIN d.orders /\ OrdersHeldBy(d, p)[o] = d.orders[o]
  BY <1>2 DEF OrdersHeldBy
<1> QED
  BY <1>2, <1>3

LEMMA CommitKeepsApart ==
  ASSUME NEW d \in Database, NEW e \in Database, CommitApart(d, e), NEW p \in Portfolio
  PROVE  /\ OrdersHeldBy(e, p) = OrdersHeldBy(d, p) => RowsHeldBy(e, p) = RowsHeldBy(d, p)
         /\ LET other == (e.cash[p] - d.cash[p]) - (Settled(e, p) - Settled(d, p))
            IN  other # 0 => Abs(other) \in Amounts /\ e.orders = d.orders
<1>1. OrdersHeldBy(e, p) = OrdersHeldBy(d, p) => RowsHeldBy(e, p) = RowsHeldBy(d, p)
  BY UnchangedIsQuiet DEF CommitApart, RowsApart
<1>2. /\ d.orders \in Seq(Order) /\ d.cash \in [Portfolio -> Int]
      /\ e.orders \in Seq(Order) /\ e.cash \in [Portfolio -> Int]
  BY DEF Database
<1>3. PICK c \in Int, s \in Int : c = d.cash[p] /\ s = Settled(d, p)
  BY <1>2, SettledTyped
<1>4. PICK c1 \in Int, s1 \in Int : c1 = e.cash[p] /\ s1 = Settled(e, p)
  BY <1>2, SettledTyped
<1>5. Purse(d, p) = c - s /\ Purse(e, p) = c1 - s1
  BY <1>3, <1>4 DEF Purse
<1>6. PICK other : other = (c1 - c) - (s1 - s)
  OBVIOUS
<1>7. other = Purse(e, p) - Purse(d, p) /\ (other # 0 => Purse(e, p) # Purse(d, p))
  BY <1>5, <1>6
<1>8. other # 0 => Abs(other) \in Amounts /\ e.orders = d.orders
  BY <1>7, EntryMovesOnePurse DEF CommitApart, CashApart
<1> QED
  BY <1>1, <1>3, <1>4, <1>6, <1>8

(***************************************************************************)
(* "Two portfolios holding the same strike are two separate books": no     *)
(* commit, of a request or of a matcher's pass over any number of orders,  *)
(* moves a row of a portfolio none of whose orders changed, and a          *)
(* portfolio's cash moves by exactly what its own orders record, or by one *)
(* deposit or withdrawal that changes no order (portfolio_service.py,      *)
(* order_service.py).                                                      *)
(***************************************************************************)
THEOREM PortfoliosStayApart == Spec => PortfoliosApart
<1> DEFINE Apart ==
      \A p \in Portfolio :
        /\ OrdersHeldBy(db', p) = OrdersHeldBy(db, p) => RowsHeldBy(db', p) = RowsHeldBy(db, p)
        /\ LET other == (db'.cash[p] - db.cash[p]) - (Settled(db', p) - Settled(db, p))
           IN  other # 0 => Abs(other) \in Amounts /\ db'.orders = db.orders
<1>1. Init => IInv /\ PassApart
  BY InitInv, InitApart
<1>2. IInv /\ PassApart /\ [Next]_vars => IInv' /\ PassApart'
  BY NextInv, NextApart
<1>3. IInv /\ PassApart /\ [Next]_vars => [Apart]_db
  <2> SUFFICES ASSUME IInv, PassApart, [Next]_vars PROVE Apart
    OBVIOUS
  <2>1. db \in Database /\ db' \in Database /\ CommitApart(db, db')
    BY NextInv, NextApart DEF IInv, DataSound, SoundDb
  <2> QED
    BY <2>1, CommitKeepsApart
<1>4. Spec => [][Apart]_db
  <2> HIDE DEF Apart
  <2> QED
    BY <1>1, <1>2, <1>3, PTL DEF Spec
<1> QED
  BY <1>4 DEF PortfoliosApart

-----------------------------------------------------------------------------
(* The statement of account.  What it says of an order, and of a database. *)

Line(x) ==
  [portfolio |-> x.portfolio, security |-> x.security, side |-> x.side,
   qty |-> x.qty, filled |-> x.filled, traded |-> x.traded, charged |-> x.booked]

LEMMA LineTyped ==
  ASSUME NEW x \in Order
  PROVE  Line(x) \in Statement!Order
BY DEF Line, Order, Statement!Order, Sides

LEMMA StatedLines ==
  ASSUME NEW d \in Database
  PROVE  /\ Stated(d) \in Seq(Statement!Order)
         /\ DOMAIN Stated(d) = DOMAIN d.orders
         /\ \A o \in DOMAIN d.orders : Stated(d)[o] = Line(d.orders[o])
<1>1. d.orders \in Seq(Order) /\ DOMAIN d.orders = 1..Len(d.orders) /\ Len(d.orders) \in Nat
  BY DEF Database
<1>2. Stated(d) = [o \in 1..Len(d.orders) |-> Line(d.orders[o])]
  BY <1>1 DEF Stated, Line
<1>3. \A o \in 1..Len(d.orders) : Line(d.orders[o]) \in Statement!Order
  BY <1>1, LineTyped
<1>4. Stated(d) \in [1..Len(d.orders) -> Statement!Order]
  BY <1>2, <1>3
<1>5. Stated(d) \in Seq(Statement!Order)
  BY <1>1, <1>4
<1> QED
  BY <1>1, <1>2, <1>5

\* A sound order that continues another is a later line of it ...
LEMMA LaterLine ==
  ASSUME NEW x, NEW y \in Order, SoundOrder(y), Continues(y, x)
  PROVE  Statement!Later(Line(y), Line(x))
BY DEF Line, Continues, SameOrder, SoundOrder, Charged, Statement!Later

\* ... and a new one, of itself unexecuted.
LEMMA NewLine ==
  ASSUME NEW y \in Order, SoundOrder(y), Continues(y, Blank(y))
  PROVE  Statement!Later(Line(y), Statement!Unexecuted(Line(y)))
<1>1. Statement!Later(Line(y), Line(Blank(y)))
  BY BlankOrder, LaterLine
<1>2. Line(Blank(y)) = Statement!Unexecuted(Line(y))
  <2>1. PICK z : z = Blank(y)
    OBVIOUS
  <2>2. /\ z.portfolio = y.portfolio /\ z.security = y.security /\ z.side = y.side
        /\ z.qty = y.qty /\ z.filled = 0 /\ z.traded = 0 /\ z.booked = y.booked
    BY <2>1, BlankOrder DEF SameOrder
  <2>3. Line(z) = [portfolio |-> y.portfolio, security |-> y.security, side |-> y.side,
                   qty |-> y.qty, filled |-> 0, traded |-> 0, charged |-> y.booked]
    BY <2>2 DEF Line
  <2>4. Statement!Unexecuted(Line(y)) =
          [portfolio |-> y.portfolio, security |-> y.security, side |-> y.side,
           qty |-> y.qty, filled |-> 0, traded |-> 0, charged |-> y.booked]
    <3>1. PICK l : l = Line(y)
      OBVIOUS
    <3>2. l = [portfolio |-> y.portfolio, security |-> y.security, side |-> y.side,
               qty |-> y.qty, filled |-> y.filled, traded |-> y.traded, charged |-> y.booked]
      BY <3>1 DEF Line
    <3>3. PICK half : half = [l EXCEPT !.filled = 0]
      OBVIOUS
    <3>4. half = [portfolio |-> y.portfolio, security |-> y.security, side |-> y.side,
                  qty |-> y.qty, filled |-> 0, traded |-> y.traded, charged |-> y.booked]
      BY <3>2, <3>3
    <3>5. [half EXCEPT !.traded = 0] =
            [portfolio |-> y.portfolio, security |-> y.security, side |-> y.side,
             qty |-> y.qty, filled |-> 0, traded |-> 0, charged |-> y.booked]
      BY <3>4
    <3>6. Statement!Unexecuted(l) = [half EXCEPT !.traded = 0]
      BY <3>3 DEF Statement!Unexecuted
    <3> QED
      BY <3>1, <3>5, <3>6
  <2> QED
    BY <2>1, <2>3, <2>4
<1> QED
  BY <1>1, <1>2

LEMMA StatementSettles ==
  ASSUME NEW d \in Database, NEW p
  PROVE  Statement!Settled(Stated(d), p) = Settled(d, p)
<1> DEFINE held == {o \in DOMAIN Stated(d) : Stated(d)[o].portfolio = p}
           moved == [o \in held |-> Stated(d)[o].traded - Stated(d)[o].charged]
<1>1. /\ DOMAIN Stated(d) = DOMAIN d.orders
      /\ \A o \in DOMAIN d.orders :
           /\ Stated(d)[o].portfolio = d.orders[o].portfolio
           /\ Stated(d)[o].traded = d.orders[o].traded
           /\ Stated(d)[o].charged = d.orders[o].booked
  <2>1. \A x : /\ Line(x).portfolio = x.portfolio
              /\ Line(x).traded = x.traded /\ Line(x).charged = x.booked
    BY DEF Line
  <2> QED
    BY <2>1, StatedLines
<1>2. held = PortfolioOrders(d, p)
  BY <1>1 DEF PortfolioOrders
<1>3. moved = SettledBy(d, p) /\ DOMAIN moved = held
  <2>1. \A o \in PortfolioOrders(d, p) : o \in DOMAIN d.orders
    BY DEF PortfolioOrders
  <2>2. moved = [o \in PortfolioOrders(d, p) |-> d.orders[o].traded - d.orders[o].booked]
    <3> HIDE DEF held
    <3>1. \A o \in held : Stated(d)[o].traded - Stated(d)[o].charged
                             = d.orders[o].traded - d.orders[o].booked
      BY <1>1, <1>2, <2>1
    <3> QED
      BY <1>2, <3>1
  <2> QED
    BY <2>2 DEF SettledBy
<1>4. Settled(d, p) = Sum(SettledBy(d, p))
  BY SettledTyped DEF Database
<1>5. Statement!Settled(Stated(d), p) = Statement!MapThenSumSet(LAMBDA o : moved[o], held)
  BY DEF Statement!Settled
<1> HIDE DEF held, moved
<1>6. Sum(moved) = Statement!MapThenSumSet(LAMBDA o : moved[o], held)
  BY <1>3 DEF Sum, MapThenSumSet, MapThenFoldSet, Statement!MapThenSumSet, Statement!MapThenFoldSet
<1> QED
  BY <1>3, <1>4, <1>5, <1>6

LEMMA RefinesInit == Init => Statement!Init
<1> SUFFICES ASSUME Init PROVE Statement!Init
  OBVIOUS
<1>1. db.orders = <<>> /\ db.cash = [p \in Portfolio |-> Opening]
  BY DEF Init
<1>2. DOMAIN db.orders = {}
  BY <1>1
<1>3. Stated(db) = [o \in {} |-> Line(db.orders[o])]
  BY <1>2 DEF Stated, Line
<1>4. \A f : f = [o \in {} |-> Line(db.orders[o])] => f = <<>>
  BY SMT
<1> QED
  BY <1>1, <1>3, <1>4 DEF Statement!Init

(* Orders placed or executed, and cash that only they moved.               *)
LEMMA RefinesTrade ==
  ASSUME SoundDb(db), SoundDb(db'), BooksApart(db, db')
  PROVE  Statement!Trade
<1>1. db \in Database /\ db' \in Database
  BY DEF SoundDb
<1>2. \A o \in DOMAIN db'.orders : db'.orders[o] \in Order /\ SoundOrder(db'.orders[o])
  BY <1>1 DEF SoundDb, Database
<1>3. Stated(db)' = Stated(db')
  BY DEF Stated
<1>4. ASSUME NEW o \in DOMAIN Stated(db)
      PROVE  /\ o \in DOMAIN Stated(db')
             /\ Statement!Later(Stated(db')[o], Stated(db)[o])
  <2>1. o \in DOMAIN db.orders /\ Stated(db)[o] = Line(db.orders[o])
    BY <1>1, <1>4, StatedLines
  <2>2. o \in DOMAIN db'.orders /\ Continues(db'.orders[o], db.orders[o])
    BY <2>1 DEF BooksApart, RowsApart, OrdersContinue
  <2>3. o \in DOMAIN Stated(db') /\ Stated(db')[o] = Line(db'.orders[o])
    BY <1>1, <2>2, StatedLines
  <2> QED
    BY <1>2, <2>1, <2>2, <2>3, LaterLine
<1>5. ASSUME NEW o \in DOMAIN Stated(db'), o \notin DOMAIN Stated(db)
      PROVE  Statement!Later(Stated(db')[o], Statement!Unexecuted(Stated(db')[o]))
  <2>1. o \in DOMAIN db'.orders /\ Stated(db')[o] = Line(db'.orders[o])
    BY <1>1, <1>5, StatedLines
  <2>2. o \notin DOMAIN db.orders
    BY <1>1, <1>5, StatedLines
  <2>3. Continues(db'.orders[o], Blank(db'.orders[o]))
    BY <2>1, <2>2 DEF BooksApart, RowsApart, OrdersContinue
  <2> QED
    BY <1>2, <2>1, <2>3, NewLine
<1>6. db'.cash = [p \in Portfolio |->
                    db.cash[p] + Statement!Settled(Stated(db'), p)
                               - Statement!Settled(Stated(db), p)]
  <2>1. ASSUME NEW p \in Portfolio
        PROVE  db'.cash[p] = db.cash[p] + Statement!Settled(Stated(db'), p)
                                        - Statement!Settled(Stated(db), p)
    <3>1. PICK c \in Int, s \in Int : c = db.cash[p] /\ s = Settled(db, p)
      BY <1>1, SettledTyped DEF Database
    <3>2. PICK c1 \in Int, s1 \in Int : c1 = db'.cash[p] /\ s1 = Settled(db', p)
      BY <1>1, SettledTyped DEF Database
    <3>3. c1 - s1 = c - s
      BY <3>1, <3>2 DEF BooksApart, CashApart, Purse
    <3>4. /\ Statement!Settled(Stated(db), p) = s
          /\ Statement!Settled(Stated(db'), p) = s1
      BY <1>1, <3>1, <3>2, StatementSettles
    <3>5. c1 = c + s1 - s
      BY <3>3
    <3> QED
      BY <3>1, <3>2, <3>4, <3>5
  <2>2. db'.cash \in [Portfolio -> Int]
    BY <1>1 DEF Database
  <2> QED
    BY <2>1, <2>2
<1>7. Stated(db') \in Seq(Statement!Order)
  BY <1>1, StatedLines
<1> QED
  BY <1>3, <1>4, <1>5, <1>6, <1>7 DEF Statement!Trade

(* A ledger entry.                                                         *)
LEMMA RefinesEntry ==
  ASSUME CashEntry(db, db')
  PROVE  \E p \in Portfolio, amount \in Amounts : Statement!Entry(p, amount)
<1>1. db'.orders = db.orders
  BY DEF CashEntry
<1>2. Stated(db)' = Stated(db)
  BY <1>1 DEF Stated
<1>3. PICK p \in Portfolio, amount \in Amounts :
        \/ db'.cash = [db.cash EXCEPT ![p] = @ + amount]
        \/ db'.cash = [db.cash EXCEPT ![p] = @ - amount]
  BY DEF CashEntry
<1>4. Statement!Entry(p, amount)
  BY <1>2, <1>3 DEF Statement!Entry
<1> QED
  BY <1>4

(***************************************************************************)
(* Every portfolio's account is what AccountStatement promises: whatever   *)
(* copies the requests and the matcher's passes worked on and in whatever  *)
(* order they committed, what an order is for never changes, what it       *)
(* executed is never given back or exceeded, its charges are the tariff on *)
(* all it executed, and the balance moves by exactly what the portfolio's  *)
(* orders settled in the commit, or by one entry of the owner's            *)
(* (order_service.py, balance_service.py).                                 *)
(***************************************************************************)
THEOREM OrdersKeepStatement == Spec => KeepsStatement
<1>1. Init => IInv /\ PassApart /\ Statement!Init
  BY InitInv, InitApart, RefinesInit
<1>2. IInv /\ PassApart /\ [Next]_vars => IInv' /\ PassApart'
  BY NextInv, NextApart
<1>3. IInv /\ PassApart /\ [Next]_vars => [Statement!Next]_<<Stated(db), db.cash>>
  <2> SUFFICES ASSUME IInv, PassApart, [Next]_vars PROVE Statement!Next
    OBVIOUS
  <2>1. SoundDb(db) /\ SoundDb(db') /\ CommitApart(db, db')
    BY NextInv, NextApart DEF IInv, DataSound
  <2>2. CASE CashApart(db, db')
    <3>1. BooksApart(db, db')
      BY <2>1, <2>2 DEF CommitApart, BooksApart
    <3> QED
      BY <2>1, <3>1, RefinesTrade DEF Statement!Next
  <2>3. CASE CashEntry(db, db')
    BY <2>3, RefinesEntry DEF Statement!Next
  <2> QED
    BY <2>1, <2>2, <2>3 DEF CommitApart
<1> QED
  BY <1>1, <1>2, <1>3, PTL DEF Spec, Statement!Spec, KeepsStatement
=============================================================================
