---------------------------- MODULE PositionBook ----------------------------
(***************************************************************************)
(* The position book on its own: a sequence of executions applied by       *)
(* PositionService.apply_fill, one after the other.  An execution is what  *)
(* OrderService._apply_fills hands over for one order against one view of  *)
(* the book: it is recorded as one fill per price level it consumed, and   *)
(* applied to the position as ONE fill at the rounded average price.       *)
(* The published five levels are abstracted to two, a near and a far one.  *)
(***************************************************************************)
EXTENDS PositionRows

CONSTANTS
  Portfolio, Security, Strategy,
  Price,        \* prices a level can show, in quanta
  Quantity,     \* quantities a level can supply
  Charge,       \* charges an execution can add
  VisibleLevels, \* how many levels the book shows: 1 or 2
  MaxExecutions

ASSUME PriceAssumption == Price \subseteq Nat \ {0}
ASSUME QuantityAssumption == Quantity \subseteq Nat \ {0}
ASSUME ChargeAssumption == Charge \subseteq Nat
ASSUME VisibleLevelsAssumption == VisibleLevels \in {1, 2}
ASSUME MaxExecutionsAssumption == MaxExecutions \in Nat

VARIABLES
  rows,   \* the positions table
  log     \* order_fills: every execution so far, oldest first

vars == <<rows, log>>

Level == [price : Price, qty : Quantity]
NoLevel == [price |-> 0, qty |-> 0]

Execution ==
  [portfolio : Portfolio, security : Security, strategy : Strategy, side : Sides,
   near : Level, far : Level \cup {NoLevel}, charges : Charge]

\* The far level is worse for the side that walks to it.
Walks(e) ==
  \/ e.far = NoLevel
  \/ /\ VisibleLevels = 2
     /\ \/ e.side = "BUY"  /\ e.far.price > e.near.price
        \/ e.side = "SELL" /\ e.far.price < e.near.price

\* FillResult.filled_quantity and FillResult.average_price
FilledQuantity(e) == e.near.qty + e.far.qty
AveragePrice(e) ==
  HalfUp(e.near.price * e.near.qty + e.far.price * e.far.qty, FilledQuantity(e))

\* The one fill the position sees.
FillOf(e) ==
  [portfolio |-> e.portfolio, security |-> e.security, strategy |-> e.strategy,
   side |-> e.side, qty |-> FilledQuantity(e), price |-> AveragePrice(e),
   charges |-> e.charges]

Init == rows = <<>> /\ log = <<>>

Execute(e) ==
  /\ Len(log) < MaxExecutions
  /\ Walks(e)
  /\ log' = Append(log, e)
  /\ rows' = ApplyFill(rows, <<>>, FillOf(e))

Next == \E e \in Execution : Execute(e)

Spec == Init /\ [][Next]_vars

-----------------------------------------------------------------------------
Row == RowIn(Portfolio, Security, Strategy)

(* Type invariant of the positions table and the fill log. *)
TypeOK == rows \in Seq(Row) /\ log \in Seq(Execution)

(***************************************************************************)
(* get_open_for_security is documented as finding "at most one open        *)
(* position per contract PER PORTFOLIO"; the table has no constraint that  *)
(* says so, so it rests on apply_fill never leaving two.                   *)
(***************************************************************************)
OneOpenRow == OneOpenEach(rows)

(* A row is open exactly while it holds something, and a closed row has no *)
(* average left that a later reader could mark against.                    *)
OpenIffHolding ==
  /\ OpenWhileHolding(rows)
  /\ \A i \in DOMAIN rows : ~rows[i].open => rows[i].avg = 0

(* The audit totals of every row explain its quantity, and a row never     *)
(* changes side during its life: the flip that would do so starts a row.   *)
TotalsExplainNet ==
  \A i \in DOMAIN rows : rows[i].net = rows[i].bought - rows[i].sold

-----------------------------------------------------------------------------
(* The book implements one signed quantity per portfolio and contract.     *)
Executed == [k \in DOMAIN log |->
               [portfolio |-> log[k].portfolio, security |-> log[k].security,
                side |-> log[k].side, qty |-> FilledQuantity(log[k])]]

Sizes == {a + b : a \in Quantity, b \in Quantity \cup {0}}

Net == [p \in Portfolio |-> [s \in Security |-> NetOf(rows, p, s)]]

Promise == INSTANCE NetPosition
             WITH Quantity <- Sizes, executed <- Executed, net <- Net

(* Every execution moves the held quantity of its own portfolio and        *)
(* contract by its size and no other: no fill is lost in a flip, and two   *)
(* portfolios holding one contract are two books.                          *)
ImplementsNetPosition == Promise!Spec
=============================================================================
