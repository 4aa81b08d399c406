----------------------------- MODULE PaperOrders -----------------------------
(***************************************************************************)
(* The paper-order core: orders/services/order_service.py and              *)
(* order_matcher.py, positions/services/position_service.py,               *)
(* positions/controllers/position_controller.py and                        *)
(* portfolios/services/{balance,portfolio}_service.py over one database.   *)
(*                                                                         *)
(* One process runs many coroutines, each with its own database session.   *)
(* On SQLite a session reads whatever is committed until its first write;  *)
(* that write takes the single write lock, held to the commit.  Objects a  *)
(* session loaded are not refreshed by its later reads.  So a request is   *)
(* two steps here: a READ step that validates against the committed state  *)
(* and remembers what it loaded, and a WRITE step that applies and commits *)
(* at once (nobody sees its intermediate states).  The matcher's pass is   *)
(* one transaction over many orders and is modelled step by step: `db' is  *)
(* what is committed and `work' what its open transaction holds.           *)
(***************************************************************************)
EXTENDS PositionRows, BookFills

CONSTANTS
  Portfolio, Security, Strategy,
  Claims,         \* the strategies that trade each security
  Session,        \* concurrent request sessions
  Events,         \* the kinds of event that happen
  OrderTypes,     \* the types of order they place
  Quantity,       \* order quantities
  Quotes,         \* what the book can show for a security
  Limits,         \* limit prices
  Brokerage,      \* charged once per executed order ...
  Levy,           \* ... and per unit executed
  MarginPercent,  \* of a short's notional
  Amounts,        \* deposits and withdrawals
  Opening,        \* the opening balance of each portfolio
  MaxOrders, MaxCash,
  Unspecified     \* an argument the caller left out

ASSUME ClaimsAssumption == Claims \in [Security -> SUBSET Strategy]
ASSUME QuantityAssumption == Quantity \subseteq Nat \ {0}
ASSUME QuotesAssumption == Quotes \subseteq [bid : Nat, ask : Nat, ltp : Nat]
ASSUME LimitsAssumption == Limits \subseteq Nat \ {0}
ASSUME OrderTypesAssumption == OrderTypes \subseteq {"MARKET", "LIMIT"}
ASSUME MoneyAssumption ==
  /\ Brokerage \in Nat /\ Levy \in Nat /\ MarginPercent \in Nat
  /\ Opening \in Nat /\ Amounts \subseteq Nat \ {0}
ASSUME UnspecifiedAssumption == Unspecified \notin Portfolio \cup Strategy

VARIABLES
  db,       \* the committed database: orders, positions, cash
  work,     \* what the matcher's open transaction would commit
  locked,   \* the matcher's transaction holds the write lock
  sess,     \* per request session: idle, or what it has read so far
  matcher,  \* the matcher's pass
  active,   \* per portfolio: not archived
  enabled,  \* per strategy: switched on (an in-memory registry)
  quote,    \* the in-memory book
  overwritten  \* history: the positions a close wrote over what it had not read

vars == <<db, work, locked, sess, matcher, active, enabled, quote, overwritten>>

Idle == [kind |-> "idle"]
Asleep == [pc |-> "asleep", loaded |-> <<>>, fill |-> NoFill, refused |-> FALSE]
NoQuote == [bid |-> 0, ask |-> 0, ltp |-> 0]

Init ==
  /\ db = [orders |-> <<>>, rows |-> <<>>, cash |-> [p \in Portfolio |-> Opening]]
  /\ work = db
  /\ locked = FALSE
  /\ sess = [s \in Session |-> Idle]
  /\ matcher = Asleep
  /\ active = [p \in Portfolio |-> TRUE]
  /\ enabled = [k \in Strategy |-> TRUE]
  /\ quote = [c \in Security |-> NoQuote]
  /\ overwritten = {}

-----------------------------------------------------------------------------
(* Money.                                                                  *)

\* The charges of one executed order.
ChargeOn(qty) == IF qty = 0 THEN 0 ELSE Brokerage + Levy * qty

\* Charging every fill as if it were an order of its own.
ChargePerFill(charged, filled, qty) == charged + ChargeOn(qty)

\* _recompute_charges: on the cumulative executed quantity of the order.
RecomputeCharges(charged, filled, qty) == ChargeOn(filled)

\* BalanceService.margin_estimate: only a short ties money up.
Margin(row) ==
  IF row.net >= 0 THEN 0
  ELSE HalfUp(MarginPercent * Abs(row.net) * row.avg, 100 * MoneyUnit)

Blocked(d, p) ==
  MapThenSumSet(LAMBDA i : Margin(d.rows[i]),
                {i \in DOMAIN d.rows : d.rows[i].open /\ d.rows[i].portfolio = p})

Available(d, p) == d.cash[p] - Blocked(d, p)

\* _estimated_debit
EstimatedDebit(side, qty, price) ==
  LET consideration == Worth(price, qty)
      charges == ChargeOn(qty)
      margin == HalfUp(MarginPercent * consideration, 100)
  IN  IF side = "BUY" THEN consideration + charges
      ELSE IF margin > consideration THEN margin - consideration + charges
      ELSE charges

\* _check_funds: a closing order is never refused.
Affordable(d, p, side, qty, price, close) ==
  \/ close
  \/ EstimatedDebit(side, qty, price) <= 0
  \/ EstimatedDebit(side, qty, price) <= Available(d, p)

-----------------------------------------------------------------------------
(* Writing an order.  `seen' is the order as this session loaded it; an    *)
(* UPDATE writes the columns that differ from it.                          *)

FinalStatuses == {"FILLED", "CANCELLED", "REJECTED"}

SetStatus(stored, seen, status) == Column(stored.status, seen.status, status)

\* What a fill adds to its order.
Credit(order, filled, total, moved, added) ==
  [order EXCEPT !.filled = filled, !.charged = total,
                !.traded = @ + moved, !.booked = @ + added]

\* _apply_fills and _record_cash_effect
ApplyFills(d, held, o, seen, fill) ==
  LET order  == d.orders[o]
      filled == seen.filled + fill.qty
      total  == RecomputeCharges(order.charged, filled, fill.qty)
      added  == total - order.charged
      value  == Worth(fill.price, fill.qty)
      moved  == IF order.side = "BUY" THEN -value ELSE value
  IN  [orders |-> [d.orders EXCEPT ![o] = Credit(@, filled, total, moved, added)],
       rows   |-> ApplyFill(d.rows, held,
                    [portfolio |-> order.portfolio, security |-> order.security,
                     strategy |-> order.strategy, side |-> order.side,
                     qty |-> fill.qty, price |-> fill.price, charges |-> added]),
       cash   |-> [d.cash EXCEPT ![order.portfolio] = @ + moved - added]]

\* A completion test that wants more than the whole quantity.
FinaliseStrictly(order, seen, terminalWhenIncomplete) ==
  LET complete == order.filled > order.qty
  IN  [order EXCEPT !.status = SetStatus(order, seen, IF complete THEN "FILLED"
                                                      ELSE "PARTIALLY_FILLED"),
                    !.completed = @ \/ complete \/ terminalWhenIncomplete]

\* _finalise
Finalise(order, seen, terminalWhenIncomplete) ==
  LET complete == order.filled >= order.qty
  IN  [order EXCEPT !.status = SetStatus(order, seen, IF complete THEN "FILLED"
                                                      ELSE "PARTIALLY_FILLED"),
                    !.completed = @ \/ complete \/ terminalWhenIncomplete]

\* An UPDATE of every column, as the session loaded them.
RetireWhole(order, seen, status) == [seen EXCEPT !.status = status, !.completed = TRUE]

\* _reject and cancel_paper_order: out of the book, whatever has executed.
Retire(order, seen, status) ==
  [order EXCEPT !.status = SetStatus(order, seen, status), !.completed = TRUE]

\* A fill and what it leaves of the order.
Execute(d, held, o, seen, fill, terminalWhenIncomplete) ==
  LET executed == ApplyFills(d, held, o, seen, fill)
  IN  [executed EXCEPT !.orders[o] = Finalise(@, seen, terminalWhenIncomplete)]

\* _attempt_initial_fill, for the order just inserted as the last one.
AttemptInitialFill(d, held, fill) ==
  LET o     == Len(d.orders)
      order == d.orders[o]
  IN  IF fill.qty > 0 THEN Execute(d, held, o, order, fill, order.type = "MARKET")
      ELSE IF order.type = "MARKET"
           THEN [d EXCEPT !.orders[o] = Retire(@, order, "REJECTED")]
           ELSE [d EXCEPT !.orders[o].status = "OPEN"]

InitialFills(r, q) ==
  IF r.type = "MARKET" THEN MarketableFills(r.side, r.qty, q, FALSE, 0)
  ELSE IF IsMarketable(r.side, r.limit, q)
       THEN MarketableFills(r.side, r.qty, q, TRUE, r.limit)
       ELSE {NoFill}

NewOrder(r) ==
  [portfolio |-> r.portfolio, security |-> r.security, strategy |-> r.strategy,
   side |-> r.side, type |-> r.type, qty |-> r.qty, limit |-> r.limit,
   close |-> r.close, status |-> "PENDING", filled |-> 0, completed |-> FALSE,
   charged |-> 0, traded |-> 0, booked |-> 0]

-----------------------------------------------------------------------------
(* Requests.                                                               *)

\* resolve_for_trading
ResolvePortfolio(given) ==
  LET trading == {p \in Portfolio : active[p]}
  IN  IF given # Unspecified THEN {given} \cap trading
      ELSE IF Cardinality(trading) = 1 THEN trading ELSE {}

\* _resolve_strategy
ResolveStrategy(c, key, p, close) ==
  LET ids == OpenIds(db.rows, p, c)
  IN  IF key # Unspecified THEN {key} \cap Claims[c]
      ELSE IF Cardinality(Claims[c]) = 1 THEN Claims[c]
      ELSE IF close /\ ids # {} THEN {db.rows[Newest(ids)].strategy} \cap Claims[c]
      ELSE {}

\* The price the funds check at placement uses; 0 when there is none.
ReferencePrice(r) ==
  IF r.type = "LIMIT" THEN r.limit
  ELSE IF quote[r.security].ask > 0 THEN quote[r.security].ask
  ELSE quote[r.security].ltp

\* The rest of the validation block of submit_paper_order.
Accepts(r) ==
  /\ r.close \/ enabled[r.strategy]
  /\ \/ ReferencePrice(r) = 0
     \/ Affordable(db, r.portfolio, r.side, r.qty, ReferencePrice(r), r.close)

\* A market order has no limit price.
LimitOf(type, limit) == IF type = "LIMIT" THEN limit ELSE 0

\* An order that passed validation waits for its first write.
Placing(s, r, held) ==
  sess' = [sess EXCEPT ![s] = [kind |-> "place", request |-> r, held |-> held]]

SubmitRead(s, given, c, key, side, type, qty, limit) ==
  /\ "submit" \in Events
  /\ sess[s] = Idle
  /\ Len(db.orders) < MaxOrders
  /\ \E p \in ResolvePortfolio(given), k \in ResolveStrategy(c, key, given, FALSE) :
       LET r == [portfolio |-> p, security |-> c, strategy |-> k, side |-> side,
                 type |-> type, qty |-> qty, limit |-> LimitOf(type, limit), close |-> FALSE]
       IN  Accepts(r) /\ Placing(s, r, <<>>)
  /\ UNCHANGED <<db, work, locked, matcher, active, enabled, quote, overwritten>>

\* PositionController.close_position: it keeps the row it loaded.
CloseRead(s, i, type, qty, limit) ==
  LET row == db.rows[i]
  IN  /\ "close" \in Events
      /\ sess[s] = Idle
      /\ Len(db.orders) < MaxOrders
      /\ row.open /\ qty <= Abs(row.net)
      /\ \E p \in ResolvePortfolio(row.portfolio),
            k \in ResolveStrategy(row.security, Unspecified, row.portfolio, TRUE) :
           LET r == [portfolio |-> p, security |-> row.security, strategy |-> k,
                     side |-> IF row.net > 0 THEN "SELL" ELSE "BUY",
                     type |-> type, qty |-> qty, limit |-> LimitOf(type, limit), close |-> TRUE]
           IN  Accepts(r) /\ Placing(s, r, [id \in {i} |-> row])
      /\ UNCHANGED <<db, work, locked, matcher, active, enabled, quote, overwritten>>

\* The fill of a close is worked out from an open row that has changed since.
Overwrites(r, held, fill) ==
  IF fill.qty > 0 /\ \E i \in DOMAIN held : db.rows[i].open /\ held[i] # db.rows[i]
  THEN {<<r.portfolio, r.security>>} ELSE {}

\* submit_paper_order from its first flush to the commit.
PlaceWrite(s) ==
  /\ sess[s].kind = "place"
  /\ ~locked
  /\ Len(db.orders) < MaxOrders
  /\ LET r == sess[s].request
     IN  \E fill \in InitialFills(r, quote[r.security]) :
           /\ db' = AttemptInitialFill([db EXCEPT !.orders = Append(@, NewOrder(r))],
                                       sess[s].held, fill)
           /\ overwritten' = overwritten \cup Overwrites(r, sess[s].held, fill)
  /\ work' = db'
  /\ sess' = [sess EXCEPT ![s] = Idle]
  /\ UNCHANGED <<locked, matcher, active, enabled, quote>>

\* cancel_paper_order up to its checks ...
CancelRead(s, o) ==
  /\ "cancel" \in Events
  /\ sess[s] = Idle
  /\ db.orders[o].status \notin FinalStatuses
  /\ sess' = [sess EXCEPT ![s] = [kind |-> "cancel", order |-> o, seen |-> db.orders[o]]]
  /\ UNCHANGED <<db, work, locked, matcher, active, enabled, quote, overwritten>>

\* ... and its write.
CancelWrite(s) ==
  /\ sess[s].kind = "cancel"
  /\ ~locked
  /\ db' = [db EXCEPT !.orders[sess[s].order] = Retire(@, sess[s].seen, "CANCELLED")]
  /\ work' = db'
  /\ sess' = [sess EXCEPT ![s] = Idle]
  /\ UNCHANGED <<locked, matcher, active, enabled, quote, overwritten>>

Deposit(p, amount) ==
  /\ "deposit" \in Events
  /\ ~locked
  /\ db.cash[p] + amount <= MaxCash
  /\ db' = [db EXCEPT !.cash[p] = @ + amount]
  /\ work' = db'
  /\ UNCHANGED <<locked, sess, matcher, active, enabled, quote, overwritten>>

WithdrawRead(s, p, amount) ==
  /\ "withdraw" \in Events
  /\ sess[s] = Idle
  /\ amount <= Available(db, p)
  /\ sess' = [sess EXCEPT ![s] = [kind |-> "withdraw", portfolio |-> p, amount |-> amount]]
  /\ UNCHANGED <<db, work, locked, matcher, active, enabled, quote, overwritten>>

WithdrawWrite(s) ==
  /\ sess[s].kind = "withdraw"
  /\ ~locked
  /\ db' = [db EXCEPT !.cash[sess[s].portfolio] = @ - sess[s].amount]
  /\ work' = db'
  /\ sess' = [sess EXCEPT ![s] = Idle]
  /\ UNCHANGED <<locked, matcher, active, enabled, quote, overwritten>>

\* PortfolioService.archive and restore
SetActive(p, on) ==
  /\ "archive" \in Events
  /\ ~locked
  /\ active' = [active EXCEPT ![p] = on]
  /\ UNCHANGED <<db, work, locked, sess, matcher, enabled, quote, overwritten>>

\* The strategy switch: the registry is in memory, no lock is involved.
SetEnabled(k, on) ==
  /\ "switch" \in Events
  /\ enabled' = [enabled EXCEPT ![k] = on]
  /\ UNCHANGED <<db, work, locked, sess, matcher, active, quote, overwritten>>

\* The feed moves the book.
Tick(c, q) ==
  /\ quote' = [quote EXCEPT ![c] = q]
  /\ UNCHANGED <<db, work, locked, sess, matcher, active, enabled, overwritten>>

-----------------------------------------------------------------------------
(* The matcher: OrderMatcher.run_once over try_fill_open_orders.           *)

\* list_open_orders
IsOpenOrder(order) ==
  order.status \in {"OPEN", "PARTIALLY_FILLED"} /\ ~order.completed

OpenOrders(d) == {o \in DOMAIN d.orders : IsOpenOrder(d.orders[o])}

\* What the matcher's session sees now, and the order it is working on.
View == IF locked THEN work ELSE db
NextOrder == CHOOSE o \in DOMAIN matcher.loaded : \A x \in DOMAIN matcher.loaded : o <= x
WithoutNext == [o \in DOMAIN matcher.loaded \ {NextOrder} |-> matcher.loaded[o]]

MatcherWakes ==
  /\ matcher.pc = "asleep"
  /\ OpenOrders(db) # {}
  /\ matcher' = [Asleep EXCEPT !.pc = "next",
                               !.loaded = [o \in OpenOrders(db) |-> db.orders[o]]]
  /\ UNCHANGED <<db, work, locked, sess, active, enabled, quote, overwritten>>

CanFill(order) ==
  /\ order.type = "LIMIT"
  /\ enabled[order.strategy]
  /\ order.qty > order.filled

\* What is left of the copy is matched against the book.
FillsFor(order) ==
  RestingFills(order.side, order.qty - order.filled, order.limit, quote[order.security])

\* A pass that does not step over an order it cannot fill.
MatcherStalls ==
  /\ matcher.pc = "next" /\ DOMAIN matcher.loaded # {}
  /\ LET order == matcher.loaded[NextOrder]
     IN  ~CanFill(order) \/ FillsFor(order) = {NoFill}
  /\ UNCHANGED vars

MatcherSkips ==
  /\ matcher.pc = "next" /\ DOMAIN matcher.loaded # {}
  /\ LET order == matcher.loaded[NextOrder]
     IN  ~CanFill(order) \/ FillsFor(order) = {NoFill}
  /\ matcher' = [matcher EXCEPT !.loaded = WithoutNext]
  /\ UNCHANGED <<db, work, locked, sess, active, enabled, quote, overwritten>>

\* The fill is simulated and the funds are checked again, before any write.
MatcherDecides ==
  /\ matcher.pc = "next" /\ DOMAIN matcher.loaded # {}
  /\ LET order == matcher.loaded[NextOrder]
     IN  /\ CanFill(order)
         /\ \E fill \in FillsFor(order) \ {NoFill} :
              matcher' = [matcher EXCEPT
                !.pc = "decided",
                !.fill = fill,
                !.refused = ~Affordable(View, order.portfolio, order.side, fill.qty,
                                        fill.price, order.close)]
  /\ UNCHANGED <<db, work, locked, sess, active, enabled, quote, overwritten>>

\* The first of these writes of a pass takes the lock.
MatcherWrites ==
  /\ matcher.pc = "decided"
  /\ LET seen == matcher.loaded[NextOrder]
     IN  work' = IF matcher.refused
                 THEN [View EXCEPT !.orders[NextOrder] = Retire(@, seen, "REJECTED")]
                 ELSE Execute(View, <<>>, NextOrder, seen, matcher.fill, FALSE)
  /\ locked' = TRUE
  /\ matcher' = [Asleep EXCEPT !.pc = "next", !.loaded = WithoutNext]
  /\ UNCHANGED <<db, sess, active, enabled, quote, overwritten>>

MatcherCommits ==
  /\ matcher.pc = "next" /\ DOMAIN matcher.loaded = {}
  /\ db' = View
  /\ work' = View
  /\ locked' = FALSE
  /\ matcher' = Asleep
  /\ UNCHANGED <<sess, active, enabled, quote, overwritten>>

\* A restart between any two steps: what was not committed is gone, the
\* book is empty until the feed is back.
Restart ==
  /\ "restart" \in Events
  /\ work' = db
  /\ locked' = FALSE
  /\ sess' = [s \in Session |-> Idle]
  /\ matcher' = Asleep
  /\ quote' = [c \in Security |-> NoQuote]
  /\ UNCHANGED <<db, active, enabled, overwritten>>

-----------------------------------------------------------------------------
Submits ==
  \E s \in Session, given \in Portfolio \cup {Unspecified}, c \in Security,
     key \in Strategy \cup {Unspecified}, side \in Sides, type \in OrderTypes,
     qty \in Quantity, limit \in Limits :
    SubmitRead(s, given, c, key, side, type, qty, limit)

Closes ==
  \E s \in Session, i \in DOMAIN db.rows, type \in OrderTypes, limit \in Limits :
    \E qty \in 1..Abs(db.rows[i].net) : CloseRead(s, i, type, qty, limit)

Users ==
  \/ Submits
  \/ Closes
  \/ \E s \in Session : PlaceWrite(s) \/ CancelWrite(s) \/ WithdrawWrite(s)
  \/ \E s \in Session, o \in DOMAIN db.orders : CancelRead(s, o)
  \/ \E s \in Session, p \in Portfolio, a \in Amounts : WithdrawRead(s, p, a)
  \/ \E p \in Portfolio, a \in Amounts : Deposit(p, a)
  \/ \E p \in Portfolio, on \in BOOLEAN : SetActive(p, on)
  \/ \E k \in Strategy, on \in BOOLEAN : SetEnabled(k, on)

Matcher ==
  MatcherWakes \/ MatcherSkips \/ MatcherDecides \/ MatcherWrites \/ MatcherCommits

Market == \E c \in Security, q \in Quotes : Tick(c, q)

Next == Users \/ Matcher \/ Market \/ Restart

Spec == Init /\ [][Next]_vars

\* The matcher's loop wakes every 250 ms for as long as the process runs.
FairSpec == Spec /\ WF_vars(Matcher)

-----------------------------------------------------------------------------
Order ==
  [portfolio : Portfolio, security : Security, strategy : Strategy,
   side : Sides, type : {"MARKET", "LIMIT"}, qty : Nat \ {0}, limit : Nat,
   close : BOOLEAN,
   status : {"PENDING", "OPEN", "PARTIALLY_FILLED", "FILLED", "CANCELLED", "REJECTED"},
   filled : Nat, completed : BOOLEAN, charged : Nat, traded : Int, booked : Nat]

Row == RowIn(Portfolio, Security, Strategy)

Database == [orders : Seq(Order), rows : Seq(Row), cash : [Portfolio -> Int]]

(* Type invariant of everything that is stored or remembered. *)
TypeOK ==
  /\ db \in Database /\ work \in Database
  /\ locked \in BOOLEAN
  /\ \A s \in Session : sess[s].kind \in {"idle", "place", "cancel", "withdraw"}
  /\ matcher.pc \in {"asleep", "next", "decided"}
  /\ \A o \in DOMAIN matcher.loaded : matcher.loaded[o] \in Order
  /\ active \in [Portfolio -> BOOLEAN] /\ enabled \in [Strategy -> BOOLEAN]
  /\ quote \in [Security -> Quotes \cup {NoQuote}]

(***************************************************************************)
(* No order ever executes more than was asked.  The matcher computes what  *)
(* is left from a copy of the order it loaded at the start of its pass,    *)
(* while cancels, other placements and a restart go on around it.          *)
(***************************************************************************)
NeverOverfilled == \A o \in DOMAIN db.orders : db.orders[o].filled <= db.orders[o].qty

(***************************************************************************)
(* A status never lies about the execution: what is FILLED is filled, what *)
(* is OPEN has not traded and can still be matched, a PARTIALLY_FILLED     *)
(* order has traded some and not all, no order is left PENDING.            *)
(***************************************************************************)
StatusTellsFill ==
  \A o \in DOMAIN db.orders :
    LET order == db.orders[o]
    IN  /\ order.status # "PENDING"
        /\ order.status = "FILLED" => order.filled = order.qty
        /\ order.status = "OPEN" => order.filled = 0 /\ ~order.completed
        /\ order.status = "PARTIALLY_FILLED" => order.filled \in 1..(order.qty - 1)

(***************************************************************************)
(* "brokerage is counted exactly once however many fills the order takes": *)
(* the charges the ledger booked for an order are those of its cumulative  *)
(* quantity, through every mix of initial fill, matcher fills, rejects.    *)
(***************************************************************************)
ChargesBookedOnce ==
  \A o \in DOMAIN db.orders :
    LET order == db.orders[o]
    IN  order.booked = ChargeOn(order.filled) /\ order.charged = order.booked

(***************************************************************************)
(* "At most one open position per contract PER PORTFOLIO", which no        *)
(* constraint of the table enforces, with several sessions opening,        *)
(* closing and flipping positions from what they read earlier.             *)
(***************************************************************************)
OneOpenRow == OneOpenEach(db.rows)

(* A row is open exactly while it holds something: a row left open at zero *)
(* would swallow the next round trip, one closed with stock would hide it. *)
OpenIffHolding == OpenWhileHolding(db.rows)

-----------------------------------------------------------------------------
(* The three records of one fill: orders, positions and the cash ledger.   *)

OrdersOf(d, p, c) ==
  {o \in DOMAIN d.orders : d.orders[o].portfolio = p /\ d.orders[o].security = c}

RowsOf(d, p, c) ==
  {i \in DOMAIN d.rows : d.rows[i].portfolio = p /\ d.rows[i].security = c}

Held(d, p, c) == Sum([i \in RowsOf(d, p, c) |-> d.rows[i].net])

Executed(d, p, c) ==
  Sum([o \in OrdersOf(d, p, c) |-> Signed(d.orders[o].side, d.orders[o].filled)])

(***************************************************************************)
(* "the reports and the positions screen can never disagree": the quantity *)
(* the orders executed is the quantity the open rows hold, unless a close  *)
(* wrote over a change of the row made since it was read.                  *)
(***************************************************************************)
PositionsMatchFills ==
  \A p \in Portfolio, c \in Security :
    <<p, c>> \notin overwritten => Held(db, p, c) = Executed(db, p, c)

(***************************************************************************)
(* The money the ledger moved for the orders of a contract is the money    *)
(* its position rows saw, but for one money quantum per flip (the two legs *)
(* of a flip are rounded apart), and the charges booked are the charges    *)
(* the rows accrued, across averaging, partial closes and flips.           *)
(***************************************************************************)
RowsMoney(d, p, c) ==
  Sum([i \in RowsOf(d, p, c) |-> d.rows[i].soldValue - d.rows[i].boughtValue])

OrdersMoney(d, p, c) == Sum([o \in OrdersOf(d, p, c) |-> d.orders[o].traded])

RowsCharges(d, p, c) == Sum([i \in RowsOf(d, p, c) |-> d.rows[i].charges])

OrdersCharges(d, p, c) == Sum([o \in OrdersOf(d, p, c) |-> d.orders[o].booked])

MoneyAgrees(d, p, c) ==
  IF RowsOf(d, p, c) = {} THEN OrdersMoney(d, p, c) = 0
  ELSE Abs(RowsMoney(d, p, c) - OrdersMoney(d, p, c)) <= Cardinality(RowsOf(d, p, c)) - 1

LedgerMatchesPositions ==
  \A p \in Portfolio, c \in Security :
    <<p, c>> \notin overwritten =>
      /\ MoneyAgrees(db, p, c)
      /\ RowsCharges(db, p, c) = OrdersCharges(db, p, c)

-----------------------------------------------------------------------------
(***************************************************************************)
(* What a committed step may never do: a completed round trip is history   *)
(* (no fill reaches a closed row, no row or order disappears) and what an  *)
(* order has executed never shrinks.                                       *)
(***************************************************************************)
HistoryStands ==
  [][/\ \A i \in DOMAIN db.rows :
          i \in DOMAIN db'.rows /\ (~db.rows[i].open => db'.rows[i] = db.rows[i])
     /\ \A o \in DOMAIN db.orders :
          o \in DOMAIN db'.orders /\ db'.orders[o].filled >= db.orders[o].filled]_db

(***************************************************************************)
(* "Two portfolios holding the same strike are two separate books": while  *)
(* no order of a portfolio changes, nothing another portfolio does moves   *)
(* its rows, and its cash moves only by a deposit or a withdrawal; its own *)
(* orders move its cash by exactly what they record.                       *)
(***************************************************************************)
Settled(d, p) ==
  Sum([o \in {x \in DOMAIN d.orders : d.orders[x].portfolio = p} |->
         d.orders[o].traded - d.orders[o].booked])

RowsHeldBy(d, p) ==
  LET ids == {i \in DOMAIN d.rows : d.rows[i].portfolio = p}
  IN  [i \in ids |-> d.rows[i]]

OrdersHeldBy(d, p) ==
  LET ids == {o \in DOMAIN d.orders : d.orders[o].portfolio = p}
  IN  [o \in ids |-> d.orders[o]]

PortfoliosApart ==
  [][\A p \in Portfolio :
       /\ OrdersHeldBy(db', p) = OrdersHeldBy(db, p) => RowsHeldBy(db', p) = RowsHeldBy(db, p)
       /\ LET other == (db'.cash[p] - db.cash[p]) - (Settled(db', p) - Settled(db, p))
          IN  other # 0 => Abs(other) \in Amounts /\ db'.orders = db.orders]_db

\* What the statement of account says of the stored orders.
Stated(d) ==
  [o \in DOMAIN d.orders |->
     LET x == d.orders[o]
     IN  [portfolio |-> x.portfolio, security |-> x.security, side |-> x.side,
          qty |-> x.qty, filled |-> x.filled, traded |-> x.traded, charged |-> x.booked]]

Statement == INSTANCE AccountStatement
               WITH orders <- Stated(db), balance <- db.cash, Charge <- ChargeOn

(***************************************************************************)
(* Whatever copies its requests and the matcher worked on, the order core  *)
(* keeps the statement of each account: what an order is charged is        *)
(* "recomputed on the cumulative executed quantity", money moves only with *)
(* a fill or an entry of the owner's, and no order changes what it is for  *)
(* or gives back what it executed (order_service.py).                      *)
(***************************************************************************)
KeepsStatement == Statement!Spec

(* A resting order the market trades through does not wait forever: it     *)
(* fills, is refused for funds or stops being fillable.                    *)
Fillable(o) ==
  /\ o \in DOMAIN db.orders
  /\ IsOpenOrder(db.orders[o])
  /\ CanFill(db.orders[o])
  /\ NoFill \notin FillsFor(db.orders[o])

NoOrderStarves == \A o \in 1..MaxOrders : []<>~Fillable(o)

-----------------------------------------------------------------------------
(* What the documentation says of the program and the code does not keep.  *)

(* order_service.py, Lifecycle: no transition leaves CANCELLED.            *)
CancelledStaysCancelled ==
  [][\A o \in DOMAIN db.orders :
       db.orders[o].status = "CANCELLED" => db'.orders[o].status = "CANCELLED"]_db

(* order_service.py, Lifecycle: the remainder of a partially filled MARKET *)
(* order "is abandoned -- not cancelled".                                  *)
MarketRemainderAbandoned ==
  [][\A o \in DOMAIN db.orders :
       /\ db.orders[o].type = "MARKET"
       /\ db.orders[o].status = "PARTIALLY_FILLED"
       => db'.orders[o].status # "CANCELLED"]_db

(* README, Architecture notes: an order that cannot be afforded is "not    *)
(* filled into a negative balance".                                        *)
NeverOverdrawn == \A p \in Portfolio : Available(db, p) >= 0
=============================================================================
