---------------------------- MODULE ChartTrading ----------------------------
(***************************************************************************)
(* Trading from the chart of one future: a Buy click buys the nearest call, *)
(* a Sell click the nearest put, the opposite click sells what is open, and *)
(* a monitor sells when the future crosses a level drawn on the chart.      *)
(*                                                                         *)
(* A click, a close and a pass of the monitor each read first and write in  *)
(* a transaction of their own later; the monitor's pass is one transaction  *)
(* over every trade it closes.  Orders are MARKET orders: they fill wholly, *)
(* in part, or are rejected for an empty book.                              *)
(***************************************************************************)
EXTENDS Integers, Sequences, FiniteSets

CONSTANTS
    Portfolios,      \* the portfolios that trade the chart
    Operated,        \* those an operator archives or sells from by hand
    Sessions,        \* the requests in flight at one time
    Size,            \* the quantity of one click
    Levels,          \* prices of the future, the levels of the chart among them
    MaxTrades,       \* bound: rows of chart_trades
    MaxEvents        \* bound: switches, hand trades, failures and restarts

ASSUME ChartAssumption ==
    /\ Operated \subseteq Portfolios
    /\ Size \in Nat \ {0} /\ Levels \subseteq Nat \ {0} /\ "monitor" \notin Sessions

Actors == Sessions \cup {"monitor"}
Sides == {"BUY", "SELL"}
Unknown == 0         \* the future has not ticked yet
Unset == 0           \* no level drawn
Idle == [kind |-> "idle"]
NoPass == [queue |-> {}, wrote |-> FALSE]

VARIABLES
    db,              \* committed: trades, oldest first; position, per portfolio
                     \*   and side the open row of the option (its id, its net);
                     \*   history: left, what an exit did not sell whole
    work,            \* the same with what the monitor has not committed
    price,           \* of the future, in the feed's book
    enabled,         \* the strategy's switch
    active,          \* the portfolios that are not archived
    job,             \* per actor, what it read and is about to write
    pass,            \* the monitor: the trades of its pass, as it loaded them
    crossed,         \* history: portfolios where a commit met another's read
    events           \* how much of MaxEvents is used

vars == <<db, work, price, enabled, active, job, pass, crossed, events>>

Event == events < MaxEvents /\ events' = events + 1

-----------------------------------------------------------------------------
(* The tables. *)

OpenTrades(d, p) == {i \in DOMAIN d.trades : d.trades[i].portfolio = p /\ d.trades[i].open}

\* get_open_for_underlying: the newest open trade of the portfolio.
OpenTrade(d, p) == CHOOSE i \in OpenTrades(d, p) : \A j \in OpenTrades(d, p) : j <= i

NewTrade(p, side) ==
    [portfolio |-> p, side |-> side, stop |-> Unset, target |-> Unset, open |-> TRUE]

\* apply_fill from the row a session loaded: its own copy while that row is
\* still the open one, the table's row otherwise.
Filled(now, copy, quantity) ==
    LET base == IF now.net # 0 /\ copy.id = now.id /\ copy.net # 0 THEN copy.net ELSE now.net
    IN  [id |-> IF now.net = 0 /\ quantity # 0 THEN now.id + 1 ELSE now.id,
         net |-> IF quantity = 0 THEN now.net ELSE base + quantity]

Fill(d, p, side, copy, quantity) ==
    LET row == Filled(d.position[p][side], copy, quantity)
    IN  [d EXCEPT !.position[p][side] = row,
                  !.left = IF row.net = 0 THEN @ \ {<<p, side>>} ELSE @]

\* A commit on p meets what the job of another actor read of p.
Crosses(others, p) ==
    crossed' = IF \E a \in others : job[a] # Idle /\ job[a].portfolio = p
                 THEN crossed \cup {p} ELSE crossed

Locked == pass.wrote
Commit(d) == ~Locked /\ db' = d /\ work' = d

-----------------------------------------------------------------------------
(* A click: nothing open, it opens; the other side open, it closes; the same *)
(* side open, it is refused.                                                 *)

\* close: what is to be sold is the whole position in the option, none when the
\* entry never filled or it was sold elsewhere. An archived portfolio refuses.
ToSellLots(copy) == Size                                        \* mutant
ToSell(copy) == IF copy.net > 0 THEN copy.net ELSE 0

Closing(d, i) ==
    LET trade == d.trades[i]
        copy == d.position[trade.portfolio][trade.side]
    IN  [kind |-> "close", trade |-> i, portfolio |-> trade.portfolio, side |-> trade.side,
         copy |-> copy, quantity |-> ToSell(copy)]
MaySell(closing) == closing.quantity = 0 \/ closing.portfolio \in active

MayOpenSameSide(p, side) ==                                     \* mutant
    \A i \in OpenTrades(db, p) : db.trades[i].side = side
MayOpen(p, side) == OpenTrades(db, p) = {}
Nets(p, side) == OpenTrades(db, p) # {} /\ db.trades[OpenTrade(db, p)].side # side

Click(s, p, side) ==
    /\ job[s] = Idle /\ enabled /\ p \in active
    /\ \/ /\ MayOpen(p, side)
          /\ price # Unknown /\ Len(db.trades) < MaxTrades
          /\ job' = [job EXCEPT ![s] = [kind |-> "open", portfolio |-> p, side |-> side]]
       \/ /\ Nets(p, side)
          /\ job' = [job EXCEPT ![s] = Closing(db, OpenTrade(db, p))]
    /\ UNCHANGED <<db, work, price, enabled, active, pass, crossed, events>>

\* The order and the trade that says it is there, filled or not.
Opened(d, p, side, quantity) ==
    LET now == d.position[p][side]
    IN  [Fill(d, p, side, now, quantity) EXCEPT !.trades = Append(@, NewTrade(p, side))]

Open(s) ==
    /\ job[s].kind = "open" /\ Len(db.trades) < MaxTrades
    /\ \E quantity \in 0 .. Size : Commit(Opened(db, job[s].portfolio, job[s].side, quantity))
    /\ job' = [job EXCEPT ![s] = Idle]
    /\ Crosses(Actors \ {s}, job[s].portfolio)
    /\ UNCHANGED <<price, enabled, active, pass, events>>

\* The Close button asks for one trade.
AskClose(s) ==
    /\ job[s] = Idle
    /\ \E i \in DOMAIN db.trades :
         /\ db.trades[i].open /\ MaySell(Closing(db, i))
         /\ job' = [job EXCEPT ![s] = Closing(db, i)]
    /\ UNCHANGED <<db, work, price, enabled, active, pass, crossed, events>>

\* The option is sold, as far as the book goes, and the trade is closed
\* whatever became of the order.
\* No level of a closed trade is read again: it goes with the trade.
Shut(trade) == [trade EXCEPT !.open = FALSE, !.stop = Unset, !.target = Unset]
ClosedUnsold(d, closing, sold) ==                               \* mutant
    [d EXCEPT !.trades[closing.trade] = Shut(@)]
Closed(d, closing, sold) ==
    [Fill(d, closing.portfolio, closing.side, closing.copy, -sold)
        EXCEPT !.trades[closing.trade] = Shut(@),
               !.left = IF sold < closing.quantity
                          THEN @ \cup {<<closing.portfolio, closing.side>>} ELSE @]

Close(s) ==
    /\ job[s].kind = "close"
    /\ \E sold \in 0 .. job[s].quantity : Commit(Closed(db, job[s], sold))
    /\ job' = [job EXCEPT ![s] = Idle]
    /\ Crosses(Actors \ {s}, job[s].portfolio)
    /\ UNCHANGED <<price, enabled, active, pass, events>>

\* validate_levels: a stop on the losing side of the price, a target on the
\* winning one; for the put both the other way round.
Below(level) == level = Unset \/ level < price
Above(level) == level = Unset \/ level > price
Validates(side, stop, target) ==
    /\ price # Unknown
    /\ IF side = "BUY" THEN Below(stop) /\ Above(target) ELSE Above(stop) /\ Below(target)

\* set_levels: each level is set, moved, cleared or kept; the pair is validated.
SetLevels ==
    \E i \in DOMAIN db.trades, stop, target \in Levels \cup {Unset} :
        /\ db.trades[i].open
        /\ Validates(db.trades[i].side, stop, target)
        /\ Commit([db EXCEPT !.trades[i] = [@ EXCEPT !.stop = stop, !.target = target]])
        /\ UNCHANGED <<price, enabled, active, job, pass, crossed, events>>

-----------------------------------------------------------------------------
(* The bracket monitor. *)

\* level_hit
Hit(trade) ==
    /\ price # Unknown
    /\ IF trade.side = "BUY"
         THEN \/ trade.stop # Unset /\ price <= trade.stop
              \/ trade.target # Unset /\ price >= trade.target
         ELSE \/ trade.stop # Unset /\ price >= trade.stop
              \/ trade.target # Unset /\ price <= trade.target

\* The pass walks the trades as it loaded them, oldest first, and does not
\* pause at one whose levels are not crossed.
First(queue) == CHOOSE e \in queue : \A f \in queue : e.id <= f.id
WhileHit(queue) == {e \in queue : Hit(First(queue).copy)}        \* mutant
FromFirstHit(queue) ==
    LET hit == {e \in queue : Hit(e.copy)}
    IN  {e \in queue : \E h \in hit : h.id <= e.id}

Loaded == {[id |-> i, copy |-> db.trades[i]] : i \in {j \in DOMAIN db.trades : db.trades[j].open}}

\* A pass begins; one that finds no level crossed ends at once.
MonitorWakes ==
    /\ pass = NoPass /\ job["monitor"] = Idle /\ enabled
    /\ UNCHANGED <<db, work, price, enabled, active, job, crossed, events>>
    /\ LET queue == FromFirstHit(Loaded)
       IN  queue # {} /\ pass' = [pass EXCEPT !.queue = queue]

\* close on the first of them: its position is read; the trade's status is the
\* one the pass loaded.
MonitorReads ==
    /\ pass.queue # {} /\ job["monitor"] = Idle
    /\ UNCHANGED <<db, work, price, enabled, active, pass, crossed, events>>
    /\ MaySell(Closing(work, First(pass.queue).id))
    /\ job' = [job EXCEPT !["monitor"] = Closing(work, First(pass.queue).id)]

\* A close that is refused ends the pass and rolls it back.
MonitorFails ==
    /\ pass.queue # {} /\ job["monitor"] = Idle
    /\ ~MaySell(Closing(work, First(pass.queue).id))
    /\ pass' = NoPass /\ work' = db
    /\ UNCHANGED <<db, price, enabled, active, job, crossed, events>>

\* The first write of the pass takes the lock.
MonitorSells ==
    LET closing == job["monitor"] IN
    /\ closing # Idle
    /\ UNCHANGED <<db, price, enabled, active, crossed, events>>
    /\ \E sold \in 0 .. closing.quantity : work' = Closed(work, closing, sold)
    /\ job' = [job EXCEPT !["monitor"] = Idle]
    /\ pass' = [queue |-> FromFirstHit(pass.queue \ {First(pass.queue)}), wrote |-> TRUE]

MonitorCommits ==
    /\ pass.wrote /\ pass.queue = {}
    /\ db' = work /\ pass' = NoPass
    /\ crossed' = crossed \cup {job[s].portfolio : s \in {t \in Sessions :
                        job[t] # Idle /\ work.position[job[t].portfolio] # db.position[job[t].portfolio]}}
    /\ UNCHANGED <<work, price, enabled, active, job, events>>

Monitor == MonitorWakes \/ MonitorReads \/ MonitorFails \/ MonitorSells \/ MonitorCommits

-----------------------------------------------------------------------------
(* Everything else. *)

Tick ==
    /\ \E p \in Levels \ {price} : price' = p
    /\ UNCHANGED <<db, work, enabled, active, job, pass, crossed, events>>

\* The option sold from the positions page.
SellByHand ==
    /\ Event
    /\ \E p \in Operated, side \in Sides :
         /\ db.position[p][side].net > 0
         /\ \E sold \in 1 .. db.position[p][side].net :
              Commit(Fill(db, p, side, db.position[p][side], -sold))
         /\ Crosses(Actors, p)
    /\ UNCHANGED <<price, enabled, active, job, pass>>

Switch ==
    /\ Event
    /\ enabled' = ~enabled
    /\ UNCHANGED <<db, work, price, active, job, pass, crossed>>

\* Archived, and restored.
Archive ==
    /\ Event /\ ~Locked
    /\ \E p \in Operated :
         active' = IF p \in active THEN active \ {p} ELSE active \cup {p}
    /\ UNCHANGED <<db, work, price, enabled, job, pass, crossed>>

\* What was not committed is gone; the book is empty until the next tick.
Restart ==
    /\ Event
    /\ work' = db /\ pass' = NoPass /\ job' = [a \in Actors |-> Idle] /\ price' = Unknown
    /\ UNCHANGED <<db, enabled, active, crossed>>

Init ==
    /\ db = [trades |-> <<>>,
             position |-> [p \in Portfolios |-> [side \in Sides |-> [id |-> 0, net |-> 0]]],
             left |-> {}]
    /\ work = db
    /\ price = Unknown /\ enabled = TRUE /\ active = Portfolios
    /\ job = [a \in Actors |-> Idle] /\ pass = NoPass
    /\ crossed = {} /\ events = 0

Next ==
    \/ \E s \in Sessions, p \in Portfolios, side \in Sides : Click(s, p, side)
    \/ \E s \in Sessions : Open(s) \/ AskClose(s) \/ Close(s)
    \/ SetLevels \/ Monitor \/ Tick
    \/ SellByHand \/ Switch \/ Archive \/ Restart

\* The monitor's loop wakes every quarter of a second.
Spec == Init /\ [][Next]_vars /\ WF_vars(Monitor)

-----------------------------------------------------------------------------
(* Properties. *)

\* "Nothing here ever writes an option": no click, close or bracket sells what
\* is not held, unless two of them acted on the same reading.
NeverWritesOption ==
    \A p \in Portfolios \ crossed, side \in Sides : db.position[p][side].net >= 0

\* What the chart bought is under a chart trade, where the other button, the
\* Close button and the levels reach it, until it is sold -- but for what an
\* exit order could not sell.
HeldIsUnderTrade ==
    \A p \in Portfolios \ crossed, side \in Sides :
        db.position[p][side].net > 0 /\ <<p, side>> \notin db.left =>
            \E i \in OpenTrades(db, p) : db.trades[i].side = side

\* "At most one exists per portfolio", with no constraint of the table behind
\* it, unless two clicks acted on the same reading.
OneTradePerContract == \A p \in Portfolios \ crossed : Cardinality(OpenTrades(db, p)) <= 1

\* A level that stays crossed closes its trade, while the strategy is on and no
\* portfolio is archived: one archived portfolio's armed trade fails every pass.
Waiting(i) ==
    /\ db.trades[i].open /\ Hit(db.trades[i])
    /\ enabled /\ active = Portfolios
BracketsAnswer == []<>(\A i \in DOMAIN db.trades : ~Waiting(i))

\* "So one click can never leave you in a straddle you did not intend": a call
\* and a put are never held at once.
NoStraddle ==
    \A p \in Portfolios : ~(db.position[p]["BUY"].net > 0 /\ db.position[p]["SELL"].net > 0)
=============================================================================
