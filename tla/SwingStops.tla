---------------------------- MODULE SwingStops ----------------------------
(***************************************************************************)
(* One name of the swing rotation in one portfolio, and everything that    *)
(* trades it or moves its trailing stop: the rebalance (sell, commit, buy, *)
(* record), the stop monitor (trigger, exit now or at the next open), the  *)
(* nightly ratchet, an operator who closes the position by hand, the       *)
(* switches, and restarts.                                                 *)
(*                                                                         *)
(* Each of them works in its own database session: what it read before its *)
(* first write may be old by then, and from that write to its commit it is *)
(* alone. Orders are MARKET orders: they fill in part, wholly or not at    *)
(* all, and never rest.                                                    *)
(***************************************************************************)
EXTENDS Integers, Sequences, FiniteSets

CONSTANTS
    Size,            \* the shares one entry asks for
    MaxPrice,        \* bound: prices, closes and ATRs
    Views,           \* what a session's snapshot may say of the name
    MaxSession,      \* bound: sessions with a bar
    MaxStops,        \* bound: stop rows
    MaxEvents        \* bound: switches, manual closes, refusals, restarts

ASSUME StopsAssumption ==
    /\ Size \in Nat \ {0} /\ MaxPrice \in Nat \ {0}
    /\ Views \subseteq [gate : BOOLEAN, rank : {"entry", "out", "gap"},
                        close : 1 .. MaxPrice, atr : 0 .. MaxPrice]

None == 0            \* no mark, no ATR, no stop price, no stop row
Prices == 1 .. MaxPrice
Idle == [pc |-> "idle"]

VARIABLES
    session, view,   \* the newest session and its snapshot
    phase,           \* "open": continuous trading, "auction": the name's closing
                     \*   auction, "shut"
    mark,            \* the live price of the name
    net,             \* net_quantity of the open position row
    stops,           \* swing_stops, oldest first
    rebalanced,      \* the sessions with a rebalance record
    switches,        \* enabled, armed, and regime.enforce
    reb,             \* the rebalance in flight and what it read
    mon,             \* the monitor's pass in flight and what it read
    leftBehind,      \* history: an exit order left shares of this holding
    overlapped,      \* history: shares were sold while an exit sized on them was
                     \*   still to be placed
    events           \* how much of MaxEvents is used

day == <<session, view, phase, mark>>
vars == <<day, net, stops, rebalanced, switches, reb, mon, leftBehind, overlapped, events>>

Larger(a, b) == IF a > b THEN a ELSE b
Event == events < MaxEvents /\ events' = events + 1

-----------------------------------------------------------------------------
(* The stop rows. *)

\* get_active: the newest ACTIVE row, None without one.
ActiveStop ==
    LET active == {i \in DOMAIN stops : stops[i].status = "ACTIVE"}
    IN  IF active = {} THEN None ELSE CHOOSE i \in active : \A j \in active : j <= i

\* A stop below every price is none at all in this instance of the prices.
Level(high, atr) == Larger(high - atr, 0)

\* create: a second active row of the portfolio and the name is refused.
Refused == ActiveStop # None

\* open_for_entry: a row is always written, with or without a level.
NewStop(quantity, price, atr, enforced) ==
    [status |-> "ACTIVE", quantity |-> quantity, high |-> price,
     level |-> IF atr = None THEN None ELSE Level(price, atr),
     ratcheted |-> 0, enforced |-> enforced, exit |-> "none", order |-> FALSE]

\* ratchet_one: the high-water mark and the level only rise; the first level is
\* set late when there was no ATR at entry.
RatchetedToday(stop) ==                                        \* mutant
    LET high == Larger(stop.high, view.close)
    IN  [stop EXCEPT !.high = high, !.ratcheted = session,
                     !.level = IF view.atr = None THEN @ ELSE Level(high, view.atr)]
Ratcheted(stop) ==
    LET high == Larger(stop.high, view.close)
        candidate == IF view.atr = None THEN stop.level ELSE Level(high, view.atr)
    IN  [stop EXCEPT !.high = high, !.level = Larger(stop.level, candidate),
                     !.ratcheted = session]

\* close_for_exit.
Closed(stop, kind) == [stop EXCEPT !.status = "CLOSED", !.exit = kind, !.order = TRUE]

IsHit(stop) == mark # None /\ stop.level # None /\ mark <= stop.level

\* list_triggered.
ResumableWhileHit(stop) == stop.status = "TRIGGERED" /\ ~stop.order /\ IsHit(stop)   \* mutant
Resumable(stop) == stop.status = "TRIGGERED" /\ ~stop.order

\* _mark_triggered.
TriggeredAndSold(stop) == [stop EXCEPT !.status = "TRIGGERED", !.exit = "TRAIL", !.order = TRUE]   \* mutant
Triggered(stop) == [stop EXCEPT !.status = "TRIGGERED", !.exit = "TRAIL"]

\* _open_quantity: what is held, not what was entered.
EnteredQuantity(stop) == stop.quantity                         \* mutant
ExitQuantity(stop) == Larger(net, 0)

-----------------------------------------------------------------------------
(* A MARKET SELL. Whoever sells keeps the quantity it read, never the row:   *)
(* apply_fill looks the position up again, under the write lock, and takes    *)
(* the fill from what is held by then -- below zero when more was filled.     *)

Sell(quantity, filled) ==
    /\ net' = net - filled
    /\ leftBehind' = (net' > 0 /\ (leftBehind \/ filled < quantity))

\* An exit of the rebalance, or of the monitor, is sized and not placed yet.
RebalanceSizes == reb.pc = "sell"
MonitorSizes == mon.pc = "exit"
Overlap(crossed) == overlapped' = (overlapped \/ crossed)

Keep == UNCHANGED <<net, overlapped, leftBehind>>

-----------------------------------------------------------------------------
(* The rebalance. *)

\* The gate is off and obeyed.
Liquidates(run) == ~run.view.gate /\ run.enforce

\* plan_sells: the regime exit reaches what was entered under an enforced gate;
\* a name without a bar on a thin session is held, not rotated out.
SellKind(run) ==
    IF Liquidates(run) /\ run.entryEnforced THEN "REGIME"
    ELSE IF run.view.rank = "out" THEN "ROTATION" ELSE "none"

\* The gate policy the holding was entered under, from its own stop row; without
\* one it counts as entered enforced.
EntryPolicy == ActiveStop # None => stops[ActiveStop].enforced

\* What run_rebalance reads before it decides; the switches and the policy are
\* read once.
BeginRebalance ==
    /\ reb = Idle /\ switches.enabled /\ session \notin rebalanced
    /\ reb' = [pc |-> "sell", view |-> view, session |-> session,
               quantity |-> Larger(net, 0), stop |-> ActiveStop,
               entryEnforced |-> EntryPolicy,
               armed |-> switches.armed, enforce |-> switches.enforce]
    /\ UNCHANGED <<day, net, stops, rebalanced, switches, mon, leftBehind, overlapped, events>>

\* _execute_sell, and the commit that makes the sells visible. The stop is
\* closed for the exit however much of the order was filled.
PlaceSell ==
    /\ phase = "open"
    /\ \E filled \in 0 .. reb.quantity : Sell(reb.quantity, filled)
    /\ Overlap(MonitorSizes)
    /\ \E i \in {ActiveStop, reb.stop} :
         stops' = IF i = None THEN stops
                  ELSE [stops EXCEPT ![i] = Closed(@, SellKind(reb))]
    /\ UNCHANGED events

RebalanceSells ==
    /\ reb.pc = "sell"
    /\ IF reb.quantity > 0 /\ SellKind(reb) # "none" /\ reb.armed
         THEN \/ PlaceSell
              \/ phase # "open" /\ Keep /\ UNCHANGED <<stops, events>>
              \/ Event /\ Keep /\ UNCHANGED stops          \* the order is refused
         ELSE Keep /\ UNCHANGED <<stops, events>>
    /\ reb' = [reb EXCEPT !.pc = "buy"]
    /\ UNCHANGED <<day, rebalanced, switches, mon>>

\* plan_buys, from the holdings read again after the sells.
Buys == reb.view.rank = "entry" /\ ~Liquidates(reb) /\ net <= 0 /\ mark # None

\* _execute_buy, and the record, in one transaction.
RebalanceBuys ==
    /\ reb.pc = "buy"
    /\ \/ /\ Buys /\ reb.armed /\ phase = "open"
          /\ \E filled \in 1 .. Size :
               /\ ~Refused
               /\ Len(stops) < MaxStops
               /\ net' = net + filled
               /\ stops' = Append(stops, NewStop(filled, mark, reb.view.atr, reb.enforce))
          /\ leftBehind' = FALSE
       \/ /\ UNCHANGED <<net, stops, leftBehind>>   \* nothing to buy, refused or unfilled
    /\ rebalanced' = rebalanced \cup {reb.session}
    /\ reb' = Idle
    /\ UNCHANGED <<day, switches, mon, overlapped, events>>

\* A second active stop is refused: the entry and the record are rolled back,
\* and the session stays to be rebalanced.
EntryRefused ==
    /\ reb.pc = "buy"
    /\ Buys /\ reb.armed /\ phase = "open" /\ Refused
    /\ reb' = Idle
    /\ UNCHANGED <<day, net, stops, rebalanced, switches, mon, leftBehind, overlapped, events>>

-----------------------------------------------------------------------------
(* The stop monitor. *)

\* list_triggered: a trigger without an exit order, from the auction, from a
\* disarmed strategy or from before a restart. The quantity is what is held.
ResumeExit(i) ==
    /\ mon = Idle /\ switches.enabled /\ switches.armed /\ phase = "open"
    /\ Resumable(stops[i])
    /\ IF ExitQuantity(stops[i]) = 0
         THEN stops' = [stops EXCEPT ![i].status = "CLOSED"] /\ UNCHANGED mon
         ELSE /\ mon' = [pc |-> "exit", stop |-> i, quantity |-> ExitQuantity(stops[i])]
              /\ UNCHANGED stops
    /\ UNCHANGED <<day, net, rebalanced, switches, reb, leftBehind, overlapped, events>>

\* The exit order is attached however much of it was filled; a refused one is
\* tried again on the next pass.
PlaceExit ==
    /\ mon.pc = "exit"
    /\ \/ /\ \E filled \in 0 .. mon.quantity : Sell(mon.quantity, filled)
          /\ Overlap(RebalanceSizes)
          /\ stops' = [stops EXCEPT ![mon.stop].order = TRUE]
          /\ UNCHANGED events
       \/ Event /\ Keep /\ UNCHANGED stops
    /\ mon' = Idle
    /\ UNCHANGED <<day, rebalanced, switches, reb>>

\* list_active: watched while the market, the auction included, is open.
SeeHit(i) ==
    /\ mon = Idle /\ switches.enabled /\ phase # "shut"
    /\ stops[i].status = "ACTIVE" /\ IsHit(stops[i])
    /\ mon' = [pc |-> "hit", stop |-> i]
    /\ UNCHANGED <<day, net, stops, rebalanced, switches, reb, leftBehind, overlapped, events>>

\* The trigger is written whatever the row says by now, and the exit follows in
\* the same transaction unless the strategy is disarmed or the name's
\* continuous trading is over.
Fire ==
    /\ mon.pc = "hit"
    /\ LET i == mon.stop
           quantity == ExitQuantity(stops[i])
       IN  \/ /\ ~switches.armed \/ phase # "open"
              /\ stops' = [stops EXCEPT ![i] = Triggered(@)]
              /\ Keep /\ UNCHANGED events
           \/ /\ switches.armed /\ phase = "open" /\ quantity = 0
              /\ stops' = [stops EXCEPT ![i] = [Triggered(@) EXCEPT !.status = "CLOSED"]]
              /\ Keep /\ UNCHANGED events
           \/ /\ switches.armed /\ phase = "open" /\ quantity > 0
              /\ \E filled \in 0 .. quantity : Sell(quantity, filled)
              /\ Overlap(RebalanceSizes)
              /\ stops' = [stops EXCEPT ![i] = [Triggered(@) EXCEPT !.order = TRUE]]
              /\ UNCHANGED events
           \/ /\ switches.armed /\ phase = "open" /\ quantity > 0
              /\ stops' = [stops EXCEPT ![i] = Triggered(@)]
              /\ Event /\ Keep                              \* the order is refused
    /\ mon' = Idle
    /\ UNCHANGED <<day, rebalanced, switches, reb>>

-----------------------------------------------------------------------------
(* The nightly, the operator, the day and the process. *)

\* ratchet_all, once per stop and session, on a name that has a bar.
Ratchet ==
    /\ phase = "shut" /\ view.rank # "gap"
    /\ \E i \in DOMAIN stops : stops[i].status = "ACTIVE" /\ stops[i].ratcheted # session
    /\ stops' = [i \in DOMAIN stops |->
                    IF stops[i].status = "ACTIVE" /\ stops[i].ratcheted # session
                      THEN Ratcheted(stops[i]) ELSE stops[i]]
    /\ UNCHANGED <<day, net, rebalanced, switches, reb, mon, leftBehind, overlapped, events>>

\* The close endpoint sells some or all of the holding; no stop row is touched.
ManualClose ==
    /\ net > 0 /\ phase = "open" /\ Event
    /\ \E filled \in 1 .. net :
         /\ net' = net - filled
         /\ leftBehind' = (leftBehind /\ net' > 0)
    /\ Overlap(RebalanceSizes \/ MonitorSizes)
    /\ UNCHANGED <<day, stops, rebalanced, switches, reb, mon>>

Switch(name) ==
    /\ Event
    /\ switches' = [switches EXCEPT ![name] = ~@]
    /\ UNCHANGED <<day, net, stops, rebalanced, reb, mon, leftBehind, overlapped>>

NewPrice ==
    /\ phase # "shut"
    /\ \E price \in Prices \cup {None} : price # mark /\ mark' = price
    /\ UNCHANGED <<session, view, phase, net, stops, rebalanced, switches, reb, mon,
                   leftBehind, overlapped, events>>

\* A task is faster than the phases of the day.
NextPhase ==
    /\ reb = Idle /\ mon = Idle
    /\ \/ phase = "open" /\ phase' \in {"auction", "shut"}
       \/ phase = "auction" /\ phase' = "shut"
       \/ phase = "shut" /\ phase' = "open"
    /\ UNCHANGED <<session, view, mark, net, stops, rebalanced, switches, reb, mon,
                   leftBehind, overlapped, events>>

\* The evening refresh brings the next session, the last time MaxSession's.
NewSession ==
    /\ phase = "shut" /\ reb = Idle /\ session < MaxSession
    /\ session' = session + 1
    /\ view' \in Views
    /\ UNCHANGED <<phase, mark, net, stops, rebalanced, switches, reb, mon, leftBehind,
                   overlapped, events>>

\* Whatever was not committed is gone.
Restart ==
    /\ reb # Idle \/ mon # Idle
    /\ Event
    /\ reb' = Idle /\ mon' = Idle /\ mark' = None
    /\ UNCHANGED <<session, view, phase, net, stops, rebalanced, switches, leftBehind, overlapped>>

Init ==
    /\ session = 1 /\ view \in Views /\ phase = "shut" /\ mark = None
    /\ net = 0 /\ stops = <<>> /\ rebalanced = {}
    /\ switches \in [enabled : {TRUE}, armed : {TRUE}, enforce : BOOLEAN]
    /\ reb = Idle /\ mon = Idle
    /\ leftBehind = FALSE /\ overlapped = FALSE /\ events = 0

Next ==
    \/ BeginRebalance \/ RebalanceSells \/ RebalanceBuys \/ EntryRefused
    \/ \E i \in DOMAIN stops : ResumeExit(i) \/ SeeHit(i)
    \/ PlaceExit \/ Fire
    \/ Ratchet \/ ManualClose
    \/ \E name \in {"enabled", "armed", "enforce"} : Switch(name)
    \/ NewPrice \/ NextPhase \/ NewSession \/ Restart

\* The monitor passes every second and a pass ends; the day goes round.
Fairness ==
    /\ WF_vars(PlaceExit) /\ WF_vars(Fire) /\ WF_vars(NextPhase)
    /\ WF_vars(RebalanceSells) /\ WF_vars(RebalanceBuys)
    /\ \A i \in 1 .. MaxStops : SF_vars(i \in DOMAIN stops /\ ResumeExit(i))

Spec == Init /\ [][Next]_vars /\ Fairness

-----------------------------------------------------------------------------
(* Properties. *)

\* Shares the rotation holds are watched by a stop that may still fire or whose
\* exit is still to be placed, through refused orders, restarts, the auction
\* and the switches; the exception is what an exit order could not fill.
HeldIsGuarded ==
    net > 0 /\ ~leftBehind =>
        \E i \in DOMAIN stops : \/ stops[i].status = "ACTIVE"
                                \/ stops[i].status = "TRIGGERED" /\ ~stops[i].order

\* The rotation never sells to open: a short is only the work of a sale between
\* the moment another exit was sized and the moment it was placed, whatever was
\* bought, refused, filled in part or lost to a restart in between.
ShortNeedsOverlap == net < 0 => overlapped

\* A trailing stop never falls and never comes back to life.
StopNeverFalls ==
    [][\A i \in DOMAIN stops :
         /\ i \in DOMAIN stops' /\ stops'[i].level >= stops[i].level
         /\ stops[i].status # "ACTIVE" => stops'[i].status # "ACTIVE"]_vars

Waiting(i) == i \in DOMAIN stops /\ stops[i].status = "TRIGGERED" /\ ~stops[i].order

\* A stop that fired gets its exit order, at the latest after the market opens
\* again, while the strategy stays enabled and armed.
TriggerIsAnswered ==
    \A i \in 1 .. MaxStops :
        Waiting(i) ~> (~Waiting(i) \/ ~switches.enabled \/ ~switches.armed)

\* "The position left for some other reason -- a rotation exit, a regime exit,
\* an operator closing it by hand. The stop never fired and the row says so."
NoStopWithoutHolding ==
    net = 0 /\ reb = Idle /\ mon = Idle => ActiveStop = None
=============================================================================
