-------------------------- MODULE SwingStopsProofs --------------------------
(***************************************************************************)
(* The trailing stops of one name, for any size, prices, snapshots and     *)
(* number of sessions, rows and failures: a stop never falls and never     *)
(* comes back, what is held is guarded, and only a sale that crossed an    *)
(* exit sized before it and placed after it goes short.                    *)
(***************************************************************************)
EXTENDS SwingStops, SequenceTheorems, TLAPS

Snapshot == [gate : BOOLEAN, rank : {"entry", "out", "gap"},
             close : 1 .. MaxPrice, atr : 0 .. MaxPrice]

Stop == [status : {"ACTIVE", "TRIGGERED", "CLOSED"}, quantity : Nat, high : Nat, level : Nat,
         ratcheted : Nat, enforced : BOOLEAN,
         exit : {"none", "TRAIL", "REGIME", "ROTATION"}, order : BOOLEAN]

Rebalance == [pc : {"sell", "buy"}, view : Snapshot, session : Nat, quantity : Nat,
              stop : Nat, entryEnforced : BOOLEAN, armed : BOOLEAN, enforce : BOOLEAN]

Pass == [pc : {"exit"}, stop : Nat, quantity : Nat] \cup [pc : {"hit"}, stop : Nat]

TypeOK ==
  /\ session \in Nat \ {0} /\ view \in Snapshot
  /\ phase \in {"open", "auction", "shut"} /\ mark \in Nat
  /\ net \in Int /\ stops \in Seq(Stop)
  /\ switches \in [enabled : BOOLEAN, armed : BOOLEAN, enforce : BOOLEAN]
  /\ reb \in Rebalance \cup {Idle} /\ mon \in Pass \cup {Idle}
  /\ leftBehind \in BOOLEAN /\ overlapped \in BOOLEAN

\* create refuses a second active row, and a row with an order is not active.
OneActive ==
  \A i, j \in DOMAIN stops :
    stops[i].status = "ACTIVE" /\ stops[j].status = "ACTIVE" => i = j
ActiveIsFresh ==
  \A i \in DOMAIN stops : stops[i].status = "ACTIVE" => ~stops[i].order

HoldingInv ==
  /\ TypeOK /\ OneActive /\ ActiveIsFresh /\ HeldIsGuarded

\* The exit in flight is of a row that fired: it can be closed, never revived.
ExitRow ==
  mon.pc = "exit" => mon.stop \in DOMAIN stops /\ stops[mon.stop].status # "ACTIVE"

\* Unless sales crossed, no exit in flight is sized on more than is held.
SizedRight ==
  overlapped \/ (/\ net >= 0
                 /\ mon.pc = "exit" => mon.quantity <= net
                 /\ reb.pc = "sell" => reb.quantity <= net)

\* Only the rebalance buys: while it sells, nothing is held that it did not see.
RebalanceCovers == reb.pc = "sell" => net <= reb.quantity

\* What the monitor's exit does not reach was bought since, under its own stop.
NewHolding ==
  mon.pc = "exit" /\ net > mon.quantity =>
    leftBehind \/ \E i \in DOMAIN stops : stops[i].status = "ACTIVE"

InFlight == SizedRight /\ RebalanceCovers /\ NewHolding

IInv == HoldingInv /\ ExitRow /\ InFlight

\* The rows stand: none disappears, none falls, none comes back to life.
RowsStand ==
  \A i \in DOMAIN stops :
    /\ i \in DOMAIN stops' /\ stops'[i].level >= stops[i].level
    /\ stops[i].status # "ACTIVE" => stops'[i].status # "ACTIVE"

\* What the invariant and the action property say of the rows after a step.
RowsSound == stops' \in Seq(Stop) /\ OneActive' /\ ActiveIsFresh' /\ RowsStand

Guards(i) == stops[i].status = "ACTIVE" \/ (stops[i].status = "TRIGGERED" /\ ~stops[i].order)

-----------------------------------------------------------------------------
(* The rows.                                                               *)

(* The newest active row is a row, and there is none without one.          *)
LEMMA ActiveStopIs ==
  ASSUME stops \in Seq(Stop), OneActive
  PROVE  /\ ActiveStop \in Nat
         /\ ActiveStop # None => ActiveStop \in DOMAIN stops
         /\ ActiveStop = None => \A i \in DOMAIN stops : stops[i].status # "ACTIVE"
<1> DEFINE active == {i \in DOMAIN stops : stops[i].status = "ACTIVE"}
<1>1. DOMAIN stops = 1 .. Len(stops) /\ Len(stops) \in Nat
  BY LenProperties
<1>2. CASE active = {}
  <2>1. ActiveStop = 0
    BY <1>2 DEF ActiveStop, None
  <2> QED
    BY <1>2, <2>1 DEF None
<1>3. CASE active # {}
  <2>1. PICK x \in active : TRUE
    BY <1>3
  <2>2. \A i \in active : i = x
    BY <2>1 DEF OneActive
  <2>3. x \in Nat /\ x # 0 /\ x \in DOMAIN stops
    BY <1>1, <2>1
  <2>4. \E i \in active : \A j \in active : j <= i
    BY <2>1, <2>2, <2>3
  <2>5. (CHOOSE i \in active : \A j \in active : j <= i) \in active
    BY <2>4
  <2>6. ActiveStop = (CHOOSE i \in active : \A j \in active : j <= i)
    BY <1>3 DEF ActiveStop
  <2>7. ActiveStop = x
    BY <2>2, <2>5, <2>6
  <2> QED
    BY <2>3, <2>7 DEF None
<1> QED
  BY <1>2, <1>3

(* One row written, by a step that leaves it inactive.                     *)
LEMMA RowWritten ==
  ASSUME stops \in Seq(Stop), OneActive, ActiveIsFresh, NEW i, NEW r,
         stops' = [stops EXCEPT ![i] = r],
         i \in DOMAIN stops => r \in Stop /\ r.level = stops[i].level /\ r.status # "ACTIVE"
  PROVE  /\ RowsSound /\ DOMAIN stops' = DOMAIN stops
         /\ i \in DOMAIN stops => stops'[i] = r
         /\ \A j \in DOMAIN stops : j # i => stops'[j] = stops[j]
<1>1. /\ DOMAIN stops' = DOMAIN stops
      /\ i \in DOMAIN stops => stops'[i] = r
      /\ \A j \in DOMAIN stops : j # i => stops'[j] = stops[j]
  OBVIOUS
<1>2. stops' \in Seq(Stop)
  <2>1. DOMAIN stops = 1 .. Len(stops)
    BY LenProperties
  <2>2. CASE i \in DOMAIN stops
    BY <2>1, <2>2, ExceptSeq
  <2>3. CASE i \notin DOMAIN stops
    <3>1. stops' = stops
      BY <2>1, <2>3
    <3> QED
      BY <3>1
  <2> QED
    BY <2>2, <2>3
<1>3. \A j \in DOMAIN stops : stops[j] \in Stop
  OBVIOUS
<1>4. \A j \in DOMAIN stops : stops[j].level \in Nat
  BY <1>3 DEF Stop
<1>5. RowsStand
  BY <1>1, <1>4 DEF RowsStand
<1>6. OneActive' /\ ActiveIsFresh'
  BY <1>1 DEF OneActive, ActiveIsFresh
<1> QED
  BY <1>1, <1>2, <1>5, <1>6 DEF RowsSound

(* A step that writes no row.                                              *)
LEMMA RowsKept ==
  ASSUME stops \in Seq(Stop), OneActive, ActiveIsFresh, stops' = stops
  PROVE  RowsSound
<1>1. \A j \in DOMAIN stops : stops[j] \in Stop
  OBVIOUS
<1>2. \A j \in DOMAIN stops : stops[j].level \in Nat
  BY <1>1 DEF Stop
<1> QED
  BY <1>2 DEF RowsSound, OneActive, ActiveIsFresh, RowsStand

(* The rows the actions write.                                             *)
LEMMA RowOperators ==
  ASSUME NEW s \in Stop, NEW kind \in {"none", "TRAIL", "REGIME", "ROTATION"}
  PROVE  /\ Closed(s, kind) \in Stop /\ Closed(s, kind).level = s.level
         /\ Closed(s, kind).status = "CLOSED"
         /\ Triggered(s) \in Stop /\ Triggered(s).level = s.level
         /\ Triggered(s).status = "TRIGGERED" /\ Triggered(s).order = s.order
  BY DEF Closed, Triggered, Stop

-----------------------------------------------------------------------------
(* Steps that trade nothing and write no row.                              *)

QuietFrame == UNCHANGED <<net, stops, leftBehind, overlapped>>

LEMMA QuietInv ==
  ASSUME HoldingInv, QuietFrame, TypeOK'
  PROVE  HoldingInv' /\ RowsStand
<1>1. RowsSound
  BY RowsKept DEF HoldingInv, TypeOK, QuietFrame
<1>2. HeldIsGuarded'
  BY DEF HoldingInv, QuietFrame, HeldIsGuarded
<1> QED
  BY <1>1, <1>2 DEF HoldingInv, RowsSound

LEMMA BeginRebalanceInv == ASSUME HoldingInv, BeginRebalance PROVE HoldingInv' /\ RowsStand
<1>1. ActiveStop \in Nat /\ (ActiveStop # None => ActiveStop \in DOMAIN stops)
  BY ActiveStopIs DEF HoldingInv, TypeOK
<1>2. EntryPolicy \in BOOLEAN
  BY DEF EntryPolicy
<1>3. Larger(net, 0) \in Nat
  BY DEF HoldingInv, TypeOK, Larger
<1>4. reb' \in Rebalance
  BY <1>1, <1>2, <1>3 DEF BeginRebalance, HoldingInv, TypeOK, Rebalance
<1>5. TypeOK'
  BY <1>4 DEF BeginRebalance, day, HoldingInv, TypeOK
<1> QED
  BY <1>5, QuietInv DEF BeginRebalance, QuietFrame

LEMMA EntryRefusedInv == ASSUME HoldingInv, EntryRefused PROVE HoldingInv' /\ RowsStand
<1>1. TypeOK'
  BY DEF EntryRefused, day, HoldingInv, TypeOK
<1> QED
  BY <1>1, QuietInv DEF EntryRefused, QuietFrame

LEMMA SeeHitInv ==
  ASSUME HoldingInv, NEW i \in DOMAIN stops, SeeHit(i)
  PROVE  HoldingInv' /\ RowsStand
<1>1. i \in Nat
  <2>1. DOMAIN stops = 1 .. Len(stops)
    BY LenProperties DEF HoldingInv, TypeOK
  <2> QED
    BY <2>1
<1>2. TypeOK'
  BY <1>1 DEF SeeHit, day, HoldingInv, TypeOK, Pass
<1> QED
  BY <1>2, QuietInv DEF SeeHit, QuietFrame

LEMMA SwitchInv ==
  ASSUME HoldingInv, NEW name \in {"enabled", "armed", "enforce"}, Switch(name)
  PROVE  HoldingInv' /\ RowsStand
<1>1. switches' \in [enabled : BOOLEAN, armed : BOOLEAN, enforce : BOOLEAN]
  BY DEF Switch, HoldingInv, TypeOK
<1>2. TypeOK'
  BY <1>1 DEF Switch, day, HoldingInv, TypeOK
<1> QED
  BY <1>2, QuietInv DEF Switch, QuietFrame

LEMMA DayInv ==
  ASSUME HoldingInv, NewPrice \/ NextPhase \/ NewSession \/ Restart
  PROVE  HoldingInv' /\ RowsStand
<1>1. CASE NewPrice
  <2>1. TypeOK'
    BY <1>1, StopsAssumption DEF NewPrice, Prices, None, HoldingInv, TypeOK
  <2> QED
    BY <1>1, <2>1, QuietInv DEF NewPrice, QuietFrame
<1>2. CASE NextPhase
  <2>1. TypeOK'
    BY <1>2 DEF NextPhase, HoldingInv, TypeOK
  <2> QED
    BY <1>2, <2>1, QuietInv DEF NextPhase, QuietFrame
<1>3. CASE NewSession
  <2>1. TypeOK'
    BY <1>3, StopsAssumption DEF NewSession, HoldingInv, TypeOK, Snapshot
  <2> QED
    BY <1>3, <2>1, QuietInv DEF NewSession, QuietFrame
<1>4. CASE Restart
  <2>1. TypeOK'
    BY <1>4 DEF Restart, None, HoldingInv, TypeOK
  <2> QED
    BY <1>4, <2>1, QuietInv DEF Restart, QuietFrame
<1> QED
  BY <1>1, <1>2, <1>3, <1>4

-----------------------------------------------------------------------------
(* The rebalance.                                                          *)

(* A sell of a quantity read earlier: what is left of it is left behind.    *)
LEMMA SellIs ==
  ASSUME HoldingInv, NEW quantity \in Nat, NEW filled \in 0 .. quantity, Sell(quantity, filled)
  PROVE  /\ net' \in Int /\ leftBehind' \in BOOLEAN /\ net' = net - filled
         /\ net' > 0 /\ net <= quantity => leftBehind'
         /\ net' > 0 /\ leftBehind => leftBehind'
<1>1. net \in Int /\ leftBehind \in BOOLEAN
  BY DEF HoldingInv, TypeOK
<1>2. net' = net - filled /\ leftBehind' = (net' > 0 /\ (leftBehind \/ filled < quantity))
  BY DEF Sell
<1>3. net' \in Int /\ (net' > 0 /\ net <= quantity => filled < quantity)
  BY <1>1, <1>2
<1> QED
  BY <1>2, <1>3

LEMMA RebalanceSellsInv ==
  ASSUME HoldingInv, RebalanceCovers, RebalanceSells
  PROVE  HoldingInv' /\ RowsStand
<1>1. /\ reb \in Rebalance /\ reb.quantity \in Nat
      /\ SellKind(reb) \in {"none", "TRAIL", "REGIME", "ROTATION"}
  <2>1. reb # Idle
    BY DEF RebalanceSells, Idle
  <2>2. reb \in Rebalance
    BY <2>1 DEF HoldingInv, TypeOK
  <2> QED
    BY <2>2 DEF Rebalance, SellKind
<1>2. reb' \in Rebalance
  BY <1>1 DEF RebalanceSells, Rebalance
<1>3. ASSUME PlaceSell
      PROVE  /\ RowsSound /\ net' \in Int /\ leftBehind' \in BOOLEAN /\ overlapped' \in BOOLEAN
             /\ HeldIsGuarded'
  <2>1. PICK filled \in 0 .. reb.quantity : Sell(reb.quantity, filled)
    BY <1>3 DEF PlaceSell
  <2>2. PICK i \in {ActiveStop, reb.stop} :
          stops' = IF i = None THEN stops
                   ELSE [stops EXCEPT ![i] = Closed(stops[i], SellKind(reb))]
    BY <1>3 DEF PlaceSell
  <2>3. RowsSound
    <3>1. CASE i = None
      BY <2>2, <3>1, RowsKept DEF HoldingInv, TypeOK
    <3>2. CASE i # None
      <4>1. i \in DOMAIN stops => stops[i] \in Stop
        BY DEF HoldingInv, TypeOK
      <4>2. i \in DOMAIN stops =>
              /\ Closed(stops[i], SellKind(reb)) \in Stop
              /\ Closed(stops[i], SellKind(reb)).level = stops[i].level
              /\ Closed(stops[i], SellKind(reb)).status # "ACTIVE"
        BY <1>1, <4>1, RowOperators
      <4>3. stops' = [stops EXCEPT ![i] = Closed(stops[i], SellKind(reb))]
        BY <2>2, <3>2
      <4> QED
        BY <4>2, <4>3, RowWritten DEF HoldingInv, TypeOK
    <3> QED
      BY <3>1, <3>2
  <2>4. overlapped' \in BOOLEAN
    BY <1>3 DEF PlaceSell, Overlap, MonitorSizes, HoldingInv, TypeOK
  <2>5. net <= reb.quantity
    BY DEF RebalanceSells, RebalanceCovers
  <2>6. net' \in Int /\ leftBehind' \in BOOLEAN /\ (net' > 0 => leftBehind')
    BY <1>1, <2>1, <2>5, SellIs
  <2> QED
    BY <2>3, <2>4, <2>6 DEF HeldIsGuarded
<1>4. CASE PlaceSell
  <2>1. TypeOK'
    BY <1>2, <1>3, <1>4 DEF RebalanceSells, day, HoldingInv, TypeOK, RowsSound
  <2> QED
    BY <1>3, <1>4, <2>1 DEF HoldingInv, RowsSound
<1>5. CASE Keep /\ UNCHANGED stops
  <2>1. TypeOK'
    BY <1>2, <1>5 DEF RebalanceSells, Keep, day, HoldingInv, TypeOK
  <2> QED
    BY <1>5, <2>1, QuietInv DEF Keep, QuietFrame
<1> QED
  BY <1>4, <1>5 DEF RebalanceSells

(* A new row, written while no other is active.                            *)
LEMMA RowAppended ==
  ASSUME stops \in Seq(Stop), OneActive, ActiveIsFresh, ~Refused, NEW r \in Stop,
         r.status = "ACTIVE", ~r.order, stops' = Append(stops, r)
  PROVE  RowsSound /\ Len(stops) + 1 \in DOMAIN stops' /\ stops'[Len(stops) + 1] = r
<1>1. /\ stops' \in Seq(Stop) /\ Len(stops') = Len(stops) + 1
      /\ \A i \in 1 .. Len(stops) : stops'[i] = stops[i]
      /\ stops'[Len(stops) + 1] = r
  BY AppendProperties
<1>2. /\ Len(stops) \in Nat /\ DOMAIN stops = 1 .. Len(stops)
      /\ DOMAIN stops' = 1 .. Len(stops')
  BY <1>1, LenProperties
<1>3. \A i \in DOMAIN stops : stops[i].status # "ACTIVE"
  BY ActiveStopIs DEF Refused
<1>4. \A i \in DOMAIN stops : stops[i].level \in Nat
  <2>1. \A i \in DOMAIN stops : stops[i] \in Stop
    OBVIOUS
  <2> QED
    BY <2>1 DEF Stop
<1>5. \A i \in DOMAIN stops' : i \in DOMAIN stops \/ i = Len(stops) + 1
  BY <1>1, <1>2
<1>6. \A i \in DOMAIN stops : i \in DOMAIN stops' /\ stops'[i] = stops[i]
  BY <1>1, <1>2
<1>7. RowsStand
  BY <1>4, <1>6 DEF RowsStand
<1>8. OneActive' /\ ActiveIsFresh'
  BY <1>1, <1>3, <1>5, <1>6 DEF OneActive, ActiveIsFresh
<1> QED
  BY <1>1, <1>2, <1>7, <1>8 DEF RowsSound

(* The row of an entry is active and has no order.                         *)
LEMMA EntryRow ==
  ASSUME HoldingInv, reb \in Rebalance, NEW filled \in 1 .. Size
  PROVE  LET r == NewStop(filled, mark, reb.view.atr, reb.enforce)
         IN  r \in Stop /\ r.status = "ACTIVE" /\ ~r.order
<1>1. filled \in Nat /\ mark \in Nat /\ reb.view.atr \in Nat /\ reb.enforce \in BOOLEAN
  BY StopsAssumption DEF HoldingInv, TypeOK, Rebalance, Snapshot
<1>2. (IF reb.view.atr = None THEN None ELSE Level(mark, reb.view.atr)) \in Nat
  BY <1>1 DEF None, Level, Larger
<1> QED
  BY <1>1, <1>2 DEF NewStop, Stop

LEMMA RebalanceBuysInv == ASSUME HoldingInv, RebalanceBuys PROVE HoldingInv' /\ RowsStand
<1>1. reb \in Rebalance
  <2>1. reb # Idle
    BY DEF RebalanceBuys, Idle
  <2> QED
    BY <2>1 DEF HoldingInv, TypeOK
<1>2. CASE UNCHANGED <<net, stops, leftBehind>>
  <2>1. TypeOK'
    BY <1>2 DEF RebalanceBuys, day, HoldingInv, TypeOK
  <2> QED
    BY <1>2, <2>1, QuietInv DEF RebalanceBuys, QuietFrame
<1>3. CASE Buys /\ ~Refused /\ leftBehind' = FALSE /\
           \E filled \in 1 .. Size :
             /\ net' = net + filled
             /\ stops' = Append(stops, NewStop(filled, mark, reb.view.atr, reb.enforce))
  <2>1. PICK filled \in 1 .. Size :
          /\ net' = net + filled
          /\ stops' = Append(stops, NewStop(filled, mark, reb.view.atr, reb.enforce))
    BY <1>3
  <2> DEFINE r == NewStop(filled, mark, reb.view.atr, reb.enforce)
  <2>2. filled \in Nat
    BY StopsAssumption
  <2>3. r \in Stop /\ r.status = "ACTIVE" /\ ~r.order
    BY <1>1, EntryRow
  <2>4. stops' = Append(stops, r)
    BY <2>1
  <2> HIDE DEF r
  <2>5. RowsSound /\ Len(stops) + 1 \in DOMAIN stops' /\ stops'[Len(stops) + 1] = r
    BY <1>3, <2>3, <2>4, RowAppended DEF HoldingInv, TypeOK
  <2>6. TypeOK'
    <3>1. UNCHANGED <<session, view, phase, mark, switches, mon, overlapped>> /\ reb' = Idle
      BY DEF RebalanceBuys, day
    <3>2. net' \in Int
      BY <2>1, <2>2 DEF HoldingInv, TypeOK
    <3>3. stops' \in Seq(Stop) /\ leftBehind' \in BOOLEAN
      BY <1>3, <2>5 DEF RowsSound
    <3> QED
      BY <3>1, <3>2, <3>3 DEF HoldingInv, TypeOK
  <2>7. HeldIsGuarded'
    BY <2>3, <2>5 DEF HeldIsGuarded
  <2> QED
    BY <2>5, <2>6, <2>7 DEF HoldingInv, RowsSound
<1> QED
  BY <1>2, <1>3 DEF RebalanceBuys

-----------------------------------------------------------------------------
(* The monitor, the nightly and the operator.                              *)

(* The holding stays guarded as long as no step both keeps some of it and  *)
(* takes its guard.                                                        *)
LEMMA GuardKept ==
  ASSUME HeldIsGuarded, net' > 0 /\ ~leftBehind' => net > 0 /\ ~leftBehind,
         net' > 0 /\ ~leftBehind' =>
           \A i \in DOMAIN stops : Guards(i) => i \in DOMAIN stops' /\ Guards(i)'
  PROVE  HeldIsGuarded'
  BY DEF HeldIsGuarded, Guards

(* A row of the table and the row an action makes of it.                   *)
LEMMA RowIs ==
  ASSUME HoldingInv, NEW i \in DOMAIN stops
  PROVE  /\ stops[i] \in Stop /\ i \in Nat
         /\ Triggered(stops[i]) \in Stop /\ Triggered(stops[i]).level = stops[i].level
         /\ Triggered(stops[i]).status = "TRIGGERED"
         /\ Triggered(stops[i]).order = stops[i].order
<1>1. stops[i] \in Stop
  BY DEF HoldingInv, TypeOK
<1>2. DOMAIN stops = 1 .. Len(stops)
  BY LenProperties DEF HoldingInv, TypeOK
<1> QED
  BY <1>1, <1>2, RowOperators

LEMMA ResumeExitInv ==
  ASSUME HoldingInv, NEW i \in DOMAIN stops, ResumeExit(i)
  PROVE  HoldingInv' /\ RowsStand
<1>1. Larger(net, 0) \in Nat /\ (Larger(net, 0) = 0 => ~(net > 0)) /\ i \in Nat
  BY RowIs DEF HoldingInv, TypeOK, Larger
<1>2. CASE ExitQuantity(stops[i]) = 0
  <2> DEFINE r == [stops[i] EXCEPT !.status = "CLOSED"]
  <2>1. stops' = [stops EXCEPT ![i] = r]
    BY <1>2 DEF ResumeExit
  <2>2. r \in Stop /\ r.level = stops[i].level /\ r.status # "ACTIVE"
    <3>1. stops[i] \in Stop
      BY RowIs
    <3> QED
      BY <3>1 DEF Stop
  <2> HIDE DEF r
  <2>3. RowsSound
    BY <2>1, <2>2, RowWritten DEF HoldingInv, TypeOK
  <2>4. /\ UNCHANGED <<session, view, phase, mark, net, switches, reb, mon>>
        /\ UNCHANGED <<leftBehind, overlapped>>
    BY <1>2 DEF ResumeExit, day
  <2>5. TypeOK'
    BY <2>3, <2>4 DEF HoldingInv, TypeOK, RowsSound
  <2>6. HeldIsGuarded'
    BY <1>1, <1>2, <2>4 DEF HeldIsGuarded, HoldingInv, ExitQuantity
  <2> QED
    BY <2>3, <2>5, <2>6 DEF HoldingInv, RowsSound
<1>3. CASE ExitQuantity(stops[i]) # 0
  <2>1. mon' \in Pass
    BY <1>1, <1>3 DEF ResumeExit, ExitQuantity, Pass
  <2>2. TypeOK'
    BY <1>3, <2>1 DEF ResumeExit, day, HoldingInv, TypeOK
  <2> QED
    BY <1>3, <2>2, QuietInv DEF ResumeExit, QuietFrame
<1> QED
  BY <1>2, <1>3

(* The exit order is attached to the row that fired.                       *)
LEMMA ExitOrdered ==
  ASSUME HoldingInv, NEW i \in DOMAIN stops, stops[i].status # "ACTIVE",
         stops' = [stops EXCEPT ![i].order = TRUE]
  PROVE  RowsSound
<1> DEFINE r == [stops[i] EXCEPT !.order = TRUE]
<1>1. stops' = [stops EXCEPT ![i] = r]
  OBVIOUS
<1>2. r \in Stop /\ r.level = stops[i].level /\ r.status # "ACTIVE"
  <2>1. stops[i] \in Stop
    BY RowIs
  <2> QED
    BY <2>1 DEF Stop
<1> HIDE DEF r
<1> QED
  BY <1>1, <1>2, RowWritten DEF HoldingInv, TypeOK

LEMMA PlaceExitInv ==
  ASSUME HoldingInv, ExitRow, NewHolding, PlaceExit
  PROVE  HoldingInv' /\ RowsStand
<1>1. mon.quantity \in Nat
  <2>1. mon.pc = "exit" /\ mon \in Pass
    BY DEF PlaceExit, Idle, HoldingInv, TypeOK
  <2> QED
    BY <2>1 DEF Pass
<1>2. UNCHANGED <<session, view, phase, mark, switches, reb>> /\ mon' = Idle
  BY DEF PlaceExit, day
<1>3. CASE Keep /\ UNCHANGED stops
  <2>1. TypeOK'
    BY <1>2, <1>3 DEF Keep, HoldingInv, TypeOK
  <2> QED
    BY <1>3, <2>1, QuietInv DEF Keep, QuietFrame
<1>4. CASE /\ \E filled \in 0 .. mon.quantity : Sell(mon.quantity, filled)
           /\ Overlap(RebalanceSizes)
           /\ stops' = [stops EXCEPT ![mon.stop].order = TRUE]
  <2>1. PICK filled \in 0 .. mon.quantity : Sell(mon.quantity, filled)
    BY <1>4
  <2>2. /\ net' \in Int /\ leftBehind' \in BOOLEAN /\ net' = net - filled
        /\ net' > 0 /\ net <= mon.quantity => leftBehind'
        /\ net' > 0 /\ leftBehind => leftBehind'
    BY <1>1, <2>1, SellIs
  <2>3. RowsSound
    BY <1>4, ExitOrdered DEF PlaceExit, ExitRow
  <2>4. overlapped' \in BOOLEAN
    BY <1>4 DEF Overlap, RebalanceSizes, HoldingInv, TypeOK
  <2>5. TypeOK'
    BY <1>2, <2>2, <2>3, <2>4 DEF HoldingInv, TypeOK, RowsSound
  <2>6. HeldIsGuarded'
    <3>1. net \in Int
      BY DEF HoldingInv, TypeOK
    <3>2. CASE net <= mon.quantity \/ leftBehind
      BY <2>2, <3>2 DEF HeldIsGuarded
    <3>3. CASE net > mon.quantity /\ ~leftBehind
      <4>1. PICK i \in DOMAIN stops : stops[i].status = "ACTIVE"
        BY <3>3 DEF NewHolding, PlaceExit
      <4>2. i # mon.stop /\ DOMAIN stops' = DOMAIN stops
        BY <1>4, <4>1 DEF ExitRow, PlaceExit
      <4>3. stops'[i] = stops[i]
        BY <1>4, <4>1, <4>2
      <4> QED
        BY <4>1, <4>2, <4>3 DEF HeldIsGuarded
    <3> QED
      BY <1>1, <3>1, <3>2, <3>3
  <2> QED
    BY <2>3, <2>5, <2>6 DEF HoldingInv, RowsSound
<1> QED
  BY <1>3, <1>4 DEF PlaceExit, Keep

(* What a hit makes of the row: it fires, closed when nothing is held, with *)
(* its order when one was placed.                                           *)
LEMMA RowFired ==
  ASSUME HoldingInv, NEW i, NEW r, stops' = [stops EXCEPT ![i] = r],
         i \in DOMAIN stops =>
           r \in {Triggered(stops[i]), [Triggered(stops[i]) EXCEPT !.status = "CLOSED"],
                 [Triggered(stops[i]) EXCEPT !.order = TRUE]}
  PROVE  /\ RowsSound /\ DOMAIN stops' = DOMAIN stops
         /\ i \in DOMAIN stops => stops'[i] = r
         /\ \A j \in DOMAIN stops : j # i => stops'[j] = stops[j]
<1>1. i \in DOMAIN stops =>
        /\ Triggered(stops[i]) \in Stop /\ Triggered(stops[i]).level = stops[i].level
        /\ Triggered(stops[i]).status = "TRIGGERED"
  BY RowIs
<1>2. i \in DOMAIN stops => r \in Stop /\ r.level = stops[i].level /\ r.status # "ACTIVE"
  BY <1>1 DEF Stop
<1> QED
  BY <1>2, RowWritten DEF HoldingInv, TypeOK

(* A trigger without an order guards what the row guarded.                 *)
LEMMA TriggerGuards ==
  ASSUME HoldingInv, NEW i, stops' = [stops EXCEPT ![i] = Triggered(stops[i])],
         UNCHANGED <<net, leftBehind, overlapped>>
  PROVE  RowsSound /\ HeldIsGuarded'
<1> DEFINE r == Triggered(stops[i])
<1>1. stops' = [stops EXCEPT ![i] = r]
  OBVIOUS
<1>2. i \in DOMAIN stops => r = Triggered(stops[i])
  OBVIOUS
<1>3. i \in DOMAIN stops => r.status = "TRIGGERED" /\ r.order = stops[i].order
  BY RowIs
<1> HIDE DEF r
<1>4. /\ RowsSound /\ DOMAIN stops' = DOMAIN stops
      /\ i \in DOMAIN stops => stops'[i] = r
      /\ \A j \in DOMAIN stops : j # i => stops'[j] = stops[j]
  BY <1>1, <1>2, RowFired
<1>5. \A j \in DOMAIN stops : Guards(j) => j \in DOMAIN stops' /\ Guards(j)'
  BY <1>3, <1>4 DEF Guards, HoldingInv, ActiveIsFresh
<1>6. HeldIsGuarded'
  BY <1>5, GuardKept DEF HoldingInv
<1> QED
  BY <1>4, <1>6

LEMMA FireInv == ASSUME HoldingInv, Fire PROVE HoldingInv' /\ RowsStand
<1> DEFINE i == mon.stop
           quantity == Larger(net, 0)
<1>1. UNCHANGED <<session, view, phase, mark, switches, reb>> /\ mon' = Idle
  BY DEF Fire, day
<1>2. ASSUME RowsSound, net' \in Int, leftBehind' \in BOOLEAN, overlapped' \in BOOLEAN,
             HeldIsGuarded'
      PROVE  HoldingInv' /\ RowsStand
  <2>1. TypeOK'
    BY <1>1, <1>2 DEF HoldingInv, TypeOK, RowsSound
  <2> QED
    BY <1>2, <2>1 DEF HoldingInv, RowsSound
<1>3. CASE stops' = [stops EXCEPT ![i] = Triggered(stops[i])] /\ Keep
  <2>1. UNCHANGED <<net, leftBehind, overlapped>>
    BY <1>3 DEF Keep
  <2>2. RowsSound /\ HeldIsGuarded'
    BY <1>3, <2>1, TriggerGuards
  <2> QED
    BY <1>2, <2>1, <2>2 DEF HoldingInv, TypeOK
<1>4. CASE /\ quantity = 0 /\ Keep
           /\ stops' = [stops EXCEPT ![i] = [Triggered(stops[i]) EXCEPT !.status = "CLOSED"]]
  <2> DEFINE r == [Triggered(stops[i]) EXCEPT !.status = "CLOSED"]
  <2>1. stops' = [stops EXCEPT ![i] = r]
    BY <1>4
  <2>2. RowsSound
    BY <2>1, RowFired
  <2>3. UNCHANGED <<net, leftBehind, overlapped>>
    BY <1>4 DEF Keep
  <2>4. ~(net > 0)
    BY <1>4 DEF Larger, HoldingInv, TypeOK
  <2>5. HeldIsGuarded'
    BY <2>3, <2>4 DEF HeldIsGuarded, HoldingInv
  <2> QED
    BY <1>2, <2>2, <2>3, <2>5 DEF HoldingInv, TypeOK
<1>5. CASE /\ quantity > 0 /\ Overlap(RebalanceSizes)
           /\ \E filled \in 0 .. quantity : Sell(quantity, filled)
           /\ stops' = [stops EXCEPT ![i] = [Triggered(stops[i]) EXCEPT !.order = TRUE]]
  <2> DEFINE r == [Triggered(stops[i]) EXCEPT !.order = TRUE]
  <2>1. stops' = [stops EXCEPT ![i] = r]
    BY <1>5
  <2>2. RowsSound
    BY <2>1, RowFired
  <2>3. quantity = net /\ net \in Nat
    BY <1>5 DEF Larger, HoldingInv, TypeOK
  <2>4. PICK filled \in 0 .. net : Sell(net, filled)
    BY <1>5, <2>3
  <2>5. net' \in Int /\ leftBehind' \in BOOLEAN /\ (net' > 0 => leftBehind')
    BY <2>3, <2>4, SellIs
  <2>6. HeldIsGuarded' /\ overlapped' \in BOOLEAN
    BY <1>5, <2>5 DEF HeldIsGuarded, Overlap, RebalanceSizes, HoldingInv, TypeOK
  <2> QED
    BY <1>2, <2>2, <2>5, <2>6
<1> QED
  BY <1>3, <1>4, <1>5 DEF Fire, ExitQuantity

(* The nightly lifts the level of an active row and leaves the rest of it. *)
LEMMA RatchetedIs ==
  ASSUME HoldingInv, NEW s \in Stop
  PROVE  /\ Ratcheted(s) \in Stop /\ Ratcheted(s).level >= s.level
         /\ Ratcheted(s).status = s.status /\ Ratcheted(s).order = s.order
<1>1. view.close \in Nat /\ view.atr \in Nat /\ session \in Nat
  BY StopsAssumption DEF HoldingInv, TypeOK, Snapshot
<1>2. s.high \in Nat /\ s.level \in Nat
  BY DEF Stop
<1> DEFINE high == Larger(s.high, view.close)
           candidate == IF view.atr = None THEN s.level ELSE Level(high, view.atr)
           level == Larger(s.level, candidate)
<1>3. high \in Nat
  BY <1>1, <1>2 DEF Larger
<1>4. candidate \in Nat
  <2> HIDE DEF high
  <2> QED
    BY <1>1, <1>2, <1>3 DEF Level, Larger
<1>5. level \in Nat /\ level >= s.level
  <2> HIDE DEF candidate
  <2> QED
    BY <1>2, <1>4 DEF Larger
<1>6. Ratcheted(s) = [s EXCEPT !.high = high, !.level = level, !.ratcheted = session]
  BY DEF Ratcheted
<1> HIDE DEF high, level
<1> QED
  BY <1>1, <1>3, <1>5, <1>6 DEF Stop

LEMMA RatchetInv == ASSUME HoldingInv, Ratchet PROVE HoldingInv' /\ RowsStand
<1>1. UNCHANGED <<session, view, phase, mark, net, switches, reb, mon, leftBehind, overlapped>>
  BY DEF Ratchet, day
<1>2. DOMAIN stops = 1 .. Len(stops) /\ Len(stops) \in Nat
  BY LenProperties DEF HoldingInv, TypeOK
<1>3. DOMAIN stops' = DOMAIN stops
  BY DEF Ratchet
<1>4. \A i \in DOMAIN stops : stops'[i] = Ratcheted(stops[i]) \/ stops'[i] = stops[i]
  BY DEF Ratchet
<1>5. \A i \in DOMAIN stops :
        /\ stops'[i] \in Stop /\ stops'[i].level >= stops[i].level
        /\ stops'[i].status = stops[i].status /\ stops'[i].order = stops[i].order
  <2> TAKE i \in DOMAIN stops
  <2>1. stops[i] \in Stop
    BY DEF HoldingInv, TypeOK
  <2>2. stops[i].level >= stops[i].level
    BY <2>1 DEF Stop
  <2> QED
    BY <1>4, <2>1, <2>2, RatchetedIs
<1>6. stops' \in Seq(Stop)
  <2>1. stops' = [i \in 1 .. Len(stops) |-> stops'[i]]
    BY <1>2, <1>3 DEF Ratchet
  <2>2. stops' \in [1 .. Len(stops) -> Stop]
    BY <1>2, <1>5, <2>1
  <2> QED
    BY <1>2, <2>2, SeqDef
<1>7. RowsStand
  BY <1>3, <1>5 DEF RowsStand
<1>8. OneActive' /\ ActiveIsFresh'
  BY <1>3, <1>5 DEF OneActive, ActiveIsFresh, HoldingInv
<1>9. HeldIsGuarded'
  <2>1. \A i \in DOMAIN stops : Guards(i) => i \in DOMAIN stops' /\ Guards(i)'
    BY <1>3, <1>5 DEF Guards
  <2> QED
    BY <1>1, <2>1, GuardKept DEF HoldingInv
<1>10. TypeOK'
  BY <1>1, <1>6 DEF HoldingInv, TypeOK
<1> QED
  BY <1>7, <1>8, <1>9, <1>10 DEF HoldingInv

LEMMA ManualCloseInv == ASSUME HoldingInv, ManualClose PROVE HoldingInv' /\ RowsStand
<1>1. /\ UNCHANGED <<session, view, phase, mark, switches, reb, mon, stops>>
      /\ overlapped' \in BOOLEAN
  BY DEF ManualClose, day, Overlap, RebalanceSizes, MonitorSizes, HoldingInv, TypeOK
<1>2. PICK filled \in 1 .. net : net' = net - filled /\ leftBehind' = (leftBehind /\ net' > 0)
  BY DEF ManualClose
<1>3. net \in Int /\ net > 0 /\ leftBehind \in BOOLEAN
  BY DEF ManualClose, HoldingInv, TypeOK
<1>4. net' \in Int /\ ~(net' < 0)
  BY <1>2, <1>3
<1>5. leftBehind' \in BOOLEAN /\ (net' > 0 => leftBehind' = leftBehind)
  BY <1>2, <1>3
<1>6. RowsSound
  BY <1>1, RowsKept DEF HoldingInv, TypeOK
<1>7. HeldIsGuarded'
  BY <1>1, <1>3, <1>5 DEF HoldingInv, HeldIsGuarded
<1>8. TypeOK'
  BY <1>1, <1>4, <1>5 DEF HoldingInv, TypeOK
<1> QED
  BY <1>6, <1>7, <1>8 DEF HoldingInv, RowsSound

-----------------------------------------------------------------------------
(* The exits in flight.                                                    *)

(* An exit taken off or put into flight only by the step itself, on what    *)
(* the step leaves held.                                                    *)
LEMMA FlightKept ==
  ASSUME HoldingInv, InFlight, UNCHANGED <<net, leftBehind, overlapped>>,
         reb' = reb \/ reb'.pc # "sell", mon' = mon \/ mon'.pc # "exit",
         \A i \in DOMAIN stops : stops[i].status = "ACTIVE" =>
           i \in DOMAIN stops' /\ stops'[i].status = "ACTIVE"
  PROVE  InFlight'
<1>1. SizedRight'
  BY DEF InFlight, SizedRight
<1>2. RebalanceCovers'
  BY DEF InFlight, RebalanceCovers
<1>3. NewHolding'
  BY DEF InFlight, NewHolding
<1> QED
  BY <1>1, <1>2, <1>3 DEF InFlight

(* A sale: whoever sizes an exit meanwhile is crossed by it, and the seller *)
(* sold no more than it read.                                               *)
LEMMA FlightSold ==
  ASSUME HoldingInv, InFlight, NEW filled \in Nat, net' = net - filled, net \in Int,
         mon' = mon \/ mon'.pc # "exit", reb' = reb \/ reb'.pc # "sell",
         ~overlapped' =>
           ~overlapped /\ net' >= 0 /\ mon'.pc # "exit" /\ reb'.pc # "sell",
         mon.pc = "exit" => mon.quantity \in Nat,
         reb.pc = "sell" => reb.quantity \in Nat,
         mon'.pc = "exit" /\ net' > 0 => leftBehind' \/ (UNCHANGED stops /\ ~leftBehind)
  PROVE  InFlight'
<1>1. SizedRight'
  BY DEF SizedRight
<1>2. RebalanceCovers'
  BY DEF InFlight, RebalanceCovers
<1>3. NewHolding'
  BY DEF InFlight, NewHolding
<1> QED
  BY <1>1, <1>2, <1>3 DEF InFlight

LEMMA FlightRebalanced ==
  ASSUME IInv, BeginRebalance \/ RebalanceSells \/ RebalanceBuys \/ EntryRefused
  PROVE  InFlight'
<1>1. net \in Int /\ HoldingInv /\ InFlight
  BY DEF IInv, HoldingInv, TypeOK
<1>2. CASE BeginRebalance
  <2>1. reb'.pc = "sell" /\ reb'.quantity = Larger(net, 0)
    BY <1>2 DEF BeginRebalance
  <2>2. UNCHANGED <<net, stops, mon, leftBehind, overlapped>>
    BY <1>2 DEF BeginRebalance
  <2>3. net <= Larger(net, 0) /\ (net >= 0 => Larger(net, 0) <= net)
    BY <1>1 DEF Larger
  <2>4. SizedRight'
    BY <1>1, <2>1, <2>2, <2>3 DEF InFlight, SizedRight
  <2>5. RebalanceCovers'
    BY <2>1, <2>2, <2>3 DEF RebalanceCovers
  <2>6. NewHolding'
    BY <1>1, <2>2 DEF InFlight, NewHolding
  <2> QED
    BY <2>4, <2>5, <2>6 DEF InFlight
<1>3. CASE RebalanceSells
  <2>1. reb.pc = "sell" /\ reb \in Rebalance /\ reb.quantity \in Nat
    BY <1>1, <1>3 DEF RebalanceSells, HoldingInv, TypeOK, Idle, Rebalance
  <2>2. reb' = [reb EXCEPT !.pc = "buy"] /\ mon' = mon
    BY <1>3 DEF RebalanceSells
  <2>3. reb'.pc = "buy"
    BY <2>1, <2>2 DEF Rebalance
  <2>4. CASE Keep /\ UNCHANGED stops
    BY <1>1, <2>2, <2>3, <2>4, FlightKept DEF Keep
  <2>5. CASE PlaceSell
    <3>1. PICK filled \in 0 .. reb.quantity : Sell(reb.quantity, filled)
      BY <2>5 DEF PlaceSell
    <3>2. /\ net' = net - filled /\ filled \in Nat /\ filled <= reb.quantity
          /\ net' > 0 /\ net <= reb.quantity => leftBehind'
      BY <1>1, <2>1, <3>1, SellIs
    <3>3. net <= reb.quantity
      BY <1>1, <2>1 DEF InFlight, RebalanceCovers
    <3>4. ~overlapped' => ~overlapped /\ mon.pc # "exit"
      BY <2>5 DEF PlaceSell, Overlap, MonitorSizes
    <3>5. ~overlapped => reb.quantity <= net
      BY <1>1, <2>1 DEF InFlight, SizedRight
    <3>6. ~overlapped' => net' >= 0
      BY <1>1, <2>1, <3>2, <3>4, <3>5
    <3>7. mon.pc = "exit" => mon.quantity \in Nat
      BY <1>1 DEF HoldingInv, TypeOK, Pass, Idle
    <3> QED
      BY <1>1, <2>1, <2>2, <2>3, <3>2, <3>3, <3>4, <3>6, <3>7, FlightSold
  <2> QED
    BY <1>3, <2>4, <2>5 DEF RebalanceSells
<1>4. CASE EntryRefused
  <2>1. reb' = Idle /\ UNCHANGED <<net, stops, mon, leftBehind, overlapped>>
    BY <1>4 DEF EntryRefused
  <2> QED
    BY <1>1, <2>1, FlightKept DEF Idle
<1>5. CASE RebalanceBuys
  <2>1. reb' = Idle /\ UNCHANGED <<mon, overlapped>>
    BY <1>5 DEF RebalanceBuys
  <2>2. CASE UNCHANGED <<net, stops, leftBehind>>
    BY <1>1, <2>1, <2>2, FlightKept DEF Idle
  <2>3. CASE \E filled \in 1 .. Size :
               /\ net' = net + filled
               /\ stops' = Append(stops, NewStop(filled, mark, reb.view.atr, reb.enforce))
    <3>1. PICK filled \in 1 .. Size :
            /\ net' = net + filled
            /\ stops' = Append(stops, NewStop(filled, mark, reb.view.atr, reb.enforce))
      BY <2>3
    <3>2. net' >= net /\ net' \in Int
      BY <1>1, <3>1, StopsAssumption
    <3>3. mon.pc = "exit" => mon.quantity \in Nat
      BY <1>1 DEF HoldingInv, TypeOK, Pass, Idle
    <3>4. SizedRight'
      BY <1>1, <2>1, <3>2, <3>3 DEF InFlight, SizedRight, Idle
    <3>5. Len(stops) + 1 \in DOMAIN stops' /\ stops'[Len(stops) + 1].status = "ACTIVE"
      <4> DEFINE r == NewStop(filled, mark, reb.view.atr, reb.enforce)
      <4>1. stops \in Seq(Stop) /\ reb \in Rebalance
        BY <1>1, <1>5 DEF HoldingInv, TypeOK, RebalanceBuys, Idle
      <4>2. r \in Stop /\ r.status = "ACTIVE"
        BY <1>1, <4>1, EntryRow
      <4>3. stops' = Append(stops, r)
        BY <3>1
      <4> HIDE DEF r
      <4>4. stops' \in Seq(Stop) /\ Len(stops') = Len(stops) + 1 /\ stops'[Len(stops) + 1] = r
        BY <4>1, <4>2, <4>3, AppendProperties
      <4>5. DOMAIN stops' = 1 .. Len(stops) + 1 /\ Len(stops) \in Nat
        BY <4>1, <4>4, LenProperties
      <4> QED
        BY <4>2, <4>4, <4>5
    <3>6. NewHolding' /\ RebalanceCovers'
      BY <2>1, <3>5 DEF NewHolding, RebalanceCovers, Idle
    <3> QED
      BY <3>4, <3>6 DEF InFlight
  <2> QED
    BY <1>5, <2>2, <2>3 DEF RebalanceBuys
<1> QED
  BY <1>2, <1>3, <1>4, <1>5

LEMMA FlightMonitored ==
  ASSUME IInv, PlaceExit \/ Fire \/ ManualClose \/ \E i \in DOMAIN stops : ResumeExit(i)
  PROVE  InFlight'
<1>1. net \in Int /\ HoldingInv /\ InFlight
  BY DEF IInv, HoldingInv, TypeOK
<1>2. reb.pc = "sell" => reb.quantity \in Nat
  BY <1>1 DEF HoldingInv, TypeOK, Rebalance, Idle
<1>3. mon.pc = "exit" => mon.quantity \in Nat
  BY <1>1 DEF HoldingInv, TypeOK, Pass, Idle
<1>4. ASSUME \E i \in DOMAIN stops : ResumeExit(i) PROVE InFlight'
  <2>1. PICK i \in DOMAIN stops : ResumeExit(i)
    BY <1>4
  <2>2. UNCHANGED <<net, reb, leftBehind, overlapped>> /\ mon = Idle
    BY <2>1 DEF ResumeExit
  <2>3. mon' = Idle \/ (mon'.pc = "exit" /\ mon'.quantity = Larger(net, 0)
                        /\ Larger(net, 0) # 0)
    BY <2>1, <2>2 DEF ResumeExit, ExitQuantity
  <2>4. CASE mon' = Idle
    <3>1. SizedRight'
      BY <1>1, <2>2, <2>4 DEF InFlight, SizedRight, Idle
    <3>2. RebalanceCovers'
      BY <1>1, <2>2 DEF InFlight, RebalanceCovers
    <3>3. NewHolding'
      BY <2>4 DEF NewHolding, Idle
    <3> QED
      BY <3>1, <3>2, <3>3 DEF InFlight
  <2>5. CASE mon'.pc = "exit" /\ mon'.quantity = Larger(net, 0) /\ Larger(net, 0) # 0
    <3>1. mon'.quantity = net
      BY <1>1, <2>5 DEF Larger
    <3>2. SizedRight'
      BY <1>1, <2>2, <3>1 DEF InFlight, SizedRight
    <3>3. RebalanceCovers'
      BY <1>1, <2>2 DEF InFlight, RebalanceCovers
    <3>4. NewHolding'
      BY <1>1, <2>2, <3>1 DEF NewHolding
    <3> QED
      BY <3>2, <3>3, <3>4 DEF InFlight
  <2> QED
    BY <2>3, <2>4, <2>5
<1>5. CASE PlaceExit
  <2>1. mon.pc = "exit" /\ mon' = Idle /\ reb' = reb
    BY <1>5 DEF PlaceExit
  <2>2. CASE Keep
    <3>1. UNCHANGED <<net, leftBehind, overlapped>>
      BY <2>2 DEF Keep
    <3>2. SizedRight' /\ RebalanceCovers' /\ NewHolding'
      BY <1>1, <2>1, <3>1 DEF InFlight, SizedRight, RebalanceCovers, NewHolding, Idle
    <3> QED
      BY <3>2 DEF InFlight
  <2>3. CASE Overlap(RebalanceSizes) /\ \E filled \in 0 .. mon.quantity : Sell(mon.quantity, filled)
    <3>1. PICK filled \in 0 .. mon.quantity : Sell(mon.quantity, filled)
      BY <2>3
    <3>2. net' = net - filled /\ filled \in Nat /\ filled <= mon.quantity
      BY <1>1, <1>3, <2>1, <3>1, SellIs
    <3>3. ~overlapped' => ~overlapped /\ reb.pc # "sell"
      BY <2>3 DEF Overlap, RebalanceSizes
    <3>4. ~overlapped' => net' >= 0
      <4>1. ~overlapped => mon.quantity <= net
        BY <1>1, <2>1 DEF InFlight, SizedRight
      <4> QED
        BY <1>1, <1>3, <2>1, <3>2, <3>3, <4>1
    <3>5. mon'.pc # "exit"
      BY <2>1 DEF Idle
    <3> QED
      BY <1>1, <1>2, <1>3, <2>1, <3>2, <3>3, <3>4, <3>5, FlightSold
  <2> QED
    BY <1>5, <2>2, <2>3 DEF PlaceExit
<1>6. CASE Fire
  <2>1. mon.pc = "hit" /\ mon' = Idle /\ reb' = reb
    BY <1>6 DEF Fire
  <2>2. CASE Keep
    <3>1. UNCHANGED <<net, leftBehind, overlapped>>
      BY <2>2 DEF Keep
    <3>2. SizedRight' /\ RebalanceCovers' /\ NewHolding'
      BY <1>1, <2>1, <3>1 DEF InFlight, SizedRight, RebalanceCovers, NewHolding, Idle
    <3> QED
      BY <3>2 DEF InFlight
  <2>3. CASE /\ Larger(net, 0) > 0 /\ Overlap(RebalanceSizes)
             /\ \E filled \in 0 .. Larger(net, 0) : Sell(Larger(net, 0), filled)
    <3>1. Larger(net, 0) = net /\ net \in Nat
      BY <1>1, <2>3 DEF Larger
    <3>2. PICK filled \in 0 .. net : Sell(net, filled)
      BY <2>3, <3>1
    <3>3. net' = net - filled /\ filled \in Nat /\ net' >= 0
      BY <1>1, <3>1, <3>2, SellIs
    <3>4. ~overlapped' => ~overlapped /\ reb.pc # "sell"
      BY <2>3 DEF Overlap, RebalanceSizes
    <3>5. mon'.pc # "exit"
      BY <2>1 DEF Idle
    <3> QED
      BY <1>1, <1>2, <1>3, <2>1, <3>3, <3>4, <3>5, FlightSold
  <2> QED
    BY <1>6, <2>2, <2>3 DEF Fire, ExitQuantity
<1>7. CASE ManualClose
  <2>1. UNCHANGED <<reb, mon, stops>>
    BY <1>7 DEF ManualClose
  <2>2. PICK filled \in 1 .. net : net' = net - filled /\ leftBehind' = (leftBehind /\ net' > 0)
    BY <1>7 DEF ManualClose
  <2>3. filled \in Nat /\ net' >= 0
    BY <1>1, <2>2
  <2>4. ~overlapped' => ~overlapped /\ reb.pc # "sell" /\ mon.pc # "exit"
    BY <1>7 DEF ManualClose, Overlap, RebalanceSizes, MonitorSizes
  <2>5. net' > 0 => leftBehind' \/ ~leftBehind
    BY <2>2
  <2> QED
    BY <1>1, <1>2, <1>3, <2>1, <2>2, <2>3, <2>4, <2>5, FlightSold
<1> QED
  BY <1>4, <1>5, <1>6, <1>7

LEMMA FlightQuiet ==
  ASSUME IInv, \/ Ratchet \/ NewPrice \/ NextPhase \/ NewSession \/ Restart
               \/ \E i \in DOMAIN stops : SeeHit(i)
               \/ \E name \in {"enabled", "armed", "enforce"} : Switch(name)
  PROVE  InFlight'
<1>1. HoldingInv /\ InFlight
  BY DEF IInv
<1>2. UNCHANGED <<net, leftBehind, overlapped>>
  BY DEF Ratchet, NewPrice, NextPhase, NewSession, Restart, SeeHit, Switch
<1>3. (reb' = reb \/ reb' = Idle) /\ (mon' = mon \/ mon' = Idle \/ mon'.pc = "hit")
  BY DEF Ratchet, NewPrice, NextPhase, NewSession, Restart, SeeHit, Switch
<1>4. \A i \in DOMAIN stops : stops[i].status = "ACTIVE" =>
        i \in DOMAIN stops' /\ stops'[i].status = "ACTIVE"
  <2>1. CASE UNCHANGED stops
    BY <2>1
  <2>2. CASE Ratchet
    <3>1. DOMAIN stops' = DOMAIN stops
          /\ \A i \in DOMAIN stops : stops'[i] = Ratcheted(stops[i]) \/ stops'[i] = stops[i]
      BY <2>2 DEF Ratchet
    <3>2. \A i \in DOMAIN stops : stops[i] \in Stop
      BY <1>1 DEF HoldingInv, TypeOK
    <3> QED
      BY <1>1, <3>1, <3>2, RatchetedIs
  <2> QED
    BY <2>1, <2>2 DEF NewPrice, NextPhase, NewSession, Restart, SeeHit, Switch
<1> QED
  BY <1>1, <1>2, <1>3, <1>4, FlightKept DEF Idle

-----------------------------------------------------------------------------
(* The whole.                                                              *)

LEMMA InitInv == Init => IInv
<1> SUFFICES ASSUME Init PROVE IInv
  OBVIOUS
<1>1. DOMAIN stops = {} /\ stops \in Seq(Stop)
  BY EmptySeq DEF Init
<1>2. TypeOK
  <2>1. view \in Snapshot
    BY StopsAssumption DEF Init, Snapshot
  <2>2. switches \in [enabled : BOOLEAN, armed : BOOLEAN, enforce : BOOLEAN]
    BY DEF Init
  <2>3. session \in Nat \ {0} /\ mark \in Nat /\ net \in Int
    BY DEF Init, None
  <2>4. /\ reb \in Rebalance \cup {Idle} /\ mon \in Pass \cup {Idle}
        /\ phase \in {"open", "auction", "shut"}
        /\ leftBehind \in BOOLEAN /\ overlapped \in BOOLEAN
    BY DEF Init
  <2> QED
    BY <1>1, <2>1, <2>2, <2>3, <2>4 DEF TypeOK
<1>3. OneActive /\ ActiveIsFresh
  BY <1>1 DEF OneActive, ActiveIsFresh
<1>4. HeldIsGuarded
  BY DEF Init, HeldIsGuarded
<1>5. ExitRow /\ InFlight
  BY DEF Init, ExitRow, InFlight, SizedRight, RebalanceCovers, NewHolding, Idle
<1> QED
  BY <1>2, <1>3, <1>4, <1>5 DEF IInv, HoldingInv

(* A step keeps the pass in flight, ends it, sees a hit or resumes the exit *)
(* of a row that fired.                                                     *)
LEMMA PassFate ==
  ASSUME Next
  PROVE  \/ mon' = mon \/ mon' = Idle \/ mon'.pc = "hit"
         \/ \E i \in DOMAIN stops : stops[i].status # "ACTIVE" /\ mon'.pc = "exit" /\ mon'.stop = i
<1>1. CASE \E i \in DOMAIN stops : SeeHit(i)
  BY <1>1 DEF SeeHit
<1>2. CASE \E i \in DOMAIN stops : ResumeExit(i)
  BY <1>2 DEF ResumeExit, Resumable
<1>3. CASE BeginRebalance \/ RebalanceSells \/ RebalanceBuys \/ EntryRefused \/ Ratchet \/ ManualClose
  BY <1>3 DEF BeginRebalance, RebalanceSells, RebalanceBuys, EntryRefused, Ratchet, ManualClose
<1>4. CASE PlaceExit \/ Fire \/ Restart
  BY <1>4 DEF PlaceExit, Fire, Restart
<1>5. CASE NewPrice \/ NextPhase \/ NewSession
           \/ \E name \in {"enabled", "armed", "enforce"} : Switch(name)
  BY <1>5 DEF NewPrice, NextPhase, NewSession, Switch
<1> QED
  BY <1>1, <1>2, <1>3, <1>4, <1>5 DEF Next

LEMMA NextInv == IInv /\ [Next]_vars => IInv' /\ RowsStand
<1> SUFFICES ASSUME IInv, [Next]_vars PROVE IInv' /\ RowsStand
  OBVIOUS
<1>1. CASE Next
  <2>1. HoldingInv' /\ RowsStand
    BY <1>1, BeginRebalanceInv, RebalanceSellsInv, RebalanceBuysInv, EntryRefusedInv,
       ResumeExitInv, SeeHitInv, PlaceExitInv, FireInv, RatchetInv, ManualCloseInv,
       SwitchInv, DayInv DEF Next, IInv, InFlight
  <2>2. ExitRow'
    <3>1. CASE mon' = mon
      BY <2>1, <3>1 DEF IInv, ExitRow, RowsStand
    <3>2. CASE mon' = Idle \/ mon'.pc = "hit"
      BY <3>2 DEF ExitRow, Idle
    <3>3. CASE \E i \in DOMAIN stops :
                 stops[i].status # "ACTIVE" /\ mon'.pc = "exit" /\ mon'.stop = i
      BY <2>1, <3>3 DEF ExitRow, RowsStand
    <3> QED
      BY <1>1, <3>1, <3>2, <3>3, PassFate
  <2>3. InFlight'
    BY <1>1, FlightRebalanced, FlightMonitored, FlightQuiet DEF Next
  <2> QED
    BY <2>1, <2>2, <2>3 DEF IInv
<1>2. CASE UNCHANGED vars
  <2>1. TypeOK' /\ UNCHANGED mon
    BY <1>2 DEF vars, day, IInv, HoldingInv, TypeOK
  <2>2. HoldingInv' /\ RowsStand
    BY <1>2, <2>1, QuietInv DEF vars, QuietFrame, IInv
  <2>3. ExitRow'
    BY <1>2 DEF vars, IInv, ExitRow
  <2>4. InFlight'
    BY <1>2, FlightKept DEF vars, IInv
  <2> QED
    BY <2>2, <2>3, <2>4 DEF IInv
<1> QED
  BY <1>1, <1>2

(* The rows, the holding and the pass in flight stay as IInv says.         *)
LEMMA StopsAreSound == Spec => []IInv
  BY InitInv, NextInv, PTL DEF Spec

(* A trailing stop never falls and never comes back to life, whatever the  *)
(* rebalance, the monitor, the nightly, the operator and restarts do.      *)
THEOREM StopsNeverFall == Spec => StopNeverFalls
<1> DEFINE Kept == \A i \in DOMAIN stops :
                     /\ i \in DOMAIN stops' /\ stops'[i].level >= stops[i].level
                     /\ stops[i].status # "ACTIVE" => stops'[i].status # "ACTIVE"
<1>1. IInv /\ [Next]_vars => [Kept]_vars
  BY NextInv DEF RowsStand
<1>2. StopNeverFalls <=> [][Kept]_vars
  BY DEF StopNeverFalls
<1> HIDE DEF Kept
<1> QED
  BY <1>1, <1>2, StopsAreSound, PTL DEF Spec

(* What the rotation holds is watched by a stop that can still sell it,    *)
(* whatever the size of the entry and the number of failures; the          *)
(* exception is what an exit order could not fill.                         *)
THEOREM HoldingsGuarded == Spec => []HeldIsGuarded
<1>1. IInv => HeldIsGuarded
  BY DEF IInv, HoldingInv
<1> QED
  BY <1>1, StopsAreSound, PTL

(* The rotation is short only after a sale came between the sizing and the *)
(* placing of another exit: every exit in flight is covered by what is     *)
(* held until then, whatever is bought, sold in part or refused.           *)
THEOREM ShortsExplained == Spec => []ShortNeedsOverlap
<1>1. IInv => ShortNeedsOverlap
  BY DEF IInv, HoldingInv, TypeOK, InFlight, SizedRight, ShortNeedsOverlap
<1> QED
  BY <1>1, StopsAreSound, PTL
=============================================================================
