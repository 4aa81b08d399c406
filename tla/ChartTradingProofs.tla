------------------------- MODULE ChartTradingProofs -------------------------
(***************************************************************************)
(* Trading from the chart, for any portfolios, sessions in flight, size,   *)
(* levels and number of trades and disturbances: outside the portfolios    *)
(* where a commit met another's reading, nothing is sold that is not held, *)
(* one trade is open at a time, and what is held is under it.              *)
(***************************************************************************)
EXTENDS ChartTrading, FiniteSetTheorems, SequenceTheorems, WellFoundedInduction, TLAPS

Trade == [portfolio : Portfolios, side : Sides, stop : Nat, target : Nat, open : BOOLEAN]
Row == [id : Nat, net : Int]
Tables == [trades : Seq(Trade), position : [Portfolios -> [Sides -> Row]],
           left : SUBSET (Portfolios \X Sides)]
Opening == [kind : {"open"}, portfolio : Portfolios, side : Sides]
ClosingOne == [kind : {"close"}, trade : Nat, portfolio : Portfolios, side : Sides,
               copy : Row, quantity : Nat]
Entry == [id : Nat, copy : Trade]

TypeOK ==
  /\ db \in Tables /\ work \in Tables
  /\ job \in [Actors -> {Idle} \cup Opening \cup ClosingOne]
  /\ pass \in [queue : SUBSET Entry, wrote : BOOLEAN]
  /\ crossed \in SUBSET Portfolios

-----------------------------------------------------------------------------
(* The inductive invariant.                                                *)

\* What the tables say of portfolio p.
SoundAt(d, p) ==
  /\ \A side \in Sides : d.position[p][side].net >= 0
  /\ \A side \in Sides :
       d.position[p][side].net > 0 /\ <<p, side>> \notin d.left =>
         \E i \in OpenTrades(d, p) : d.trades[i].side = side
  /\ \A i, j \in OpenTrades(d, p) : i = j

\* The rows of d are rows of e, of the same portfolio and side.
Grows(d, e) ==
  /\ DOMAIN d.trades \subseteq DOMAIN e.trades
  /\ \A i \in DOMAIN d.trades :
       e.trades[i].portfolio = d.trades[i].portfolio /\ e.trades[i].side = d.trades[i].side

\* Portfolio p is the same in d and e, but for the levels of its trades.
SameAt(d, e, p) ==
  /\ e.position[p] = d.position[p]
  /\ OpenTrades(e, p) = OpenTrades(d, p)
  /\ \A side \in Sides : <<p, side>> \in e.left <=> <<p, side>> \in d.left

\* What the monitor has not committed: it closed trades and opened none.
WorkAhead ==
  /\ ~pass.wrote => work = db
  /\ Grows(db, work) /\ Grows(work, db)
  /\ \A i \in DOMAIN work.trades : work.trades[i].open => db.trades[i].open
  /\ \A e \in pass.queue : e.id \in DOMAIN db.trades

TradeOf(closing, d) ==
  /\ closing.trade \in DOMAIN d.trades
  /\ d.trades[closing.trade].portfolio = closing.portfolio
  /\ d.trades[closing.trade].side = closing.side
  /\ closing.quantity = ToSell(closing.copy)

\* A close in flight is of a trade of its portfolio and side.
JobsKnown ==
  /\ job["monitor"].kind # "open"
  /\ \A a \in Actors : job[a].kind = "close" => TradeOf(job[a], db)

Fresh(closing, d) == closing.copy = d.position[closing.portfolio][closing.side]

\* What a job read still holds, unless a commit met it.
SessionFresh(s) ==
  /\ job[s].kind = "open" /\ job[s].portfolio \notin crossed =>
       OpenTrades(db, job[s].portfolio) = {}
  /\ job[s].kind = "close" /\ job[s].portfolio \notin crossed => Fresh(job[s], db)
JobsFresh ==
  /\ \A s \in Sessions : SessionFresh(s)
  /\ job["monitor"].kind = "close" /\ job["monitor"].portfolio \notin crossed =>
       Fresh(job["monitor"], work)

TablesSound == \A p \in Portfolios \ crossed : SoundAt(db, p) /\ SoundAt(work, p)

IInv == TypeOK /\ WorkAhead /\ JobsKnown /\ JobsFresh /\ TablesSound

-----------------------------------------------------------------------------
(* The tables.                                                             *)

(* A nonempty set of naturals has a least element.                         *)
LEMMA LeastExists ==
  ASSUME NEW T, T \subseteq Nat, T # {}
  PROVE  \E x \in T : \A y \in T : x <= y
<1> DEFINE R == OpToRel(<, Nat)
<1>1. IsWellFoundedOn(R, Nat)
  BY NatLessThanWellFounded
<1>2. R = {ss \in Nat \X Nat : ss[1] < ss[2]}
  BY DEF OpToRel
<1> HIDE DEF R
<1>3. PICK x \in T : \A y \in T : ~ (<<y, x>> \in R)
  BY <1>1, WFMin
<1>4. ASSUME NEW y \in T PROVE x <= y
  <2>1. ~ (<<y, x>> \in R) /\ x \in Nat /\ y \in Nat
    BY <1>3
  <2> QED
    BY <2>1, <1>2
<1> QED
  BY <1>4

(* The rows of a table of trades.                                          *)
LEMMA TradesAre ==
  ASSUME NEW d \in Tables
  PROVE  /\ d.trades \in Seq(Trade) /\ Len(d.trades) \in Nat
         /\ DOMAIN d.trades = 1 .. Len(d.trades)
         /\ \A i \in DOMAIN d.trades : i \in Nat /\ d.trades[i] \in Trade
<1>1. d.trades \in Seq(Trade)
  BY DEF Tables
<1>2. DOMAIN d.trades = 1 .. Len(d.trades) /\ Len(d.trades) \in Nat
  BY <1>1, LenProperties
<1>3. \A i \in DOMAIN d.trades : d.trades[i] \in Trade
  BY <1>1, <1>2, ElementOfSeq
<1> QED
  BY <1>1, <1>2, <1>3

(* The rows of a table of positions.                                       *)
LEMMA PositionsAre ==
  ASSUME NEW d \in Tables, NEW p \in Portfolios, NEW side \in Sides
  PROVE  /\ d.position[p][side] \in Row
         /\ d.position[p][side].net \in Int /\ d.position[p][side].id \in Nat
<1>1. d.position[p] \in [Sides -> Row]
  BY DEF Tables
<1>2. d.position[p][side] \in Row
  BY <1>1
<1> QED
  BY <1>2 DEF Row

(* The newest open trade is one of them.                                   *)
LEMMA OpenTradeIs ==
  ASSUME NEW d \in Tables, NEW p, OpenTrades(d, p) # {}
  PROVE  OpenTrade(d, p) \in OpenTrades(d, p)
<1> DEFINE n == Len(d.trades)
           T == {k \in Nat : \E i \in OpenTrades(d, p) : k = n - i}
<1>1. n \in Nat /\ \A i \in OpenTrades(d, p) : i \in Nat /\ i <= n
  BY TradesAre DEF OpenTrades
<1> HIDE DEF n
<1>2. T # {} /\ T \subseteq Nat
  <2>1. PICK i \in OpenTrades(d, p) : TRUE
    OBVIOUS
  <2>2. n - i \in Nat
    BY <1>1, <2>1
  <2> QED
    BY <2>1, <2>2
<1>3. PICK m \in T : \A k \in T : m <= k
  BY <1>2, LeastExists
<1>4. PICK i \in OpenTrades(d, p) : m = n - i
  BY <1>3
<1>5. \A j \in OpenTrades(d, p) : j <= i
  <2> TAKE j \in OpenTrades(d, p)
  <2>1. n - j \in T
    BY <1>1
  <2>2. n - i <= n - j
    BY <1>3, <1>4, <2>1
  <2> QED
    BY <1>1, <1>4, <2>2
<1> QED
  BY <1>5 DEF OpenTrade

(* The oldest entry of a queue is one of them.                             *)
LEMMA FirstIs ==
  ASSUME NEW queue \in SUBSET Entry, queue # {}
  PROVE  First(queue) \in queue
<1> DEFINE T == {e.id : e \in queue}
<1>1. T # {} /\ T \subseteq Nat
  BY DEF Entry
<1>2. PICK m \in T : \A k \in T : m <= k
  BY <1>1, LeastExists
<1>3. PICK e \in queue : e.id = m
  BY <1>2
<1>4. \A f \in queue : e.id <= f.id
  BY <1>2, <1>3
<1> QED
  BY <1>4 DEF First

(* A portfolio that a step does not reach is as sound as it was.           *)
LEMMA SoundStays ==
  ASSUME NEW d, NEW e, NEW p, SoundAt(d, p), Grows(d, e), SameAt(d, e, p)
  PROVE  SoundAt(e, p)
<1>1. \A i \in OpenTrades(d, p) : i \in DOMAIN d.trades
  BY DEF OpenTrades
<1>2. \A i \in OpenTrades(e, p) : i \in OpenTrades(d, p) /\ e.trades[i].side = d.trades[i].side
  BY <1>1 DEF Grows, SameAt
<1>3. \A side \in Sides :
        e.position[p][side].net > 0 /\ <<p, side>> \notin e.left =>
          \E i \in OpenTrades(e, p) : e.trades[i].side = side
  BY <1>2 DEF SoundAt, SameAt
<1> QED
  BY <1>2, <1>3 DEF SoundAt, SameAt

\* e differs from d in one position row.
RowWritten(d, e, p, side, row) ==
  /\ \A q \in Portfolios, s \in Sides :
       e.position[q][s] = IF q = p /\ s = side THEN row ELSE d.position[q][s]
  /\ \A q \in Portfolios \ {p} : e.position[q] = d.position[q]

\* What exits left unsold changes for one portfolio and side only.
LeftStays(d, e, p, side) ==
  \A q \in Portfolios, s \in Sides :
    ~(q = p /\ s = side) => (<<q, s>> \in e.left <=> <<q, s>> \in d.left)

\* A row sold to the end leaves nothing unsold.
LeftCleared(d, e, p, side, row) ==
  e.left = IF row.net = 0 THEN d.left \ {<<p, side>>} ELSE d.left

\* e has one trade more, the open row r.
AppendedTo(d, e, r) == e.trades = Append(d.trades, r)
OneMore(d, e, r) ==
  \E n \in DOMAIN e.trades :
    /\ e.trades[n] = r
    /\ OpenTrades(e, r.portfolio) = OpenTrades(d, r.portfolio) \cup {n}

\* A fill wrote row and nothing else but what it leaves.
FillWrote(d, e, p, side, row) ==
  /\ e \in Tables /\ e.trades = d.trades /\ row \in Row
  /\ LeftCleared(d, e, p, side, row)
  /\ RowWritten(d, e, p, side, row) /\ LeftStays(d, e, p, side)

(* A fill writes one position row and what it leaves.                      *)
LEMMA FillIs ==
  ASSUME NEW d \in Tables, NEW p \in Portfolios, NEW side \in Sides, NEW copy \in Row,
         NEW quantity \in Int, NEW e, e = Fill(d, p, side, copy, quantity),
         NEW row, row = Filled(d.position[p][side], copy, quantity)
  PROVE  FillWrote(d, e, p, side, row)
<1> DEFINE now == d.position[p][side]
<1>1. now \in Row
  BY PositionsAre
<1>2. row \in Row
  <2>1. row = Filled(now, copy, quantity)
    OBVIOUS
  <2> HIDE DEF now
  <2> QED
    BY <1>1, <2>1 DEF Filled, Row
<1>3. e = [d EXCEPT !.position[p][side] = row,
                    !.left = IF row.net = 0 THEN d.left \ {<<p, side>>} ELSE d.left]
  BY DEF Fill, Tables
<1>4. /\ d.trades \in Seq(Trade) /\ d.position \in [Portfolios -> [Sides -> Row]]
      /\ d.left \in SUBSET (Portfolios \X Sides)
  BY DEF Tables
<1>5. /\ e.trades = d.trades
      /\ e.position = [d.position EXCEPT ![p][side] = row]
      /\ e.left = IF row.net = 0 THEN d.left \ {<<p, side>>} ELSE d.left
  BY <1>3 DEF Tables
<1>6. [d.position EXCEPT ![p][side] = row] \in [Portfolios -> [Sides -> Row]]
  BY <1>2, <1>4
<1>7. e \in Tables
  BY <1>3, <1>4, <1>5, <1>6 DEF Tables
<1>8. \A q \in Portfolios, s \in Sides :
        e.position[q][s] = IF q = p /\ s = side THEN row ELSE d.position[q][s]
  BY <1>4, <1>5
<1>9. \A q \in Portfolios \ {p} : e.position[q] = d.position[q]
  BY <1>4, <1>5
<1>10. LeftStays(d, e, p, side)
  <2>1. \A q, s : <<q, s>> = <<p, side>> => q = p /\ s = side
    OBVIOUS
  <2>2. \A z : z # <<p, side>> => (z \in e.left <=> z \in d.left)
    BY <1>5
  <2> QED
    BY <2>1, <2>2 DEF LeftStays
<1> QED
  BY <1>2, <1>5, <1>7, <1>8, <1>9, <1>10 DEF RowWritten, LeftCleared, FillWrote

(* A row closed takes its levels with it and leaves the others.            *)
LEMMA ShutIs ==
  ASSUME NEW t \in Trade
  PROVE  /\ Shut(t) \in Trade /\ ~Shut(t).open
         /\ Shut(t).portfolio = t.portfolio /\ Shut(t).side = t.side
  BY DEF Shut, Trade, Unset

(* Two tables whose trades are the same, but for one that e has closed.    *)
LEMMA TradesShut ==
  ASSUME NEW d \in Tables, NEW e, NEW t \in DOMAIN d.trades,
         e.trades = [d.trades EXCEPT ![t] = Shut(d.trades[t])]
  PROVE  /\ e.trades \in Seq(Trade) /\ DOMAIN e.trades = DOMAIN d.trades
         /\ Grows(d, e) /\ Grows(e, d)
         /\ \A i \in DOMAIN e.trades : e.trades[i].open => d.trades[i].open
         /\ \A p : OpenTrades(e, p) = OpenTrades(d, p) \ {t}
<1> DEFINE r == Shut(d.trades[t])
<1>1. r \in Trade /\ ~r.open /\ r.portfolio = d.trades[t].portfolio /\ r.side = d.trades[t].side
  BY TradesAre, ShutIs
<1>2. e.trades = [d.trades EXCEPT ![t] = r]
  OBVIOUS
<1> HIDE DEF r
<1>3. e.trades \in Seq(Trade)
  BY <1>1, <1>2, TradesAre, ExceptSeq
<1>4. /\ DOMAIN e.trades = DOMAIN d.trades /\ e.trades[t] = r
      /\ \A i \in DOMAIN d.trades : i # t => e.trades[i] = d.trades[i]
  BY <1>2
<1>5. \A p : OpenTrades(e, p) = OpenTrades(d, p) \ {t}
  BY <1>1, <1>4 DEF OpenTrades
<1>6. Grows(d, e) /\ Grows(e, d)
  BY <1>1, <1>4 DEF Grows
<1> QED
  BY <1>1, <1>3, <1>4, <1>5, <1>6

(* What a close writes.                                                    *)
LEMMA ClosedIs ==
  ASSUME NEW d \in Tables, NEW c \in ClosingOne, TradeOf(c, d), NEW sold \in 0 .. c.quantity,
         NEW e, e = Closed(d, c, sold),
         NEW row, row = Filled(d.position[c.portfolio][c.side], c.copy, -sold)
  PROVE  /\ e \in Tables
         /\ e.trades = [d.trades EXCEPT ![c.trade] = Shut(d.trades[c.trade])]
         /\ RowWritten(d, e, c.portfolio, c.side, row) /\ LeftStays(d, e, c.portfolio, c.side)
         /\ sold < c.quantity => <<c.portfolio, c.side>> \in e.left
<1> DEFINE p == c.portfolio
           side == c.side
           copy == c.copy
           k == -sold
           t == c.trade
           f == Fill(d, p, side, copy, k)
<1>1. /\ p \in Portfolios /\ side \in Sides /\ copy \in Row
      /\ c.quantity \in Nat /\ k \in Int
  BY DEF ClosingOne
<1>2. row = Filled(d.position[p][side], copy, k)
  OBVIOUS
<1>3. e = [f EXCEPT !.trades[t] = Shut(f.trades[t]),
                    !.left = IF sold < c.quantity THEN f.left \cup {<<p, side>>} ELSE f.left]
  BY DEF Closed
<1>4. f = Fill(d, p, side, copy, k)
  OBVIOUS
<1>5. t \in DOMAIN d.trades
  BY DEF TradeOf
<1> HIDE DEF p, side, copy, k, f, t
<1>6. /\ f \in Tables /\ f.trades = d.trades
      /\ RowWritten(d, f, p, side, row) /\ LeftStays(d, f, p, side)
  <2>1. p \in Portfolios /\ side \in Sides /\ copy \in Row /\ k \in Int
    BY <1>1
  <2>2. FillWrote(d, f, p, side, row)
    BY <1>2, <1>4, <2>1, FillIs
  <2> QED
    BY <2>2 DEF FillWrote
<1>7. /\ f.trades \in Seq(Trade) /\ f.position \in [Portfolios -> [Sides -> Row]]
      /\ f.left \in SUBSET (Portfolios \X Sides)
  BY <1>6 DEF Tables
<1>8. /\ e.trades = [d.trades EXCEPT ![t] = Shut(d.trades[t])]
      /\ e.position = f.position
      /\ e.left = IF sold < c.quantity THEN f.left \cup {<<p, side>>} ELSE f.left
      /\ e = [trades |-> e.trades, position |-> f.position, left |-> e.left]
  BY <1>3, <1>6 DEF Tables
<1>9. e.trades \in Seq(Trade)
  BY <1>5, <1>8, TradesShut
<1>10. e \in Tables
  <2>1. e.left \in SUBSET (Portfolios \X Sides)
    BY <1>1, <1>7, <1>8
  <2> QED
    BY <1>7, <1>8, <1>9, <2>1 DEF Tables
<1>11. LeftStays(d, e, p, side)
  <2>1. \A q, s : <<q, s>> = <<p, side>> => q = p /\ s = side
    OBVIOUS
  <2>2. \A z : z # <<p, side>> => (z \in e.left <=> z \in f.left)
    BY <1>8
  <2> QED
    BY <1>6, <2>1, <2>2 DEF LeftStays
<1>12. sold < c.quantity => <<p, side>> \in e.left
  BY <1>8
<1>13. RowWritten(d, e, p, side, row)
  BY <1>6, <1>8 DEF RowWritten
<1> QED
  BY <1>8, <1>10, <1>11, <1>12, <1>13 DEF p, side, t

(* A close reaches its own portfolio only, and opens no trade.             *)
LEMMA ClosedStays ==
  ASSUME NEW d \in Tables, NEW c \in ClosingOne, TradeOf(c, d), NEW sold \in 0 .. c.quantity,
         NEW e, e = Closed(d, c, sold)
  PROVE  /\ e \in Tables /\ Grows(d, e) /\ Grows(e, d)
         /\ \A i \in DOMAIN e.trades : e.trades[i].open => d.trades[i].open
         /\ \A q \in Portfolios : OpenTrades(e, q) = OpenTrades(d, q) \ {c.trade}
         /\ \A q \in Portfolios \ {c.portfolio} : SameAt(d, e, q)
<1> DEFINE t == c.trade
<1>1. /\ e \in Tables
      /\ e.trades = [d.trades EXCEPT ![t] = Shut(d.trades[t])]
      /\ \A q \in Portfolios \ {c.portfolio} : e.position[q] = d.position[q]
      /\ LeftStays(d, e, c.portfolio, c.side)
  <2>1. PICK row : row = Filled(d.position[c.portfolio][c.side], c.copy, -sold)
    OBVIOUS
  <2>2. /\ e \in Tables
        /\ e.trades = [d.trades EXCEPT ![c.trade] = Shut(d.trades[c.trade])]
        /\ RowWritten(d, e, c.portfolio, c.side, row) /\ LeftStays(d, e, c.portfolio, c.side)
    BY <2>1, ClosedIs
  <2> QED
    BY <2>2 DEF RowWritten
<1>2. t \in DOMAIN d.trades /\ d.trades[t].portfolio = c.portfolio
  BY DEF TradeOf
<1> HIDE DEF t
<1>3. /\ Grows(d, e) /\ Grows(e, d)
      /\ \A i \in DOMAIN e.trades : e.trades[i].open => d.trades[i].open
      /\ \A q : OpenTrades(e, q) = OpenTrades(d, q) \ {t}
  BY <1>1, <1>2, TradesShut
<1>4. \A q \in Portfolios \ {c.portfolio} : t \notin OpenTrades(d, q)
  BY <1>2 DEF OpenTrades
<1>5. \A q \in Portfolios \ {c.portfolio} : SameAt(d, e, q)
  <2> TAKE q \in Portfolios \ {c.portfolio}
  <2>1. OpenTrades(e, q) = OpenTrades(d, q)
    BY <1>3, <1>4
  <2> QED
    BY <1>1, <2>1 DEF SameAt, LeftStays
<1> QED
  BY <1>1, <1>3, <1>5 DEF t

(* A close of what is held, read as it is, sells no more than is held and  *)
(* notes what it could not sell.                                           *)
LEMMA ClosedSound ==
  ASSUME NEW d \in Tables, NEW c \in ClosingOne, TradeOf(c, d), NEW sold \in 0 .. c.quantity,
         NEW e, e = Closed(d, c, sold), Fresh(c, d), SoundAt(d, c.portfolio)
  PROVE  SoundAt(e, c.portfolio)
<1> DEFINE p == c.portfolio
           side == c.side
           now == d.position[p][side]
           row == Filled(now, c.copy, -sold)
<1>1. p \in Portfolios /\ side \in Sides
  BY DEF ClosingOne
<1>2. /\ e \in Tables
      /\ \A s \in Sides : e.position[p][s] = IF s = side THEN row ELSE d.position[p][s]
      /\ \A s \in Sides : s # side => (<<p, s>> \in e.left <=> <<p, s>> \in d.left)
      /\ sold < c.quantity => <<p, side>> \in e.left
  <2>1. row = Filled(d.position[c.portfolio][c.side], c.copy, -sold)
    OBVIOUS
  <2> HIDE DEF row
  <2>2. /\ e \in Tables /\ RowWritten(d, e, c.portfolio, c.side, row)
        /\ LeftStays(d, e, c.portfolio, c.side)
        /\ sold < c.quantity => <<c.portfolio, c.side>> \in e.left
    BY <2>1, ClosedIs
  <2> QED
    BY <1>1, <2>2 DEF RowWritten, LeftStays
<1>3. Grows(d, e) /\ OpenTrades(e, p) = OpenTrades(d, p) \ {c.trade}
  BY <1>1, ClosedStays
<1>4. now.net \in Nat /\ c.copy = now /\ c.quantity = IF now.net > 0 THEN now.net ELSE 0
  <2>1. now.net >= 0 /\ now.net \in Int
    BY <1>1, PositionsAre DEF SoundAt
  <2> QED
    BY <2>1 DEF Fresh, TradeOf, ToSell
<1>5. row.net \in Nat /\ (row.net > 0 => sold < c.quantity)
  <2> HIDE DEF now
  <2>1. row.net = IF -sold = 0 THEN now.net ELSE now.net - sold
    BY <1>4 DEF Filled
  <2>2. sold \in Nat /\ sold <= c.quantity
    BY <1>4
  <2> QED
    BY <1>4, <2>1, <2>2
<1>6. d.trades[c.trade].side = side /\ c.trade \in DOMAIN d.trades
  BY DEF TradeOf
<1>7. /\ \A s \in Sides : d.position[p][s].net >= 0
      /\ \A s \in Sides : d.position[p][s].net > 0 /\ <<p, s>> \notin d.left =>
           \E i \in OpenTrades(d, p) : d.trades[i].side = s
      /\ \A i, j \in OpenTrades(d, p) : i = j
  BY DEF SoundAt
<1> HIDE DEF row, now, p, side
<1>8. \A s \in Sides : e.position[p][s].net >= 0
  BY <1>2, <1>5, <1>7
<1>9. ASSUME NEW s \in Sides, e.position[p][s].net > 0, <<p, s>> \notin e.left
      PROVE  \E i \in OpenTrades(e, p) : e.trades[i].side = s
  <2>1. s # side
    BY <1>2, <1>5, <1>9
  <2>2. PICK i \in OpenTrades(d, p) : d.trades[i].side = s
    BY <1>2, <1>7, <1>9, <2>1
  <2>3. i # c.trade /\ i \in DOMAIN d.trades
    BY <1>6, <2>1, <2>2 DEF OpenTrades
  <2> QED
    BY <1>3, <2>2, <2>3 DEF Grows
<1>10. \A i, j \in OpenTrades(e, p) : i = j
  BY <1>3, <1>7
<1>11. SoundAt(e, p)
  BY <1>8, <1>9, <1>10 DEF SoundAt
<1> QED
  BY <1>11 DEF p

(* A fill for a portfolio that trades nothing else keeps it sound, when it *)
(* does not sell more than is held and what it leaves has its trade.       *)
LEMMA FillSound ==
  ASSUME NEW d \in Tables, NEW p \in Portfolios, NEW side \in Sides,
         NEW e, NEW row \in Row, e.trades = d.trades,
         RowWritten(d, e, p, side, row), LeftStays(d, e, p, side),
         row.net >= 0, SoundAt(d, p),
         row.net > 0 /\ <<p, side>> \notin e.left =>
           \E i \in OpenTrades(d, p) : d.trades[i].side = side
  PROVE  SoundAt(e, p)
<1>1. OpenTrades(e, p) = OpenTrades(d, p)
  BY DEF OpenTrades
<1>2. \A s \in Sides : e.position[p][s].net >= 0
  BY DEF RowWritten, SoundAt
<1>3. ASSUME NEW s \in Sides, e.position[p][s].net > 0, <<p, s>> \notin e.left
      PROVE  \E i \in OpenTrades(e, p) : e.trades[i].side = s
  <2>1. CASE s = side
    BY <1>1, <1>3, <2>1 DEF RowWritten
  <2>2. CASE s # side
    <3>1. e.position[p][s] = d.position[p][s] /\ <<p, s>> \notin d.left
      BY <1>3, <2>2 DEF RowWritten, LeftStays
    <3> QED
      BY <1>1, <1>3, <3>1 DEF SoundAt
  <2> QED
    BY <2>1, <2>2
<1> QED
  BY <1>1, <1>2, <1>3 DEF SoundAt

(* Shares sold from the positions page.                                    *)
LEMMA HandSold ==
  ASSUME NEW d \in Tables, NEW p \in Portfolios, NEW side \in Sides,
         NEW now, now = d.position[p][side], NEW sold \in 1 .. now.net,
         NEW e, e = Fill(d, p, side, now, -sold)
  PROVE  /\ e \in Tables /\ Grows(d, e)
         /\ \A q \in Portfolios \ {p} : SameAt(d, e, q)
         /\ SoundAt(d, p) => SoundAt(e, p)
<1>1. now \in Row /\ now.net \in Int /\ sold \in Nat /\ 0 < sold /\ sold <= now.net
  BY PositionsAre
<1> DEFINE k == -sold
           row == Filled(now, now, k)
<1>2. k \in Int /\ row.net = now.net - sold
  BY <1>1 DEF Filled
<1>3. row = Filled(d.position[p][side], now, k) /\ e = Fill(d, p, side, now, k)
  OBVIOUS
<1> HIDE DEF k, row
<1>4. /\ e \in Tables /\ e.trades = d.trades /\ row \in Row
      /\ LeftCleared(d, e, p, side, row)
      /\ RowWritten(d, e, p, side, row) /\ LeftStays(d, e, p, side)
  <2>1. FillWrote(d, e, p, side, row)
    BY <1>1, <1>2, <1>3, FillIs
  <2> QED
    BY <2>1 DEF FillWrote
<1>5. Grows(d, e)
  BY <1>4 DEF Grows
<1>6. \A q \in Portfolios \ {p} : SameAt(d, e, q)
  BY <1>4 DEF RowWritten, LeftStays, SameAt, OpenTrades
<1>7. ASSUME SoundAt(d, p) PROVE SoundAt(e, p)
  <2>1. row.net >= 0 /\ (row.net > 0 => now.net > 0 /\ e.left = d.left)
    BY <1>1, <1>2, <1>4 DEF LeftCleared
  <2>2. row.net > 0 /\ <<p, side>> \notin e.left =>
          \E i \in OpenTrades(d, p) : d.trades[i].side = side
    BY <1>7, <2>1 DEF SoundAt
  <2> QED
    BY <1>4, <1>7, <2>1, <2>2, FillSound
<1> QED
  BY <1>4, <1>5, <1>6, <1>7

(* A trade appended.                                                       *)
LEMMA TradeAppended ==
  ASSUME NEW d \in Tables, NEW r \in Trade, NEW e, AppendedTo(d, e, r), r.open
  PROVE  /\ e.trades \in Seq(Trade) /\ Grows(d, e)
         /\ \A q \in Portfolios : q # r.portfolio => OpenTrades(e, q) = OpenTrades(d, q)
         /\ OneMore(d, e, r)
<1> DEFINE n == Len(d.trades) + 1
<1>1. /\ e.trades \in Seq(Trade) /\ Len(e.trades) = n
      /\ \A i \in 1 .. Len(d.trades) : e.trades[i] = d.trades[i]
      /\ e.trades[n] = r
  BY TradesAre, AppendProperties DEF AppendedTo
<1>2. /\ Len(d.trades) \in Nat /\ DOMAIN d.trades = 1 .. Len(d.trades)
      /\ DOMAIN e.trades = 1 .. n
  BY <1>1, TradesAre, LenProperties
<1>3. DOMAIN e.trades = DOMAIN d.trades \cup {n} /\ n \notin DOMAIN d.trades
  BY <1>2
<1> HIDE DEF n
<1>4. Grows(d, e)
  BY <1>1, <1>2, <1>3 DEF Grows
<1>5. \A q \in Portfolios : q # r.portfolio => OpenTrades(e, q) = OpenTrades(d, q)
  BY <1>1, <1>2, <1>3 DEF OpenTrades
<1>6. OpenTrades(e, r.portfolio) = OpenTrades(d, r.portfolio) \cup {n}
  BY <1>1, <1>2, <1>3 DEF OpenTrades
<1> QED
  BY <1>1, <1>3, <1>4, <1>5, <1>6 DEF OneMore

(* A click that opens: the order and the row that says it is there.        *)
LEMMA OpenedIs ==
  ASSUME NEW d \in Tables, NEW p \in Portfolios, NEW side \in Sides, NEW quantity \in Nat,
         NEW e, e = Opened(d, p, side, quantity)
  PROVE  /\ e \in Tables /\ Grows(d, e)
         /\ \A q \in Portfolios \ {p} : SameAt(d, e, q)
         /\ SoundAt(d, p) /\ OpenTrades(d, p) = {} => SoundAt(e, p)
<1> DEFINE now == d.position[p][side]
           row == Filled(now, now, quantity)
           f == Fill(d, p, side, now, quantity)
           r == NewTrade(p, side)
<1>1. now \in Row /\ now.net \in Int
  BY PositionsAre
<1>2. row.net = now.net + quantity
  <2> HIDE DEF now
  <2> QED
    BY <1>1 DEF Filled
<1>3. e = [f EXCEPT !.trades = Append(f.trades, r)]
  BY DEF Opened
<1>4. r \in Trade /\ r.open /\ r.portfolio = p /\ r.side = side
  BY DEF NewTrade, Trade, Unset
<1>5. row = Filled(d.position[p][side], now, quantity) /\ f = Fill(d, p, side, now, quantity)
  OBVIOUS
<1> HIDE DEF f, row, now, r
<1>6. /\ f \in Tables /\ f.trades = d.trades /\ row \in Row
      /\ RowWritten(d, f, p, side, row) /\ LeftStays(d, f, p, side)
  <2>1. FillWrote(d, f, p, side, row)
    BY <1>1, <1>5, FillIs
  <2> QED
    BY <2>1 DEF FillWrote
<1>7. /\ e.trades = Append(f.trades, r) /\ e.position = f.position /\ e.left = f.left
      /\ e = [trades |-> e.trades, position |-> f.position, left |-> f.left]
  BY <1>3, <1>6 DEF Tables
<1>8. /\ e.trades \in Seq(Trade) /\ Grows(f, e)
      /\ \A q \in Portfolios : q # p => OpenTrades(e, q) = OpenTrades(f, q)
      /\ \E n \in DOMAIN e.trades :
           e.trades[n] = r /\ OpenTrades(e, p) = OpenTrades(f, p) \cup {n}
  <2>1. /\ e.trades \in Seq(Trade) /\ Grows(f, e)
        /\ \A q \in Portfolios : q # r.portfolio => OpenTrades(e, q) = OpenTrades(f, q)
        /\ OneMore(f, e, r)
    <3>1. AppendedTo(f, e, r) /\ r \in Trade /\ r.open /\ f \in Tables
      BY <1>4, <1>6, <1>7 DEF AppendedTo
    <3> QED
      BY <3>1, TradeAppended
  <2> QED
    BY <1>4, <2>1 DEF OneMore
<1>9. e \in Tables
  BY <1>6, <1>7, <1>8 DEF Tables
<1>10. Grows(d, e)
  BY <1>6, <1>8 DEF Grows
<1>11. \A q \in Portfolios \ {p} : SameAt(d, e, q)
  <2> TAKE q \in Portfolios \ {p}
  <2>1. OpenTrades(e, q) = OpenTrades(d, q)
    <3>1. OpenTrades(f, q) = OpenTrades(d, q)
      BY <1>6 DEF OpenTrades
    <3> QED
      BY <1>8, <3>1
  <2>2. e.position[q] = d.position[q]
    BY <1>6, <1>7 DEF RowWritten
  <2>3. \A s \in Sides : <<q, s>> \in e.left <=> <<q, s>> \in d.left
    BY <1>6, <1>7 DEF LeftStays
  <2> QED
    BY <2>1, <2>2, <2>3 DEF SameAt
<1>12. ASSUME SoundAt(d, p), OpenTrades(d, p) = {} PROVE SoundAt(e, p)
  <2>1. PICK n \in DOMAIN e.trades : e.trades[n] = r /\ OpenTrades(e, p) = {n}
    BY <1>6, <1>8, <1>12 DEF OpenTrades
  <2>2. now.net >= 0
    BY <1>12 DEF SoundAt, now
  <2>3. row.net >= 0
    BY <1>1, <1>2, <2>2
  <2>4. \A s \in Sides : e.position[p][s] = IF s = side THEN row ELSE d.position[p][s]
    BY <1>6, <1>7 DEF RowWritten
  <2>5. \A s \in Sides : e.position[p][s].net >= 0
    BY <1>12, <2>3, <2>4 DEF SoundAt
  <2>6. ASSUME NEW s \in Sides, e.position[p][s].net > 0, <<p, s>> \notin e.left
        PROVE  s = side
    <3>1. SUFFICES ASSUME s # side PROVE FALSE
      OBVIOUS
    <3>2. d.position[p][s].net > 0 /\ <<p, s>> \notin d.left
      BY <1>6, <1>7, <2>4, <2>6, <3>1 DEF LeftStays
    <3> QED
      BY <1>12, <3>2 DEF SoundAt
  <2> QED
    BY <1>4, <2>1, <2>5, <2>6 DEF SoundAt
<1> QED
  BY <1>9, <1>10, <1>11, <1>12

-----------------------------------------------------------------------------
(* The jobs in flight.                                                     *)

Job == {Idle} \cup Opening \cup ClosingOne

(* What a job in flight is.                                                *)
LEMMA JobIs ==
  ASSUME TypeOK, NEW a \in Actors
  PROVE  /\ job[a] \in Job /\ Idle.kind = "idle"
         /\ job[a].kind = "open" => job[a] \in Opening
         /\ job[a].kind = "close" => job[a] \in ClosingOne
         /\ job[a] # Idle => job[a].kind \in {"open", "close"} /\ job[a].portfolio \in Portfolios
<1>1. job[a] \in {Idle} \cup Opening \cup ClosingOne
  BY DEF TypeOK
<1>2. Idle.kind = "idle"
  BY DEF Idle
<1>3. CASE job[a] = Idle
  BY <1>2, <1>3 DEF Job
<1>4. CASE job[a] \in Opening
  BY <1>2, <1>4 DEF Job, Opening
<1>5. CASE job[a] \in ClosingOne
  BY <1>2, <1>5 DEF Job, ClosingOne
<1> QED
  BY <1>1, <1>3, <1>4, <1>5

(* What a session reads before it closes a trade.                          *)
LEMMA ClosingIs ==
  ASSUME NEW d \in Tables, NEW i \in DOMAIN d.trades, NEW c, c = Closing(d, i)
  PROVE  c \in ClosingOne /\ TradeOf(c, d) /\ Fresh(c, d) /\ c.kind = "close"
<1>1. /\ i \in Nat /\ d.trades[i] \in Trade
      /\ d.trades[i].portfolio \in Portfolios /\ d.trades[i].side \in Sides
  BY TradesAre DEF Trade
<1> DEFINE p == d.trades[i].portfolio
           side == d.trades[i].side
           copy == d.position[p][side]
<1>2. copy \in Row /\ copy.net \in Int
  <2> HIDE DEF p, side
  <2> QED
    BY <1>1, PositionsAre DEF p, side
<1>3. ToSell(copy) \in Nat
  <2> HIDE DEF copy
  <2> QED
    BY <1>2 DEF ToSell
<1>4. c = [kind |-> "close", trade |-> i, portfolio |-> p, side |-> side, copy |-> copy,
           quantity |-> ToSell(copy)]
  BY DEF Closing
<1>5. c \in ClosingOne
  BY <1>1, <1>2, <1>3, <1>4 DEF ClosingOne
<1>6. TradeOf(c, d)
  BY <1>4 DEF TradeOf
<1>7. Fresh(c, d)
  BY <1>4 DEF Fresh
<1>8. c.kind = "close"
  BY <1>5 DEF ClosingOne
<1> QED
  BY <1>5, <1>6, <1>7, <1>8

(* An actor that takes a job on what it reads.                             *)
LEMMA JobTaken ==
  ASSUME IInv, NEW a \in Actors, NEW j \in Opening \cup ClosingOne,
         job' = [job EXCEPT ![a] = j], UNCHANGED <<db, work, pass, crossed>>,
         j.kind = "open" => a \in Sessions /\ OpenTrades(db, j.portfolio) = {},
         j.kind = "close" => TradeOf(j, db),
         j.kind = "close" /\ a \in Sessions => Fresh(j, db),
         j.kind = "close" /\ a = "monitor" => Fresh(j, work)
  PROVE  IInv'
<1>1. /\ job \in [Actors -> Job] /\ job'[a] = j
      /\ \A b \in Actors : b # a => job'[b] = job[b]
  BY DEF IInv, TypeOK, Job
<1>2. "monitor" \notin Sessions /\ "monitor" \in Actors /\ Sessions \subseteq Actors
  BY ChartAssumption DEF Actors
<1>3. TypeOK'
  <2>1. job' \in [Actors -> Job]
    BY <1>1 DEF Job
  <2> QED
    BY <2>1 DEF IInv, TypeOK, Job
<1>4. WorkAhead'
  BY DEF IInv, WorkAhead
<1>5. JobsKnown'
  BY <1>1, <1>2 DEF IInv, JobsKnown
<1>6. JobsFresh'
  <2>1. ASSUME NEW s \in Sessions PROVE SessionFresh(s)'
    <3>1. CASE s = a
      BY <1>1, <3>1 DEF SessionFresh
    <3>2. CASE s # a
      <4>1. job'[s] = job[s]
        BY <1>1, <1>2, <3>2
      <4> QED
        BY <4>1 DEF IInv, JobsFresh, SessionFresh
    <3> QED
      BY <3>1, <3>2
  <2>2. job'["monitor"].kind = "close" /\ job'["monitor"].portfolio \notin crossed =>
          Fresh(job'["monitor"], work)
    <3>1. CASE a = "monitor"
      BY <1>1, <3>1
    <3>2. CASE a # "monitor"
      <4>1. job'["monitor"] = job["monitor"]
        BY <1>1, <1>2, <3>2
      <4> QED
        BY <4>1 DEF IInv, JobsFresh
    <3> QED
      BY <3>1, <3>2
  <2> QED
    BY <2>1, <2>2 DEF JobsFresh, Fresh
<1>7. TablesSound'
  BY DEF IInv, TablesSound
<1> QED
  BY <1>3, <1>4, <1>5, <1>6, <1>7 DEF IInv

(* A step that touches neither the tables nor a job nor the pass.          *)
LEMMA QuietInv == ASSUME IInv, UNCHANGED <<db, work, job, pass, crossed>> PROVE IInv'
  BY DEF IInv, TypeOK, WorkAhead, JobsKnown, JobsFresh, SessionFresh, TablesSound, OpenTrades,
     Fresh, SoundAt

(* The portfolios a commit on p leaves alone are those where nobody else   *)
(* had read anything.                                                      *)
LEMMA CrossesIs ==
  ASSUME TypeOK, NEW p \in Portfolios, NEW others, Crosses(others, p)
  PROVE  /\ crossed' \in SUBSET Portfolios /\ crossed \subseteq crossed'
         /\ p \notin crossed' => \A a \in others : job[a] # Idle => job[a].portfolio # p
<1>1. CASE \E a \in others : job[a] # Idle /\ job[a].portfolio = p
  BY <1>1 DEF Crosses, TypeOK
<1>2. CASE ~ \E a \in others : job[a] # Idle /\ job[a].portfolio = p
  BY <1>2 DEF Crosses, TypeOK
<1> QED
  BY <1>1, <1>2

(* A commit: what it writes is sound where no one has crossed, and what it *)
(* does not reach is what the others read.                                 *)
LEMMA CommitInv ==
  ASSUME IInv, NEW d \in Tables, Commit(d), UNCHANGED pass, Grows(db, d),
         crossed' \in SUBSET Portfolios, crossed \subseteq crossed', job' \in [Actors -> Job],
         \A a \in Actors : job'[a] = job[a] \/ job'[a] = Idle,
         \A q \in Portfolios \ crossed' :
           /\ SoundAt(d, q)
           /\ SameAt(db, d, q) \/ \A a \in Actors : job'[a] # Idle => job'[a].portfolio # q
  PROVE  IInv'
<1>1. db' = d /\ work' = d /\ ~pass.wrote /\ work = db
  BY DEF Commit, Locked, IInv, WorkAhead
<1>2. TypeOK'
  BY <1>1 DEF IInv, TypeOK, Job
<1>3. WorkAhead'
  BY <1>1 DEF IInv, WorkAhead, Grows
<1>4. Sessions \subseteq Actors /\ "monitor" \in Actors
  BY DEF Actors
<1>5. JobsKnown'
  <2>1. job'["monitor"].kind # "open"
    BY <1>4 DEF Idle, IInv, JobsKnown
  <2>2. ASSUME NEW a \in Actors, job'[a].kind = "close" PROVE TradeOf(job'[a], d)
    <3>1. job'[a] = job[a] /\ job[a].kind = "close"
      BY <2>2 DEF Idle
    <3>2. TradeOf(job[a], db)
      BY <3>1 DEF IInv, JobsKnown
    <3> QED
      BY <3>1, <3>2 DEF TradeOf, Grows
  <2> QED
    BY <1>1, <2>1, <2>2 DEF JobsKnown
<1>6. ASSUME NEW a \in Actors, job'[a].kind \in {"open", "close"},
             job'[a].portfolio \notin crossed'
      PROVE  /\ job'[a] = job[a] /\ job[a].portfolio \notin crossed
             /\ SameAt(db, d, job[a].portfolio)
             /\ job[a].kind = "close" => job[a] \in ClosingOne
  <2>1. job'[a] # Idle /\ job'[a] = job[a]
    BY <1>6 DEF Idle
  <2>2. job[a].portfolio \in Portfolios /\ (job[a].kind = "close" => job[a] \in ClosingOne)
    BY <2>1, JobIs DEF IInv
  <2>3. job[a].portfolio \in Portfolios \ crossed'
    BY <1>6, <2>1, <2>2
  <2> QED
    BY <2>1, <2>2, <2>3
<1>7. JobsFresh'
  <2>1. ASSUME NEW s \in Sessions, job'[s].kind = "open", job'[s].portfolio \notin crossed'
        PROVE  OpenTrades(d, job'[s].portfolio) = {}
    <3>1. /\ job'[s] = job[s] /\ job[s].portfolio \notin crossed
          /\ SameAt(db, d, job[s].portfolio)
      BY <1>4, <1>6, <2>1
    <3>2. OpenTrades(db, job[s].portfolio) = {}
      BY <2>1, <3>1 DEF IInv, JobsFresh, SessionFresh
    <3> QED
      BY <3>1, <3>2 DEF SameAt
  <2>2. ASSUME NEW a \in Actors, job'[a].kind = "close", job'[a].portfolio \notin crossed'
        PROVE  Fresh(job'[a], d)
    <3>1. /\ job'[a] = job[a] /\ job[a].portfolio \notin crossed
          /\ SameAt(db, d, job[a].portfolio)
      BY <1>6, <2>2
    <3>2. Fresh(job[a], db)
      BY <1>1, <2>2, <3>1 DEF IInv, JobsFresh, SessionFresh, Actors
    <3> QED
      BY <3>1, <3>2 DEF SameAt, Fresh
  <2> QED
    BY <1>1, <1>4, <2>1, <2>2 DEF JobsFresh, SessionFresh, Fresh, OpenTrades
<1>8. TablesSound'
  BY <1>1 DEF TablesSound, SoundAt, OpenTrades
<1> QED
  BY <1>2, <1>3, <1>5, <1>7, <1>8 DEF IInv

(* What was not committed is gone.                                         *)
LEMMA RolledBack ==
  ASSUME IInv, UNCHANGED <<db, crossed>>, work' = db, pass' = NoPass, job' \in [Actors -> Job],
         \A a \in Actors : job'[a] = job[a] \/ job'[a] = Idle, job'["monitor"] = Idle
  PROVE  IInv'
<1>1. TypeOK'
  BY DEF IInv, TypeOK, NoPass, Job
<1>2. WorkAhead'
  BY DEF IInv, WorkAhead, Grows, NoPass
<1>3. Sessions \subseteq Actors
  BY DEF Actors
<1>4. JobsKnown'
  BY DEF IInv, JobsKnown, TradeOf, Idle
<1>5. JobsFresh'
  <2>1. \A s \in Sessions : SessionFresh(s)'
    BY <1>3 DEF IInv, JobsFresh, SessionFresh, OpenTrades, Fresh, Idle
  <2> QED
    BY <2>1 DEF JobsFresh, Idle
<1>6. TablesSound'
  BY DEF IInv, TablesSound, SoundAt, OpenTrades
<1> QED
  BY <1>1, <1>2, <1>4, <1>5, <1>6 DEF IInv

-----------------------------------------------------------------------------
(* The actions.                                                            *)

LEMMA ClickInv ==
  ASSUME IInv, NEW s \in Sessions, NEW p \in Portfolios, NEW side \in Sides, Click(s, p, side)
  PROVE  IInv'
<1>1. s \in Actors /\ s # "monitor" /\ UNCHANGED <<db, work, pass, crossed>>
  BY ChartAssumption DEF Actors, Click
<1>2. CASE /\ OpenTrades(db, p) = {}
           /\ job' = [job EXCEPT ![s] = [kind |-> "open", portfolio |-> p, side |-> side]]
  <2> DEFINE j == [kind |-> "open", portfolio |-> p, side |-> side]
  <2>1. j \in Opening /\ j.kind = "open" /\ j.portfolio = p
    BY DEF Opening
  <2>2. job' = [job EXCEPT ![s] = j]
    BY <1>2
  <2> HIDE DEF j
  <2> QED
    BY <1>1, <1>2, <2>1, <2>2, JobTaken
<1>3. CASE /\ OpenTrades(db, p) # {}
           /\ job' = [job EXCEPT ![s] = Closing(db, OpenTrade(db, p))]
  <2> DEFINE i == OpenTrade(db, p)
             j == Closing(db, i)
  <2>1. db \in Tables
    BY DEF IInv, TypeOK
  <2>2. i \in DOMAIN db.trades
    BY <1>3, <2>1, OpenTradeIs DEF OpenTrades
  <2> HIDE DEF i
  <2>3. j \in ClosingOne /\ TradeOf(j, db) /\ Fresh(j, db) /\ j.kind = "close"
    BY <2>1, <2>2, ClosingIs
  <2>4. job' = [job EXCEPT ![s] = j]
    BY <1>3 DEF i
  <2> HIDE DEF j
  <2> QED
    BY <1>1, <2>3, <2>4, JobTaken
<1> QED
  BY <1>2, <1>3 DEF Click, MayOpen, Nets

LEMMA AskCloseInv == ASSUME IInv, NEW s \in Sessions, AskClose(s) PROVE IInv'
<1>1. s \in Actors /\ s # "monitor" /\ UNCHANGED <<db, work, pass, crossed>>
  BY ChartAssumption DEF Actors, AskClose
<1>2. PICK i \in DOMAIN db.trades : job' = [job EXCEPT ![s] = Closing(db, i)]
  BY DEF AskClose
<1> DEFINE j == Closing(db, i)
<1>3. db \in Tables
  BY DEF IInv, TypeOK
<1>4. j \in ClosingOne /\ TradeOf(j, db) /\ Fresh(j, db) /\ j.kind = "close"
  BY <1>3, ClosingIs
<1>5. job' = [job EXCEPT ![s] = j]
  BY <1>2
<1> HIDE DEF j
<1> QED
  BY <1>1, <1>4, <1>5, JobTaken

(* A session that commits has ended its job.                               *)
LEMMA JobEnded ==
  ASSUME TypeOK, NEW a \in Actors, job' = [job EXCEPT ![a] = Idle]
  PROVE  /\ job' \in [Actors -> Job] /\ job'[a] = Idle
         /\ \A b \in Actors : job'[b] = job[b] \/ job'[b] = Idle
         /\ \A b \in Actors \ {a} : job'[b] = job[b]
  BY DEF TypeOK, Job

LEMMA OpenInv == ASSUME IInv, NEW s \in Sessions, Open(s) PROVE IInv'
<1> DEFINE p == job[s].portfolio
           side == job[s].side
<1>1. s \in Actors /\ job[s].kind = "open" /\ UNCHANGED pass /\ job' = [job EXCEPT ![s] = Idle]
  BY DEF Actors, Open
<1>2. job[s] \in Opening
  BY <1>1, JobIs DEF IInv
<1>3. p \in Portfolios /\ side \in Sides
  BY <1>2 DEF Opening
<1>4. PICK quantity \in 0 .. Size : Commit(Opened(db, p, side, quantity))
  BY DEF Open
<1>5. quantity \in Nat /\ db \in Tables
  BY ChartAssumption DEF IInv, TypeOK
<1> DEFINE d == Opened(db, p, side, quantity)
<1>6. Commit(d) /\ Crosses(Actors \ {s}, p)
  BY <1>4 DEF Open
<1>7. \A q \in Portfolios : q \notin crossed => SoundAt(db, q)
  BY DEF IInv, TablesSound
<1>8. p \notin crossed => OpenTrades(db, p) = {}
  BY <1>1 DEF IInv, JobsFresh, SessionFresh
<1>9. d = Opened(db, p, side, quantity)
  OBVIOUS
<1> HIDE DEF d, p, side
<1>10. /\ d \in Tables /\ Grows(db, d)
       /\ \A q \in Portfolios \ {p} : SameAt(db, d, q)
       /\ SoundAt(db, p) /\ OpenTrades(db, p) = {} => SoundAt(d, p)
  BY <1>3, <1>5, <1>9, OpenedIs
<1>11. /\ crossed' \in SUBSET Portfolios /\ crossed \subseteq crossed'
       /\ p \notin crossed' => \A a \in Actors \ {s} : job[a] # Idle => job[a].portfolio # p
  BY <1>3, <1>6, CrossesIs DEF IInv
<1>12. /\ job' \in [Actors -> Job] /\ job'[s] = Idle
       /\ \A b \in Actors : job'[b] = job[b] \/ job'[b] = Idle
       /\ \A b \in Actors \ {s} : job'[b] = job[b]
  BY <1>1, JobEnded DEF IInv
<1>13. ASSUME NEW q \in Portfolios \ crossed'
       PROVE  /\ SoundAt(d, q)
              /\ SameAt(db, d, q) \/ \A a \in Actors : job'[a] # Idle => job'[a].portfolio # q
  <2>1. CASE q = p
    BY <1>3, <1>7, <1>8, <1>10, <1>11, <1>12, <1>13, <2>1
  <2>2. CASE q # p
    <3>1. SoundAt(db, q) /\ SameAt(db, d, q)
      BY <1>7, <1>10, <1>11, <1>13, <2>2
    <3> QED
      BY <1>10, <3>1, SoundStays
  <2> QED
    BY <2>1, <2>2
<1> QED
  BY <1>1, <1>6, <1>10, <1>11, <1>12, <1>13, CommitInv

LEMMA CloseInv == ASSUME IInv, NEW s \in Sessions, Close(s) PROVE IInv'
<1> DEFINE c == job[s]
           p == c.portfolio
<1>1. s \in Actors /\ c.kind = "close" /\ UNCHANGED pass /\ job' = [job EXCEPT ![s] = Idle]
  BY DEF Actors, Close
<1>2. c \in ClosingOne
  BY <1>1, JobIs DEF IInv
<1>3. p \in Portfolios
  BY <1>2 DEF ClosingOne
<1>4. PICK sold \in 0 .. c.quantity : Commit(Closed(db, c, sold))
  BY DEF Close
<1>5. db \in Tables
  BY DEF IInv, TypeOK
<1> DEFINE d == Closed(db, c, sold)
<1>6. Commit(d) /\ Crosses(Actors \ {s}, p)
  BY <1>4 DEF Close
<1>7. \A q \in Portfolios : q \notin crossed => SoundAt(db, q)
  BY DEF IInv, TablesSound
<1>8. TradeOf(c, db) /\ (p \notin crossed => Fresh(c, db))
  BY <1>1 DEF IInv, JobsKnown, JobsFresh, SessionFresh
<1>9. d = Closed(db, c, sold)
  OBVIOUS
<1>10. p = c.portfolio
  OBVIOUS
<1> HIDE DEF d, p, c
<1>11. /\ d \in Tables /\ Grows(db, d)
       /\ \A q \in Portfolios \ {p} : SameAt(db, d, q)
  BY <1>2, <1>5, <1>8, <1>9, <1>10, ClosedStays
<1>12. p \notin crossed => SoundAt(d, p)
  BY <1>2, <1>3, <1>5, <1>7, <1>8, <1>9, <1>10, ClosedSound
<1>13. /\ crossed' \in SUBSET Portfolios /\ crossed \subseteq crossed'
       /\ p \notin crossed' => \A a \in Actors \ {s} : job[a] # Idle => job[a].portfolio # p
  BY <1>3, <1>6, CrossesIs DEF IInv
<1>14. /\ job' \in [Actors -> Job] /\ job'[s] = Idle
       /\ \A b \in Actors : job'[b] = job[b] \/ job'[b] = Idle
       /\ \A b \in Actors \ {s} : job'[b] = job[b]
  BY <1>1, JobEnded DEF IInv
<1>15. ASSUME NEW q \in Portfolios \ crossed'
       PROVE  /\ SoundAt(d, q)
              /\ SameAt(db, d, q) \/ \A a \in Actors : job'[a] # Idle => job'[a].portfolio # q
  <2>1. CASE q = p
    BY <1>12, <1>13, <1>14, <1>15, <2>1
  <2>2. CASE q # p
    <3>1. SoundAt(db, q) /\ SameAt(db, d, q)
      BY <1>7, <1>11, <1>13, <1>15, <2>2
    <3> QED
      BY <1>11, <3>1, SoundStays
  <2> QED
    BY <2>1, <2>2
<1> QED
  BY <1>1, <1>6, <1>11, <1>13, <1>14, <1>15, CommitInv

(* Levels moved: the rows, what is open and what is held stay.             *)
LEMMA SetLevelsInv == ASSUME IInv, SetLevels PROVE IInv'
<1>1. PICK i \in DOMAIN db.trades, stop \in Levels \cup {Unset}, target \in Levels \cup {Unset} :
        Commit([db EXCEPT !.trades[i] = [db.trades[i] EXCEPT !.stop = stop, !.target = target]])
  BY DEF SetLevels
<1>2. UNCHANGED <<job, pass, crossed>>
  BY DEF SetLevels
<1>3. stop \in Nat /\ target \in Nat
  BY ChartAssumption DEF Unset
<1> DEFINE r == [db.trades[i] EXCEPT !.stop = stop, !.target = target]
           d == [db EXCEPT !.trades[i] = r]
<1>4. db \in Tables /\ db.trades \in Seq(Trade) /\ db.trades[i] \in Trade
  BY TradesAre DEF IInv, TypeOK
<1>5. /\ r \in Trade /\ r.portfolio = db.trades[i].portfolio
      /\ r.side = db.trades[i].side /\ r.open = db.trades[i].open
  BY <1>3, <1>4 DEF Trade
<1>6. /\ d.trades = [db.trades EXCEPT ![i] = r] /\ d.position = db.position /\ d.left = db.left
      /\ d = [trades |-> d.trades, position |-> db.position, left |-> db.left]
  <2>1. d = [db EXCEPT !.trades[i] = r]
    OBVIOUS
  <2> HIDE DEF r, d
  <2> QED
    BY <1>4, <2>1 DEF Tables
<1>7. Commit(d)
  BY <1>1
<1> HIDE DEF d, r
<1>8. d.trades \in Seq(Trade)
  BY <1>4, <1>5, <1>6, ExceptSeq
<1>9. d \in Tables
  BY <1>4, <1>6, <1>8 DEF Tables
<1>10. /\ DOMAIN d.trades = DOMAIN db.trades /\ d.trades[i] = r
       /\ \A j \in DOMAIN db.trades : j # i => d.trades[j] = db.trades[j]
  BY <1>6
<1>11. Grows(db, d)
  BY <1>5, <1>10 DEF Grows
<1>12. \A q \in Portfolios : SameAt(db, d, q)
  <2> TAKE q \in Portfolios
  <2>1. OpenTrades(d, q) = OpenTrades(db, q)
    BY <1>5, <1>10 DEF OpenTrades
  <2> QED
    BY <1>6, <2>1 DEF SameAt
<1>13. \A q \in Portfolios \ crossed : SoundAt(d, q)
  BY <1>11, <1>12, SoundStays DEF IInv, TablesSound
<1>14. crossed' = crossed /\ crossed \in SUBSET Portfolios /\ job' = job /\ job \in [Actors -> Job]
  BY <1>2 DEF IInv, TypeOK, Job
<1> QED
  BY <1>2, <1>7, <1>9, <1>11, <1>12, <1>13, <1>14, CommitInv

LEMMA SellByHandInv == ASSUME IInv, SellByHand PROVE IInv'
<1>1. PICK p \in Operated, side \in Sides :
        /\ \E sold \in 1 .. db.position[p][side].net :
             Commit(Fill(db, p, side, db.position[p][side], -sold))
        /\ Crosses(Actors, p)
  BY DEF SellByHand
<1>2. PICK sold \in 1 .. db.position[p][side].net :
        Commit(Fill(db, p, side, db.position[p][side], -sold))
  BY <1>1
<1>3. p \in Portfolios /\ db \in Tables /\ UNCHANGED <<job, pass>>
  BY ChartAssumption DEF SellByHand, IInv, TypeOK
<1> DEFINE now == db.position[p][side]
           d == Fill(db, p, side, now, -sold)
<1>4. now = db.position[p][side] /\ sold \in 1 .. now.net /\ d = Fill(db, p, side, now, -sold)
      /\ Commit(d)
  BY <1>2
<1> HIDE DEF now, d
<1>5. /\ d \in Tables /\ Grows(db, d)
      /\ \A q \in Portfolios \ {p} : SameAt(db, d, q)
      /\ SoundAt(db, p) => SoundAt(d, p)
  BY <1>3, <1>4, HandSold
<1>6. /\ crossed' \in SUBSET Portfolios /\ crossed \subseteq crossed'
      /\ p \notin crossed' => \A a \in Actors : job[a] # Idle => job[a].portfolio # p
  BY <1>1, <1>3, CrossesIs DEF IInv
<1>7. ASSUME NEW q \in Portfolios \ crossed'
      PROVE  /\ SoundAt(d, q)
             /\ SameAt(db, d, q) \/ \A a \in Actors : job'[a] # Idle => job'[a].portfolio # q
  <2>1. SoundAt(db, q)
    BY <1>6, <1>7 DEF IInv, TablesSound
  <2>2. CASE q = p
    BY <1>3, <1>5, <1>6, <1>7, <2>1, <2>2
  <2>3. CASE q # p
    <3>1. SameAt(db, d, q)
      BY <1>5, <1>7, <2>3
    <3> QED
      BY <1>5, <2>1, <3>1, SoundStays
  <2> QED
    BY <2>2, <2>3
<1>8. job' \in [Actors -> Job] /\ \A a \in Actors : job'[a] = job[a] \/ job'[a] = Idle
  BY <1>3 DEF IInv, TypeOK, Job
<1> QED
  BY <1>3, <1>4, <1>5, <1>6, <1>7, <1>8, CommitInv

LEMMA MonitorWakesInv == ASSUME IInv, MonitorWakes PROVE IInv'
<1>1. /\ UNCHANGED <<db, work, job, crossed>>
      /\ pass' = [pass EXCEPT !.queue = FromFirstHit(Loaded)] /\ pass = NoPass
  BY DEF MonitorWakes
<1>2. \A e \in FromFirstHit(Loaded) : e \in Entry /\ e.id \in DOMAIN db.trades
  <2>1. \A e \in FromFirstHit(Loaded) : e \in Loaded
    BY DEF FromFirstHit
  <2>2. \A i \in DOMAIN db.trades : i \in Nat /\ db.trades[i] \in Trade
    BY TradesAre DEF IInv, TypeOK
  <2> QED
    BY <2>1, <2>2 DEF Loaded, Entry
<1> DEFINE queue == FromFirstHit(Loaded)
<1>3. \A e \in queue : e \in Entry /\ e.id \in DOMAIN db.trades
  BY <1>2
<1>4. pass' = [pass EXCEPT !.queue = queue]
  BY <1>1
<1> HIDE DEF queue
<1>5. pass'.queue = queue /\ pass'.wrote = pass.wrote
      /\ pass' \in [queue : SUBSET Entry, wrote : BOOLEAN]
  BY <1>3, <1>4 DEF IInv, TypeOK
<1>6. TypeOK'
  BY <1>1, <1>5 DEF IInv, TypeOK
<1>7. WorkAhead'
  BY <1>1, <1>3, <1>5 DEF IInv, WorkAhead
<1>8. JobsKnown' /\ JobsFresh' /\ TablesSound'
  BY <1>1 DEF IInv, JobsKnown, JobsFresh, SessionFresh, TablesSound, OpenTrades, Fresh, SoundAt
<1> QED
  BY <1>6, <1>7, <1>8 DEF IInv

LEMMA MonitorReadsInv == ASSUME IInv, MonitorReads PROVE IInv'
<1> DEFINE i == First(pass.queue).id
           j == Closing(work, i)
<1>1. UNCHANGED <<db, work, pass, crossed>> /\ job' = [job EXCEPT !["monitor"] = j]
  BY DEF MonitorReads
<1>2. First(pass.queue) \in pass.queue
  <2>1. pass.queue \in SUBSET Entry /\ pass.queue # {}
    BY DEF MonitorReads, IInv, TypeOK
  <2> DEFINE queue == pass.queue
  <2>2. queue \in SUBSET Entry /\ queue # {}
    BY <2>1
  <2> HIDE DEF queue
  <2>3. First(queue) \in queue
    BY <2>2, FirstIs
  <2> QED
    BY <2>3 DEF queue
<1>3. i \in DOMAIN work.trades /\ work \in Tables
  BY <1>2 DEF IInv, TypeOK, WorkAhead, Grows
<1> HIDE DEF i
<1>4. j \in ClosingOne /\ TradeOf(j, work) /\ Fresh(j, work) /\ j.kind = "close"
  BY <1>3, ClosingIs
<1> HIDE DEF j
<1>5. TradeOf(j, db)
  BY <1>4 DEF IInv, WorkAhead, Grows, TradeOf
<1>6. "monitor" \in Actors /\ "monitor" \notin Sessions
  BY ChartAssumption DEF Actors
<1> QED
  BY <1>1, <1>4, <1>5, <1>6, JobTaken

LEMMA MonitorFailsInv == ASSUME IInv, MonitorFails PROVE IInv'
<1>1. /\ UNCHANGED <<db, crossed, job>> /\ work' = db /\ pass' = NoPass
      /\ job["monitor"] = Idle
  BY DEF MonitorFails
<1>2. job' \in [Actors -> Job] /\ job'["monitor"] = Idle
  BY <1>1 DEF IInv, TypeOK, Job
<1> QED
  BY <1>1, <1>2, RolledBack

LEMMA RestartInv == ASSUME IInv, Restart PROVE IInv'
<1>1. /\ UNCHANGED <<db, crossed>> /\ work' = db /\ pass' = NoPass
      /\ job' = [a \in Actors |-> Idle]
  BY DEF Restart
<1>2. /\ job' \in [Actors -> Job] /\ job'["monitor"] = Idle
      /\ \A a \in Actors : job'[a] = job[a] \/ job'[a] = Idle
  BY <1>1 DEF Actors, Job
<1> QED
  BY <1>1, <1>2, RolledBack

LEMMA MonitorSellsInv == ASSUME IInv, MonitorSells PROVE IInv'
<1> DEFINE c == job["monitor"]
           p == c.portfolio
<1>1. "monitor" \in Actors /\ "monitor" \notin Sessions
  BY ChartAssumption DEF Actors
<1>2. c # Idle /\ UNCHANGED <<db, crossed>> /\ job' = [job EXCEPT !["monitor"] = Idle]
      /\ pass' = [queue |-> FromFirstHit(pass.queue \ {First(pass.queue)}), wrote |-> TRUE]
  BY DEF MonitorSells
<1>3. PICK sold \in 0 .. c.quantity : work' = Closed(work, c, sold)
  BY DEF MonitorSells
<1>4. c.kind = "close" /\ c \in ClosingOne
  BY <1>1, <1>2, JobIs DEF IInv, JobsKnown
<1>5. work \in Tables /\ p \in Portfolios
  BY <1>4 DEF IInv, TypeOK, ClosingOne
<1>6. TradeOf(c, work) /\ (p \notin crossed => Fresh(c, work))
  <2>1. TradeOf(c, db) /\ (p \notin crossed => Fresh(c, work))
    BY <1>1, <1>4 DEF IInv, JobsKnown, JobsFresh
  <2> QED
    BY <2>1 DEF IInv, WorkAhead, Grows, TradeOf
<1>7. p = c.portfolio
  OBVIOUS
<1> DEFINE d == Closed(work, c, sold)
<1>8. d = Closed(work, c, sold) /\ work' = d
  BY <1>3
<1> HIDE DEF c, p, d
<1>9. /\ d \in Tables /\ Grows(work, d) /\ Grows(d, work)
      /\ \A i \in DOMAIN d.trades : d.trades[i].open => work.trades[i].open
      /\ \A q \in Portfolios \ {p} : SameAt(work, d, q)
  BY <1>4, <1>5, <1>6, <1>7, <1>8, ClosedStays
<1>10. /\ job' \in [Actors -> Job] /\ job'["monitor"] = Idle
       /\ \A b \in Actors : job'[b] = job[b] \/ job'[b] = Idle
       /\ \A b \in Actors \ {"monitor"} : job'[b] = job[b]
  BY <1>1, <1>2, JobEnded DEF IInv
<1>11. /\ pass' \in [queue : SUBSET Entry, wrote : BOOLEAN] /\ pass'.wrote
       /\ \A e \in pass'.queue : e \in pass.queue
  <2> DEFINE queue == FromFirstHit(pass.queue \ {First(pass.queue)})
  <2>1. \A e \in queue : e \in pass.queue
    BY DEF FromFirstHit
  <2>2. pass' = [queue |-> queue, wrote |-> TRUE]
    BY <1>2
  <2> HIDE DEF queue
  <2> QED
    BY <2>1, <2>2 DEF IInv, TypeOK
<1>12. TypeOK'
  BY <1>2, <1>8, <1>9, <1>10, <1>11 DEF IInv, TypeOK, Job
<1>13. WorkAhead'
  <2>1. Grows(db, d) /\ Grows(d, db)
    BY <1>9 DEF IInv, WorkAhead, Grows
  <2>2. \A i \in DOMAIN d.trades : d.trades[i].open => db.trades[i].open
    BY <1>9 DEF IInv, WorkAhead, Grows
  <2>3. \A e \in pass'.queue : e.id \in DOMAIN db.trades
    BY <1>11 DEF IInv, WorkAhead
  <2> QED
    BY <1>2, <1>8, <1>11, <2>1, <2>2, <2>3 DEF WorkAhead
<1>14. JobsKnown'
  BY <1>2, <1>10 DEF IInv, JobsKnown, TradeOf, Idle
<1>15. JobsFresh'
  <2>1. \A s \in Sessions : job'[s] = job[s]
    BY <1>1, <1>10 DEF Actors
  <2>2. \A s \in Sessions : SessionFresh(s)'
    BY <1>2, <2>1 DEF IInv, JobsFresh, SessionFresh, OpenTrades, Fresh
  <2> QED
    BY <1>10, <2>2 DEF JobsFresh, Idle
<1>16. TablesSound'
  <2>1. ASSUME NEW q \in Portfolios \ crossed PROVE SoundAt(db, q) /\ SoundAt(d, q)
    <3>1. SoundAt(db, q) /\ SoundAt(work, q)
      BY DEF IInv, TablesSound
    <3>2. CASE q = p
      BY <1>4, <1>5, <1>6, <1>7, <1>8, <3>1, <3>2, ClosedSound
    <3>3. CASE q # p
      <4>1. SameAt(work, d, q)
        BY <1>9, <3>3
      <4> QED
        BY <1>9, <3>1, <4>1, SoundStays
    <3> QED
      BY <3>1, <3>2, <3>3
  <2> QED
    BY <1>2, <1>8, <2>1 DEF TablesSound, SoundAt, OpenTrades
<1> QED
  BY <1>12, <1>13, <1>14, <1>15, <1>16 DEF IInv

LEMMA MonitorCommitsInv == ASSUME IInv, MonitorCommits PROVE IInv'
<1> DEFINE met == {t \in Sessions : /\ job[t] # Idle
                                   /\ work.position[job[t].portfolio] # db.position[job[t].portfolio]}
<1>1. /\ db' = work /\ pass' = NoPass /\ UNCHANGED <<work, job>>
      /\ crossed' = crossed \cup {job[s].portfolio : s \in met}
  BY DEF MonitorCommits
<1>2. Sessions \subseteq Actors /\ "monitor" \in Actors
  BY DEF Actors
<1>3. crossed' \in SUBSET Portfolios /\ crossed \subseteq crossed'
  <2>1. \A s \in met : job[s].portfolio \in Portfolios
    BY <1>2, JobIs DEF IInv
  <2> HIDE DEF met
  <2> QED
    BY <1>1, <2>1 DEF IInv, TypeOK
<1>4. TypeOK'
  <2> HIDE DEF met
  <2> QED
    BY <1>1, <1>3 DEF IInv, TypeOK, NoPass
<1>5. WorkAhead'
  <2> HIDE DEF met
  <2> QED
    BY <1>1 DEF WorkAhead, Grows, NoPass
<1>6. JobsKnown'
  <2> HIDE DEF met
  <2>1. \A a \in Actors : job[a].kind = "close" => TradeOf(job[a], work)
    BY DEF IInv, JobsKnown, WorkAhead, Grows, TradeOf
  <2> QED
    BY <1>1, <2>1 DEF IInv, JobsKnown, TradeOf
<1>7. ASSUME NEW s \in Sessions, job[s].kind \in {"open", "close"}, job[s].portfolio \notin crossed'
      PROVE  /\ job[s].portfolio \in Portfolios /\ job[s].portfolio \notin crossed
             /\ work.position[job[s].portfolio] = db.position[job[s].portfolio]
  <2>1. job[s] # Idle /\ job[s].portfolio \in Portfolios
    BY <1>2, <1>7, JobIs DEF IInv, Idle
  <2>2. s \notin met
    BY <1>1, <1>7
  <2> QED
    BY <1>3, <1>7, <2>1, <2>2
<1> HIDE DEF met
<1>8. ASSUME NEW s \in Sessions PROVE SessionFresh(s)'
  <2>1. ASSUME job[s].kind = "open", job[s].portfolio \notin crossed'
        PROVE  OpenTrades(work, job[s].portfolio) = {}
    <3>1. OpenTrades(db, job[s].portfolio) = {}
      BY <1>7, <2>1 DEF IInv, JobsFresh, SessionFresh
    <3> QED
      BY <3>1 DEF OpenTrades, IInv, WorkAhead, Grows
  <2>2. ASSUME job[s].kind = "close", job[s].portfolio \notin crossed'
        PROVE  Fresh(job[s], work)
    <3>1. Fresh(job[s], db)
      BY <1>7, <2>2 DEF IInv, JobsFresh, SessionFresh
    <3> QED
      BY <1>7, <2>2, <3>1 DEF Fresh
  <2> QED
    BY <1>1, <2>1, <2>2 DEF SessionFresh, OpenTrades, Fresh
<1>9. JobsFresh'
  BY <1>1, <1>3, <1>8 DEF IInv, JobsFresh, Fresh
<1>10. TablesSound'
  BY <1>1, <1>3 DEF IInv, TablesSound, SoundAt, OpenTrades
<1> QED
  BY <1>4, <1>5, <1>6, <1>9, <1>10 DEF IInv

-----------------------------------------------------------------------------
(* The whole.                                                              *)

LEMMA InitInv == ASSUME Init PROVE IInv
<1>1. db.trades = <<>> /\ db.left = {} /\ work = db /\ crossed = {} /\ pass = NoPass
      /\ db.position = [p \in Portfolios |-> [side \in Sides |-> [id |-> 0, net |-> 0]]]
  BY DEF Init
<1>2. DOMAIN db.trades = {} /\ db.trades \in Seq(Trade)
  BY <1>1, EmptySeq
<1>3. db \in Tables
  <2>1. db.position \in [Portfolios -> [Sides -> Row]]
    BY <1>1 DEF Row
  <2>2. db = [trades |-> db.trades, position |-> db.position, left |-> db.left]
    BY DEF Init
  <2> QED
    BY <1>1, <1>2, <2>1, <2>2 DEF Tables
<1>4. job = [a \in Actors |-> Idle] /\ "monitor" \in Actors /\ Idle.kind = "idle"
      /\ Sessions \subseteq Actors
  BY DEF Init, Actors, Idle
<1>5. TypeOK
  BY <1>1, <1>3, <1>4 DEF TypeOK, NoPass
<1>6. WorkAhead
  BY <1>1, <1>2 DEF WorkAhead, Grows, NoPass
<1>7. JobsKnown /\ JobsFresh
  BY <1>4 DEF JobsKnown, JobsFresh, SessionFresh
<1>8. TablesSound
  <2>1. \A p : OpenTrades(db, p) = {}
    BY <1>2 DEF OpenTrades
  <2>2. \A p \in Portfolios, side \in Sides : db.position[p][side].net = 0
    BY <1>1
  <2> QED
    BY <1>1, <2>1, <2>2 DEF TablesSound, SoundAt
<1> QED
  BY <1>5, <1>6, <1>7, <1>8 DEF IInv

LEMMA NextInv == ASSUME IInv, [Next]_vars PROVE IInv'
<1>1. CASE UNCHANGED vars
  BY <1>1, QuietInv DEF vars
<1>2. CASE Tick \/ Switch \/ Archive
  BY <1>2, QuietInv DEF Tick, Switch, Archive
<1>3. CASE Monitor
  BY <1>3, MonitorWakesInv, MonitorReadsInv, MonitorFailsInv, MonitorSellsInv,
     MonitorCommitsInv DEF Monitor
<1>4. CASE \/ \E s \in Sessions, p \in Portfolios, side \in Sides : Click(s, p, side)
           \/ \E s \in Sessions : Open(s) \/ AskClose(s) \/ Close(s)
  BY <1>4, ClickInv, OpenInv, AskCloseInv, CloseInv
<1>5. CASE SetLevels \/ SellByHand \/ Restart
  BY <1>5, SetLevelsInv, SellByHandInv, RestartInv
<1> QED
  BY <1>1, <1>2, <1>3, <1>4, <1>5 DEF Next

(* The tables, the jobs in flight and the pass of the monitor stay as IInv *)
(* says.                                                                   *)
LEMMA ChartIsSound == Spec => []IInv
<1>1. Init => IInv
  BY InitInv
<1>2. IInv /\ [Next]_vars => IInv'
  BY NextInv
<1> QED
  BY <1>1, <1>2, PTL DEF Spec

(* Nothing on the chart sells to open: whatever clicks, closes, brackets,  *)
(* hand sales and restarts do, a portfolio nobody crossed in is never      *)
(* short of an option (chart_trading_service.py: "nothing here ever writes *)
(* an option").                                                            *)
THEOREM OptionsNeverWritten == Spec => []NeverWritesOption
<1>1. IInv => NeverWritesOption
  BY DEF IInv, TablesSound, SoundAt, NeverWritesOption
<1> QED
  BY <1>1, ChartIsSound, PTL

(* What is held is under an open trade of its side, but for what an exit   *)
(* order could not sell.                                                   *)
THEOREM HoldingsUnderTrades == Spec => []HeldIsUnderTrade
<1>1. IInv => HeldIsUnderTrade
  BY DEF IInv, TablesSound, SoundAt, HeldIsUnderTrade
<1> QED
  BY <1>1, ChartIsSound, PTL

(* One trade per portfolio is open at a time, with no constraint of the    *)
(* table behind it (chart_trade_repository.py, get_open_for_underlying).   *)
THEOREM OneTradeAtATime == Spec => []OneTradePerContract
<1>1. ASSUME IInv PROVE OneTradePerContract
  <2> SUFFICES ASSUME NEW p \in Portfolios \ crossed PROVE Cardinality(OpenTrades(db, p)) <= 1
    BY DEF OneTradePerContract
  <2>1. \A i, j \in OpenTrades(db, p) : i = j
    BY <1>1 DEF IInv, TablesSound, SoundAt
  <2>2. CASE OpenTrades(db, p) = {}
    <3>1. Cardinality(OpenTrades(db, p)) = 0
      BY <2>2, FS_EmptySet
    <3> QED
      BY <3>1
  <2>3. CASE OpenTrades(db, p) # {}
    <3>1. PICK i : OpenTrades(db, p) = {i}
      BY <2>1, <2>3
    <3>2. Cardinality(OpenTrades(db, p)) = 1
      BY <3>1, FS_Singleton
    <3> QED
      BY <3>2
  <2> QED
    BY <2>2, <2>3
<1> QED
  BY <1>1, ChartIsSound, PTL
=============================================================================
