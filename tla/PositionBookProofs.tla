-------------------------- MODULE PositionBookProofs --------------------------
(***************************************************************************)
(* The position book, for any number of executions, portfolios, contracts, *)
(* prices and quantities: its invariants, that it implements one net       *)
(* quantity per portfolio and contract, and that the money its rows report *)
(* as realised is the money they took, up to a bounded rounding.           *)
(***************************************************************************)
EXTENDS PositionReports, PositionRowsProofs

(* No copy held: a session that applies one fill works on the stored row.  *)
LEMMA NothingHeld ==
  ASSUME NEW table, NEW i
  PROVE  Loaded(table, <<>>, i) = table[i]
<1>1. DOMAIN <<>> = {}
  OBVIOUS
<1> QED
  BY <1>1 DEF Loaded

(* An execution is handed over as a well-formed fill.                      *)
LEMMA FillOfTyped ==
  ASSUME NEW e \in Execution
  PROVE  /\ FillOf(e) \in FillIn(Portfolio, Security, Strategy)
         /\ FilledQuantity(e) \in Sizes
<1>1. /\ e.near.price \in Nat /\ e.near.qty \in Quantity /\ e.near.qty \in Nat \ {0}
      /\ e.far.price \in Nat /\ e.far.qty \in Quantity \cup {0} /\ e.far.qty \in Nat
  <2>1. e.near \in Level /\ (e.far \in Level \/ e.far = NoLevel)
    BY DEF Execution
  <2>2. \A l \in Level : l.price \in Nat /\ l.qty \in Quantity /\ l.qty \in Nat \ {0}
    BY PriceAssumption, QuantityAssumption DEF Level
  <2>3. NoLevel.price = 0 /\ NoLevel.qty = 0
    BY DEF NoLevel
  <2> QED
    BY <2>1, <2>2, <2>3
<1>6. /\ e.charges \in Int /\ e.side \in Sides
      /\ e.portfolio \in Portfolio /\ e.security \in Security /\ e.strategy \in Strategy
  <2>1. /\ e.charges \in Charge /\ e.side \in Sides
        /\ e.portfolio \in Portfolio /\ e.security \in Security /\ e.strategy \in Strategy
    BY DEF Execution
  <2>2. e.charges \in Nat
    BY <2>1, ChargeAssumption
  <2> QED
    BY <2>1, <2>2
<1>2. FilledQuantity(e) \in Nat \ {0}
  <2>1. e.near.qty \in Nat /\ e.near.qty # 0 /\ e.far.qty \in Nat
    BY <1>1
  <2> QED
    BY <2>1 DEF FilledQuantity
<1>3. AveragePrice(e) \in Nat
  <2>1. e.near.price * e.near.qty \in Nat /\ e.far.price * e.far.qty \in Nat
    BY <1>1, ProductIsNat
  <2>2. e.near.price * e.near.qty + e.far.price * e.far.qty \in Nat
    BY <2>1, SMT
  <2> QED
    BY <1>2, <2>2, HalfUpIsNat DEF AveragePrice
<1>4. FilledQuantity(e) \in Sizes
  BY <1>1 DEF FilledQuantity, Sizes
<1>5. FillOf(e) \in FillIn(Portfolio, Security, Strategy)
  BY <1>2, <1>3, <1>6 DEF FillOf, FillIn
<1> QED
  BY <1>4, <1>5

-----------------------------------------------------------------------------
IInv ==
  /\ TypeOK
  /\ OneOpenRow
  /\ OpenIffHolding
  /\ TotalsExplainNet

(* With nothing held, every session's copy of the open row is the row.     *)
LEMMA HeldFitsBook ==
  ASSUME TypeOK, NEW f
  PROVE  HeldFits(Portfolio, Security, Strategy, rows, <<>>, f)
<1> SUFFICES ASSUME NEW i \in OpenIds(rows, f.portfolio, f.security)
             PROVE  /\ rows[i] \in Row
                    /\ rows[i].open
                    /\ rows[i].portfolio = f.portfolio
                    /\ rows[i].security = f.security
  BY NothingHeld DEF HeldFits, Row
<1> QED
  BY DEF OpenIds, IsOpenFor, TypeOK

LEMMA InitInv == Init => IInv
<1> SUFFICES ASSUME Init PROVE IInv
  OBVIOUS
<1>1. rows = <<>> /\ log = <<>>
  BY DEF Init
<1>2. TypeOK
  BY <1>1 DEF TypeOK
<1>3. DOMAIN rows = {}
  BY <1>1
<1> QED
  BY <1>2, <1>3 DEF IInv, OneOpenRow, OneOpenEach, OpenIffHolding, OpenWhileHolding,
                    TotalsExplainNet

LEMMA ExecuteInv ==
  ASSUME IInv, NEW e \in Execution, Execute(e)
  PROVE  IInv'
<1> USE DEF Row
<1> DEFINE f == FillOf(e)
<1>1. f \in FillIn(Portfolio, Security, Strategy)
  BY FillOfTyped
<1>2. rows \in Seq(Row) /\ OneOpenEach(rows) /\ OpenWhileHolding(rows)
  BY DEF IInv, TypeOK, OneOpenRow, OpenIffHolding
<1>3. HeldFits(Portfolio, Security, Strategy, rows, <<>>, f)
  BY HeldFitsBook DEF IInv
<1>4. rows' = ApplyFill(rows, <<>>, f)
  BY DEF Execute
<1> HIDE DEF f
<1>5. rows' \in Seq(Row) /\ \A i \in DOMAIN rows : i \in DOMAIN rows'
  BY <1>1, <1>2, <1>3, <1>4, ApplyFillRows
<1>6. OneOpenEach(rows') /\ OpenWhileHolding(rows')
  BY <1>1, <1>2, <1>3, <1>4, ApplyFillKeeps
<1>7. \A i \in DOMAIN rows' :
        /\ ~rows'[i].open => rows'[i].avg = 0
        /\ rows'[i].net = rows'[i].bought - rows'[i].sold
  <2>1. \A i \in DOMAIN rows :
          /\ rows[i] \in Row
          /\ ~rows[i].open => rows[i].avg = 0
          /\ rows[i].net = rows[i].bought - rows[i].sold
    BY <1>2 DEF IInv, OpenIffHolding, TotalsExplainNet
  <2>2. Signed(f.side, f.qty) \in Int
    BY <1>1 DEF FillIn, Signed
  <2>3. CASE Starts(Portfolio, Security, Strategy, rows, f, rows')
    <3>1. PICK r \in Row : rows' = Append(rows, r) /\ r.open /\ r.bought - r.sold = r.net
      BY <2>3 DEF Starts
    <3>2. \A i \in DOMAIN rows' : (i \in DOMAIN rows /\ rows'[i] = rows[i]) \/ rows'[i] = r
      BY <1>2, <3>1, AppendProperties
    <3> QED
      BY <2>1, <3>1, <3>2
  <2>4. ASSUME NEW i \in DOMAIN rows, Changes(Portfolio, Security, Strategy, rows, <<>>, f, rows', i)
        PROVE  \A j \in DOMAIN rows' :
                 /\ ~rows'[j].open => rows'[j].avg = 0
                 /\ rows'[j].net = rows'[j].bought - rows'[j].sold
    <3>1. Loaded(rows, <<>>, i) = rows[i]
      BY NothingHeld
    <3>2. PICK r \in Row :
            /\ rows' = [rows EXCEPT ![i] = r]
            /\ r.net = rows[i].net + Signed(f.side, f.qty)
            /\ ~r.open => r.avg = 0
            /\ r.bought - r.sold = rows[i].bought - rows[i].sold + Signed(f.side, f.qty)
      BY <2>4, <3>1 DEF Changes
    <3>3. \A j \in DOMAIN rows' : j \in DOMAIN rows /\ rows'[j] = IF j = i THEN r ELSE rows[j]
      BY <3>2, <1>2
    <3>4. r.net = r.bought - r.sold
      BY <2>1, <3>2
    <3> QED
      BY <2>1, <3>2, <3>3, <3>4
  <2>5. ASSUME NEW i \in DOMAIN rows, Turns(Portfolio, Security, Strategy, rows, <<>>, f, rows', i)
        PROVE  \A j \in DOMAIN rows' :
                 /\ ~rows'[j].open => rows'[j].avg = 0
                 /\ rows'[j].net = rows'[j].bought - rows'[j].sold
    <3>1. Loaded(rows, <<>>, i) = rows[i]
      BY NothingHeld
    <3>2. PICK r \in Row, t \in Row :
            /\ rows' = Append([rows EXCEPT ![i] = r], t)
            /\ r.net = 0 /\ r.avg = 0
            /\ r.bought - r.sold = rows[i].bought - rows[i].sold - rows[i].net
            /\ t.open /\ t.bought - t.sold = t.net
      BY <2>5, <3>1 DEF Turns
    <3>3. PICK mid : mid = [rows EXCEPT ![i] = r]
      OBVIOUS
    <3>4. mid \in Seq(Row) /\ \A j \in DOMAIN mid : j \in DOMAIN rows /\ (mid[j] = rows[j] \/ mid[j] = r)
      BY <1>2, <3>3, ExceptSeq
    <3>5. rows' = Append(mid, t)
      BY <3>2, <3>3
    <3>6. \A j \in DOMAIN rows' : (j \in DOMAIN mid /\ rows'[j] = mid[j]) \/ rows'[j] = t
      BY <3>4, <3>5, AppendProperties
    <3>7. rows[i].net \in Int
      BY <2>1 DEF RowIn
    <3>8. r.net = r.bought - r.sold
      BY <2>1, <3>2, <3>7
    <3> QED
      BY <2>1, <3>2, <3>4, <3>6, <3>8
  <2> QED
    BY <1>1, <1>2, <1>3, <1>4, <2>3, <2>4, <2>5, ApplyFillCases
<1>8. log' \in Seq(Execution)
  BY DEF IInv, TypeOK, Execute
<1> QED
  BY <1>5, <1>6, <1>7, <1>8
     DEF IInv, TypeOK, OneOpenRow, OpenIffHolding, TotalsExplainNet

LEMMA NextInv == IInv /\ [Next]_vars => IInv'
<1>1. ASSUME IInv, Next PROVE IInv'
  BY <1>1, ExecuteInv DEF Next
<1>2. ASSUME IInv, UNCHANGED vars PROVE IInv'
  BY <1>2 DEF vars, IInv, TypeOK, OneOpenRow, OpenIffHolding, TotalsExplainNet
<1> QED
  BY <1>1, <1>2

(* The invariants of the book hold of every execution sequence.            *)
THEOREM BookIsSound == Spec => [](TypeOK /\ OneOpenRow /\ OpenIffHolding /\ TotalsExplainNet)
<1>1. IInv => TypeOK /\ OneOpenRow /\ OpenIffHolding /\ TotalsExplainNet
  BY DEF IInv
<1> QED
  BY <1>1, InitInv, NextInv, PTL DEF Spec

-----------------------------------------------------------------------------
(* An execution moves the net quantity of its own position by its signed   *)
(* size and leaves every other one alone.                                  *)
LEMMA ExecuteMovesNet ==
  ASSUME IInv, NEW e \in Execution, Execute(e), NEW p, NEW s
  PROVE  NetOf(rows', p, s) =
           IF p = e.portfolio /\ s = e.security
           THEN NetOf(rows, p, s) + Signed(e.side, FilledQuantity(e))
           ELSE NetOf(rows, p, s)
<1> USE DEF Row
<1> DEFINE f == FillOf(e)
<1>1. f \in FillIn(Portfolio, Security, Strategy)
  BY FillOfTyped
<1>2. rows \in Seq(Row) /\ OneOpenEach(rows) /\ OpenWhileHolding(rows)
  BY DEF IInv, TypeOK, OneOpenRow, OpenIffHolding
<1>3. HeldFits(Portfolio, Security, Strategy, rows, <<>>, f)
  BY HeldFitsBook DEF IInv
<1>4. rows' = ApplyFill(rows, <<>>, f)
  BY DEF Execute
<1>5. /\ f.portfolio = e.portfolio /\ f.security = e.security
      /\ f.side = e.side /\ f.qty = FilledQuantity(e)
  BY DEF FillOf
<1> HIDE DEF f
<1>6. rows' \in Seq(Row) /\ OneOpenEach(rows') /\ OpenWhileHolding(rows')
  BY <1>1, <1>2, <1>3, <1>4, ApplyFillRows, ApplyFillKeeps
<1>7. /\ \A i \in DOMAIN rows :
           /\ i \in DOMAIN rows'
           /\ RowKept(rows'[i], rows[i])
           /\ ~IsOpenFor(rows[i], f.portfolio, f.security) => rows'[i] = rows[i]
      /\ \A i \in DOMAIN rows' :
           i \notin DOMAIN rows => RowKept(rows'[i], f) /\ rows'[i].open
  BY <1>1, <1>2, <1>3, <1>4, ApplyFillRows
<1>8. Signed(f.side, f.qty) \in Int
  BY <1>1 DEF FillIn, Signed
<1>9. CASE p = f.portfolio /\ s = f.security
  <2>1. CASE Starts(Portfolio, Security, Strategy, rows, f, rows')
    <3>1. PICK r \in Row : /\ rows' = Append(rows, r) /\ r.open
                           /\ r.net = Signed(f.side, f.qty) /\ RowKept(r, f)
      BY <2>1 DEF Starts
    <3>2. Len(rows) + 1 \in DOMAIN rows' /\ rows'[Len(rows) + 1] = r
      BY <1>2, <1>6, <3>1, AppendProperties
    <3>3. IsOpenFor(rows'[Len(rows) + 1], p, s)
      BY <1>9, <3>1, <3>2 DEF RowKept, IsOpenFor
    <3>4. NetOf(rows', p, s) = Signed(f.side, f.qty)
      <4>1. NetOf(rows', p, s) = rows'[Len(rows) + 1].net
        BY <1>6, <3>2, <3>3, NetOfOpen
      <4> QED
        BY <3>1, <3>2, <4>1
    <3>5. NetOf(rows, p, s) = 0
      <4>1. \A i \in DOMAIN rows : ~IsOpenFor(rows[i], p, s)
        BY <1>9, <2>1 DEF Starts, OpenIds
      <4> QED
        BY <4>1, <1>2, NetOfOpen
    <3> QED
      BY <1>5, <1>8, <1>9, <3>4, <3>5
  <2>2. ASSUME NEW i \in DOMAIN rows, IsOpenFor(rows[i], f.portfolio, f.security),
               Changes(Portfolio, Security, Strategy, rows, <<>>, f, rows', i)
        PROVE  NetOf(rows', p, s) = NetOf(rows, p, s) + Signed(f.side, f.qty)
    <3>1. Loaded(rows, <<>>, i) = rows[i]
      BY NothingHeld
    <3>2. PICK r \in Row : /\ rows' = [rows EXCEPT ![i] = r] /\ RowKept(r, rows[i])
                           /\ r.open <=> r.net # 0
                           /\ r.net = rows[i].net + Signed(f.side, f.qty)
      BY <2>2, <3>1 DEF Changes
    <3>3. DOMAIN rows' = DOMAIN rows /\ rows'[i] = r
      BY <1>2, <3>2
    <3>4. NetOf(rows, p, s) = rows[i].net
      BY <1>2, <1>9, <2>2, NetOfOpen
    <3>5. CASE r.open
      <4>1. IsOpenFor(rows'[i], p, s)
        BY <1>9, <2>2, <3>2, <3>3, <3>5 DEF RowKept, IsOpenFor
      <4>2. NetOf(rows', p, s) = rows'[i].net
        BY <1>6, <3>3, <4>1, NetOfOpen
      <4> QED
        BY <3>2, <3>3, <3>4, <4>2
    <3>6. CASE ~r.open
      <4>1. \A j \in DOMAIN rows : IsOpenFor(rows[j], p, s) => j = i
        BY <1>2, <1>9, <2>2 DEF OneOpenEach, IsOpenFor
      <4>2. \A j \in DOMAIN rows' : ~IsOpenFor(rows'[j], p, s)
        <5> SUFFICES ASSUME NEW j \in DOMAIN rows', IsOpenFor(rows'[j], p, s)
                     PROVE  FALSE
          OBVIOUS
        <5>1. CASE j = i
          BY <3>3, <3>6, <5>1 DEF IsOpenFor
        <5>2. CASE j # i
          <6>1. rows'[j] = rows[j] /\ j \in DOMAIN rows
            BY <3>2, <3>3, <5>2
          <6> QED
            BY <4>1, <5>2, <6>1
        <5> QED
          BY <5>1, <5>2
      <4>3. NetOf(rows', p, s) = 0
        BY <1>6, <4>2, NetOfOpen
      <4>4. r.net = 0
        BY <3>2, <3>6
      <4> QED
        BY <3>2, <3>4, <4>3, <4>4
    <3> QED
      BY <3>5, <3>6
  <2>3. ASSUME NEW i \in DOMAIN rows, IsOpenFor(rows[i], f.portfolio, f.security),
               Turns(Portfolio, Security, Strategy, rows, <<>>, f, rows', i)
        PROVE  NetOf(rows', p, s) = NetOf(rows, p, s) + Signed(f.side, f.qty)
    <3>1. Loaded(rows, <<>>, i) = rows[i]
      BY NothingHeld
    <3>2. PICK r \in Row, t \in Row :
            /\ rows' = Append([rows EXCEPT ![i] = r], t) /\ RowKept(t, f)
            /\ t.open /\ t.net = rows[i].net + Signed(f.side, f.qty)
      BY <2>3, <3>1 DEF Turns
    <3>3. /\ [rows EXCEPT ![i] = r] \in Seq(Row)
          /\ Len([rows EXCEPT ![i] = r]) = Len(rows)
      BY <1>2, ExceptSeq
    <3>4. rows'[Len(rows) + 1] = t /\ Len(rows') = Len(rows) + 1
      BY <3>2, <3>3, AppendProperties
    <3>5. Len(rows) + 1 \in DOMAIN rows'
      BY <1>2, <1>6, <3>4
    <3>6. IsOpenFor(rows'[Len(rows) + 1], p, s)
      BY <1>9, <3>2, <3>4 DEF RowKept, IsOpenFor
    <3>7. NetOf(rows', p, s) = t.net
      BY <1>6, <3>4, <3>5, <3>6, NetOfOpen
    <3>8. NetOf(rows, p, s) = rows[i].net
      BY <1>2, <1>9, <2>3, NetOfOpen
    <3> QED
      BY <3>2, <3>7, <3>8
  <2>4. NetOf(rows', p, s) = NetOf(rows, p, s) + Signed(f.side, f.qty)
    <3>1. CASE Starts(Portfolio, Security, Strategy, rows, f, rows')
      BY <1>5, <1>9, <2>1, <3>1
    <3> QED
      BY <1>1, <1>2, <1>3, <1>4, <2>2, <2>3, <3>1, ApplyFillCases
  <2> QED
    BY <1>5, <1>9, <2>4
<1>10. CASE ~(p = f.portfolio /\ s = f.security)
  <2>1. \A i \in DOMAIN rows : rows[i].portfolio = p /\ rows[i].security = s => rows'[i] = rows[i]
    BY <1>7, <1>10 DEF IsOpenFor
  <2>2. \A i \in DOMAIN rows' :
          IsOpenFor(rows'[i], p, s) => i \in DOMAIN rows /\ rows'[i] = rows[i]
    BY <1>7, <1>10, <2>1 DEF IsOpenFor, RowKept
  <2>3. CASE \E i \in DOMAIN rows : IsOpenFor(rows[i], p, s)
    <3>1. PICK i \in DOMAIN rows : IsOpenFor(rows[i], p, s)
      BY <2>3
    <3>2. rows'[i] = rows[i] /\ i \in DOMAIN rows'
      BY <1>7, <2>1, <3>1 DEF IsOpenFor
    <3>3. NetOf(rows, p, s) = rows[i].net
      BY <1>2, <3>1, NetOfOpen
    <3>4. NetOf(rows', p, s) = rows'[i].net
      BY <1>6, <3>1, <3>2, NetOfOpen
    <3> QED
      BY <1>5, <1>10, <3>2, <3>3, <3>4
  <2>4. CASE \A i \in DOMAIN rows : ~IsOpenFor(rows[i], p, s)
    <3>1. \A i \in DOMAIN rows' : ~IsOpenFor(rows'[i], p, s)
      BY <2>2, <2>4
    <3>2. NetOf(rows, p, s) = 0
      BY <1>2, <2>4, NetOfOpen
    <3>3. NetOf(rows', p, s) = 0
      BY <1>6, <3>1, NetOfOpen
    <3> QED
      BY <1>5, <1>10, <3>2, <3>3
  <2> QED
    BY <2>3, <2>4
<1> QED
  BY <1>9, <1>10

\* One entry of the abstract log.
Entry(e) ==
  [portfolio |-> e.portfolio, security |-> e.security,
   side |-> e.side, qty |-> FilledQuantity(e)]

LEMMA RefinesInit == Init => Promise!Init
<1> SUFFICES ASSUME Init PROVE Promise!Init
  OBVIOUS
<1>1. rows = <<>> /\ log = <<>>
  BY DEF Init
<1>2. Executed = <<>>
  <2>1. DOMAIN log = {}
    BY <1>1
  <2>2. Executed = [k \in {} |-> Entry(log[k])]
    BY <2>1 DEF Executed, Entry
  <2>3. \A f : f = [k \in {} |-> Entry(log[k])] => f = <<>>
    BY SMT
  <2> QED
    BY <2>2, <2>3
<1>3. \A p, s : NetOf(rows, p, s) = 0
  <2>1. DOMAIN rows = {}
    BY <1>1
  <2> QED
    BY <2>1 DEF NetOf, OpenIds
<1>4. Net = [p \in Portfolio |-> [s \in Security |-> 0]]
  BY <1>3 DEF Net
<1> QED
  BY <1>2, <1>4 DEF Promise!Init

LEMMA RefinesExecute ==
  ASSUME IInv, NEW e \in Execution, Execute(e)
  PROVE  Promise!Execute(Entry(e)) /\ Entry(e) \in Promise!Execution
<1>1. Entry(e) \in Promise!Execution
  <2>1. FilledQuantity(e) \in Sizes
    BY FillOfTyped
  <2>2. e.portfolio \in Portfolio /\ e.security \in Security /\ e.side \in Sides
    BY DEF Execution
  <2> QED
    BY <2>1, <2>2 DEF Entry, Promise!Execution, Sides
<1>2. Executed' = Append(Executed, Entry(e))
  <2>1. log \in Seq(Execution) /\ log' = Append(log, e)
    BY DEF IInv, TypeOK, Execute
  <2>2. /\ DOMAIN log = 1..Len(log) /\ DOMAIN log' = 1..(Len(log) + 1) /\ Len(log) \in Nat
        /\ \A k \in 1..Len(log) : log'[k] = log[k]
        /\ log'[Len(log) + 1] = e
    BY <2>1, AppendProperties
  <2>3. Executed = [k \in 1..Len(log) |-> Entry(log[k])]
    BY <2>2 DEF Executed, Entry
  <2>4. Executed' = [k \in 1..(Len(log) + 1) |-> Entry(log'[k])]
    BY <2>2 DEF Executed, Entry
  <2>5. Len(Executed) = Len(log)
    BY <2>2, <2>3
  <2>6. Append(Executed, Entry(e)) =
          [k \in 1..(Len(log) + 1) |-> IF k = Len(log) + 1 THEN Entry(e) ELSE Executed[k]]
    BY <2>2, <2>3, <2>5
  <2>7. \A k \in 1..(Len(log) + 1) :
          Entry(log'[k]) = IF k = Len(log) + 1 THEN Entry(e) ELSE Executed[k]
    BY <2>2, <2>3
  <2> QED
    BY <2>4, <2>6, <2>7
<1>3. Net' = [Net EXCEPT ![Entry(e).portfolio][Entry(e).security] =
                IF Entry(e).side = "BUY" THEN @ + Entry(e).qty ELSE @ - Entry(e).qty]
  <2>1. /\ Entry(e).portfolio = e.portfolio /\ Entry(e).security = e.security
        /\ Entry(e).side = e.side /\ Entry(e).qty = FilledQuantity(e)
    BY DEF Entry
  <2>2. e.portfolio \in Portfolio /\ e.security \in Security /\ e.side \in Sides
    BY DEF Execution
  <2>3. \A p, s : NetOf(rows', p, s) =
          IF p = e.portfolio /\ s = e.security
          THEN NetOf(rows, p, s) + Signed(e.side, FilledQuantity(e))
          ELSE NetOf(rows, p, s)
    BY ExecuteMovesNet
  <2>4. FilledQuantity(e) \in Nat
    <3>1. FillOf(e) \in FillIn(Portfolio, Security, Strategy)
      BY FillOfTyped
    <3> QED
      BY <3>1 DEF FillIn, FillOf
  <2>5. \A p, s : NetOf(rows, p, s) \in Int
    <3> SUFFICES ASSUME NEW p, NEW s PROVE NetOf(rows, p, s) \in Int
      OBVIOUS
    <3>1. rows \in Seq(RowIn(Portfolio, Security, Strategy)) /\ OneOpenEach(rows)
      BY DEF IInv, TypeOK, OneOpenRow, Row
    <3>2. CASE \E i \in DOMAIN rows : IsOpenFor(rows[i], p, s)
      <4>1. PICK i \in DOMAIN rows : IsOpenFor(rows[i], p, s)
        BY <3>2
      <4>2. NetOf(rows, p, s) = rows[i].net
        BY <3>1, <4>1, NetOfOpen
      <4>3. rows[i] \in RowIn(Portfolio, Security, Strategy)
        BY <3>1
      <4>4. rows[i].net \in Int
        BY <4>3 DEF RowIn
      <4> QED
        BY <4>2, <4>4
    <3>3. CASE \A i \in DOMAIN rows : ~IsOpenFor(rows[i], p, s)
      <4>1. NetOf(rows, p, s) = 0
        BY <3>1, <3>3, NetOfOpen
      <4> QED
        BY <4>1
    <3> QED
      BY <3>2, <3>3
  <2> DEFINE moved == IF e.side = "BUY"
                      THEN Net[e.portfolio][e.security] + FilledQuantity(e)
                      ELSE Net[e.portfolio][e.security] - FilledQuantity(e)
  <2>6. moved = NetOf(rows', e.portfolio, e.security)
    <3>1. Net[e.portfolio][e.security] = NetOf(rows, e.portfolio, e.security)
      BY <2>2 DEF Net
    <3>2. NetOf(rows', e.portfolio, e.security)
            = NetOf(rows, e.portfolio, e.security) + Signed(e.side, FilledQuantity(e))
      BY <2>3
    <3>3. NetOf(rows, e.portfolio, e.security) \in Int
      BY <2>5
    <3> QED
      BY <2>2, <2>4, <3>1, <3>2, <3>3 DEF Signed, Sides
  <2>7. Net' = [p \in Portfolio |-> [s \in Security |-> NetOf(rows', p, s)]]
    BY DEF Net
  <2>8. [Net EXCEPT ![e.portfolio][e.security] = moved]
          = [p \in Portfolio |-> [s \in Security |->
               IF p = e.portfolio /\ s = e.security THEN moved ELSE NetOf(rows, p, s)]]
    BY <2>2 DEF Net
  <2>9. \A p, s : NetOf(rows', p, s) =
                    IF p = e.portfolio /\ s = e.security THEN moved ELSE NetOf(rows, p, s)
    BY <2>3, <2>6
  <2>10. Net' = [Net EXCEPT ![e.portfolio][e.security] = moved]
    <3> HIDE DEF moved
    <3> QED
      BY <2>7, <2>8, <2>9
  <2> QED
    BY <2>1, <2>10
<1> QED
  BY <1>1, <1>2, <1>3 DEF Promise!Execute

(* Every execution is one step of the abstract book: no fill is lost or    *)
(* counted twice in a flip, and no other position is touched.              *)
THEOREM BookImplementsNetPosition == Spec => ImplementsNetPosition
<1>1. IInv /\ Next => Promise!Next
  <2> SUFFICES ASSUME IInv, NEW e \in Execution, Execute(e) PROVE Promise!Next
    BY DEF Next
  <2> QED
    BY RefinesExecute DEF Promise!Next
<1>2. UNCHANGED vars => UNCHANGED <<Executed, Net>>
  BY DEF vars, Executed, Net
<1>3. IInv /\ [Next]_vars => [Promise!Next]_<<Executed, Net>>
  BY <1>1, <1>2
<1> QED
  BY <1>3, InitInv, NextInv, RefinesInit, PTL DEF Spec, Promise!Spec, ImplementsNetPosition
-----------------------------------------------------------------------------
\* How far what a row has realised is from what its totals say, what one
\* fill may add to that, and what a row of n executions may have come to.
Gap(row) ==
  MoneyUnit * (row.realized - (row.soldValue - row.boughtValue)) - row.net * row.avg

Scale(row) == 2 * MoneyUnit + Larger(row.bought, row.sold)

Drifts(row, new) ==
  /\ Larger(row.bought, row.sold) <= Larger(new.bought, new.sold)
  /\ 2 * Abs(Gap(new) - Gap(row)) <= Scale(new)

Explained(row, n) == 2 * Abs(Gap(row)) <= n * Scale(row)

(* What a row is measured by is a number.                                  *)
LEMMA GapIsInt ==
  ASSUME NEW P, NEW S, NEW K, NEW row \in RowIn(P, S, K)
  PROVE  Gap(row) \in Int /\ Scale(row) \in Nat /\ Larger(row.bought, row.sold) \in Nat
<1>1. /\ row.realized \in Int /\ row.soldValue \in Nat /\ row.boughtValue \in Nat
      /\ row.net \in Int /\ row.avg \in Nat /\ row.bought \in Nat /\ row.sold \in Nat
  BY DEF RowIn
<1>2. PICK x, y : /\ x \in Int /\ x = MoneyUnit * (row.realized - (row.soldValue - row.boughtValue))
                  /\ y \in Int /\ y = row.net * row.avg
  BY <1>1, MoneyUnitAssumption, ProductIsInt
<1>3. Gap(row) = x - y
  BY <1>2 DEF Gap
<1> QED
  BY <1>1, <1>2, <1>3, MoneyUnitAssumption DEF Scale, Larger

LEMMA StaysExplained ==
  ASSUME NEW P, NEW S, NEW K, NEW row \in RowIn(P, S, K), NEW new \in RowIn(P, S, K),
         NEW n \in Nat, Explained(row, n), Drifts(row, new)
  PROVE  Explained(new, n + 1)
<1>1. PICK g, h, s, t : g = Gap(row) /\ h = Gap(new) /\ s = Scale(row) /\ t = Scale(new)
  OBVIOUS
<1>2. g \in Int /\ h \in Int /\ s \in Nat /\ t \in Nat
  BY <1>1, GapIsInt
<1>3. s <= t
  <2>1. PICK a, b : a = Larger(row.bought, row.sold) /\ b = Larger(new.bought, new.sold)
    OBVIOUS
  <2>2. a \in Nat /\ b \in Nat /\ a <= b
    BY <2>1, GapIsInt DEF Drifts
  <2> QED
    BY <1>1, <2>1, <2>2, MoneyUnitAssumption DEF Scale
<1>4. 2 * Abs(g) <= n * s /\ 2 * Abs(h - g) <= t
  BY <1>1 DEF Explained, Drifts
<1>5. PICK u, w : u \in Int /\ u = n * s /\ w \in Int /\ w = n * t
  BY <1>2, ProductIsInt
<1>6. u <= w
  BY <1>2, <1>3, <1>5
<1>7. (n + 1) * t = w + t
  BY <1>2, <1>5
<1>8. 2 * Abs(h) <= w + t
  BY <1>2, <1>4, <1>5, <1>6 DEF Abs
<1> QED
  BY <1>1, <1>7, <1>8 DEF Explained

(* A drift within a bound that the scale covers.                           *)
LEMMA DriftsWithin ==
  ASSUME NEW P, NEW S, NEW K, NEW row \in RowIn(P, S, K), NEW new \in RowIn(P, S, K),
         NEW v \in Nat, 2 * Abs(Gap(new) - Gap(row)) <= v, v <= Scale(new),
         Larger(row.bought, row.sold) <= Larger(new.bought, new.sold)
  PROVE  Drifts(row, new)
<1>1. PICK g, h, t : g = Gap(row) /\ h = Gap(new) /\ t = Scale(new)
  OBVIOUS
<1>2. g \in Int /\ h \in Int /\ t \in Nat
  BY <1>1, GapIsInt
<1>3. 2 * Abs(h - g) <= v /\ v <= t
  BY <1>1
<1>4. 2 * Abs(h - g) <= t
  BY <1>2, <1>3 DEF Abs
<1> QED
  BY <1>1, <1>4 DEF Drifts

-----------------------------------------------------------------------------
(* Adding rounds the new average and the leg's value; taking rounds what is*)
(* realised and the leg's value.  Both signs of a position at once.        *)
LEMMA AddRounds ==
  ASSUME NEW M \in Nat, NEW held \in Nat, NEW qty \in Nat, NEW avg \in Nat, NEW price \in Nat,
         NEW average \in Nat, NEW worth \in Nat, NEW x \in Int,
         2 * Abs(average * (held + qty) - (avg * held + price * qty)) <= held + qty,
         2 * Abs(M * worth - price * qty) <= M
  PROVE  /\ 2 * Abs((M * (x + worth) - (held + qty) * average) - (M * x - held * avg))
              <= M + held + qty
         /\ 2 * Abs((M * (x - worth) - (-(held + qty)) * average) - (M * x - (-held) * avg))
              <= M + held + qty
<1>1. PICK a, b, c, d, e :
        /\ a = average * (held + qty) /\ b = avg * held /\ c = price * qty
        /\ d = M * worth /\ e = M * x
  OBVIOUS
<1>2. a \in Int /\ b \in Int /\ c \in Int /\ d \in Int /\ e \in Int
  BY <1>1, ProductIsInt
<1>3. M * (x + worth) = e + d /\ M * (x - worth) = e - d
  BY <1>1
<1>4. (held + qty) * average = a /\ held * avg = b
  BY <1>1
<1>5. (-(held + qty)) * average = -a /\ (-held) * avg = -b
  BY <1>1
<1>6. 2 * Abs(a - (b + c)) <= held + qty /\ 2 * Abs(d - c) <= M
  BY <1>1
<1>7. /\ 2 * Abs((e + d - a) - (e - b)) <= M + held + qty
      /\ 2 * Abs((e - d - (-a)) - (e - (-b))) <= M + held + qty
  BY <1>2, <1>6 DEF Abs
<1> QED
  BY <1>1, <1>3, <1>4, <1>5, <1>7

LEMMA TakeRounds ==
  ASSUME NEW M \in Nat, NEW net \in Int, NEW qty \in Nat, NEW avg \in Nat, NEW price \in Nat,
         NEW worth \in Nat, NEW real \in Int, NEW more \in Int, NEW z \in Int,
         2 * Abs(M * worth - price * qty) <= M
  PROVE  /\ 2 * Abs(M * more - (M * real + (price - avg) * qty)) <= M =>
              2 * Abs((M * (more - (z + worth)) - (net - qty) * avg) - (M * (real - z) - net * avg))
                <= 2 * M
         /\ 2 * Abs(M * more - (M * real + (avg - price) * qty)) <= M =>
              2 * Abs((M * (more - (z - worth)) - (net + qty) * avg) - (M * (real - z) - net * avg))
                <= 2 * M
<1>1. PICK a, b, c, d, e, k, r :
        /\ a = M * more /\ b = M * z /\ c = price * qty /\ d = M * worth /\ e = M * real
        /\ k = net * avg /\ r = avg * qty
  OBVIOUS
<1>2. a \in Int /\ b \in Int /\ c \in Int /\ d \in Int /\ e \in Int /\ k \in Int /\ r \in Int
  BY <1>1, ProductIsInt
<1>3. /\ M * (more - (z + worth)) = a - b - d /\ M * (more - (z - worth)) = a - b + d
      /\ M * (real - z) = e - b
  BY <1>1
<1>4. (net - qty) * avg = k - r /\ (net + qty) * avg = k + r
  BY <1>1
<1>5. (price - avg) * qty = c - r /\ (avg - price) * qty = r - c
  BY <1>1
<1>6. 2 * Abs(d - c) <= M
  BY <1>1
<1>7. /\ 2 * Abs(a - (e + (c - r))) <= M =>
           2 * Abs((a - b - d - (k - r)) - (e - b - k)) <= 2 * M
      /\ 2 * Abs(a - (e + (r - c))) <= M =>
           2 * Abs((a - b + d - (k + r)) - (e - b - k)) <= 2 * M
  BY <1>2, <1>6 DEF Abs
<1> QED
  BY <1>1, <1>3, <1>4, <1>5, <1>7

(* _record_leg, in numbers.                                                *)
LEMMA LegAdds ==
  ASSUME NEW P, NEW S, NEW K, NEW row \in RowIn(P, S, K),
         NEW side \in Sides, NEW qty, NEW price, NEW charges,
         NEW leg, leg = Leg(row, side, qty, price, charges)
  PROVE  /\ leg.net = row.net /\ leg.avg = row.avg /\ leg.realized = row.realized
         /\ side = "BUY" =>
              /\ leg.bought = row.bought + qty
              /\ leg.boughtValue = row.boughtValue + Worth(price, qty)
              /\ leg.sold = row.sold /\ leg.soldValue = row.soldValue
         /\ side = "SELL" =>
              /\ leg.sold = row.sold + qty
              /\ leg.soldValue = row.soldValue + Worth(price, qty)
              /\ leg.bought = row.bought /\ leg.boughtValue = row.boughtValue
<1>1. PICK value : value = Worth(price, qty)
  OBVIOUS
<1>2. leg = IF side = "BUY"
            THEN [row EXCEPT !.bought = @ + qty, !.boughtValue = @ + value,
                             !.charges = @ + charges]
            ELSE [row EXCEPT !.sold = @ + qty, !.soldValue = @ + value,
                             !.charges = @ + charges]
  BY <1>1 DEF Leg
<1>3. CASE side = "BUY"
  BY <1>1, <1>2, <1>3 DEF RowIn
<1>4. CASE side = "SELL"
  BY <1>1, <1>2, <1>4 DEF RowIn
<1> QED
  BY <1>3, <1>4 DEF Sides

(* A fill on the row's own side.                                           *)
LEMMA IncreaseDrifts ==
  ASSUME NEW P, NEW S, NEW K, NEW row \in RowIn(P, S, K), NEW f \in FillIn(P, S, K),
         SameWay(row, f), row.net = row.bought - row.sold,
         NEW new, new = Increase(row, f)
  PROVE  Drifts(row, new)
<1>1. /\ f.side \in Sides /\ f.price \in Nat /\ f.qty \in Nat /\ f.qty # 0
      /\ row.net \in Int /\ row.avg \in Nat /\ row.realized \in Int
      /\ row.bought \in Nat /\ row.sold \in Nat /\ row.boughtValue \in Nat /\ row.soldValue \in Nat
  BY DEF FillIn, RowIn
<1>2. PICK held : held \in Nat /\ held = Abs(row.net)
  BY <1>1, AbsIsNat
<1>3. PICK total : total \in Nat /\ total = row.avg * held + f.price * f.qty
  <2>1. row.avg * held \in Nat /\ f.price * f.qty \in Nat
    BY <1>1, <1>2, ProductIsNat
  <2> QED
    BY <2>1
<1>4. PICK average : average = HalfUp(total, held + f.qty)
  OBVIOUS
<1>5. average \in Nat /\ 2 * Abs(average * (held + f.qty) - total) <= held + f.qty
  <2>1. held + f.qty \in Nat \ {0}
    BY <1>1, <1>2
  <2> QED
    BY <1>3, <1>4, <2>1, HalfUpIsNat, HalfUpNear
<1>6. PICK worth : worth = Worth(f.price, f.qty)
  OBVIOUS
<1>7. worth \in Nat /\ 2 * Abs(MoneyUnit * worth - f.price * f.qty) <= MoneyUnit
  <2>1. f.price * f.qty \in Int
    BY <1>1, ProductIsInt
  <2> QED
    BY <1>1, <1>6, <2>1, WorthIsNat, MoneyNear DEF Worth
<1>8. PICK base : base = [row EXCEPT !.avg = average, !.net = row.net + Signed(f.side, f.qty)]
  OBVIOUS
<1>9. new = Leg(base, f.side, f.qty, f.price, f.charges)
  BY <1>2, <1>3, <1>4, <1>8 DEF Increase, Weighted
<1>10. /\ base \in RowIn(P, S, K)
       /\ base.avg = average /\ base.net = row.net + Signed(f.side, f.qty)
       /\ base.realized = row.realized /\ base.bought = row.bought /\ base.sold = row.sold
       /\ base.boughtValue = row.boughtValue /\ base.soldValue = row.soldValue
  <2>1. PICK net : net \in Int /\ net = row.net + Signed(f.side, f.qty)
    BY <1>1 DEF Signed
  <2>2. base = Averaged(row, average, net)
    BY <1>8, <2>1 DEF Averaged
  <2>3. base \in RowIn(P, S, K)
    BY <1>5, <2>1, <2>2, AveragedRow
  <2> QED
    BY <1>8, <2>3 DEF RowIn
<1>11. /\ new.net = base.net /\ new.avg = average /\ new.realized = row.realized
       /\ f.side = "BUY" =>
            /\ new.bought = row.bought + f.qty /\ new.boughtValue = row.boughtValue + worth
            /\ new.sold = row.sold /\ new.soldValue = row.soldValue
       /\ f.side = "SELL" =>
            /\ new.sold = row.sold + f.qty /\ new.soldValue = row.soldValue + worth
            /\ new.bought = row.bought /\ new.boughtValue = row.boughtValue
  BY <1>1, <1>6, <1>9, <1>10, LegAdds
<1>12. PICK x : x \in Int /\ x = row.realized - (row.soldValue - row.boughtValue)
  BY <1>1
<1>13. /\ 2 * Abs((MoneyUnit * (x + worth) - (held + f.qty) * average)
                  - (MoneyUnit * x - held * row.avg)) <= MoneyUnit + held + f.qty
       /\ 2 * Abs((MoneyUnit * (x - worth) - (-(held + f.qty)) * average)
                  - (MoneyUnit * x - (-held) * row.avg)) <= MoneyUnit + held + f.qty
  BY <1>1, <1>2, <1>3, <1>5, <1>7, <1>12, MoneyUnitAssumption, AddRounds
<1>14. new \in RowIn(P, S, K)
  BY IncreaseMoves
<1>15. CASE f.side = "BUY"
  <2>1. row.net = held /\ new.net = held + f.qty
    BY <1>1, <1>2, <1>10, <1>11, <1>15 DEF SameWay, Abs, Signed
  <2>2. new.realized - (new.soldValue - new.boughtValue) = x + worth
    BY <1>1, <1>7, <1>11, <1>12, <1>15
  <2>3. 2 * Abs(Gap(new) - Gap(row)) <= MoneyUnit + held + f.qty
    BY <1>11, <1>12, <1>13, <2>1, <2>2 DEF Gap
  <2>4. /\ Larger(row.bought, row.sold) <= Larger(new.bought, new.sold)
        /\ MoneyUnit + held + f.qty <= Scale(new)
    BY <1>1, <1>2, <1>11, <1>15, <2>1, MoneyUnitAssumption DEF Larger, Scale
  <2> QED
    BY <1>1, <1>2, <1>14, <2>3, <2>4, DriftsWithin, MoneyUnitAssumption
<1>16. CASE f.side = "SELL"
  <2>1. row.net = -held /\ new.net = -(held + f.qty)
    BY <1>1, <1>2, <1>10, <1>11, <1>16 DEF SameWay, Abs, Signed
  <2>2. new.realized - (new.soldValue - new.boughtValue) = x - worth
    BY <1>1, <1>7, <1>11, <1>12, <1>16
  <2>3. 2 * Abs(Gap(new) - Gap(row)) <= MoneyUnit + held + f.qty
    BY <1>11, <1>12, <1>13, <2>1, <2>2 DEF Gap
  <2>4. /\ Larger(row.bought, row.sold) <= Larger(new.bought, new.sold)
        /\ MoneyUnit + held + f.qty <= Scale(new)
    BY <1>1, <1>2, <1>11, <1>16, <2>1, MoneyUnitAssumption DEF Larger, Scale
  <2> QED
    BY <1>1, <1>2, <1>14, <2>3, <2>4, DriftsWithin, MoneyUnitAssumption
<1> QED
  BY <1>1, <1>15, <1>16 DEF Sides

(* A fill against the row, for all it holds or less, and what is left has  *)
(* the average it had, or nothing is left and the average is reset.        *)
LEMMA DecreaseDrifts ==
  ASSUME NEW P, NEW S, NEW K, NEW row \in RowIn(P, S, K), NEW f \in FillIn(P, S, K),
         ~SameWay(row, f), NEW qty \in Nat,
         NEW new \in RowIn(P, S, K), NEW net \in Int, net = row.net + Signed(f.side, qty),
         NEW real, real = Realised(row, f.price, qty),
         NEW base, base = Booked(row, real, net),
         NEW leg, leg = Leg(base, f.side, qty, f.price, f.charges),
         /\ new.net = net /\ new.realized = leg.realized
         /\ new.bought = leg.bought /\ new.boughtValue = leg.boughtValue
         /\ new.sold = leg.sold /\ new.soldValue = leg.soldValue
         /\ new.avg = row.avg \/ net = 0
  PROVE  Drifts(row, new)
<1>1. /\ f.side \in Sides /\ f.price \in Nat
      /\ row.net \in Int /\ row.avg \in Nat /\ row.realized \in Int
      /\ row.bought \in Nat /\ row.sold \in Nat /\ row.boughtValue \in Nat /\ row.soldValue \in Nat
  BY DEF FillIn, RowIn
<1>2. real \in Int
  BY <1>1, RealisedIsInt
<1>4. /\ base \in RowIn(P, S, K)
      /\ base.realized = real /\ base.bought = row.bought /\ base.sold = row.sold
      /\ base.boughtValue = row.boughtValue /\ base.soldValue = row.soldValue
  <2>1. base \in RowIn(P, S, K)
    BY <1>2, BookedRow
  <2> QED
    BY <2>1 DEF RowIn, Booked
<1>5. PICK worth : worth = Worth(f.price, qty)
  OBVIOUS
<1>6. worth \in Nat /\ 2 * Abs(MoneyUnit * worth - f.price * qty) <= MoneyUnit
  <2>1. f.price * qty \in Int
    BY <1>1, ProductIsInt
  <2> QED
    BY <1>1, <1>5, <2>1, WorthIsNat, MoneyNear DEF Worth
<1>7. /\ new.realized = real
      /\ f.side = "BUY" =>
           /\ new.bought = row.bought + qty /\ new.boughtValue = row.boughtValue + worth
           /\ new.sold = row.sold /\ new.soldValue = row.soldValue
      /\ f.side = "SELL" =>
           /\ new.sold = row.sold + qty /\ new.soldValue = row.soldValue + worth
           /\ new.bought = row.bought /\ new.boughtValue = row.boughtValue
  <2>1. /\ leg.realized = base.realized
        /\ f.side = "BUY" =>
             /\ leg.bought = base.bought + qty /\ leg.boughtValue = base.boughtValue + worth
             /\ leg.sold = base.sold /\ leg.soldValue = base.soldValue
        /\ f.side = "SELL" =>
             /\ leg.sold = base.sold + qty /\ leg.soldValue = base.soldValue + worth
             /\ leg.bought = base.bought /\ leg.boughtValue = base.boughtValue
    BY <1>1, <1>4, <1>5, LegAdds
  <2> QED
    BY <1>4, <2>1
<1>8. new.net * new.avg = net * row.avg
  <2>1. \A y \in Nat : 0 * y = 0
    OBVIOUS
  <2>2. new.avg \in Nat
    BY DEF RowIn
  <2> QED
    BY <1>1, <2>1, <2>2
<1>9. PICK z : z \in Int /\ z = row.soldValue - row.boughtValue
  BY <1>1
<1>10. PICK gain : gain \in Int /\ gain = IF row.net > 0 THEN f.price - row.avg
                                                         ELSE row.avg - f.price
  BY <1>1
<1>11. 2 * Abs(MoneyUnit * real - (MoneyUnit * row.realized + gain * qty)) <= MoneyUnit
  <2>1. real = ToMoney(MoneyUnit * row.realized + gain * qty)
    BY <1>10 DEF Realised
  <2>2. MoneyUnit * row.realized \in Int /\ gain * qty \in Int
    BY <1>1, <1>10, MoneyUnitAssumption, ProductIsInt
  <2>3. MoneyUnit * row.realized + gain * qty \in Int
    BY <2>2
  <2> QED
    BY <2>1, <2>3, MoneyNear
<1>12. /\ 2 * Abs(MoneyUnit * real - (MoneyUnit * row.realized + (f.price - row.avg) * qty)) <= MoneyUnit =>
            2 * Abs((MoneyUnit * (real - (z + worth)) - (row.net - qty) * row.avg)
                    - (MoneyUnit * (row.realized - z) - row.net * row.avg)) <= 2 * MoneyUnit
       /\ 2 * Abs(MoneyUnit * real - (MoneyUnit * row.realized + (row.avg - f.price) * qty)) <= MoneyUnit =>
            2 * Abs((MoneyUnit * (real - (z - worth)) - (row.net + qty) * row.avg)
                    - (MoneyUnit * (row.realized - z) - row.net * row.avg)) <= 2 * MoneyUnit
  BY <1>1, <1>2, <1>6, <1>9, MoneyUnitAssumption, TakeRounds
<1>13. 2 * Abs(Gap(new) - Gap(row)) <= 2 * MoneyUnit
  <2>1. CASE f.side = "BUY"
    <3>1. gain = row.avg - f.price
      BY <1>1, <1>10, <2>1 DEF SameWay
    <3>2. net = row.net + qty
      BY <2>1 DEF Signed
    <3>3. new.realized - (new.soldValue - new.boughtValue) = real - (z - worth)
      BY <1>1, <1>2, <1>6, <1>7, <1>9, <2>1
    <3> QED
      BY <1>8, <1>9, <1>11, <1>12, <3>1, <3>2, <3>3 DEF Gap
  <2>2. CASE f.side = "SELL"
    <3>1. gain = f.price - row.avg
      BY <1>1, <1>10, <2>2 DEF SameWay
    <3>2. net = row.net - qty
      BY <1>1, <2>2 DEF Signed
    <3>3. new.realized - (new.soldValue - new.boughtValue) = real - (z + worth)
      BY <1>1, <1>2, <1>6, <1>7, <1>9, <2>2
    <3> QED
      BY <1>8, <1>9, <1>11, <1>12, <3>1, <3>2, <3>3 DEF Gap
  <2> QED
    BY <1>1, <2>1, <2>2 DEF Sides
<1>14. /\ Larger(row.bought, row.sold) <= Larger(new.bought, new.sold)
       /\ 2 * MoneyUnit <= Scale(new)
  BY <1>1, <1>7, MoneyUnitAssumption DEF Sides, Larger, Scale
<1> QED
  BY <1>13, <1>14, MoneyUnitAssumption, DriftsWithin

\* What the totals, the average and the realised money of a row are.
SameNumbers(r, s) ==
  /\ r.net = s.net /\ r.avg = s.avg /\ r.realized = s.realized
  /\ r.bought = s.bought /\ r.boughtValue = s.boughtValue
  /\ r.sold = s.sold /\ r.soldValue = s.soldValue

LEMMA SameNumbersDrift ==
  ASSUME NEW row, NEW r, NEW s, SameNumbers(r, s), Drifts(row, s)
  PROVE  Drifts(row, r)
<1>1. Gap(r) = Gap(s) /\ Scale(r) = Scale(s) /\ Larger(r.bought, r.sold) = Larger(s.bought, s.sold)
  BY DEF SameNumbers, Gap, Scale
<1> QED
  BY <1>1, Zenon DEF Drifts

(* A row whose quantity is nothing may be shut: no gap depends on its      *)
(* average.                                                                *)
LEMMA ShutDrift ==
  ASSUME NEW P, NEW S, NEW K, NEW row, NEW r \in RowIn(P, S, K), r.net = 0, Drifts(row, r),
         NEW shut, shut = Shut(r)
  PROVE  Drifts(row, shut)
<1>1. /\ shut.net = r.net /\ shut.avg = 0 /\ shut.realized = r.realized
      /\ shut.bought = r.bought /\ shut.boughtValue = r.boughtValue
      /\ shut.sold = r.sold /\ shut.soldValue = r.soldValue
  BY DEF Shut, RowIn
<1>2. shut.net * shut.avg = r.net * r.avg
  <2>1. \A y \in Nat : 0 * y = 0
    OBVIOUS
  <2>2. r.avg \in Nat
    BY DEF RowIn
  <2> QED
    BY <1>1, <2>1, <2>2
<1>3. /\ Gap(shut) = Gap(r) /\ Scale(shut) = Scale(r)
      /\ Larger(shut.bought, shut.sold) = Larger(r.bought, r.sold)
  BY <1>1, <1>2 DEF Gap, Scale
<1> QED
  BY <1>3, Zenon DEF Drifts

(* Any fill that does not flip the row.                                    *)
LEMMA AbsorbDrifts ==
  ASSUME NEW P, NEW S, NEW K, NEW row \in RowIn(P, S, K), NEW f \in FillIn(P, S, K),
         ~Flips(row, f), row.net = row.bought - row.sold,
         NEW new, new = Absorb(row, f)
  PROVE  Drifts(row, new)
<1>1. PICK moved : /\ moved = IF SameWay(row, f) THEN Increase(row, f) ELSE Decrease(row, f)
                   /\ new = IF moved.net = 0 THEN Shut(moved) ELSE moved
  BY DEF Absorb
<1>2. moved = Increase(row, f) \/ moved = Decrease(row, f)
  BY <1>1
<1>3. moved \in RowIn(P, S, K) /\ moved.net = row.net + Signed(f.side, f.qty)
  BY <1>2, IncreaseMoves
<1>4. Drifts(row, moved)
  <2>1. CASE SameWay(row, f)
    BY <1>1, <2>1, IncreaseDrifts
  <2>2. CASE ~SameWay(row, f)
    <3>1. PICK real : real = Realised(row, f.price, f.qty)
      OBVIOUS
    <3>2. PICK net : net = row.net + Signed(f.side, f.qty)
      OBVIOUS
    <3>3. PICK base : base = Booked(row, real, net)
      OBVIOUS
    <3>4. moved = Leg(base, f.side, f.qty, f.price, f.charges)
      BY <1>1, <2>2, <3>1, <3>2, <3>3 DEF Decrease, Booked
    <3>5. f.side \in Sides /\ f.price \in Nat /\ f.qty \in Nat
      BY DEF FillIn
    <3>6. net \in Int /\ row.avg \in Nat
      BY <3>2, <3>5 DEF Signed, RowIn
    <3>7. real \in Int
      BY <3>1, <3>5, RealisedIsInt
    <3>8. base \in RowIn(P, S, K) /\ base.avg = row.avg
      <4>1. base \in RowIn(P, S, K)
        BY <3>3, <3>6, <3>7, BookedRow
      <4> QED
        BY <3>3, <4>1 DEF RowIn, Booked
    <3>9. moved.avg = row.avg
      BY <3>4, <3>5, <3>8, LegAdds
    <3>10. moved.net = net
      BY <1>3, <3>2
    <3> QED
      BY <1>3, <2>2, <3>1, <3>2, <3>3, <3>4, <3>5, <3>6, <3>9, <3>10, DecreaseDrifts
  <2> QED
    BY <2>1, <2>2
<1>5. CASE moved.net = 0
  BY <1>1, <1>3, <1>4, <1>5, ShutDrift
<1>6. CASE moved.net # 0
  BY <1>1, <1>4, <1>6
<1> QED
  BY <1>5, <1>6

(* The leg that closes a row in a flip.                                    *)
LEMMA CloseLegDrifts ==
  ASSUME NEW P, NEW S, NEW K, NEW row \in RowIn(P, S, K), NEW f \in FillIn(P, S, K),
         Flips(row, f), NEW old, old = CloseLeg(row, f)
  PROVE  Drifts(row, old)
<1>1. ~SameWay(row, f) /\ row.net \in Int /\ f.side \in Sides /\ f.price \in Nat /\ f.charges \in Int
  BY DEF Flips, RowIn, FillIn
<1>2. PICK qty : qty = Abs(row.net)
  OBVIOUS
<1>3. qty \in Nat
  BY <1>1, <1>2, AbsIsNat
<1>4. 0 = row.net + Signed(f.side, qty)
  BY <1>1, <1>2 DEF SameWay, Signed, Abs, Sides
<1>5. PICK real : real = Realised(row, f.price, qty)
  OBVIOUS
<1>6. PICK base : base = Booked(row, real, 0)
  OBVIOUS
<1>7. PICK leg : leg = Leg(base, f.side, qty, f.price, f.charges)
  OBVIOUS
<1>8. old = Shut(leg)
  BY <1>2, <1>5, <1>6, <1>7 DEF CloseLeg, Booked
<1>9. real \in Int
  BY <1>1, <1>3, <1>5, RealisedIsInt
<1>10. base \in RowIn(P, S, K) /\ base.net = 0
  BY <1>6, <1>9, BookedRow
<1>11. leg \in RowIn(P, S, K) /\ leg.net = 0
  <2>1. leg \in RowIn(P, S, K)
    <3>1. base \in RowIn(P, S, K)
      BY <1>10
    <3>2. /\ f.side \in Sides /\ f.price \in Nat /\ f.charges \in Int
      BY <1>1
    <3>3. \A side \in Sides, price \in Nat, charges \in Int :
            Leg(base, side, qty, price, charges) \in RowIn(P, S, K)
      BY <1>3, <3>1, LegRecords
    <3> QED
      BY <1>7, <3>2, <3>3
  <2>2. leg.net = base.net
    BY <1>1, <1>7, <1>10, LegAdds
  <2> QED
    BY <1>10, <2>1, <2>2
<1>12. Drifts(row, leg)
  BY <1>1, <1>3, <1>4, <1>5, <1>6, <1>7, <1>11, DecreaseDrifts
<1> QED
  BY <1>8, <1>11, <1>12, ShutDrift

(* The row a flip leaves has one leg behind it, and only its value rounded.*)
LEMMA ResidualExplained ==
  ASSUME NEW P, NEW S, NEW K, NEW row \in RowIn(P, S, K), NEW f \in FillIn(P, S, K),
         Flips(row, f), NEW new, new = Residual(row, f), NEW n \in Nat
  PROVE  Explained(new, n + 1)
<1>1. f.qty \in Nat /\ f.side \in Sides /\ f.price \in Nat /\ row.net \in Int
  BY DEF FillIn, RowIn
<1>2. PICK left : left = f.qty - Abs(row.net)
  OBVIOUS
<1>3. left \in Nat /\ Signed(f.side, left) \in Int
  BY <1>1, <1>2 DEF Flips, Abs, Signed
<1>4. PICK base : base = Started(f, Signed(f.side, left))
  OBVIOUS
<1>5. new = Leg(base, f.side, left, f.price, 0)
  BY <1>2, <1>4 DEF Residual, Started
<1>6. base \in RowIn(P, S, K)
  BY <1>3, <1>4, StartedRow
<1>7. /\ base.net = Signed(f.side, left) /\ base.avg = f.price /\ base.realized = 0
      /\ base.bought = 0 /\ base.boughtValue = 0 /\ base.sold = 0 /\ base.soldValue = 0
  BY <1>4 DEF Started, NewRow
<1>8. PICK worth : worth = Worth(f.price, left)
  OBVIOUS
<1>9. worth \in Nat /\ 2 * Abs(MoneyUnit * worth - f.price * left) <= MoneyUnit
  <2>1. f.price * left \in Int
    BY <1>1, <1>3, ProductIsInt
  <2> QED
    BY <1>1, <1>3, <1>8, <2>1, WorthIsNat, MoneyNear DEF Worth
<1>10. /\ new.net = Signed(f.side, left) /\ new.avg = f.price /\ new.realized = 0
       /\ f.side = "BUY" => new.boughtValue = worth /\ new.soldValue = 0
       /\ f.side = "SELL" => new.soldValue = worth /\ new.boughtValue = 0
  <2>1. /\ new.net = base.net /\ new.avg = base.avg /\ new.realized = base.realized
        /\ f.side = "BUY" =>
             new.boughtValue = base.boughtValue + worth /\ new.soldValue = base.soldValue
        /\ f.side = "SELL" =>
             new.soldValue = base.soldValue + worth /\ new.boughtValue = base.boughtValue
    BY <1>1, <1>5, <1>6, <1>8, LegAdds
  <2> QED
    BY <1>7, <1>9, <2>1
<1>11. new \in RowIn(P, S, K)
  BY <1>1, <1>3, <1>5, <1>6, LegRecords
<1>12. PICK a, b : a = MoneyUnit * worth /\ b = f.price * left
  OBVIOUS
<1>13. a \in Int /\ b \in Int
  BY <1>1, <1>3, <1>9, <1>12, MoneyUnitAssumption, ProductIsInt
<1>14. 2 * Abs(Gap(new)) <= MoneyUnit
  <2>1. CASE f.side = "BUY"
    <3>1. new.realized - (new.soldValue - new.boughtValue) = worth /\ new.net = left
      BY <1>9, <1>10, <2>1 DEF Signed
    <3>2. left * f.price = b
      BY <1>1, <1>3, <1>12
    <3>3. Gap(new) = a - b
      BY <1>10, <1>12, <3>1, <3>2 DEF Gap
    <3> QED
      BY <1>9, <1>12, <1>13, <3>3
  <2>2. CASE f.side = "SELL"
    <3>1. new.realized - (new.soldValue - new.boughtValue) = -worth /\ new.net = -left
      BY <1>9, <1>10, <2>2 DEF Signed
    <3>2. (-left) * f.price = -b
      BY <1>1, <1>3, <1>12
    <3>3. MoneyUnit * (-worth) = -a
      BY <1>9, <1>12, MoneyUnitAssumption
    <3>4. Gap(new) = -a + b
      BY <1>10, <1>13, <3>1, <3>2, <3>3 DEF Gap
    <3>5. 2 * Abs(a - b) <= MoneyUnit
      BY <1>9, <1>12
    <3> QED
      BY <1>13, <3>4, <3>5, MoneyUnitAssumption DEF Abs
  <2> QED
    BY <1>1, <2>1, <2>2 DEF Sides
<1>15. PICK g, t : g = Gap(new) /\ t = Scale(new)
  OBVIOUS
<1>16. g \in Int /\ t \in Nat /\ MoneyUnit <= t
  <2>1. Larger(new.bought, new.sold) \in Nat
    BY <1>11, GapIsInt
  <2> QED
    BY <1>11, <1>15, <2>1, GapIsInt, MoneyUnitAssumption DEF Scale
<1>17. PICK w : w \in Nat /\ w = n * t
  BY <1>16, ProductIsNat
<1>18. (n + 1) * t = w + t
  BY <1>16, <1>17
<1>19. 2 * Abs(g) <= w + t
  BY <1>14, <1>15, <1>16, <1>17, MoneyUnitAssumption DEF Abs
<1> QED
  BY <1>15, <1>18, <1>19 DEF Explained

(* A row is flushed as it was computed when the copy it was computed from  *)
(* was fresh.                                                              *)
LEMMA FlushFresh ==
  ASSUME NEW row, NEW new, NEW out, out = Flush(row, row, new)
  PROVE  SameNumbers(out, new)
BY DEF Flush, Column, SameNumbers

LEMMA FlushOpen ==
  ASSUME NEW P, NEW S, NEW K, NEW row \in RowIn(P, S, K), NEW new \in RowIn(P, S, K),
         row.open, new.net # row.net, NEW out, out = Flush(row, row, new)
  PROVE  out \in RowIn(P, S, K)
BY FlushWrites

-----------------------------------------------------------------------------
LEMMA ExecuteExplains ==
  ASSUME IInv, RealisedExplainsTotals, NEW e \in Execution, Execute(e)
  PROVE  RealisedExplainsTotals'
<1> USE DEF Row
<1>1. PICK f : f = FillOf(e)
  OBVIOUS
<1>2. f \in FillIn(Portfolio, Security, Strategy)
  BY <1>1, FillOfTyped
<1>3. rows \in Seq(Row) /\ OneOpenEach(rows)
  BY DEF IInv, TypeOK, OneOpenRow
<1>4. rows' = ApplyFill(rows, <<>>, f)
  BY <1>1 DEF Execute
<1>5. PICK n \in Nat : n = Len(log) /\ Len(log') = n + 1
  <2>1. log \in Seq(Execution) /\ log' = Append(log, e)
    BY DEF IInv, TypeOK, Execute
  <2> QED
    BY <2>1, AppendProperties, LenProperties
<1>6. \A i \in DOMAIN rows :
        /\ rows[i] \in Row /\ rows[i].net = rows[i].bought - rows[i].sold
        /\ Explained(rows[i], n)
  BY <1>3, <1>5 DEF IInv, TotalsExplainNet, RealisedExplainsTotals, Explained, Gap, Scale
<1>7. \A i \in DOMAIN rows : Explained(rows[i], n + 1)
  <2> SUFFICES ASSUME NEW i \in DOMAIN rows PROVE Explained(rows[i], n + 1)
    OBVIOUS
  <2>1. rows[i] \in Row /\ Explained(rows[i], n)
    BY <1>6
  <2>2. Drifts(rows[i], rows[i])
    BY <2>1, GapIsInt, DriftsWithin DEF Abs
  <2> QED
    BY <2>1, <2>2, StaysExplained
<1> DEFINE ids == OpenIds(rows, f.portfolio, f.security)
<1>8. ASSUME ids = {} PROVE \A i \in DOMAIN rows' : Explained(rows'[i], n + 1)
  <2>1. PICK r0 : r0 = NewRow(f)
    OBVIOUS
  <2>2. /\ r0 \in Row /\ r0.net = 0 /\ r0.bought = 0 /\ r0.sold = 0
        /\ r0.avg = 0 /\ r0.realized = 0 /\ r0.boughtValue = 0 /\ r0.soldValue = 0
    BY <1>2, <2>1 DEF NewRow, FillIn, RowIn
  <2>3. Explained(r0, n)
    <3>1. \A y \in Int : 0 * y = 0 /\ y * 0 = 0
      OBVIOUS
    <3>2. Gap(r0) = 0
      BY <2>2, <3>1, MoneyUnitAssumption DEF Gap
    <3>3. PICK t : t \in Nat /\ t = Scale(r0)
      BY <2>2, GapIsInt
    <3>4. n * t \in Nat
      BY <3>3, ProductIsNat
    <3> QED
      BY <3>2, <3>3, <3>4 DEF Explained, Abs
  <2>4. PICK r : r = Absorb(r0, f)
    OBVIOUS
  <2>5. ~Flips(r0, f)
    BY <2>2 DEF Flips, SameWay
  <2>6. r \in Row
    BY <1>2, <2>1, <2>2, <2>4, AbsorbMoves DEF NewRow
  <2>7. Explained(r, n + 1)
    BY <1>2, <2>2, <2>3, <2>4, <2>5, <2>6, AbsorbDrifts, StaysExplained
  <2>8. rows' = Append(rows, r)
    BY <1>4, <1>8, <2>1, <2>4 DEF ApplyFill
  <2>9. \A i \in DOMAIN rows' : (i \in DOMAIN rows /\ rows'[i] = rows[i]) \/ rows'[i] = r
    BY <1>3, <2>6, <2>8, AppendProperties
  <2> QED
    BY <1>7, <2>7, <2>9
<1>9. ASSUME ids # {} PROVE \A i \in DOMAIN rows' : Explained(rows'[i], n + 1)
  <2>1. PICK i \in ids : TRUE
    BY <1>9
  <2>2. i \in DOMAIN rows /\ IsOpenFor(rows[i], f.portfolio, f.security)
    BY <2>1 DEF OpenIds
  <2>3. \A j \in ids : j = i
    BY <1>3, <2>2 DEF OneOpenEach, OpenIds, IsOpenFor
  <2>4. Newest(ids) = i
    <3>1. i \in Int
      BY <1>3, <2>2
    <3>2. \A j \in ids : j <= i
      BY <2>3, <3>1
    <3> QED
      BY <2>1, <2>3, <3>2 DEF Newest
  <2>5. PICK row : row = rows[i]
    OBVIOUS
  <2>6. /\ row \in Row /\ row.net = row.bought - row.sold /\ Explained(row, n) /\ row.open
        /\ Loaded(rows, <<>>, i) = row
    BY <1>6, <2>2, <2>5, NothingHeld DEF IsOpenFor
  <2>7. CASE Flips(row, f)
    <3>1. PICK old, t : old = CloseLeg(row, f) /\ t = Residual(row, f)
      OBVIOUS
    <3>2. PICK r : r = Flush(row, row, old)
      OBVIOUS
    <3>3. old \in Row /\ t \in Row /\ old.net = 0 /\ row.net # 0
      BY <1>2, <2>6, <2>7, <3>1, FlipMoves DEF Flips, SameWay
    <3>4. r \in Row
      BY <2>6, <3>2, <3>3, FlushOpen
    <3>5. Explained(r, n + 1)
      <4>1. Drifts(row, old)
        BY <1>2, <2>6, <2>7, <3>1, CloseLegDrifts
      <4>2. Drifts(row, r)
        BY <3>2, <4>1, FlushFresh, SameNumbersDrift
      <4> QED
        BY <2>6, <3>4, <4>2, StaysExplained
    <3>6. Explained(t, n + 1)
      BY <1>2, <2>6, <2>7, <3>1, ResidualExplained
    <3>7. PICK mid : mid = [rows EXCEPT ![i] = r]
      OBVIOUS
    <3>8. rows' = Append(mid, t)
      BY <1>4, <1>9, <2>4, <2>5, <2>6, <2>7, <3>1, <3>2, <3>7 DEF ApplyFill
    <3>9. mid \in Seq(Row) /\ \A j \in DOMAIN mid : j \in DOMAIN rows /\ (mid[j] = rows[j] \/ mid[j] = r)
      BY <1>3, <2>2, <3>4, <3>7, ExceptSeq
    <3>10. \A j \in DOMAIN rows' : (j \in DOMAIN mid /\ rows'[j] = mid[j]) \/ rows'[j] = t
      BY <3>3, <3>8, <3>9, AppendProperties
    <3> QED
      BY <1>7, <3>5, <3>6, <3>9, <3>10
  <2>8. CASE ~Flips(row, f)
    <3>1. PICK moved : moved = Absorb(row, f)
      OBVIOUS
    <3>2. PICK r : r = Flush(row, row, moved)
      OBVIOUS
    <3>3. moved \in Row /\ moved.net # row.net
      <4>1. moved \in Row /\ moved.net = row.net + Signed(f.side, f.qty)
        BY <1>2, <2>6, <3>1, AbsorbMoves
      <4>2. Signed(f.side, f.qty) \in Int /\ Signed(f.side, f.qty) # 0
        BY <1>2 DEF FillIn, Signed
      <4>3. row.net \in Int
        BY <2>6 DEF RowIn
      <4> QED
        BY <4>1, <4>2, <4>3
    <3>4. r \in Row
      BY <2>6, <3>2, <3>3, FlushOpen
    <3>5. Explained(r, n + 1)
      <4>1. Drifts(row, moved)
        BY <1>2, <2>6, <2>8, <3>1, AbsorbDrifts
      <4>2. Drifts(row, r)
        BY <3>2, <4>1, FlushFresh, SameNumbersDrift
      <4> QED
        BY <2>6, <3>4, <4>2, StaysExplained
    <3>6. rows' = [rows EXCEPT ![i] = r]
      BY <1>4, <1>9, <2>4, <2>5, <2>6, <2>8, <3>1, <3>2 DEF ApplyFill
    <3>7. \A j \in DOMAIN rows' : j \in DOMAIN rows /\ (rows'[j] = rows[j] \/ rows'[j] = r)
      BY <1>3, <2>2, <3>4, <3>6, ExceptSeq
    <3> QED
      BY <1>7, <3>5, <3>7
  <2> QED
    BY <2>7, <2>8
<1> HIDE DEF ids
<1>10. \A i \in DOMAIN rows' : Explained(rows'[i], n + 1)
  BY <1>8, <1>9
<1> QED
  BY <1>5, <1>10 DEF RealisedExplainsTotals, Explained, Gap, Scale

-----------------------------------------------------------------------------
(***************************************************************************)
(* Whatever the prices, quantities and charges, and however long the round *)
(* trip: what a row has realised is the money it took out beyond the cost  *)
(* of what it holds, but for half a quantum of rounding per rounding       *)
(* (PositionService.apply_fill, _weighted_average, _money).                *)
(***************************************************************************)
THEOREM RealisedIsExplained == Spec => []RealisedExplainsTotals
<1>1. Init => RealisedExplainsTotals
  <2> SUFFICES ASSUME Init PROVE RealisedExplainsTotals
    OBVIOUS
  <2>1. DOMAIN rows = {}
    BY DEF Init
  <2> QED
    BY <2>1 DEF RealisedExplainsTotals
<1>2. IInv /\ RealisedExplainsTotals /\ [Next]_vars => RealisedExplainsTotals'
  <2>1. ASSUME IInv, RealisedExplainsTotals, Next PROVE RealisedExplainsTotals'
    BY <2>1, ExecuteExplains DEF Next
  <2>2. ASSUME RealisedExplainsTotals, UNCHANGED vars PROVE RealisedExplainsTotals'
    BY <2>2 DEF vars, RealisedExplainsTotals
  <2> QED
    BY <2>1, <2>2
<1> QED
  BY <1>1, <1>2, InitInv, NextInv, PTL DEF Spec
=============================================================================
