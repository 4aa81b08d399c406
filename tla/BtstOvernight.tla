--------------------------- MODULE BtstOvernight ---------------------------
(***************************************************************************)
(* The overnight strategy in the portfolios that run it, for one name: the *)
(* afternoon scan that buys, the morning exit that sells whatever is open,  *)
(* and the holdings table that says what is still to be sold.               *)
(*                                                                         *)
(* Both jobs are started by the scheduler's clock and by an operator, work  *)
(* through the portfolios one after the other, each in a transaction of its *)
(* own, and trade by MARKET orders that fill wholly, in part or not at all. *)
(* What a job read before its first write may be old when it writes; from   *)
(* that write to the commit it is alone. It keeps quantities it read, never *)
(* the positions row: every fill looks that up again.                       *)
(***************************************************************************)
EXTENDS Integers, Sequences, FiniteSets, FiniteSetsExt

CONSTANTS
    Portfolios,      \* the portfolios the strategy runs in, in the order of their ids
    Size,            \* the shares one slot affords
    MaxDay,          \* bound: trading days
    MaxHoldings,     \* bound: rows of btst_holdings
    MaxEvents        \* bound: requests, hand trades, switches, failures, restarts

ASSUME OvernightAssumption ==
    /\ Portfolios \subseteq Nat \ {0} /\ Portfolios # {}
    /\ Size \in Nat \ {0} /\ MaxDay \in Nat \ {0}

Actors == {"clock", "hand"}
Kinds == {"scan", "exit"}
Idle == [kind |-> "idle"]
Unread == [at |-> 0]

VARIABLES
    day, phase,      \* "early": from the exit's time on, "scan": the ten minutes
                     \*   of the scan, "late": after the close
    enabled, armed,  \* the strategy's switches
    position,        \* per portfolio, what the positions table holds of the name
    holdings,        \* btst_holdings, oldest first
    scanned,         \* the days with a SCAN record in the journal
    run,             \* per actor, the job in flight
    attempted,       \* the scheduler's memory: attempts of the phase, ...
    succeeded,       \*   and jobs done today
    own,             \* history: what the strategy bought and nobody sold
    crossed,         \* history: two writers met on what one of them had read
    events           \* how much of MaxEvents is used

clock == <<day, phase>>
switches == <<enabled, armed>>
book == <<position, holdings, own>>
memory == <<attempted, succeeded>>
vars == <<clock, switches, book, scanned, run, memory, crossed, events>>

Event == events < MaxEvents /\ events' = events + 1
Larger(a, b) == IF a > b THEN a ELSE b
Smaller(a, b) == IF a < b THEN a ELSE b

-----------------------------------------------------------------------------
(* The tables. *)

Open == {"PENDING", "FAILED"}
OpenOfUntried(p) == {i \in DOMAIN holdings : holdings[i].portfolio = p /\ holdings[i].status = "PENDING"}  \* mutant
OpenOf(p) == {i \in DOMAIN holdings : holdings[i].portfolio = p /\ holdings[i].status \in Open}
InOrder(ids) == SelectSeq([i \in DOMAIN holdings |-> i], LAMBDA i : i \in ids)

\* A transaction on p commits while another job is about to write from what it
\* read of p.
Crosses(p, actor) == crossed' = (crossed \/ \E a \in Actors \ {actor} :
                                     run[a] # Idle /\ run[a].read.at = p)

-----------------------------------------------------------------------------
(* Starting a job. *)

Start(actor, kind, force) ==
    run' = [run EXCEPT ![actor] = [kind |-> kind, left |-> Portfolios, read |-> Unread,
                                   still |-> 0, force |-> force]]

\* _may_attempt: not when done today, and every quarter of an hour; the scan's
\* window is shorter than that.
MayAttempt(kind) ==
    /\ kind \notin succeeded
    /\ phase = "early" \/ kind \notin attempted

Attempt(kind) == attempted' = IF phase = "scan" THEN attempted \cup {kind} ELSE attempted

\* The exit, from its time to the close.
StartExit ==
    /\ run["clock"] = Idle /\ enabled /\ phase # "late" /\ MayAttempt("exit")
    /\ Attempt("exit")
    /\ Start("clock", "exit", FALSE)
    /\ UNCHANGED <<clock, switches, book, scanned, succeeded, crossed, events>>

\* ran_on_day: any SCAN record of today, whoever wrote it.
RanToday == day \in scanned

\* The scan, in its ten minutes; already in the journal it is done.
StartScan ==
    /\ run["clock"] = Idle /\ enabled /\ phase = "scan" /\ MayAttempt("scan")
    /\ Attempt("scan")
    /\ IF RanToday
         THEN succeeded' = succeeded \cup {"scan"} /\ UNCHANGED run
         ELSE Start("clock", "scan", FALSE) /\ UNCHANGED succeeded
    /\ UNCHANGED <<clock, switches, book, scanned, crossed, events>>

\* The same jobs asked for by the operator.
Request ==
    /\ run["hand"] = Idle
    /\ Event
    /\ \E kind \in Kinds, force \in BOOLEAN : Start("hand", kind, force)
    /\ UNCHANGED <<clock, switches, book, scanned, memory, crossed>>

-----------------------------------------------------------------------------
(* One portfolio of a job: what it reads, then what it writes and commits.   *)

Doing(actor, kind) == run[actor] # Idle /\ run[actor].kind = kind

Read(actor) ==
    /\ run[actor] # Idle /\ run[actor].read = Unread /\ run[actor].left # {}
    /\ LET p == Min(run[actor].left)
       IN  run' = [run EXCEPT ![actor].read =
                      [at |-> p, held |-> position[p], rows |-> InOrder(OpenOf(p)),
                       status |-> [i \in OpenOf(p) |-> holdings[i].status],
                       recorded |-> day \in scanned, shut |-> phase = "late",
                       armed |-> armed]]
    /\ UNCHANGED <<clock, switches, book, scanned, memory, crossed, events>>

Handled(actor, still) ==
    run' = [run EXCEPT ![actor].left = @ \ {run[actor].read.at}, ![actor].read = Unread,
                       ![actor].still = @ + still]

\* Has this session been scanned? Asked of the strategy, not of the portfolio.
Recorded(job) == job.read.recorded /\ ~job.force

\* The scan's entry: a whole number of shares, none unless it is armed and the
\* name is not held already.
MayEnter(job) == job.read.armed /\ enabled /\ job.read.rows = <<>>

Entry(p, quantity) == [portfolio |-> p, entered |-> day, quantity |-> quantity,
                       status |-> "PENDING"]

Scan(actor) ==
    /\ Doing(actor, "scan") /\ run[actor].read # Unread
    /\ LET job == run[actor]
           p == job.read.at
       IN  \/ /\ ~job.read.shut /\ Recorded(job)
              /\ UNCHANGED <<book, scanned, crossed>>
           \/ /\ job.read.shut \/ ~Recorded(job)
              /\ scanned' = scanned \cup {day}
              /\ UNCHANGED book
              /\ Crosses(p, actor)
           \/ /\ ~job.read.shut /\ ~Recorded(job)
              /\ MayEnter(job) /\ Len(holdings) < MaxHoldings
              /\ \E quantity \in 1 .. Size :
                    /\ position' = [position EXCEPT ![p] = @ + quantity]
                    /\ holdings' = Append(holdings, Entry(p, quantity))
                    /\ own' = [own EXCEPT ![p] = @ + quantity]
              /\ scanned' = scanned \cup {day}
              /\ Crosses(p, actor)
    /\ Handled(actor, 0)
    /\ UNCHANGED <<clock, switches, memory, events>>

\* Never more than is held, never more than the row opened.
SellableRecorded(quantity, held) == quantity                   \* mutant
Sellable(quantity, held) == Smaller(quantity, Larger(held, 0))

\* What an exit makes of a row: gone, sold, or still to be sold.
SettledAnyhow(sellable, filled) == IF sellable = 0 THEN "NOT_HELD" ELSE "EXITED"  \* mutant
Settled(sellable, filled) ==
    IF sellable = 0 THEN "NOT_HELD" ELSE IF filled = sellable THEN "EXITED" ELSE "FAILED"

\* What row k of the loop may sell. The first is sized on what was read before
\* anything was written; the others on the table as it is by then, the rows
\* before them sold.
SoldBefore(sold, k) == FoldSet(LAMBDA j, sum : sum + sold[j], 0, 1 .. k - 1)
Held(job, sold, k) ==
    IF k = 1 THEN job.read.held ELSE position[job.read.at] - SoldBefore(sold, k)
Offered(job, sold, k) ==
    Sellable(holdings[job.read.rows[k]].quantity, Held(job, sold, k))

\* Unarmed, or with nothing open, the exit only writes its record.
ExitNothing(actor) ==
    /\ Doing(actor, "exit") /\ run[actor].read # Unread
    /\ ~run[actor].read.armed \/ run[actor].read.rows = <<>>
    /\ Handled(actor, Len(run[actor].read.rows))
    /\ UNCHANGED <<clock, switches, book, scanned, memory, crossed, events>>

\* The rows one after the other, sold[k] shares of row k. The status column is
\* written when it changes.
ExitRows(actor, sold) ==
    LET job == run[actor]
        p == job.read.at
        rows == job.read.rows
        after == [k \in DOMAIN rows |-> Settled(Offered(job, sold, k), sold[k])]
        total == SoldBefore(sold, Len(rows) + 1)
    IN  /\ \A k \in DOMAIN rows : sold[k] <= Offered(job, sold, k)
        /\ holdings' = [i \in DOMAIN holdings |->
               IF \E k \in DOMAIN rows : rows[k] = i /\ after[k] # job.read.status[i]
                 THEN [holdings[i] EXCEPT !.status = after[CHOOSE k \in DOMAIN rows : rows[k] = i]]
                 ELSE holdings[i]]
        /\ position' = [position EXCEPT ![p] = @ - total]
        /\ own' = [own EXCEPT ![p] = Larger(@ - total, 0)]
        /\ Handled(actor, Cardinality({k \in DOMAIN rows : after[k] = "FAILED"}))
        /\ Crosses(p, actor)

Exiting(actor, sold) ==
    /\ Doing(actor, "exit") /\ run[actor].read # Unread
    /\ run[actor].read.armed /\ run[actor].read.rows # <<>>
    /\ ExitRows(actor, sold)
    /\ UNCHANGED <<clock, switches, scanned, memory, events>>

Exit(actor) ==
    \/ ExitNothing(actor)
    \/ /\ Doing(actor, "exit") /\ run[actor].read # Unread
       /\ \E sold \in [DOMAIN run[actor].read.rows -> 0 .. Size] : Exiting(actor, sold)

\* The job is over. The clock's exit is done for today only when nothing it
\* found is still open.
DoneAlways(job) == TRUE                                        \* mutant
Done(job) == job.still = 0

Finish(actor) ==
    /\ run[actor] # Idle /\ run[actor].left = {}
    /\ succeeded' = IF actor = "clock" /\ Done(run[actor])
                      THEN succeeded \cup {run[actor].kind} ELSE succeeded
    /\ run' = [run EXCEPT ![actor] = Idle]
    /\ UNCHANGED <<clock, switches, book, scanned, attempted, crossed, events>>

-----------------------------------------------------------------------------
(* Everything else. *)

\* An exception: the portfolio's transaction is rolled back, the job over.
Fail ==
    /\ Event
    /\ \E actor \in Actors : run[actor] # Idle /\ run' = [run EXCEPT ![actor] = Idle]
    /\ UNCHANGED <<clock, switches, book, scanned, memory, crossed>>

Restart ==
    /\ Event
    /\ run' = [a \in Actors |-> Idle] /\ attempted' = {} /\ succeeded' = {}
    /\ UNCHANGED <<clock, switches, book, scanned, crossed>>

\* The position closed by hand, in part when the depth ends.
CloseByHand ==
    /\ Event
    /\ \E p \in Portfolios :
         /\ position[p] > 0
         /\ \E quantity \in 1 .. position[p] :
              /\ position' = [position EXCEPT ![p] = @ - quantity]
              /\ own' = [own EXCEPT ![p] = Smaller(@, position[p] - quantity)]
         /\ Crosses(p, "nobody")
    /\ UNCHANGED <<clock, switches, holdings, scanned, run, memory>>

\* The other strategy of this universe buys the name into the same row.
OtherBuys ==
    /\ Event
    /\ \E p \in Portfolios :
         /\ position' = [position EXCEPT ![p] = @ + 1]
         /\ Crosses(p, "nobody")
    /\ UNCHANGED <<clock, switches, holdings, own, scanned, run, memory>>

Switch ==
    /\ Event
    /\ \/ enabled' = ~enabled /\ UNCHANGED armed
       \/ armed' = ~armed /\ UNCHANGED enabled
    /\ UNCHANGED <<clock, book, scanned, run, memory, crossed>>

\* Jobs take seconds, nights are long. The last day never ends.
TimePasses ==
    /\ day < MaxDay
    /\ \/ phase = "early" /\ phase' = "scan" /\ UNCHANGED <<day, memory>>
       \/ phase = "scan" /\ phase' = "late" /\ UNCHANGED <<day, memory>>
       \/ /\ phase = "late" /\ \A a \in Actors : run[a] = Idle
          /\ phase' = "early" /\ day' = day + 1 /\ attempted' = {} /\ succeeded' = {}
    /\ UNCHANGED <<switches, book, scanned, run, crossed, events>>

Init ==
    /\ day = 1 /\ phase = "early" /\ enabled = TRUE /\ armed = TRUE
    /\ position = [p \in Portfolios |-> 0]
    /\ holdings = <<>> /\ scanned = {} /\ run = [a \in Actors |-> Idle]
    /\ attempted = {} /\ succeeded = {}
    /\ own = [p \in Portfolios |-> 0] /\ crossed = FALSE /\ events = 0

Work(actor) == Read(actor) \/ Scan(actor) \/ Exit(actor) \/ Finish(actor)

Next ==
    \/ StartExit \/ StartScan \/ Request
    \/ \E actor \in Actors : Work(actor)
    \/ Fail \/ Restart \/ CloseByHand \/ OtherBuys \/ Switch \/ TimePasses

SoldOut ==
    /\ Doing("clock", "exit") /\ run["clock"].read # Unread
    /\ \E sold \in [DOMAIN run["clock"].read.rows -> 0 .. Size] :
         /\ \A k \in DOMAIN sold : sold[k] = Offered(run["clock"], sold, k)
         /\ Exiting("clock", sold)

\* Something is always done while there is something to do, and depth comes
\* back: an exit that runs again and again is filled at last.
Fairness ==
    WF_vars(StartExit \/ TimePasses \/ \E actor \in Actors : Work(actor)) /\ SF_vars(SoldOut)

Spec == Init /\ [][Next]_vars /\ Fairness

-----------------------------------------------------------------------------
(* Properties. *)

\* Shares the strategy bought and nobody sold are on an open holding, through
\* partial fills, refusals, failed jobs and restarts: the next exit finds them.
NoShareForgotten ==
    crossed \/ \A p \in Portfolios :
        own[p] <= FoldSet(LAMBDA i, sum : sum + holdings[i].quantity, 0, OpenOf(p))

\* The strategy never sells to open, whatever was sold by hand or by an earlier
\* exit, unless two writers met.
NeverSoldShort == crossed \/ \A p \in Portfolios : position[p] >= 0

\* When the scheduler takes the exit for done today, nothing bought on an earlier
\* day is open.
DoneMeansFlat ==
    "exit" \in succeeded /\ ~crossed =>
        \A i \in DOMAIN holdings : holdings[i].status \in Open => holdings[i].entered = day

\* What is held past its night is sold, or gone, while the strategy stays
\* enabled and armed.
HeldLate == \E i \in DOMAIN holdings : holdings[i].status \in Open /\ holdings[i].entered < day
ExitComesBack == HeldLate ~> (~HeldLate \/ ~enabled \/ ~armed \/ crossed)

\* "Every one sells at the next open": the clock's exit sells nothing that was
\* bought the same day.
HeldOvernight ==
    [][\A i \in DOMAIN holdings :
         holdings[i].status \in Open /\ holdings'[i].status = "EXITED"
             /\ UNCHANGED run["hand"]
           => holdings[i].entered < day]_vars
=============================================================================
