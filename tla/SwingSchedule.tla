--------------------------- MODULE SwingSchedule ---------------------------
(***************************************************************************)
(* The clock of the swing rotation: the background task that starts the    *)
(* morning rebalance and the evening nightly of one automated strategy,    *)
(* the refresh of the daily bars, the append-only journal that makes a run *)
(* idempotent per session, the missed-run detector, the operator's manual  *)
(* runs and schedule setting, and restarts of the process.                 *)
(*                                                                         *)
(* A day is cut into slots no shorter than RETRY_AFTER, so that one more   *)
(* attempt of a failed job is due in each slot; the clock leaves a slot    *)
(* only when the task, which looks every thirty seconds, has nothing due.  *)
(***************************************************************************)
EXTENDS Naturals, Sequences, FiniteSets, Functions

CONSTANTS
    Portfolios,      \* the portfolios that run the strategy, in the query's order
    LastDay,         \* bound: the last trading weekday
    Sessions,        \* the weekdays on which the exchange does trade
    DefaultNightly,  \* the slot the strategy file sets the nightly to
    NightlyTimes,    \* the slots the operator may move it to
    MaxStaleness,    \* swing.max_staleness_days: older bars are not traded on
    Lookback,        \* swing.missed_run_lookback_sessions
    MaxDisturbances  \* bound: restarts, manual runs, switches, runs that raise

\* The slots of a day: the night before, the warm-up, the open, the rest of
\* the session, the hours after the close, and two of the evening.
Early == 0   WarmUp == 1   Open == 2   Session == 3   Closed == 4
Evening == 5   Late == 6
Slots == Early .. Late
InSession == Open .. Session

ASSUME ScheduleAssumption ==
    /\ Portfolios \in Seq(Range(Portfolios)) /\ Portfolios # <<>>
    /\ LastDay \in Nat /\ MaxStaleness \in Nat /\ Lookback \in Nat
    /\ 1 \in Sessions /\ Sessions \subseteq 1 .. LastDay
    /\ DefaultNightly \in NightlyTimes /\ NightlyTimes \subseteq Slots \ InSession

Kinds == {"NIGHTLY", "REBALANCE"}
Actors == {"scheduler", "manual"}
Idle == [pc |-> "idle"]

VARIABLES
    day, slot,       \* the IST clock
    up,              \* the process is running
    enabled,         \* the strategy's switch
    nightlyAt,       \* the schedule setting in force
    bars,            \* daily_bars: the index's newest session, the universe's
    journal,         \* swing_sessions
    attempted,       \* the scheduler's memory: kind -> slot of today's attempt
    done,            \*   kinds that succeeded today
    warmed,          \*   the book was warmed today
    missed,          \*   the runs reported missed
    checkedOn,       \*   the day of the last check for missed runs
    runs,            \* the run each actor has in flight
    raced,           \* history: <<portfolio, kind, session>> decided by two runs at once
    halfDays,        \* history: sessions first stored while the exchange traded
    disturbances     \* how much of that bound is used

clock == <<day, slot>>
memory == <<attempted, done, warmed, missed, checkedOn>>
vars == <<clock, up, enabled, nightlyAt, bars, journal, memory, runs, raced, halfDays, disturbances>>

Never == 99      \* no attempt today

Disturb ==
    disturbances < MaxDisturbances /\ disturbances' = disturbances + 1

-----------------------------------------------------------------------------
(* The journal. *)

Finished(r) == r.status \in {"COMPLETED", "SKIPPED"}

\* Mutant: the record is looked for by the day it was written.
DecidedByDay(kind, session) ==
    \E i \in DOMAIN journal :
        journal[i].kind = kind /\ journal[i].day = session /\ Finished(journal[i])

\* sessions_completed_on: asked per strategy, session and kind.
Decided(kind, session) ==
    \E i \in DOMAIN journal :
        journal[i].kind = kind /\ journal[i].session = session /\ Finished(journal[i])

\* Mutant: the kind of the run is not asked.
RanOnDayAnyKind(kind, d) == \E i \in DOMAIN journal : journal[i].day = d

\* ran_on_day: keyed on when the job ran, whatever its status.
RanOnDay(kind, d) == \E i \in DOMAIN journal : journal[i].kind = kind /\ journal[i].day = d

\* record_session, record_skipped. (by: history, who ran it.)
Record(actor, portfolio, session, status) ==
    journal' = Append(journal, [kind |-> runs[actor].kind, portfolio |-> portfolio,
                                session |-> session, day |-> day, status |-> status,
                                by |-> actor])

CompletedSessions ==
    {journal[i].session : i \in {j \in DOMAIN journal : journal[j].status = "COMPLETED"}}

\* first_completed_session: the boundary of the missed-run detector.
Accountable(session) == \E s \in CompletedSessions : s <= session

\* Mutant: the newest session counts as due.
ExpectedWithNewest ==
    {s \in Sessions : s <= bars.index
                      /\ Cardinality({t \in Sessions : s <= t /\ t < bars.index}) <= Lookback}

\* The calendar is the index's own bar dates without the newest one.
Expected ==
    {s \in Sessions : s < bars.index
                      /\ Cardinality({t \in Sessions : s <= t /\ t < bars.index}) <= Lookback}

MissedNow ==
    {m \in Kinds \X Expected : Accountable(m[2]) /\ ~Decided(m[1], m[2])}

Stale(session) == day > session + MaxStaleness

-----------------------------------------------------------------------------
(* The scheduler task. *)

MayAttempt(kind) ==
    kind \notin done /\ (attempted[kind] = Never \/ attempted[kind] < slot)

\* Mutant: no upper bound, any restart later in the day rebalances.
RebalanceDueUnbounded == slot >= Open /\ MayAttempt("REBALANCE")

RebalanceDue == slot \in InSession /\ MayAttempt("REBALANCE")
NightlyDue == slot >= nightlyAt /\ MayAttempt("NIGHTLY")
WarmDue == slot = WarmUp /\ ~warmed
JobDue == enabled /\ (RebalanceDue \/ NightlyDue \/ WarmDue)
CheckDue == checkedOn < day

Free == up /\ runs["scheduler"] = Idle

Begin(actor, run) == runs' = [runs EXCEPT ![actor] = run]

\* The book is warmed once a day; a failure is not fatal.
Warm ==
    /\ Free /\ enabled /\ WarmDue
    /\ warmed' = TRUE
    /\ UNCHANGED <<clock, up, enabled, nightlyAt, bars, journal, attempted, done,
                   missed, checkedOn, runs, raced, halfDays, disturbances>>

StartRebalance ==
    /\ Free /\ enabled /\ ~WarmDue /\ RebalanceDue
    /\ attempted' = [attempted EXCEPT !["REBALANCE"] = slot]
    /\ Begin("scheduler", [pc |-> "check", kind |-> "REBALANCE", todo |-> Portfolios,
                           refreshed |-> FALSE, session |-> 0])
    /\ UNCHANGED <<clock, up, enabled, nightlyAt, bars, journal, done, warmed,
                   missed, checkedOn, raced, halfDays, disturbances>>

\* Already run today, by the journal: done, and the bars are not pulled again.
StartNightly ==
    /\ Free /\ enabled /\ ~WarmDue /\ ~RebalanceDue /\ NightlyDue
    /\ attempted' = [attempted EXCEPT !["NIGHTLY"] = slot]
    /\ IF RanOnDay("NIGHTLY", day)
         THEN done' = done \cup {"NIGHTLY"} /\ UNCHANGED runs
         ELSE /\ Begin("scheduler", [pc |-> "refresh", kind |-> "NIGHTLY",
                                     todo |-> Portfolios, refreshed |-> FALSE, session |-> 0])
              /\ UNCHANGED done
    /\ UNCHANGED <<clock, up, enabled, nightlyAt, bars, journal, warmed, missed,
                   checkedOn, raced, halfDays, disturbances>>

\* The newest session the vendor serves; while the exchange trades it is
\* today's, half-finished.
Published ==
    CHOOSE s \in Sessions :
        /\ s < day \/ (s = day /\ slot >= Open)
        /\ \A t \in Sessions : t > s => t > day \/ (t = day /\ slot < Open)

\* A symbol whose stored bar is of today is "already current" and not fetched:
\* a half-finished bar stays.
StoresHalfDay(index) ==
    index /\ Published = day /\ bars.index # day /\ slot \in InSession

\* The refresh commits symbol by symbol, the index last. It may fetch the index
\* or not, and the rest of the universe or not; a failure within the tolerated
\* fraction, the index's own included, still counts as refreshed.
Refresh ==
    /\ up /\ runs["scheduler"].pc = "refresh"
    /\ \E index, universe \in BOOLEAN :
         /\ bars' = [index |-> IF index THEN Published ELSE bars.index,
                     universe |-> IF universe THEN Published ELSE bars.universe]
         /\ halfDays' = IF StoresHalfDay(index) THEN halfDays \cup {day} ELSE halfDays
         /\ Begin("scheduler", [runs["scheduler"] EXCEPT !.pc = "check", !.refreshed = universe])
    /\ UNCHANGED <<clock, up, enabled, nightlyAt, journal, memory, raced, disturbances>>

\* The one failure that is not turned into a result: it ends the nightly.
RefreshBreaks ==
    /\ up /\ runs["scheduler"].pc = "refresh"
    /\ Disturb
    /\ Begin("scheduler", Idle)
    /\ UNCHANGED <<clock, up, enabled, nightlyAt, bars, journal, memory, raced, halfDays>>

-----------------------------------------------------------------------------
(* One run over the portfolios, by the scheduler or by hand. *)

Deciding(portfolio, kind, session) ==
    \E a \in Actors : /\ runs[a].pc = "decide" /\ Head(runs[a].todo) = portfolio
                      /\ runs[a].kind = kind /\ runs[a].session = session

NextPortfolio(actor) ==
    Begin(actor, [runs[actor] EXCEPT !.pc = "check", !.todo = Tail(runs[actor].todo)])

\* A run that found no index bar at all records the day it ran on, in UTC:
\* until 5:30 in the morning that is the day before.
SkippedSessions == IF slot = Early THEN {day - 1, day} ELSE {day}

\* What run_rebalance and run_nightly look at before they decide: no index bar
\* at all, bars too old to trade on, a session that is already recorded.
CheckSession(actor) ==
    LET run == runs[actor] IN
    /\ up /\ run.pc = "check" /\ run.todo # <<>>
    /\ LET p == Head(run.todo) IN
         \/ /\ run.kind = "REBALANCE" /\ ~enabled
            /\ Begin(actor, Idle) /\ UNCHANGED <<journal, raced>>
         \/ /\ run.kind = "REBALANCE" => enabled
            /\ \/ /\ bars.index = 0
                  /\ \E s \in SkippedSessions : Record(actor, p, s, "SKIPPED")
                  /\ NextPortfolio(actor) /\ UNCHANGED raced
               \/ /\ bars.index # 0 /\ run.kind = "REBALANCE" /\ Stale(bars.index)
                  /\ Record(actor, p, bars.index, "SKIPPED")
                  /\ NextPortfolio(actor) /\ UNCHANGED raced
               \/ /\ bars.index # 0
                  /\ run.kind = "REBALANCE" => ~Stale(bars.index)
                  /\ IF Decided(run.kind, bars.index)
                       THEN NextPortfolio(actor) /\ UNCHANGED raced
                       ELSE /\ Begin(actor, [run EXCEPT !.pc = "decide", !.session = bars.index])
                            /\ raced' = IF Deciding(p, run.kind, bars.index)
                                          THEN raced \cup {<<p, run.kind, bars.index>>}
                                          ELSE raced
                  /\ UNCHANGED journal
    /\ UNCHANGED <<clock, up, enabled, nightlyAt, bars, memory, halfDays, disturbances>>

\* The orders (rebalance) or the ratchet (nightly) and then the record: the
\* session is written by the run that decided it.
DecideSession(actor) ==
    LET run == runs[actor] IN
    /\ up /\ run.pc = "decide"
    /\ Record(actor, Head(run.todo), run.session, "COMPLETED")
    /\ NextPortfolio(actor)
    /\ UNCHANGED <<clock, up, enabled, nightlyAt, bars, memory, raced, halfDays, disturbances>>

\* The rebalance is never marked done: the journal makes its retries harmless.
FinishRun(actor) ==
    LET run == runs[actor] IN
    /\ up /\ run.pc = "check" /\ run.todo = <<>>
    /\ Begin(actor, Idle)
    /\ done' = IF actor = "scheduler" /\ run.kind = "NIGHTLY" /\ run.refreshed
                 THEN done \cup {"NIGHTLY"} ELSE done
    /\ UNCHANGED <<clock, up, enabled, nightlyAt, bars, journal, attempted, warmed,
                   missed, checkedOn, raced, halfDays, disturbances>>

\* A run that raises: earlier portfolios keep their records, later ones wait.
RunRaises(actor) ==
    /\ up /\ runs[actor].pc = "decide"
    /\ Disturb
    /\ Begin(actor, Idle)
    /\ UNCHANGED <<clock, up, enabled, nightlyAt, bars, journal, memory, raced, halfDays>>

\* "Run now" on the page, unforced: no window and no refresh of the bars.
ManualRun(kind, p) ==
    /\ up /\ runs["manual"] = Idle /\ Disturb
    /\ Begin("manual", [pc |-> "check", kind |-> kind, todo |-> <<p>>,
                        refreshed |-> FALSE, session |-> 0])
    /\ UNCHANGED <<clock, up, enabled, nightlyAt, bars, journal, memory, raced, halfDays>>

\* Once a day, after the jobs of the pass, and at start-up.
DetectMissed ==
    /\ Free /\ CheckDue /\ ~JobDue
    /\ missed' = MissedNow
    /\ checkedOn' = day
    /\ UNCHANGED <<clock, up, enabled, nightlyAt, bars, journal, attempted, done,
                   warmed, runs, raced, halfDays, disturbances>>

-----------------------------------------------------------------------------
(* The operator, the clock and the process. *)

SetEnabled ==
    /\ up /\ Disturb
    /\ enabled' = ~enabled
    /\ UNCHANGED <<clock, up, nightlyAt, bars, journal, memory, runs, raced, halfDays>>

\* validate refuses a nightly inside the session; it applies at the next pass.
SetSchedule(at) ==
    /\ up /\ Disturb
    /\ at # nightlyAt /\ at \notin InSession
    /\ nightlyAt' = at
    /\ UNCHANGED <<clock, up, enabled, bars, journal, memory, runs, raced, halfDays>>

TimePasses ==
    /\ \A a \in Actors : runs[a] = Idle
    /\ up => ~JobDue /\ ~CheckDue
    /\ IF slot < Late
         THEN slot' = slot + 1 /\ UNCHANGED <<day, attempted, done, warmed>>
         ELSE /\ day < LastDay /\ day' = day + 1 /\ slot' = Early
              /\ attempted' = [kind \in Kinds |-> Never]
              /\ done' = {} /\ warmed' = FALSE
    /\ UNCHANGED <<up, enabled, nightlyAt, bars, journal, missed, checkedOn, runs,
                   raced, halfDays, disturbances>>

\* The memory is the process's own; what was committed stays.
Stop ==
    /\ up /\ Disturb
    /\ up' = FALSE
    /\ runs' = [a \in Actors |-> Idle]
    /\ attempted' = [kind \in Kinds |-> Never]
    /\ done' = {} /\ warmed' = FALSE /\ missed' = {} /\ checkedOn' = 0
    /\ UNCHANGED <<clock, enabled, nightlyAt, bars, journal, raced, halfDays>>

\* start: the missed runs are looked for at once, before the first job.
Start ==
    /\ ~up
    /\ up' = TRUE
    /\ missed' = MissedNow
    /\ checkedOn' = day
    /\ UNCHANGED <<clock, enabled, nightlyAt, bars, journal, attempted, done, warmed,
                   runs, raced, halfDays, disturbances>>

Init ==
    /\ day = 2 /\ slot = Early
    /\ up = TRUE /\ enabled = TRUE
    /\ nightlyAt = DefaultNightly
    /\ \E newest \in 0 .. 1 : bars = [index |-> newest, universe |-> newest]
    /\ journal = <<>>
    /\ attempted = [kind \in Kinds |-> Never] /\ done = {} /\ warmed = FALSE
    /\ missed = {} /\ checkedOn = 0
    /\ runs = [a \in Actors |-> Idle]
    /\ raced = {} /\ halfDays = {}
    /\ disturbances = 0

Next ==
    \/ Warm \/ StartRebalance \/ StartNightly \/ Refresh \/ RefreshBreaks
    \/ \E a \in Actors : CheckSession(a) \/ DecideSession(a) \/ FinishRun(a) \/ RunRaises(a)
    \/ \E kind \in Kinds, p \in Range(Portfolios) : ManualRun(kind, p)
    \/ DetectMissed
    \/ SetEnabled \/ (\E at \in NightlyTimes : SetSchedule(at))
    \/ TimePasses \/ Stop \/ Start

Spec == Init /\ [][Next]_vars

-----------------------------------------------------------------------------
(* Properties. *)

Completions(portfolio, kind, session) ==
    Cardinality({i \in DOMAIN journal :
        journal[i].portfolio = portfolio /\ journal[i].kind = kind
        /\ journal[i].session = session /\ journal[i].status = "COMPLETED"})

\* A portfolio's session is decided (nightly) and traded (rebalance) once,
\* through every retry, restart and manual run, unless two runs were deciding
\* it for the portfolio at once: the journal is asked before the decision and
\* written after it.
DecidedOnce ==
    \A p \in Range(Portfolios), kind \in Kinds, s \in Sessions :
        Completions(p, kind, s) > 1 => <<p, kind, s>> \in raced

\* The rebalance trades on the signals of a session that is over: an evening
\* restart does not use up the record the next morning's rebalance needs. (A
\* rebalance run by hand in the evening does, and so does one that follows a
\* nightly due before the open that ran late, inside the session.)
RebalanceWaitsForNextDay ==
    \A i \in DOMAIN journal :
        /\ journal[i].kind = "REBALANCE" /\ journal[i].status = "COMPLETED"
        /\ journal[i].by = "scheduler"
        => journal[i].day > journal[i].session \/ journal[i].session \in halfDays

\* The nightly is marked done for the day only when the newest stored session
\* has its record: nothing is left undecided behind a "done". (A nightly run by
\* hand on an older session earlier that day does stop the evening's.)
DoneMeansDecided ==
    "NIGHTLY" \in done /\ bars.index # 0 =>
        \/ Decided("NIGHTLY", bars.index)
        \/ \E i \in DOMAIN journal :
             /\ journal[i].kind = "NIGHTLY" /\ journal[i].by = "manual"
             /\ journal[i].day = day

\* What was reported missed is never decided afterwards: the report is about
\* runs that can no longer happen, not about runs that are late. (A run by hand
\* that had passed its check before the bars moved on is still to write.)
MissedStaysMissed ==
    [][\A m \in missed :
         Decided(m[1], m[2])' =>
           \/ Decided(m[1], m[2])
           \/ /\ runs["manual"].pc = "decide"
              /\ runs["manual"].kind = m[1] /\ runs["manual"].session = m[2]]_vars

\* "Done for today -- but ONLY if the bars actually came down": the documented
\* meaning of done. A refresh that fetched the index and failed for too much of
\* the universe has its session recorded, and the next attempt stops at that
\* record.
DoneMeansCurrent ==
    "NIGHTLY" \in done => bars.universe >= bars.index

\* "Each gets its own decision record and its own orders": when the scheduler
\* has gone through its portfolios, each has a record of the session. It is
\* not so: the journal is asked by strategy, and the first portfolio's record
\* passes for the others' (_portfolios, sessions_completed_on).
EachHasItsOwnRecord ==
    /\ runs["scheduler"].pc = "check" /\ runs["scheduler"].todo = <<>>
    /\ bars.index # 0
    => \A p \in Range(Portfolios) : \E i \in DOMAIN journal :
         /\ journal[i].portfolio = p /\ journal[i].kind = runs["scheduler"].kind
         /\ journal[i].session = bars.index
=============================================================================
