------------------------- MODULE SwingScheduleProofs -------------------------
(***************************************************************************)
(* The swing scheduler, for any portfolios, calendar, schedule, staleness  *)
(* limit and number of restarts and manual runs: a session is decided      *)
(* once, the rebalance trades on finished sessions, "done" means decided,  *)
(* and what was reported missed stays missed.                              *)
(***************************************************************************)
EXTENDS SwingSchedule, FiniteSetTheorems, SequenceTheorems, WellFoundedInduction, TLAPS

Entry == [kind : Kinds, portfolio : Range(Portfolios), session : Nat, day : Nat,
          status : {"COMPLETED", "SKIPPED"}, by : Actors]

Run == [pc : {"refresh", "check", "decide"}, kind : Kinds, todo : Seq(Range(Portfolios)),
        refreshed : BOOLEAN, session : Nat]

\* The runs in flight, kept apart: most steps touch nothing else of it.
RunsTyped == runs \in [Actors -> Run \cup {Idle}]

TypeOK ==
  /\ day \in Nat \ {0, 1} /\ slot \in Slots /\ up \in BOOLEAN /\ enabled \in BOOLEAN
  /\ nightlyAt \in NightlyTimes
  /\ bars \in [index : Nat, universe : Nat]
  /\ journal \in Seq(Entry)
  /\ done \subseteq Kinds /\ missed \subseteq Kinds \X Nat
  /\ RunsTyped
  /\ halfDays \subseteq Nat

\* A session the vendor serves at this hour.
Served(s) == s \in Sessions /\ (s < day \/ (s = day /\ slot >= Open))

\* The stored index never runs ahead of the vendor, and a bar of today inside
\* the session is half a day's.
BarsServed ==
  /\ bars.index # 0 => Served(bars.index)
  /\ bars.index = day /\ slot \in InSession => day \in halfDays

Running(kind) == runs["scheduler"].pc # "idle" /\ runs["scheduler"].kind = kind

\* The scheduler's own run: a rebalance is inside the session, a refresh comes
\* before the first portfolio, and what is being decided is the newest stored
\* session, for only the scheduler's own refresh moves that.
RunSound ==
  /\ Running("REBALANCE") => slot \in InSession
  /\ runs["scheduler"].pc = "refresh" =>
       runs["scheduler"].kind = "NIGHTLY" /\ runs["scheduler"].todo = Portfolios
  /\ runs["scheduler"].pc = "decide" =>
       runs["scheduler"].session = bars.index /\ bars.index # 0

\* A run decides for a portfolio that is still to do.
DecidesForOne ==
  \A a \in Actors : runs[a].pc = "decide" => runs[a].todo # <<>>

JournalDays == \A i \in DOMAIN journal : journal[i].day <= day

IndexDecided == bars.index = 0 \/ Decided("NIGHTLY", bars.index)

\* Past its first portfolio, a nightly has found or written the session's
\* record; so has a nightly of today that left one, and no other refreshes.
NightlySound ==
  /\ Running("NIGHTLY") /\ runs["scheduler"].pc = "check"
     /\ Len(runs["scheduler"].todo) < Len(Portfolios) => IndexDecided
  /\ \A i \in DOMAIN journal :
       journal[i].kind = "NIGHTLY" /\ journal[i].by = "scheduler" /\ journal[i].day = day
         => IndexDecided /\ runs["scheduler"].pc # "refresh"
  /\ "NIGHTLY" \in done => ~Running("NIGHTLY")

MissedPast == \A m \in missed : m[2] < bars.index

Completed(i, p, kind, session) ==
  journal[i].portfolio = p /\ journal[i].kind = kind /\ journal[i].session = session /\ journal[i].status = "COMPLETED"

DecidingAt(a, p, kind, session) ==
  /\ runs[a].pc = "decide" /\ Head(runs[a].todo) = p
  /\ runs[a].kind = kind /\ runs[a].session = session

\* Who decides the session for a portfolio finds no completed record of it, is
\* alone, and no two completed records are of it ...
DecidedAlone(p, kind, s) ==
  /\ \A a \in Actors, i \in DOMAIN journal :
       DecidingAt(a, p, kind, s) => ~Completed(i, p, kind, s)
  /\ \A a, b \in Actors :
       DecidingAt(a, p, kind, s) /\ DecidingAt(b, p, kind, s) => a = b
  /\ \A i, j \in DOMAIN journal :
       Completed(i, p, kind, s) /\ Completed(j, p, kind, s) => i = j

\* ... unless two runs raced for it.
OnceSound ==
  \A p \in Range(Portfolios), kind \in Kinds, s \in Nat :
    <<p, kind, s>> \in raced \/ DecidedAlone(p, kind, s)

IInv ==
  /\ TypeOK /\ BarsServed /\ RunSound /\ JournalDays /\ NightlySound
  /\ MissedPast /\ OnceSound /\ DecidesForOne
  /\ RebalanceWaitsForNextDay /\ DoneMeansDecided

-----------------------------------------------------------------------------
(* Runs in flight.                                                         *)

(* An actor has a run in flight or none.                                   *)
LEMMA InFlight ==
  ASSUME RunsTyped, NEW a \in Actors
  PROVE  /\ runs[a] \in Run \cup {Idle}
         /\ runs[a].pc # "idle" => runs[a] \in Run
         /\ Idle.pc = "idle"
  BY DEF RunsTyped, Idle

(* Beginning, advancing or ending one run leaves the other actor's.        *)
LEMMA BeginIs ==
  ASSUME RunsTyped, NEW a \in Actors, NEW r \in Run \cup {Idle}, Begin(a, r)
  PROVE  /\ RunsTyped' /\ runs'[a] = r
         /\ \A b \in Actors : b # a => runs'[b] = runs[b]
  BY DEF RunsTyped, Begin

(* The next portfolio's turn.                                              *)
LEMMA NextPortfolioIs ==
  ASSUME RunsTyped, NEW a \in Actors, runs[a] \in Run, runs[a].todo # <<>>, NextPortfolio(a)
  PROVE  /\ RunsTyped'
         /\ runs'[a].pc = "check" /\ runs'[a].kind = runs[a].kind
         /\ runs'[a].todo = Tail(runs[a].todo)
         /\ \A b \in Actors : b # a => runs'[b] = runs[b]
<1> DEFINE r == [runs[a] EXCEPT !.pc = "check", !.todo = Tail(runs[a].todo)]
<1>1. runs[a].todo \in Seq(Range(Portfolios))
  BY DEF Run
<1>2. Tail(runs[a].todo) \in Seq(Range(Portfolios))
  BY <1>1, HeadTailProperties
<1>3. r \in Run
  BY <1>2 DEF Run
<1>4. r.pc = "check" /\ r.kind = runs[a].kind /\ r.todo = Tail(runs[a].todo)
  BY DEF Run
<1>5. Begin(a, r)
  BY DEF NextPortfolio
<1> HIDE DEF r
<1> QED
  BY <1>3, <1>4, <1>5, BeginIs

-----------------------------------------------------------------------------
(* The bars and the clock.                                                 *)

(* A nonempty set of naturals has a least element.                         *)
LEMMA LeastExists ==
  ASSUME NEW T, T \subseteq Nat, T # {}
  PROVE  \E x \in T : \A y \in T : x <= y
<1> DEFINE R == OpToRel(<, Nat)
<1>1. IsWellFoundedOn(R, Nat)
  BY NatLessThanWellFounded
<1>2. R = {ss \in Nat \X Nat : ss[1] < ss[2]}
  BY DEF OpToRel
<1> HIDE DEF R
<1>3. PICK x \in T : \A y \in T : ~ (<<y, x>> \in R)
  BY <1>1, WFMin
<1>4. ASSUME NEW y \in T PROVE x <= y
  <2>1. ~ (<<y, x>> \in R) /\ x \in Nat /\ y \in Nat
    BY <1>3
  <2> QED
    BY <2>1, <1>2
<1> QED
  BY <1>4

(* The vendor serves some session, and none later.                         *)
LEMMA PublishedIs ==
  ASSUME day \in Nat \ {0, 1}, slot \in Slots
  PROVE  /\ Served(Published) /\ Published \in Nat
         /\ \A t \in Sessions : Served(t) => t <= Published
<1>1. /\ LastDay \in Nat /\ 1 \in Sessions
      /\ \A s \in Sessions : s \in Nat /\ s <= LastDay
  BY ScheduleAssumption
<1> DEFINE T == {n \in Nat : \E s \in Sessions : Served(s) /\ n = LastDay - s}
<1>2. T \subseteq Nat /\ T # {}
  <2>1. Served(1)
    BY <1>1 DEF Served
  <2>2. LastDay - 1 \in Nat
    BY <1>1
  <2>3. LastDay - 1 \in T
    BY <1>1, <2>1, <2>2
  <2> QED
    BY <2>3
<1>3. PICK m \in T : \A n \in T : m <= n
  BY <1>2, LeastExists
<1>4. PICK p \in Sessions : Served(p) /\ m = LastDay - p
  BY <1>3
<1>5. ASSUME NEW t \in Sessions, Served(t) PROVE t <= p
  <2>1. LastDay - t \in T
    BY <1>1, <1>5
  <2>2. m <= LastDay - t
    BY <1>3, <2>1
  <2> QED
    BY <1>1, <1>4, <2>2
<1> HIDE DEF T
<1> DEFINE Newest(s) ==
      /\ s < day \/ (s = day /\ slot >= Open)
      /\ \A t \in Sessions : t > s => t > day \/ (t = day /\ slot < Open)
<1>6. Newest(p)
  <2>1. ASSUME NEW t \in Sessions, t > p PROVE t > day \/ (t = day /\ slot < Open)
    BY <1>1, <1>4, <1>5, <2>1 DEF Served, Slots, Early, Late, Open
  <2> QED
    BY <1>4, <2>1 DEF Served
<1>7. Published \in Sessions /\ Newest(Published)
  BY <1>6 DEF Published
<1>8. ASSUME NEW t \in Sessions, Served(t) PROVE t <= Published
  BY <1>1, <1>7, <1>8 DEF Served, Slots, Early, Late, Open
<1> QED
  BY <1>1, <1>7, <1>8 DEF Served

-----------------------------------------------------------------------------
(* Steps that write no record.                                             *)

(* What is reported missed lies before the newest stored session.          *)
LEMMA MissedNowPast ==
  ASSUME bars.index \in Nat
  PROVE  /\ MissedNow \subseteq Kinds \X Nat
         /\ \A m \in MissedNow : m[2] < bars.index
<1>1. \A s \in Expected : s \in Nat /\ s < bars.index
  BY ScheduleAssumption DEF Expected
<1>2. \A m \in MissedNow : m \in Kinds \X Expected
  BY DEF MissedNow
<1> QED
  BY <1>1, <1>2

\* Everything the invariant speaks of besides the runs.
World == <<day, slot, bars, journal, raced, halfDays, missed>>

(* A record once written is found by whoever asks.                         *)
LEMMA IndexDecidedKept ==
  ASSUME UNCHANGED <<bars, journal>>
  PROVE  IndexDecided' <=> IndexDecided
  BY DEF IndexDecided, Decided, Finished

(* A run that does not start to decide leaves the race as it was.          *)
LEMMA OnceKept ==
  ASSUME OnceSound, UNCHANGED <<journal, raced>>,
         \A b \in Actors : runs'[b].pc = "decide" => runs'[b] = runs[b]
  PROVE  OnceSound'
<1> SUFFICES ASSUME NEW p \in Range(Portfolios), NEW kind \in Kinds, NEW s \in Nat,
                    DecidedAlone(p, kind, s)
             PROVE  DecidedAlone(p, kind, s)'
  BY DEF OnceSound
<1>1. ASSUME NEW b \in Actors, DecidingAt(b, p, kind, s)'
      PROVE  DecidingAt(b, p, kind, s)
  BY <1>1 DEF DecidingAt
<1>2. /\ DOMAIN journal' = DOMAIN journal
      /\ \A i \in DOMAIN journal : Completed(i, p, kind, s)' <=> Completed(i, p, kind, s)
  BY DEF Completed
<1>3. \A b \in Actors : DecidingAt(b, p, kind, s)' => DecidingAt(b, p, kind, s)
  BY <1>1
<1> QED
  BY <1>2, <1>3 DEF DecidedAlone

(* The parts that speak of the world alone.                                *)
LEMMA WorldKept ==
  ASSUME IInv, UNCHANGED World
  PROVE  BarsServed' /\ JournalDays' /\ MissedPast' /\ RebalanceWaitsForNextDay'
<1>1. BarsServed'
  BY DEF IInv, World, BarsServed, Served, InSession, Open, Session
<1>2. JournalDays' /\ MissedPast'
  BY DEF IInv, World, JournalDays, MissedPast
<1>3. RebalanceWaitsForNextDay'
  BY DEF IInv, World, RebalanceWaitsForNextDay
<1> QED
  BY <1>1, <1>2, <1>3

(* What the memory says is done was decided, as long as neither moves.     *)
LEMMA DoneKept ==
  ASSUME DoneMeansDecided, UNCHANGED <<day, bars, journal>>,
         "NIGHTLY" \in done' => "NIGHTLY" \in done
  PROVE  DoneMeansDecided'
  BY DEF DoneMeansDecided, Decided, Finished

(* A step of the operator or the detector: no run, no record, no bar.      *)
LEMMA QuietInv ==
  ASSUME IInv, UNCHANGED <<day, slot, bars, journal, runs, raced, halfDays, done>>,
         TypeOK', MissedPast'
  PROVE  IInv'
<1>1. BarsServed' /\ JournalDays'
  BY DEF IInv, BarsServed, Served, InSession, Open, Session, JournalDays
<1>2. RebalanceWaitsForNextDay'
  BY DEF IInv, RebalanceWaitsForNextDay
<1>3. RunSound'
  BY DEF IInv, RunSound, Running, InSession, Open, Session
<1>4. NightlySound'
  BY IndexDecidedKept DEF IInv, NightlySound, Running
<1>5. OnceSound'
  BY OnceKept DEF IInv
<1>6. DoneMeansDecided' /\ DecidesForOne'
  BY DoneKept DEF IInv, DecidesForOne
<1> QED
  BY <1>1, <1>2, <1>3, <1>4, <1>5, <1>6 DEF IInv

LEMMA WarmInv == ASSUME IInv, Warm PROVE IInv'
<1>1. TypeOK' /\ MissedPast'
  BY DEF Warm, clock, IInv, TypeOK, RunsTyped, MissedPast
<1> QED
  BY <1>1, QuietInv DEF Warm, clock

LEMMA DetectMissedInv == ASSUME IInv, DetectMissed PROVE IInv'
<1>1. MissedNow \subseteq Kinds \X Nat /\ \A m \in MissedNow : m[2] < bars.index
  BY MissedNowPast DEF IInv, TypeOK
<1>2. missed' = MissedNow
  BY DEF DetectMissed
<1>3. TypeOK' /\ MissedPast'
  BY <1>1, <1>2 DEF DetectMissed, clock, IInv, TypeOK, RunsTyped, MissedPast
<1> QED
  BY <1>3, QuietInv DEF DetectMissed, clock

LEMMA StartInv == ASSUME IInv, Start PROVE IInv'
<1>1. MissedNow \subseteq Kinds \X Nat /\ \A m \in MissedNow : m[2] < bars.index
  BY MissedNowPast DEF IInv, TypeOK
<1>2. missed' = MissedNow
  BY DEF Start
<1>3. TypeOK' /\ MissedPast'
  BY <1>1, <1>2 DEF Start, clock, IInv, TypeOK, RunsTyped, MissedPast
<1> QED
  BY <1>3, QuietInv DEF Start, clock

LEMMA SetEnabledInv == ASSUME IInv, SetEnabled PROVE IInv'
<1>1. TypeOK' /\ MissedPast'
  BY DEF SetEnabled, clock, memory, IInv, TypeOK, RunsTyped, MissedPast
<1> QED
  BY <1>1, QuietInv DEF SetEnabled, clock, memory

LEMMA SetScheduleInv ==
  ASSUME IInv, NEW at \in NightlyTimes, SetSchedule(at)
  PROVE  IInv'
<1>1. TypeOK' /\ MissedPast'
  BY DEF SetSchedule, clock, memory, IInv, TypeOK, RunsTyped, MissedPast
<1> QED
  BY <1>1, QuietInv DEF SetSchedule, clock, memory

-----------------------------------------------------------------------------
(* Steps that begin or end a run and write no record.                      *)

(* None of them starts to decide.                                          *)
LEMMA RunChangeInv ==
  ASSUME IInv, UNCHANGED World, TypeOK', RunSound', NightlySound', DoneMeansDecided',
         \A b \in Actors : runs'[b].pc = "decide" => runs'[b] = runs[b]
  PROVE  IInv'
<1>1. BarsServed' /\ JournalDays' /\ MissedPast' /\ RebalanceWaitsForNextDay'
  BY WorldKept
<1>2. OnceSound' /\ DecidesForOne'
  BY OnceKept DEF IInv, World, DecidesForOne
<1> QED
  BY <1>1, <1>2 DEF IInv

(* The scheduler's own part when its run ends, or another actor's moves.   *)
LEMMA SchedulerEnds ==
  ASSUME IInv, UNCHANGED <<day, slot, bars, journal>>, done' \subseteq done,
         runs'["scheduler"] \in {Idle, runs["scheduler"]}
  PROVE  RunSound' /\ NightlySound' /\ DoneMeansDecided'
<1>1. IndexDecided' <=> IndexDecided
  BY IndexDecidedKept
<1>2. DoneMeansDecided'
  BY DoneKept DEF IInv
<1>3. CASE runs'["scheduler"] = Idle
  <2>1. runs'["scheduler"].pc = "idle"
    BY <1>3 DEF Idle
  <2>2. RunSound'
    BY <2>1 DEF RunSound, Running
  <2>3. NightlySound'
    BY <2>1, <1>1 DEF IInv, NightlySound, Running
  <2> QED
    BY <1>2, <2>2, <2>3
<1>4. CASE runs'["scheduler"] = runs["scheduler"]
  <2>1. RunSound'
    BY <1>4 DEF IInv, RunSound, Running, InSession, Open, Session
  <2>2. NightlySound'
    BY <1>4, <1>1 DEF IInv, NightlySound, Running
  <2> QED
    BY <1>2, <2>1, <2>2
<1> QED
  BY <1>3, <1>4

LEMMA RefreshBreaksInv == ASSUME IInv, RefreshBreaks PROVE IInv'
<1>1. RunsTyped /\ UNCHANGED World /\ done' = done
  BY DEF RefreshBreaks, World, clock, memory, IInv, TypeOK
<1>2. /\ RunsTyped' /\ runs'["scheduler"] = Idle
      /\ \A b \in Actors : b # "scheduler" => runs'[b] = runs[b]
  BY <1>1, BeginIs DEF RefreshBreaks, Actors
<1>3. TypeOK'
  BY <1>2 DEF RefreshBreaks, clock, memory, IInv, TypeOK
<1>4. RunSound' /\ NightlySound' /\ DoneMeansDecided'
  BY <1>1, <1>2, SchedulerEnds DEF World
<1>5. \A b \in Actors : runs'[b].pc = "decide" => runs'[b] = runs[b]
  BY <1>2 DEF Idle
<1> QED
  BY <1>1, <1>3, <1>4, <1>5, RunChangeInv

LEMMA RunRaisesInv == ASSUME IInv, NEW a \in Actors, RunRaises(a) PROVE IInv'
<1>1. RunsTyped /\ UNCHANGED World /\ done' = done
  BY DEF RunRaises, World, clock, memory, IInv, TypeOK
<1>2. /\ RunsTyped' /\ runs'[a] = Idle
      /\ \A b \in Actors : b # a => runs'[b] = runs[b]
  BY <1>1, BeginIs DEF RunRaises
<1>3. TypeOK'
  BY <1>2 DEF RunRaises, clock, memory, IInv, TypeOK
<1>4. runs'["scheduler"] \in {Idle, runs["scheduler"]}
  BY <1>2 DEF Actors
<1>5. RunSound' /\ NightlySound' /\ DoneMeansDecided'
  BY <1>1, <1>4, SchedulerEnds DEF World
<1>6. \A b \in Actors : runs'[b].pc = "decide" => runs'[b] = runs[b]
  BY <1>2 DEF Idle
<1> QED
  BY <1>1, <1>3, <1>5, <1>6, RunChangeInv

LEMMA StopInv == ASSUME IInv, Stop PROVE IInv'
<1>1. /\ UNCHANGED <<day, slot, bars, journal, raced, halfDays>>
      /\ done' = {} /\ missed' = {}
  BY DEF Stop, clock
<1>2. \A b \in Actors : runs'[b] = Idle
  BY DEF Stop
<1>3. TypeOK'
  BY DEF Stop, clock, IInv, TypeOK, RunsTyped
<1>4. RunSound' /\ NightlySound' /\ DoneMeansDecided'
  BY <1>1, <1>2, SchedulerEnds DEF Actors
<1>5. \A b \in Actors : runs'[b].pc = "decide" => runs'[b] = runs[b]
  BY <1>2 DEF Idle
<1>6. OnceSound' /\ DecidesForOne'
  BY <1>1, <1>5, OnceKept DEF IInv, DecidesForOne
<1>7. BarsServed' /\ JournalDays'
  BY <1>1 DEF IInv, BarsServed, Served, InSession, Open, Session, JournalDays
<1>8. RebalanceWaitsForNextDay'
  BY <1>1 DEF IInv, RebalanceWaitsForNextDay
<1>9. MissedPast'
  BY <1>1 DEF MissedPast
<1> QED
  BY <1>3, <1>4, <1>6, <1>7, <1>8, <1>9 DEF IInv

LEMMA ManualRunInv ==
  ASSUME IInv, NEW kind \in Kinds, NEW p \in Range(Portfolios), ManualRun(kind, p)
  PROVE  IInv'
<1> DEFINE r == [pc |-> "check", kind |-> kind, todo |-> <<p>>,
                 refreshed |-> FALSE, session |-> 0]
<1>1. RunsTyped /\ UNCHANGED World /\ done' = done
  BY DEF ManualRun, World, clock, memory, IInv, TypeOK
<1>2. r \in Run /\ r.pc = "check"
  BY DEF Run
<1>3. Begin("manual", r)
  BY DEF ManualRun
<1> HIDE DEF r
<1>4. /\ RunsTyped' /\ runs'["manual"] = r
      /\ \A b \in Actors : b # "manual" => runs'[b] = runs[b]
  BY <1>1, <1>2, <1>3, BeginIs DEF Actors
<1>5. TypeOK'
  BY <1>4 DEF ManualRun, clock, memory, IInv, TypeOK
<1>6. RunSound' /\ NightlySound' /\ DoneMeansDecided'
  BY <1>1, <1>4, SchedulerEnds DEF World, Actors
<1>7. \A b \in Actors : runs'[b].pc = "decide" => runs'[b] = runs[b]
  BY <1>2, <1>4
<1> QED
  BY <1>1, <1>5, <1>6, <1>7, RunChangeInv

LEMMA StartRebalanceInv == ASSUME IInv, StartRebalance PROVE IInv'
<1> DEFINE r == [pc |-> "check", kind |-> "REBALANCE", todo |-> Portfolios,
                 refreshed |-> FALSE, session |-> 0]
<1>1. RunsTyped /\ UNCHANGED World /\ done' = done
  BY DEF StartRebalance, World, clock, IInv, TypeOK
<1>2. r \in Run /\ r.pc = "check" /\ r.kind = "REBALANCE"
  BY ScheduleAssumption DEF Run, Kinds
<1>3. Begin("scheduler", r) /\ slot \in InSession
  BY DEF StartRebalance, RebalanceDue
<1> HIDE DEF r
<1>4. /\ RunsTyped' /\ runs'["scheduler"] = r
      /\ \A b \in Actors : b # "scheduler" => runs'[b] = runs[b]
  BY <1>1, <1>2, <1>3, BeginIs DEF Actors
<1>5. TypeOK'
  BY <1>4 DEF StartRebalance, clock, IInv, TypeOK
<1>6. RunSound'
  BY <1>1, <1>2, <1>3, <1>4 DEF RunSound, Running, World, InSession, Open, Session
<1>7. IndexDecided' <=> IndexDecided
  BY <1>1, IndexDecidedKept DEF World
<1>8. NightlySound'
  BY <1>1, <1>2, <1>4, <1>7 DEF IInv, NightlySound, Running, World
<1>9. DoneMeansDecided'
  BY <1>1, DoneKept DEF World, IInv
<1>10. \A b \in Actors : runs'[b].pc = "decide" => runs'[b] = runs[b]
  BY <1>2, <1>4
<1> QED
  BY <1>1, <1>5, <1>6, <1>8, <1>9, <1>10, RunChangeInv

LEMMA StartNightlyInv == ASSUME IInv, StartNightly PROVE IInv'
<1>1. RunsTyped /\ UNCHANGED World
  BY DEF StartNightly, World, clock, IInv, TypeOK
<1>2. runs["scheduler"].pc = "idle" /\ "NIGHTLY" \notin done
  BY DEF StartNightly, Free, Idle, NightlyDue, MayAttempt
<1>3. IndexDecided' <=> IndexDecided
  BY <1>1, IndexDecidedKept DEF World
<1>4. CASE RanOnDay("NIGHTLY", day)
  <2>1. runs' = runs /\ done' = done \cup {"NIGHTLY"}
    BY <1>4 DEF StartNightly
  <2>2. TypeOK'
    BY <2>1 DEF StartNightly, clock, IInv, TypeOK, RunsTyped, Kinds
  <2>3. RunSound'
    BY <1>1, <2>1 DEF World, IInv, RunSound, Running, InSession, Open, Session
  <2>4. NightlySound'
    BY <1>1, <1>2, <1>3, <2>1 DEF World, IInv, NightlySound, Running
  <2>5. PICK i \in DOMAIN journal : journal[i].kind = "NIGHTLY" /\ journal[i].day = day
    BY <1>4 DEF RanOnDay
  <2>6. journal[i].by = "manual" \/ IndexDecided
    <3>1. journal[i] \in Entry
      BY <2>5 DEF IInv, TypeOK
    <3>2. journal[i].by \in {"scheduler", "manual"}
      BY <3>1 DEF Entry, Actors
    <3> QED
      BY <2>5, <3>2 DEF IInv, NightlySound
  <2>7. DoneMeansDecided'
    BY <1>1, <2>5, <2>6 DEF World, DoneMeansDecided, IndexDecided, Decided, Finished
  <2> QED
    BY <1>1, <2>1, <2>2, <2>3, <2>4, <2>7, RunChangeInv
<1>5. CASE ~RanOnDay("NIGHTLY", day)
  <2> DEFINE r == [pc |-> "refresh", kind |-> "NIGHTLY", todo |-> Portfolios,
                   refreshed |-> FALSE, session |-> 0]
  <2>1. /\ r \in Run /\ r.pc = "refresh" /\ r.kind = "NIGHTLY" /\ r.todo = Portfolios
    BY ScheduleAssumption DEF Run, Kinds
  <2>2. Begin("scheduler", r) /\ done' = done
    BY <1>5 DEF StartNightly
  <2> HIDE DEF r
  <2>3. /\ RunsTyped' /\ runs'["scheduler"] = r
        /\ \A b \in Actors : b # "scheduler" => runs'[b] = runs[b]
    BY <1>1, <2>1, <2>2, BeginIs DEF Actors
  <2>4. TypeOK'
    BY <2>2, <2>3 DEF StartNightly, clock, IInv, TypeOK
  <2>5. RunSound'
    BY <2>1, <2>3 DEF RunSound, Running
  <2>6. NightlySound'
    BY <1>1, <1>2, <1>5, <2>1, <2>2, <2>3 DEF World, NightlySound, Running, RanOnDay
  <2>7. DoneMeansDecided'
    BY <1>1, <2>2, DoneKept DEF World, IInv
  <2>8. \A b \in Actors : runs'[b].pc = "decide" => runs'[b] = runs[b]
    BY <2>1, <2>3
  <2> QED
    BY <1>1, <2>4, <2>5, <2>6, <2>7, <2>8, RunChangeInv
<1> QED
  BY <1>4, <1>5

LEMMA FinishRunInv == ASSUME IInv, NEW a \in Actors, FinishRun(a) PROVE IInv'
<1>1. RunsTyped /\ UNCHANGED World
  BY DEF FinishRun, World, clock, IInv, TypeOK
<1>2. /\ RunsTyped' /\ runs'[a] = Idle
      /\ \A b \in Actors : b # a => runs'[b] = runs[b]
  BY <1>1, BeginIs DEF FinishRun
<1>3. TypeOK'
  BY <1>2 DEF FinishRun, clock, IInv, TypeOK, Kinds
<1>4. runs'["scheduler"] \in {Idle, runs["scheduler"]}
  BY <1>2 DEF Actors
<1>5. \A b \in Actors : runs'[b].pc = "decide" => runs'[b] = runs[b]
  BY <1>2 DEF Idle
<1>6. RunSound' /\ NightlySound' /\ DoneMeansDecided'
  <2>1. CASE done' = done
    BY <1>1, <1>4, <2>1, SchedulerEnds DEF World
  <2>2. CASE a = "scheduler" /\ runs[a].kind = "NIGHTLY"
    <3>1. runs[a].pc = "check" /\ runs[a].todo = <<>>
      BY DEF FinishRun
    <3>2. Len(runs[a].todo) < Len(Portfolios)
      <4>1. Len(<<>>) = 0
        BY EmptySeq
      <4>2. Len(Portfolios) \in Nat \ {0}
        BY EmptySeq, ScheduleAssumption
      <4> QED
        BY <3>1, <4>1, <4>2
    <3>3. IndexDecided
      BY <2>2, <3>1, <3>2 DEF IInv, NightlySound, Running
    <3>4. IndexDecided' <=> IndexDecided
      BY <1>1, IndexDecidedKept DEF World
    <3>5. runs'["scheduler"].pc = "idle"
      BY <1>2, <2>2 DEF Idle
    <3>6. RunSound'
      BY <3>5 DEF RunSound, Running
    <3>7. NightlySound'
      BY <3>3, <3>4, <3>5 DEF NightlySound, Running
    <3>8. DoneMeansDecided'
      BY <3>3, <3>4 DEF DoneMeansDecided, IndexDecided
    <3> QED
      BY <3>6, <3>7, <3>8
  <2> QED
    BY <2>1, <2>2 DEF FinishRun
<1> QED
  BY <1>1, <1>3, <1>5, <1>6, RunChangeInv

-----------------------------------------------------------------------------
(* The refresh and the clock.                                              *)

(* The stored index only moves on, and stays one the vendor serves.        *)
LEMMA IndexAdvances ==
  ASSUME BarsServed, TypeOK
  PROVE  Published \in Nat /\ Served(Published) /\ bars.index <= Published
<1>1. /\ Published \in Nat /\ Served(Published)
      /\ \A t \in Sessions : Served(t) => t <= Published
  BY PublishedIs DEF TypeOK
<1>2. bars.index <= Published
  BY <1>1 DEF BarsServed, Served, TypeOK
<1> QED
  BY <1>1, <1>2

LEMMA RefreshInv == ASSUME IInv, Refresh PROVE IInv'
<1>1. PICK index \in BOOLEAN, universe \in BOOLEAN :
        /\ bars' = [index |-> IF index THEN Published ELSE bars.index,
                    universe |-> IF universe THEN Published ELSE bars.universe]
        /\ halfDays' = IF StoresHalfDay(index) THEN halfDays \cup {day} ELSE halfDays
        /\ Begin("scheduler", [runs["scheduler"] EXCEPT !.pc = "check",
                                                        !.refreshed = universe])
  BY DEF Refresh
<1> DEFINE old == runs["scheduler"]
           r == [old EXCEPT !.pc = "check", !.refreshed = universe]
<1>2. /\ UNCHANGED <<day, slot, journal, raced, missed, done>>
      /\ old.pc = "refresh" /\ RunsTyped
  BY DEF Refresh, clock, memory, IInv, TypeOK
<1>3. old \in Run /\ old.kind = "NIGHTLY" /\ old.todo = Portfolios
  BY <1>2, InFlight DEF Actors, IInv, RunSound
<1>4. r \in Run /\ r.pc = "check" /\ r.kind = "NIGHTLY" /\ r.todo = Portfolios
  BY <1>3 DEF Run
<1>5. Begin("scheduler", r)
  BY <1>1
<1> HIDE DEF r
<1>6. /\ RunsTyped' /\ runs'["scheduler"] = r
      /\ \A b \in Actors : b # "scheduler" => runs'[b] = runs[b]
  BY <1>2, <1>4, <1>5, BeginIs DEF Actors
<1>7. Published \in Nat /\ Served(Published) /\ bars.index <= Published
  BY IndexAdvances DEF IInv
<1>8. /\ bars' \in [index : Nat, universe : Nat]
      /\ bars'.index \in {bars.index, Published} /\ bars.index <= bars'.index
      /\ bars'.index # bars.index => index /\ bars'.index = Published
  BY <1>1, <1>7 DEF IInv, TypeOK
<1>9. halfDays \subseteq halfDays' /\ halfDays' \subseteq Nat
  BY <1>1 DEF IInv, TypeOK
<1>10. TypeOK'
  BY <1>6, <1>8, <1>9 DEF Refresh, clock, memory, IInv, TypeOK
<1>11. BarsServed'
  <2>1. bars'.index # 0 => Served(bars.index)'
    <3>1. bars'.index # 0 => Served(bars'.index)
      BY <1>7, <1>8 DEF IInv, BarsServed
    <3> QED
      BY <1>2, <3>1 DEF Served
  <2>2. ASSUME bars'.index = day, slot \in InSession PROVE day \in halfDays'
    <3>1. CASE bars.index = day
      BY <1>9, <2>2, <3>1 DEF IInv, BarsServed
    <3>2. CASE bars.index # day
      <4>1. StoresHalfDay(index)
        BY <1>8, <2>2, <3>2 DEF StoresHalfDay
      <4> QED
        BY <1>1, <4>1
    <3> QED
      BY <3>1, <3>2
  <2> QED
    BY <1>2, <2>1, <2>2 DEF BarsServed, InSession, Open, Session
<1>12. RunSound'
  BY <1>4, <1>6 DEF RunSound, Running
<1>13. NightlySound' /\ DoneMeansDecided'
  <2>1. "NIGHTLY" \notin done'
    BY <1>2, <1>3 DEF IInv, NightlySound, Running
  <2>2. \A i \in DOMAIN journal :
          ~(journal[i].kind = "NIGHTLY" /\ journal[i].by = "scheduler" /\ journal[i].day = day)
    BY <1>2 DEF IInv, NightlySound
  <2>3. ~(Len(Portfolios) < Len(Portfolios))
    <3>1. Len(Portfolios) \in Nat
      BY ScheduleAssumption, LenProperties
    <3> QED
      BY <3>1
  <2>4. NightlySound'
    BY <1>2, <1>4, <1>6, <2>1, <2>2, <2>3 DEF NightlySound, Running
  <2> QED
    BY <2>1, <2>4 DEF DoneMeansDecided
<1>14. \A b \in Actors : runs'[b].pc = "decide" => runs'[b] = runs[b]
  BY <1>4, <1>6
<1>15. OnceSound' /\ DecidesForOne'
  BY <1>2, <1>14, OnceKept DEF IInv, DecidesForOne
<1>16. JournalDays' /\ RebalanceWaitsForNextDay'
  BY <1>2, <1>9 DEF IInv, JournalDays, RebalanceWaitsForNextDay
<1>17. MissedPast'
  <2>1. \A m \in missed : m[2] \in Nat /\ m[2] < bars.index
    BY DEF IInv, TypeOK, MissedPast
  <2>2. \A m \in missed : m[2] < bars'.index
    BY <1>8, <2>1 DEF IInv, TypeOK
  <2> QED
    BY <1>2, <2>2 DEF MissedPast
<1> QED
  BY <1>10, <1>11, <1>12, <1>13, <1>15, <1>16, <1>17 DEF IInv

LEMMA TimePassesInv == ASSUME IInv, TimePasses PROVE IInv'
<1>1. /\ UNCHANGED <<bars, journal, missed, runs, raced, halfDays>>
      /\ \A a \in Actors : runs[a] = Idle
  BY DEF TimePasses
<1>2. runs["scheduler"].pc = "idle"
  BY <1>1 DEF Actors, Idle
<1>3. \/ slot < Late /\ slot' = slot + 1 /\ day' = day /\ done' = done
      \/ day' = day + 1 /\ slot' = Early /\ done' = {}
  BY DEF TimePasses
<1>4. TypeOK'
  <2>1. day' \in Nat \ {0, 1} /\ slot' \in Slots /\ done' \subseteq Kinds
    BY <1>3 DEF IInv, TypeOK, Slots, Early, Late
  <2> QED
    BY <1>1, <2>1 DEF TimePasses, IInv, TypeOK, RunsTyped
<1>5. BarsServed'
  <2>1. \A s \in Sessions : s \in Nat
    BY ScheduleAssumption
  <2>2. day \in Nat \ {0, 1} /\ slot \in 0 .. 6 /\ bars.index \in Nat
    BY DEF IInv, TypeOK, Slots, Early, Late
  <2>3. bars.index # 0 => Served(bars.index)
    BY DEF IInv, BarsServed
  <2>4. bars.index # 0 => Served(bars.index)'
    BY <1>1, <1>3, <2>1, <2>2, <2>3 DEF Served, Open, Early, Late
  <2>5. bars.index = day' /\ slot' \in InSession => day' \in halfDays
    <3>1. CASE slot < Late /\ slot' = slot + 1 /\ day' = day
      <4>1. bars.index = day => slot >= 2
        BY <2>2, <2>3 DEF Served, Open
      <4>2. bars.index = day /\ slot' \in 2 .. 3 => slot \in 2 .. 3
        BY <2>2, <3>1, <4>1
      <4> QED
        BY <3>1, <4>2 DEF IInv, BarsServed, InSession, Open, Session
    <3>2. CASE slot' = Early
      BY <3>2 DEF InSession, Open, Session, Early
    <3> QED
      BY <1>3, <3>1, <3>2
  <2> QED
    BY <1>1, <2>4, <2>5 DEF BarsServed, InSession, Open, Session
<1>6. RunSound'
  BY <1>1, <1>2 DEF RunSound, Running
<1>7. \A i \in DOMAIN journal : journal[i].day \in Nat /\ journal[i].day <= day
  <2>1. \A i \in DOMAIN journal : journal[i] \in Entry
    BY DEF IInv, TypeOK
  <2> QED
    BY <2>1 DEF Entry, IInv, JournalDays
<1>8. JournalDays'
  BY <1>1, <1>3, <1>7 DEF IInv, TypeOK, JournalDays
<1>9. NightlySound' /\ DoneMeansDecided'
  <2>1. CASE day' = day /\ done' = done
    BY <1>1, <2>1, IndexDecidedKept, DoneKept DEF IInv, NightlySound, Running
  <2>2. CASE day' = day + 1 /\ done' = {}
    <3>1. \A i \in DOMAIN journal : journal[i].day # day'
      BY <1>7, <2>2 DEF IInv, TypeOK
    <3>2. NightlySound'
      BY <1>1, <1>2, <2>2, <3>1 DEF NightlySound, Running
    <3> QED
      BY <2>2, <3>2 DEF DoneMeansDecided
  <2> QED
    BY <1>3, <2>1, <2>2
<1>10. OnceSound' /\ DecidesForOne'
  BY <1>1, OnceKept DEF IInv, DecidesForOne
<1>11. RebalanceWaitsForNextDay' /\ MissedPast'
  BY <1>1 DEF IInv, RebalanceWaitsForNextDay, MissedPast
<1> QED
  BY <1>4, <1>5, <1>6, <1>8, <1>9, <1>10, <1>11 DEF IInv

-----------------------------------------------------------------------------
(* The journal.                                                            *)

\* The journal with one more record: the old ones stand, and no other is new.
Recorded(e) ==
  /\ journal' \in Seq(Entry)
  /\ \A i \in DOMAIN journal : i \in DOMAIN journal' /\ journal'[i] = journal[i]
  /\ Len(journal) + 1 \in DOMAIN journal' /\ journal'[Len(journal) + 1] = e
  /\ \A i \in DOMAIN journal' : i \in DOMAIN journal \/ i = Len(journal) + 1

(* Appending a record keeps the others.                                    *)
LEMMA RecordIs ==
  ASSUME TypeOK, NEW a \in Actors, runs[a] \in Run, NEW p \in Range(Portfolios),
         NEW s \in Nat, NEW status \in {"COMPLETED", "SKIPPED"}, Record(a, p, s, status)
  PROVE  Recorded([kind |-> runs[a].kind, portfolio |-> p, session |-> s,
                   day |-> day, status |-> status, by |-> a])
<1> DEFINE e == [kind |-> runs[a].kind, portfolio |-> p, session |-> s,
                 day |-> day, status |-> status, by |-> a]
<1>1. journal \in Seq(Entry) /\ e \in Entry
  BY DEF TypeOK, Entry, Run
<1>2. journal' = Append(journal, e)
  BY DEF Record
<1> HIDE DEF e
<1>3. /\ journal' \in Seq(Entry) /\ Len(journal') = Len(journal) + 1
      /\ \A i \in 1 .. Len(journal) : journal'[i] = journal[i]
      /\ journal'[Len(journal) + 1] = e
  BY <1>1, <1>2, AppendProperties
<1>4. /\ Len(journal) \in Nat /\ DOMAIN journal = 1 .. Len(journal)
      /\ DOMAIN journal' = 1 .. Len(journal')
  BY <1>1, <1>3, LenProperties
<1>5. Recorded(e)
  BY <1>3, <1>4 DEF Recorded
<1> QED
  BY <1>5 DEF e

(* What was decided stays decided; the record of a session decides it.     *)
LEMMA RecordDecides ==
  ASSUME NEW e, Recorded(e), bars' = bars
  PROVE  /\ IndexDecided => IndexDecided'
         /\ e.kind = "NIGHTLY" /\ e.session = bars.index /\ Finished(e) => IndexDecided'
         /\ DoneMeansDecided /\ day' = day /\ done' = done => DoneMeansDecided'
<1>1. Decided("NIGHTLY", bars.index) => Decided("NIGHTLY", bars.index)'
  BY DEF Recorded, Decided, Finished
<1>2. e.kind = "NIGHTLY" /\ e.session = bars.index /\ Finished(e) =>
        Decided("NIGHTLY", bars.index)'
  BY DEF Recorded, Decided, Finished
<1>3. DoneMeansDecided /\ day' = day /\ done' = done => DoneMeansDecided'
  BY <1>1 DEF DoneMeansDecided, Recorded
<1> QED
  BY <1>1, <1>2, <1>3 DEF IndexDecided

\* What a run that records and goes on to the next portfolio leaves as it was.
RecordFrame ==
  UNCHANGED <<clock, up, enabled, nightlyAt, bars, memory, raced, halfDays, disturbances>>

(* One record and the next portfolio, by a run that skips, or decides.     *)
LEMMA RecordInv ==
  ASSUME IInv, NEW a \in Actors, runs[a].pc \in {"check", "decide"}, runs[a].todo # <<>>,
         NEW p \in Range(Portfolios), NEW s \in Nat, NEW status \in {"COMPLETED", "SKIPPED"},
         Record(a, p, s, status), NextPortfolio(a), RecordFrame,
         a = "scheduler" /\ runs[a].kind = "NIGHTLY" => bars.index = 0 \/ s = bars.index,
         status = "COMPLETED" =>
           runs[a].pc = "decide" /\ p = Head(runs[a].todo) /\ s = runs[a].session
  PROVE  IInv'
<1> DEFINE e == [kind |-> runs[a].kind, portfolio |-> p, session |-> s,
                 day |-> day, status |-> status, by |-> a]
           n == Len(journal) + 1
<1>1. /\ UNCHANGED <<day, slot, bars, raced, halfDays, missed, done>>
      /\ RunsTyped
  BY DEF RecordFrame, clock, memory, IInv, TypeOK
<1>2. runs[a] \in Run
  BY <1>1, InFlight
<1>3. Recorded(e)
  BY <1>2, RecordIs DEF IInv
<1>4. /\ e.portfolio = p /\ e.kind = runs[a].kind /\ e.session = s /\ e.day = day
      /\ e.status = status /\ e.by = a
  OBVIOUS
<1> HIDE DEF e
<1>5. /\ RunsTyped'
      /\ runs'[a].pc = "check" /\ runs'[a].kind = runs[a].kind
      /\ \A b \in Actors : b # a => runs'[b] = runs[b]
  BY <1>1, <1>2, NextPortfolioIs
<1>6. TypeOK'
  BY <1>3, <1>5 DEF Recorded, RecordFrame, clock, memory, IInv, TypeOK
<1>7. BarsServed' /\ MissedPast'
  BY <1>1 DEF IInv, BarsServed, Served, InSession, Open, Session, MissedPast
<1>8. JournalDays'
  <2>1. day <= day
    BY DEF IInv, TypeOK
  <2> QED
    BY <1>1, <1>3, <1>4, <2>1 DEF IInv, JournalDays, Recorded
<1>9. Finished(e)
  BY <1>4 DEF Finished
<1>10. /\ IndexDecided => IndexDecided'
       /\ a = "scheduler" /\ runs[a].kind = "NIGHTLY" => IndexDecided'
       /\ DoneMeansDecided'
  BY <1>1, <1>3, <1>4, <1>9, RecordDecides DEF IInv, IndexDecided
<1>11. RunSound'
  <2>1. CASE a = "scheduler"
    BY <1>1, <1>5, <2>1 DEF IInv, RunSound, Running, InSession, Open, Session
  <2>2. CASE a # "scheduler"
    <3>1. runs'["scheduler"] = runs["scheduler"]
      BY <1>5, <2>2 DEF Actors
    <3> QED
      BY <1>1, <3>1 DEF IInv, RunSound, Running, InSession, Open, Session
  <2> QED
    BY <2>1, <2>2
<1>12. NightlySound'
  <2>1. \A i \in DOMAIN journal' :
          \/ i \in DOMAIN journal /\ journal'[i] = journal[i]
          \/ i = n /\ journal'[i] = e
    BY <1>3 DEF Recorded
  <2>2. CASE a = "scheduler"
    <3>1. Running("NIGHTLY")' => runs[a].kind = "NIGHTLY" /\ Running("NIGHTLY")
      BY <1>5, <2>2 DEF Running
    <3>2. runs'["scheduler"].pc = "check"
      BY <1>5, <2>2
    <3>3. \A i \in DOMAIN journal' :
            journal'[i].kind = "NIGHTLY" /\ journal'[i].by = "scheduler"
            /\ journal'[i].day = day => IndexDecided'
      BY <1>4, <1>10, <2>1, <2>2 DEF IInv, NightlySound
    <3> QED
      BY <1>1, <1>10, <2>2, <3>1, <3>2, <3>3 DEF IInv, NightlySound
  <2>3. CASE a # "scheduler"
    <3>1. runs'["scheduler"] = runs["scheduler"]
      BY <1>5, <2>3 DEF Actors
    <3>2. \A i \in DOMAIN journal' :
            journal'[i].kind = "NIGHTLY" /\ journal'[i].by = "scheduler"
            /\ journal'[i].day = day =>
              i \in DOMAIN journal /\ journal'[i] = journal[i]
      BY <1>4, <2>1, <2>3
    <3> QED
      BY <1>1, <1>10, <3>1, <3>2 DEF IInv, NightlySound, Running
  <2> QED
    BY <2>2, <2>3
<1>13. DecidesForOne'
  BY <1>5 DEF IInv, DecidesForOne
<1>14. RebalanceWaitsForNextDay'
  <2>1. \A i \in DOMAIN journal' :
          \/ i \in DOMAIN journal /\ journal'[i] = journal[i]
          \/ i = n /\ journal'[i] = e
    BY <1>3 DEF Recorded
  <2>2. e.kind = "REBALANCE" /\ e.status = "COMPLETED" /\ e.by = "scheduler"
          => e.day > e.session \/ e.session \in halfDays
    <3> SUFFICES ASSUME e.kind = "REBALANCE", e.status = "COMPLETED", e.by = "scheduler"
                 PROVE  day > s \/ s \in halfDays
      BY <1>4
    <3>1. runs["scheduler"].pc = "decide" /\ runs["scheduler"].kind = "REBALANCE"
      BY <1>4
    <3>2. s = bars.index /\ bars.index # 0 /\ slot \in InSession
      BY <1>4, <3>1 DEF IInv, RunSound, Running
    <3>3. Served(s) /\ (s = day => day \in halfDays)
      BY <3>2 DEF IInv, BarsServed
    <3> QED
      BY <3>3 DEF Served
  <2> QED
    BY <1>1, <2>1, <2>2 DEF IInv, RebalanceWaitsForNextDay
<1>15. OnceSound'
  <2> SUFFICES ASSUME NEW q \in Range(Portfolios), NEW k \in Kinds, NEW t \in Nat,
                      <<q, k, t>> \notin raced
               PROVE  DecidedAlone(q, k, t)'
    BY <1>1 DEF OnceSound
  <2>1. DecidedAlone(q, k, t)
    BY DEF IInv, OnceSound
  <2>2. \A b \in Actors : DecidingAt(b, q, k, t)' => b # a /\ DecidingAt(b, q, k, t)
    BY <1>5 DEF DecidingAt
  <2>3. \A i \in DOMAIN journal' : Completed(i, q, k, t)' =>
          \/ i \in DOMAIN journal /\ Completed(i, q, k, t)
          \/ i = n /\ DecidingAt(a, q, k, t)
    <3>1. ASSUME NEW i \in DOMAIN journal', Completed(i, q, k, t)'
          PROVE  \/ i \in DOMAIN journal /\ Completed(i, q, k, t)
                 \/ i = n /\ DecidingAt(a, q, k, t)
      <4>1. CASE i \in DOMAIN journal
        BY <1>3, <3>1, <4>1 DEF Recorded, Completed
      <4>2. CASE i = n
        <5>1. journal'[i] = e
          BY <1>3, <4>2 DEF Recorded
        <5>2. e.portfolio = q /\ e.kind = k /\ e.session = t /\ e.status = "COMPLETED"
          BY <3>1, <5>1 DEF Completed
        <5> QED
          BY <1>4, <4>2, <5>2 DEF DecidingAt
      <4> QED
        BY <1>3, <4>1, <4>2 DEF Recorded
    <3> QED
      BY <3>1
  <2> HIDE DEF n
  <2> QED
    BY <2>1, <2>2, <2>3 DEF DecidedAlone
<1> QED
  BY <1>6, <1>7, <1>8, <1>10, <1>11, <1>12, <1>13, <1>14, <1>15 DEF IInv

LEMMA DecideSessionInv == ASSUME IInv, NEW a \in Actors, DecideSession(a) PROVE IInv'
<1>1. /\ runs[a].pc = "decide" /\ NextPortfolio(a) /\ RecordFrame
      /\ Record(a, Head(runs[a].todo), runs[a].session, "COMPLETED")
  BY DEF DecideSession, RecordFrame
<1>2. runs[a] \in Run /\ runs[a].todo # <<>>
  BY <1>1, InFlight DEF IInv, TypeOK, DecidesForOne
<1>3. runs[a].todo \in Seq(Range(Portfolios)) /\ runs[a].session \in Nat
  BY <1>2 DEF Run
<1>4. Head(runs[a].todo) \in Range(Portfolios)
  BY <1>2, <1>3, HeadTailProperties
<1>5. a = "scheduler" => runs[a].session = bars.index
  BY <1>1 DEF IInv, RunSound
<1>6. "COMPLETED" \in {"COMPLETED", "SKIPPED"} /\ runs[a].pc \in {"check", "decide"}
  BY <1>1
<1> QED
  BY <1>1, <1>2, <1>3, <1>4, <1>5, <1>6, RecordInv

\* What a check that writes no record leaves as it was.
CheckFrame ==
  UNCHANGED <<clock, up, enabled, nightlyAt, bars, journal, memory, halfDays, disturbances>>

(* The rebalance of a strategy that was switched off ends.                 *)
LEMMA CheckEndsInv ==
  ASSUME IInv, NEW a \in Actors, Begin(a, Idle), CheckFrame, raced' = raced
  PROVE  IInv'
<1>1. RunsTyped /\ UNCHANGED World /\ done' = done
  BY DEF CheckFrame, World, clock, memory, IInv, TypeOK
<1>2. /\ RunsTyped' /\ runs'[a] = Idle
      /\ \A b \in Actors : b # a => runs'[b] = runs[b]
  BY <1>1, BeginIs
<1>3. TypeOK'
  BY <1>2 DEF CheckFrame, clock, memory, IInv, TypeOK
<1>4. runs'["scheduler"] \in {Idle, runs["scheduler"]}
  BY <1>2 DEF Actors
<1>5. RunSound' /\ NightlySound' /\ DoneMeansDecided'
  BY <1>1, <1>4, SchedulerEnds DEF World
<1>6. \A b \in Actors : runs'[b].pc = "decide" => runs'[b] = runs[b]
  BY <1>2 DEF Idle
<1> QED
  BY <1>1, <1>3, <1>5, <1>6, RunChangeInv

(* A session that has its record is passed over.                           *)
LEMMA CheckPassesInv ==
  ASSUME IInv, NEW a \in Actors, runs[a].pc = "check", runs[a].todo # <<>>,
         Decided(runs[a].kind, bars.index), NextPortfolio(a), CheckFrame, raced' = raced
  PROVE  IInv'
<1>1. RunsTyped /\ UNCHANGED World /\ done' = done
  BY DEF CheckFrame, World, clock, memory, IInv, TypeOK
<1>2. /\ RunsTyped'
      /\ runs'[a].pc = "check" /\ runs'[a].kind = runs[a].kind
      /\ \A b \in Actors : b # a => runs'[b] = runs[b]
  BY <1>1, InFlight, NextPortfolioIs
<1>3. TypeOK'
  BY <1>2 DEF CheckFrame, clock, memory, IInv, TypeOK
<1>4. IndexDecided' <=> IndexDecided
  BY <1>1, IndexDecidedKept DEF World
<1>5. RunSound' /\ NightlySound'
  <2>1. CASE a = "scheduler"
    <3>1. RunSound'
      BY <1>1, <1>2, <2>1 DEF World, IInv, RunSound, Running, InSession, Open, Session
    <3>2. Running("NIGHTLY")' => Running("NIGHTLY") /\ IndexDecided
      BY <1>2, <2>1 DEF Running, IndexDecided
    <3> QED
      BY <1>1, <1>2, <1>4, <2>1, <3>1, <3>2 DEF World, IInv, NightlySound
  <2>2. CASE a # "scheduler"
    <3>1. runs'["scheduler"] = runs["scheduler"]
      BY <1>2, <2>2 DEF Actors
    <3> QED
      BY <1>1, <1>4, <3>1
         DEF World, IInv, RunSound, NightlySound, Running, InSession, Open, Session
  <2> QED
    BY <2>1, <2>2
<1>6. DoneMeansDecided'
  BY <1>1, DoneKept DEF World, IInv
<1>7. \A b \in Actors : runs'[b].pc = "decide" => runs'[b] = runs[b]
  BY <1>2
<1> QED
  BY <1>1, <1>3, <1>5, <1>6, <1>7, RunChangeInv

(* A session without a record is decided on; the race is noted.            *)
LEMMA CheckDecidesInv ==
  ASSUME IInv, NEW a \in Actors, runs[a].pc = "check", runs[a].todo # <<>>,
         bars.index # 0, ~Decided(runs[a].kind, bars.index), CheckFrame,
         Begin(a, [runs[a] EXCEPT !.pc = "decide", !.session = bars.index]),
         raced' = IF Deciding(Head(runs[a].todo), runs[a].kind, bars.index)
                    THEN raced \cup {<<Head(runs[a].todo), runs[a].kind, bars.index>>}
                    ELSE raced
  PROVE  IInv'
<1> DEFINE r == [runs[a] EXCEPT !.pc = "decide", !.session = bars.index]
<1>1. /\ UNCHANGED <<day, slot, bars, journal, halfDays, missed, done>>
      /\ RunsTyped
  BY DEF CheckFrame, clock, memory, IInv, TypeOK
<1>2. runs[a] \in Run
  BY <1>1, InFlight
<1>3. /\ r \in Run /\ r.pc = "decide" /\ r.kind = runs[a].kind
      /\ r.session = bars.index /\ r.todo = runs[a].todo
  BY <1>2 DEF Run, IInv, TypeOK
<1>4. Begin(a, r)
  OBVIOUS
<1> HIDE DEF r
<1>5. /\ RunsTyped' /\ runs'[a] = r
      /\ \A b \in Actors : b # a => runs'[b] = runs[b]
  BY <1>1, <1>3, <1>4, BeginIs
<1>6. TypeOK'
  BY <1>5 DEF CheckFrame, clock, memory, IInv, TypeOK
<1>7. BarsServed' /\ MissedPast' /\ JournalDays' /\ RebalanceWaitsForNextDay'
  BY <1>1 DEF IInv, BarsServed, Served, InSession, Open, Session, MissedPast,
              JournalDays, RebalanceWaitsForNextDay
<1>8. IndexDecided' <=> IndexDecided
  BY <1>1, IndexDecidedKept
<1>9. RunSound' /\ NightlySound'
  <2>1. CASE a = "scheduler"
    <3>1. RunSound'
      BY <1>1, <1>3, <1>5, <2>1 DEF IInv, RunSound, Running, InSession, Open, Session
    <3>2. runs'["scheduler"].pc = "decide" /\ (Running("NIGHTLY")' => Running("NIGHTLY"))
      BY <1>3, <1>5, <2>1 DEF Running
    <3> QED
      BY <1>1, <1>8, <3>1, <3>2 DEF IInv, NightlySound
  <2>2. CASE a # "scheduler"
    <3>1. runs'["scheduler"] = runs["scheduler"]
      BY <1>5, <2>2 DEF Actors
    <3> QED
      BY <1>1, <1>8, <3>1
         DEF IInv, RunSound, NightlySound, Running, InSession, Open, Session
  <2> QED
    BY <2>1, <2>2
<1>10. DoneMeansDecided'
  BY <1>1, DoneKept DEF IInv
<1>11. DecidesForOne'
  BY <1>3, <1>5 DEF IInv, DecidesForOne
<1>12. OnceSound'
  <2> SUFFICES ASSUME NEW q \in Range(Portfolios), NEW k \in Kinds, NEW t \in Nat,
                      <<q, k, t>> \notin raced'
               PROVE  DecidedAlone(q, k, t)'
    BY DEF OnceSound
  <2>1. DecidedAlone(q, k, t)
    BY DEF IInv, OnceSound
  <2>2. \A i \in DOMAIN journal : Completed(i, q, k, t)' <=> Completed(i, q, k, t)
    BY <1>1 DEF Completed
  <2>3. \A b \in Actors : b # a => (DecidingAt(b, q, k, t)' <=> DecidingAt(b, q, k, t))
    BY <1>5 DEF DecidingAt
  <2>4. CASE ~DecidingAt(a, q, k, t)'
    BY <1>1, <2>1, <2>2, <2>3, <2>4 DEF DecidedAlone
  <2>5. CASE DecidingAt(a, q, k, t)'
    <3>1. q = Head(runs[a].todo) /\ k = runs[a].kind /\ t = bars.index
      BY <1>3, <1>5, <2>5 DEF DecidingAt
    <3>2. \A b \in Actors : ~DecidingAt(b, q, k, t)
      BY <3>1 DEF Deciding, DecidingAt
    <3>3. \A i \in DOMAIN journal : ~Completed(i, q, k, t)
      BY <3>1 DEF Decided, Completed, Finished
    <3> QED
      BY <1>1, <2>2, <2>3, <3>2, <3>3 DEF DecidedAlone
  <2> QED
    BY <2>4, <2>5
<1> QED
  BY <1>6, <1>7, <1>9, <1>10, <1>11, <1>12 DEF IInv

LEMMA CheckSessionInv == ASSUME IInv, NEW a \in Actors, CheckSession(a) PROVE IInv'
<1>1. /\ runs[a].pc = "check" /\ runs[a].todo # <<>> /\ RunsTyped
  BY DEF CheckSession, IInv, TypeOK
<1>2. runs[a] \in Run
  BY <1>1, InFlight
<1>3. Head(runs[a].todo) \in Range(Portfolios)
  <2>1. runs[a].todo \in Seq(Range(Portfolios))
    BY <1>2 DEF Run
  <2> QED
    BY <1>1, <2>1, HeadTailProperties
<1>4. /\ day \in Nat /\ bars.index \in Nat /\ runs[a].pc \in {"check", "decide"}
      /\ "SKIPPED" \in {"COMPLETED", "SKIPPED"} /\ "SKIPPED" # "COMPLETED"
  BY <1>1 DEF IInv, TypeOK
<1>5. CASE Begin(a, Idle) /\ UNCHANGED <<journal, raced>>
  BY <1>5, CheckEndsInv DEF CheckSession, CheckFrame
<1>6. CASE /\ bars.index = 0
           /\ \E s \in SkippedSessions : Record(a, Head(runs[a].todo), s, "SKIPPED")
           /\ NextPortfolio(a) /\ UNCHANGED raced
  <2>1. RecordFrame
    BY <1>6 DEF CheckSession, RecordFrame
  <2>2. PICK s \in SkippedSessions : Record(a, Head(runs[a].todo), s, "SKIPPED")
    BY <1>6
  <2>3. s \in Nat
    BY <2>2 DEF SkippedSessions, IInv, TypeOK
  <2> QED
    BY <1>1, <1>3, <1>4, <1>6, <2>1, <2>2, <2>3, RecordInv
<1>7. CASE /\ runs[a].kind = "REBALANCE"
           /\ Record(a, Head(runs[a].todo), bars.index, "SKIPPED")
           /\ NextPortfolio(a) /\ UNCHANGED raced
  <2>1. RecordFrame
    BY <1>7 DEF CheckSession, RecordFrame
  <2> QED
    BY <1>1, <1>3, <1>4, <1>7, <2>1, RecordInv
<1>8. CASE /\ bars.index # 0 /\ Decided(runs[a].kind, bars.index)
           /\ NextPortfolio(a) /\ UNCHANGED <<journal, raced>>
  <2>1. CheckFrame
    BY <1>8 DEF CheckSession, CheckFrame
  <2> QED
    BY <1>1, <1>8, <2>1, CheckPassesInv
<1>9. CASE /\ bars.index # 0 /\ ~Decided(runs[a].kind, bars.index)
           /\ Begin(a, [runs[a] EXCEPT !.pc = "decide", !.session = bars.index])
           /\ raced' = IF Deciding(Head(runs[a].todo), runs[a].kind, bars.index)
                         THEN raced \cup {<<Head(runs[a].todo), runs[a].kind, bars.index>>}
                         ELSE raced
           /\ UNCHANGED journal
  <2>1. CheckFrame
    BY <1>9 DEF CheckSession, CheckFrame
  <2> QED
    BY <1>1, <1>9, <2>1, CheckDecidesInv
<1> QED
  BY <1>5, <1>6, <1>7, <1>8, <1>9 DEF CheckSession

-----------------------------------------------------------------------------
(* The specification.                                                      *)

LEMMA InitInv == Init => IInv
<1> SUFFICES ASSUME Init PROVE IInv
  OBVIOUS
<1>1. PICK newest \in 0 .. 1 : bars = [index |-> newest, universe |-> newest]
  BY DEF Init
<1>2. /\ day = 2 /\ slot = 0 /\ journal = <<>> /\ done = {} /\ missed = {}
      /\ \A a \in Actors : runs[a] = Idle
  BY DEF Init, Early
<1>3. DOMAIN journal = {}
  <2>1. DOMAIN <<>> = {}
    OBVIOUS
  <2> QED
    BY <1>2, <2>1
<1>4. \A a \in Actors : runs[a].pc = "idle"
  BY <1>2 DEF Idle
<1>5. TypeOK
  <2>1. /\ runs = [a \in Actors |-> Idle] /\ up = TRUE /\ enabled = TRUE
        /\ nightlyAt = DefaultNightly /\ halfDays = {}
    BY DEF Init
  <2>2. RunsTyped
    BY <2>1 DEF RunsTyped
  <2>3. journal \in Seq(Entry)
    BY <1>2, EmptySeq
  <2> QED
    BY <1>1, <1>2, <2>1, <2>2, <2>3, ScheduleAssumption DEF TypeOK, Slots, Early, Late
<1>6. BarsServed
  BY <1>1, <1>2, ScheduleAssumption DEF BarsServed, Served, InSession, Open, Session
<1>7. RunSound /\ DecidesForOne
  BY <1>4 DEF RunSound, Running, DecidesForOne, Actors
<1>8. JournalDays /\ MissedPast /\ RebalanceWaitsForNextDay /\ DoneMeansDecided
  BY <1>2, <1>3 DEF JournalDays, MissedPast, RebalanceWaitsForNextDay, DoneMeansDecided
<1>9. NightlySound
  BY <1>2, <1>3, <1>4 DEF NightlySound, Running, Actors
<1>10. OnceSound
  BY <1>3, <1>4 DEF OnceSound, DecidedAlone, DecidingAt
<1> QED
  BY <1>5, <1>6, <1>7, <1>8, <1>9, <1>10 DEF IInv

LEMMA NextInv == IInv /\ [Next]_vars => IInv'
<1> SUFFICES ASSUME IInv, [Next]_vars PROVE IInv'
  OBVIOUS
<1>1. CASE Warm
  BY <1>1, WarmInv
<1>2. CASE StartRebalance
  BY <1>2, StartRebalanceInv
<1>3. CASE StartNightly
  BY <1>3, StartNightlyInv
<1>4. CASE Refresh
  BY <1>4, RefreshInv
<1>5. CASE RefreshBreaks
  BY <1>5, RefreshBreaksInv
<1>6. ASSUME NEW a \in Actors,
             CheckSession(a) \/ DecideSession(a) \/ FinishRun(a) \/ RunRaises(a)
      PROVE  IInv'
  BY <1>6, CheckSessionInv, DecideSessionInv, FinishRunInv, RunRaisesInv
<1>7. ASSUME NEW kind \in Kinds, NEW p \in Range(Portfolios), ManualRun(kind, p)
      PROVE  IInv'
  BY <1>7, ManualRunInv
<1>8. CASE DetectMissed
  BY <1>8, DetectMissedInv
<1>9. CASE SetEnabled
  BY <1>9, SetEnabledInv
<1>10. ASSUME NEW at \in NightlyTimes, SetSchedule(at) PROVE IInv'
  BY <1>10, SetScheduleInv
<1>11. CASE TimePasses
  BY <1>11, TimePassesInv
<1>12. CASE Stop
  BY <1>12, StopInv
<1>13. CASE Start
  BY <1>13, StartInv
<1>14. CASE UNCHANGED vars
  <2>1. TypeOK' /\ MissedPast'
    BY <1>14 DEF vars, clock, memory, IInv, TypeOK, RunsTyped, MissedPast
  <2> QED
    BY <1>14, <2>1, QuietInv DEF vars, clock, memory
<1> QED
  BY <1>1, <1>2, <1>3, <1>4, <1>5, <1>6, <1>7, <1>8, <1>9, <1>10, <1>11, <1>12, <1>13,
     <1>14 DEF Next

(* A record that decides nothing reported missed.                          *)
LEMMA NewRecordDecides ==
  ASSUME NEW e, Recorded(e), NEW kind, NEW s, Decided(kind, s)', ~Decided(kind, s)
  PROVE  e.kind = kind /\ e.session = s
<1>1. PICK i \in DOMAIN journal' :
        journal'[i].kind = kind /\ journal'[i].session = s /\ Finished(journal'[i])
  BY DEF Decided, Finished
<1>2. i \notin DOMAIN journal
  BY <1>1 DEF Recorded, Decided
<1>3. journal'[i] = e
  BY <1>1, <1>2 DEF Recorded
<1> QED
  BY <1>1, <1>3

\* The run by hand that is deciding the session has passed its check.
ByHand(kind, s) ==
  runs["manual"].pc = "decide" /\ runs["manual"].kind = kind /\ runs["manual"].session = s

LEMMA MissedKept ==
  ASSUME IInv, Next, NEW m \in missed, Decided(m[1], m[2])', ~Decided(m[1], m[2])
  PROVE  ByHand(m[1], m[2])
<1>1. m[2] \in Nat /\ m[2] < bars.index /\ bars.index \in Nat
  BY DEF IInv, TypeOK, MissedPast
<1>2. PICK a \in Actors : CheckSession(a) \/ DecideSession(a)
  <2>1. journal' = journal => (Decided(m[1], m[2])' <=> Decided(m[1], m[2]))
    BY DEF Decided, Finished
  <2>2. journal' # journal
    BY <2>1
  <2> QED
    BY <2>2 DEF Next, Warm, StartRebalance, StartNightly, Refresh, RefreshBreaks, FinishRun,
                RunRaises, ManualRun, DetectMissed, SetEnabled, SetSchedule, TimePasses, Stop,
                Start
<1>3. runs[a].pc # "idle" /\ RunsTyped
  BY <1>2 DEF CheckSession, DecideSession, IInv, TypeOK
<1>4. runs[a] \in Run
  BY <1>3, InFlight
<1>5. ASSUME runs[a].todo # <<>> PROVE Head(runs[a].todo) \in Range(Portfolios)
  <2>1. runs[a].todo \in Seq(Range(Portfolios))
    BY <1>4 DEF Run
  <2> QED
    BY <1>5, <2>1, HeadTailProperties
<1>6. CASE CheckSession(a)
  <2>1. runs[a].todo # <<>>
    BY <1>6 DEF CheckSession
  <2>2. \/ journal' = journal
        \/ bars.index = 0
        \/ Record(a, Head(runs[a].todo), bars.index, "SKIPPED")
    BY <1>6 DEF CheckSession
  <2>3. journal' # journal
    <3>1. journal' = journal => (Decided(m[1], m[2])' <=> Decided(m[1], m[2]))
      BY DEF Decided, Finished
    <3> QED
      BY <3>1
  <2>4. Record(a, Head(runs[a].todo), bars.index, "SKIPPED")
    BY <1>1, <2>2, <2>3
  <2> DEFINE e == [kind |-> runs[a].kind, portfolio |-> Head(runs[a].todo),
                   session |-> bars.index, day |-> day, status |-> "SKIPPED", by |-> a]
  <2>5. Recorded(e)
    BY <1>1, <1>4, <1>5, <2>1, <2>4, RecordIs DEF IInv
  <2>6. e.session = bars.index
    OBVIOUS
  <2> HIDE DEF e
  <2>7. bars.index = m[2]
    BY <2>5, <2>6, NewRecordDecides
  <2> QED
    BY <1>1, <2>7
<1>7. CASE DecideSession(a)
  <2>1. /\ runs[a].pc = "decide"
        /\ Record(a, Head(runs[a].todo), runs[a].session, "COMPLETED")
    BY <1>7 DEF DecideSession
  <2>2. runs[a].todo # <<>> /\ runs[a].session \in Nat
    BY <1>4, <2>1 DEF IInv, DecidesForOne, Run
  <2> DEFINE e == [kind |-> runs[a].kind, portfolio |-> Head(runs[a].todo),
                   session |-> runs[a].session, day |-> day, status |-> "COMPLETED", by |-> a]
  <2>3. Recorded(e)
    BY <1>4, <1>5, <2>1, <2>2, RecordIs DEF IInv
  <2>4. e.kind = runs[a].kind /\ e.session = runs[a].session
    OBVIOUS
  <2> HIDE DEF e
  <2>5. runs[a].kind = m[1] /\ runs[a].session = m[2]
    BY <2>3, <2>4, NewRecordDecides
  <2>6. a # "scheduler"
    BY <1>1, <2>1, <2>5 DEF IInv, RunSound
  <2> QED
    BY <2>1, <2>5, <2>6 DEF ByHand, Actors
<1> QED
  BY <1>2, <1>6, <1>7

(***************************************************************************)
(* For any portfolios, calendar and schedule, any retries, restarts and    *)
(* runs by hand: a portfolio has at most one completed nightly and one     *)
(* completed rebalance of a session, unless two runs were deciding it at   *)
(* once (execution_service.py, swing_runner.py: the journal is asked       *)
(* before and written after).                                              *)
(***************************************************************************)
THEOREM SessionsDecidedOnce == Spec => []DecidedOnce
<1>1. Init => IInv
  BY InitInv
<1>2. IInv /\ [Next]_vars => IInv'
  BY NextInv
<1>3. IInv => DecidedOnce
  <2> SUFFICES ASSUME IInv, NEW p \in Range(Portfolios), NEW kind \in Kinds,
                      NEW s \in Sessions, <<p, kind, s>> \notin raced
               PROVE  ~(Completions(p, kind, s) > 1)
    BY DEF DecidedOnce
  <2> DEFINE S == {i \in DOMAIN journal : Completed(i, p, kind, s)}
  <2>1. \A i, j \in S : i = j
    <3>1. s \in Nat
      BY ScheduleAssumption
    <3> QED
      BY <3>1 DEF IInv, OnceSound, DecidedAlone
  <2>2. Completions(p, kind, s) = Cardinality(S)
    BY DEF Completions, Completed
  <2> HIDE DEF S
  <2>3. CASE S = {}
    BY <2>2, <2>3, FS_EmptySet
  <2>4. CASE S # {}
    <3>1. PICK x : S = {x}
      BY <2>1, <2>4
    <3>2. Cardinality(S) = 1
      BY <3>1, FS_Singleton
    <3> QED
      BY <2>2, <3>2
  <2> QED
    BY <2>3, <2>4
<1> QED
  BY <1>1, <1>2, <1>3, PTL DEF Spec

(***************************************************************************)
(* The scheduler's rebalance trades on a session that is over, whatever    *)
(* the hour of the nightly and of the restarts, unless the bar of that     *)
(* session was pulled half-finished (scheduler.py, _tick_strategy: the     *)
(* rebalance is bounded at both ends).                                     *)
(***************************************************************************)
THEOREM RebalanceOnFinishedSessions == Spec => []RebalanceWaitsForNextDay
<1>1. Init => IInv
  BY InitInv
<1>2. IInv /\ [Next]_vars => IInv'
  BY NextInv
<1>3. IInv => RebalanceWaitsForNextDay
  BY DEF IInv
<1> QED
  BY <1>1, <1>2, <1>3, PTL DEF Spec

(***************************************************************************)
(* When the nightly is marked done, the newest stored session has its      *)
(* record, unless a nightly by hand ran that day (scheduler.py,            *)
(* _run_nightly).                                                          *)
(***************************************************************************)
THEOREM DoneIsDecided == Spec => []DoneMeansDecided
<1>1. Init => IInv
  BY InitInv
<1>2. IInv /\ [Next]_vars => IInv'
  BY NextInv
<1>3. IInv => DoneMeansDecided
  BY DEF IInv
<1> QED
  BY <1>1, <1>2, <1>3, PTL DEF Spec

(***************************************************************************)
(* What was reported missed is never decided afterwards, but by a run by   *)
(* hand that had passed its check (scheduler.py, detect_missed_runs).      *)
(***************************************************************************)
THEOREM MissedIsFinal == Spec => MissedStaysMissed
<1> DEFINE Stays ==
      \A m \in missed :
        Decided(m[1], m[2])' =>
          \/ Decided(m[1], m[2])
          \/ /\ runs["manual"].pc = "decide"
             /\ runs["manual"].kind = m[1] /\ runs["manual"].session = m[2]
<1>1. Init => IInv
  BY InitInv
<1>2. IInv /\ [Next]_vars => IInv'
  BY NextInv
<1>3. IInv /\ [Next]_vars => [Stays]_vars
  <2> SUFFICES ASSUME IInv, Next PROVE Stays
    OBVIOUS
  <2> QED
    BY MissedKept DEF ByHand
<1>4. Spec => [][Stays]_vars
  <2> HIDE DEF Stays
  <2> QED
    BY <1>1, <1>2, <1>3, PTL DEF Spec
<1> QED
  BY <1>4 DEF MissedStaysMissed
=============================================================================
