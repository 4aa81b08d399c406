---------------------------- MODULE AlertOutbox ----------------------------
(***************************************************************************)
(* The alert outbox: fills, ERROR log records and watched conditions become *)
(* rows, and the dispatcher delivers the rows to Telegram.                  *)
(*                                                                          *)
(* The watcher, the dispatcher and the order path are coroutines with their *)
(* own database sessions. A transaction holds the write lock of the         *)
(* database from its first write to its commit; the rows a session loaded   *)
(* are not refreshed, and an UPDATE writes the columns that changed.        *)
(***************************************************************************)
EXTENDS Integers, Sequences, FiniteSets, FiniteSetsExt, Functions

CONSTANTS
    Window,          \* alert_dedupe_seconds, in passes of the watcher
    Rearm,           \* alert_condition_rearm_seconds
    Reminder,        \* alert_condition_reminder_hours
    MaxAttempts, Batch, Capacity,
    MaxTime, MaxRows,    \* bounds: time; rows of fills and of the condition
    MaxEvents        \* bound: fills, ERROR records, crashes, failed passes, lost
                     \*   answers, the connection switched

ASSUME OutboxAssumption ==
    /\ 0 < Window /\ 0 < Rearm /\ Rearm < Reminder
    /\ MaxAttempts \in Nat \ {0} /\ Batch \in Nat \ {0} /\ Capacity \in Nat \ {0}

VARIABLES
    now,             \* time, in passes of the watcher
    holds,           \* the watched condition is true
    watched,         \* the pass the watcher made last
    sink,            \* records in the log handler's memory
    rows,            \* the alerts table, by id
    connected,       \* a Telegram connection exists and is switched on
    disp,            \* the dispatcher: its pass and what it loaded
    told,            \* history: how often Telegram showed each row
    observed,        \* history: when the watcher last reported the condition
    counted,         \* history: occurrences committed, per key
    unmarked,        \* history: deliveries of each row the table never learned of
    events           \* how much of the bound is used

history == <<told, observed, counted, unmarked>>
vars == <<now, holds, watched, sink, rows, connected, disp, history, events>>

Idle == [pc |-> "idle"]
Never == -10         \* before every window
Event == events < MaxEvents /\ events' = events + 1
Smaller(a, b) == IF a < b THEN a ELSE b

-----------------------------------------------------------------------------
(* raise_alert. *)

\* updated_at moves with every write; only a condition's is ever read.
Touch(row) == IF row.key = "condition" THEN now ELSE row.updated

Row(key, count) ==
    [key |-> key, created |-> now, updated |-> IF key = "condition" THEN now ELSE 0,
     attempts |-> 0, count |-> count,
     status |-> IF connected THEN "PENDING" ELSE "SUPPRESSED",
     gap |-> IF key # "condition" THEN 0
             ELSE IF observed = Never THEN Rearm + 1 ELSE now - observed]

Latest(ids) == IF ids = {} THEN 0 ELSE CHOOSE i \in ids : \A j \in ids : j <= i
OfKey(key) == {i \in DOMAIN rows : rows[i].key = key}

\* latest_open_for_dedupe: a floor between messages.
OpenEvent(key) == Latest({i \in OfKey(key) : rows[i].created >= now - Window})

\* latest_observed_for_dedupe and the reminder: still observed, and not standing
\* for too long.
ObservedByCreation(key) == Latest({i \in OfKey(key) : rows[i].created >= now - Rearm})  \* mutant
Observed(key) == Latest({i \in OfKey(key) : rows[i].updated >= now - Rearm})

OpenCondition(key) ==
    LET row == Observed(key)
    IN  IF row # 0 /\ rows[row].created <= now - Reminder THEN 0 ELSE row

\* n occurrences: the first opens a row unless one is open, the rest collapse
\* onto it.
Raise(key, open, n) ==
    /\ rows' = IF open # 0
                 THEN [rows EXCEPT ![open].count = @ + n, ![open].updated = Touch(rows[open])]
                 ELSE Append(rows, Row(key, n - 1))
    /\ told' = IF open # 0 THEN told ELSE Append(told, 0)
    /\ unmarked' = IF open # 0 THEN unmarked ELSE Append(unmarked, 0)
    /\ counted' = [counted EXCEPT ![key] = @ + n]

Room(open) == open # 0 \/ Len(rows) < MaxRows

-----------------------------------------------------------------------------
(* The producers. While the dispatcher's transaction holds the write lock    *)
(* they wait.                                                                *)

Locked == disp.pc = "sending" /\ disp.done # <<>>

\* One pass of the watcher over the condition.
Watch ==
    /\ watched # now /\ ~Locked
    /\ IF holds
         THEN /\ Room(OpenCondition("condition"))
              /\ Raise("condition", OpenCondition("condition"), 1)
              /\ observed' = now
         ELSE UNCHANGED <<rows, told, unmarked, counted, observed>>
    /\ watched' = now
    /\ UNCHANGED <<now, holds, sink, connected, disp, events>>

\* An execution, in the transaction of the fill; never collapsed.
Fill ==
    /\ ~Locked /\ Len(rows) < MaxRows
    /\ Event
    /\ Raise("fill", 0, 1)
    /\ UNCHANGED <<now, holds, watched, sink, connected, disp, observed>>

\* AlertSinkHandler.emit: a bounded queue that drops its oldest.
Log ==
    /\ Event
    /\ sink' = Smaller(sink + 1, Capacity)
    /\ UNCHANGED <<now, holds, watched, rows, connected, disp, history>>

-----------------------------------------------------------------------------
(* The dispatcher: ingest and commit, then deliver and commit. A pass that    *)
(* finds nothing changes nothing.                                            *)

Drain ==
    /\ disp = Idle /\ sink > 0
    /\ disp' = [pc |-> "ingest", taken |-> sink]
    /\ sink' = 0
    /\ UNCHANGED <<now, holds, watched, rows, connected, history, events>>

Ingest ==
    /\ disp.pc = "ingest"
    /\ Raise("error", OpenEvent("error"), disp.taken)
    /\ disp' = [pc |-> "deliver"]
    /\ UNCHANGED <<now, holds, watched, sink, connected, observed, events>>

\* Oldest first, a batch at a time.
Pending ==
    LET ids == {i \in DOMAIN rows : rows[i].status = "PENDING"}
    IN  SelectSeq([i \in DOMAIN rows |-> i],
                  LAMBDA i : i \in ids /\ Cardinality({j \in ids : j < i}) < Batch)

Delivers == disp.pc = "deliver" \/ (disp = Idle /\ sink = 0 /\ Pending # <<>>)

\* Nothing to deliver, or no connection to deliver it by.
Suppress ==
    /\ Delivers /\ (Pending = <<>> \/ ~connected)
    /\ rows' = [i \in DOMAIN rows |->
                   IF i \in Range(Pending)
                     THEN [rows[i] EXCEPT !.status = "SUPPRESSED", !.updated = Touch(rows[i])]
                     ELSE rows[i]]
    /\ disp' = Idle
    /\ UNCHANGED <<now, holds, watched, sink, connected, history, events>>

\* pending(): the batch and its rows as they are now.
Load ==
    /\ Delivers /\ Pending # <<>> /\ connected
    /\ disp' = [pc |-> "sending", left |-> Pending, done |-> <<>>,
                copies |-> [i \in Range(Pending) |-> [attempts |-> rows[i].attempts,
                                                      count |-> rows[i].count]]]
    /\ UNCHANGED <<now, holds, watched, sink, rows, connected, history, events>>

\* What mark_sent and mark_attempt_failed leave of the loaded copy.
AfterSentUnmarked(copy) == [attempts |-> copy.attempts + 1, status |-> "PENDING"]  \* mutant
AfterSent(copy) == [attempts |-> copy.attempts + 1, status |-> "SENT"]

GivesUp(copy, permanent) == permanent \/ copy.attempts + 1 >= MaxAttempts

AfterFailureUncounted(copy, permanent) ==                      \* mutant
    [attempts |-> copy.attempts, status |-> IF permanent THEN "FAILED" ELSE "PENDING"]
AfterFailure(copy, permanent) ==
    [attempts |-> copy.attempts + 1,
     status |-> IF GivesUp(copy, permanent) THEN "FAILED" ELSE "PENDING"]

Settle(result) == Append(disp.done, [row |-> Head(disp.left), as |-> result])

\* The deliveries of the pass whose marks are not committed, when nothing will
\* commit them.
Forgotten == [i \in DOMAIN unmarked |->
                 unmarked[i] + IF /\ disp.pc = "sending"
                                  /\ \E k \in DOMAIN disp.done :
                                        disp.done[k].row = i /\ disp.done[k].as.status = "SENT"
                                 THEN 1 ELSE 0]

\* send_message answered: delivered; refused for good; failed for now, with the
\* rest of the batch tried or, told to pause, left for the next pass; or
\* delivered with the answer lost.
Send ==
    /\ disp.pc = "sending" /\ disp.left # <<>>
    /\ LET i == Head(disp.left)
           copy == disp.copies[i]
           Then(left, result) == disp' = [disp EXCEPT !.left = left, !.done = Settle(result)]
       IN  \/ /\ Then(Tail(disp.left), AfterSent(copy))
              /\ told' = [told EXCEPT ![i] = @ + 1]
              /\ UNCHANGED <<unmarked, events>>
           \/ /\ \E permanent \in BOOLEAN : Then(Tail(disp.left), AfterFailure(copy, permanent))
              /\ UNCHANGED <<told, unmarked, events>>
           \/ /\ Then(<<>>, AfterFailure(copy, FALSE))
              /\ UNCHANGED <<told, unmarked, events>>
           \/ /\ Event
              /\ Then(Tail(disp.left), AfterFailure(copy, FALSE))
              /\ told' = [told EXCEPT ![i] = @ + 1]
              /\ unmarked' = [unmarked EXCEPT ![i] = @ + 1]
    /\ UNCHANGED <<now, holds, watched, sink, rows, connected, observed, counted>>

\* Only a TelegramError is an answer. Anything else that is raised -- a statement
\* or the commit that found the database locked -- ends the pass, and its
\* session is rolled back: every mark of the batch is gone, the log records it
\* drained too. The mark that raised may be that of a message just delivered.
PassFails ==
    /\ disp # Idle /\ Event
    /\ disp' = Idle
    /\ \/ /\ unmarked' = Forgotten
          /\ UNCHANGED told
       \/ /\ disp.pc = "sending" /\ disp.left # <<>>
          /\ LET i == Head(disp.left)
             IN  /\ told' = [told EXCEPT ![i] = @ + 1]
                 /\ unmarked' = [Forgotten EXCEPT ![i] = @ + 1]
    /\ UNCHANGED <<now, holds, watched, sink, rows, connected, observed, counted>>

\* The one commit of the pass: the columns the dispatcher changed.
WrittenWhole(row, i, result) ==                                \* mutant
    [row EXCEPT !.attempts = result.attempts, !.status = result.status, !.updated = Touch(row),
                !.count = disp.copies[i].count]
Written(row, i, result) ==
    [row EXCEPT !.attempts = result.attempts, !.status = result.status, !.updated = Touch(row)]

Commit ==
    /\ disp.pc = "sending" /\ disp.left = <<>>
    /\ rows' = [i \in DOMAIN rows |->
                   IF \E k \in DOMAIN disp.done : disp.done[k].row = i
                     THEN LET k == CHOOSE k \in DOMAIN disp.done : disp.done[k].row = i
                          IN  Written(rows[i], i, disp.done[k].as)
                     ELSE rows[i]]
    /\ disp' = Idle
    /\ UNCHANGED <<now, holds, watched, sink, connected, history, events>>

-----------------------------------------------------------------------------
\* Memory and whatever was not committed are gone.
Crash ==
    /\ Event
    /\ disp' = Idle /\ sink' = 0
    /\ unmarked' = Forgotten
    /\ UNCHANGED <<now, holds, watched, rows, connected, told, observed, counted>>

Switch ==
    /\ Event
    /\ connected' = ~connected
    /\ UNCHANGED <<now, holds, watched, sink, rows, disp, history>>

\* The condition comes and goes. A pass of the dispatcher is shorter than one
\* of the watcher.
Tick ==
    /\ now < MaxTime /\ watched = now /\ disp = Idle /\ sink = 0
    /\ now' = now + 1
    /\ holds' \in BOOLEAN
    /\ UNCHANGED <<watched, sink, rows, connected, disp, history, events>>

Init ==
    /\ now = 0 /\ holds = TRUE /\ watched = Never /\ sink = 0 /\ rows = <<>>
    /\ connected = TRUE /\ disp = Idle /\ told = <<>> /\ observed = Never
    /\ counted = [key \in {"condition", "fill", "error"} |-> 0]
    /\ unmarked = <<>> /\ events = 0

Dispatch == Drain \/ Ingest \/ Suppress \/ Load \/ Send \/ Commit

Next ==
    \/ Watch \/ Fill \/ Log
    \/ Dispatch \/ PassFails
    \/ Crash \/ Switch \/ Tick

\* The dispatcher's loop survives every failed pass; it is asked of no pass that
\* it fails.
Fairness == WF_vars(Dispatch)

Spec == Init /\ [][Next]_vars /\ Fairness

-----------------------------------------------------------------------------
(* Properties. *)

Keys == {"condition", "fill", "error"}

\* Nobody is told the same thing twice, but for the deliveries of that very row
\* the table never learned of: the process died or the pass failed between the
\* delivery and its commit, or Telegram's answer was lost.
RepeatsAreExplained == \A i \in DOMAIN told : told[i] <= 1 + unmarked[i]

\* A condition is told on its transition: a second row only after it went
\* unobserved for the re-arm window or stood for the reminder interval, however
\* deliveries, failures and restarts fall in between; and one that stands is
\* never silent for longer than that interval.
ConditionCadence ==
    /\ \A i, j \in OfKey("condition") :
         i < j => rows[j].gap > Rearm \/ rows[j].created - rows[i].created >= Reminder
    /\ observed = now => \E i \in OfKey("condition") : rows[i].created > now - Reminder

\* Collapsing loses no occurrence: the rows of a key and their counts add up to
\* everything that was committed for it, though a delivery writes the same rows.
EveryOccurrenceCounted ==
    \A key \in Keys :
        counted[key] = FoldSet(LAMBDA i, sum : sum + 1 + rows[i].count, 0, OfKey(key))

\* The outbox empties: every alert is delivered, given up or suppressed, and
\* what fails does not block what is behind it for good.
AlertsSettle == (Pending # <<>>) ~> (Pending = <<>>)

\* "A fill must never block on somebody else's HTTP."
NobodyWaitsOnTelegram == ~(Locked /\ disp.left # <<>>)
=============================================================================
