------------------------- MODULE FeedSubscriptions -------------------------
(***************************************************************************)
(* The one connection to the market data feed: the manager that decides    *)
(* which instruments are subscribed, the client that owns the web socket,  *)
(* and the vendor's server at its other end.                               *)
(*                                                                         *)
(* They are coroutines of one process: what runs between two awaits is one *)
(* step. A resync reads its targets from the database, then compares them  *)
(* with the subscription, unsubscribes, subscribes, and forgets; several   *)
(* can be under way. Messages to the server go through one FIFO lock.      *)
(***************************************************************************)
EXTENDS Integers, Sequences, FiniteSets

CONSTANTS
    Names,           \* instruments
    Universe,        \* those a universe strategy subscribes in its window
    Holdable, Pinnable,  \* those a strategy may hold, and a rebalance may pin
    Limit,           \* max_instruments_per_connection
    Requests,        \* coroutines that change the targets and resync
    MaxEvents        \* bound: trades, requests, failures, drops, restarts

ASSUME FeedAssumption ==
    /\ Universe \subseteq Names /\ Holdable \subseteq Names /\ Pinnable \subseteq Names
    /\ Limit \in Nat /\ "loop" \notin Requests /\ "conn" \notin Requests

Resyncs == Requests \cup {"loop"}
Idle == [pc |-> "idle"]

VARIABLES
    running,         \* a strategy is enabled
    time,            \* the hours of the strategies: "shut", "open", "window"
    held, pinned,    \* open positions; what a rebalance keeps warm
    seen,            \* _window_open: the window as the loop last saw it
    resync,          \* each resync under way
    described,       \* the instruments the book has metadata for
    conn,            \* the socket: "none" without a feed, "down", "up", "dead"
                     \*   (open and silent), "stopped" for good
    step,            \* where _connect_and_consume is
    client,          \* _subscribed, the two pending queues, the send lock's queue
    server,          \* what the server streams on this connection
    crossed,         \* history: instruments in a pending queue that were then
                     \*   subscribed or unsubscribed the other way
    disturbed,       \* history: two resyncs overlapped, or one failed
    events           \* how much of MaxEvents is used

world == <<time, running, held, pinned>>
vars == <<world, seen, resync, described, conn, step, client, server, crossed, disturbed, events>>

Event == events < MaxEvents /\ events' = events + 1
Empty == [subscribed |-> {}, toSubscribe |-> {}, toUnsubscribe |-> {}, outbox |-> <<>>]

-----------------------------------------------------------------------------
(* The client's subscription calls. Until the first await they are one step: *)
(* with a socket the message queues for the lock, without one it is pending. *)

Linked == conn \in {"up", "dead"}
Message(owner, kind, ids) == [owner |-> owner, kind |-> kind, ids |-> ids]
Waits(c, owner) == \E i \in DOMAIN c.outbox : c.outbox[i].owner = owner

Unsubscribe(c, ids, owner) ==
    LET existing == ids \cap c.subscribed
        less == [c EXCEPT !.subscribed = @ \ existing]
    IN  IF existing = {} THEN c
        ELSE IF Linked THEN [less EXCEPT !.outbox = Append(@, Message(owner, "unsubscribe", existing))]
        ELSE [less EXCEPT !.toUnsubscribe = @ \cup existing]

\* All of the new instruments, or none when they exceed the limit.
Fits(c, new) == Cardinality(c.subscribed) + Cardinality(new) <= Limit

Subscribe(c, ids, owner) ==
    LET new == ids \ c.subscribed
        more == [c EXCEPT !.subscribed = @ \cup new]
    IN  IF new = {} \/ ~Fits(c, new) THEN c
        ELSE IF Linked THEN [more EXCEPT !.outbox = Append(@, Message(owner, "subscribe", new))]
        ELSE [more EXCEPT !.toSubscribe = @ \cup new]

\* An instrument moved against what is pending for it.
Crossing(c, d) ==
    (c.toSubscribe \cap (c.subscribed \ d.subscribed))
        \cup (c.toUnsubscribe \cap (d.subscribed \ c.subscribed))

-----------------------------------------------------------------------------
(* The resync. *)

\* What the enabled strategies want now.
Targets == IF running THEN held \cup pinned \cup (IF time = "window" THEN Universe ELSE {})
           ELSE {}

Others(p) == \E q \in Resyncs \ {p} : resync[q] # Idle

Begin(p) ==
    /\ resync[p] = Idle /\ conn # "none"
    /\ resync' = [resync EXCEPT ![p] = [pc |-> "resolve"]]
    /\ disturbed' = (disturbed \/ Others(p))

Abort(p) == resync' = [resync EXCEPT ![p] = Idle] /\ disturbed' = TRUE

\* _resolve_targets, with its database session; an error ends the resync.
Resolve(p) ==
    /\ resync[p].pc = "resolve"
    /\ \/ /\ resync' = [resync EXCEPT ![p] = [pc |-> "apply", targets |-> Targets]]
          /\ UNCHANGED <<disturbed, events>>
       \/ Event /\ Abort(p)
    /\ UNCHANGED <<world, seen, described, conn, step, client, server, crossed>>

\* subscribe, and when it did not have to wait, forget.
SubscribeThenForget(p, c, add, remove, known) ==
    LET d == Subscribe(c, add, p)
    IN  /\ client' = d
        /\ crossed' = (crossed \cup Crossing(client, d))
        /\ disturbed' = (disturbed \/ ~(add \subseteq d.subscribed))
        /\ IF Waits(d, p)
             THEN /\ resync' = [resync EXCEPT ![p] = [pc |-> "sub", remove |-> remove]]
                  /\ described' = known
             ELSE /\ resync' = [resync EXCEPT ![p] = Idle]
                  /\ described' = known \ remove

\* The diff against the live subscription, and the unsubscriptions first.
ToRemove(targets) == client.subscribed \ targets
ToAdd(targets) == targets \ client.subscribed

Apply(p) ==
    /\ resync[p].pc = "apply" /\ conn # "none"
    /\ LET targets == resync[p].targets
           c == Unsubscribe(client, ToRemove(targets), p)
       IN  IF targets = {} /\ running
             THEN /\ resync' = [resync EXCEPT ![p] = Idle]
                  /\ UNCHANGED <<client, described, crossed, disturbed>>
           ELSE IF Waits(c, p)
             THEN /\ client' = c
                  /\ resync' = [resync EXCEPT ![p] = [pc |-> "unsub", add |-> ToAdd(targets),
                                                      remove |-> ToRemove(targets)]]
                  /\ described' = described \cup targets
                  /\ crossed' = (crossed \cup Crossing(client, c))
                  /\ UNCHANGED disturbed
           ELSE SubscribeThenForget(p, c, ToAdd(targets), ToRemove(targets), described \cup targets)
    /\ UNCHANGED <<world, seen, conn, step, server, events>>

\* The feed was taken away between the two.
ApplyToNothing(p) ==
    /\ resync[p].pc = "apply" /\ conn = "none"
    /\ Abort(p)
    /\ UNCHANGED <<world, seen, described, conn, step, client, server, crossed, events>>

Unsubscribed(p) ==
    /\ resync[p].pc = "unsub" /\ ~Waits(client, p)
    /\ SubscribeThenForget(p, client, resync[p].add, resync[p].remove, described)
    /\ UNCHANGED <<world, seen, conn, step, server, events>>

Subscribed(p) ==
    /\ resync[p].pc = "sub" /\ ~Waits(client, p)
    /\ resync' = [resync EXCEPT ![p] = Idle]
    /\ described' = described \ resync[p].remove
    /\ UNCHANGED <<world, seen, conn, step, client, server, crossed, disturbed, events>>

-----------------------------------------------------------------------------
(* What starts a resync. *)

\* _universe_window_changed: the edge is noted before the resync it starts.
Window == IF time = "window" THEN "open" ELSE "closed"
EdgeWhileLinked == running /\ seen # Window /\ Linked          \* mutant
Edge == running /\ seen # Window

LoopNotices ==
    /\ Edge
    /\ Begin("loop")
    /\ seen' = Window
    /\ UNCHANGED <<world, described, conn, step, client, server, crossed, events>>

\* A rebalance pins and unpins, an operator switches the strategies, a caller
\* asks for it; the resync of the loop that follows a drift of the price is one
\* of these too.
Request(p) ==
    /\ Event /\ Begin(p)
    /\ \/ pinned' \in SUBSET Pinnable /\ UNCHANGED running
       \/ running' = ~running /\ UNCHANGED pinned
    /\ UNCHANGED <<time, held, seen, described, conn, step, client, server, crossed>>

-----------------------------------------------------------------------------
(* The socket. *)

\* _wants_a_connection.
WantsPending == client.toSubscribe # {}                        \* mutant
Wants == client.subscribed # {} \/ client.toSubscribe # {}

\* Connected: everything that was subscribed before is sent again, then what is
\* pending, subscriptions first.
ResubscriptionPending(c) == c                                  \* mutant
Resubscription(c) ==
    IF c.subscribed = {} THEN c
    ELSE [c EXCEPT !.outbox = <<Message("conn", "subscribe", c.subscribed)>>]

Connect ==
    /\ conn = "down" /\ Wants
    /\ conn' = "up" /\ step' = "resubscribing"
    /\ client' = Resubscription(client)
    /\ server' = {}
    /\ UNCHANGED <<world, seen, resync, described, crossed, disturbed, events>>

FlushSubscribe ==
    /\ Linked /\ step = "resubscribing" /\ ~Waits(client, "conn")
    /\ step' = "subscribing"
    /\ client' = IF client.toSubscribe = {} THEN client
                 ELSE [client EXCEPT !.toSubscribe = {},
                          !.outbox = Append(@, Message("conn", "subscribe", client.toSubscribe))]
    /\ UNCHANGED <<world, seen, resync, described, conn, server, crossed, disturbed, events>>

FlushUnsubscribe ==
    /\ Linked /\ step = "subscribing" /\ ~Waits(client, "conn")
    /\ step' = "unsubscribing"
    /\ client' = IF client.toUnsubscribe = {} THEN client
                 ELSE [client EXCEPT !.toUnsubscribe = {},
                          !.outbox = Append(@, Message("conn", "unsubscribe", client.toUnsubscribe))]
    /\ UNCHANGED <<world, seen, resync, described, conn, server, crossed, disturbed, events>>

Flushed ==
    /\ Linked /\ step = "unsubscribing" /\ ~Waits(client, "conn")
    /\ step' = "consuming"
    /\ UNCHANGED <<world, seen, resync, described, conn, client, server, crossed, disturbed, events>>

\* The holder of the lock sends; a dead socket swallows it.
Send ==
    /\ Linked /\ client.outbox # <<>>
    /\ LET message == Head(client.outbox)
       IN  server' = IF conn = "dead" THEN server
                     ELSE IF message.kind = "subscribe" THEN server \cup message.ids
                     ELSE server \ message.ids
    /\ client' = [client EXCEPT !.outbox = Tail(@)]
    /\ UNCHANGED <<world, seen, resync, described, conn, step, crossed, disturbed, events>>

\* Without the socket every queued send raises, and ends the resync it is of.
Unlink(state) ==
    /\ conn' = state /\ step' = "consuming"
    /\ client' = [client EXCEPT !.outbox = <<>>]
    /\ server' = {}
    /\ resync' = [p \in Resyncs |-> IF Waits(client, p) THEN Idle ELSE resync[p]]
    /\ disturbed' = (disturbed \/ \E p \in Resyncs : Waits(client, p))
    /\ crossed' = (crossed \cap (client.toSubscribe \cup client.toUnsubscribe))

Drop ==
    /\ Linked /\ Event /\ Unlink("down")
    /\ UNCHANGED <<world, seen, described>>

\* A disconnect code that reconnecting cannot fix.
Stop ==
    /\ conn = "up" /\ Event /\ Unlink("stopped")
    /\ UNCHANGED <<world, seen, described>>

Die ==
    /\ conn = "up" /\ Event
    /\ conn' = "dead"
    /\ UNCHANGED <<world, seen, resync, described, step, client, server, crossed, disturbed>>

\* Silence means something only while something is subscribed and the market of
\* an enabled strategy is open; what a switched-off one left behind may be silent.
EnabledMarketOpen == running /\ time # "shut"

Watchdog ==
    /\ conn = "dead" /\ client.subscribed # {} /\ EnabledMarketOpen
    /\ Unlink("down")
    /\ UNCHANGED <<world, seen, described, events>>

\* reconfigure: the loop, its resync and the client are torn down, the book is
\* cleared; then start builds a new client and resyncs before it starts the loop.
SameClient == client                                           \* mutant
NewClient == Empty

TearDown ==
    /\ conn # "none" /\ Event
    /\ conn' = "none" /\ step' = "consuming"
    /\ client' = NewClient /\ server' = {} /\ described' = {} /\ crossed' = {}
    /\ resync' = [p \in Resyncs |-> IF p = "loop" \/ Waits(client, p) THEN Idle ELSE resync[p]]
    /\ disturbed' = (disturbed \/ \E p \in Requests : resync[p] # Idle)
    /\ UNCHANGED <<world, seen>>

Start ==
    /\ conn = "none"
    /\ conn' = "down"
    /\ resync' = [resync EXCEPT !["loop"] = [pc |-> "resolve"]]
    /\ disturbed' = (disturbed \/ Others("loop"))
    /\ UNCHANGED <<world, seen, described, step, client, server, crossed, events>>

-----------------------------------------------------------------------------
Trade ==
    /\ Event
    /\ held' \in SUBSET Holdable /\ held' # held
    /\ UNCHANGED <<time, running, pinned, seen, resync, described, conn, step, client, server,
                   crossed, disturbed>>

\* The loop notices an edge, and its resync is over, long before the next edge.
Clock ==
    /\ resync["loop"] = Idle /\ (running => seen = Window)
    /\ \/ time = "shut" /\ time' = "open"
       \/ time = "open" /\ time' \in {"window", "shut"}
       \/ time = "window" /\ time' = "open"
    /\ UNCHANGED <<running, held, pinned, seen, resync, described, conn, step, client, server,
                   crossed, disturbed, events>>

Init ==
    /\ time = "shut" /\ running = TRUE /\ held \in SUBSET Holdable /\ pinned = {}
    /\ seen = "unknown" /\ resync = [p \in Resyncs |-> Idle]
    /\ described = {} /\ conn = "none" /\ step = "consuming" /\ client = Empty
    /\ server = {} /\ crossed = {} /\ disturbed = FALSE /\ events = 0

Next ==
    \/ \E p \in Resyncs : Resolve(p) \/ Apply(p) \/ ApplyToNothing(p) \/ Unsubscribed(p) \/ Subscribed(p)
    \/ LoopNotices \/ \E p \in Requests : Request(p)
    \/ Connect \/ FlushSubscribe \/ FlushUnsubscribe \/ Flushed \/ Send
    \/ Drop \/ Stop \/ Die \/ Watchdog \/ TearDown \/ Start
    \/ Trade \/ Clock

\* The coroutines run, an attempt to connect succeeds in the end, and the loops
\* of the manager and of the watchdog come round.
Fairness ==
    /\ \A p \in Resyncs : WF_vars(Resolve(p)) /\ WF_vars(Apply(p)) /\ WF_vars(ApplyToNothing(p))
                          /\ WF_vars(Unsubscribed(p)) /\ WF_vars(Subscribed(p))
    /\ WF_vars(LoopNotices) /\ WF_vars(Connect) /\ WF_vars(Send)
    /\ WF_vars(FlushSubscribe) /\ WF_vars(FlushUnsubscribe) /\ WF_vars(Flushed)
    /\ WF_vars(Watchdog) /\ WF_vars(Start)

Spec == Init /\ [][Next]_vars /\ Fairness

-----------------------------------------------------------------------------
(* Properties. *)

Settled == conn = "up" /\ step = "consuming" /\ client.outbox = <<>>

\* Once connected and with nothing left to send, the server streams exactly what
\* the client believes it is subscribed to, through drops, dead sockets and
\* resyncs in the middle of a reconnection -- except an instrument moved against
\* what was pending for it.
WireAgrees ==
    Settled => \A name \in Names \ crossed : name \in server <=> name \in client.subscribed

\* Everything subscribed has its contract's metadata in the book, as long as
\* resyncs neither overlap nor fail.
SubscribedIsDescribed == ~disturbed => client.subscribed \subseteq described

\* With the market of an enabled strategy open and something subscribed, the
\* stream is back in the end whatever was lost: the socket, its silence noticed,
\* or its subscriptions.
StreamComesBack ==
    (conn \in {"down", "up", "dead"} /\ client.subscribed # {} /\ EnabledMarketOpen)
        ~> (\/ Settled \/ client.subscribed = {} \/ conn \in {"none", "stopped"}
            \/ ~EnabledMarketOpen)

\* The window of a universe strategy reaches the subscription while it is open,
\* unless a resync failed or overlapped another.
WindowReachesFeed ==
    (time = "window" /\ running)
        ~> (Universe \subseteq client.subscribed \/ time # "window" \/ ~running \/ disturbed)

\* "the universe joins the feed in the afternoon and leaves again after the scan".
WindowReleases ==
    seen = "closed" /\ time # "window" /\ events = 0 /\ ~disturbed /\ resync["loop"] = Idle
        => client.subscribed \subseteq held \cup pinned
=============================================================================
