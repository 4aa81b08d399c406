----------------------------- MODULE BookFanout -----------------------------
(***************************************************************************)
(* The in-memory market book and its way to the browsers: ticks and greeks *)
(* write rows, the broadcaster flushes what changed into one bounded queue *)
(* per client, each web socket sends its queue, each browser merges what   *)
(* arrives. A client that does not keep up loses its queue and is due a    *)
(* snapshot.                                                               *)
(*                                                                         *)
(* A price is the number of the write that left it: a higher one is newer. *)
(* A queued row is the book's own dict, read when it is serialised; only a *)
(* client that renders no depth is given a copy. A row that is dropped and *)
(* made again is another dict, so a row is named by the write that made it.*)
(***************************************************************************)
EXTENDS Integers, Sequences, FiniteSets, SequencesExt

CONSTANTS
    Names,        \* instruments
    Clients,      \* browser tabs
    MaxQueue,     \* fanout.max_client_queue
    MaxWrites,    \* bound: writes to the book
    MaxEvents     \* bound: rows dropped, clients configured, lost, statuses

ASSUME FanoutAssumption == MaxQueue \in Nat \ {0} /\ MaxWrites \in Nat /\ MaxEvents \in Nat

VARIABLES
    rows,         \* the dict of each instrument in the book, 0 for none
    price,        \* what each dict says now
    deep,         \* the dicts with market depth
    dirty,        \* instruments changed since the last flush
    client,       \* the server's side of each tab
    shown,        \* what each browser shows of each instrument, 0 for nothing
    orphans,      \* clients registered whose socket is gone
    overlooked,   \* history: tabs whose due snapshot was cancelled unsent
    writes, events

book == <<rows, price, deep, dirty, writes>>
vars == <<book, client, shown, orphans, overlooked, events>>

Event == events < MaxEvents /\ events' = events + 1
InBook == {name \in Names : rows[name] # 0}

-----------------------------------------------------------------------------
(* The book. *)

\* A packet, greeks, or a contract's description: the row is made if there is
\* none, and is dirty.
Written(name, depth) ==
    LET now == writes + 1
        row == IF rows[name] = 0 THEN now ELSE rows[name]
    IN  /\ writes < MaxWrites /\ writes' = now
        /\ rows' = [rows EXCEPT ![name] = row]
        /\ price' = [price EXCEPT ![row] = now]
        /\ deep' = IF depth THEN deep \cup {row} ELSE deep
        /\ dirty' = dirty \cup {name}

ApplyPacket(name) == Written(name, TRUE) /\ UNCHANGED <<client, shown, orphans, overlooked, events>>
Describe(name) == Written(name, FALSE) /\ UNCHANGED <<client, shown, orphans, overlooked, events>>

\* Instruments leave the subscription, or all of them on a reconfiguration.
Forget(names) ==
    /\ Event
    /\ rows' = [name \in Names |-> IF name \in names THEN 0 ELSE rows[name]]
    /\ dirty' = dirty \ names
    /\ UNCHANGED <<price, deep, writes, client, shown, orphans, overlooked>>

-----------------------------------------------------------------------------
(* What is sent. *)

Gone == [pc |-> "gone"]
NoMessage == [kind |-> "none", rows |-> {}]
Connected(c) == client[c].pc # "gone"

\* A view without depth gets a copy of the row, cut; any other the row itself.
Project(c, name) ==
    [name |-> name, row |-> rows[name],
     copied |-> IF client[c].lite /\ rows[name] \in deep THEN price[rows[name]] ELSE 0]

Message(kind, c, names) == [kind |-> kind, rows |-> {Project(c, name) : name \in names}]
Snapshot(c) == Message("snapshot", c, InBook \cap client[c].wants)
Update(c) == Message("update", c, dirty \cap InBook \cap client[c].wants)

\* json.dumps, when the message leaves the queue: the rows as they are by then.
Serialised(message) ==
    [message EXCEPT !.rows = {[name |-> r.name,
                               price |-> IF r.copied # 0 THEN r.copied ELSE price[r.row]] : r \in @}]

\* A snapshot replaces what the browser shows, an update is merged into it.
Merge(screen, message) ==
    [name \in Names |->
        IF \E r \in message.rows : r.name = name
          THEN (CHOOSE r \in message.rows : r.name = name).price
        ELSE IF message.kind = "snapshot" THEN 0
        ELSE screen[name]]

\* What a browser will show when all that is on its way has arrived.
OnItsWay(c) == <<client[c].sending>> \o [i \in DOMAIN client[c].queue |-> Serialised(client[c].queue[i])]
WillShow(c) == FoldLeft(Merge, shown[c], OnItsWay(c))
Told(c) == \A name \in (InBook \cap client[c].wants) \ dirty : WillShow(c)[name] = price[rows[name]]

-----------------------------------------------------------------------------
(* The broadcaster. *)

\* A full queue is thrown away and the client is due a snapshot.
OverflowedQuietly(s) == [s EXCEPT !.queue = <<>>]              \* mutant
Overflowed(s) == [s EXCEPT !.queue = <<>>, !.needsSnapshot = TRUE]

Put(s, message) ==
    IF Len(s.queue) < MaxQueue THEN [s EXCEPT !.queue = Append(@, message)] ELSE Overflowed(s)

Flushed(c) ==
    LET s == client[c]
    IN  IF s.needsSnapshot THEN Put([s EXCEPT !.needsSnapshot = FALSE], Snapshot(c))
        ELSE Put(s, Update(c))

Flush ==
    /\ client' = [c \in Clients |-> IF Connected(c) THEN Flushed(c) ELSE client[c]]
    /\ overlooked' = {c \in overlooked : ~client[c].needsSnapshot}
    /\ dirty' = {}
    /\ UNCHANGED <<rows, price, deep, writes, shown, orphans, events>>

\* The feed's state changed: every client is told; one whose queue is full keeps it.
SendStatus ==
    /\ Event
    /\ client' = [c \in Clients |->
          IF ~Connected(c) THEN client[c]
          ELSE IF Len(client[c].queue) < MaxQueue
            THEN [client[c] EXCEPT !.queue = Append(@, [kind |-> "status", rows |-> {}])]
          ELSE [client[c] EXCEPT !.needsSnapshot = TRUE]]
    /\ UNCHANGED <<book, shown, orphans, overlooked>>

-----------------------------------------------------------------------------
(* One web socket. *)

\* Registered, then primed with a snapshot of its own; flushes go on meanwhile.
NewClient == [pc |-> "priming", wants |-> Names, lite |-> FALSE, queue |-> <<>>,
              needsSnapshot |-> TRUE, sending |-> NoMessage]

Register(c) ==
    /\ ~Connected(c)
    /\ client' = [client EXCEPT ![c] = [NewClient EXCEPT !.sending =
          [kind |-> "snapshot", rows |-> {[name |-> name, price |-> price[rows[name]]] : name \in InBook}]]]
    /\ UNCHANGED <<book, shown, orphans, overlooked, events>>

\* The priming snapshot is out: the flag is cleared, whoever set it.
Primed(c) ==
    /\ client[c].pc = "priming"
    /\ shown' = [shown EXCEPT ![c] = Merge(@, client[c].sending)]
    /\ client' = [client EXCEPT ![c].pc = "open", ![c].sending = NoMessage,
                                ![c].needsSnapshot = FALSE]
    /\ overlooked' = IF client[c].needsSnapshot /\ ~Told(c) THEN overlooked \cup {c} ELSE overlooked
    /\ UNCHANGED <<book, orphans, events>>

\* send_loop: one message at a time, the next when the socket has taken it.
Send(c) ==
    /\ client[c].pc = "open" /\ client[c].sending = NoMessage /\ client[c].queue # <<>>
    /\ client' = [client EXCEPT ![c].queue = Tail(@),
                                ![c].sending = Serialised(Head(client[c].queue))]
    /\ UNCHANGED <<book, shown, orphans, overlooked, events>>

Deliver(c) ==
    /\ client[c].pc = "open" /\ client[c].sending # NoMessage
    /\ shown' = [shown EXCEPT ![c] = Merge(@, client[c].sending)]
    /\ client' = [client EXCEPT ![c].sending = NoMessage]
    /\ UNCHANGED <<book, orphans, overlooked, events>>

\* receive_loop: the view changes, or asks for a snapshot as it is.
ConfiguredQuietly(s, wants, lite) == [s EXCEPT !.wants = wants, !.lite = lite]    \* mutant
Configured(s, wants, lite) == [s EXCEPT !.wants = wants, !.lite = lite, !.needsSnapshot = TRUE]

Configure(c) ==
    /\ client[c].pc = "open" /\ Event
    /\ \E wants \in SUBSET Names \ {{}}, lite \in BOOLEAN :
          client' = [client EXCEPT ![c] = Configured(@, wants, lite)]
    /\ UNCHANGED <<book, shown, orphans, overlooked>>

\* The tab is closed or its socket lost: unregister. The page keeps what it shows.
\* The priming snapshot is sent before the try: its failure leaves the client
\* registered, and flushes go on filling and emptying a queue nobody reads.
Disconnect(c) ==
    /\ Connected(c) /\ Event
    /\ client' = [client EXCEPT ![c] = Gone]
    /\ orphans' = IF client[c].pc = "priming" THEN orphans + 1 ELSE orphans
    /\ overlooked' = overlooked \ {c}
    /\ UNCHANGED <<book, shown>>

-----------------------------------------------------------------------------
Init ==
    /\ rows = [name \in Names |-> 0] /\ price = [row \in 1..MaxWrites |-> 0]
    /\ deep = {} /\ dirty = {} /\ writes = 0 /\ events = 0
    /\ client = [c \in Clients |-> Gone]
    /\ shown = [c \in Clients |-> [name \in Names |-> 0]]
    /\ orphans = 0 /\ overlooked = {}

Next ==
    \/ \E name \in Names : ApplyPacket(name) \/ Describe(name)
    \/ \E names \in SUBSET Names : Forget(names)
    \/ Flush \/ SendStatus
    \/ \E c \in Clients : Register(c) \/ Primed(c) \/ Send(c) \/ Deliver(c)
                          \/ Configure(c) \/ Disconnect(c)

\* The broadcaster's loop comes round every 100 ms. A sender woken by a message
\* runs before the loop sleeps again, however often its queue is emptied: SF.
\* A connected browser takes what is sent to it, in its own time.
Fairness ==
    /\ WF_vars(Flush)
    /\ \A c \in Clients : WF_vars(Primed(c)) /\ SF_vars(Send(c)) /\ WF_vars(Deliver(c))

Spec == Init /\ [][Next]_vars /\ Fairness

-----------------------------------------------------------------------------
(* Properties. *)

\* "a client that cannot keep up is resynchronised with a fresh snapshot instead
\* of being allowed to back up": a client not due a snapshot has every flushed
\* change on its way, whatever overflows, reconfigurations and rows made anew
\* came between -- except one whose due snapshot the end of its priming cancelled.
NothingUntold ==
    \A c \in Clients \ overlooked :
        Connected(c) /\ ~client[c].needsSnapshot => Told(c)

\* A connected browser comes to show the book, and stays so once the book rests:
\* being slow, losing its queue, its socket or its view never leaves it on an old
\* price.
CatchesUp ==
    \A c \in Clients, name \in Names :
        <>[](Connected(c) /\ c \notin overlooked /\ rows[name] # 0 /\ name \in client[c].wants
                => shown[c][name] = price[rows[name]])

\* "Prices from the previous mode must not linger": what a browser shows is in
\* the book, or on its way to be.
NothingLingers ==
    \A c \in Clients, name \in Names : <>[](Connected(c) /\ shown[c][name] # 0 => rows[name] # 0)

\* "One row per connected browser tab": the health page lists the tabs there are,
\* through every loss and reconnection.
Tabs == Cardinality({c \in Clients : Connected(c)})
Listed == Tabs + orphans
OneRowPerTab == Listed = Tabs

\* A stale queue is never shown "as though it were current": no browser goes back
\* to an older price of the row it shows.
NeverGoesBack ==
    [][\A c \in Clients, name \in Names :
          shown'[c][name] # 0 => shown'[c][name] >= shown[c][name]]_vars
=============================================================================
