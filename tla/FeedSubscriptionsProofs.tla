---------------------- MODULE FeedSubscriptionsProofs ----------------------
(***************************************************************************)
(* The feed's one connection, for any instruments, any limit and any       *)
(* number of requests and of events: a server with nothing left to receive *)
(* streams what the client believes, and what is subscribed is described.  *)
(***************************************************************************)
EXTENDS FeedSubscriptions, SequenceTheorems, TLAPS

Messages == [owner : Resyncs \cup {"conn"}, kind : {"subscribe", "unsubscribe"},
             ids : SUBSET Names]
Clients == [subscribed : SUBSET Names, toSubscribe : SUBSET Names,
            toUnsubscribe : SUBSET Names, outbox : Seq(Messages)]
Resolving == [pc : {"resolve"}]
Applying == [pc : {"apply"}, targets : SUBSET Names]
Unsubscribing == [pc : {"unsub"}, add : SUBSET Names, remove : SUBSET Names]
Subscribing == [pc : {"sub"}, remove : SUBSET Names]
Jobs == {Idle} \cup Resolving \cup Applying \cup Unsubscribing \cup Subscribing

TypeOK ==
  /\ held \in SUBSET Names /\ pinned \in SUBSET Names
  /\ resync \in [Resyncs -> Jobs]
  /\ client \in Clients

-----------------------------------------------------------------------------
(* The inductive invariant.                                                *)

\* The last message of the queue about instrument n is of this kind.
Told(queue, n, kind) ==
  \E i \in DOMAIN queue : /\ n \in queue[i].ids /\ queue[i].kind = kind
                          /\ \A j \in DOMAIN queue : j > i => n \notin queue[j].ids
Untold(queue, n) == \A i \in DOMAIN queue : n \notin queue[i].ids

\* What the server does with n once it has received the queue.
WillStream(queue, streamed, n) ==
  Told(queue, n, "subscribe") \/ (Untold(queue, n) /\ n \in streamed)
WillStop(queue, streamed, n) ==
  Told(queue, n, "unsubscribe") \/ (Untold(queue, n) /\ n \notin streamed)

\* What is pending for n is what the client believes of it.
Pending(c, n) ==
  /\ n \in c.toSubscribe => n \in c.subscribed
  /\ n \in c.toUnsubscribe => n \notin c.subscribed

\* Unless it is pending, what the client believes of n is on its way.
Wired(c, streamed, n) ==
  /\ n \in c.subscribed /\ n \notin c.toSubscribe => WillStream(c.outbox, streamed, n)
  /\ n \notin c.subscribed /\ n \notin c.toUnsubscribe => WillStop(c.outbox, streamed, n)

\* Nothing is queued without a socket; what was pending is flushed in order.
SocketSound ==
  /\ ~Linked => client.outbox = <<>>
  /\ Linked /\ step # "resubscribing" => client.toSubscribe = {}
  /\ Linked /\ step \in {"unsubscribing", "consuming"} => client.toUnsubscribe = {}

WireSound ==
  \A n \in Names \ crossed :
    Pending(client, n) /\ (conn = "up" => Wired(client, server, n))

\* One resync at a time, until two overlap or one fails.
Alone ==
  ~disturbed => \A p, q \in Resyncs : resync[p] # Idle /\ resync[q] # Idle => p = q

\* What a resync is about to subscribe is described already, and what it is
\* about to forget is neither subscribed nor about to be.
Plan(r, c, known) ==
  /\ r.pc = "unsub" => /\ r.add \subseteq known
                       /\ r.remove \cap (c.subscribed \cup r.add) = {}
  /\ r.pc = "sub" => r.remove \cap c.subscribed = {}
DescribedSound ==
  ~disturbed => /\ client.subscribed \subseteq described
                /\ \A p \in Resyncs : Plan(resync[p], client, described)

IInv == TypeOK /\ SocketSound /\ WireSound /\ Alone /\ DescribedSound

-----------------------------------------------------------------------------
(* The queue of the send lock.                                             *)

(* A message queued for n is the last about it; one that is not about n    *)
(* changes nothing for it.                                                 *)
LEMMA AppendTells ==
  ASSUME NEW q \in Seq(Messages), NEW m \in Messages, NEW n, NEW kind,
         NEW r, r = Append(q, m)
  PROVE  /\ r \in Seq(Messages)
         /\ n \in m.ids => Told(r, n, m.kind)
         /\ n \notin m.ids => (Told(q, n, kind) => Told(r, n, kind))
         /\ n \notin m.ids => (Untold(q, n) => Untold(r, n))
<1> DEFINE k == Len(q)
<1>1. k \in Nat /\ DOMAIN q = 1 .. k
  BY LenProperties
<1>2. r \in Seq(Messages) /\ Len(r) = k + 1 /\ r[k + 1] = m
      /\ \A i \in 1 .. k : r[i] = q[i]
  BY AppendProperties
<1>3. DOMAIN r = 1 .. (k + 1)
  BY <1>2, LenProperties
<1> HIDE DEF k
<1>4. k + 1 \in DOMAIN r /\ (\A j \in DOMAIN r : ~ (j > k + 1))
      /\ (\A j \in DOMAIN r : j = k + 1 \/ j \in DOMAIN q)
      /\ DOMAIN q \subseteq DOMAIN r
  BY <1>1, <1>3
<1>5. n \in m.ids => Told(r, n, m.kind)
  BY <1>2, <1>4 DEF Told
<1>6. \A j \in DOMAIN q : r[j] = q[j]
  BY <1>1, <1>2
<1>7. n \notin m.ids => (Told(q, n, kind) => Told(r, n, kind))
  BY <1>2, <1>4, <1>6 DEF Told
<1>8. n \notin m.ids => (Untold(q, n) => Untold(r, n))
  BY <1>2, <1>4, <1>6 DEF Untold
<1> QED
  BY <1>2, <1>5, <1>7, <1>8

(* What the first message said of n still stands unless a later one is     *)
(* about it.                                                               *)
LEMMA SendTells ==
  ASSUME NEW q \in Seq(Messages), q # <<>>, NEW n, NEW kind,
         NEW m, m = Head(q), NEW r, r = Tail(q)
  PROVE  /\ r \in Seq(Messages) /\ m \in Messages
         /\ Told(q, n, kind) =>
              \/ Told(r, n, kind)
              \/ Untold(r, n) /\ n \in m.ids /\ m.kind = kind
         /\ Untold(q, n) => Untold(r, n) /\ n \notin m.ids
<1> DEFINE k == Len(q)
<1>1. k \in Nat /\ DOMAIN q = 1 .. k /\ k # 0
  BY LenProperties, EmptySeq
<1>2. r \in Seq(Messages) /\ m \in Messages /\ m = q[1]
  BY HeadTailProperties, ElementOfSeq, <1>1
<1>3. Len(r) = k - 1 /\ \A i \in 1 .. Len(r) : r[i] = q[i + 1]
  BY HeadTailProperties
<1>4. DOMAIN r = 1 .. (k - 1)
  BY <1>2, <1>3, LenProperties
<1> HIDE DEF k
<1>5. 1 \in DOMAIN q /\ (\A i \in DOMAIN r : i + 1 \in DOMAIN q /\ r[i] = q[i + 1])
  BY <1>1, <1>3, <1>4
<1>6. Untold(q, n) => Untold(r, n) /\ n \notin m.ids
  BY <1>2, <1>5 DEF Untold
<1>7. ASSUME Told(q, n, kind)
      PROVE  Told(r, n, kind) \/ (Untold(r, n) /\ n \in m.ids /\ m.kind = kind)
  <2>1. PICK i \in DOMAIN q : /\ n \in q[i].ids /\ q[i].kind = kind
                              /\ \A j \in DOMAIN q : j > i => n \notin q[j].ids
    BY <1>7 DEF Told
  <2>2. CASE i = 1
    <3>1. \A j \in DOMAIN r : j + 1 \in DOMAIN q /\ j + 1 > 1
      BY <1>1, <1>4
    <3>2. Untold(r, n)
      BY <2>1, <2>2, <3>1, <1>5 DEF Untold
    <3> QED
      BY <2>1, <2>2, <3>2, <1>2
  <2>3. CASE i # 1
    <3>1. i - 1 \in DOMAIN r /\ i = (i - 1) + 1
      BY <1>1, <1>4, <2>3
    <3>2. r[i - 1] = q[i]
      BY <3>1, <1>5
    <3>3. \A j \in DOMAIN r : j > i - 1 => j + 1 > i
      BY <1>1, <1>4
    <3>4. \A j \in DOMAIN r : j > i - 1 => n \notin r[j].ids
      BY <2>1, <3>3, <1>5
    <3> QED
      BY <2>1, <3>1, <3>2, <3>4 DEF Told
  <2> QED
    BY <2>2, <2>3
<1> QED
  BY <1>2, <1>6, <1>7

(* An empty queue says nothing.                                            *)
LEMMA NothingQueued == \A n : Untold(<<>>, n)
  BY EmptySeq DEF Untold

\* The client that sent is d, and the server after it streams what is in after.
SentOn(c, d, streamed, after, n) ==
  /\ d \in Clients /\ d.subscribed = c.subscribed
  /\ d.toSubscribe = c.toSubscribe /\ d.toUnsubscribe = c.toUnsubscribe
  /\ Wired(c, streamed, n) => Wired(d, after, n)

(* Sending the first message keeps the promise of the queue.               *)
LEMMA SendKeeps ==
  ASSUME NEW c \in Clients, c.outbox # <<>>, NEW streamed, NEW n,
         NEW m, m = Head(c.outbox), NEW d, d = [c EXCEPT !.outbox = Tail(@)],
         NEW after, after = IF m.kind = "subscribe" THEN streamed \cup m.ids
                            ELSE streamed \ m.ids
  PROVE  SentOn(c, d, streamed, after, n)
<1> DEFINE r == Tail(c.outbox)
<1>1. c.outbox \in Seq(Messages)
  BY DEF Clients
<1>2. r \in Seq(Messages) /\ m \in Messages
  BY <1>1, SendTells
<1>4. \A kind : Told(c.outbox, n, kind) =>
                  Told(r, n, kind) \/ (Untold(r, n) /\ n \in m.ids /\ m.kind = kind)
  BY <1>1, SendTells
<1>5. Untold(c.outbox, n) => Untold(r, n) /\ n \notin m.ids
  BY <1>1, SendTells
<1>8. d = [c EXCEPT !.outbox = r]
  OBVIOUS
<1> HIDE DEF r
<1>3. d \in Clients /\ d.outbox = r /\ d.subscribed = c.subscribed
      /\ d.toSubscribe = c.toSubscribe /\ d.toUnsubscribe = c.toUnsubscribe
  BY <1>2, <1>8 DEF Clients
<1>6. WillStream(c.outbox, streamed, n) => WillStream(r, after, n)
  BY <1>4, <1>5 DEF WillStream
<1>7. WillStop(c.outbox, streamed, n) => WillStop(r, after, n)
  BY <1>4, <1>5 DEF WillStop
<1>9. Wired(c, streamed, n) => Wired(d, after, n)
  BY <1>3, <1>6, <1>7 DEF Wired
<1> QED
  BY <1>3, <1>9 DEF SentOn

-----------------------------------------------------------------------------
(* The client's calls. *)

(* A message queued for instruments that are neither believed nor pending  *)
(* the other way: what the client believes is on its way again.            *)
LEMMA QueuedIsWired ==
  ASSUME NEW c \in Clients, NEW d \in Clients, NEW m \in Messages, NEW n, NEW streamed,
         d.outbox = Append(c.outbox, m),
         n \notin m.ids => /\ n \in d.subscribed <=> n \in c.subscribed
                           /\ n \in d.toSubscribe <=> n \in c.toSubscribe
                           /\ n \in d.toUnsubscribe <=> n \in c.toUnsubscribe,
         n \in m.ids => (n \in d.subscribed <=> m.kind = "subscribe"),
         Wired(c, streamed, n)
  PROVE  Wired(d, streamed, n)
<1>1. c.outbox \in Seq(Messages) /\ m.kind \in {"subscribe", "unsubscribe"}
  BY DEF Clients, Messages
<1> DEFINE r == d.outbox
<1>2. /\ n \in m.ids => Told(r, n, m.kind)
      /\ \A kind : n \notin m.ids => (Told(c.outbox, n, kind) => Told(r, n, kind))
      /\ n \notin m.ids => (Untold(c.outbox, n) => Untold(r, n))
  BY <1>1, AppendTells
<1> HIDE DEF r
<1>3. CASE n \in m.ids
  <2>1. m.kind = "subscribe" => WillStream(r, streamed, n)
    BY <1>2, <1>3 DEF WillStream
  <2>2. m.kind # "subscribe" => WillStop(r, streamed, n)
    BY <1>1, <1>2, <1>3 DEF WillStop
  <2> QED
    BY <2>1, <2>2, <1>3 DEF Wired, r
<1>4. CASE n \notin m.ids
  <2>1. WillStream(c.outbox, streamed, n) => WillStream(r, streamed, n)
    BY <1>2, <1>4 DEF WillStream
  <2>2. WillStop(c.outbox, streamed, n) => WillStop(r, streamed, n)
    BY <1>2, <1>4 DEF WillStop
  <2> QED
    BY <2>1, <2>2, <1>4 DEF Wired, r
<1> QED
  BY <1>3, <1>4

\* The client went from b to c by what it queued, or left pending.
Follows(b, c) ==
  /\ Linked => c.toSubscribe = b.toSubscribe /\ c.toUnsubscribe = b.toUnsubscribe
  /\ ~Linked => c.outbox = b.outbox
  /\ \A n : n \notin Crossing(b, c) /\ Pending(b, n) => Pending(c, n)
  /\ \A n, streamed : Linked /\ Wired(b, streamed, n) => Wired(c, streamed, n)

\* The client lost ids, or gained some of them.
Lost(c, d, ids) ==
  /\ d.subscribed = c.subscribed \ ids /\ d.toSubscribe = c.toSubscribe
  /\ d.toUnsubscribe \subseteq c.toUnsubscribe \cup (ids \cap c.subscribed)
Gained(c, d, ids) ==
  c.subscribed \subseteq d.subscribed /\ d.subscribed \subseteq c.subscribed \cup ids

(* unsubscribe (dhan_feed_client.py).                                      *)
LEMMA UnsubscribeKeeps ==
  ASSUME NEW c \in Clients, NEW ids \in SUBSET Names, NEW owner \in Resyncs,
         NEW d, d = Unsubscribe(c, ids, owner)
  PROVE  d \in Clients /\ Lost(c, d, ids) /\ Follows(c, d)
<1> DEFINE existing == ids \cap c.subscribed
           m == Message(owner, "unsubscribe", existing)
           less == [c EXCEPT !.subscribed = @ \ existing]
<1>1. CASE existing = {}
  <2>1. d = c
    BY <1>1 DEF Unsubscribe
  <2>2. c.subscribed \ ids = c.subscribed
    BY <1>1
  <2> QED
    BY <2>1, <2>2 DEF Follows, Lost
<1>2. CASE existing # {} /\ Linked
  <2>1. d = [less EXCEPT !.outbox = Append(@, m)]
    BY <1>2 DEF Unsubscribe
  <2>2. m \in Messages /\ m.ids = existing /\ m.kind = "unsubscribe"
    BY DEF Messages, Message, Clients
  <2>3. PICK q : q = Append(c.outbox, m)
    OBVIOUS
  <2>4. q \in Seq(Messages)
    BY <2>2, <2>3, AppendTells DEF Clients
  <2>5. c = [subscribed |-> c.subscribed, toSubscribe |-> c.toSubscribe,
             toUnsubscribe |-> c.toUnsubscribe, outbox |-> c.outbox]
    BY DEF Clients
  <2>6. PICK sub : sub = c.subscribed \ existing
    OBVIOUS
  <2>7. less = [c EXCEPT !.subscribed = sub]
    BY <2>6
  <2>8. d = [subscribed |-> sub, toSubscribe |-> c.toSubscribe,
             toUnsubscribe |-> c.toUnsubscribe, outbox |-> q]
    BY <2>1, <2>3, <2>5, <2>7
  <2>9. sub \in SUBSET Names /\ sub = c.subscribed \ ids
    BY <2>6 DEF Clients
  <2>10. d \in Clients
    BY <2>4, <2>8, <2>9 DEF Clients
  <2>11. ASSUME NEW n, n \notin Crossing(c, d), Pending(c, n) PROVE Pending(d, n)
    BY <2>8, <2>9, <2>11 DEF Pending, Crossing
  <2>12. ASSUME NEW n, NEW streamed, Wired(c, streamed, n) PROVE Wired(d, streamed, n)
    <3>1. n \notin m.ids => /\ n \in d.subscribed <=> n \in c.subscribed
                            /\ n \in d.toSubscribe <=> n \in c.toSubscribe
                            /\ n \in d.toUnsubscribe <=> n \in c.toUnsubscribe
      BY <2>2, <2>6, <2>8
    <3>2. n \in m.ids => (n \in d.subscribed <=> m.kind = "subscribe")
      BY <2>2, <2>6, <2>8
    <3>3. d.outbox = Append(c.outbox, m) /\ m \in Messages
      BY <2>2, <2>3, <2>8
    <3> HIDE DEF m
    <3> QED
      BY <3>1, <3>2, <3>3, <2>10, <2>12, QueuedIsWired
  <2> QED
    BY <1>2, <2>8, <2>9, <2>10, <2>11, <2>12 DEF Follows, Lost
<1>3. CASE existing # {} /\ ~Linked
  <2>1. d = [less EXCEPT !.toUnsubscribe = @ \cup existing]
    BY <1>3 DEF Unsubscribe
  <2>2. d.subscribed = c.subscribed \ ids /\ d.toSubscribe = c.toSubscribe
        /\ d.toUnsubscribe = c.toUnsubscribe \cup existing /\ d.outbox = c.outbox
    BY <2>1 DEF Clients
  <2>3. d \in Clients
    BY <2>1 DEF Clients
  <2>4. ASSUME NEW n, n \notin Crossing(c, d), Pending(c, n) PROVE Pending(d, n)
    BY <2>2, <2>4 DEF Pending, Crossing
  <2> QED
    BY <1>3, <2>2, <2>3, <2>4 DEF Follows, Lost
<1> QED
  BY <1>1, <1>2, <1>3

(* subscribe (dhan_feed_client.py).                                        *)
LEMMA SubscribeKeeps ==
  ASSUME NEW c \in Clients, NEW ids \in SUBSET Names, NEW owner \in Resyncs,
         NEW d, d = Subscribe(c, ids, owner)
  PROVE  d \in Clients /\ Gained(c, d, ids) /\ Follows(c, d)
<1> DEFINE new == ids \ c.subscribed
           m == Message(owner, "subscribe", new)
           more == [c EXCEPT !.subscribed = @ \cup new]
<1>1. CASE new = {} \/ ~Fits(c, new)
  <2>1. d = c
    BY <1>1 DEF Subscribe
  <2> QED
    BY <2>1 DEF Follows, Gained
<1>2. CASE ~ (new = {} \/ ~Fits(c, new)) /\ Linked
  <2>1. d = [more EXCEPT !.outbox = Append(@, m)]
    BY <1>2 DEF Subscribe
  <2>2. m \in Messages /\ m.ids = new /\ m.kind = "subscribe"
    BY DEF Messages, Message, Clients
  <2>3. PICK q : q = Append(c.outbox, m)
    OBVIOUS
  <2>4. q \in Seq(Messages)
    BY <2>2, <2>3, AppendTells DEF Clients
  <2>5. c = [subscribed |-> c.subscribed, toSubscribe |-> c.toSubscribe,
             toUnsubscribe |-> c.toUnsubscribe, outbox |-> c.outbox]
    BY DEF Clients
  <2>6. PICK sub : sub = c.subscribed \cup new
    OBVIOUS
  <2>7. more = [c EXCEPT !.subscribed = sub]
    BY <2>6
  <2>8. d = [subscribed |-> sub, toSubscribe |-> c.toSubscribe,
             toUnsubscribe |-> c.toUnsubscribe, outbox |-> q]
    BY <2>1, <2>3, <2>5, <2>7
  <2>9. sub \in SUBSET Names
    BY <2>6 DEF Clients
  <2>10. d \in Clients
    BY <2>4, <2>8, <2>9 DEF Clients
  <2>11. ASSUME NEW n, n \notin Crossing(c, d), Pending(c, n) PROVE Pending(d, n)
    BY <2>6, <2>8, <2>11 DEF Pending, Crossing
  <2>12. ASSUME NEW n, NEW streamed, Wired(c, streamed, n) PROVE Wired(d, streamed, n)
    <3>1. n \notin m.ids => /\ n \in d.subscribed <=> n \in c.subscribed
                            /\ n \in d.toSubscribe <=> n \in c.toSubscribe
                            /\ n \in d.toUnsubscribe <=> n \in c.toUnsubscribe
      BY <2>2, <2>6, <2>8
    <3>2. n \in m.ids => (n \in d.subscribed <=> m.kind = "subscribe")
      BY <2>2, <2>6, <2>8
    <3>3. d.outbox = Append(c.outbox, m) /\ m \in Messages
      BY <2>2, <2>3, <2>8
    <3> HIDE DEF m
    <3> QED
      BY <3>1, <3>2, <3>3, <2>10, <2>12, QueuedIsWired
  <2> QED
    BY <1>2, <2>6, <2>8, <2>10, <2>11, <2>12 DEF Follows, Gained
<1>3. CASE ~ (new = {} \/ ~Fits(c, new)) /\ ~Linked
  <2>1. d = [more EXCEPT !.toSubscribe = @ \cup new]
    BY <1>3 DEF Subscribe
  <2>2. d.subscribed = c.subscribed \cup new /\ d.toUnsubscribe = c.toUnsubscribe
        /\ d.toSubscribe = c.toSubscribe \cup new /\ d.outbox = c.outbox
    BY <2>1 DEF Clients
  <2>3. d \in Clients
    BY <2>1 DEF Clients
  <2>4. ASSUME NEW n, n \notin Crossing(c, d), Pending(c, n) PROVE Pending(d, n)
    BY <2>2, <2>4 DEF Pending, Crossing
  <2> QED
    BY <1>3, <2>2, <2>3, <2>4 DEF Follows, Gained
<1> QED
  BY <1>1, <1>2, <1>3

(* One call after another, when neither moves what the other left pending. *)
LEMMA FollowsOn ==
  ASSUME NEW b \in Clients, NEW c \in Clients, NEW d \in Clients,
         Follows(b, c), Follows(c, d),
         Crossing(b, c) \cup Crossing(c, d) \subseteq Crossing(b, d)
  PROVE  Follows(b, d)
<1>1. ASSUME NEW n, n \notin Crossing(b, d), Pending(b, n) PROVE Pending(d, n)
  <2>1. n \notin Crossing(b, c) /\ n \notin Crossing(c, d)
    BY <1>1
  <2> QED
    BY <1>1, <2>1 DEF Follows
<1>2. ASSUME NEW n, NEW streamed, Linked, Wired(b, streamed, n) PROVE Wired(d, streamed, n)
  BY <1>2 DEF Follows
<1> QED
  BY <1>1, <1>2 DEF Follows

(* What the calls do to the wire.                                          *)
LEMMA CallsKeepWire ==
  ASSUME SocketSound, WireSound, NEW d \in Clients, Follows(client, d), client' = d,
         crossed \cup Crossing(client, d) \subseteq crossed',
         UNCHANGED <<conn, step, server>>
  PROVE  SocketSound' /\ WireSound'
<1>1. SocketSound'
  BY DEF SocketSound, Linked, Follows
<1>2. ASSUME NEW n \in Names, n \notin crossed'
      PROVE  Pending(d, n) /\ (conn = "up" => Wired(d, server, n))
  <2>1. n \notin crossed /\ n \notin Crossing(client, d)
    BY <1>2
  <2>2. Pending(client, n) /\ (conn = "up" => Wired(client, server, n))
    BY <2>1 DEF WireSound
  <2> QED
    BY <2>1, <2>2 DEF Follows, Linked
<1>3. WireSound'
  BY <1>2 DEF WireSound
<1> QED
  BY <1>1, <1>3

-----------------------------------------------------------------------------
(* The resync, step by step. *)

(* What a resync in each of its states is.                                 *)
LEMMA JobsAre ==
  ASSUME NEW r \in Jobs
  PROVE  /\ r.pc = "apply" => r.targets \in SUBSET Names
         /\ r.pc = "unsub" => r.add \in SUBSET Names /\ r.remove \in SUBSET Names
         /\ r.pc = "sub" => r.remove \in SUBSET Names
         /\ r.pc # "idle" <=> r # Idle
  BY DEF Jobs, Idle, Resolving, Applying, Unsubscribing, Subscribing

(* What resyncs plan, when one of them changes and the client does not.    *)
LEMMA OneResync ==
  ASSUME IInv, NEW p \in Resyncs, NEW r \in Jobs,
         resync' = [resync EXCEPT ![p] = r], client' = client, described' = described,
         ~disturbed' => ~disturbed,
         ~disturbed' /\ r # Idle => resync[p] # Idle \/ (\A q \in Resyncs : resync[q] = Idle),
         ~disturbed => Plan(r, client, described)
  PROVE  resync' \in [Resyncs -> Jobs] /\ Alone' /\ DescribedSound'
<1>1. resync \in [Resyncs -> Jobs]
  BY DEF IInv, TypeOK
<1>2. resync' \in [Resyncs -> Jobs] /\ resync'[p] = r
      /\ \A q \in Resyncs \ {p} : resync'[q] = resync[q]
  BY <1>1
<1>3. Alone'
  <2>1. SUFFICES ASSUME ~disturbed', NEW a \in Resyncs, NEW b \in Resyncs,
                        resync'[a] # Idle, resync'[b] # Idle
                 PROVE  a = b
    BY DEF Alone
  <2>2. \A q, s \in Resyncs : resync[q] # Idle /\ resync[s] # Idle => q = s
    BY <2>1 DEF IInv, Alone
  <2>3. CASE r = Idle
    BY <1>2, <2>1, <2>2, <2>3
  <2>4. CASE r # Idle /\ resync[p] # Idle
    BY <1>2, <2>1, <2>2, <2>4
  <2>5. CASE \A q \in Resyncs : resync[q] = Idle
    BY <1>2, <2>1, <2>5
  <2> QED
    BY <2>1, <2>3, <2>4, <2>5
<1>4. DescribedSound'
  <2>1. SUFFICES ASSUME ~disturbed'
                 PROVE  client.subscribed \subseteq described
                        /\ \A q \in Resyncs : Plan(resync'[q], client, described)
    BY DEF DescribedSound
  <2>2. client.subscribed \subseteq described
        /\ \A q \in Resyncs : Plan(resync[q], client, described)
    BY <2>1 DEF IInv, DescribedSound
  <2> QED
    BY <1>2, <2>1, <2>2
<1> QED
  BY <1>2, <1>3, <1>4

(* Nothing is due when nothing of the connection and the resyncs changes.  *)
LEMMA QuietInv ==
  ASSUME IInv, held' \in SUBSET Names, pinned' \in SUBSET Names,
         UNCHANGED <<resync, described, conn, step, client, server, crossed, disturbed>>
  PROVE  IInv'
<1>1. TypeOK'
  BY DEF IInv, TypeOK
<1>2. SocketSound' /\ WireSound'
  BY DEF IInv, SocketSound, WireSound, Linked
<1>3. Alone' /\ DescribedSound'
  BY DEF IInv, Alone, DescribedSound
<1> QED
  BY <1>1, <1>2, <1>3 DEF IInv

(* A step of one resync that does not touch the connection.                *)
LEMMA ResyncStep ==
  ASSUME IInv, NEW p \in Resyncs, NEW r \in Jobs,
         resync' = [resync EXCEPT ![p] = r],
         held' \in SUBSET Names, pinned' \in SUBSET Names,
         UNCHANGED <<described, conn, step, client, server, crossed>>,
         ~disturbed' => ~disturbed,
         ~disturbed' /\ r # Idle => resync[p] # Idle \/ (\A q \in Resyncs : resync[q] = Idle),
         ~disturbed => Plan(r, client, described)
  PROVE  IInv'
<1>1. client' = client /\ described' = described
      /\ UNCHANGED <<conn, step, client, server, crossed>>
  OBVIOUS
<1>2. resync' \in [Resyncs -> Jobs] /\ Alone' /\ DescribedSound'
  BY <1>1, OneResync
<1>3. TypeOK'
  BY <1>1, <1>2 DEF IInv, TypeOK
<1>4. SocketSound' /\ WireSound'
  BY <1>1 DEF IInv, SocketSound, WireSound, Linked
<1> QED
  BY <1>2, <1>3, <1>4 DEF IInv

LEMMA BeginInv ==
  ASSUME IInv, NEW p \in Resyncs, Begin(p),
         held' \in SUBSET Names, pinned' \in SUBSET Names,
         UNCHANGED <<described, conn, step, client, server, crossed>>
  PROVE  IInv'
<1> DEFINE r == [pc |-> "resolve"]
<1>1. r \in Jobs /\ resync' = [resync EXCEPT ![p] = r]
  BY DEF Begin, Jobs, Resolving
<1>2. Plan(r, client, described)
  BY DEF Plan
<1>3. ~disturbed' => ~disturbed /\ \A q \in Resyncs : resync[q] = Idle
  BY DEF Begin, Others
<1> HIDE DEF r
<1> QED
  BY <1>1, <1>2, <1>3, ResyncStep

LEMMA AbortInv ==
  ASSUME IInv, NEW p \in Resyncs, Abort(p),
         UNCHANGED <<world, described, conn, step, client, server, crossed>>
  PROVE  IInv'
<1>1. Idle \in Jobs /\ resync' = [resync EXCEPT ![p] = Idle] /\ disturbed'
  BY DEF Abort, Jobs
<1>2. Plan(Idle, client, described)
  BY DEF Plan, Idle
<1>3. held' \in SUBSET Names /\ pinned' \in SUBSET Names
  BY DEF world, IInv, TypeOK
<1>4. UNCHANGED <<described, conn, step, client, server, crossed>>
  OBVIOUS
<1> QED
  BY <1>1, <1>2, <1>3, <1>4, ResyncStep

LEMMA ResolveInv ==
  ASSUME IInv, NEW p \in Resyncs, Resolve(p)
  PROVE  IInv'
<1>1. CASE Abort(p)
  <2>1. UNCHANGED <<world, described, conn, step, client, server, crossed>>
    BY DEF Resolve
  <2> QED
    BY <1>1, <2>1, AbortInv
<1>2. CASE ~Abort(p)
  <2> DEFINE r == [pc |-> "apply", targets |-> Targets]
  <2>1. resync' = [resync EXCEPT ![p] = r] /\ disturbed' = disturbed
    BY <1>2 DEF Resolve
  <2>2. Targets \in SUBSET Names
    BY FeedAssumption DEF Targets, IInv, TypeOK
  <2>3. r \in Jobs /\ Plan(r, client, described)
    BY <2>2 DEF Jobs, Applying, Plan
  <2>4. resync[p] # Idle
    BY DEF Resolve, Idle
  <2>5. UNCHANGED <<world, described, conn, step, client, server, crossed>>
    BY DEF Resolve
  <2>6. held' \in SUBSET Names /\ pinned' \in SUBSET Names
    BY <2>5 DEF world, IInv, TypeOK
  <2> HIDE DEF r
  <2> QED
    BY <2>1, <2>3, <2>4, <2>5, <2>6, ResyncStep
<1> QED
  BY <1>1, <1>2

(* subscribe, then forget: the client goes to d, which c led to.           *)
LEMMA ForgetInv ==
  ASSUME IInv, NEW p \in Resyncs, resync[p] # Idle,
         NEW c \in Clients, Follows(client, c),
         NEW add \in SUBSET Names, NEW remove \in SUBSET Names, NEW known,
         SubscribeThenForget(p, c, add, remove, known),
         Crossing(client, c) \cup Crossing(c, Subscribe(c, add, p))
           \subseteq Crossing(client, Subscribe(c, add, p)),
         ~disturbed => /\ c.subscribed \cup add \subseteq known
                       /\ remove \cap (c.subscribed \cup add) = {},
         UNCHANGED <<world, conn, step, server>>
  PROVE  IInv'
<1>0. PICK d : d = Subscribe(c, add, p)
  OBVIOUS
<1>1. client' = d /\ crossed' = (crossed \cup Crossing(client, d))
      /\ (~disturbed' => ~disturbed)
  BY <1>0 DEF SubscribeThenForget
<1>2. d \in Clients /\ d.subscribed \subseteq c.subscribed \cup add /\ Follows(c, d)
  BY <1>0, SubscribeKeeps DEF Gained
<1>3. client \in Clients /\ resync \in [Resyncs -> Jobs]
  BY DEF IInv, TypeOK
<1>4. Follows(client, d)
  BY <1>0, <1>2, <1>3, FollowsOn
<1>5. SocketSound' /\ WireSound'
  <2>1. UNCHANGED <<conn, step, server>> /\ SocketSound /\ WireSound
    BY DEF IInv
  <2> QED
    BY <1>1, <1>2, <1>4, <2>1, CallsKeepWire
<1>6. PICK r, z :
        /\ r \in Jobs
        /\ resync' = [resync EXCEPT ![p] = r] /\ described' = z
        /\ ~disturbed => Plan(r, d, z) /\ d.subscribed \subseteq z
  <2>1. CASE Waits(d, p)
    <3> DEFINE r == [pc |-> "sub", remove |-> remove]
    <3>1. resync' = [resync EXCEPT ![p] = r] /\ described' = known
      BY <1>0, <2>1 DEF SubscribeThenForget
    <3>2. r \in Jobs
      BY DEF Jobs, Subscribing
    <3>3. ~disturbed => Plan(r, d, known) /\ d.subscribed \subseteq known
      BY <1>2 DEF Plan
    <3> QED
      BY <3>1, <3>2, <3>3
  <2>2. CASE ~Waits(d, p)
    <3>1. resync' = [resync EXCEPT ![p] = Idle] /\ described' = known \ remove
      BY <1>0, <2>2 DEF SubscribeThenForget
    <3>2. Idle \in Jobs /\ \A y : Plan(Idle, d, y)
      BY DEF Jobs, Plan, Idle
    <3>3. ~disturbed => d.subscribed \subseteq known \ remove
      BY <1>2
    <3> QED
      BY <3>1, <3>2, <3>3
  <2> QED
    BY <2>1, <2>2
<1>7. resync' \in [Resyncs -> Jobs] /\ resync'[p] = r
      /\ \A q \in Resyncs \ {p} : resync'[q] = resync[q]
  BY <1>3, <1>6
<1>8. TypeOK'
  BY <1>1, <1>2, <1>7 DEF IInv, TypeOK, world
<1>9. ~disturbed => \A q \in Resyncs \ {p} : resync[q] = Idle
  BY DEF IInv, Alone
<1>10. Alone'
  BY <1>1, <1>7, <1>9 DEF Alone
<1>11. DescribedSound'
  <2>1. \A y : Plan(Idle, d, y)
    BY DEF Plan, Idle
  <2>2. ~disturbed => \A q \in Resyncs : Plan(resync'[q], d, z)
    BY <1>6, <1>7, <1>9, <2>1
  <2> QED
    BY <1>1, <1>6, <2>2 DEF DescribedSound
<1> QED
  BY <1>5, <1>8, <1>10, <1>11 DEF IInv

LEMMA ApplyInv ==
  ASSUME IInv, NEW p \in Resyncs, Apply(p)
  PROVE  IInv'
<1> DEFINE targets == resync[p].targets
           add == ToAdd(targets)
           remove == ToRemove(targets)
           known == described \cup targets
<1>1. client \in Clients /\ resync \in [Resyncs -> Jobs] /\ resync[p].pc = "apply"
  BY DEF IInv, TypeOK, Apply
<1>2. targets \in SUBSET Names /\ resync[p] # Idle
  BY <1>1, JobsAre
<1>3. /\ add \in SUBSET Names /\ remove \in SUBSET Names
      /\ add = targets \ client.subscribed /\ remove = client.subscribed \ targets
  BY <1>1, <1>2 DEF ToAdd, ToRemove, Clients
<1>4. PICK c : c = Unsubscribe(client, remove, p)
  OBVIOUS
<1>5. /\ c \in Clients /\ Follows(client, c)
      /\ c.subscribed = client.subscribed \ remove /\ c.toSubscribe = client.toSubscribe
      /\ c.toUnsubscribe \subseteq client.toUnsubscribe \cup (remove \cap client.subscribed)
  <2>1. c \in Clients /\ Lost(client, c, remove) /\ Follows(client, c)
    BY <1>1, <1>3, <1>4, UnsubscribeKeeps
  <2> QED
    BY <2>1 DEF Lost
<1>6. UNCHANGED <<world, conn, step, server>>
  BY DEF Apply
<1>7. \/ /\ resync' = [resync EXCEPT ![p] = Idle]
         /\ UNCHANGED <<client, described, crossed, disturbed>>
      \/ /\ client' = c
         /\ resync' = [resync EXCEPT ![p] = [pc |-> "unsub", add |-> add, remove |-> remove]]
         /\ described' = known /\ crossed' = (crossed \cup Crossing(client, c))
         /\ UNCHANGED disturbed
      \/ SubscribeThenForget(p, c, add, remove, known)
  BY <1>4 DEF Apply
<1>8. c.subscribed \cup add \subseteq targets /\ remove \cap (c.subscribed \cup add) = {}
  BY <1>3, <1>5
<1> HIDE DEF targets, add, remove
<1>9. CASE /\ resync' = [resync EXCEPT ![p] = Idle]
           /\ UNCHANGED <<client, described, crossed, disturbed>>
  <2>1. Idle \in Jobs /\ Plan(Idle, client, described)
    BY DEF Jobs, Plan, Idle
  <2>2. held' \in SUBSET Names /\ pinned' \in SUBSET Names
    BY <1>6 DEF world, IInv, TypeOK
  <2>3. UNCHANGED <<described, conn, step, client, server, crossed>>
        /\ (~disturbed' => ~disturbed)
    BY <1>6, <1>9
  <2> QED
    BY <1>9, <2>1, <2>2, <2>3, ResyncStep
<1>10. CASE /\ client' = c
            /\ resync' = [resync EXCEPT ![p] = [pc |-> "unsub", add |-> add, remove |-> remove]]
            /\ described' = known /\ crossed' = (crossed \cup Crossing(client, c))
            /\ UNCHANGED disturbed
  <2> DEFINE r == [pc |-> "unsub", add |-> add, remove |-> remove]
  <2>1. r \in Jobs /\ Plan(r, c, known) /\ c.subscribed \subseteq known
    <3>1. r \in Jobs
      BY <1>3 DEF Jobs, Unsubscribing
    <3>2. r.pc = "unsub" /\ r.add = add /\ r.remove = remove
      OBVIOUS
    <3> HIDE DEF r
    <3>3. Plan(r, c, known)
      BY <1>8, <3>2 DEF Plan
    <3> QED
      BY <1>8, <3>1, <3>3
  <2>2. resync' = [resync EXCEPT ![p] = r]
    BY <1>10
  <2> HIDE DEF r, known
  <2>3. resync' \in [Resyncs -> Jobs] /\ resync'[p] = r
        /\ \A q \in Resyncs \ {p} : resync'[q] = resync[q]
    BY <1>1, <2>1, <2>2
  <2>4. SocketSound' /\ WireSound'
    <3>1. UNCHANGED <<conn, step, server>> /\ SocketSound /\ WireSound
      BY <1>6 DEF IInv
    <3> QED
      BY <1>5, <1>10, <3>1, CallsKeepWire
  <2>5. TypeOK'
    BY <1>5, <1>6, <1>10, <2>3 DEF IInv, TypeOK, world
  <2>6. ~disturbed => \A q \in Resyncs \ {p} : resync[q] = Idle
    BY <1>2 DEF IInv, Alone
  <2>7. Alone'
    BY <1>10, <2>3, <2>6 DEF Alone
  <2>8. DescribedSound'
    <3>1. Plan(Idle, c, known)
      BY DEF Plan, Idle
    <3>2. ~disturbed => \A q \in Resyncs : Plan(resync'[q], c, known)
      BY <2>1, <2>3, <2>6, <3>1
    <3> QED
      BY <1>10, <2>1, <3>2 DEF DescribedSound
  <2> QED
    BY <2>4, <2>5, <2>7, <2>8 DEF IInv
<1>11. CASE SubscribeThenForget(p, c, add, remove, known)
  <2>1. PICK d : d = Subscribe(c, add, p)
    OBVIOUS
  <2>2. c.subscribed \subseteq d.subscribed /\ d.subscribed \subseteq c.subscribed \cup add
    <3>1. c \in Clients /\ add \in SUBSET Names
      BY <1>3, <1>5
    <3>2. Gained(c, d, add)
      BY <2>1, <3>1, SubscribeKeeps
    <3> QED
      BY <3>2 DEF Gained
  <2>3. Crossing(client, c) \subseteq Crossing(client, d)
    BY <1>3, <1>5, <2>2 DEF Crossing
  <2>4. Crossing(c, d) \subseteq Crossing(client, d)
    BY <1>3, <1>5, <2>2 DEF Crossing
  <2>5. Crossing(client, c) \cup Crossing(c, Subscribe(c, add, p))
          \subseteq Crossing(client, Subscribe(c, add, p))
    BY <2>1, <2>3, <2>4
  <2>6. c.subscribed \cup add \subseteq known
    BY <1>8
  <2> HIDE DEF known
  <2> QED
    BY <1>2, <1>3, <1>5, <1>6, <1>8, <1>11, <2>5, <2>6, ForgetInv
<1> QED
  BY <1>7, <1>9, <1>10, <1>11

LEMMA UnsubscribedInv ==
  ASSUME IInv, NEW p \in Resyncs, Unsubscribed(p)
  PROVE  IInv'
<1> DEFINE add == resync[p].add
           remove == resync[p].remove
<1>1. client \in Clients /\ resync \in [Resyncs -> Jobs] /\ resync[p].pc = "unsub"
  BY DEF IInv, TypeOK, Unsubscribed
<1>2. add \in SUBSET Names /\ remove \in SUBSET Names /\ resync[p] # Idle
  BY <1>1, JobsAre
<1>3. SubscribeThenForget(p, client, add, remove, described)
      /\ UNCHANGED <<world, conn, step, server>>
  BY DEF Unsubscribed
<1>4. Follows(client, client) /\ Crossing(client, client) = {}
  BY DEF Follows, Crossing
<1>5. ~disturbed => /\ client.subscribed \cup add \subseteq described
                    /\ remove \cap (client.subscribed \cup add) = {}
  BY <1>1 DEF IInv, DescribedSound, Plan
<1> HIDE DEF add, remove
<1> QED
  BY <1>1, <1>2, <1>3, <1>4, <1>5, ForgetInv

LEMMA SubscribedInv ==
  ASSUME IInv, NEW p \in Resyncs, Subscribed(p)
  PROVE  IInv'
<1>1. /\ resync[p].pc = "sub" /\ resync' = [resync EXCEPT ![p] = Idle]
      /\ described' = described \ resync[p].remove
      /\ UNCHANGED <<world, conn, step, client, server, crossed, disturbed>>
  BY DEF Subscribed
<1>2. resync \in [Resyncs -> Jobs] /\ resync[p] # Idle /\ Idle \in Jobs
  BY <1>1 DEF IInv, TypeOK, Idle, Jobs
<1>3. resync' \in [Resyncs -> Jobs] /\ resync'[p] = Idle
      /\ \A q \in Resyncs \ {p} : resync'[q] = resync[q]
  BY <1>1, <1>2
<1>4. TypeOK'
  BY <1>1, <1>3 DEF IInv, TypeOK, world
<1>5. SocketSound' /\ WireSound'
  BY <1>1 DEF IInv, SocketSound, WireSound, Linked
<1>6. ~disturbed => \A q \in Resyncs \ {p} : resync[q] = Idle
  BY <1>2 DEF IInv, Alone
<1>7. Alone'
  BY <1>1, <1>3, <1>6 DEF Alone
<1>8. DescribedSound'
  <2>1. \A c, y : Plan(Idle, c, y)
    BY DEF Plan, Idle
  <2>2. ~disturbed => client.subscribed \subseteq described'
    BY <1>1 DEF IInv, DescribedSound, Plan
  <2>3. ~disturbed => \A q \in Resyncs : Plan(resync'[q], client, described')
    BY <1>3, <1>6, <2>1
  <2> QED
    BY <1>1, <2>2, <2>3 DEF DescribedSound
<1> QED
  BY <1>4, <1>5, <1>7, <1>8 DEF IInv

LEMMA LoopNoticesInv ==
  ASSUME IInv, LoopNotices
  PROVE  IInv'
<1>1. "loop" \in Resyncs /\ Begin("loop")
      /\ UNCHANGED <<world, described, conn, step, client, server, crossed>>
  BY DEF LoopNotices, Resyncs
<1>2. held' \in SUBSET Names /\ pinned' \in SUBSET Names
  BY <1>1 DEF world, IInv, TypeOK
<1>3. UNCHANGED <<described, conn, step, client, server, crossed>>
  BY <1>1
<1> QED
  BY <1>1, <1>2, <1>3, BeginInv

LEMMA RequestInv ==
  ASSUME IInv, NEW p \in Requests, Request(p)
  PROVE  IInv'
<1>1. p \in Resyncs /\ Begin(p) /\ UNCHANGED <<held, described, conn, step, client, server, crossed>>
  BY DEF Request, Resyncs
<1>2. held' \in SUBSET Names /\ pinned' \in SUBSET Names
  BY <1>1, FeedAssumption DEF Request, IInv, TypeOK
<1>3. UNCHANGED <<described, conn, step, client, server, crossed>>
  BY <1>1
<1> QED
  BY <1>1, <1>2, <1>3, BeginInv

-----------------------------------------------------------------------------
(* The socket, step by step. *)

(* A step of the connection leaves the resyncs and what is believed alone. *)
LEMMA WireStep ==
  ASSUME IInv, NEW d \in Clients, client' = d, d.subscribed = client.subscribed,
         UNCHANGED <<world, resync, described, disturbed>>,
         SocketSound', WireSound'
  PROVE  IInv'
<1>1. TypeOK'
  BY DEF IInv, TypeOK, world
<1>2. Alone'
  BY DEF IInv, Alone
<1>3. DescribedSound'
  BY DEF IInv, DescribedSound, Plan
<1> QED
  BY <1>1, <1>2, <1>3 DEF IInv

LEMMA ConnectInv ==
  ASSUME IInv, Connect
  PROVE  IInv'
<1>1. /\ conn = "down" /\ conn' = "up" /\ step' = "resubscribing" /\ server' = {}
      /\ client' = Resubscription(client)
      /\ UNCHANGED <<world, resync, described, crossed, disturbed>>
  BY DEF Connect
<1>2. client \in Clients /\ client.outbox = <<>>
  BY <1>1 DEF IInv, TypeOK, SocketSound, Linked
<1>3. SocketSound'
  BY <1>1 DEF SocketSound, Linked
<1>4. CASE client.subscribed = {}
  <2>1. client' = client
    BY <1>1, <1>4 DEF Resubscription
  <2>2. \A n : WillStop(<<>>, {}, n)
    BY NothingQueued DEF WillStop
  <2>3. \A n : Wired(client, {}, n)
    BY <1>2, <1>4, <2>2 DEF Wired
  <2>4. WireSound'
    BY <1>1, <2>1, <2>3 DEF IInv, WireSound
  <2> QED
    BY <1>1, <1>2, <1>3, <2>1, <2>4, WireStep
<1>5. CASE client.subscribed # {}
  <2> DEFINE m == Message("conn", "subscribe", client.subscribed)
             q == <<m>>
  <2>1. m \in Messages /\ m.kind = "subscribe" /\ m.ids = client.subscribed
    BY <1>2 DEF Message, Messages, Clients
  <2>2. client' = [client EXCEPT !.outbox = q]
    BY <1>1, <1>5 DEF Resubscription
  <2> HIDE DEF m
  <2>3. q \in Seq(Messages) /\ DOMAIN q = {1} /\ q[1] = m
    BY <2>1
  <2> HIDE DEF q
  <2>4. PICK d : d = [client EXCEPT !.outbox = q]
    OBVIOUS
  <2>5. d \in Clients /\ d.outbox = q /\ d.subscribed = client.subscribed
        /\ d.toSubscribe = client.toSubscribe /\ d.toUnsubscribe = client.toUnsubscribe
    BY <1>2, <2>3, <2>4 DEF Clients
  <2>6. \A n : n \in client.subscribed => Told(q, n, "subscribe")
    BY <2>1, <2>3 DEF Told
  <2>7. \A n : n \notin client.subscribed => Untold(q, n)
    BY <2>1, <2>3 DEF Untold
  <2>8. \A n : Wired(d, {}, n)
    BY <2>5, <2>6, <2>7 DEF Wired, WillStream, WillStop
  <2>9. \A n : Pending(client, n) => Pending(d, n)
    BY <2>5 DEF Pending
  <2>10. client' = d
    BY <2>2, <2>4
  <2>11. WireSound'
    BY <1>1, <2>8, <2>9, <2>10 DEF IInv, WireSound
  <2> QED
    BY <1>1, <1>3, <2>5, <2>10, <2>11, WireStep
<1> QED
  BY <1>4, <1>5

(* What was pending is queued: subscriptions.                              *)
LEMMA FlushSubscribeInv ==
  ASSUME IInv, FlushSubscribe
  PROVE  IInv'
<1>1. /\ Linked /\ step' = "subscribing"
      /\ UNCHANGED <<world, resync, described, conn, server, crossed, disturbed>>
  BY DEF FlushSubscribe
<1>2. client \in Clients
  BY DEF IInv, TypeOK
<1>3. CASE client.toSubscribe = {}
  <2>1. client' = client
    BY <1>3 DEF FlushSubscribe
  <2>2. SocketSound' /\ WireSound'
    BY <1>1, <1>3, <2>1 DEF IInv, SocketSound, WireSound, Linked
  <2> QED
    BY <1>1, <1>2, <2>1, <2>2, WireStep
<1>4. CASE client.toSubscribe # {}
  <2> DEFINE m == Message("conn", "subscribe", client.toSubscribe)
  <2>1. m \in Messages /\ m.kind = "subscribe" /\ m.ids = client.toSubscribe
    BY <1>2 DEF Message, Messages, Clients
  <2>2. client' = [client EXCEPT !.toSubscribe = {}, !.outbox = Append(@, m)]
    BY <1>4 DEF FlushSubscribe
  <2> HIDE DEF m
  <2>3. PICK q : q = Append(client.outbox, m)
    OBVIOUS
  <2>4. q \in Seq(Messages)
    BY <1>2, <2>1, <2>3, AppendTells DEF Clients
  <2>5. PICK d : d = [client EXCEPT !.toSubscribe = {}, !.outbox = q]
    OBVIOUS
  <2>6. client' = d
    BY <2>2, <2>3, <2>5
  <2>7. d \in Clients /\ d.outbox = q /\ d.subscribed = client.subscribed
        /\ d.toSubscribe = {} /\ d.toUnsubscribe = client.toUnsubscribe
    BY <1>2, <2>4, <2>5 DEF Clients
  <2>8. ASSUME NEW n \in Names \ crossed PROVE Pending(d, n) /\ (conn = "up" => Wired(d, server, n))
    <3>1. Pending(client, n) /\ (conn = "up" => Wired(client, server, n))
      BY DEF IInv, WireSound
    <3>2. Pending(d, n)
      BY <2>7, <3>1 DEF Pending
    <3>3. n \notin m.ids => /\ n \in d.subscribed <=> n \in client.subscribed
                            /\ n \in d.toSubscribe <=> n \in client.toSubscribe
                            /\ n \in d.toUnsubscribe <=> n \in client.toUnsubscribe
      BY <2>1, <2>7
    <3>4. n \in m.ids => (n \in d.subscribed <=> m.kind = "subscribe")
      BY <2>1, <2>7, <3>1 DEF Pending
    <3>5. d.outbox = Append(client.outbox, m) /\ d \in Clients /\ m \in Messages
      BY <2>1, <2>3, <2>7
    <3>6. conn = "up" => Wired(d, server, n)
      BY <1>2, <3>1, <3>3, <3>4, <3>5, QueuedIsWired
    <3> QED
      BY <3>2, <3>6
  <2>9. WireSound'
    BY <1>1, <2>6, <2>8 DEF WireSound
  <2>10. SocketSound'
    BY <1>1, <2>6, <2>7 DEF SocketSound, Linked
  <2> QED
    BY <1>1, <2>6, <2>7, <2>9, <2>10, WireStep
<1> QED
  BY <1>3, <1>4

(* What was pending is queued: unsubscriptions.                            *)
LEMMA FlushUnsubscribeInv ==
  ASSUME IInv, FlushUnsubscribe
  PROVE  IInv'
<1>1. /\ Linked /\ step = "subscribing" /\ step' = "unsubscribing"
      /\ UNCHANGED <<world, resync, described, conn, server, crossed, disturbed>>
  BY DEF FlushUnsubscribe
<1>2. client \in Clients /\ client.toSubscribe = {}
  BY <1>1 DEF IInv, TypeOK, SocketSound
<1>3. CASE client.toUnsubscribe = {}
  <2>1. client' = client
    BY <1>3 DEF FlushUnsubscribe
  <2>2. SocketSound' /\ WireSound'
    BY <1>1, <1>2, <1>3, <2>1 DEF IInv, SocketSound, WireSound, Linked
  <2> QED
    BY <1>1, <1>2, <2>1, <2>2, WireStep
<1>4. CASE client.toUnsubscribe # {}
  <2> DEFINE m == Message("conn", "unsubscribe", client.toUnsubscribe)
  <2>1. m \in Messages /\ m.kind = "unsubscribe" /\ m.ids = client.toUnsubscribe
    BY <1>2 DEF Message, Messages, Clients
  <2>2. client' = [client EXCEPT !.toUnsubscribe = {}, !.outbox = Append(@, m)]
    BY <1>4 DEF FlushUnsubscribe
  <2> HIDE DEF m
  <2>3. PICK q : q = Append(client.outbox, m)
    OBVIOUS
  <2>4. q \in Seq(Messages)
    BY <1>2, <2>1, <2>3, AppendTells DEF Clients
  <2>5. PICK d : d = [client EXCEPT !.toUnsubscribe = {}, !.outbox = q]
    OBVIOUS
  <2>6. client' = d
    BY <2>2, <2>3, <2>5
  <2>7. d \in Clients /\ d.outbox = q /\ d.subscribed = client.subscribed
        /\ d.toUnsubscribe = {} /\ d.toSubscribe = client.toSubscribe
    BY <1>2, <2>4, <2>5 DEF Clients
  <2>8. ASSUME NEW n \in Names \ crossed PROVE Pending(d, n) /\ (conn = "up" => Wired(d, server, n))
    <3>1. Pending(client, n) /\ (conn = "up" => Wired(client, server, n))
      BY DEF IInv, WireSound
    <3>2. Pending(d, n)
      BY <2>7, <3>1 DEF Pending
    <3>3. n \notin m.ids => /\ n \in d.subscribed <=> n \in client.subscribed
                            /\ n \in d.toSubscribe <=> n \in client.toSubscribe
                            /\ n \in d.toUnsubscribe <=> n \in client.toUnsubscribe
      BY <2>1, <2>7
    <3>4. n \in m.ids => (n \in d.subscribed <=> m.kind = "subscribe")
      BY <2>1, <2>7, <3>1 DEF Pending
    <3>5. d.outbox = Append(client.outbox, m) /\ d \in Clients /\ m \in Messages
      BY <2>1, <2>3, <2>7
    <3>6. conn = "up" => Wired(d, server, n)
      BY <1>2, <3>1, <3>3, <3>4, <3>5, QueuedIsWired
    <3> QED
      BY <3>2, <3>6
  <2>9. WireSound'
    BY <1>1, <2>6, <2>8 DEF WireSound
  <2>10. SocketSound'
    BY <1>1, <1>2, <2>6, <2>7 DEF SocketSound, Linked
  <2> QED
    BY <1>1, <2>6, <2>7, <2>9, <2>10, WireStep
<1> QED
  BY <1>3, <1>4

LEMMA FlushedInv ==
  ASSUME IInv, Flushed
  PROVE  IInv'
<1>1. /\ Linked /\ step = "unsubscribing" /\ step' = "consuming"
      /\ UNCHANGED <<world, resync, described, conn, client, server, crossed, disturbed>>
  BY DEF Flushed
<1>2. client \in Clients
  BY DEF IInv, TypeOK
<1>3. SocketSound' /\ WireSound'
  BY <1>1 DEF IInv, SocketSound, WireSound, Linked
<1> QED
  BY <1>1, <1>2, <1>3, WireStep

LEMMA SendInv ==
  ASSUME IInv, Send
  PROVE  IInv'
<1> DEFINE m == Head(client.outbox)
           after == IF m.kind = "subscribe" THEN server \cup m.ids ELSE server \ m.ids
<1>1. /\ Linked /\ client.outbox # <<>>
      /\ server' = IF conn = "dead" THEN server ELSE after
      /\ client' = [client EXCEPT !.outbox = Tail(@)]
      /\ UNCHANGED <<world, resync, described, conn, step, crossed, disturbed>>
  BY DEF Send
<1>2. client \in Clients
  BY DEF IInv, TypeOK
<1>3. PICK d : d = [client EXCEPT !.outbox = Tail(@)]
  OBVIOUS
<1>9. m = Head(client.outbox)
      /\ after = IF m.kind = "subscribe" THEN server \cup m.ids ELSE server \ m.ids
  OBVIOUS
<1> HIDE DEF after, m
<1>4. \A n : SentOn(client, d, server, after, n)
  BY <1>1, <1>2, <1>3, <1>9, SendKeeps
<1>5. SocketSound'
  BY <1>1, <1>3, <1>4 DEF IInv, SocketSound, Linked, SentOn
<1>6. conn = "up" => server' = after
  BY <1>1
<1>7. \A n : Pending(client, n) => Pending(d, n)
  BY <1>4 DEF Pending, SentOn
<1>8. WireSound'
  BY <1>1, <1>3, <1>4, <1>6, <1>7 DEF IInv, WireSound, SentOn
<1> QED
  BY <1>1, <1>3, <1>4, <1>5, <1>8, WireStep DEF SentOn

LEMMA DieInv ==
  ASSUME IInv, Die
  PROVE  IInv'
<1>1. /\ conn = "up" /\ conn' = "dead"
      /\ UNCHANGED <<world, resync, described, step, client, server, crossed, disturbed>>
  BY DEF Die
<1>2. client \in Clients
  BY DEF IInv, TypeOK
<1>3. SocketSound' /\ WireSound'
  BY <1>1 DEF IInv, SocketSound, WireSound, Linked
<1> QED
  BY <1>1, <1>2, <1>3, WireStep

(* The socket is gone: what was queued is lost, and what was pending stays. *)
LEMMA UnlinkInv ==
  ASSUME IInv, NEW state \in {"down", "stopped"}, Unlink(state), UNCHANGED <<world, described>>
  PROVE  IInv'
<1>1. /\ conn' = state /\ step' = "consuming" /\ server' = {}
      /\ client' = [client EXCEPT !.outbox = <<>>]
      /\ resync' = [p \in Resyncs |-> IF Waits(client, p) THEN Idle ELSE resync[p]]
      /\ disturbed' = (disturbed \/ \E p \in Resyncs : Waits(client, p))
      /\ crossed' = (crossed \cap (client.toSubscribe \cup client.toUnsubscribe))
  BY DEF Unlink
<1>2. client \in Clients /\ resync \in [Resyncs -> Jobs] /\ Idle \in Jobs
  BY DEF IInv, TypeOK, Jobs
<1>3. PICK d : d = [client EXCEPT !.outbox = <<>>]
  OBVIOUS
<1>4. /\ d \in Clients /\ d.outbox = <<>> /\ d.subscribed = client.subscribed
      /\ d.toSubscribe = client.toSubscribe /\ d.toUnsubscribe = client.toUnsubscribe
  <2>1. PICK q : q = <<>> /\ q \in Seq(Messages)
    BY EmptySeq
  <2>2. d = [client EXCEPT !.outbox = q]
    BY <1>3, <2>1
  <2>3. /\ d \in Clients /\ d.outbox = q /\ d.subscribed = client.subscribed
        /\ d.toSubscribe = client.toSubscribe /\ d.toUnsubscribe = client.toUnsubscribe
    <3>1. q \in Seq(Messages)
      BY <2>1
    <3> QED
      BY <1>2, <2>2, <3>1 DEF Clients
  <2> QED
    BY <2>1, <2>3
<1>5. resync' \in [Resyncs -> Jobs]
  BY <1>1, <1>2
<1>6. ~disturbed' => ~disturbed /\ \A p \in Resyncs : resync'[p] = resync[p]
  BY <1>1
<1>7. TypeOK'
  BY <1>1, <1>3, <1>4, <1>5 DEF IInv, TypeOK, world
<1>8. SocketSound'
  BY <1>1, <1>3, <1>4 DEF SocketSound, Linked
<1>9. ASSUME NEW n \in Names \ crossed' PROVE Pending(d, n)
  <2>1. CASE n \in crossed
    <3>1. n \notin client.toSubscribe /\ n \notin client.toUnsubscribe
      BY <1>1, <1>9, <2>1
    <3> QED
      BY <1>4, <3>1 DEF Pending
  <2>2. CASE n \notin crossed
    <3>1. Pending(client, n)
      BY <1>9, <2>2 DEF IInv, WireSound
    <3> QED
      BY <1>4, <3>1 DEF Pending
  <2> QED
    BY <2>1, <2>2
<1>10. WireSound'
  BY <1>1, <1>3, <1>9 DEF WireSound
<1>11. Alone'
  BY <1>6 DEF IInv, Alone
<1>12. DescribedSound'
  <2>1. SUFFICES ASSUME ~disturbed'
                 PROVE  d.subscribed \subseteq described
                        /\ \A p \in Resyncs : Plan(resync'[p], d, described)
    BY <1>1, <1>3 DEF DescribedSound
  <2>2. client.subscribed \subseteq described
        /\ \A p \in Resyncs : Plan(resync[p], client, described)
    BY <1>6, <2>1 DEF IInv, DescribedSound
  <2> QED
    BY <1>4, <1>6, <2>1, <2>2 DEF Plan
<1> QED
  BY <1>7, <1>8, <1>10, <1>11, <1>12 DEF IInv

LEMMA TearDownInv ==
  ASSUME IInv, TearDown
  PROVE  IInv'
<1>1. /\ conn' = "none" /\ client' = Empty /\ described' = {} /\ crossed' = {}
      /\ resync' = [p \in Resyncs |-> IF p = "loop" \/ Waits(client, p) THEN Idle ELSE resync[p]]
      /\ disturbed' = (disturbed \/ \E p \in Requests : resync[p] # Idle)
      /\ UNCHANGED world
  BY DEF TearDown, NewClient
<1>2. resync \in [Resyncs -> Jobs] /\ Idle \in Jobs
  BY DEF IInv, TypeOK, Jobs
<1>3. PICK d : d = Empty
  OBVIOUS
<1>4. /\ d \in Clients /\ d.outbox = <<>> /\ d.subscribed = {}
      /\ d.toSubscribe = {} /\ d.toUnsubscribe = {}
  BY <1>3 DEF Empty, Clients
<1>5. resync' \in [Resyncs -> Jobs]
  BY <1>1, <1>2
<1>6. ~disturbed' => \A p \in Resyncs : resync'[p] = Idle
  BY <1>1 DEF Resyncs
<1>7. TypeOK'
  BY <1>1, <1>3, <1>4, <1>5 DEF IInv, TypeOK, world
<1>8. SocketSound'
  BY <1>1, <1>3, <1>4 DEF SocketSound, Linked
<1>9. WireSound'
  <2>1. \A n : Pending(d, n)
    BY <1>4 DEF Pending
  <2> QED
    BY <1>1, <1>3, <2>1 DEF WireSound
<1>10. Alone'
  BY <1>6 DEF Alone
<1>11. DescribedSound'
  <2>1. \A c, known : Plan(Idle, c, known)
    BY DEF Plan, Idle
  <2>2. client'.subscribed = {}
    BY <1>1, <1>3, <1>4
  <2> QED
    BY <1>1, <1>6, <2>1, <2>2 DEF DescribedSound
<1> QED
  BY <1>7, <1>8, <1>9, <1>10, <1>11 DEF IInv

LEMMA StartInv ==
  ASSUME IInv, Start
  PROVE  IInv'
<1> DEFINE r == [pc |-> "resolve"]
<1>1. /\ conn = "none" /\ conn' = "down"
      /\ resync' = [resync EXCEPT !["loop"] = r]
      /\ disturbed' = (disturbed \/ Others("loop"))
      /\ UNCHANGED <<world, described, step, client, server, crossed>>
  BY DEF Start
<1>2. r \in Jobs /\ Plan(r, client, described) /\ "loop" \in Resyncs
  BY DEF Jobs, Resolving, Plan, Resyncs
<1> HIDE DEF r
<1>3. ~disturbed' => /\ ~disturbed
                     /\ resync["loop"] # Idle \/ \A q \in Resyncs : resync[q] = Idle
  BY <1>1 DEF Others
<1>4. client' = client /\ described' = described
  BY <1>1
<1>5. resync' \in [Resyncs -> Jobs] /\ Alone' /\ DescribedSound'
  BY <1>1, <1>2, <1>3, <1>4, OneResync
<1>6. TypeOK'
  BY <1>1, <1>5 DEF IInv, TypeOK, world
<1>7. SocketSound' /\ WireSound'
  BY <1>1 DEF IInv, SocketSound, WireSound, Linked
<1> QED
  BY <1>5, <1>6, <1>7 DEF IInv

(* A trade, the clock and a step of nothing.                               *)
LEMMA AroundInv ==
  ASSUME IInv, Trade \/ Clock \/ UNCHANGED vars
  PROVE  IInv'
<1>1. UNCHANGED <<resync, described, conn, step, client, server, crossed, disturbed>>
  BY DEF Trade, Clock, vars
<1>2. held' \in SUBSET Names /\ pinned' \in SUBSET Names
  BY FeedAssumption DEF Trade, Clock, vars, world, IInv, TypeOK
<1> QED
  BY <1>1, <1>2, QuietInv

-----------------------------------------------------------------------------
(* The theorems. *)

LEMMA InitInv == ASSUME Init PROVE IInv
<1>1. /\ held \in SUBSET Holdable /\ pinned = {} /\ resync = [p \in Resyncs |-> Idle]
      /\ conn = "none" /\ client = Empty
  BY DEF Init
<1>2. PICK d : d = Empty
  OBVIOUS
<1>3. /\ d \in Clients /\ d.outbox = <<>> /\ d.subscribed = {}
      /\ d.toSubscribe = {} /\ d.toUnsubscribe = {}
  BY <1>2 DEF Empty, Clients
<1>4. TypeOK
  BY <1>1, <1>2, <1>3, FeedAssumption DEF TypeOK, Jobs
<1>5. SocketSound /\ WireSound
  BY <1>1, <1>2, <1>3 DEF SocketSound, WireSound, Pending, Linked
<1>6. \A p \in Resyncs : resync[p] = Idle
  BY <1>1
<1>7. \A c, known : Plan(Idle, c, known)
  BY DEF Plan, Idle
<1>8. client.subscribed = {}
  BY <1>1, <1>2, <1>3
<1>9. Alone /\ DescribedSound
  BY <1>6, <1>7, <1>8 DEF Alone, DescribedSound
<1> QED
  BY <1>4, <1>5, <1>9 DEF IInv

LEMMA NextInv == ASSUME IInv, [Next]_vars PROVE IInv'
<1>1. CASE \E p \in Resyncs : Resolve(p) \/ Apply(p) \/ ApplyToNothing(p)
                              \/ Unsubscribed(p) \/ Subscribed(p)
  <2>1. PICK p \in Resyncs : Resolve(p) \/ Apply(p) \/ ApplyToNothing(p)
                             \/ Unsubscribed(p) \/ Subscribed(p)
    BY <1>1
  <2>2. CASE ApplyToNothing(p)
    <3>1. Abort(p) /\ UNCHANGED <<world, described, conn, step, client, server, crossed>>
      BY <2>2 DEF ApplyToNothing
    <3> QED
      BY <3>1, AbortInv
  <2> QED
    BY <2>1, <2>2, ResolveInv, ApplyInv, UnsubscribedInv, SubscribedInv
<1>2. CASE LoopNotices \/ \E p \in Requests : Request(p)
  BY <1>2, LoopNoticesInv, RequestInv
<1>3. CASE Connect \/ FlushSubscribe \/ FlushUnsubscribe \/ Flushed \/ Send \/ Die
  BY <1>3, ConnectInv, FlushSubscribeInv, FlushUnsubscribeInv, FlushedInv, SendInv, DieInv
<1>4. CASE Drop \/ Stop \/ Watchdog
  <2>1. PICK state \in {"down", "stopped"} : Unlink(state)
    BY <1>4 DEF Drop, Stop, Watchdog
  <2>2. UNCHANGED <<world, described>>
    BY <1>4 DEF Drop, Stop, Watchdog
  <2> QED
    BY <2>1, <2>2, UnlinkInv
<1>5. CASE TearDown \/ Start
  BY <1>5, TearDownInv, StartInv
<1>6. CASE Trade \/ Clock \/ UNCHANGED vars
  BY <1>6, AroundInv
<1> QED
  BY <1>1, <1>2, <1>3, <1>4, <1>5, <1>6 DEF Next

(* The queue, the pending sets and the resyncs stay as IInv says.          *)
LEMMA FeedIsSound == Spec => []IInv
<1>1. Init => IInv
  BY InitInv
<1>2. IInv /\ [Next]_vars => IInv'
  BY NextInv
<1> QED
  BY <1>1, <1>2, PTL DEF Spec

(* For any instruments, limit, requests and number of events: connected    *)
(* and with nothing left to send, the server streams what the client       *)
(* believes, but for an instrument that was moved against what was pending *)
(* for it (dhan_feed_client.py: subscribe, unsubscribe, the flush after a  *)
(* connection).                                                            *)
THEOREM ServerStreamsWhatIsBelieved == Spec => []WireAgrees
<1>1. ASSUME IInv PROVE WireAgrees
  <2>1. SUFFICES ASSUME Settled, NEW n \in Names \ crossed
                 PROVE  n \in server <=> n \in client.subscribed
    BY DEF WireAgrees
  <2>2. client.outbox = <<>> /\ client.toSubscribe = {} /\ client.toUnsubscribe = {}
    BY <1>1, <2>1 DEF IInv, SocketSound, Settled, Linked
  <2>3. Wired(client, server, n)
    BY <1>1, <2>1 DEF IInv, WireSound, Settled
  <2>4. \A kind : ~Told(<<>>, n, kind)
    BY EmptySeq DEF Told
  <2> QED
    BY <2>2, <2>3, <2>4 DEF Wired, WillStream, WillStop
<1> QED
  BY <1>1, FeedIsSound, PTL

(* As long as no two resyncs overlap and none fails, everything subscribed *)
(* has its metadata in the book, at every await of a resync                *)
(* (feed_manager.py, resync: describe first, forget last).                 *)
THEOREM SubscribedAreDescribed == Spec => []SubscribedIsDescribed
<1>1. IInv => SubscribedIsDescribed
  BY DEF IInv, DescribedSound, SubscribedIsDescribed
<1> QED
  BY <1>1, FeedIsSound, PTL
=============================================================================
