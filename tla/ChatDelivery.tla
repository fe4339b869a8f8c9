----------------------------- MODULE ChatDelivery -----------------------------
(***************************************************************************)
(* Live delivery of one meeting's chat in one realtime process: the shared *)
(* Redis subscription of ChatFanoutService, the poll of durable heads, the *)
(* gateway's subscription to a snapshot followed by live events, and the   *)
(* cursor of each socket that puts them in order.                          *)
(*                                                                         *)
(* Redis may lose, repeat and reorder notifications.  Every await of the   *)
(* code is a point where other callbacks run, and so ends an action.       *)
(***************************************************************************)
EXTENDS Integers, FiniteSets, Sequences, StreamHead

CONSTANTS Sockets,
          Buffer,     \* config.chat.reorderBufferMessages
          Absent,     \* no RoomSubscription
          MaxHead     \* bound: messages of the meeting

ASSUME DeliveryAssumption ==
    /\ Buffer \in Nat \ {0}
    /\ PageLimit \in Nat \ {0}
    /\ MaxHead \in Nat
    /\ Absent \notin [listeners : SUBSET Sockets, ready : BOOLEAN]

VARIABLES sub,       \* subscriptions.get(meetingId)
          channel,   \* the process receives the Redis channel
          leaving,   \* unwatch calls between their delete and sUnsubscribe
          observed,  \* observedHeads.get(meetingId), -1 when undefined
          poll,      \* the head a running pollHighWatermarks has read, or -1
          sock       \* the sockets, their contexts and what their clients got

fanout == <<sub, channel, leaving, observed, poll>>
feedVars == <<head, fanout, sock>>

Positions == 1..MaxHead
Subscription == [listeners : (SUBSET Sockets) \ {{}}, ready : BOOLEAN]
Notification == [kind : {"message", "high_watermark"}, pos : 0..MaxHead]
Page == [from : 0..MaxHead, to : 0..MaxHead, mark : 0..MaxHead]
Phases == {"idle", "leaving", "watching", "reading", "read", "failing", "syncing"}
Socket == [conn : {"open", "closing", "closed"},
           phase : Phases,
           ctx : BOOLEAN,                  \* context.unwatchChat and chatCursor are set
           active : BOOLEAN,               \* the listener hands over to the cursor
           lost : BOOLEAN,                 \* overflowed
           buffer : Seq(Notification),     \* pending of prepareChatSubscription
           base : 0..MaxHead,              \* where the cursor was created
           pos : 0..MaxHead,               \* ChatLiveCursor.position
           pend : SUBSET Positions,        \* ChatLiveCursor.pending
           page : Page,                    \* the page that was read
           got : SUBSET Positions,         \* what the client has received
           know : 0..MaxHead]              \* the highest position it was told of

\* Types; CHAT-012: the reorder memory of a socket stays within its bound.
FeedTypeOK ==
    /\ head \in 0..MaxHead
    /\ sub \in Subscription \cup {Absent}
    /\ channel \in BOOLEAN
    /\ leaving \subseteq Sockets
    /\ observed \in -1..MaxHead
    /\ poll \in -1..MaxHead
    /\ sock \in [Sockets -> Socket]
    /\ \A s \in Sockets : /\ sock[s].page.to <= sock[s].page.mark
                          /\ Len(sock[s].buffer) <= Buffer
                          /\ Cardinality(sock[s].pend) <= Buffer

NoPage == [from |-> 0, to |-> 0, mark |-> 0]
NewSocket == [conn |-> "open", phase |-> "idle", ctx |-> FALSE, active |-> FALSE,
              lost |-> FALSE, buffer |-> <<>>, base |-> 0, pos |-> 0, pend |-> {},
              page |-> NoPage, got |-> {}, know |-> 0]

FeedInit ==
    /\ head = 0
    /\ sub = Absent
    /\ channel = FALSE
    /\ leaving = {}
    /\ observed = -1
    /\ poll = -1
    /\ sock = [s \in Sockets |-> NewSocket]

\* unwatch awaits a promise that is settled: no I/O event comes in between.
IoEvent == leaving = {}

Listeners == IF sub = Absent THEN {} ELSE sub.listeners
Larger(a, b) == IF a >= b THEN a ELSE b
Smaller(a, b) == IF a <= b THEN a ELSE b
-----------------------------------------------------------------------------
\* closeSocket: from here on the client gets nothing more, and is forgotten.
CloseSocket(r) ==
    IF r.conn = "open" THEN [r EXCEPT !.conn = "closing", !.got = {}, !.know = 0] ELSE r

\* sendReliable: positions P with their messages, and the announcement of n.
Send(r, P, n) ==
    IF r.conn = "open"
    THEN [r EXCEPT !.got = @ \cup P, !.know = Larger(@, n)]
    ELSE r

\* The last position that is reached from p without a hole in S.
Reach(p, S) == CHOOSE q \in p..MaxHead : (p + 1)..q \subseteq S /\ q + 1 \notin S

\* flush: what has become contiguous is delivered.
Flush(r) ==
    LET p == Reach(r.pos, r.pend)
    IN  IF p = r.pos THEN r
        ELSE Send([r EXCEPT !.pos = p, !.pend = {q \in @ : q > p}], (r.pos + 1)..p, p)

\* Faulty variant: the overflow check is left out.
BufferedUnbounded(r, p) ==
    LET f == Flush([r EXCEPT !.pend = @ \cup {p}])
    IN  IF f.pend = {} THEN f ELSE Send(f, {}, Larger(p, f.pos))

\* A new position enters the reorder buffer; what stays there is announced.
Buffered(r, p) ==
    IF Cardinality(r.pend \cup {p}) > Buffer
    THEN CloseSocket([r EXCEPT !.lost = TRUE, !.pend = {}])
    ELSE LET f == Flush([r EXCEPT !.pend = @ \cup {p}])
         IN  IF f.pend = {} THEN f ELSE Send(f, {}, Larger(p, f.pos))

\* ChatLiveCursor.accept.
Accept(r, n) ==
    IF r.lost \/ n.pos <= r.pos THEN r
    ELSE IF n.kind = "high_watermark" THEN Send(r, {}, n.pos)
    ELSE Buffered(r, n.pos)

\* Faulty variant: nothing is kept until the cursor exists.
ListenerDropping(r, n) == IF r.active THEN Accept(r, n) ELSE r

\* The listener of prepareChatSubscription.
Listener(r, n) ==
    IF r.active THEN Accept(r, n)
    ELSE IF Len(r.buffer) >= Buffer THEN CloseSocket([r EXCEPT !.lost = TRUE])
    ELSE [r EXCEPT !.buffer = Append(@, n)]

\* notify.
Notify(n) ==
    sock' = [s \in Sockets |-> IF s \in Listeners THEN Listener(sock[s], n) ELSE sock[s]]
-----------------------------------------------------------------------------
\* receive: a notification arrives, late, again or out of order.
Receive(p) ==
    /\ IoEvent
    /\ channel
    /\ p <= head
    /\ observed' = Larger(observed, p)
    /\ Notify([kind |-> "message", pos |-> p])
    /\ UNCHANGED <<head, sub, channel, leaving, poll>>

\* pollHighWatermarks reads the head.
PollRead ==
    /\ poll = -1
    /\ sub # Absent
    /\ poll' = head
    /\ UNCHANGED <<head, sub, channel, leaving, observed, sock>>

\* Faulty variant: the head is recorded, and nobody is told.
PollNotifySilent ==
    /\ poll # -1
    /\ poll' = -1
    /\ observed' = Larger(observed, poll)
    /\ UNCHANGED <<head, sub, channel, leaving, sock>>

\* observeHead and, when it has moved, notify.
PollNotify ==
    /\ poll # -1
    /\ poll' = -1
    /\ observed' = Larger(observed, poll)
    /\ IF poll > observed THEN Notify([kind |-> "high_watermark", pos |-> poll])
       ELSE UNCHANGED sock
    /\ UNCHANGED <<head, sub, channel, leaving>>

PollFail ==
    /\ poll # -1
    /\ poll' = -1
    /\ UNCHANGED <<head, sub, channel, leaving, observed, sock>>
-----------------------------------------------------------------------------
Set(s, r) == sock' = [sock EXCEPT ![s] = r]

\* unwatch up to its await: the last listener takes the subscription along.
Unwatch(s) ==
    IF s \notin Listeners THEN UNCHANGED <<sub, leaving, observed>>
    ELSE IF sub.listeners # {s}
    THEN /\ sub' = [sub EXCEPT !.listeners = @ \ {s}]
         /\ UNCHANGED <<leaving, observed>>
    ELSE /\ sub' = Absent
         /\ leaving' = leaving \cup {s}
         /\ observed' = -1

\* The rest of unwatch.  Redis takes commands in order; a failure is logged.
Unsubscribe(s) ==
    /\ s \in leaving
    /\ leaving' = leaving \ {s}
    /\ channel' \in {FALSE, channel}
    /\ UNCHANGED <<head, sub, observed, poll, sock>>

\* room.subscribe: a former subscription is given up first.
Subscribe(s) ==
    /\ sock[s].conn = "open"
    /\ sock[s].phase = "idle"
    /\ IF sock[s].ctx THEN Unwatch(s) ELSE UNCHANGED <<sub, leaving, observed>>
    /\ Set(s, [sock[s] EXCEPT !.phase = "leaving"])
    /\ UNCHANGED <<head, channel, poll>>

\* watch: a new listener joins the subscription or asks Redis for one.
Watch(s) ==
    /\ sock[s].phase = "leaving"
    /\ s \notin leaving
    /\ \/ sub = Absent /\ sub' = [listeners |-> {s}, ready |-> FALSE] /\ channel' = TRUE
       \/ sub # Absent /\ sub' = [sub EXCEPT !.listeners = @ \cup {s}] /\ UNCHANGED channel
    /\ Set(s, [sock[s] EXCEPT !.phase = "watching", !.ctx = FALSE, !.active = FALSE,
                              !.lost = FALSE, !.buffer = <<>>, !.base = 0, !.pos = 0,
                              !.pend = {}])
    /\ UNCHANGED <<head, leaving, observed, poll>>

\* Redis confirms the subscription.
Ready ==
    /\ IoEvent
    /\ sub # Absent /\ ~sub.ready
    /\ sub' = [sub EXCEPT !.ready = TRUE]
    /\ UNCHANGED <<head, channel, leaving, observed, poll, sock>>

\* Redis refuses it: every watcher gets the error, which closes its socket.
WatchFail ==
    /\ IoEvent
    /\ sub # Absent /\ ~sub.ready
    /\ sub' = Absent
    /\ channel' = FALSE
    /\ sock' = [s \in Sockets |-> IF s \in sub.listeners
                                  THEN CloseSocket([sock[s] EXCEPT !.phase = "idle"])
                                  ELSE sock[s]]
    /\ UNCHANGED <<head, leaving, observed, poll>>

\* await ready.
Watched(s) ==
    /\ sock[s].phase = "watching"
    /\ s \in Listeners /\ sub.ready
    /\ Set(s, [sock[s] EXCEPT !.phase = "reading"])
    /\ UNCHANGED <<head, fanout>>

\* External: a client asks from the end of what it has without a hole.
After(r) == Reach(0, r.got)

\* synchronize: one page and the durable head, from one snapshot.
ReadSnapshot(r) ==
    [from |-> After(r), to |-> Smaller(After(r) + PageLimit, head), mark |-> head]

Read(s) ==
    /\ sock[s].phase = "reading"
    /\ Set(s, [sock[s] EXCEPT !.phase = "read", !.page = ReadSnapshot(sock[s])])
    /\ UNCHANGED <<head, fanout>>

\* synchronize fails: the new listener is withdrawn before the error is answered.
ReadFail(s) ==
    /\ sock[s].phase \in {"reading", "read"}
    /\ Unwatch(s)
    /\ Set(s, [sock[s] EXCEPT !.phase = "failing", !.page = NoPage])
    /\ UNCHANGED <<head, channel, poll>>

Failed(s) ==
    /\ sock[s].phase = "failing"
    /\ s \notin leaving
    /\ Set(s, [sock[s] EXCEPT !.phase = "idle"])
    /\ UNCHANGED <<head, fanout>>

SendPage(r) == Send(r, (r.page.from + 1)..r.page.to, r.page.mark)

\* Faulty variant: what is buffered is not flushed.
ReplayUnflushed(r) ==
    [r EXCEPT !.active = TRUE, !.buffer = <<>>,
              !.pend = {p \in {r.buffer[i].pos : i \in DOMAIN r.buffer} : p > r.pos}]

(***************************************************************************)
(* activate hands the buffered notifications to the new cursor, in order.  *)
(* There are at most Buffer of them, so the cursor does not overflow and   *)
(* the outcome does not depend on their order.                             *)
(***************************************************************************)
Replay(r) ==
    LET new == {n \in {r.buffer[i] : i \in DOMAIN r.buffer} : n.pos > r.pos}
        pend == {n.pos : n \in {m \in new : m.kind = "message"}}
        top == CHOOSE q \in {n.pos : n \in new} \cup {r.pos} :
                  \A n \in new : n.pos <= q
        f == Flush([r EXCEPT !.pend = pend])
    IN  [Send(f, {}, top) EXCEPT !.active = TRUE, !.buffer = <<>>]

\* The cursor is created at the durable head, the snapshot is sent, then activate.
Activate(s) ==
    /\ sock[s].phase = "read"
    /\ LET r == SendPage([sock[s] EXCEPT !.phase = "idle", !.ctx = TRUE, !.pend = {},
                             !.pos = sock[s].page.mark, !.base = sock[s].page.mark])
       IN  Set(s, [IF r.lost THEN r ELSE Replay(r) EXCEPT !.page = NoPage])
    /\ UNCHANGED <<head, fanout>>

\* chat.sync.request.
Sync(s) ==
    /\ sock[s].conn = "open"
    /\ sock[s].phase = "idle" /\ sock[s].ctx
    /\ Set(s, [sock[s] EXCEPT !.phase = "syncing", !.page = ReadSnapshot(sock[s])])
    /\ UNCHANGED <<head, fanout>>

\* Faulty variant: the cursor follows the watermark of a page that ends before it.
AdvanceToMark(r) ==
    IF r.page.mark <= r.pos \/ r.lost THEN r
    ELSE Flush([r EXCEPT !.pos = r.page.mark, !.pend = {q \in @ : q > r.page.mark}])

\* ChatLiveCursor.advance.
Advance(r) ==
    IF r.page.to <= r.pos \/ r.lost THEN r
    ELSE Flush([r EXCEPT !.pos = r.page.to, !.pend = {q \in @ : q > r.page.to}])

\* The page is answered.
SyncReply(s) ==
    /\ sock[s].phase = "syncing"
    /\ Set(s, [Advance(SendPage(sock[s])) EXCEPT !.phase = "idle", !.page = NoPage])
    /\ UNCHANGED <<head, fanout>>

SyncFail(s) ==
    /\ sock[s].phase = "syncing"
    /\ Set(s, [sock[s] EXCEPT !.phase = "idle", !.page = NoPage])
    /\ UNCHANGED <<head, fanout>>
-----------------------------------------------------------------------------
\* The client leaves, is too slow or does not answer pings.
Disconnect(s) ==
    /\ IoEvent
    /\ sock[s].conn = "open"
    /\ Set(s, CloseSocket(sock[s]))
    /\ UNCHANGED <<head, fanout>>

\* cleanup, at the close event.
Cleanup(s) ==
    /\ IoEvent
    /\ sock[s].conn = "closing"
    /\ IF sock[s].ctx THEN Unwatch(s) ELSE UNCHANGED <<sub, leaving, observed>>
    /\ Set(s, [sock[s] EXCEPT !.conn = "closed"])
    /\ UNCHANGED <<head, channel, poll>>

\* External: a message commits.
MessageCommits ==
    /\ head < MaxHead
    /\ head' = head + 1
    /\ UNCHANGED <<fanout, sock>>

\* The awaits that must end.
Resume(s) ==
    \/ Unsubscribe(s)
    \/ Watch(s)
    \/ Watched(s)
    \/ Read(s)
    \/ Failed(s)
    \/ Activate(s)

FeedNext ==
    \/ MessageCommits
    \/ \E p \in Positions : Receive(p)
    \/ PollRead \/ PollNotify \/ PollFail
    \/ Ready \/ WatchFail
    \/ \E s \in Sockets : \/ Subscribe(s) \/ Resume(s) \/ ReadFail(s)
                          \/ Sync(s) \/ SyncReply(s) \/ SyncFail(s)
                          \/ Disconnect(s) \/ Cleanup(s)

FeedSpec == FeedInit /\ [][FeedNext]_feedVars

(***************************************************************************)
(* The poll timer comes round and PostgreSQL answers it sooner or later, a *)
(* client that was told of more than it has asks for it, and some of its   *)
(* requests succeed.  Nothing is assumed of Redis.                         *)
(***************************************************************************)
Lacks(s) == After(sock[s]) < sock[s].know
FeedFairSpec ==
    /\ FeedSpec
    /\ WF_feedVars(PollRead)
    /\ SF_feedVars(PollNotify)
    /\ \A s \in Sockets :
          /\ WF_feedVars(Lacks(s) /\ Sync(s))
          /\ SF_feedVars(SyncReply(s))
-----------------------------------------------------------------------------
\* The socket is open and the subscription serves it.
Live(s) ==
    /\ sock[s].conn = "open"
    /\ s \in Listeners
    /\ sock[s].active
    /\ ~sock[s].lost

(***************************************************************************)
(* A subscribed client has been told of every position the process has     *)
(* observed, by a message, a page or a watermark: observeHead never        *)
(* silences an announcement that some socket still needs.                  *)
(***************************************************************************)
Informed == \A s \in Sockets : Live(s) => observed <= sock[s].know

(***************************************************************************)
(* The cursor skips nothing: all positions between the watermark of the    *)
(* subscription and the cursor have been sent, live or in a page.          *)
(***************************************************************************)
NoSkip ==
    \A s \in Sockets :
       Live(s) => (sock[s].base + 1)..sock[s].pos \subseteq sock[s].got

(***************************************************************************)
(* A committed message reaches every socket that stays subscribed, even if *)
(* Redis loses its notification or the subscription itself.                *)
(***************************************************************************)
CaughtUp ==
    \A s \in Sockets, p \in Positions :
       Live(s) /\ p <= head ~> p \in sock[s].got \/ ~Live(s)
=============================================================================
