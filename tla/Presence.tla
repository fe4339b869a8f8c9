------------------------------ MODULE Presence ------------------------------
(***************************************************************************)
(* Presence of one meeting: the Redis scripts of src/modules/presence and  *)
(* the part of the realtime gateway that opens, refreshes and closes it.   *)
(*                                                                         *)
(* A script is atomic.  The scripts of one process reach Redis in the      *)
(* order they are issued, so a call is one step; it may also fail without  *)
(* effect.  Time is what is left of each time to live: Tick takes one unit *)
(* from all of them.                                                       *)
(***************************************************************************)
EXTENDS Integers, FiniteSets

CONSTANTS
    Sockets,       \* connections of the process; one connectionId each
    Owner,         \* the participant of each connection
    MaxShown,      \* realtime.maxPresenceSnapshotParticipants
    MaxPerSession, \* realtime.maxConnectionsPerSession
    Ttl,           \* realtime.presenceTtlSeconds
    Purge,         \* PURGE_BATCH_SIZE
    MaxPending     \* realtime.maxPendingCommands

ASSUME PresenceAssumption ==
    /\ IsFiniteSet(Sockets)
    /\ MaxShown \in Nat \ {0}
    /\ MaxPerSession \in Nat \ {0}
    /\ Ttl \in Nat \ {0}
    /\ Purge \in Nat \ {0}
    /\ MaxPending \in Nat

VARIABLES
    store,         \* the three Redis keys of the meeting
    shown,         \* the last snapshot a client was given
    subs,          \* listeners of the process's subscription
    sock           \* the gateway's context of each connection

vars == <<store, shown, subs, sock>>

\* members is the sorted set and left what remains of a member's score,
\* details the hash; keyTtl belongs to both.  rev is the revision, 0 when its
\* key does not exist; with revTtl = 0 it would never expire.
Store == [members : SUBSET Sockets, details : SUBSET Sockets,
          left : [Sockets -> 0 .. Ttl], keyTtl : 0 .. 2 * Ttl,
          rev : Nat, revTtl : 0 .. 2 * Ttl]

Owners(S) == {Owner[s] : s \in S}

\* The answer to room.subscribe.  list: the participants it names; truncated:
\* there are more.
Shown == [rev : Nat, list : SUBSET Owners(Sockets),
          truncated : BOOLEAN, current : BOOLEAN]

Jobs == {"none", "consume", "subscribe"}

\* registered: in the registry; principal: authenticated; job: the await in
\* which authenticate is suspended; unwatch: context.unwatchPresence is set;
\* term: socket.terminate() was called; silent: the peer is gone without a
\* close.
Context == [registered : BOOLEAN, used : BOOLEAN, principal : BOOLEAN,
            job : Jobs, unwatch : BOOLEAN, alive : BOOLEAN, term : BOOLEAN,
            silent : BOOLEAN, pending : 0 .. MaxPending]

\* current: no key has expired since.
NoSnapshot == [rev |-> 0, list |-> {}, truncated |-> TRUE, current |-> FALSE]

Init ==
    /\ store = [members |-> {}, details |-> {}, left |-> [s \in Sockets |-> 0],
                keyTtl |-> 0, rev |-> 0, revTtl |-> 0]
    /\ shown = NoSnapshot
    /\ subs = {}
    /\ sock = [s \in Sockets |->
                 [registered |-> FALSE, used |-> FALSE, principal |-> FALSE,
                  job |-> "none", unwatch |-> FALSE, alive |-> FALSE,
                  term |-> FALSE, silent |-> FALSE, pending |-> 0]]

-----------------------------------------------------------------------------
(* The Redis scripts *)

Stale(st) == {s \in st.members : st.left[s] = 0}
Fresh(st) == {s \in st.members : st.left[s] > 0}

\* LIMIT 0 n and slice(0, n): n members of S, or all of a smaller S.
FirstOf(S, n) ==
    {T \in SUBSET S : Cardinality(T) <= n /\ (Cardinality(T) = n \/ T = S)}

\* The stale connections one script removes.
Batches(st) == FirstOf(Stale(st), Purge)

\* The connections the snapshot script returns: those with the lowest scores,
\* that is, the oldest heartbeats.
Listed(st) ==
    {L \in FirstOf(Fresh(st), MaxShown * MaxPerSession) :
        \A s \in L, t \in Fresh(st) \ L : st.left[s] <= st.left[t]}

\* More was found than is returned, L being the connections listed.
Truncated(st, L) ==
    \/ Cardinality(Fresh(st)) > MaxShown * MaxPerSession
    \/ Cardinality(Owners(L)) > MaxShown

\* ZREM and HDEL.
Removed(st, b) == [st EXCEPT !.members = @ \ b, !.details = @ \ b]

\* Mutant: purging is not a change.
PurgedSilently(st, b) == Removed(st, b)

\* The purge of heartbeat and snapshot counts as a change.
Purged(st, b) ==
    IF b = {} THEN st ELSE [Removed(st, b) EXCEPT !.rev = @ + 1]

\* ZADD with the score now + Ttl, and PEXPIRE of all three keys.
Refreshed(st, s) ==
    [st EXCEPT !.members = @ \cup {s}, !.left[s] = Ttl,
               !.keyTtl = 2 * Ttl, !.revTtl = 2 * Ttl]

OpenScript(st, s, b) ==
    [Refreshed(Removed(st, b), s) EXCEPT !.details = @ \cup {s}, !.rev = @ + 1]

\* Mutant: PEXPIRE of the revision key is missing.
HeartbeatScriptKeyed(st, s, b) ==
    LET p == Purged(st, b) IN
    IF s \notin p.details THEN p
    ELSE [Refreshed(p, s) EXCEPT !.rev = IF p.rev = 0 THEN 1 ELSE p.rev,
                                 !.revTtl = p.revTtl]

\* Never invents presence: a connection that was purged stays away.  A lost
\* revision key is restored.
HeartbeatScript(st, s, b) ==
    LET p == Purged(st, b) IN
    IF s \notin p.details THEN p
    ELSE [Refreshed(p, s) EXCEPT !.rev = IF p.rev = 0 THEN 1 ELSE p.rev]

\* The revision advances, and only its own key is refreshed, on a change.
CloseScript(st, s) ==
    IF s \notin st.members THEN Removed(st, {s})
    ELSE [Removed(st, {s}) EXCEPT !.rev = @ + 1, !.revTtl = 2 * Ttl]

\* One unit of time: scores and keys expire.
Less(n) == IF n = 0 THEN 0 ELSE n - 1
Aged(st) ==
    [members |-> IF st.keyTtl = 1 THEN {} ELSE st.members,
     details |-> IF st.keyTtl = 1 THEN {} ELSE st.details,
     left |-> [s \in Sockets |-> Less(st.left[s])],
     keyTtl |-> Less(st.keyTtl),
     rev |-> IF st.revTtl = 1 THEN 0 ELSE st.rev,
     revTtl |-> Less(st.revTtl)]

\* A key expires with what it holds.
Lapsed(st) == st.revTtl = 1 \/ (st.keyTtl = 1 /\ st.members # {})

Tick ==
    /\ store' = Aged(store)
    /\ store' # store
    /\ shown' = [shown EXCEPT !.current = @ /\ ~Lapsed(store)]
    /\ UNCHANGED <<subs, sock>>

-----------------------------------------------------------------------------
(* Connections *)

\* open: the script and the notification; false when Redis fails.
Open(s) ==
    \/ UNCHANGED store
    \/ \E b \in Batches(store) : store' = OpenScript(store, s, b)

Heartbeat(s) ==
    \/ UNCHANGED store
    \/ \E b \in Batches(store) : store' = HeartbeatScript(store, s, b)

\* handleConnection: the registry gets the context.
Connect(s) ==
    /\ ~sock[s].used
    /\ sock' = [sock EXCEPT ![s].registered = TRUE, ![s].used = TRUE,
                            ![s].alive = TRUE]
    /\ UNCHANGED <<store, shown, subs>>

\* A frame session.authenticate: the ticket is being consumed.
Authenticate(s) ==
    /\ sock[s].registered /\ ~sock[s].silent
    /\ ~sock[s].principal /\ sock[s].job = "none"
    /\ sock' = [sock EXCEPT ![s].job = "consume"]
    /\ UNCHANGED <<store, shown, subs>>

ConsumeFailed(s) ==
    /\ sock[s].job = "consume"
    /\ sock' = [sock EXCEPT ![s].job = "none"]
    /\ UNCHANGED <<store, shown, subs>>

\* The ticket was good.  The registry refuses a socket it no longer knows;
\* else the socket has a principal and watches the meeting.  With a
\* subscription in place nothing is awaited before open is issued.
Consumed(s) ==
    /\ sock[s].job = "consume"
    /\ IF ~sock[s].registered
       THEN /\ sock' = [sock EXCEPT ![s].job = "none"]
            /\ UNCHANGED <<store, subs>>
       ELSE /\ subs' = subs \cup {s}
            /\ IF subs = {}
               THEN /\ sock' = [sock EXCEPT ![s].principal = TRUE,
                                            ![s].job = "subscribe"]
                    /\ UNCHANGED store
               ELSE /\ sock' = [sock EXCEPT ![s].principal = TRUE,
                                            ![s].job = "none",
                                            ![s].unwatch = TRUE]
                    /\ Open(s)
    /\ UNCHANGED shown

\* sSubscribe is confirmed.
Subscribed(s) ==
    /\ sock[s].job = "subscribe"
    /\ sock' = [sock EXCEPT ![s].job = "none", ![s].unwatch = TRUE]
    /\ Open(s)
    /\ UNCHANGED <<shown, subs>>

\* sSubscribe fails: the whole entry is deleted, presence is opened anyway.
SubscribeFailed(s) ==
    /\ sock[s].job = "subscribe"
    /\ subs' = {}
    /\ sock' = [sock EXCEPT ![s].job = "none", ![s].unwatch = FALSE]
    /\ Open(s)
    /\ UNCHANGED shown

\* enqueue: commands wait for the one before them.
Enqueue(s) ==
    /\ sock[s].registered /\ ~sock[s].silent
    /\ sock[s].pending < MaxPending
    /\ sock' = [sock EXCEPT ![s].pending = @ + 1]
    /\ UNCHANGED <<store, shown, subs>>

\* The next command of the queue; the queue is drained even after the socket
\* was removed, and a command without a principal is an error.
Dequeue(s) ==
    /\ sock[s].pending > 0
    /\ sock[s].job = "none"
    /\ sock' = [sock EXCEPT ![s].pending = @ - 1]
    /\ UNCHANGED subs

HeartbeatCommand(s) ==
    /\ Dequeue(s)
    /\ sock[s].principal
    /\ Heartbeat(s)
    /\ UNCHANGED shown

\* room.subscribe, when Redis answers: purge, then the participants of the
\* fresh connections, as many as fit.
Snapshot(s) ==
    /\ Dequeue(s)
    /\ sock[s].principal
    /\ \E b \in Batches(store) :
         /\ store' = Purged(store, b)
         /\ \E L \in Listed(store') : \E shownOwners \in FirstOf(Owners(L), MaxShown) :
              shown' = [rev |-> store'.rev, list |-> shownOwners,
                        truncated |-> Truncated(store', L),
                        current |-> store'.rev > 0]

\* Any other command, and one that fails.
OtherCommand(s) ==
    /\ Dequeue(s)
    /\ UNCHANGED <<store, shown>>

\* Mutant: the pong of a removed socket still counts.
PongLate(s) ==
    /\ sock[s].used
    /\ sock' = [sock EXCEPT ![s].alive = TRUE]
    /\ IF sock[s].principal THEN Heartbeat(s) ELSE UNCHANGED store
    /\ UNCHANGED <<shown, subs>>

\* handlePong: refreshes presence outside the queue.
Pong(s) ==
    /\ sock[s].registered /\ ~sock[s].silent
    /\ sock' = [sock EXCEPT ![s].alive = TRUE]
    /\ IF sock[s].principal THEN Heartbeat(s) ELSE UNCHANGED store
    /\ UNCHANGED <<shown, subs>>

\* runHeartbeatSweep: terminates who did not answer since the last sweep.
Sweep ==
    /\ sock' = [s \in Sockets |->
         IF ~sock[s].registered THEN sock[s]
         ELSE [sock[s] EXCEPT !.term = @ \/ ~sock[s].alive, !.alive = FALSE]]
    /\ sock' # sock
    /\ UNCHANGED <<store, shown, subs>>

\* The peer disappears without closing.
Vanish(s) ==
    /\ sock[s].registered /\ ~sock[s].silent
    /\ sock' = [sock EXCEPT ![s].silent = TRUE]
    /\ UNCHANGED <<store, shown, subs>>

\* The close event of a socket: by the peer, by the server, by terminate().
\* unwatch and the close script run side by side; either may fail.
Cleanup(s) ==
    /\ sock[s].registered
    /\ ~sock[s].silent \/ sock[s].term
    /\ sock' = [sock EXCEPT ![s].registered = FALSE]
    /\ subs' = IF sock[s].unwatch THEN subs \ {s} ELSE subs
    /\ \/ UNCHANGED store
       \/ sock[s].principal /\ store' = CloseScript(store, s)
    /\ UNCHANGED shown

\* The process dies: nothing is cleaned up.
Crash ==
    /\ \E s \in Sockets : sock[s].registered
    /\ subs' = {}
    /\ sock' = [s \in Sockets |->
         [sock[s] EXCEPT !.registered = FALSE, !.job = "none", !.pending = 0,
                         !.unwatch = FALSE]]
    /\ UNCHANGED <<store, shown>>

Next ==
    \/ Tick \/ Sweep \/ Crash
    \/ \E s \in Sockets :
         \/ Connect(s) \/ Authenticate(s) \/ ConsumeFailed(s) \/ Consumed(s)
         \/ Subscribed(s) \/ SubscribeFailed(s) \/ Enqueue(s)
         \/ HeartbeatCommand(s) \/ Snapshot(s) \/ OtherCommand(s) \/ Pong(s)
         \/ Vanish(s) \/ Cleanup(s)

Spec == Init /\ [][Next]_vars

\* Redis's clock runs, the sweep's interval timer fires and terminate() leads
\* to a close event.  Nothing is assumed of peers, of awaited calls returning
\* nor of Redis calls succeeding.
FairSpec ==
    /\ Spec
    /\ WF_vars(Tick)
    /\ WF_vars(Sweep)
    /\ \A s \in Sockets : WF_vars(sock[s].term /\ Cleanup(s))

-----------------------------------------------------------------------------
(* Properties *)

\* Types.
TypeOK ==
    /\ store \in Store
    /\ shown \in Shown
    /\ subs \in SUBSET Sockets
    /\ sock \in [Sockets -> Context]

\* The sorted set and the hash hold the same connections, so a snapshot never
\* drops a connection it counts and a heartbeat never revives a removed one.
KeysAligned == store.members = store.details

\* The revision key lives at least as long as the connections it numbers, and
\* never for ever: the INCR of a purge or of a close, which sets no expiry,
\* cannot be the one that creates the key.
RevisionOutlives ==
    /\ store.members # {} => store.rev > 0 /\ store.revTtl >= store.keyTtl
    /\ store.rev > 0 => store.revTtl > 0

\* A client may skip what it has seen: as long as no key has expired in
\* between, two snapshots with one revision are both truncated or both
\* complete, and complete ones name the same participants.  Which participants
\* a truncated one names changes with every heartbeat, at the same revision.
SnapshotsAgree ==
    [][shown.current /\ shown'.rev = shown.rev =>
         /\ shown'.truncated = shown.truncated
         /\ ~shown.truncated => shown'.list = shown.list]_vars

\* A connection that was closed, or whose peer has vanished, leaves the
\* registry and the snapshots, even if its last calls failed, came too late or
\* its process died.
DeadDisappear ==
    \A s \in Sockets :
        sock[s].used /\ (~sock[s].registered \/ sock[s].silent)
            ~> ~sock[s].registered /\ s \notin Fresh(store)
=============================================================================
