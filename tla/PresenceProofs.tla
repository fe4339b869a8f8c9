--------------------------- MODULE PresenceProofs ---------------------------
(***************************************************************************)
(* Proofs about Presence, for every finite set of connections, of any      *)
(* participants, every time to live, every size of a purge batch and every *)
(* bound on a snapshot.                                                    *)
(***************************************************************************)
EXTENDS Presence, FiniteSetTheorems, TLAPS

-----------------------------------------------------------------------------
(* The inductive invariant *)

\* What holds of the three keys: the properties of Presence and that a key
\* that holds connections has an expiry.
StoreInv(st) ==
    /\ st \in Store
    /\ st.members = st.details
    /\ st.members # {} => /\ st.rev > 0
                          /\ st.keyTtl > 0
                          /\ st.revTtl >= st.keyTtl
    /\ st.rev > 0 => st.revTtl > 0

\* A snapshot of the fresh connections F does not fit.
TooMany(F) ==
    \/ Cardinality(F) > MaxShown * MaxPerSession
    \/ Cardinality(Owners(F)) > MaxShown

\* The last snapshot is one of the fresh connections F.
Shows(F) ==
    /\ shown.truncated = TooMany(F)
    /\ ~shown.truncated => shown.list = Owners(F)

\* What the last snapshot still says: while the revision is the one it showed,
\* it was taken of all connections that are fresh now and of none that is no
\* longer stored.
ShownInv ==
    shown.current =>
        /\ shown.rev <= store.rev
        /\ shown.rev = store.rev =>
             \E F \in SUBSET store.members : Fresh(store) \subseteq F /\ Shows(F)

IInv == TypeOK /\ StoreInv(store) /\ ShownInv

\* How a script changes the keys: the revision does not fall, and if it does
\* not rise the connections are the same, fresh or not.
Follows(st, new) ==
    /\ StoreInv(new)
    /\ new.rev >= st.rev
    /\ new.rev = st.rev => /\ new.members = st.members
                           /\ Fresh(new) = Fresh(st)

-----------------------------------------------------------------------------
(* The scripts *)

\* An empty batch means that nothing is stale, because Purge is not zero.
LEMMA EmptyBatch ==
  ASSUME NEW st, {} \in Batches(st)
  PROVE  Stale(st) = {}
<1>1. Cardinality({}) = 0
  BY FS_EmptySet
<1>2. QED
  BY <1>1, PresenceAssumption DEF Batches, FirstOf

\* ZREM and HDEL change nothing else.
LEMMA RemovedFields ==
  ASSUME NEW st \in Store, NEW b
  PROVE  /\ Removed(st, b) \in Store
         /\ Removed(st, b).members = st.members \ b
         /\ Removed(st, b).details = st.details \ b
         /\ Removed(st, b).left = st.left
         /\ Removed(st, b).keyTtl = st.keyTtl
         /\ Removed(st, b).rev = st.rev
         /\ Removed(st, b).revTtl = st.revTtl
BY DEF Removed, Store

\* A batch is stale: fresh connections survive a purge (ZRANGEBYSCORE -inf now).
LEMMA PurgeKeepsFresh ==
  ASSUME NEW st, StoreInv(st), NEW b \in Batches(st)
  PROVE  /\ StoreInv(Removed(st, b))
         /\ Removed(st, b).rev = st.rev
         /\ Fresh(Removed(st, b)) = Fresh(st)
<1>1. b \subseteq Stale(st)
  BY DEF Batches, FirstOf
<1>2. /\ Removed(st, b) \in Store
      /\ Removed(st, b).members = st.members \ b
      /\ Removed(st, b).details = st.details \ b
      /\ Removed(st, b).left = st.left
      /\ Removed(st, b).keyTtl = st.keyTtl
      /\ Removed(st, b).rev = st.rev
      /\ Removed(st, b).revTtl = st.revTtl
  BY RemovedFields DEF StoreInv
<1>3. StoreInv(Removed(st, b))
  BY <1>2 DEF StoreInv, Store
<1>4. Fresh(Removed(st, b)) = Fresh(st)
  BY <1>1, <1>2 DEF Fresh, Stale, StoreInv, Store
<1>5. QED
  BY <1>2, <1>3, <1>4

\* The purge of heartbeat and snapshot: a change, unless nothing was stale.
LEMMA PurgeFollows ==
  ASSUME NEW st, StoreInv(st), NEW b \in Batches(st)
  PROVE  /\ Follows(st, Purged(st, b))
         /\ Purged(st, b).rev = st.rev => b = {}
<1>1. CASE b = {}
  BY <1>1 DEF Follows, Purged, StoreInv, Store
<1>2. CASE b # {}
  <2> DEFINE r == Removed(st, b)
  <2>1. StoreInv(r) /\ r.rev = st.rev
    BY PurgeKeepsFresh
  <2>2. Purged(st, b) = [r EXCEPT !.rev = r.rev + 1]
    BY <1>2 DEF Purged
  <2>3. r \in Store
    BY <2>1 DEF StoreInv
  <2> HIDE DEF r
  <2>4. /\ Purged(st, b) \in Store
        /\ Purged(st, b).members = r.members
        /\ Purged(st, b).details = r.details
        /\ Purged(st, b).keyTtl = r.keyTtl
        /\ Purged(st, b).rev = r.rev + 1
        /\ Purged(st, b).revTtl = r.revTtl
    BY <2>2, <2>3 DEF Store
  <2>5. r.rev = 0 \/ r.rev > 0
    BY <2>3 DEF Store
  <2>6. st.members # {}
    BY <1>2 DEF Batches, FirstOf, Stale
  <2>7. r.rev > 0
    BY <2>1, <2>6, <2>3 DEF StoreInv, Store
  <2>8. StoreInv(Purged(st, b))
    BY <2>1, <2>3, <2>4, <2>7 DEF StoreInv, Store
  <2>9. QED
    BY <2>1, <2>3, <2>4, <2>8 DEF Follows, StoreInv, Store
<1>3. QED
  BY <1>1, <1>2

\* ZADD and the three PEXPIRE keep the keys consistent once the connection is
\* in the hash and the revision exists.
LEMMA RefreshedFields ==
  ASSUME NEW st \in Store, NEW s \in Sockets
  PROVE  /\ Refreshed(st, s) \in Store
         /\ Refreshed(st, s).members = st.members \cup {s}
         /\ Refreshed(st, s).details = st.details
         /\ Refreshed(st, s).left = [st.left EXCEPT ![s] = Ttl]
         /\ Refreshed(st, s).keyTtl = 2 * Ttl
         /\ Refreshed(st, s).rev = st.rev
         /\ Refreshed(st, s).revTtl = 2 * Ttl
<1>1. 2 * Ttl \in 0 .. 2 * Ttl /\ Ttl \in 0 .. Ttl
  BY PresenceAssumption
<1>2. QED
  BY <1>1 DEF Refreshed, Store

LEMMA OpenFollows ==
  ASSUME NEW st, StoreInv(st), NEW s \in Sockets, NEW b \in Batches(st)
  PROVE  Follows(st, OpenScript(st, s, b))
<1> DEFINE r == Removed(st, b)
           o == OpenScript(st, s, b)
<1>1. StoreInv(r) /\ r.rev = st.rev
  BY PurgeKeepsFresh
<1>2. r \in Store
  BY <1>1 DEF StoreInv
<1> DEFINE q == Refreshed(r, s)
<1>3. o = [q EXCEPT !.details = q.details \cup {s}, !.rev = q.rev + 1]
  BY DEF OpenScript
<1>a. /\ q \in Store
      /\ q.members = r.members \cup {s}
      /\ q.details = r.details
      /\ q.keyTtl = 2 * Ttl
      /\ q.rev = r.rev
      /\ q.revTtl = 2 * Ttl
  BY <1>2, RefreshedFields
<1> HIDE DEF r, o, q
<1>b. o \in Store
  <2>1. q.details \cup {s} \in SUBSET Sockets /\ q.rev + 1 \in Nat
    BY <1>a DEF Store
  <2>2. QED
    BY <1>3, <1>a, <2>1 DEF Store
<1>4. /\ o \in Store
      /\ o.members = r.members \cup {s}
      /\ o.details = r.details \cup {s}
      /\ o.keyTtl = 2 * Ttl
      /\ o.rev = r.rev + 1
      /\ o.revTtl = 2 * Ttl
  BY <1>3, <1>a, <1>b DEF Store
<1>5. 2 * Ttl \in 0 .. 2 * Ttl /\ 2 * Ttl > 0 /\ Ttl \in 0 .. Ttl
  BY PresenceAssumption
<1>7. StoreInv(o)
  BY <1>1, <1>2, <1>4, <1>5 DEF StoreInv, Store
<1>8. QED
  BY <1>1, <1>2, <1>4, <1>7 DEF Follows, Store, o

LEMMA HeartbeatFollows ==
  ASSUME NEW st, StoreInv(st), NEW s \in Sockets, NEW b \in Batches(st)
  PROVE  Follows(st, HeartbeatScript(st, s, b))
<1> DEFINE p == Purged(st, b)
           h == HeartbeatScript(st, s, b)
<1>1. Follows(st, p) /\ (p.rev = st.rev => b = {})
  BY PurgeFollows
<1>2. CASE s \notin p.details
  BY <1>1, <1>2 DEF HeartbeatScript
<1>3. CASE s \in p.details
  <2>1. p \in Store /\ p.members = p.details /\ p.rev > 0
    BY <1>1, <1>3 DEF Follows, StoreInv, Store
  <2>2. h = [Refreshed(p, s) EXCEPT !.rev = IF p.rev = 0 THEN 1 ELSE p.rev]
    BY <1>3 DEF HeartbeatScript
  <2>a. b = {} => p = st
    BY DEF Purged
  <2> HIDE DEF p, h
  <2>3. /\ h \in Store
        /\ h.members = p.members \cup {s}
        /\ h.details = p.details
        /\ h.left = [p.left EXCEPT ![s] = Ttl]
        /\ h.keyTtl = 2 * Ttl
        /\ h.rev = p.rev
        /\ h.revTtl = 2 * Ttl
    BY <2>1, <2>2, RefreshedFields DEF Store
  <2>4. 2 * Ttl \in 0 .. 2 * Ttl /\ 2 * Ttl > 0 /\ Ttl \in 0 .. Ttl /\ Ttl > 0
    BY PresenceAssumption
  <2>6. p.members \cup {s} = p.members
    BY <1>3, <2>1
  <2>7. StoreInv(h)
    BY <2>1, <2>3, <2>4, <2>6 DEF StoreInv, Store
  <2>8. h.rev = st.rev => h.members = st.members /\ Fresh(h) = Fresh(st)
    <3> SUFFICES ASSUME h.rev = st.rev
                 PROVE  h.members = st.members /\ Fresh(h) = Fresh(st)
      OBVIOUS
    <3>1. b = {} /\ p = st
      BY <1>1, <2>3, <2>a
    <3>2. Stale(st) = {}
      BY <3>1, EmptyBatch
    <3>3. h.members = st.members
      BY <2>3, <2>6, <3>1
    <3>4. \A x \in st.members : st.left[x] > 0
      BY <3>1, <3>2, <2>1 DEF Stale, Store
    <3>5. \A x \in st.members : h.left[x] > 0
      BY <2>1, <2>3, <2>4, <3>1, <3>4 DEF Store
    <3>6. QED
      BY <3>3, <3>4, <3>5 DEF Fresh
  <2>9. h.rev >= st.rev
    BY <1>1, <2>1, <2>3 DEF Follows, Store
  <2>10. QED
    BY <2>7, <2>8, <2>9 DEF Follows, h
<1>4. QED
  BY <1>2, <1>3

LEMMA CloseFollows ==
  ASSUME NEW st, StoreInv(st), NEW s \in Sockets
  PROVE  Follows(st, CloseScript(st, s))
<1> DEFINE c == CloseScript(st, s)
<1>1. st \in Store /\ st.members = st.details
  BY DEF StoreInv
<1> DEFINE r == Removed(st, {s})
<1>2. /\ r \in Store
      /\ r.members = st.members \ {s}
      /\ r.details = st.details \ {s}
      /\ r.left = st.left
      /\ r.keyTtl = st.keyTtl
      /\ r.rev = st.rev
      /\ r.revTtl = st.revTtl
  BY <1>1, RemovedFields
<1> HIDE DEF r
<1>3. CASE s \notin st.members
  <2>1. c = r /\ st.members \ {s} = st.members
    BY <1>3 DEF CloseScript, r
  <2> HIDE DEF c
  <2>2. c.members = st.members /\ c.left = st.left /\ c.rev = st.rev
    BY <1>2, <2>1
  <2>3. StoreInv(c)
    BY <1>1, <1>2, <2>1 DEF StoreInv, Store
  <2>4. QED
    BY <1>1, <2>2, <2>3 DEF Follows, Fresh, Store, c
<1>4. CASE s \in st.members
  <2>a. c = [r EXCEPT !.rev = r.rev + 1, !.revTtl = 2 * Ttl]
    BY <1>4 DEF CloseScript, r
  <2> HIDE DEF c
  <2>b. 2 * Ttl \in 0 .. 2 * Ttl
    BY PresenceAssumption
  <2>c. c \in Store
    <3>1. r.rev + 1 \in Nat
      BY <1>2 DEF Store
    <3>2. QED
      BY <1>2, <2>a, <2>b, <3>1 DEF Store
  <2>1. /\ c \in Store
        /\ c.members = st.members \ {s}
        /\ c.details = st.details \ {s}
        /\ c.keyTtl = st.keyTtl
        /\ c.rev = st.rev + 1
        /\ c.revTtl = 2 * Ttl
    BY <1>2, <2>a, <2>c DEF Store
  <2>2. 2 * Ttl \in 0 .. 2 * Ttl /\ 2 * Ttl > 0 /\ 2 * Ttl >= st.keyTtl
    BY <1>1, PresenceAssumption DEF Store
  <2>3. StoreInv(c)
    BY <1>1, <1>4, <2>1, <2>2 DEF StoreInv, Store
  <2>4. QED
    BY <1>1, <2>1, <2>3 DEF Follows, Store, c
<1>5. QED
  BY <1>3, <1>4

\* Time alone removes connections only with the key, and makes none fresh.
LEMMA AgedKeeps ==
  ASSUME NEW st, StoreInv(st)
  PROVE  /\ StoreInv(Aged(st))
         /\ ~Lapsed(st) => /\ Aged(st).rev = st.rev
                           /\ Aged(st).members = st.members
                           /\ Fresh(Aged(st)) \subseteq Fresh(st)
<1>1. st \in Store /\ st.members = st.details
  BY DEF StoreInv
<1>2. \A n \in Nat : Less(n) \in 0 .. n /\ (n > 1 => Less(n) = n - 1)
  BY DEF Less
<1>3. \A s \in Sockets : st.left[s] \in Nat /\ Less(st.left[s]) \in 0 .. Ttl
  BY <1>1, <1>2, PresenceAssumption DEF Store
<1>4. Aged(st) \in Store
  <2>1. [s \in Sockets |-> Less(st.left[s])] \in [Sockets -> 0 .. Ttl]
    BY <1>3
  <2>2. Less(st.keyTtl) \in 0 .. 2 * Ttl /\ Less(st.revTtl) \in 0 .. 2 * Ttl
    BY <1>1, <1>2, PresenceAssumption DEF Store
  <2>3. QED
    BY <1>1, <2>1, <2>2 DEF Aged, Store
<1>5. Aged(st).members # {} =>
        /\ st.members # {} /\ st.keyTtl > 1 /\ st.revTtl > 1
        /\ Aged(st).rev = st.rev
  BY <1>1 DEF Aged, StoreInv, Store
<1>6. Aged(st).rev > 0 => Aged(st).revTtl > 0
  BY <1>1, <1>2 DEF Aged, StoreInv, Store, Less
<1>7. StoreInv(Aged(st))
  <2>1. Aged(st).members = Aged(st).details
    BY <1>1 DEF Aged
  <2>2. Aged(st).members # {} => /\ Aged(st).rev > 0
                                 /\ Aged(st).keyTtl > 0
                                 /\ Aged(st).revTtl >= Aged(st).keyTtl
    BY <1>1, <1>5 DEF Aged, StoreInv, Store, Less
  <2>3. QED
    BY <1>4, <1>6, <2>1, <2>2 DEF StoreInv
<1>8. ASSUME ~Lapsed(st)
      PROVE  /\ Aged(st).rev = st.rev
             /\ Aged(st).members = st.members
             /\ Fresh(Aged(st)) \subseteq Fresh(st)
  <2>1. Aged(st).rev = st.rev /\ Aged(st).members = st.members
    BY <1>1, <1>8 DEF Aged, Lapsed
  <2>2. \A s \in st.members : Aged(st).left[s] > 0 => st.left[s] > 0
    BY <1>1, <1>3 DEF Aged, Less, Store
  <2>3. QED
    BY <2>1, <2>2 DEF Fresh
<1>9. QED
  BY <1>7, <1>8

-----------------------------------------------------------------------------
(* Steps *)

\* The four calls of the service that change the keys, each of which may also
\* fail without effect.
LEMMA OpenStep ==
  ASSUME StoreInv(store), NEW s \in Sockets, Open(s)
  PROVE  Follows(store, store')
<1>1. CASE UNCHANGED store
  BY <1>1 DEF Follows, StoreInv, Store
<1>2. CASE \E b \in Batches(store) : store' = OpenScript(store, s, b)
  BY <1>2, OpenFollows
<1>3. QED
  BY <1>1, <1>2 DEF Open

LEMMA HeartbeatStep ==
  ASSUME StoreInv(store), NEW s \in Sockets, Heartbeat(s)
  PROVE  Follows(store, store')
<1>1. CASE UNCHANGED store
  BY <1>1 DEF Follows, StoreInv, Store
<1>2. CASE \E b \in Batches(store) : store' = HeartbeatScript(store, s, b)
  BY <1>2, HeartbeatFollows
<1>3. QED
  BY <1>1, <1>2 DEF Heartbeat

\* Types of what is not in Redis.
LocalOK ==
    /\ shown \in Shown
    /\ subs \in SUBSET Sockets
    /\ sock \in [Sockets -> Context]

\* Every step but a snapshot and the clock leaves the snapshot alone and
\* changes the keys, if at all, as a script does.
Quiet == Follows(store, store') /\ shown' = shown

LEMMA NoScript ==
  ASSUME StoreInv(store), UNCHANGED <<store, shown>>
  PROVE  Quiet
BY DEF Quiet, Follows, StoreInv, Store

LEMMA SocketStep ==
  ASSUME IInv, NEW s \in Sockets,
         \/ Connect(s) \/ Authenticate(s) \/ ConsumeFailed(s) \/ Consumed(s)
         \/ Subscribed(s) \/ SubscribeFailed(s) \/ Enqueue(s)
         \/ HeartbeatCommand(s) \/ OtherCommand(s) \/ Pong(s)
         \/ Vanish(s) \/ Cleanup(s)
  PROVE  LocalOK' /\ Quiet
<1> USE PresenceAssumption
<1>0. LocalOK /\ StoreInv(store)
  BY DEF IInv, TypeOK, LocalOK
<1>a. sock \in [Sockets -> Context] /\ sock[s] \in Context
  BY <1>0 DEF LocalOK
<1>1. CASE Connect(s)
  BY <1>0, <1>1, <1>a, NoScript DEF Connect, LocalOK, Context
<1>2. CASE Authenticate(s)
  BY <1>0, <1>2, <1>a, NoScript DEF Authenticate, LocalOK, Context, Jobs
<1>3. CASE ConsumeFailed(s)
  BY <1>0, <1>3, <1>a, NoScript DEF ConsumeFailed, LocalOK, Context, Jobs
<1>4. CASE Consumed(s)
  <2>1. shown' = shown
    BY <1>4 DEF Consumed
  <2>2. CASE ~sock[s].registered
    BY <1>0, <1>4, <1>a, <2>1, <2>2, NoScript DEF Consumed, LocalOK, Context, Jobs
  <2>3. CASE sock[s].registered /\ subs = {}
    BY <1>0, <1>4, <1>a, <2>1, <2>3, NoScript DEF Consumed, LocalOK, Context, Jobs
  <2>4. CASE sock[s].registered /\ subs # {}
    <3>1. Open(s)
      BY <1>4, <2>4 DEF Consumed
    <3>2. LocalOK'
      BY <1>0, <1>4, <1>a, <2>1, <2>4 DEF Consumed, LocalOK, Context, Jobs
    <3>3. QED
      BY <1>0, <2>1, <3>1, <3>2, OpenStep DEF Quiet
  <2>5. QED
    BY <2>2, <2>3, <2>4
<1>5. CASE Subscribed(s)
  <2>1. LocalOK' /\ shown' = shown /\ Open(s)
    BY <1>0, <1>5, <1>a DEF Subscribed, LocalOK, Context, Jobs
  <2>2. QED
    BY <1>0, <2>1, OpenStep DEF Quiet
<1>6. CASE SubscribeFailed(s)
  <2>1. LocalOK' /\ shown' = shown /\ Open(s)
    BY <1>0, <1>6, <1>a DEF SubscribeFailed, LocalOK, Context, Jobs
  <2>2. QED
    BY <1>0, <2>1, OpenStep DEF Quiet
<1>7. CASE Enqueue(s)
  BY <1>0, <1>7, <1>a, NoScript DEF Enqueue, LocalOK, Context
<1>8. CASE HeartbeatCommand(s)
  <2>1. LocalOK' /\ shown' = shown /\ Heartbeat(s)
    BY <1>0, <1>8, <1>a DEF HeartbeatCommand, Dequeue, LocalOK, Context
  <2>2. QED
    BY <1>0, <2>1, HeartbeatStep DEF Quiet
<1>9. CASE OtherCommand(s)
  BY <1>0, <1>9, <1>a, NoScript DEF OtherCommand, Dequeue, LocalOK, Context
<1>10. CASE Pong(s)
  <2>1. LocalOK' /\ shown' = shown
    BY <1>0, <1>10, <1>a DEF Pong, LocalOK, Context
  <2>2. CASE sock[s].principal
    BY <1>0, <1>10, <2>1, <2>2, HeartbeatStep DEF Pong, Quiet
  <2>3. CASE ~sock[s].principal
    BY <1>0, <1>10, <2>1, <2>3, NoScript DEF Pong
  <2>4. QED
    BY <2>2, <2>3
<1>11. CASE Vanish(s)
  BY <1>0, <1>11, <1>a, NoScript DEF Vanish, LocalOK, Context
<1>12. CASE Cleanup(s)
  <2>1. LocalOK' /\ shown' = shown
    BY <1>0, <1>12, <1>a DEF Cleanup, LocalOK, Context
  <2>2. CASE UNCHANGED store
    BY <1>0, <2>1, <2>2, NoScript
  <2>3. CASE store' = CloseScript(store, s)
    BY <1>0, <2>1, <2>3, CloseFollows DEF Quiet
  <2>4. QED
    BY <1>12, <2>2, <2>3 DEF Cleanup
<1>13. QED
  BY <1>1, <1>2, <1>3, <1>4, <1>5, <1>6, <1>7, <1>8, <1>9, <1>10, <1>11, <1>12

\* What the snapshot says stays true when the keys change under it.
LEMMA QuietKeepsShown ==
  ASSUME IInv, LocalOK', Quiet
  PROVE  IInv'
<1>1. StoreInv(store') /\ store' \in Store
  BY DEF Quiet, Follows, StoreInv
<1>2. store.rev \in Nat /\ store'.rev \in Nat /\ shown.rev \in Nat
  BY <1>1 DEF IInv, TypeOK, Store, Shown
<1>3. ShownInv'
  <2> SUFFICES ASSUME shown.current
               PROVE  /\ shown.rev <= store'.rev
                      /\ shown.rev = store'.rev =>
                           \E F \in SUBSET store'.members :
                              Fresh(store') \subseteq F /\ Shows(F)
    BY DEF ShownInv, Quiet, Shows
  <2>1. shown.rev <= store.rev /\ store.rev <= store'.rev
    BY <1>2 DEF IInv, ShownInv, Quiet, Follows
  <2>2. ASSUME shown.rev = store'.rev
        PROVE  \E F \in SUBSET store'.members : Fresh(store') \subseteq F /\ Shows(F)
    <3>1. store'.rev = store.rev /\ shown.rev = store.rev
      BY <1>2, <2>1, <2>2
    <3>2. store'.members = store.members /\ Fresh(store') = Fresh(store)
      BY <3>1 DEF Quiet, Follows
    <3>3. QED
      BY <3>1, <3>2 DEF IInv, ShownInv
  <2>3. QED
    BY <1>2, <2>1, <2>2
<1>4. QED
  BY <1>1, <1>3 DEF IInv, TypeOK, LocalOK

\* As many as fit of a set that fits are all of it.
LEMMA FirstOfAll ==
  ASSUME NEW S, IsFiniteSet(S), NEW n \in Nat, Cardinality(S) <= n,
         NEW T \in FirstOf(S, n)
  PROVE  T = S
<1>1. T \in SUBSET S /\ (Cardinality(T) = n \/ T = S)
  BY DEF FirstOf
<1>2. /\ IsFiniteSet(T)
      /\ Cardinality(T) <= Cardinality(S)
      /\ Cardinality(S) = Cardinality(T) => S = T
  BY <1>1, FS_Subset
<1>3. Cardinality(T) \in Nat /\ Cardinality(S) \in Nat
  BY <1>2, FS_CardinalityType
<1>4. QED
  BY <1>1, <1>2, <1>3

\* LIMIT and slice together: the answer is marked truncated if the fresh
\* connections do not fit, and names the participants of all of them if they do.
LEMMA AnswerShows ==
  ASSUME NEW st \in Store, NEW L \in Listed(st), NEW P \in FirstOf(Owners(L), MaxShown)
  PROVE  /\ Truncated(st, L) = TooMany(Fresh(st))
         /\ ~Truncated(st, L) => P = Owners(Fresh(st))
<1> DEFINE F == Fresh(st)
           n == MaxShown * MaxPerSession
<1>1. IsFiniteSet(F) /\ n \in Nat /\ MaxShown \in Nat
  <2>1. F \subseteq Sockets
    BY DEF Fresh, Store
  <2>2. QED
    BY <2>1, PresenceAssumption, FS_Subset
<1>2. L \in FirstOf(F, n)
  BY DEF Listed
<1>3. Cardinality(F) \in Nat
  BY <1>1, FS_CardinalityType
<1>4. CASE Cardinality(F) > n
  BY <1>4 DEF Truncated, TooMany
<1>5. CASE ~(Cardinality(F) > n)
  <2>1. L = F
    BY <1>1, <1>2, <1>3, <1>5, FirstOfAll
  <2>2. Truncated(st, L) = TooMany(F)
    BY <2>1 DEF Truncated, TooMany
  <2>3. ASSUME ~Truncated(st, L)
        PROVE  P = Owners(F)
    <3>1. IsFiniteSet(Owners(F))
      <4> DEFINE f == [s \in F |-> Owner[s]]
      <4>1. f \in Surjection(F, Owners(F))
        BY DEF Owners, Surjection
      <4>2. QED
        BY <1>1, <4>1, FS_Surjection
    <3>2. Cardinality(Owners(F)) <= MaxShown
      BY <1>1, <2>1, <2>3, <3>1, FS_CardinalityType DEF Truncated
    <3>3. QED
      BY <1>1, <2>1, <3>1, <3>2, FirstOfAll
  <2>4. QED
    BY <2>2, <2>3
<1>6. QED
  BY <1>4, <1>5

\* A snapshot purges and then shows the fresh connections; it has the revision
\* of the one before only if that one showed the same.
LEMMA SnapshotStep ==
  ASSUME IInv, NEW s \in Sockets, Snapshot(s)
  PROVE  /\ IInv'
         /\ shown.current /\ shown'.rev = shown.rev =>
              /\ shown'.truncated = shown.truncated
              /\ ~shown.truncated => shown'.list = shown.list
<1>1. PICK b \in Batches(store) :
        /\ store' = Purged(store, b)
        /\ \E L \in Listed(store') : \E P \in FirstOf(Owners(L), MaxShown) :
             shown' = [rev |-> store'.rev, list |-> P,
                       truncated |-> Truncated(store', L),
                       current |-> store'.rev > 0]
  BY DEF Snapshot
<1>2. StoreInv(store)
  BY DEF IInv
<1>3. Follows(store, store') /\ (store'.rev = store.rev => b = {})
  BY <1>1, <1>2, PurgeFollows
<1>4. StoreInv(store') /\ store' \in Store /\ store \in Store
  BY <1>2, <1>3 DEF Follows, StoreInv
<1>5. PICK L \in Listed(store') : \E P \in FirstOf(Owners(L), MaxShown) :
        shown' = [rev |-> store'.rev, list |-> P,
                  truncated |-> Truncated(store', L),
                  current |-> store'.rev > 0]
  BY <1>1
<1>6. PICK P \in FirstOf(Owners(L), MaxShown) :
        shown' = [rev |-> store'.rev, list |-> P,
                  truncated |-> Truncated(store', L),
                  current |-> store'.rev > 0]
  BY <1>5
<1>7. shown'.rev = store'.rev /\ Shows(Fresh(store))'
  <2>1. /\ shown'.rev = store'.rev
        /\ shown'.list = P
        /\ shown'.truncated = Truncated(store', L)
    BY <1>6
  <2>2. /\ Truncated(store', L) = TooMany(Fresh(store'))
        /\ ~Truncated(store', L) => P = Owners(Fresh(store'))
    BY <1>4, AnswerShows
  <2>3. QED
    BY <2>1, <2>2 DEF Shows
<1>8. Fresh(store') \subseteq store'.members /\ store'.members \subseteq Sockets
  BY <1>4 DEF Fresh, Store
<1>9. LocalOK'
  <2>1. sock' \in [Sockets -> Context] /\ subs' \in SUBSET Sockets
    BY PresenceAssumption DEF IInv, TypeOK, Snapshot, Dequeue, Context
  <2>2. store'.rev \in Nat /\ (store'.rev > 0) \in BOOLEAN
    BY <1>4 DEF Store
  <2>3. P \subseteq Owners(Sockets)
    BY <1>8 DEF FirstOf, Listed, Owners
  <2>4. Truncated(store', L) \in BOOLEAN
    BY DEF Truncated
  <2>5. shown' \in Shown
    BY <1>6, <2>2, <2>3, <2>4 DEF Shown
  <2>6. QED
    BY <2>1, <2>5 DEF LocalOK
<1>10. ShownInv'
  <2>1. store'.rev <= store'.rev
    BY <1>4 DEF Store
  <2>2. QED
    BY <1>7, <1>8, <2>1 DEF ShownInv
<1>11. IInv'
  BY <1>4, <1>9, <1>10 DEF IInv, TypeOK, LocalOK
<1>12. ASSUME shown.current, shown'.rev = shown.rev
       PROVE  /\ shown'.truncated = shown.truncated
              /\ ~shown.truncated => shown'.list = shown.list
  <2>1. store'.rev = store.rev /\ shown.rev = store.rev
    <3>1. shown.rev <= store.rev /\ store'.rev >= store.rev
      BY <1>3, <1>12 DEF IInv, ShownInv, Follows
    <3>2. shown.rev \in Nat /\ store.rev \in Nat /\ store'.rev \in Nat
      BY <1>4 DEF IInv, TypeOK, Store, Shown
    <3>3. QED
      BY <1>7, <1>12, <3>1, <3>2
  <2>2. Stale(store) = {}
    BY <1>3, <2>1, EmptyBatch
  <2>3. Fresh(store) = store.members /\ Fresh(store') = Fresh(store)
    BY <1>3, <1>4, <2>1, <2>2 DEF Stale, Fresh, Store, Follows
  <2>4. Shows(Fresh(store))
    <3>1. PICK F \in SUBSET store.members : Fresh(store) \subseteq F /\ Shows(F)
      BY <1>12, <2>1 DEF IInv, ShownInv
    <3>2. F = Fresh(store)
      BY <2>3, <3>1
    <3>3. QED
      BY <3>1, <3>2
  <2>5. QED
    BY <1>7, <2>3, <2>4 DEF Shows
<1>13. QED
  BY <1>11, <1>12

\* Time: a snapshot is no longer current once a key has expired.
LEMMA TickStep ==
  ASSUME IInv, Tick
  PROVE  /\ IInv'
         /\ shown'.truncated = shown.truncated
         /\ shown'.list = shown.list
<1>1. StoreInv(store) /\ store' = Aged(store)
  BY DEF IInv, Tick
<1>2. shown' = [shown EXCEPT !.current = shown.current /\ ~Lapsed(store)]
  BY DEF Tick
<1>3. /\ shown' \in Shown
      /\ shown'.rev = shown.rev /\ shown'.list = shown.list
      /\ shown'.truncated = shown.truncated
      /\ shown'.current => shown.current /\ ~Lapsed(store)
  BY <1>2 DEF IInv, TypeOK, Lapsed, Shown
<1>4. StoreInv(store') /\ store' \in Store
  BY <1>1, AgedKeeps DEF StoreInv
<1>5. ShownInv'
  <2> SUFFICES ASSUME shown'.current
               PROVE  /\ shown'.rev <= store'.rev
                      /\ shown'.rev = store'.rev =>
                           \E F \in SUBSET store'.members :
                              Fresh(store') \subseteq F /\ Shows(F)'
    BY DEF ShownInv
  <2>1. /\ store'.rev = store.rev /\ store'.members = store.members
        /\ Fresh(store') \subseteq Fresh(store)
    BY <1>1, <1>3, AgedKeeps
  <2>2. ASSUME shown'.rev = store'.rev
        PROVE  \E F \in SUBSET store'.members : Fresh(store') \subseteq F /\ Shows(F)'
    <3>1. PICK F \in SUBSET store.members : Fresh(store) \subseteq F /\ Shows(F)
      BY <1>3, <2>1, <2>2 DEF IInv, ShownInv
    <3>2. Shows(F)'
      BY <1>3, <3>1 DEF Shows
    <3>3. QED
      BY <2>1, <3>1, <3>2
  <2>3. QED
    BY <1>3, <2>1, <2>2 DEF IInv, ShownInv
<1>6. QED
  BY <1>3, <1>4, <1>5 DEF IInv, TypeOK, Tick

\* Steps of the whole process.
LEMMA ProcessStep ==
  ASSUME IInv, Sweep \/ Crash
  PROVE  LocalOK' /\ Quiet
<1> USE PresenceAssumption
<1>0. sock \in [Sockets -> Context] /\ StoreInv(store)
  BY DEF IInv, TypeOK
<1>1. CASE Sweep
  <2>1. \A s \in Sockets : sock[s] \in Context
    BY <1>0
  <2>2. sock' \in [Sockets -> Context]
    BY <1>1, <2>1 DEF Sweep, Context
  <2>3. QED
    BY <1>0, <1>1, <2>2, NoScript DEF Sweep, LocalOK, IInv, TypeOK
<1>2. CASE Crash
  <2>1. \A s \in Sockets : sock[s] \in Context
    BY <1>0
  <2>a. \A s \in Sockets :
          [sock[s] EXCEPT !.registered = FALSE, !.job = "none", !.pending = 0,
                          !.unwatch = FALSE] \in Context
    <3>1. 0 \in 0 .. MaxPending
      OBVIOUS
    <3>2. QED
      BY <2>1, <3>1 DEF Context, Jobs
  <2>2. sock' \in [Sockets -> Context]
    BY <1>2, <2>a DEF Crash
  <2>3. QED
    BY <1>0, <1>2, <2>2, NoScript DEF Crash, LocalOK, IInv, TypeOK
<1>3. QED
  BY <1>1, <1>2

-----------------------------------------------------------------------------
(* Theorems *)

\* Every step keeps the inductive invariant.
LEMMA NextInv ==
  ASSUME IInv, [Next]_vars
  PROVE  IInv'
<1>1. CASE Tick
  BY <1>1, TickStep
<1>2. CASE Sweep \/ Crash
  BY <1>2, ProcessStep, QuietKeepsShown
<1>3. CASE \E s \in Sockets : Snapshot(s)
  BY <1>3, SnapshotStep
<1>4. ASSUME NEW s \in Sockets,
             \/ Connect(s) \/ Authenticate(s) \/ ConsumeFailed(s) \/ Consumed(s)
             \/ Subscribed(s) \/ SubscribeFailed(s) \/ Enqueue(s)
             \/ HeartbeatCommand(s) \/ OtherCommand(s) \/ Pong(s)
             \/ Vanish(s) \/ Cleanup(s)
      PROVE  IInv'
  BY <1>4, SocketStep, QuietKeepsShown
<1>stutter. CASE UNCHANGED vars
  <2>1. UNCHANGED <<store, shown, subs, sock>>
    BY <1>stutter DEF vars
  <2>2. TypeOK' /\ StoreInv(store')
    BY <2>1 DEF IInv, TypeOK
  <2>3. ShownInv'
    BY <2>1 DEF IInv, ShownInv, Shows
  <2>4. QED
    BY <2>2, <2>3 DEF IInv
<1>6. QED
  BY <1>1, <1>2, <1>3, <1>4, <1>stutter DEF Next

\* The inductive invariant holds of every reachable state.
THEOREM Invariance == Spec => []IInv
<1>1. Init => IInv
  <2> SUFFICES ASSUME Init PROVE IInv
    OBVIOUS
  <2> USE PresenceAssumption
  <2>1. StoreInv(store)
    BY DEF Init, StoreInv, Store
  <2>2. LocalOK
    BY DEF Init, LocalOK, NoSnapshot, Shown, Context, Jobs
  <2>3. ShownInv
    BY DEF Init, ShownInv, NoSnapshot
  <2>4. QED
    BY <2>1, <2>2, <2>3 DEF IInv, TypeOK, LocalOK, StoreInv
<1>2. IInv /\ [Next]_vars => IInv'
  BY NextInv
<1>3. QED
  BY <1>1, <1>2, PTL DEF Spec

\* Type correctness.
THEOREM TypeCorrect == Spec => []TypeOK
<1>1. IInv => TypeOK
  BY DEF IInv
<1>2. QED
  BY <1>1, Invariance, PTL

\* The sorted set and the hash of the presence scripts never disagree.
THEOREM IndexesAgree == Spec => []KeysAligned
<1>1. IInv => KeysAligned
  BY DEF IInv, StoreInv, KeysAligned
<1>2. QED
  BY <1>1, Invariance, PTL

\* The revision key outlives the connections and always has an expiry.
THEOREM RevisionKeyLives == Spec => []RevisionOutlives
<1>1. IInv => RevisionOutlives
  BY DEF IInv, StoreInv, RevisionOutlives
<1>2. QED
  BY <1>1, Invariance, PTL

\* Two snapshots with one revision are both truncated or both complete, and
\* complete ones name the same participants, as long as no key has expired in
\* between.  Which participants a truncated one names is left open: the script
\* lists by heartbeat, and a heartbeat takes no revision.
THEOREM RevisionsIdentify == Spec => SnapshotsAgree
<1>1. IInv /\ [Next]_vars =>
        [shown.current /\ shown'.rev = shown.rev =>
           /\ shown'.truncated = shown.truncated
           /\ ~shown.truncated => shown'.list = shown.list]_vars
  <2> DEFINE Agree == /\ shown'.truncated = shown.truncated
                      /\ ~shown.truncated => shown'.list = shown.list
  <2> SUFFICES ASSUME IInv, [Next]_vars, shown.current, shown'.rev = shown.rev
               PROVE  Agree
    OBVIOUS
  <2>1. CASE Tick
    BY <2>1, TickStep
  <2>2. CASE Sweep \/ Crash
    BY <2>2, ProcessStep DEF Quiet
  <2>3. CASE \E s \in Sockets : Snapshot(s)
    BY <2>3, SnapshotStep
  <2>4. ASSUME NEW s \in Sockets,
               \/ Connect(s) \/ Authenticate(s) \/ ConsumeFailed(s) \/ Consumed(s)
               \/ Subscribed(s) \/ SubscribeFailed(s) \/ Enqueue(s)
               \/ HeartbeatCommand(s) \/ OtherCommand(s) \/ Pong(s)
               \/ Vanish(s) \/ Cleanup(s)
        PROVE  Agree
    BY <2>4, SocketStep DEF Quiet
  <2>stutter. CASE UNCHANGED vars
    BY <2>stutter DEF vars
  <2>6. QED
    BY <2>1, <2>2, <2>3, <2>4, <2>stutter DEF Next
<1>2. QED
  BY <1>1, Invariance, PTL DEF Spec, SnapshotsAgree
-----------------------------------------------------------------------------
(* Presence implements PresenceRoll *)

\* authenticate has issued open, or will never issue it again.
Past(s) == sock[s].principal /\ sock[s].job = "none"

Lives == [s \in Sockets |-> IF s \in store.members THEN "present"
                            ELSE IF Past(s) THEN "gone" ELSE "before"]

Roll == INSTANCE PresenceRoll WITH life <- Lives, rev <- store.rev

\* Only open adds a connection, and authenticate issues it once.
OpenedOnce == \A s \in store.members : Past(s)

\* Who waits for the subscription is authenticated.
SubscribersKnown == \A s \in Sockets : sock[s].job = "subscribe" => sock[s].principal

RollInv == OpenedOnce /\ SubscribersKnown

\* What a step may do to the roll: past is past, and who is past does not join.
Orderly == \A t \in Sockets : /\ Past(t) => Past(t)'
                              /\ t \in store'.members =>
                                    t \in store.members \/ (~Past(t) /\ Past(t)')

\* The scripts other than open add nobody: heartbeat asks the hash first.
LEMMA PurgeAddsNobody ==
  ASSUME NEW st \in Store, NEW b
  PROVE  /\ Purged(st, b).members \subseteq st.members
         /\ Purged(st, b).details \subseteq st.details
         /\ Purged(st, b) \in Store
<1>1. CASE b = {}
  BY <1>1 DEF Purged
<1>2. CASE b # {}
  <2> DEFINE r == Removed(st, b)
  <2>1. r \in Store /\ r.members = st.members \ b /\ r.details = st.details \ b
    BY RemovedFields
  <2>2. Purged(st, b) = [r EXCEPT !.rev = r.rev + 1]
    BY <1>2 DEF Purged
  <2> HIDE DEF r
  <2>3. r.rev + 1 \in Nat
    BY <2>1 DEF Store
  <2>4. QED
    BY <2>1, <2>2, <2>3 DEF Store
<1>3. QED
  BY <1>1, <1>2

LEMMA HeartbeatAddsNobody ==
  ASSUME StoreInv(store), NEW s \in Sockets, Heartbeat(s)
  PROVE  store'.members \subseteq store.members
<1>1. store \in Store /\ store.members = store.details
  BY DEF StoreInv
<1>2. CASE UNCHANGED store
  BY <1>2
<1>3. ASSUME NEW b \in Batches(store), store' = HeartbeatScript(store, s, b)
      PROVE  store'.members \subseteq store.members
  <2> DEFINE p == Purged(store, b)
             q == Refreshed(p, s)
  <2>1. p \in Store /\ p.members \subseteq store.members /\ p.details \subseteq store.details
    BY <1>1, PurgeAddsNobody
  <2>2. q \in Store /\ q.members = p.members \cup {s}
    BY <2>1, RefreshedFields
  <2>3. CASE s \notin p.details
    BY <1>3, <2>1, <2>3 DEF HeartbeatScript
  <2>4. CASE s \in p.details
    <3>1. store' = [q EXCEPT !.rev = IF p.rev = 0 THEN 1 ELSE p.rev]
      BY <1>3, <2>4 DEF HeartbeatScript
    <3> HIDE DEF p, q
    <3>2. store'.members = q.members
      BY <2>2, <3>1 DEF Store
    <3>3. QED
      BY <1>1, <2>1, <2>2, <2>4, <3>2
  <2>5. QED
    BY <2>3, <2>4
<1>4. QED
  BY <1>2, <1>3 DEF Heartbeat

LEMMA CloseAddsNobody ==
  ASSUME StoreInv(store), NEW s \in Sockets, store' = CloseScript(store, s)
  PROVE  store'.members \subseteq store.members
<1> DEFINE r == Removed(store, {s})
<1>1. r \in Store /\ r.members = store.members \ {s}
  BY RemovedFields DEF StoreInv
<1>2. store' = r \/ store' = [r EXCEPT !.rev = r.rev + 1, !.revTtl = 2 * Ttl]
  BY DEF CloseScript
<1> HIDE DEF r
<1>3. store'.members = r.members
  BY <1>1, <1>2 DEF Store
<1>4. QED
  BY <1>1, <1>3

LEMMA OpenAddsOne ==
  ASSUME StoreInv(store), NEW s \in Sockets, Open(s)
  PROVE  store'.members \subseteq store.members \cup {s}
<1>1. CASE UNCHANGED store
  BY <1>1
<1>2. ASSUME NEW b \in Batches(store), store' = OpenScript(store, s, b)
      PROVE  store'.members \subseteq store.members \cup {s}
  <2> DEFINE r == Removed(store, b)
             q == Refreshed(r, s)
  <2>1. r \in Store /\ r.members = store.members \ b
    BY RemovedFields DEF StoreInv
  <2>2. q \in Store /\ q.members = r.members \cup {s}
    BY <2>1, RefreshedFields
  <2>3. store' = [q EXCEPT !.details = q.details \cup {s}, !.rev = q.rev + 1]
    BY <1>2 DEF OpenScript
  <2> HIDE DEF r, q
  <2>4. store'.members = q.members
    BY <2>2, <2>3 DEF Store
  <2>5. QED
    BY <2>1, <2>2, <2>4
<1>3. QED
  BY <1>1, <1>2 DEF Open

\* authenticate passes its open once; nothing undoes that.
LEMMA OpensOrderly ==
  ASSUME IInv, RollInv, NEW s \in Sockets, Consumed(s) \/ Subscribed(s) \/ SubscribeFailed(s)
  PROVE  Orderly /\ SubscribersKnown'
<1>0. StoreInv(store) /\ sock \in [Sockets -> Context] /\ sock[s] \in Context
  BY DEF IInv, TypeOK
<1>1. ~Past(s) /\ \A t \in Sockets : t # s => sock'[t] = sock[t]
  BY <1>0 DEF Past, Consumed, Subscribed, SubscribeFailed
<1>a. SubscribersKnown'
  <2>1. sock'[s].job = "subscribe" => sock'[s].principal
    BY <1>0 DEF Consumed, Subscribed, SubscribeFailed, Context
  <2>2. QED
    BY <1>1, <2>1 DEF RollInv, SubscribersKnown
<1>2. CASE UNCHANGED store
  BY <1>1, <1>2, <1>a DEF Orderly, Past
<1>3. CASE ~UNCHANGED store
  <2>1. Open(s) /\ sock'[s].job = "none"
    BY <1>0, <1>3 DEF Consumed, Subscribed, SubscribeFailed, Context
  <2>2. sock'[s].principal
    <3>1. CASE Consumed(s)
      BY <1>0, <1>3, <3>1 DEF Consumed, Context
    <3>2. CASE Subscribed(s) \/ SubscribeFailed(s)
      <4>1. sock[s].principal
        BY <3>2 DEF RollInv, SubscribersKnown, Subscribed, SubscribeFailed
      <4>2. QED
        BY <1>0, <3>2, <4>1 DEF Subscribed, SubscribeFailed, Context
    <3>3. QED
      BY <3>1, <3>2
  <2>3. store'.members \subseteq store.members \cup {s}
    BY <1>0, <2>1, OpenAddsOne
  <2>4. QED
    BY <1>1, <1>a, <2>1, <2>2, <2>3 DEF Orderly, Past
<1>4. QED
  BY <1>2, <1>3

\* The other steps of a connection leave principal and job, and add nobody.
LEMMA OthersOrderly ==
  ASSUME IInv, RollInv, NEW s \in Sockets,
         \/ Connect(s) \/ Authenticate(s) \/ ConsumeFailed(s) \/ Enqueue(s)
         \/ HeartbeatCommand(s) \/ Snapshot(s) \/ OtherCommand(s) \/ Pong(s)
         \/ Vanish(s) \/ Cleanup(s)
  PROVE  Orderly /\ SubscribersKnown'
<1>0. StoreInv(store) /\ store \in Store /\ sock \in [Sockets -> Context] /\ sock[s] \in Context
  BY DEF IInv, TypeOK, StoreInv
<1>1. store'.members \subseteq store.members
  <2>1. CASE \/ Connect(s) \/ Authenticate(s) \/ ConsumeFailed(s) \/ Enqueue(s)
             \/ OtherCommand(s) \/ Vanish(s)
    BY <2>1 DEF Connect, Authenticate, ConsumeFailed, Enqueue, OtherCommand, Vanish
  <2>2. CASE HeartbeatCommand(s) \/ Pong(s)
    BY <1>0, <2>2, HeartbeatAddsNobody DEF HeartbeatCommand, Pong
  <2>3. CASE Snapshot(s)
    BY <1>0, <2>3, PurgeAddsNobody DEF Snapshot
  <2>4. CASE Cleanup(s)
    BY <1>0, <2>4, CloseAddsNobody DEF Cleanup
  <2>5. QED
    BY <2>1, <2>2, <2>3, <2>4
<1>2. \A t \in Sockets : t # s => sock'[t] = sock[t]
  BY <1>0 DEF Connect, Authenticate, ConsumeFailed, Enqueue, HeartbeatCommand, Snapshot,
     OtherCommand, Dequeue, Pong, Vanish, Cleanup
<1>3. CASE Authenticate(s) \/ ConsumeFailed(s)
  <2>1. /\ ~Past(s) /\ sock'[s].job # "subscribe"
    BY <1>0, <1>3 DEF Authenticate, ConsumeFailed, Past, Context
  <2>2. QED
    BY <1>1, <1>2, <2>1 DEF Orderly, Past, RollInv, SubscribersKnown
<1>4. CASE ~(Authenticate(s) \/ ConsumeFailed(s))
  <2>1. sock'[s].principal = sock[s].principal /\ sock'[s].job = sock[s].job
    BY <1>0, <1>4 DEF Connect, Enqueue, HeartbeatCommand, Snapshot, OtherCommand, Dequeue,
       Pong, Vanish, Cleanup, Context
  <2>2. QED
    BY <1>1, <1>2, <2>1 DEF Orderly, Past, RollInv, SubscribersKnown
<1>5. QED
  BY <1>3, <1>4

LEMMA ProcessOrderly ==
  ASSUME IInv, RollInv, Tick \/ Sweep \/ Crash \/ UNCHANGED vars
  PROVE  Orderly /\ SubscribersKnown'
<1>0. store \in Store /\ sock \in [Sockets -> Context]
  BY DEF IInv, TypeOK
<1>1. store'.members \subseteq store.members
  <2>1. CASE Tick
    BY <2>1 DEF Tick, Aged
  <2>2. CASE Sweep \/ Crash \/ UNCHANGED vars
    BY <2>2 DEF Sweep, Crash, vars
  <2>3. QED
    BY <2>1, <2>2
<1>2. ASSUME NEW t \in Sockets
      PROVE  /\ sock'[t].principal = sock[t].principal
             /\ sock'[t].job \in {sock[t].job, "none"}
  <2>1. sock[t] \in Context
    BY <1>0
  <2>2. CASE Tick \/ UNCHANGED vars
    BY <2>2 DEF Tick, vars
  <2>3. CASE Sweep
    BY <2>1, <2>3 DEF Sweep, Context
  <2>4. CASE Crash
    BY <2>1, <2>4 DEF Crash, Context
  <2>5. QED
    BY <2>2, <2>3, <2>4
<1>3. QED
  BY <1>1, <1>2 DEF Orderly, Past, RollInv, SubscribersKnown

LEMMA NextOrderly ==
  ASSUME IInv, RollInv, [Next]_vars
  PROVE  Orderly /\ RollInv'
<1>1. Orderly /\ SubscribersKnown'
  BY OpensOrderly, OthersOrderly, ProcessOrderly DEF Next
<1>2. store'.members \subseteq Sockets
  <2>1. IInv'
    BY NextInv
  <2>2. QED
    BY <2>1 DEF IInv, TypeOK, Store
<1>3. OpenedOnce'
  BY <1>1, <1>2 DEF Orderly, RollInv, OpenedOnce, Past
<1>4. QED
  BY <1>1, <1>3 DEF RollInv

\* The roll lists who is stored.
LEMMA PresentAreStored ==
  ASSUME store.members \subseteq Sockets
  PROVE  Roll!Present = store.members
BY DEF Roll!Present, Lives

\* Orderly steps let lives only go on.
LEMMA LivesGrow ==
  ASSUME RollInv, Orderly
  PROVE  Roll!Grow
<1>1. Lives' \in [Sockets -> {"before", "present", "gone"}]
  BY DEF Lives
<1>2. ASSUME NEW s \in Sockets
      PROVE  <<Lives[s], Lives'[s]>> \in Roll!Later
  <2>1. CASE s \in store.members
    BY <2>1 DEF RollInv, OpenedOnce, Orderly, Lives, Roll!Later
  <2>2. CASE s \notin store.members /\ Past(s)
    BY <2>2 DEF Orderly, Lives, Roll!Later
  <2>3. CASE s \notin store.members /\ ~Past(s)
    BY <2>3 DEF Lives, Roll!Later
  <2>4. QED
    BY <2>1, <2>2, <2>3
<1>3. QED
  BY <1>1, <1>2 DEF Roll!Grow

\* Time takes the revision only together with the connections.
LEMMA TickRevision ==
  ASSUME StoreInv(store), Tick
  PROVE  \/ store'.rev = store.rev /\ store'.members = store.members
         \/ store'.members = {} /\ store'.rev \in {store.rev, 0}
<1>1. store \in Store /\ store' = Aged(store)
  BY DEF StoreInv, Tick
<1>2. CASE ~Lapsed(store)
  BY <1>1, <1>2, AgedKeeps
<1>3. CASE Lapsed(store)
  <2>1. store.members = {} \/ store.keyTtl = 1
    BY <1>1, <1>3 DEF Lapsed, StoreInv, Store
  <2>2. store'.members = {} /\ store'.rev \in {store.rev, 0}
    BY <1>1, <2>1 DEF Aged
  <2>3. QED
    BY <2>2
<1>4. QED
  BY <1>2, <1>3

LEMMA NextSimulates ==
  ASSUME IInv, RollInv, [Next]_vars
  PROVE  [Roll!RNext]_(Roll!rvars)
<1>0. StoreInv(store) /\ store \in Store /\ store' \in Store
  <2>1. IInv'
    BY NextInv
  <2>2. QED
    BY <2>1 DEF IInv, TypeOK, StoreInv
<1>1. Roll!Grow
  BY NextOrderly, LivesGrow
<1>2. Roll!Present = store.members
  BY <1>0, PresentAreStored DEF Store
<1>3. (Roll!Present)' = store'.members
  BY <1>0 DEF Roll!Present, Lives, Store
<1>4. CASE Tick
  BY <1>0, <1>1, <1>2, <1>3, <1>4, TickRevision
     DEF Roll!RNext, Roll!Change, Roll!Lapse, Store
<1>5. CASE Follows(store, store')
  BY <1>1, <1>2, <1>3, <1>5 DEF Follows, Roll!RNext, Roll!Change
<1>6. ASSUME NEW s \in Sockets, Snapshot(s)
      PROVE  Follows(store, store')
  BY <1>0, <1>6, PurgeFollows DEF Snapshot
<1>7. CASE Sweep \/ Crash
  BY <1>5, <1>7, ProcessStep DEF Quiet
<1>8. ASSUME NEW s \in Sockets,
             \/ Connect(s) \/ Authenticate(s) \/ ConsumeFailed(s) \/ Consumed(s)
             \/ Subscribed(s) \/ SubscribeFailed(s) \/ Enqueue(s)
             \/ HeartbeatCommand(s) \/ OtherCommand(s) \/ Pong(s)
             \/ Vanish(s) \/ Cleanup(s)
      PROVE  Follows(store, store')
  BY <1>8, SocketStep DEF Quiet
<1>9. CASE UNCHANGED vars
  BY <1>0, <1>5, <1>9, NoScript DEF Quiet, vars
<1>10. QED
  BY <1>4, <1>5, <1>6, <1>7, <1>8, <1>9 DEF Next

(***************************************************************************)
(* Presence is never invented and never comes back: each connection is     *)
(* present once, however late a heartbeat, a pong or a subscription of it  *)
(* answers, and every change of the roll shows in its revision.            *)
(***************************************************************************)
THEOREM ImplementsRoll == Spec => Roll!RSpec
<1>1. Init => RollInv /\ Roll!RInit
  <2> SUFFICES ASSUME Init PROVE RollInv /\ Roll!RInit
    OBVIOUS
  <2>1. RollInv
    BY DEF Init, RollInv, OpenedOnce, SubscribersKnown
  <2>2. Lives = [s \in Sockets |-> "before"] /\ store.rev = 0
    BY DEF Init, Lives, Past
  <2>3. QED
    BY <2>1, <2>2 DEF Roll!RInit
<1>2. IInv /\ RollInv /\ [Next]_vars => RollInv'
  BY NextOrderly
<1>3. IInv /\ RollInv /\ [Next]_vars => [Roll!RNext]_(Roll!rvars)
  BY NextSimulates
<1>4. QED
  BY <1>1, <1>2, <1>3, Invariance, PTL DEF Spec, Roll!RSpec
=============================================================================
