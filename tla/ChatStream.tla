------------------------------ MODULE ChatStream ------------------------------
(***************************************************************************)
(* The durable chat stream of one meeting: the transaction T3 that accepts *)
(* a ciphertext (READ COMMITTED, one step per statement), the join that    *)
(* fixes a participant's history floor (SERIALIZABLE), the history pages   *)
(* (REPEATABLE READ, so one step each) and the retention janitor.          *)
(*                                                                         *)
(* head, messages, outbox and epoch hold what is committed; the writes of  *)
(* a transaction are in `at` and head + 1 until COMMIT.  The E2EE module   *)
(* that adds devices is not written yet: Enrol stands for it.              *)
(***************************************************************************)
EXTENDS Naturals, FiniteSets, StreamHead

CONSTANTS Txns,         \* database sessions that run accept
          Senders,      \* participants that submit messages
          Ids,          \* values of clientMessageId
          Bodies,       \* ciphertext hash, group and content type, as one value
          Readers,      \* participants that join and read the history
          Nobody,       \* no session holds the stream head lock
          NoCommand,    \* the command of a session that has run none
          SlowMode,     \* policy.slowModeSeconds
          Retention,    \* config.chat.retentionDays
          MaxCommands,  \* bound: calls of accept
          MaxTime       \* bound: clock ticks

ASSUME ChatAssumption ==
    /\ SlowMode \in Nat
    /\ Retention \in Nat \ {0}
    /\ SlowMode <= Retention
    /\ PageLimit \in Nat \ {0}
    /\ MaxCommands \in Nat
    /\ MaxTime \in Nat
    /\ Nobody \notin Txns

VARIABLES lock,      \* the session that holds the head row FOR UPDATE
          messages,  \* chat_messages
          outbox,    \* chat.message.created rows of outbox_events, never deleted
          acks,      \* chat.message.accepted results that callers received
          pc,        \* where each session is in accept
          cmd,       \* the command it runs
          at,        \* created_at of the row it has inserted
          reader,    \* where each reader is in join, its floor and its membership
          page,      \* what each reader has read: cursor and positions received
          epoch,     \* e2ee_groups.epoch
          now,       \* clock_timestamp()
          started    \* how many of MaxCommands are used

stored == <<head, messages, outbox>>
session == <<pc, cmd, at, lock>>
history == <<reader, page>>
bounds == <<now, started>>
vars == <<stored, acks, session, history, epoch, bounds>>

(***************************************************************************)
(* "access", "admitted", "waiting", "locked", "fresh", "allowed" and       *)
(* "inserted" follow requireAccess, requireMembership, the first           *)
(* findExisting, lockStreamHead, the second findExisting, enforceSlowMode  *)
(* and the inserts.  Results are what accept has ended with.               *)
(***************************************************************************)
Holding == {"locked", "fresh", "allowed", "inserted"}
Active == {"access", "admitted", "waiting"} \cup Holding
Results == {"idle", "accepted", "replayed", "conflict", "stale", "slow",
            "constraint", "failed"}

Command == [from : Senders, id : Ids, body : Bodies, epoch : Nat]
Message == [from : Senders, id : Ids, body : Bodies, epoch : Nat, pos : Nat, at : Nat]
Event == [from : Senders, id : Ids, pos : Nat, at : Nat]
Ack == [from : Senders, id : Ids, pos : Nat]
Reader == [pc : {"out", "snapshot", "locked", "joined", "enrolled"},
           floor : Nat, peers : SUBSET Readers, since : Nat]

(***************************************************************************)
(* The types.  The head row is held by the transaction that is past        *)
(* lockStreamHead and by nobody else: runAttempt leaves no lock behind.    *)
(***************************************************************************)
TypeOK ==
    /\ head \in Nat
    /\ lock \in Txns \cup {Nobody}
    /\ \A t \in Txns : lock = t <=> pc[t] \in Holding
    /\ messages \subseteq Message
    /\ outbox \subseteq Event
    /\ acks \subseteq Ack
    /\ pc \in [Txns -> Active \cup Results]
    /\ cmd \in [Txns -> Command \cup {NoCommand}]
    /\ \A t \in Txns : pc[t] \in Active => cmd[t] \in Command
    /\ at \in [Txns -> Nat]
    /\ reader \in [Readers -> Reader]
    /\ page \in [Readers -> [cursor : Nat, got : SUBSET Nat]]
    /\ epoch \in Nat
    /\ now \in Nat
    /\ started \in Nat

Init ==
    /\ head = 0
    /\ lock = Nobody
    /\ messages = {}
    /\ outbox = {}
    /\ acks = {}
    /\ pc = [t \in Txns |-> "idle"]
    /\ cmd = [t \in Txns |-> NoCommand]
    /\ at = [t \in Txns |-> 0]
    /\ reader = [r \in Readers |-> [pc |-> "out", floor |-> 0, peers |-> {}, since |-> 0]]
    /\ page = [r \in Readers |-> [cursor |-> 0, got |-> {}]]
    /\ epoch = 0
    /\ now = 0
    /\ started = 0
-----------------------------------------------------------------------------
\* A join holds the meeting row FOR UPDATE, accept and readPage FOR KEY SHARE.
JoinHoldsMeeting == \E r \in Readers : reader[r].pc = "locked"
MeetingShared == \E t \in Txns : pc[t] \in Active

\* Statement s of accept is done and the transaction goes on.
Goto(t, s) == pc' = [pc EXCEPT ![t] = s] /\ UNCHANGED <<cmd, at, lock>>

\* Faulty variant: the session returns to the pool without ROLLBACK.
EndUnreleased(t, result) ==
    pc' = [pc EXCEPT ![t] = result] /\ UNCHANGED <<cmd, at, lock>>

\* The transaction is over: the head row is released if it was held.
End(t, result) ==
    /\ pc' = [pc EXCEPT ![t] = result]
    /\ lock' = IF lock = t THEN Nobody ELSE lock
    /\ UNCHANGED <<cmd, at>>

Existing(c) == {m \in messages : m.from = c.from /\ m.id = c.id}

\* replayExisting compares hash, group and content type, and the epoch.
SameContent(m, c) == m.body = c.body /\ m.epoch = c.epoch

\* replayExisting ends the transaction with the stored position or a conflict.
ReplayExisting(t) ==
    \E m \in Existing(cmd[t]) :
       \/ /\ SameContent(m, cmd[t])
          /\ End(t, "replayed")
          /\ acks' = acks \cup {[from |-> m.from, id |-> m.id, pos |-> m.pos]}
       \/ /\ ~SameContent(m, cmd[t])
          /\ End(t, "conflict")
          /\ UNCHANGED acks

\* requireAccess: the meeting row is shared, so a join that holds it blocks.
RequireAccess(t, c) ==
    /\ pc[t] \in Results
    /\ started < MaxCommands
    /\ started' = started + 1
    /\ ~JoinHoldsMeeting
    /\ pc' = [pc EXCEPT ![t] = "access"]
    /\ cmd' = [cmd EXCEPT ![t] = c]
    /\ UNCHANGED <<stored, acks, at, lock, history, epoch, now>>

\* requireMembership, and the comparison with the current epoch.
RequireMembership(t) ==
    /\ pc[t] = "access"
    /\ \/ cmd[t].epoch = epoch /\ Goto(t, "admitted")
       \/ cmd[t].epoch # epoch /\ End(t, "stale")
    /\ UNCHANGED <<stored, acks, history, epoch, bounds>>

\* findExisting before the lock.
FindExisting(t) ==
    /\ pc[t] = "admitted"
    /\ \/ ReplayExisting(t)
       \/ Existing(cmd[t]) = {} /\ Goto(t, "waiting") /\ UNCHANGED acks
    /\ UNCHANGED <<stored, history, epoch, bounds>>

\* Faulty variant: FOR SHARE instead of FOR UPDATE.
LockStreamHeadShared(t) ==
    /\ pc[t] = "waiting"
    /\ lock' = t
    /\ pc' = [pc EXCEPT ![t] = "locked"]
    /\ UNCHANGED <<stored, acks, cmd, at, history, epoch, bounds>>

LockStreamHead(t) ==
    /\ pc[t] = "waiting"
    /\ lock = Nobody
    /\ lock' = t
    /\ pc' = [pc EXCEPT ![t] = "locked"]
    /\ UNCHANGED <<stored, acks, cmd, at, history, epoch, bounds>>

\* findExisting again, under the lock.
FindExistingLocked(t) ==
    /\ pc[t] = "locked"
    /\ \/ ReplayExisting(t)
       \/ Existing(cmd[t]) = {} /\ Goto(t, "fresh") /\ UNCHANGED acks
    /\ UNCHANGED <<stored, history, epoch, bounds>>

\* The EXISTS of enforceSlowMode: created_at > clock_timestamp() - interval.
SlowBlocked(c) ==
    SlowMode > 0 /\ \E m \in messages : m.from = c.from /\ m.at + SlowMode > now

EnforceSlowMode(t) ==
    /\ pc[t] = "fresh"
    /\ \/ SlowBlocked(cmd[t]) /\ End(t, "slow")
       \/ ~SlowBlocked(cmd[t]) /\ Goto(t, "allowed")
    /\ UNCHANGED <<stored, acks, history, epoch, bounds>>

\* What a unique index of chat_messages refuses.
Duplicate(c) == Existing(c) # {} \/ \E m \in messages : m.pos = head + 1

\* Faulty variants: a sequence outside the transaction; the ack before COMMIT.
InsertFromSequence(t) ==
    /\ pc[t] = "allowed"
    /\ head' = head + 1
    /\ Goto(t, "inserted")
    /\ UNCHANGED <<messages, outbox, acks, history, epoch, bounds>>
InsertAcknowledged(t) ==
    /\ pc[t] = "allowed"
    /\ Goto(t, "inserted")
    /\ acks' = acks \cup {[from |-> cmd[t].from, id |-> cmd[t].id, pos |-> head + 1]}
    /\ UNCHANGED <<stored, history, epoch, bounds>>

\* advanceStreamHead, the insert of the message and insertOutbox.
Insert(t) ==
    /\ pc[t] = "allowed"
    /\ \/ Duplicate(cmd[t]) /\ End(t, "constraint")
       \/ /\ ~Duplicate(cmd[t])
          /\ at' = [at EXCEPT ![t] = now]
          /\ pc' = [pc EXCEPT ![t] = "inserted"]
          /\ UNCHANGED <<cmd, lock>>
    /\ UNCHANGED <<stored, acks, history, epoch, bounds>>

\* The writes of the transaction become visible together.
Publish(t) ==
    LET c == cmd[t] IN
    /\ head' = head + 1
    /\ messages' = messages \cup {[from |-> c.from, id |-> c.id, body |-> c.body,
                                   epoch |-> c.epoch, pos |-> head + 1, at |-> at[t]]}
    /\ outbox' = outbox \cup {[from |-> c.from, id |-> c.id, pos |-> head + 1,
                               at |-> at[t]]}

\* COMMIT; its reply may be lost, and the caller then knows nothing.
Commit(t) ==
    /\ pc[t] = "inserted"
    /\ Publish(t)
    /\ \/ /\ End(t, "accepted")
          /\ acks' = acks \cup {[from |-> cmd[t].from, id |-> cmd[t].id, pos |-> head + 1]}
       \/ /\ End(t, "failed")
          /\ UNCHANGED acks
    /\ UNCHANGED <<history, epoch, bounds>>

\* A statement fails or times out, or the process dies: ROLLBACK.
Rollback(t) ==
    /\ pc[t] \in Active
    /\ End(t, "failed")
    /\ UNCHANGED <<stored, acks, history, epoch, bounds>>
-----------------------------------------------------------------------------
Expired(m) == m.at + Retention <= now

\* deleteExpired: a batch of expired rows, locked ones skipped.
DeleteExpired ==
    /\ \E S \in SUBSET {m \in messages : Expired(m)} :
         S # {} /\ messages' = messages \ S
    /\ UNCHANGED <<head, outbox, acks, session, history, epoch, bounds>>

Peers == {r \in Readers : reader[r].pc \in {"joined", "enrolled"}}

\* join: the snapshot is taken when SELECT ... FOR UPDATE starts to wait.
JoinBegin(r) ==
    /\ reader[r].pc = "out"
    /\ reader' = [reader EXCEPT ![r] = [pc |-> "snapshot", floor |-> head,
                                        peers |-> Peers, since |-> 0]]
    /\ UNCHANGED <<stored, acks, session, page, epoch, bounds>>

(***************************************************************************)
(* The meeting row is granted.  A join that committed since the snapshot   *)
(* has updated use_count of the invitation: 40001, and the unit of work    *)
(* runs the transaction again.                                             *)
(***************************************************************************)
JoinLock(r) ==
    /\ reader[r].pc = "snapshot"
    /\ ~MeetingShared
    /\ ~JoinHoldsMeeting
    /\ \/ reader[r].peers = Peers /\ reader' = [reader EXCEPT ![r].pc = "locked"]
       \/ reader[r].peers # Peers /\ reader' = [reader EXCEPT ![r].pc = "out"]
    /\ UNCHANGED <<stored, acks, session, page, epoch, bounds>>

\* The participant row is inserted with the floor its snapshot shows.
JoinCommit(r) ==
    /\ reader[r].pc = "locked"
    /\ reader' = [reader EXCEPT ![r].pc = "joined"]
    /\ UNCHANGED <<stored, acks, session, page, epoch, bounds>>

\* External: the device enters the group, which starts a new epoch.
Enrol(r) ==
    /\ reader[r].pc = "joined"
    /\ epoch' = epoch + 1
    /\ reader' = [reader EXCEPT ![r] = [reader[r] EXCEPT !.pc = "enrolled", !.since = epoch + 1]]
    /\ UNCHANGED <<stored, acks, session, page, bounds>>

\* The rows of readPage before LIMIT: visible to the device and not expired.
Visible(r) ==
    {m \in messages : /\ m.pos > page[r].cursor
                      /\ m.pos > reader[r].floor
                      /\ m.pos <= head
                      /\ reader[r].since <= m.epoch
                      /\ ~Expired(m)}

\* The first PageLimit of them by position.
FirstPage(S) ==
    {m \in S : Cardinality({n \in S : n.pos < m.pos}) < PageLimit}

\* Faulty variant: hasMore is not looked at.
NextAfterWatermark(S) == {head}

\* What nextAfterPosition is: the last position of a full page, or the watermark.
NextAfter(S) ==
    IF Cardinality(S) > PageLimit
    THEN {p \in {m.pos : m \in FirstPage(S)} : \A m \in FirstPage(S) : m.pos <= p}
    ELSE {head}

\* readPage on one snapshot; the client goes on from nextAfterPosition.
ReadPage(r) ==
    /\ reader[r].pc = "enrolled"
    /\ ~JoinHoldsMeeting
    /\ \E next \in NextAfter(Visible(r)) :
         page' = [page EXCEPT ![r] =
                    [cursor |-> next,
                     got |-> page[r].got \cup {m.pos : m \in FirstPage(Visible(r))}]]
    /\ UNCHANGED <<stored, acks, session, reader, epoch, bounds>>

Tick ==
    /\ now < MaxTime
    /\ now' = now + 1
    /\ UNCHANGED <<stored, acks, session, history, epoch, started>>
-----------------------------------------------------------------------------
\* The client encrypts for the current epoch or for an earlier one.
Submit(t) ==
    \E s \in Senders, i \in Ids, b \in Bodies, e \in 0..epoch :
       RequireAccess(t, [from |-> s, id |-> i, body |-> b, epoch |-> e])

AcceptStep(t) ==
    \/ RequireMembership(t)
    \/ FindExisting(t)
    \/ LockStreamHead(t)
    \/ FindExistingLocked(t)
    \/ EnforceSlowMode(t)
    \/ Insert(t)
    \/ Commit(t)

ReaderStep(r) ==
    \/ JoinBegin(r)
    \/ JoinLock(r)
    \/ JoinCommit(r)
    \/ Enrol(r)
    \/ ReadPage(r)

Next ==
    \/ \E t \in Txns : Submit(t) \/ AcceptStep(t) \/ Rollback(t)
    \/ \E r \in Readers : ReaderStep(r)
    \/ DeleteExpired
    \/ Tick

Spec == Init /\ [][Next]_vars

\* The database answers every statement it can run.
FairSpec ==
    /\ Spec
    /\ \A t \in Txns : WF_vars(AcceptStep(t))
-----------------------------------------------------------------------------
(***************************************************************************)
(* CHAT-006, "sans trou de commit", and CHAT-007: the committed events are *)
(* at positions 1 to head, one at each, whatever rolled back, crashed or   *)
(* waited for the lock; every stored message is one of them.               *)
(***************************************************************************)
NoGap ==
    /\ {e.pos : e \in outbox} = 1..head
    /\ \A e, f \in outbox : e.pos = f.pos => e = f
    /\ \A m \in messages : [from |-> m.from, id |-> m.id, pos |-> m.pos, at |-> m.at] \in outbox

(***************************************************************************)
(* The two lookups and the lock leave nothing to the unique indexes: no    *)
(* call of accept, however retried and interleaved, ends in a constraint   *)
(* violation instead of a replay.                                          *)
(***************************************************************************)
ConstraintNeverFires == \A t \in Txns : pc[t] # "constraint"

(***************************************************************************)
(* CHAT-008: what a caller was told is accepted, at this position, is      *)
(* committed, and as long as the row is kept no second event exists for    *)
(* the command.                                                            *)
(***************************************************************************)
AckedIsDurable ==
    \A a \in acks :
       /\ \E e \in outbox : e.from = a.from /\ e.id = a.id /\ e.pos = a.pos
       /\ \A m \in messages :
             m.pos = a.pos => \A e \in outbox : e.from = a.from /\ e.id = a.id => e.pos <= a.pos

(***************************************************************************)
(* CHAT-004: two messages of a sender are at least SlowMode apart, also    *)
(* when they were submitted together through different processes.          *)
(***************************************************************************)
SlowModeRespected ==
    \A e, f \in outbox :
       e.from = f.from /\ e.pos < f.pos => e.at + SlowMode <= f.at

(***************************************************************************)
(* CHAT-011: a reader that pages forward from nextAfterPosition has, up to *)
(* its cursor, received every kept message its floor and membership allow. *)
(***************************************************************************)
HistoryComplete ==
    \A r \in Readers : reader[r].pc = "enrolled" =>
       \A m \in messages :
          /\ m.pos <= page[r].cursor
          /\ m.pos > reader[r].floor
          /\ reader[r].since <= m.epoch
          /\ ~Expired(m)
          => m.pos \in page[r].got

\* Every call of accept ends: no one waits for the stream head forever.
AcceptEnds == \A t \in Txns : pc[t] \in Active ~> pc[t] \in Results
=============================================================================
