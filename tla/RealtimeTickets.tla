--------------------------- MODULE RealtimeTickets ---------------------------
(***************************************************************************)
(* One-time realtime tickets (src/modules/realtime-tickets) of one          *)
(* anonymous session, and the session row they are checked against          *)
(* (src/modules/sessions).                                                  *)
(*                                                                         *)
(* A request issues a ticket: audit row in PostgreSQL, secret in Redis,     *)
(* audit row "issued", answer.  A connection takes the secret with GETDEL,  *)
(* checks it, revalidates the session under its row lock and records the    *)
(* outcome.  Every call may fail, before or after its effect; processes     *)
(* crash between any two calls; a janitor expires what was left open.       *)
(***************************************************************************)
EXTENDS Integers, FiniteSets

CONSTANTS
    Reqs,          \* POST /v1/realtime-tickets requests of the session
    Conns,         \* WebSocket connections that present a ticket
    Attempts,      \* MAX_COLLISION_ATTEMPTS
    TicketTtl,     \* realtime.ticketTtlSeconds
    IdleTtl,       \* meetings.sessionIdleTtlSeconds
    Absolute,      \* the session's absolute_expires_at
    MeetingEnd,    \* the meeting's expires_at
    MaxTime        \* bound on the clock

\* Nobody holds the session row.
Free == "free"

ASSUME TicketAssumption ==
    /\ Reqs # {}
    /\ Free \notin Conns
    /\ Attempts \in Nat \ {0}
    /\ TicketTtl \in Nat \ {0}
    /\ IdleTtl \in Nat \ {0}
    /\ Absolute \in Nat
    /\ MeetingEnd \in Nat
    /\ MaxTime \in Nat

VARIABLES
    now,           \* the clock of all processes
    session,       \* participant_sessions: its state, idle expiry, row lock
    meeting,       \* meetings.state IN ('open', 'active')
    audit,         \* realtime_ticket_audit by ticket identifier
    redis,         \* the payload stored under the digest of each ticket
    req,           \* progress of each issue()
    conn           \* progress of each consume()

vars == <<now, session, meeting, audit, redis, req, conn>>

\* Every attempt of every request draws a fresh identifier and a fresh secret;
\* the identifier stands for both.
Ids == Reqs \X (0 .. Attempts - 1)
Outcomes == {"pending", "issued", "digest_collision", "store_unavailable",
             "expired", "context_mismatch", "session_invalid", "consumed"}
Row == [result : Outcomes \cup {"none"}, consumed : BOOLEAN, expires : Nat]
Payload == [stored : BOOLEAN, expires : Nat, gone : Nat]

IssueSteps == {"idle", "begin", "record", "put", "unstored", "collided", "mark",
               "undo", "delivered", "failed"}
Issue == [pc : IssueSteps, try : 0 .. Attempts - 1, ttl : Nat, expires : Nat]

ConsumeSteps == {"idle", "check", "lock", "touch", "invalid", "accept",
                 "admitted", "refused"}
Consume == [pc : ConsumeSteps, id : Ids, expires : Nat, match : BOOLEAN,
            changed : BOOLEAN]

AnyId == CHOOSE i \in Ids : TRUE
Smallest(S) == CHOOSE x \in S : \A y \in S : x <= y

Init ==
    /\ now = 0
    /\ session = [state |-> "active", holder |-> Free,
                  idle |-> Smallest({IdleTtl, Absolute, MeetingEnd})]
    /\ meeting = TRUE
    /\ audit = [i \in Ids |->
                  [result |-> "none", consumed |-> FALSE, expires |-> 0]]
    /\ redis = [i \in Ids |-> [stored |-> FALSE, expires |-> 0, gone |-> 0]]
    /\ req = [r \in Reqs |-> [pc |-> "idle", try |-> 0, ttl |-> 0, expires |-> 0]]
    /\ conn = [c \in Conns |-> [pc |-> "idle", id |-> AnyId, expires |-> 0,
                                match |-> FALSE, changed |-> FALSE]]

------------------------------------------------------------------------------
(* The audit repository *)

\* recordIssue: reserves the row before anything is stored in Redis.
RecordRow(i, expires) ==
    audit' = [audit EXCEPT ![i] = [result |-> "pending", consumed |-> FALSE,
                                   expires |-> expires]]

\* The UPDATE of markResult, for a row that exists.
MarkRow(i, code, consumed) ==
    audit' = [audit EXCEPT ![i].result = code,
                           ![i].consumed = consumed \/ audit[i].consumed]

\* markResult: raises when no row was updated.
MarkResult(i, code, consumed) ==
    /\ audit[i].result # "none"
    /\ MarkRow(i, code, consumed)

\* A call of markResult that raises, before or after its COMMIT, or whose
\* error is swallowed (markBestEffort): the row may or may not be updated.
MayMark(i, code, consumed) ==
    MarkResult(i, code, consumed) \/ UNCHANGED audit

\* Mutant: rows whose issue never finished are forgotten.
OutstandingIssued(i) ==
    /\ audit[i].expires <= now
    /\ ~audit[i].consumed
    /\ audit[i].result = "issued"

\* The rows expireOutstanding selects.
Outstanding(i) ==
    /\ audit[i].expires <= now
    /\ ~audit[i].consumed
    /\ audit[i].result \in {"pending", "issued"}

\* runOnce of the janitor: a batch of the outstanding rows; SKIP LOCKED and
\* the LIMIT may leave some of them out.
Expire ==
    \E batch \in SUBSET Ids :
        /\ batch # {}
        /\ \A i \in batch : Outstanding(i)
        /\ audit' = [i \in Ids |-> IF i \in batch
                                   THEN [audit[i] EXCEPT !.result = "expired"]
                                   ELSE audit[i]]
        /\ UNCHANGED <<now, session, meeting, redis, req, conn>>

------------------------------------------------------------------------------
(* The session row *)

\* The WHERE clause of SELECT_ACTIVE_SESSION; the idle and absolute limits and
\* the states of session and meeting.
Live ==
    /\ session.state = "active"
    /\ session.idle > now
    /\ Absolute > now
    /\ meeting
    /\ MeetingEnd > now

\* What is evaluated again when the row changed while the SELECT waited for
\* its lock: the new session row and the clock, but the old meeting row.
LiveAgain ==
    /\ session.state = "active"
    /\ session.idle > now
    /\ Absolute > now
    /\ MeetingEnd > now

\* touch: the idle expiry slides, within the absolute one and the meeting's.
IdleExpiry == Smallest({now + IdleTtl, Absolute, MeetingEnd})

\* Statements that wait for the row see later that it has changed.
NoteChange(cs) ==
    [c \in Conns |-> IF cs[c].pc = "lock" THEN [cs[c] EXCEPT !.changed = TRUE]
                                          ELSE cs[c]]

\* Revocation by another command of the product.
Revoke ==
    /\ session.holder = Free
    /\ session.state = "active"
    /\ session' = [session EXCEPT !.state = "revoked"]
    /\ conn' = NoteChange(conn)
    /\ UNCHANGED <<now, meeting, audit, redis, req>>

\* The meeting ends; revalidation does not lock its row.
EndMeeting ==
    /\ meeting
    /\ meeting' = FALSE
    /\ UNCHANGED <<now, session, audit, redis, req, conn>>

------------------------------------------------------------------------------
(* issue() *)

Id(r) == <<r, req[r].try>>
Step(r, pc) == req' = [req EXCEPT ![r].pc = pc]
IssueOnly == UNCHANGED <<now, session, meeting, conn>>

\* The controller authenticates the session, which slides its idle expiry;
\* the locking SELECT and the touch of authenticate are one step here.
Authenticate(r) ==
    /\ req[r].pc = "idle"
    /\ session.holder = Free
    /\ Live
    /\ session' = [session EXCEPT !.idle = IdleExpiry]
    /\ Step(r, "begin")
    /\ conn' = NoteChange(conn)
    /\ UNCHANGED <<now, meeting, audit, redis>>

\* The lifetime of the ticket is bounded by the session's; below a second
\* (one unit of time) the request is refused.
IssueBegin(r) ==
    LET ttl == Smallest({TicketTtl, Absolute - now}) IN
    /\ req[r].pc = "begin"
    /\ IF ttl < 1
       THEN Step(r, "failed")
       ELSE req' = [req EXCEPT ![r] = [pc |-> "record", try |-> 0, ttl |-> ttl,
                                       expires |-> now + ttl]]
    /\ IssueOnly /\ UNCHANGED <<audit, redis>>

\* The INSERT; the table refuses a row that has expired already.
Record(r) ==
    /\ req[r].pc = "record"
    /\ req[r].expires > now
    /\ RecordRow(Id(r), req[r].expires)
    /\ Step(r, "put")
    /\ IssueOnly /\ UNCHANGED redis

\* Mutant: a failed audit does not stop the issue.
RecordIgnored(r) ==
    /\ req[r].pc = "record"
    /\ UNCHANGED audit
    /\ Step(r, "put")
    /\ IssueOnly /\ UNCHANGED redis

\* The INSERT fails, or its COMMIT succeeds and the answer is lost.
RecordFail(r) ==
    /\ req[r].pc = "record"
    /\ \/ UNCHANGED audit
       \/ req[r].expires > now /\ RecordRow(Id(r), req[r].expires)
    /\ Step(r, "failed")
    /\ IssueOnly /\ UNCHANGED redis

\* The key exists until its PX elapses.
Present(i) == redis[i].stored /\ redis[i].gone > now

Drop(i) == redis' = [redis EXCEPT ![i].stored = FALSE]

\* SET NX PX: the time to live starts now, later than issuedAtMs.
Store(r) ==
    redis' = [redis EXCEPT ![Id(r)] = [stored |-> TRUE, expires |-> req[r].expires,
                                       gone |-> now + req[r].ttl]]

\* The digest may already exist: random values are distinct here, so that is
\* a free choice.
Put(r) ==
    /\ req[r].pc = "put"
    /\ \/ Store(r) /\ Step(r, "mark")
       \/ UNCHANGED redis /\ Step(r, "collided")
    /\ IssueOnly /\ UNCHANGED audit

\* SET raises, possibly after Redis executed it.
PutFail(r) ==
    /\ req[r].pc = "put"
    /\ Store(r) \/ UNCHANGED redis
    /\ Step(r, "unstored")
    /\ IssueOnly /\ UNCHANGED audit

Unstored(r) ==
    /\ req[r].pc = "unstored"
    /\ MayMark(Id(r), "store_unavailable", FALSE)
    /\ Step(r, "failed")
    /\ IssueOnly /\ UNCHANGED redis

\* Another ticket has this digest: record it and try a new secret.
Collided(r) ==
    /\ req[r].pc = "collided"
    /\ MarkResult(Id(r), "digest_collision", FALSE)
    /\ IF req[r].try + 1 < Attempts
       THEN req' = [req EXCEPT ![r].pc = "record", ![r].try = req[r].try + 1]
       ELSE Step(r, "failed")
    /\ IssueOnly /\ UNCHANGED redis

CollidedFail(r) ==
    /\ req[r].pc = "collided"
    /\ MayMark(Id(r), "digest_collision", FALSE)
    /\ Step(r, "failed")
    /\ IssueOnly /\ UNCHANGED redis

\* The row becomes "issued" and the secret goes to the client.
Mark(r) ==
    /\ req[r].pc = "mark"
    /\ MarkResult(Id(r), "issued", FALSE)
    /\ Step(r, "delivered")
    /\ IssueOnly /\ UNCHANGED redis

MarkFail(r) ==
    /\ req[r].pc = "mark"
    /\ MayMark(Id(r), "issued", FALSE)
    /\ Step(r, "undo")
    /\ IssueOnly /\ UNCHANGED redis

\* Best-effort removal of the secret that will not be delivered.
Undo(r) ==
    /\ req[r].pc = "undo"
    /\ Drop(Id(r)) \/ UNCHANGED redis
    /\ Step(r, "failed")
    /\ IssueOnly /\ UNCHANGED audit

IssueCrash(r) ==
    /\ req[r].pc \notin {"idle", "delivered", "failed"}
    /\ Step(r, "failed")
    /\ IssueOnly /\ UNCHANGED <<audit, redis>>

------------------------------------------------------------------------------
(* consume() *)

\* The tickets clients have.
Delivered == {Id(r) : r \in {q \in Reqs : req[q].pc = "delivered"}}
Move(c, pc) == conn' = [conn EXCEPT ![c].pc = pc]
ConsumeOnly == UNCHANGED <<now, meeting, req>>

\* Mutant: GET without the deletion.
TakeKeeping(c) ==
    /\ conn[c].pc = "idle"
    /\ \E i \in Delivered, match \in BOOLEAN :
         /\ Present(i)
         /\ conn' = [conn EXCEPT ![c] =
                       [pc |-> "check", id |-> i, match |-> match,
                        expires |-> redis[i].expires, changed |-> FALSE]]
    /\ ConsumeOnly /\ UNCHANGED <<session, audit, redis>>

\* GETDEL of the digest: the payload is deleted before it is looked at.
Take(c) ==
    /\ conn[c].pc = "idle"
    /\ \E i \in Delivered, match \in BOOLEAN :
         /\ Present(i)
         /\ Drop(i)
         /\ conn' = [conn EXCEPT ![c] =
                       [pc |-> "check", id |-> i, match |-> match,
                        expires |-> redis[i].expires, changed |-> FALSE]]
    /\ ConsumeOnly /\ UNCHANGED <<session, audit>>

\* Nothing is stored, or Redis raises, possibly after it deleted the key.
TakeFail(c) ==
    /\ conn[c].pc = "idle"
    /\ \E i \in Delivered : Drop(i) \/ UNCHANGED redis
    /\ Move(c, "refused")
    /\ ConsumeOnly /\ UNCHANGED <<session, audit>>

\* The ticket is too old, or was issued for another origin or device.
Reject(c) ==
    /\ conn[c].pc = "check"
    /\ \/ conn[c].expires <= now /\ MayMark(conn[c].id, "expired", TRUE)
       \/ /\ conn[c].expires > now /\ ~conn[c].match
          /\ MayMark(conn[c].id, "context_mismatch", TRUE)
    /\ Move(c, "refused")
    /\ ConsumeOnly /\ UNCHANGED <<session, redis>>

\* The SELECT ... FOR UPDATE of revalidate starts; it may have to wait.
Revalidate(c) ==
    /\ conn[c].pc = "check"
    /\ conn[c].expires > now
    /\ conn[c].match
    /\ Move(c, IF Live THEN "lock" ELSE "invalid")
    /\ ConsumeOnly /\ UNCHANGED <<session, audit, redis>>

\* Mutant: the row is used as it was when the statement began.
LockUnchecked(c) ==
    /\ conn[c].pc = "lock"
    /\ session.holder = Free
    /\ Move(c, "touch")
    /\ session' = [session EXCEPT !.holder = c]
    /\ ConsumeOnly /\ UNCHANGED <<audit, redis>>

\* It gets the row lock; a row that changed meanwhile is checked again.
Lock(c) ==
    /\ conn[c].pc = "lock"
    /\ session.holder = Free
    /\ IF conn[c].changed => LiveAgain
       THEN Move(c, "touch") /\ session' = [session EXCEPT !.holder = c]
       ELSE Move(c, "invalid") /\ UNCHANGED session
    /\ ConsumeOnly /\ UNCHANGED <<audit, redis>>

\* touch and COMMIT.
Touch(c) ==
    /\ conn[c].pc = "touch"
    /\ session' = [session EXCEPT !.idle = IdleExpiry, !.holder = Free]
    /\ conn' = [NoteChange(conn) EXCEPT ![c].pc = "accept"]
    /\ ConsumeOnly /\ UNCHANGED <<audit, redis>>

Unlock(c) ==
    session' = IF session.holder = c THEN [session EXCEPT !.holder = Free]
                                     ELSE session

\* A statement fails or times out and the transaction rolls back, or COMMIT
\* takes effect and its answer is lost.
RevalidateFail(c) ==
    /\ conn[c].pc \in {"lock", "touch"}
    /\ \/ Unlock(c) /\ Move(c, "invalid")
       \/ /\ conn[c].pc = "touch"
          /\ session' = [session EXCEPT !.idle = IdleExpiry, !.holder = Free]
          /\ conn' = [NoteChange(conn) EXCEPT ![c].pc = "invalid"]
    /\ ConsumeOnly /\ UNCHANGED <<audit, redis>>

\* The principal is refused for whatever reason revalidate raised.
Invalid(c) ==
    /\ conn[c].pc = "invalid"
    /\ MayMark(conn[c].id, "session_invalid", TRUE)
    /\ Move(c, "refused")
    /\ ConsumeOnly /\ UNCHANGED <<session, redis>>

\* The outcome is recorded before the principal is returned.
Accept(c) ==
    /\ conn[c].pc = "accept"
    /\ MarkResult(conn[c].id, "consumed", TRUE)
    /\ Move(c, "admitted")
    /\ ConsumeOnly /\ UNCHANGED <<session, redis>>

AcceptFail(c) ==
    /\ conn[c].pc = "accept"
    /\ MayMark(conn[c].id, "consumed", TRUE)
    /\ Move(c, "refused")
    /\ ConsumeOnly /\ UNCHANGED <<session, redis>>

ConsumeCrash(c) ==
    /\ conn[c].pc \in {"check", "lock", "touch", "invalid", "accept"}
    /\ Unlock(c)
    /\ Move(c, "refused")
    /\ ConsumeOnly /\ UNCHANGED <<audit, redis>>

------------------------------------------------------------------------------
Tick ==
    /\ now < MaxTime
    /\ now' = now + 1
    /\ UNCHANGED <<session, meeting, audit, redis, req, conn>>

Next ==
    \/ Tick
    \/ Revoke
    \/ EndMeeting
    \/ Expire
    \/ \E r \in Reqs :
         \/ Authenticate(r) \/ IssueBegin(r) \/ Record(r) \/ RecordFail(r)
         \/ Put(r) \/ PutFail(r)
         \/ Unstored(r) \/ Collided(r) \/ CollidedFail(r) \/ Mark(r)
         \/ MarkFail(r) \/ Undo(r) \/ IssueCrash(r)
    \/ \E c \in Conns :
         \/ Take(c) \/ TakeFail(c) \/ Reject(c) \/ Revalidate(c) \/ Lock(c)
         \/ Touch(c) \/ RevalidateFail(c) \/ Invalid(c) \/ Accept(c)
         \/ AcceptFail(c) \/ ConsumeCrash(c)

Spec == Init /\ [][Next]_vars

\* Time passes and the janitor's timer fires (setInterval, overlap guarded by
\* a flag that a finally block resets).  Requests and connections may stop.
FairSpec == Spec /\ WF_vars(Tick) /\ WF_vars(Expire)

------------------------------------------------------------------------------
(* Properties *)

\* Types, and who may hold the session row: a connection between its locking
\* SELECT and its COMMIT.
TypeOK ==
    /\ now \in 0 .. MaxTime
    /\ session \in [state : {"active", "revoked"}, idle : Nat,
                    holder : Conns \cup {Free}]
    /\ meeting \in BOOLEAN
    /\ audit \in [Ids -> Row]
    /\ redis \in [Ids -> Payload]
    /\ req \in [Reqs -> Issue]
    /\ conn \in [Conns -> Consume]
    /\ \A c \in Conns : session.holder = c <=> conn[c].pc = "touch"

\* TKT-005: one consumer wins.  No two connections are ever past the take of
\* the same ticket, and none while the ticket can still be taken.
Holding(c) == conn[c].pc \in ConsumeSteps \ {"idle", "refused"}
OneConsumer ==
    \A c \in Conns : Holding(c) =>
        /\ \A d \in Conns \ {c} : Holding(d) => conn[d].id # conn[c].id
        /\ ~redis[conn[c].id].stored

\* An admitted connection is in the durable audit as consumed and stays so,
\* whatever the janitor and the issuing process still do.
ConsumedRecorded ==
    \A c \in Conns : conn[c].pc = "admitted" =>
        /\ audit[conn[c].id].result = "consumed"
        /\ audit[conn[c].id].consumed

\* No ticket can be used that the audit does not know: a stored secret and a
\* connection that took one have their row (so markResult never finds none).
AuditedBeforeUse ==
    /\ \A i \in Ids : redis[i].stored => audit[i].result # "none"
    /\ \A c \in Conns : Holding(c) => audit[conn[c].id].result # "none"

\* A revoked session is not admitted: when revalidate commits its touch the
\* session is active, although it may have waited for the row for long.
RevokedNotAdmitted ==
    \A c \in Conns : conn[c].pc = "touch" => session.state = "active"

\* TKT-010, SES-007: no ticket and no idle expiry reaches beyond the session
\* and the meeting.
TimesNested ==
    /\ session.idle <= Absolute /\ session.idle <= MeetingEnd
    /\ \A i \in Ids : audit[i].expires <= Absolute /\ redis[i].expires <= Absolute

\* Every audit row is settled, also that of a ticket nobody was given.
AuditSettles ==
    \A i \in Ids : audit[i].result \in {"pending", "issued"}
                     ~> audit[i].result \notin {"pending", "issued"}
=============================================================================
