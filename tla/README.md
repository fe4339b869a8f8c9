# A TLA+ verification project for hello-friend-backend

hello-friend-backend is the realtime backend of an anonymous meeting product:
HTTP processes that create and join meetings and issue credentials, realtime
processes that speak WebSocket and carry end-to-end encrypted chat and presence,
relay workers that drain a transactional outbox, and a migration process.
PostgreSQL holds everything durable; Redis carries live traffic, presence,
one-time tickets and rate limits.

This directory holds TLA+ modules translated from that code, the TLC
configurations that check them on small instances, and theorems that TLAPS
proves for every value of the constants. Paths below are relative to `src/`, so
the chat module is `src/modules/chat/` there. `PROJECT.json` maps each
definition to the lines it stands for.

## 1. Inventory

| Component | State it keeps | Operations | What makes it correct |
|---|---|---|---|
| Outbox (`modules/outbox`) | `outbox_events` rows: attempts, lease, published/dead; per worker, the cycle in flight | claimBatch, publishOne, markPublished, markFailed, poll, shutdown; `publishFastPath` of the chat | no false success; only the lease owner settles a row; every row settles; duplicates bounded |
| Durable chat (`modules/chat`, repository) | stream head, messages, outbox rows, a participant's history floor | accept (T3), readPage, deleteExpired, join's floor | contiguous positions; idempotent retries; durable acks; slow mode; complete pages |
| Chat live delivery (`chat-fanout.service`, `chat-live-cursor`, gateway subscription) | Redis subscriptions per meeting, a cursor per socket | watch, unwatch, onMessage, poll of heads, subscribe, sync | a socket sees every position in order, or is told to repair |
| Realtime gateway (`modules/realtime`) | connection registry, per-socket queue and phase | connect, authenticate, enqueue/process, revalidate, close, shutdown | commands in order, bounded queues, nothing left behind after close |
| Presence (`modules/presence`) | Redis hash/zset per meeting, revision counter, local watchers | open, heartbeat, close, snapshot, watch, unwatch | a closed or dead connection disappears; complete snapshots with one revision agree |
| SFU admission (`modules/sfu-admission`) | `sfu_admission_audit` rows; signer queue | prepare, sign, finalize, markSigningFailed, invalidateSession, maintain; the bounded signer executor | a token is released only for a current authorization; one per command; the queue stays bounded |
| Realtime tickets (`modules/realtime-tickets`) | one-time ticket in Redis, audit row in PostgreSQL | issue, consume, expire | consumed at most once, only in its context and in time |
| Sessions (`modules/sessions`) | `participant_sessions` | authenticate, revalidate, touch | idle expiry never passes absolute expiry; dead sessions stay dead |
| Meetings (`modules/meetings`) | meetings, capabilities, participants, `command_results` | create, join, replay | idempotent commands; a capability is not overused |
| Rate limiters (chat, tickets, admission, public) | Redis counters, local fallback buckets | consume | quota not exceeded; bounded fallback |
| Capabilities (`modules/capabilities`) | HMAC keyring versions | digest, candidates, verify | rotation keeps old digests verifiable |
| Unit of work, connections (`platform/database`, `platform/redis`) | pooled clients, three Redis connections | run with bounded retry, acquire/release | no leaked client or lock; bounded retries |
| Migrations (`platform/database/migration-runner`) | `schema_migrations`, advisory lock | verify, apply | each migration once, in order, unchanged |
| Process lifecycle (`apps/shared`, `platform/health`) | phase, registered indicators, shutdown deadline | start, health checks, graceful shutdown | a ready report rests on every dependency; an ordered close under a deadline |
| Configuration, contracts, observability | none that changes | parse, validate, log, meter | out of scope: no state |

### Interactions

* A realtime process authenticates a socket with a one-time ticket, opens
  presence, then hands `chat.message.send` to `ManageChatUseCase.accept`. One
  PostgreSQL transaction commits message, position and outbox row; the row is
  born leased to that process, which publishes it to Redis after COMMIT (fast
  path). If anything fails the relay worker finds the row when its lease ends.
* Redis pub/sub is at-most-once per subscriber. Every realtime process polls the
  durable heads of the meetings it watches and tells a client with a gap to read
  pages (`synchronize`).
* SFU admission runs two transactions around a call to a key service and holds
  no lock during the call; revocation and policy changes run in between.
* Janitors (chat retention, ticket audit, admission audit) run beside everything
  else with `FOR UPDATE SKIP LOCKED`.

### Hard behaviours

Leases that run out under a working owner; replies of COMMIT or SPUBLISH that
are lost after the effect; rejected promises whose siblings go on; row locks and
the snapshots of three isolation levels; authorizations checked before a lock or
an external call and used after it; callbacks that finish after the socket that
started them is gone; at-most-once pub/sub with poll repair; shutdown in the
middle of a batch. `PROJECT.json` lists each with its line under `hazards`.

## 2. Modules

| Module | Models |
|---|---|
| `AtLeastOnce` | abstract specification: what the outbox promises |
| `Outbox` | rows, fast path, relay workers, faults; refines `AtLeastOnce` |
| `OutboxProofs` | TLAPS proofs about `Outbox` |
| `MessageLog` | abstract specification: what the chat stream promises |
| `ChatStream` | transaction T3, join floor, history pages, retention; refines `MessageLog` |
| `SfuPolicy` | the permission policy of SFU admission, as operators |
| `SfuAdmission` | prepare, sign, finalize; revocation, changes, audit janitor |
| `SfuAdmissionProofs` | TLAPS proofs about `SfuAdmission` |
| `StreamHead` | the head of the stream, which `ChatStream` and `ChatDelivery` share |
| `ChatDelivery` | fan-out subscription, poll of heads, live cursor, gateway subscription |
| `ChatProofs` | TLAPS proofs about `ChatStream` and `ChatDelivery` |
| `OneTimeTicket` | abstract specification: the life of a ticket |
| `RealtimeTickets` | one-time tickets, their audit, the session row; refines `OneTimeTicket` |
| `RealtimeTicketsProofs` | TLAPS proofs about `RealtimeTickets` |
| `PresenceRoll` | abstract specification: what presence promises its readers |
| `Presence` | the Redis scripts of presence and the gateway's use of them; refines `PresenceRoll` |
| `PresenceProofs` | TLAPS proofs about `Presence` |
| `ConnectionQuota` | abstract specification: admission of connections, with sets for counters |
| `RealtimeGateway` | registry, authentication deadline, command queue, revalidation, drain; refines `ConnectionQuota` |
| `RealtimeGatewayProofs` | TLAPS proofs about `RealtimeGateway` |
| `SignerExecutor` | slots and queue of the bounded signer |
| `ApiProcess` | start-up, readiness and shutdown of a process; composes `SignerExecutor` |
| `CommandLedger` | abstract specification: each command takes effect once |
| `MeetingCommands` | create and join with their idempotency records and retries; refines `CommandLedger` |
| `MeetingCommandsProofs` | TLAPS proofs about `MeetingCommands` |
| `SchemaHistory` | abstract specification: one history of the schema |
| `MigrationRunner` | migrations of several processes under the advisory lock; refines `SchemaHistory` |
| `ProcessProofs` | TLAPS proofs about `ApiProcess`, `SignerExecutor` and `MigrationRunner` |
| `MC...` | instances of the above for TLC |

### Outbox

A row has the columns the SQL tests: `state` stands for `published_at`/`dead_at`,
`attempts`, `lockedBy`; `leased` is the set of rows with
`locked_until >= clock_timestamp()` and `backoff` those with `available_at` in
the future. Time is those events. A *task* is one execution of `publishOne` or
`publishFastPath` for one claim. `Claim` is `claimBatch` (any subset of the
claimable rows up to the batch size, since SKIP LOCKED may pass over rows),
`StartWindow` a window of `runOnce`, then SPUBLISH in two steps (executed by
Redis; reply), then `MarkPublished` or `MarkFailed` with the exact `WHERE` of
their UPDATE. When `publishOne` throws, `Promise.all` rejects: queued tasks are
dropped, running siblings become *detached* and the worker polls again. Faults:
lost replies of the claim, of the ack and of the failure, crash (the successor
has a new identifier, so rows stay locked by one that is gone), drain, overrun
leases; `MaxDisruptions` bounds them. An SPUBLISH that Redis executes after the
client gave up on it is left out: it only adds late duplicates.

### ChatStream

One step per statement of `accept`, with the row lock on the stream head and the
share lock on the meeting row; a transaction's writes become visible at
`Commit`, whose reply may be lost; `Rollback` is any failed statement, timeout
or crash. `join` takes its SERIALIZABLE snapshot when its first statement starts
to wait (`JoinBegin`), gets the meeting row (`JoinLock`, or 40001 and a retry)
and stores the floor its snapshot shows. `ReadPage` runs on one REPEATABLE READ
snapshot, so it is one step. Meetings are always created with
`strict_membership`, so the floor always applies. The E2EE module that adds a
device and starts an epoch does not exist yet; `Enrol` stands for it and is
marked external. Refusals that change nothing (policy, expired session, missing
device) are commands that never start.

### SfuPolicy and SfuAdmission

The policy is a set of operators over the role, mode and encryption vocabularies.
`SfuAdmission` follows one session: the rows of session, participant and meeting
are locked together and in one order, so they are one lock, and an audit row has
its own. `Begin` starts the `SELECT ... FOR UPDATE` of prepare (what it evaluates
on unlocked tables is kept in `seen`), `LoadAuthorization` is granted the rows,
`Reserve` inserts the audit row or meets an existing one (`ThrowReplay`), `Sign`
runs without locks, then `FinalizeBegin`, `FinalizeLockRow` and `Finalize` are
transaction B with its comparison and its COMMIT, whose reply may be lost.
`Abort` is a failed statement, a timeout or a crash at any step. `Change` is
external: the modules that revoke sessions, end meetings and change roles or
memberships are not written yet, so any of these may happen at any time. The
session's idle expiry, participant state and meeting expiry are folded into
`SessionEnds` and the meeting's openness. The token's encoding is left out.

### ChatDelivery

One meeting, one realtime process. `head` is the committed position. Each await
of `watch`, `unwatch`, `prepareChatSubscription` and `room.sync` ends an action,
because other callbacks run there. Redis may lose, repeat and reorder
notifications (`Receive` picks any committed position), and a notification
needs the channel to be subscribed. `Accept`, `Advance` and `Flush` are the
methods of `ChatLiveCursor`; `got` and `know` are what the client has received
and been told. Pages return every position: visibility is `ChatStream`'s.

### RealtimeTickets

One session. Every attempt of a request draws a fresh identifier and a fresh
secret; the identifier stands for both, and a digest collision is a free choice.
Each call to PostgreSQL or Redis may fail before or after its effect, and a
process may crash between two. `Authenticate` (the HTTP request's check of the
session) is one step; `Lock`, `Touch` and `Unlock` are the statements of
`revalidate`, where a locking SELECT evaluates its condition again if the row
changed while it waited (`NoteChange`). Participant state is folded into the
meeting's. Revocation and the end of a meeting are external.

### Presence

A script is atomic, and one process's scripts reach Redis in the order they are
issued, so a call is one step or fails without effect. Time is what remains of
each TTL; `Tick` takes one unit from all of them and `Lapsed` removes keys at
zero. `Purged` removes at most `Purge` stale members, the choice being the order
of the sorted set. A snapshot is bounded as in the code: `Listed` takes the
`MaxShown * MaxPerSession` connections with the lowest scores (the oldest
heartbeats; ties are a free choice), `Owners` aggregates them by participant, at
most `MaxShown` participants are returned, and `Truncated` says that something was
left out. Which participants a truncated snapshot names therefore changes with
heartbeats at one revision, and `SnapshotsAgree` says nothing of them.
`authenticate` is suspended in `consume` and in `watch`, and
`Cleanup` may run meanwhile. Left out: the per-session index (nothing reads it),
the role shown for a participant (that of its connection with the latest heartbeat),
the order of identifiers by which `slice` chooses (any choice is allowed), fan-out of
notifications, `onModuleDestroy`.

### RealtimeGateway

The part of the gateway that is neither chat nor presence: who is registered, for
which source and session, and which command of each socket is where. A command
runs from `Process` to its first await and is resumed by `Authenticated`, `Opened`,
`Revalidated` or `Executed`; the answer of the awaited call (`Consume`, `Revalidation`
and their failures) is a step of its own, since its result may be old when the
command goes on. The socket may close, time out or be drained at any of these
points, and `Cleanup` comes with the close event. `revoked` counts the time since a
session was revoked, up to where the property looks; `Tick` does not let an answer
take longer than `AnswerTime`, the query time limit. The token bucket of the
message rate limiter is a refusal that may happen at any message.

### SignerExecutor and ApiProcess

`Execute`, `Settle`, `Release` and `CloseExecutor` are `execute`, the two callbacks of
`start` and `close`: a caller resumed by the first callback may ask again before the
second frees the slot. A provider that answers, fails or is timed out is one step.
`ApiProcess` extends it with the process around it: `onModuleInit` of the three
dependencies in any order, `listen`, `markReady`, readiness with a probe per
indicator, a signal, the `onModuleDestroy` hooks one after the other in any order,
the close of the server and the deadline that races all of this. A hook that was
started goes on after the deadline. The order of hooks and server is Nest's, as
installed, and marked external.

### MeetingCommands

The two SERIALIZABLE transactions of `PostgresMeetingRepository`, one action per
statement that can wait or refuse; what a transaction writes becomes visible at
`Commit`. The snapshot is taken by the first statement before it waits, and
`stale` holds the rows others have committed since: `LockMeeting`,
`FindInviteCapability` and `ReserveCommand` answer such a row with 40001, which
`Conflict` turns into another attempt while `run` allows one. `Abort` is any
other failure, and also the 40001 that PostgreSQL reports for read-write
dependencies. A process has a keyring (`Rings`), which decides the fingerprint of
a request and the invitations it can verify. `Expire` is the clock, which changes
no row: a join may pass its checks and fail at the session's CHECK. Ending a
meeting and revoking an invitation (`Close`) are planned in the code and external
here. `max_uses` is never set by the code and left out; refusals by the browser
policy, the rate limiter and the schemas are requests that never start.

### MigrationRunner

Each process has its own directory, any assignment of checksums to versions that
is not empty, so releases may agree, extend or contradict each other. A session
is modelled apart from its client: `Disconnect` loses the session under a living
client, `Crash` the client under a session that still executes and commits, and
`SessionEnd` is the end of the pool or the server noticing. `Commit` makes the SQL of
a file and its row visible together; its answer may be lost after it (`Fail` in
`committed`). The ignored error of `pg_advisory_unlock` is the choice in `Unlock`.

## 3. Runs

| Run | Shows |
|---|---|
| `outbox` | 2 rows, 2 workers, 1 realtime process, batch 2, window 2, budget 2, 2 disruptions, fair (449k states): duplicates bounded by attempts, only the owner releases, refinement of `AtLeastOnce` (so no false success), every row settles |
| `chat` | 2 sessions, 1 sender, 2 ids, 2 contents, 1 reader, 2 commands, 3 ticks, fair (376k states): contiguous positions, durable acks, slow mode, complete history, every accept ends |
| `sfu` | 2 calls that may repeat one commandId, 3 ticks, 1 role change, fair (217k states): a revoked session stays out, one token per command, a concurrent change wins, no reservation stays open, deadlock victims included. Its module also assumes `TableHolds`, which TLC evaluates on every policy input: the derived permissions are the module README's table and encryption is never dropped |
| `sfu_membership` | violation: a membership removed while `finalize` waits for its rows does not stop the token |
| `delivery_fanout` | 2 sockets, reorder buffer 1, 2 messages (1.8M states): a subscribed client is told of everything the process has observed |
| `delivery_live` | 1 socket, buffer 2, 4 messages, fair (305k states): no position skipped, memory bounded, the replay of buffered notifications is the code's loop, a client that repairs catches up |
| `tickets` | 1 request with 2 attempts, 2 connections, 4 ticks, fair (35k states): one consumer per ticket, no secret without an audit row, no revoked session admitted, every audit row settles |
| `presence` | 2 connections of two participants, room for one in a snapshot, TTL 1, purge batch 1, queue 1, fair (923k states): the revision key outlives the connections, complete snapshots with one revision name the same participants, and truncated ones are told apart from complete ones, a dead connection disappears |
| `gateway` | 2 sockets, 2 sources, 1 session, limits and queue of 1, fair (112k states): exact registry, final drain, revocation in bounded time, no socket stays without authentication |
| `process` | 3 dependencies, 3 signatures, 1 slot, queue 1, fair (98k states): exact slots, a ready report rests on a probe of every dependency, signatures settle |
| `meetings` | 3 calls, 2 commandIds, 2 keyrings, 2 retries, symmetric (384k states): one participant per command and no command left in progress, exact use counts, consistent and durable answers, ordered locks, no join into a closed meeting |
| `migrations` | 2 processes with any file sets over 2 versions and 2 checksums, fair (157k states): each file takes effect once, a success is complete and lasting, every process ends and gives the lock back |

Bounds. Two rows are the smallest batch with siblings in one window, two workers
the smallest number that can steal a lease from one another, and two disruptions
let a lease be lost and its thief crash or miss a reply. Two sessions race for
the head row, two commands give a pair of racing retries, and three ticks cover
slow mode and retention one after the other. Two admission calls are one that
signs and one that repeats its commandId; three ticks pass reservation, token
and retention. One message more than the reorder buffer holds makes it
overflow, and two sockets are enough to share a subscription and to lose it.
Two connections race for a ticket; two attempts are a collision and its retry;
four ticks pass the ticket, the idle expiry, the session and the meeting. With
a purge batch of one, two stale connections already exceed it. Three calls are
a creation and two joins, or two racing repetitions and a later one; two
commandIds let both joins be counted, two keyrings give a repeated request
another fingerprint. Two sockets of one session, from one source or two, compete for
limits of one, and a queue of one already refuses; the gateway run also passes
with a queue of two, in four and a half minutes. One slot, one place in the
queue and three calls are one that runs, one that waits and one that is
refused; the three dependencies are those of the API process. Two processes
and two versions let a release migrate between two steps of another, with an
equal, a longer or an altered set of files. The theorems of
section 5 remove these bounds where there is one. Symmetry is used in runs
without liveness only. `CHECK_DEADLOCK FALSE` is set where the model may come to
rest: polling an empty table and reading an unchanged page are not steps, and
the bounds end the rest.

Violation runs check one sentence of the repository's documents or comments that
the code does not keep; each has an entry under `findings` that quotes it.

### Divergences that have no run

Modelling showed more places where code and documents disagree. They are
consequences of the same steps the passing runs explore:

* `modules/chat/README.md:119`: `chat_join_position` hides positions before the
  join. `join` reads the head on the snapshot its SERIALIZABLE transaction took
  before it waited for the meeting row (`postgres-meeting.repository.ts:155`), so
  a message committed during the wait lies before the join and above the floor.
* `chat-fanout.service.ts:45`: `watch` waits until Redis confirms the shared
  subscription. `unwatch` deletes the entry and calls `sUnsubscribe` after an
  await (`:120`); a `watch` in between subscribes again, is confirmed, and is then
  unsubscribed. The poll of heads still informs its sockets, which is what
  `Informed` and `CaughtUp` show.
* `platform/health/README.md`: `/ready` requires the phase `ready`. The phase is
  read before the probes (`health.service.ts:21`): a drain that begins meanwhile
  yields a report that says ok and draining.
* `apps/README.md:14`: a draining process refuses new work. Nest runs the
  `onModuleDestroy` hooks before it closes the server, so HTTP requests are
  accepted while pools are closed under them, and fail.
* `run-http-process.ts:52` and `register-graceful-shutdown.ts:53`: a failed start
  and a missed deadline only set `exitCode`; connections that are open keep the
  process running.
* `outbox-worker.ts:9` promises cycles that do not overlap. `Promise.all`
  (`outbox-relay.ts:34`) rejects on the first `publishOne` that throws while its
  siblings are in flight, and the next poll starts beside them.
* `modules/outbox/README.md:49`: work not started at shutdown is left for the
  next poll. The windows that had not started run `publishOne` with an aborted
  signal and call `markFailed`, which consumes the attempt and may bury the row.
* `02-specification-architecture-backend.md:1023`: a row is dead after the
  allowed attempts. Only `markFailed` looks at the budget; a row whose claimer
  crashes is claimed without end.
* `modules/chat/README.md:92`: an identical retry returns the original message.
  `accept` compares epochs before it looks for the message, so a retry after an
  epoch change is refused.
* `modules/meetings/README.md:17`: an identical command is replayed. The
  fingerprint contains the key versions of the process that serves the request
  (`manage-anonymous-meetings.use-case.ts:38`, `:65`), so during a key rotation
  an identical retry at another process is refused as a reused commandId.
* `03-modele-menaces-securite.md:297` asks for one lock order. `throwReplay`
  takes the audit row after session, participant and meeting, `finalize` before
  them; PostgreSQL breaks the deadlock by aborting one call.
* `04-specification-fonctionnelle-modulaire.md:275`: the ticket audit tells
  consumed from refused. When the COMMIT of `consumed` takes effect and its
  answer is lost, the connection is refused and the row says consumed.
* `01-cadrage-backend-temps-reel.md:373`: a disconnection cancels every
  listener. `cleanup` calls `unwatchChat` and `unwatchPresence`, which are set
  after awaits: a socket that closes in between leaves its listener.
* `modules/presence/README.md:22`: revisions are monotone. The revision key
  expires after twice the TTL and numbering starts again.
* `modules/presence/README.md:37`: the snapshot of a very large meeting is
  paginated. `snapshot` takes no cursor: what does not fit is left out, and
  which participants those are changes with every heartbeat at one revision.
* `modules/presence/README.md:62`: no false offline. A connection that dropped
  out of the store in a Redis outage is never stored again by its heartbeats.
* `presence.service.ts:174`: `watch` returns at once while another socket's
  subscription is pending; if that fails, both listeners are gone and only one
  caller is told.

## 4. Fairness

* Outbox: a started call returns (Redis and PostgreSQL clients have timeouts),
  the poll timer is set again in a `finally`, a drained process exits, an
  abandoned lease runs out and a backoff elapses. Nothing is assumed of crashes,
  inserts, lost replies, or leases under a working owner.
* ChatStream: the database answers a statement that is not blocked (statement
  and lock timeouts end one that is). Nothing is assumed of clients or readers.
* SfuAdmission: a call goes on or aborts (every statement and the signature have
  timeouts), the janitor's interval comes round, time passes.
* ChatDelivery: the poll timer comes round and sometimes succeeds (strong
  fairness: a poll may fail any number of times, not for ever), and a client
  that knows it lacks positions asks for them and is sometimes answered. Nothing
  is assumed of Redis.
* RealtimeTickets: time passes and the janitor runs. Nothing is assumed of
  requests and connections.
* Presence: Redis's clock runs, the heartbeat sweep fires and `terminate()` leads
  to a close event. Nothing is assumed of peers, of awaited calls returning or of
  Redis calls succeeding.
* RealtimeGateway: the authentication timer fires and a close handshake ends (`ws`
  gives it 30 seconds). Nothing is assumed of clients or of answers.
* ApiProcess: the time limit of a signature fires and due callbacks run. Nothing is
  assumed of dependencies, hooks or the shutdown.
* MigrationRunner: statements and lock waits end (statement, lock and query time
  limits), and the session of a client that is gone ends.

## 5. Proofs

All theorems are checked by TLAPS for arbitrary constants that satisfy the
module's `ASSUME`. Each inductive invariant was first checked by TLC as an
invariant of the component's run. `ChatProofs` and `ProcessProofs` each hold the
proofs of two components and extend both: the parts of a specification are
therefore named `FeedInit`, `FeedNext`, `FeedSpec`... in `ChatDelivery` and
`MigrationInit`, `MigrationSpec`... in `MigrationRunner`. `ChatStream` and
`ChatDelivery` share the variable `head`, which `StreamHead` declares.

* `OutboxProofs`. `IInv` is `TypeOK`, `Recorded` (a task's row is not absent),
  `Sent` (a task past the broker's reply, `ack`, has a copy in Redis) and
  `NoFalseSuccess`. `NoFalseSuccess` is not inductive alone: the ack step needs
  that a task waiting to acknowledge has been sent, whatever the row went through
  in between. From `IInv` follow `TypeCorrect`, `NeverFalseSuccess`,
  `OwnershipRespected` (an action property) and `Refinement` (every step is a
  step of `AtLeastOnce` or a stutter). `DuplicatesBounded` needs `ClaimsInv`
  besides: the copies of a row and its tasks that may still publish are together
  no more than its attempts, so a detached sibling, a stolen lease or a lost
  reply cannot publish on somebody else's claim. Each task has a claim of its own
  (`OneClaimEach`), which is one of the attempts counted in its row (`Counted`).
  No bound on the number of tasks is assumed.
* `ChatProofs`, `ChatStream`. `IInv` adds to the checked invariants what each session
  knows: `LookedUp` (past the second lookup under the lock no row for the
  command exists), `Latest` and `Past` (committed times are in order and not in
  the future), `Retained` (slow mode is not longer than retention, so a row that
  could block is still stored), `Spaced` (a session past `enforceSlowMode` is far
  enough from the sender's last message). From it follow `PositionsContiguous`,
  `RetriesNeverCollide` (two retries of one clientMessageId never reach the unique
  constraint, which `AckedIsDurable` alone does not say), `AcksDurable`,
  `SlowModeHolds`. `HistoryHasNoHoles` uses
  `HistoryInv`: there are finitely many messages and no cursor is ahead of the
  head, so a message that commits later lies behind no cursor. Its core is
  `PageIsPrefix`: the rows a page returns are all the visible ones up to the last
  of them, or up to the head when the page is not full. `CursorsAdvance` is an
  action property.
* `ChatProofs`, `ChatDelivery`. `FeedInv` says two things of each socket. `RecordInv`
  is about the socket alone: bounded memory and, as long as it is open, that it has
  not overflowed, that the client has all positions from the watermark of the
  subscription to the cursor, that it was told of the cursor's position, and that
  it has all a page it asked for builds on (else `advance` could jump over a hole).
  `Told` is about a listener and what the process has observed: a client whose
  cursor is active was told; between the read and the activation the page or a
  buffered notification will tell it. Without the second half `Informed` is not
  inductive: a notification that arrives in that window is not yet known to the
  client, and `observeHead` will not let the poll repeat it. The lemmas say what
  each function of the cursor does to a record (`SendRecord`, `FlushRecord`,
  `AcceptRecord`, `ReplayRecord`, ...), so that an action needs one of them and
  `SocketStep`. `ReachEnds` (the end of what is contiguous exists) rests on
  `LeastNumber`, which is proved by counting, as induction is not available.
  `NobodyIsAhead` adds that nothing a socket holds, was told of or waits for lies
  beyond the head (`Within`). `ClientsGetCommittedRows` joins the two specifications,
  `Spec /\ FeedSpec`, over the head they share: with `NoGap` every position a client
  has received is that of exactly one event `acceptMessage` committed.
* `RealtimeGatewayProofs`. `IInv` is `TypeOK`, `RegistryExact`, `ContextsInv` (a
  registered socket was accepted from a source, finitely many are, and none once the
  drain has ended) and
  `SocketInv`, which ties what a suspended command holds to the socket: which
  principal it waits for, and that a revalidation that is due or under way bounds
  how long the session can have been revoked. `DrainIsFinal` and
  `RevocationsBite` (an action property) follow from it.
* `MeetingCommandsProofs`. `IInv` has a part per call, `CallInv`: what it asked for,
  which locks it holds at each statement, that a meeting and an invitation it has
  locked and found open stay open until its commit, and what its snapshot tells it
  about the command row. `TableInv` is about the committed rows. The lock is what
  makes the reading valid: without the `OpenInv` part a join could commit into a
  meeting closed after its check. `LocksAreOrdered` (a create's two
  secrets are one token, so an order between them is not seen) and `ClosedStaysClosed`
  (an action property, of ended meetings and revoked invitations; the clock may pass
  an expiry between the check and the COMMIT) come from the same invariant.
* `ProcessProofs`. `SlotsInv` is `SlotsExact` with the queue's distinctness stated of
  its places, which is what appending and taking the head preserve; `QueueCounts`
  turns it back into cardinalities. `HealthInv` says that a connection that is up is
  registered, that from `listen` to the signal all are up, that the process is ready
  only in between, and that a running probe was started then: only so does a report
  built after the shutdown has emptied the registry still rest on every probe.
  For migrations, `RunnerInv` says of each process that it holds the advisory lock
  from verify to commit, so what it verified and loaded is still so, that its open
  transaction is one of a file without a row, and that its success stays true;
  with `AppliedOnce` this is inductive.
* `SfuAdmissionProofs`. `IInv` adds to the checked invariants: `LockedIsActive`
  (a prepare that holds the rows holds an active session, since a revocation
  needs them), `SweptIsRevoked`, `FinalizerHasRow` (the row locked by finalize is
  still the call's own requested row), `RowsPast`, and `Backed` (a released token
  has an issued or invalidated row unless that row is past retention). Without
  `LockedIsActive` a prepare could reserve a row after the sweep, so
  `RevokedStaysOut` is not inductive alone. Results: `TypeCorrect`,
  `RevocationHolds`, `CommandsIdempotent`, `ReleasesAudited`,
  `ConcurrentChangeWins` and, about the audit table, `AuditGoesForward`, `LockedRowIsKept`
  and `ReleasesIssue` (action properties). These need `FinalizerHasRow` and the lock
  part of `TypeOK`: a reservation never meets a locked row, since the holder's row is
  there.
* `RealtimeTicketsProofs`. `IInv` adds `HeldDelivered` (a ticket that a connection holds
  was delivered, so its request is over and writes nothing more), `RowsExist` (a request past `record`
  has its row), `WaitingActive` (a revalidation that saw no change while it
  waited waits for an active session) and `RequestTimes`. Steps fall into three
  kinds (issue, consume, quiet) and each conjunct is proved once per kind.
  Results: `TypeCorrect`, `SingleConsumer`, `ConsumptionRecorded`,
  `UseIsAudited`, `RevocationRespected`, `LifetimesNested`.
* `PresenceProofs`. `StoreInv` is about the three keys, `ShownInv` ties the last
  snapshot to the store (while the revision is the one it showed, it was taken of every
  connection that is fresh now and of none that is no longer stored; whether
  it is truncated, and whom it names if not, depend on that set alone, which
  `AnswerShows` proves of LIMIT and slice together). Every script keeps
  `StoreInv` and `Follows` (the revision grows, or the connections are the same),
  so gateway steps only need these two facts.
  Results: `TypeCorrect`, `IndexesAgree`, `RevisionKeyLives`, `RevisionsIdentify`
  (an action property).

Seven components are shown to implement an abstract specification, which says what
they promise without the mechanism. Each proof maps the state, proves that the initial
states map to initial ones and that every step maps to a step or a stutter, from the
inductive invariant above and, where named, a further one:

| Abstract | Mapping | Beyond `IInv` |
|---|---|---|
| `AtLeastOnce` | `state` of the rows; `reached`: rows with a copy in Redis | |
| `MessageLog` | `log[p]`: the one event at position `p`; `kept`: positions of stored rows; `told`: acks | `RowsApart`: stored rows have different positions, so a row deleted is one place forgotten |
| `CommandLedger` | `effect`: the committed command row; `uses`: `use_count` | |
| `SchemaHistory` | identity; lock, sessions and transactions are hidden | `OneFile`: a transaction applies one file, the lowest without a row |
| `OneTimeTicket` | `life` from Redis, audit row, request and connection together; `used`: rows that say consumed | `OnceInv`: nothing exists before its attempt, and a recorded use leaves neither a stored secret nor another holder |
| `PresenceRoll` | `present`: a member of the sorted set; `gone`: not a member although `authenticate` has passed its `open` | `RollInv`: members have passed `open`, and who waits for the subscription is authenticated |
| `ConnectionQuota` | `members`: `contexts`; `home` and `holder` from the sockets; the counters are hidden | |

The refinement of `AtLeastOnce` is also a property of the run `outbox`. The others are
proved only; what is interesting in them is where an abstract step is one transaction
or one script of several that race: the COMMIT of `accept` is the append (a replay that
commits nothing is `Repeat`), the COMMIT of a join is the effect and the invitation's
use together, the grant of the row lock is not visible at all. For presence the point
is that `open` may be issued after the socket's cleanup, by a subscription that answers
late: such a connection is present once and late, and no heartbeat brings it back after
it was purged.

Only model-checked: liveness (fairness and ENABLED are beyond the prover),
the permission table of `SfuPolicy` (finite, so TLC's evaluation is exhaustive) and
`ReplayIsInOrder` (the loop of `activate` is a fold over the buffer, and what a
recursive definition computes for every input needs induction over data).

Only proved, with no run of their own: `NeverFalseSuccess`, `RetriesNeverCollide`,
`CursorsAdvance`, `ReleasesAudited`, `ConsumptionRecorded`, `LifetimesNested`,
`IndexesAgree`, `CommandRowsAreFinal`, `RunsExclude`, `HistoryIsAppendOnly`,
`NobodyWaitsOnClosed`, `NobodyIsAhead`, `ClientsGetCommittedRows`, `AuditGoesForward`,
`LockedRowIsKept`, `ReleasesIssue`, the refinements of `MessageLog`, `CommandLedger`,
`SchemaHistory`, `OneTimeTicket`, `PresenceRoll` and `ConnectionQuota`, and the type
invariants of all modules but `ChatDelivery`.
Every other safety property and every action property of a passing run is stated by
a theorem; `PROJECT.json` pairs them.

## 6. Not modelled

Configuration loading, contracts, logging and metrics keep no state that the
rest depends on. HTTP controllers, schemas and DTOs validate and forward.
Cryptography (HMAC keyring, JWT encoding, key service client) is reduced to
succeeding or failing. Components listed as `not_modelled` in `PROJECT.json`
say why. The rate limiters are counters in Redis, one script each, with a local
bucket when Redis fails; all the rest sees of them is a refusal before anything
changed, which every model allows at any step, and their arithmetic on
milliseconds is outside what TLC explores well. Reconnection of the Redis clients
and the reuse of pooled PostgreSQL clients belong to the libraries.

## 7. Plan

Every component with a protocol of its own is modelled, every safety property of the
passing runs but `ReplayIsInOrder` is proved, and the components with a promise that
can be said without their mechanism are shown to implement it. What could follow:

1. An abstract specification of live delivery (`ChatDelivery`), composed with
   `MessageLog`: what a client has received is a part of the log without a hole.
2. Joint theorems for other parts that share state, such as the sessions that
   `RealtimeTickets` and `SfuAdmission` both revoke.
3. The modules the repository plans (revocation, end of a meeting, device epochs) in
   place of the external actions `Change`, `Close` and `Enrol`, once they are written.
