------------------------------- MODULE Outbox --------------------------------
(***************************************************************************)
(* The lease-based transactional outbox: the rows of outbox_events that    *)
(* are destined to redis_realtime, the realtime processes that insert them *)
(* and try the post-commit fast path, and the relay workers that claim,    *)
(* publish and acknowledge them.                                           *)
(*                                                                         *)
(* Time is abstracted to the events the SQL predicates can tell apart: a   *)
(* row's lease is live or has run out (locked_until >= clock_timestamp()), *)
(* its backoff is running or has elapsed (available_at).                   *)
(*                                                                         *)
(* A task is one execution of publishOne or publishFastPath for one claim, *)
(* identified by owner, delivery and the attempt number the claim got.     *)
(***************************************************************************)
EXTENDS Naturals, FiniteSets

CONSTANTS Deliveries,      \* rows that may be inserted
          Workers,         \* relay processes, by worker identifier
          Realtimes,       \* realtime processes, by fast-path owner identifier
          Gone,            \* the identifier of a process that no longer exists
          NoOwner,         \* SQL NULL in locked_by
          BatchSize,       \* config.outbox.batchSize
          Concurrency,     \* config.outbox.concurrency
          MaxAttempts,     \* config.outbox.maxAttempts
          MaxDisruptions   \* bound: crashes, drains, lost replies, overrun leases

Owners == Workers \cup Realtimes

ASSUME OutboxAssumption ==
    /\ BatchSize \in Nat \ {0}
    /\ Concurrency \in Nat \ {0}
    /\ MaxAttempts \in Nat \ {0}
    /\ MaxDisruptions \in Nat
    /\ Workers \cap Realtimes = {}
    /\ Gone \notin Owners
    /\ NoOwner \notin Owners \cup {Gone}

VARIABLES state,        \* "absent", "pending", "published" or "dead"
          attempts,     \* the attempts column
          lockedBy,     \* the locked_by column
          leased,       \* rows with locked_until >= clock_timestamp()
          backoff,      \* rows with available_at > clock_timestamp()
          copies,       \* number of SPUBLISH of the row that Redis executed
          tasks,        \* claims the processes are working on
          draining,     \* workers whose shutdown signal is aborted
          disruptions   \* how much of MaxDisruptions is used

rowVars == <<state, attempts, lockedBy, leased, backoff>>
vars == <<rowVars, copies, tasks, draining, disruptions>>

States == {"absent", "pending", "published", "dead"}

(***************************************************************************)
(* "queued": claimed, its window has not started;  "sending": SPUBLISH in  *)
(* flight;  "arrived": Redis executed it, the reply is on its way;         *)
(* "ack": markPublished comes next;  "fail" and "refuse": markFailed comes *)
(* next, after an SPUBLISH was issued or with none issued at all.          *)
(***************************************************************************)
Stages == {"queued", "sending", "arrived", "ack", "fail", "refuse"}

\* "awaited": the worker's runOnce waits for it;  "detached": nobody does.
Modes == {"awaited", "detached"}

Task == [own : Owners, d : Deliveries, att : Nat, pc : Stages, mode : Modes]

(***************************************************************************)
(* The types of the columns and of the tasks.  The bound on leased is the  *)
(* CHECK constraint of outbox_events: a row without locked_by has no       *)
(* locked_until either, or markPublished and markFailed would raise.       *)
(***************************************************************************)
TypeOK ==
    /\ state \in [Deliveries -> States]
    /\ attempts \in [Deliveries -> Nat]
    /\ lockedBy \in [Deliveries -> Owners \cup {Gone, NoOwner}]
    /\ leased \subseteq {d \in Deliveries : lockedBy[d] # NoOwner}
    /\ backoff \subseteq Deliveries
    /\ copies \in [Deliveries -> Nat]
    /\ tasks \subseteq Task
    /\ draining \subseteq Workers
    /\ disruptions \in 0..MaxDisruptions

Init ==
    /\ state = [d \in Deliveries |-> "absent"]
    /\ attempts = [d \in Deliveries |-> 0]
    /\ lockedBy = [d \in Deliveries |-> NoOwner]
    /\ leased = {}
    /\ backoff = {}
    /\ copies = [d \in Deliveries |-> 0]
    /\ tasks = {}
    /\ draining = {}
    /\ disruptions = 0
-----------------------------------------------------------------------------
\* What a fault costs: the bound keeps the state space finite.
Disrupt == /\ disruptions < MaxDisruptions
           /\ disruptions' = disruptions + 1

Awaited(w) == {t \in tasks : t.own = w /\ t.mode = "awaited"}
Queued(w) == {t \in Awaited(w) : t.pc = "queued"}

\* The process moves on with task t.
Advance(t, pc) == tasks' = (tasks \ {t}) \cup {[t EXCEPT !.pc = pc]}
Finish(t) == tasks' = tasks \ {t}

(***************************************************************************)
(* publishOne of an awaited task throws: Promise.all rejects at once, so   *)
(* runOnce drops the windows it has not started and poll schedules the     *)
(* next cycle, while the sibling publications of the window go on with     *)
(* nobody waiting for them.  A rejection after that changes nothing more.  *)
(***************************************************************************)
Reject(t) ==
    tasks' =
      LET others == tasks \ {t}
          cycle  == {u \in others : u.own = t.own /\ u.mode = "awaited"}
      IN  IF t.mode = "detached" THEN others
          ELSE (others \ cycle)
               \cup {[u EXCEPT !.mode = "detached"] :
                        u \in {v \in cycle : v.pc # "queued"}}
-----------------------------------------------------------------------------
\* Faulty variant: the row is inserted with the column default attempts = 0.
InsertOutboxUncounted(r, d) ==
    /\ state[d] = "absent"
    /\ state' = [state EXCEPT ![d] = "pending"]
    /\ lockedBy' = [lockedBy EXCEPT ![d] = r]
    /\ leased' = leased \cup {d}
    /\ tasks' = tasks \cup {[own |-> r, d |-> d, att |-> 0,
                              pc |-> "sending", mode |-> "detached"]}
    /\ UNCHANGED <<attempts, backoff, copies, draining, disruptions>>

(***************************************************************************)
(* PostgresChatRepository.insertOutbox: the row is born leased to the      *)
(* process that commits it, which then starts publishFastPath, unless the  *)
(* reply to COMMIT never came back.                                        *)
(***************************************************************************)
InsertOutbox(r, d) ==
    /\ state[d] = "absent"
    /\ state' = [state EXCEPT ![d] = "pending"]
    /\ attempts' = [attempts EXCEPT ![d] = 1]
    /\ lockedBy' = [lockedBy EXCEPT ![d] = r]
    /\ leased' = leased \cup {d}
    /\ \/ /\ tasks' = tasks \cup {[own |-> r, d |-> d, att |-> 1,
                                   pc |-> "sending", mode |-> "detached"]}
          /\ UNCHANGED disruptions
       \/ /\ Disrupt
          /\ UNCHANGED tasks
    /\ UNCHANGED <<backoff, copies, draining>>

\* Faulty variant: only unlocked rows are taken.
ClaimableUnlocked(d) ==
    state[d] = "pending" /\ d \notin backoff /\ lockedBy[d] = NoOwner

\* The WHERE clause of claimBatch.
Claimable(d) ==
    /\ state[d] = "pending"
    /\ d \notin backoff
    /\ d \notin leased

(***************************************************************************)
(* claimBatch: one transaction leases up to BatchSize claimable rows.      *)
(* FOR UPDATE SKIP LOCKED passes over rows another transaction holds, so   *)
(* any of the claimable rows may be left out.                              *)
(***************************************************************************)
LeaseRows(w, S) ==
    /\ S # {}
    /\ Cardinality(S) <= BatchSize
    /\ attempts' = [d \in Deliveries |->
                      IF d \in S THEN attempts[d] + 1 ELSE attempts[d]]
    /\ lockedBy' = [d \in Deliveries |-> IF d \in S THEN w ELSE lockedBy[d]]
    /\ leased' = leased \cup S
    /\ UNCHANGED <<state, backoff>>

(***************************************************************************)
(* poll and runOnce up to the claim.  The worker polls again when nothing  *)
(* is awaited, whatever detached publications it still has; an aborted     *)
(* worker claims nothing.  A lost reply leaves the rows leased, unworked.  *)
(***************************************************************************)
Claim(w) ==
    /\ w \notin draining
    /\ Awaited(w) = {}
    /\ \E S \in SUBSET {d \in Deliveries : Claimable(d)} :
         /\ LeaseRows(w, S)
         /\ \/ /\ tasks' = tasks \cup {[own |-> w, d |-> d, att |-> attempts[d] + 1,
                                        pc |-> "queued", mode |-> "awaited"] : d \in S}
               /\ UNCHANGED disruptions
            \/ /\ Disrupt
               /\ UNCHANGED tasks
    /\ UNCHANGED <<copies, draining>>

(***************************************************************************)
(* runOnce starts its next window once the previous one is over.  Up to    *)
(* the first await each publishOne only looks at its signal: an aborted    *)
(* worker refuses the delivery without sending anything.                   *)
(***************************************************************************)
StartWindow(w) ==
    /\ Awaited(w) = Queued(w)
    /\ \E W \in SUBSET Queued(w) :
         /\ W # {}
         /\ Cardinality(W) <= Concurrency
         /\ Cardinality(W) < Concurrency => W = Queued(w)
         /\ tasks' = (tasks \ W) \cup
              {[t EXCEPT !.pc = IF w \in draining THEN "refuse" ELSE "sending"] :
                 t \in W}
    /\ UNCHANGED <<rowVars, copies, draining, disruptions>>

\* Redis executes the SPUBLISH of ChatOutboxPublisher.publish.
RedisReceives(t) ==
    /\ t.pc = "sending"
    /\ copies' = [copies EXCEPT ![t.d] = @ + 1]
    /\ Advance(t, "arrived")
    /\ UNCHANGED <<rowVars, draining, disruptions>>

\* Faulty variant: publish does not await sPublish.
PublishNotAwaited(t) ==
    /\ t.pc \in {"sending", "arrived"}
    /\ Advance(t, "ack")
    /\ UNCHANGED <<rowVars, copies, draining, disruptions>>

\* sPublish resolves and the signal is not aborted: publish returns.
PublishSucceeds(t) ==
    /\ t.pc = "arrived"
    /\ t.own \notin draining
    /\ Advance(t, "ack")
    /\ UNCHANGED <<rowVars, copies, draining, disruptions>>

\* sPublish rejects, its effect unknown, or resolves under an aborted signal.
PublishFails(t) ==
    /\ t.pc \in {"sending", "arrived"}
    /\ Advance(t, "fail")
    /\ UNCHANGED <<rowVars, copies, draining, disruptions>>

\* The WHERE clause of markPublished: a live lease of this owner.
AckMatches(t) ==
    /\ state[t.d] = "pending"
    /\ lockedBy[t.d] = t.own
    /\ t.d \in leased

RowPublished(d) ==
    /\ state' = [state EXCEPT ![d] = "published"]
    /\ lockedBy' = [lockedBy EXCEPT ![d] = NoOwner]
    /\ leased' = leased \ {d}
    /\ UNCHANGED <<attempts, backoff>>

\* An ack that throws: the fast path falls into its catch, a cycle rejects.
AckThrows(t) ==
    \/ t.own \in Realtimes /\ Advance(t, "fail")
    \/ t.own \in Workers /\ Reject(t)

\* markPublished, with OUTBOX_LEASE_LOST when no row matches.
MarkPublished(t) ==
    /\ t.pc = "ack"
    /\ \/ AckMatches(t) /\ RowPublished(t.d) /\ Finish(t)
       \/ ~AckMatches(t) /\ UNCHANGED rowVars /\ AckThrows(t)
    /\ UNCHANGED <<copies, draining, disruptions>>

\* The UPDATE of markPublished fails, or commits without its reply.
MarkPublishedUnconfirmed(t) ==
    /\ t.pc = "ack"
    /\ Disrupt
    /\ \/ AckMatches(t) /\ RowPublished(t.d)
       \/ UNCHANGED rowVars
    /\ AckThrows(t)
    /\ UNCHANGED <<copies, draining>>

\* Faulty variant: the owner is not compared.
FailMatchesAnyone(t) == state[t.d] = "pending"

\* The WHERE clause of markFailed: this owner, its lease live or not.
FailMatches(t) ==
    /\ state[t.d] = "pending"
    /\ lockedBy[t.d] = t.own

\* Poison after the attempt limit, otherwise a retry after the backoff.
RowFailed(d) ==
    /\ IF attempts[d] >= MaxAttempts
       THEN state' = [state EXCEPT ![d] = "dead"] /\ UNCHANGED backoff
       ELSE backoff' = backoff \cup {d} /\ UNCHANGED state
    /\ lockedBy' = [lockedBy EXCEPT ![d] = NoOwner]
    /\ leased' = leased \ {d}
    /\ UNCHANGED attempts

\* The fast path swallows every error of markFailed, a cycle rejects.
FailThrows(t) ==
    \/ t.own \in Realtimes /\ Finish(t)
    \/ t.own \in Workers /\ Reject(t)

MarkFailed(t) ==
    /\ t.pc \in {"fail", "refuse"}
    /\ \/ FailMatches(t) /\ RowFailed(t.d) /\ Finish(t)
       \/ ~FailMatches(t) /\ UNCHANGED rowVars /\ FailThrows(t)
    /\ UNCHANGED <<copies, draining, disruptions>>

\* The UPDATE of markFailed fails, or commits without its reply.
MarkFailedUnconfirmed(t) ==
    /\ t.pc \in {"fail", "refuse"}
    /\ Disrupt
    /\ \/ FailMatches(t) /\ RowFailed(t.d)
       \/ UNCHANGED rowVars
    /\ FailThrows(t)
    /\ UNCHANGED <<copies, draining>>
-----------------------------------------------------------------------------
\* Some process still works on the claim that holds the row's lease.
Worked(d) == \E t \in tasks : /\ t.d = d
                              /\ t.att = attempts[d]
                              /\ t.own = lockedBy[d]

\* clock_timestamp() passes locked_until; under a working owner that is a fault.
LeaseExpires(d) ==
    /\ d \in leased
    /\ leased' = leased \ {d}
    /\ \/ Worked(d) /\ Disrupt
       \/ ~Worked(d) /\ UNCHANGED disruptions
    /\ UNCHANGED <<state, attempts, lockedBy, backoff, copies, tasks, draining>>

\* clock_timestamp() reaches available_at.
BackoffElapses(d) ==
    /\ d \in backoff
    /\ backoff' = backoff \ {d}
    /\ UNCHANGED <<state, attempts, lockedBy, leased, copies, tasks, draining,
                   disruptions>>

(***************************************************************************)
(* A process disappears.  Its successor draws a new random identifier, so  *)
(* the rows it held stay locked by an identifier nobody has.               *)
(***************************************************************************)
Vanish(o) ==
    /\ tasks' = {t \in tasks : t.own # o}
    /\ lockedBy' = [d \in Deliveries |->
                      IF lockedBy[d] = o THEN Gone ELSE lockedBy[d]]
    /\ draining' = draining \ {o}
    /\ UNCHANGED <<state, attempts, leased, backoff, copies>>

Crash(o) == Disrupt /\ Vanish(o)

\* OutboxWorker.onModuleDestroy aborts the signal and stops the timer.
Shutdown(w) ==
    /\ w \notin draining
    /\ Disrupt
    /\ draining' = draining \cup {w}
    /\ UNCHANGED <<rowVars, copies, tasks>>

\* It waits for the running cycle, then the process exits and is replaced.
Exit(w) ==
    /\ w \in draining
    /\ Awaited(w) = {}
    /\ Vanish(w)
    /\ UNCHANGED disruptions
-----------------------------------------------------------------------------
TaskStep ==
    \E t \in tasks : \/ RedisReceives(t)
                     \/ PublishSucceeds(t)
                     \/ PublishFails(t)
                     \/ MarkPublished(t)
                     \/ MarkFailed(t)

TaskFault ==
    \E t \in tasks : MarkPublishedUnconfirmed(t) \/ MarkFailedUnconfirmed(t)

WorkerStep == \E w \in Workers : Claim(w) \/ StartWindow(w) \/ Exit(w)

Clock == \E d \in Deliveries : LeaseExpires(d) \/ BackoffElapses(d)

Next ==
    \/ \E r \in Realtimes, d \in Deliveries : InsertOutbox(r, d)
    \/ TaskStep
    \/ TaskFault
    \/ WorkerStep
    \/ Clock
    \/ \E o \in Owners : Crash(o)
    \/ \E w \in Workers : Shutdown(w)

Spec == Init /\ [][Next]_vars

(***************************************************************************)
(* Started calls return (every client call has a timeout), the poll timer  *)
(* fires again, a drained process exits, and time passes: an abandoned     *)
(* lease runs out and a backoff elapses.                                   *)
(***************************************************************************)
Fairness ==
    /\ WF_vars(TaskStep)
    /\ WF_vars(\E w \in Workers : Claim(w))
    /\ WF_vars(\E w \in Workers : StartWindow(w))
    /\ WF_vars(\E w \in Workers : Exit(w))
    /\ WF_vars(\E d \in Deliveries : ~Worked(d) /\ LeaseExpires(d))
    /\ WF_vars(\E d \in Deliveries : BackoffElapses(d))

FairSpec == Spec /\ Fairness
-----------------------------------------------------------------------------
(***************************************************************************)
(* README, "jamais un faux succes": a row is published only if Redis       *)
(* executed at least one SPUBLISH of it, whatever crashed, timed out, lost *)
(* its lease or was acknowledged by a late task.                           *)
(***************************************************************************)
NoFalseSuccess == \A d \in Deliveries : state[d] = "published" => copies[d] >= 1

(***************************************************************************)
(* Duplicates are bounded by the attempts column: every SPUBLISH of a row  *)
(* is backed by a claim of its own that attempts has counted, the born-    *)
(* leased claim of the fast path included.                                 *)
(***************************************************************************)
CopiesBounded == \A d \in Deliveries : copies[d] <= attempts[d]

(***************************************************************************)
(* README, "seul le proprietaire du lease peut marquer": a row stops being *)
(* locked by a process only through an ack or a failure that a task of     *)
(* this very process carries out; another claimer gets the row only when   *)
(* the lease has run out.                                                  *)
(***************************************************************************)
OwnerKeepsRow(d) ==
    \/ lockedBy'[d] = lockedBy[d]
    \/ lockedBy'[d] = NoOwner
          /\ \E t \in tasks \ tasks' : t.d = d /\ t.own = lockedBy[d]
    \/ lockedBy'[d] \in Workers /\ d \notin leased
    \/ lockedBy'[d] = Gone
    \/ lockedBy[d] = NoOwner
    \/ state[d] = "absent"

OnlyOwnerReleases == [][\A d \in Deliveries : OwnerKeepsRow(d)]_vars

\* What the outbox promises, its leases, workers and retries hidden.
Promise == INSTANCE AtLeastOnce
             WITH reached <- {d \in Deliveries : copies[d] > 0}

(***************************************************************************)
(* The lease protocol implements at-least-once delivery: a settled row is  *)
(* final, and published only after a copy of it reached Redis.             *)
(***************************************************************************)
ImplementsAtLeastOnce == Promise!ASpec

(***************************************************************************)
(* Every committed delivery is published or dead in the end, even if the   *)
(* process that committed or claimed it disappears: leases of the missing  *)
(* run out and the attempt budget ends the retries.                        *)
(***************************************************************************)
EventuallySettled == Promise!Settles
=============================================================================
