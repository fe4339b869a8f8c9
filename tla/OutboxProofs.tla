---------------------------- MODULE OutboxProofs -----------------------------
(***************************************************************************)
(* Proofs about Outbox for any number of deliveries, processes, attempts   *)
(* and faults.                                                             *)
(***************************************************************************)
EXTENDS Outbox, FiniteSetTheorems, TLAPS

(***************************************************************************)
(* What a step of task t does to the set of tasks: t leaves it, nothing    *)
(* appears in it but t itself at its new stage or tasks t' of the cycle    *)
(* that only changed their mode.                                           *)
(***************************************************************************)
Moves(t, pcs) ==
    /\ t \notin tasks'
    /\ tasks' \subseteq Task
    /\ \A u \in tasks' :
         \/ \E v \in tasks : v.d = u.d /\ v.own = u.own /\ v.pc = u.pc /\ v.att = u.att
         \/ u.d = t.d /\ u.own = t.own /\ u.att = t.att /\ u.pc \in pcs

\* Advance moves task t to the given stage of publishOne and nothing else.
LEMMA AdvanceMoves ==
    ASSUME tasks \subseteq Task, NEW t \in tasks, NEW pc \in Stages, t.pc # pc,
           Advance(t, pc)
    PROVE  Moves(t, {pc})
<1> DEFINE n == [t EXCEPT !.pc = pc]
<1>1. n \in Task /\ n.d = t.d /\ n.own = t.own /\ n.att = t.att /\ n.pc = pc
  BY DEF Task
<1>2. n # t
  BY <1>1
<1>3. tasks' = (tasks \ {t}) \cup {n}
  BY DEF Advance
<1> QED
  BY <1>1, <1>2, <1>3 DEF Moves

\* Finish ends the execution of publishOne or publishFastPath t.
LEMMA FinishMoves ==
    ASSUME tasks \subseteq Task, NEW t \in tasks, Finish(t)
    PROVE  Moves(t, {})
  BY DEF Finish, Moves

\* Reject drops or detaches tasks of the cycle and never sends anything.
LEMMA RejectMoves ==
    ASSUME tasks \subseteq Task, NEW t \in tasks, Reject(t)
    PROVE  Moves(t, {})
<1> DEFINE others == tasks \ {t}
           cycle  == {u \in others : u.own = t.own /\ u.mode = "awaited"}
           loose  == {[u EXCEPT !.mode = "detached"] :
                         u \in {v \in cycle : v.pc # "queued"}}
<1>1. CASE t.mode = "detached"
  <2>1. tasks' = others
    BY <1>1 DEF Reject
  <2> QED
    BY <2>1 DEF Moves
<1>2. CASE t.mode # "detached"
  <2>1. tasks' = (others \ cycle) \cup loose
    BY <1>2 DEF Reject
  <2>2. \A u \in loose : /\ u \in Task /\ u.mode = "detached"
                         /\ \E v \in tasks : /\ v.d = u.d /\ v.own = u.own
                                             /\ v.pc = u.pc /\ v.att = u.att
    <3> TAKE u \in loose
    <3>1. PICK v \in cycle : u = [v EXCEPT !.mode = "detached"]
      OBVIOUS
    <3> QED
      BY <3>1 DEF Task, Modes
  <2>3. t \notin tasks'
    BY <1>2, <2>1, <2>2
  <2> QED
    BY <2>1, <2>2, <2>3 DEF Moves
<1> QED
  BY <1>1, <1>2

\* An acknowledgement that throws leaves t, at most, on its way to markFailed.
LEMMA AckThrowsMoves ==
    ASSUME tasks \subseteq Task, NEW t \in tasks, t.pc = "ack", AckThrows(t)
    PROVE  Moves(t, {"fail"})
<1>1. CASE Advance(t, "fail")
  BY <1>1, AdvanceMoves DEF Stages
<1>2. CASE Reject(t)
  BY <1>2, RejectMoves DEF Moves
<1> QED
  BY <1>1, <1>2 DEF AckThrows

\* A failure report that throws ends t.
LEMMA FailThrowsMoves ==
    ASSUME tasks \subseteq Task, NEW t \in tasks, FailThrows(t)
    PROVE  Moves(t, {})
  BY FinishMoves, RejectMoves DEF FailThrows
-----------------------------------------------------------------------------
(***************************************************************************)
(* The inductive invariant.  NoFalseSuccess alone is not inductive: it     *)
(* needs that a task which is about to acknowledge has its copy in Redis,  *)
(* and the refinement that no task works on a row that was never inserted. *)
(***************************************************************************)
Recorded == \A t \in tasks : state[t.d] # "absent"

Sent == \A t \in tasks : t.pc \in {"arrived", "ack"} => copies[t.d] >= 1

RowTypes ==
    /\ state \in [Deliveries -> States]
    /\ attempts \in [Deliveries -> Nat]
    /\ lockedBy \in [Deliveries -> Owners \cup {Gone, NoOwner}]
    /\ leased \subseteq {d \in Deliveries : lockedBy[d] # NoOwner}
    /\ backoff \subseteq Deliveries

IInv == TypeOK /\ Recorded /\ Sent /\ NoFalseSuccess

\* The effect of a task step on rows and copies that keeps IInv.
Harmless(t, pcs) ==
    /\ RowTypes'
    /\ copies' \in [Deliveries -> Nat]
    /\ \A d \in Deliveries : copies'[d] >= copies[d]
    /\ \A d \in Deliveries : state[d] # "absent" => state'[d] # "absent"
    /\ pcs \cap {"arrived", "ack"} # {} => copies'[t.d] >= 1

\* A task step that only moves tasks and touches rows harmlessly keeps the tasks sound.
LEMMA TaskStepKeeps ==
    ASSUME IInv, NEW t \in tasks, NEW pcs, Moves(t, pcs), Harmless(t, pcs)
    PROVE  Recorded' /\ Sent'
<1>1. SUFFICES ASSUME NEW u \in tasks'
               PROVE  /\ state'[u.d] # "absent"
                      /\ u.pc \in {"arrived", "ack"} => copies'[u.d] >= 1
  BY DEF Recorded, Sent
<1>2. t \in Task /\ u \in Task /\ tasks \subseteq Task
  BY DEF IInv, TypeOK, Moves
<1>3. t.d \in Deliveries /\ u.d \in Deliveries
  BY <1>2 DEF Task
<1>4. copies \in [Deliveries -> Nat] /\ copies' \in [Deliveries -> Nat]
  BY DEF IInv, TypeOK, Harmless
<1>5. CASE \E v \in tasks : v.d = u.d /\ v.own = u.own /\ v.pc = u.pc /\ v.att = u.att
  <2>1. PICK v \in tasks : v.d = u.d /\ v.pc = u.pc
    BY <1>5
  <2>2. state[u.d] # "absent" /\ (u.pc \in {"arrived", "ack"} => copies[u.d] >= 1)
    BY <2>1 DEF IInv, Recorded, Sent
  <2> QED
    BY <2>2, <1>3, <1>4 DEF Harmless
<1>6. CASE u.d = t.d /\ u.pc \in pcs
  <2>1. state[t.d] # "absent"
    BY DEF IInv, Recorded
  <2> QED
    BY <1>6, <2>1, <1>3 DEF Harmless
<1> QED
  BY <1>5, <1>6 DEF Moves

\* The UPDATE of markPublished keeps the columns in their types.
LEMMA RowPublishedTypes ==
    ASSUME TypeOK, NEW d \in Deliveries, RowPublished(d)
    PROVE  /\ RowTypes'
           /\ \A e \in Deliveries : state[e] # "absent" => state'[e] # "absent"
           /\ \A e \in Deliveries : state'[e] = "published" => e = d \/ state[e] = "published"
  BY DEF TypeOK, RowTypes, RowPublished, States

\* The UPDATE of markFailed keeps the columns in their types and publishes nothing.
LEMMA RowFailedTypes ==
    ASSUME TypeOK, NEW d \in Deliveries, RowFailed(d), state[d] = "pending"
    PROVE  /\ RowTypes'
           /\ \A e \in Deliveries : state[e] # "absent" => state'[e] # "absent"
           /\ \A e \in Deliveries : state'[e] = "published" => state[e] = "published"
<1>1. CASE attempts[d] >= MaxAttempts
  BY <1>1 DEF TypeOK, RowTypes, RowFailed, States
<1>2. CASE ~(attempts[d] >= MaxAttempts)
  BY <1>2 DEF TypeOK, RowTypes, RowFailed, States
<1> QED
  BY <1>1, <1>2

\* A statement that matches no row changes none.
LEMMA RowsUnchangedTypes ==
    ASSUME TypeOK, UNCHANGED rowVars
    PROVE  /\ RowTypes' /\ state' = state /\ lockedBy' = lockedBy
           /\ attempts' = attempts /\ leased' = leased /\ backoff' = backoff
  BY DEF TypeOK, RowTypes, rowVars

\* The invariant after a task step, put together from its parts.
LEMMA AssembleInv ==
    ASSUME IInv, NEW t \in tasks, NEW pcs, Moves(t, pcs), Harmless(t, pcs),
           \A d \in Deliveries :
              state'[d] = "published" => state[d] = "published" \/ copies'[d] >= 1,
           draining' = draining, disruptions' \in 0..MaxDisruptions
    PROVE  IInv'
<1>1. Recorded' /\ Sent'
  BY TaskStepKeeps
<1>2. TypeOK'
  BY DEF IInv, TypeOK, RowTypes, Harmless, Moves
<1>3. NoFalseSuccess'
  <2>1. copies \in [Deliveries -> Nat] /\ copies' \in [Deliveries -> Nat]
    BY DEF IInv, TypeOK, Harmless
  <2> QED
    BY <2>1 DEF IInv, NoFalseSuccess, Harmless
<1> QED
  BY <1>1, <1>2, <1>3 DEF IInv

\* A fault spends one unit of the bound.
LEMMA DisruptBound ==
    ASSUME disruptions \in 0..MaxDisruptions, Disrupt
    PROVE  disruptions' \in 0..MaxDisruptions
  BY OutboxAssumption DEF Disrupt
-----------------------------------------------------------------------------
\* Redis executes the SPUBLISH of a task.
LEMMA RedisReceivesInv ==
    ASSUME IInv, NEW t \in tasks, RedisReceives(t)
    PROVE  IInv'
<1>1. t \in Task /\ t.d \in Deliveries /\ tasks \subseteq Task
  BY DEF IInv, TypeOK, Task
<1>2. Moves(t, {"arrived"})
  BY <1>1, AdvanceMoves DEF RedisReceives, Stages
<1>3. RowTypes' /\ state' = state
  BY RowsUnchangedTypes DEF RedisReceives, IInv
<1>4. /\ copies' \in [Deliveries -> Nat]
      /\ \A d \in Deliveries : copies'[d] >= copies[d]
      /\ copies'[t.d] >= 1
  BY <1>1 DEF RedisReceives, IInv, TypeOK
<1>5. Harmless(t, {"arrived"})
  BY <1>3, <1>4 DEF Harmless
<1>6. draining' = draining /\ disruptions' \in 0..MaxDisruptions
  BY DEF RedisReceives, IInv, TypeOK
<1> QED
  BY <1>2, <1>3, <1>5, <1>6, AssembleInv

\* publish returns or throws: no row changes, and an ack needs an arrived copy.
LEMMA PublishInv ==
    ASSUME IInv, NEW t \in tasks, PublishSucceeds(t) \/ PublishFails(t)
    PROVE  IInv'
<1>1. t \in Task /\ t.d \in Deliveries /\ tasks \subseteq Task
  BY DEF IInv, TypeOK, Task
<1>2. RowTypes' /\ state' = state /\ copies' = copies /\ draining' = draining
      /\ disruptions' \in 0..MaxDisruptions /\ copies \in [Deliveries -> Nat]
  BY RowsUnchangedTypes DEF PublishSucceeds, PublishFails, IInv, TypeOK
<1>3. CASE PublishSucceeds(t)
  <2>1. Moves(t, {"ack"})
    BY <1>1, <1>3, AdvanceMoves DEF PublishSucceeds, Stages
  <2>2. copies[t.d] >= 1
    BY <1>3 DEF PublishSucceeds, IInv, Sent
  <2>3. Harmless(t, {"ack"})
    BY <1>2, <2>2 DEF Harmless
  <2> QED
    BY <1>2, <2>1, <2>3, AssembleInv
<1>4. CASE PublishFails(t)
  <2>1. Moves(t, {"fail"})
    BY <1>1, <1>4, AdvanceMoves DEF PublishFails, Stages
  <2>2. Harmless(t, {"fail"})
    BY <1>2 DEF Harmless
  <2> QED
    BY <1>2, <2>1, <2>2, AssembleInv
<1> QED
  BY <1>3, <1>4

(***************************************************************************)
(* markPublished, answered or not: whichever task ends it, the row it      *)
(* publishes has its copy, because the task stands at "ack".               *)
(***************************************************************************)
LEMMA MarkPublishedInv ==
    ASSUME IInv, NEW t \in tasks, MarkPublished(t) \/ MarkPublishedUnconfirmed(t)
    PROVE  IInv'
<1>1. t \in Task /\ t.d \in Deliveries /\ tasks \subseteq Task /\ TypeOK
  BY DEF IInv, TypeOK, Task
<1>2. copies' = copies /\ draining' = draining /\ copies \in [Deliveries -> Nat]
  BY <1>1 DEF MarkPublished, MarkPublishedUnconfirmed, TypeOK
<1>3. disruptions' \in 0..MaxDisruptions
  BY <1>1, DisruptBound DEF MarkPublished, MarkPublishedUnconfirmed, TypeOK
<1>4. copies[t.d] >= 1 /\ t.pc = "ack"
  BY DEF MarkPublished, MarkPublishedUnconfirmed, IInv, Sent
<1>5. Moves(t, {"fail"})
  <2>1. CASE Finish(t)
    BY <1>1, <2>1, FinishMoves DEF Moves
  <2>2. CASE AckThrows(t)
    BY <1>1, <1>4, <2>2, AckThrowsMoves
  <2> QED
    BY <2>1, <2>2 DEF MarkPublished, MarkPublishedUnconfirmed
<1>6. /\ RowTypes'
      /\ \A e \in Deliveries : state[e] # "absent" => state'[e] # "absent"
      /\ \A e \in Deliveries : state'[e] = "published" => e = t.d \/ state[e] = "published"
  <2>1. CASE RowPublished(t.d)
    BY <1>1, <2>1, RowPublishedTypes
  <2>2. CASE UNCHANGED rowVars
    BY <1>1, <2>2, RowsUnchangedTypes
  <2> QED
    BY <2>1, <2>2 DEF MarkPublished, MarkPublishedUnconfirmed
<1>7. Harmless(t, {"fail"})
  BY <1>2, <1>6 DEF Harmless
<1> QED
  BY <1>2, <1>3, <1>4, <1>5, <1>6, <1>7, AssembleInv

\* markFailed, answered or not, publishes nothing.
LEMMA MarkFailedInv ==
    ASSUME IInv, NEW t \in tasks, MarkFailed(t) \/ MarkFailedUnconfirmed(t)
    PROVE  IInv'
<1>1. t \in Task /\ t.d \in Deliveries /\ tasks \subseteq Task /\ TypeOK
  BY DEF IInv, TypeOK, Task
<1>2. copies' = copies /\ draining' = draining /\ copies \in [Deliveries -> Nat]
  BY <1>1 DEF MarkFailed, MarkFailedUnconfirmed, TypeOK
<1>3. disruptions' \in 0..MaxDisruptions
  BY <1>1, DisruptBound DEF MarkFailed, MarkFailedUnconfirmed, TypeOK
<1>4. Moves(t, {})
  BY <1>1, FinishMoves, FailThrowsMoves DEF MarkFailed, MarkFailedUnconfirmed
<1>5. /\ RowTypes'
      /\ \A e \in Deliveries : state[e] # "absent" => state'[e] # "absent"
      /\ \A e \in Deliveries : state'[e] = "published" => state[e] = "published"
  <2>1. CASE FailMatches(t) /\ RowFailed(t.d)
    BY <1>1, <2>1, RowFailedTypes DEF FailMatches
  <2>2. CASE UNCHANGED rowVars
    BY <1>1, <2>2, RowsUnchangedTypes
  <2> QED
    BY <2>1, <2>2 DEF MarkFailed, MarkFailedUnconfirmed
<1>6. Harmless(t, {})
  BY <1>2, <1>5 DEF Harmless
<1> QED
  BY <1>2, <1>3, <1>4, <1>5, <1>6, AssembleInv

\* The transaction that inserts a row starts at most one task, which has sent nothing.
LEMMA InsertOutboxInv ==
    ASSUME IInv, NEW r \in Realtimes, NEW d \in Deliveries, InsertOutbox(r, d)
    PROVE  IInv'
<1> DEFINE n == [own |-> r, d |-> d, att |-> 1, pc |-> "sending", mode |-> "detached"]
<1>1. n \in Task /\ n.pc = "sending" /\ n.d = d
  BY DEF Task, Stages, Modes, Owners
<1>2. tasks' \subseteq tasks \cup {n}
  BY DEF InsertOutbox
<1>3. disruptions' \in 0..MaxDisruptions
  BY DisruptBound DEF InsertOutbox, IInv, TypeOK
<1>4. RowTypes'
  BY OutboxAssumption DEF InsertOutbox, IInv, TypeOK, RowTypes, States, Owners
<1>5. TypeOK'
  BY <1>1, <1>2, <1>3, <1>4 DEF InsertOutbox, IInv, TypeOK, RowTypes
<1>6. \A u \in tasks : u.d \in Deliveries
  BY DEF IInv, TypeOK, Task
<1>7. Recorded'
  BY <1>1, <1>2, <1>6 DEF InsertOutbox, IInv, TypeOK, Recorded
<1>8. Sent' /\ NoFalseSuccess'
  BY <1>1, <1>2 DEF InsertOutbox, IInv, TypeOK, Sent, NoFalseSuccess
<1> QED
  BY <1>5, <1>7, <1>8 DEF IInv

\* claimBatch starts tasks that have sent nothing, for rows that are pending.
LEMMA ClaimInv ==
    ASSUME IInv, NEW w \in Workers, Claim(w)
    PROVE  IInv'
<1>1. PICK S \in SUBSET {d \in Deliveries : Claimable(d)} :
         /\ LeaseRows(w, S)
         /\ \/ /\ tasks' = tasks \cup {[own |-> w, d |-> d, att |-> attempts[d] + 1,
                                        pc |-> "queued", mode |-> "awaited"] : d \in S}
               /\ UNCHANGED disruptions
            \/ /\ Disrupt
               /\ UNCHANGED tasks
  BY DEF Claim
<1> DEFINE new == {[own |-> w, d |-> d, att |-> attempts[d] + 1,
                    pc |-> "queued", mode |-> "awaited"] : d \in S}
<1>2. \A u \in new : /\ u \in Task /\ u.pc = "queued" /\ state[u.d] # "absent"
  BY DEF Task, Stages, Modes, Owners, Claimable, IInv, TypeOK
<1>3. tasks' \subseteq tasks \cup new
  BY <1>1
<1>4. disruptions' \in 0..MaxDisruptions
  BY <1>1, DisruptBound DEF IInv, TypeOK
<1>5. /\ attempts' \in [Deliveries -> Nat]
      /\ lockedBy' \in [Deliveries -> Owners \cup {Gone, NoOwner}]
      /\ state' = state /\ backoff' = backoff
  BY <1>1 DEF LeaseRows, IInv, TypeOK, Owners
<1>6. leased' \subseteq {d \in Deliveries : lockedBy'[d] # NoOwner}
  BY <1>1, OutboxAssumption DEF LeaseRows, IInv, TypeOK, Owners
<1>7. copies' = copies /\ draining' = draining
  BY DEF Claim
<1>8. TypeOK'
  BY <1>2, <1>3, <1>4, <1>5, <1>6, <1>7 DEF IInv, TypeOK
<1>9. Recorded' /\ Sent' /\ NoFalseSuccess'
  BY <1>2, <1>3, <1>5, <1>7 DEF IInv, Recorded, Sent, NoFalseSuccess
<1> QED
  BY <1>8, <1>9 DEF IInv

\* A window moves queued tasks to the send or to the refusal.
LEMMA StartWindowInv ==
    ASSUME IInv, NEW w \in Workers, StartWindow(w)
    PROVE  IInv'
<1>1. PICK W \in SUBSET Queued(w) :
         tasks' = (tasks \ W) \cup
              {[t EXCEPT !.pc = IF w \in draining THEN "refuse" ELSE "sending"] : t \in W}
  BY DEF StartWindow
<1> DEFINE to == IF w \in draining THEN "refuse" ELSE "sending"
           new == {[t EXCEPT !.pc = to] : t \in W}
<1>2. W \subseteq tasks /\ tasks \subseteq Task /\ to \in {"refuse", "sending"}
  BY DEF Queued, Awaited, IInv, TypeOK
<1>3. \A u \in new : u \in Task /\ u.pc \in {"refuse", "sending"} /\ state[u.d] # "absent"
  <2> TAKE u \in new
  <2>1. PICK t \in W : u = [t EXCEPT !.pc = to]
    OBVIOUS
  <2>2. t \in Task /\ state[t.d] # "absent"
    BY <1>2 DEF IInv, Recorded
  <2> HIDE DEF to
  <2> QED
    BY <1>2, <2>1, <2>2 DEF Task, Stages
<1>4. tasks' = (tasks \ W) \cup new
  BY <1>1
<1> HIDE DEF new
<1>5. UNCHANGED <<rowVars, copies, draining, disruptions>>
  BY DEF StartWindow
<1>6. TypeOK'
  BY <1>2, <1>3, <1>4, <1>5 DEF IInv, TypeOK, rowVars
<1>7. Recorded' /\ Sent' /\ NoFalseSuccess'
  BY <1>3, <1>4, <1>5 DEF IInv, Recorded, Sent, NoFalseSuccess, rowVars
<1> QED
  BY <1>6, <1>7 DEF IInv

\* Time, crashes, drains and exits remove tasks and leases and settle nothing.
LEMMA EnvironmentInv ==
    ASSUME IInv,
           \/ \E d \in Deliveries : LeaseExpires(d) \/ BackoffElapses(d)
           \/ \E o \in Owners : Vanish(o) /\ (Disrupt \/ UNCHANGED disruptions)
           \/ \E w \in Workers : Shutdown(w)
    PROVE  IInv'
<1>1. CASE \E d \in Deliveries : LeaseExpires(d) \/ BackoffElapses(d)
  <2>1. disruptions' \in 0..MaxDisruptions
    BY <1>1, DisruptBound DEF LeaseExpires, BackoffElapses, IInv, TypeOK
  <2> QED
    BY <1>1, <2>1 DEF LeaseExpires, BackoffElapses, IInv, TypeOK, Recorded, Sent, NoFalseSuccess
<1>2. CASE \E o \in Owners : Vanish(o) /\ (Disrupt \/ UNCHANGED disruptions)
  <2>1. disruptions' \in 0..MaxDisruptions
    BY <1>2, DisruptBound DEF IInv, TypeOK
  <2>2. PICK o \in Owners : Vanish(o)
    BY <1>2
  <2>3. leased' \subseteq {d \in Deliveries : lockedBy'[d] # NoOwner}
    BY <2>2, OutboxAssumption DEF Vanish, IInv, TypeOK
  <2>4. TypeOK'
    BY <2>1, <2>2, <2>3 DEF Vanish, IInv, TypeOK
  <2>5. Recorded' /\ Sent' /\ NoFalseSuccess'
    BY <2>2 DEF Vanish, IInv, Recorded, Sent, NoFalseSuccess
  <2> QED
    BY <2>4, <2>5 DEF IInv
<1>3. CASE \E w \in Workers : Shutdown(w)
  <2>1. disruptions' \in 0..MaxDisruptions
    BY <1>3, DisruptBound DEF Shutdown, IInv, TypeOK
  <2> QED
    BY <1>3, <2>1 DEF Shutdown, IInv, TypeOK, Recorded, Sent, NoFalseSuccess, rowVars
<1> QED
  BY <1>1, <1>2, <1>3
-----------------------------------------------------------------------------
\* The steps of Next, by the lemma that deals with each.
LEMMA NextCases ==
    ASSUME Next
    PROVE  \/ \E t \in tasks : \/ RedisReceives(t)
                               \/ PublishSucceeds(t) \/ PublishFails(t)
                               \/ MarkPublished(t) \/ MarkPublishedUnconfirmed(t)
                               \/ MarkFailed(t) \/ MarkFailedUnconfirmed(t)
           \/ \E r \in Realtimes, d \in Deliveries : InsertOutbox(r, d)
           \/ \E w \in Workers : Claim(w) \/ StartWindow(w)
           \/ \/ \E d \in Deliveries : LeaseExpires(d) \/ BackoffElapses(d)
              \/ \E o \in Owners : Vanish(o) /\ (Disrupt \/ UNCHANGED disruptions)
              \/ \E w \in Workers : Shutdown(w)
  BY DEF Next, TaskStep, TaskFault, WorkerStep, Clock, Crash, Exit, Owners

\* Every step of the outbox keeps the inductive invariant.
LEMMA NextInv ==
    ASSUME IInv, [Next]_vars
    PROVE  IInv'
<1>1. CASE UNCHANGED vars
  BY <1>1 DEF vars, rowVars, IInv, TypeOK, Recorded, Sent, NoFalseSuccess
<1>2. CASE Next
  BY <1>2, NextCases, RedisReceivesInv, PublishInv, MarkPublishedInv, MarkFailedInv,
     InsertOutboxInv, ClaimInv, StartWindowInv, EnvironmentInv
<1> QED
  BY <1>1, <1>2

\* No row, no task, no copy: the invariant holds at the start.
LEMMA InitInv == Init => IInv
  BY OutboxAssumption DEF Init, IInv, TypeOK, States, Recorded, Sent, NoFalseSuccess

\* The inductive invariant holds in every reachable state.
THEOREM Invariance == Spec => []IInv
  BY InitInv, NextInv, PTL DEF Spec

\* Columns and tasks keep their types, and no row is leased by nobody.
THEOREM TypeCorrect == Spec => []TypeOK
<1>1. IInv => TypeOK
  BY DEF IInv
<1> QED
  BY <1>1, Invariance, PTL

(***************************************************************************)
(* markPublished never reports a delivery Redis has not seen, for any      *)
(* number of workers, attempts, crashes, lost replies and lost leases.     *)
(***************************************************************************)
THEOREM NeverFalseSuccess == Spec => []NoFalseSuccess
<1>1. IInv => NoFalseSuccess
  BY DEF IInv
<1> QED
  BY <1>1, Invariance, PTL
-----------------------------------------------------------------------------
\* Ack and failure statements take a row from its owner with a task of the owner.
LEMMA TaskKeepsRow ==
    ASSUME IInv, NEW t \in tasks,
           \/ MarkPublished(t) \/ MarkPublishedUnconfirmed(t)
           \/ MarkFailed(t) \/ MarkFailedUnconfirmed(t)
    PROVE  \A d \in Deliveries : OwnerKeepsRow(d)
<1>1. t \in Task /\ t.d \in Deliveries /\ tasks \subseteq Task /\ TypeOK
  BY DEF IInv, TypeOK, Task
<1>2. t \notin tasks'
  <2>1. CASE Finish(t)
    BY <2>1 DEF Finish
  <2>2. CASE t.pc = "ack" /\ AckThrows(t)
    BY <1>1, <2>2, AckThrowsMoves DEF Moves
  <2>3. CASE FailThrows(t)
    BY <1>1, <2>3, FailThrowsMoves DEF Moves
  <2> QED
    BY <2>1, <2>2, <2>3
    DEF MarkPublished, MarkPublishedUnconfirmed, MarkFailed, MarkFailedUnconfirmed
<1>3. \/ lockedBy' = lockedBy
      \/ lockedBy[t.d] = t.own /\ lockedBy' = [lockedBy EXCEPT ![t.d] = NoOwner]
  BY DEF MarkPublished, MarkPublishedUnconfirmed, MarkFailed, MarkFailedUnconfirmed,
         AckMatches, FailMatches, RowPublished, RowFailed, rowVars
<1> QED
  BY <1>1, <1>2, <1>3 DEF OwnerKeepsRow, TypeOK

\* What every step may do to the owner of a row.
LEMMA NextKeepsRow ==
    ASSUME IInv, [Next]_vars
    PROVE  \A d \in Deliveries : OwnerKeepsRow(d)
<1>0. TypeOK
  BY DEF IInv
<1>1. CASE UNCHANGED vars
  BY <1>1 DEF vars, rowVars, OwnerKeepsRow
<1>2. ASSUME NEW t \in tasks, RedisReceives(t) \/ PublishSucceeds(t) \/ PublishFails(t)
      PROVE  \A d \in Deliveries : OwnerKeepsRow(d)
  BY <1>2 DEF RedisReceives, PublishSucceeds, PublishFails, rowVars, OwnerKeepsRow
<1>3. ASSUME NEW r \in Realtimes, NEW d \in Deliveries, InsertOutbox(r, d)
      PROVE  \A e \in Deliveries : OwnerKeepsRow(e)
  BY <1>0, <1>3 DEF InsertOutbox, OwnerKeepsRow, TypeOK
<1>4. ASSUME NEW w \in Workers, Claim(w)
      PROVE  \A d \in Deliveries : OwnerKeepsRow(d)
  BY <1>0, <1>4 DEF Claim, LeaseRows, Claimable, OwnerKeepsRow, TypeOK
<1>5. ASSUME NEW w \in Workers, StartWindow(w) \/ Shutdown(w)
      PROVE  \A d \in Deliveries : OwnerKeepsRow(d)
  BY <1>5 DEF StartWindow, Shutdown, rowVars, OwnerKeepsRow
<1>6. ASSUME NEW d \in Deliveries, LeaseExpires(d) \/ BackoffElapses(d)
      PROVE  \A e \in Deliveries : OwnerKeepsRow(e)
  BY <1>6 DEF LeaseExpires, BackoffElapses, OwnerKeepsRow
<1>7. ASSUME NEW o \in Owners, Vanish(o)
      PROVE  \A d \in Deliveries : OwnerKeepsRow(d)
  BY <1>0, <1>7 DEF Vanish, OwnerKeepsRow, TypeOK
<1>8. CASE Next
  BY <1>8, <1>2, <1>3, <1>4, <1>5, <1>6, <1>7, NextCases, TaskKeepsRow
<1> QED
  BY <1>1, <1>8

(***************************************************************************)
(* A row changes hands only by a statement of a task of its owner, by a    *)
(* claim after its lease ran out, or because its owner is gone.            *)
(***************************************************************************)
THEOREM OwnershipRespected == Spec => OnlyOwnerReleases
<1>1. IInv /\ [Next]_vars => [\A d \in Deliveries : OwnerKeepsRow(d)]_vars
  BY NextKeepsRow
<1> QED
  BY <1>1, Invariance, PTL DEF Spec, OnlyOwnerReleases
-----------------------------------------------------------------------------
(***************************************************************************)
(* The invariant behind CopiesBounded.  A claim is known by its row and    *)
(* its attempt number: no two tasks share one, and the attempts column     *)
(* pays for the copies that were sent and for those that still may be.     *)
(***************************************************************************)
Unsent(d) == {t.att : t \in {u \in tasks : u.d = d /\ u.pc \in {"queued", "sending"}}}

Counted == \A t \in tasks : t.att \in 1 .. attempts[t.d]
OneClaimEach == \A t, u \in tasks : t.d = u.d /\ t.att = u.att => t = u
Budget == \A d \in Deliveries : copies[d] + Cardinality(Unsent(d)) <= attempts[d]
Unused == \A d \in Deliveries : state[d] = "absent" => attempts[d] = 0

ClaimsInv == Counted /\ OneClaimEach /\ Budget /\ Unused

\* Task u goes on with the claim of v, and sends nothing that v has sent.
Heir(u, v) ==
    /\ u.d = v.d /\ u.att = v.att
    /\ u.pc \in {"queued", "sending"} => v.pc \in {"queued", "sending"}

\* The copies that may still be sent are finitely many.
LEMMA UnsentFinite ==
    ASSUME TypeOK, Counted, NEW d \in Deliveries
    PROVE  /\ Unsent(d) \subseteq 1 .. attempts[d]
           /\ IsFiniteSet(Unsent(d))
           /\ Cardinality(Unsent(d)) \in Nat
           /\ attempts[d] \in Nat /\ copies[d] \in Nat
<1>1. Unsent(d) \subseteq 1 .. attempts[d]
  BY DEF Unsent, Counted
<1>2. attempts[d] \in Nat /\ copies[d] \in Nat
  BY DEF TypeOK
<1>3. IsFiniteSet(1 .. attempts[d])
  BY <1>2, FS_Interval
<1>4. IsFiniteSet(Unsent(d))
  BY <1>1, <1>3, FS_Subset
<1> QED
  BY <1>1, <1>2, <1>4, FS_CardinalityType

\* Tasks that only go on with their claims cost no attempt.
LEMMA HeirsKeepClaims ==
    ASSUME TypeOK, ClaimsInv,
           attempts' = attempts, copies' = copies, OneClaimEach',
           \A u \in tasks' : \E v \in tasks : Heir(u, v),
           \A d \in Deliveries : state'[d] = "absent" => state[d] = "absent"
    PROVE  ClaimsInv'
<1>1. Counted'
  BY DEF ClaimsInv, Counted, Heir
<1>2. Budget'
  <2> SUFFICES ASSUME NEW d \in Deliveries
               PROVE  copies[d] + Cardinality(Unsent(d)') <= attempts[d]
    BY DEF Budget
  <2>1. Unsent(d)' \subseteq Unsent(d)
    BY DEF Unsent, Heir
  <2>2. /\ IsFiniteSet(Unsent(d)) /\ Cardinality(Unsent(d)) \in Nat
        /\ attempts[d] \in Nat /\ copies[d] \in Nat
    BY UnsentFinite DEF ClaimsInv
  <2>3. IsFiniteSet(Unsent(d)') /\ Cardinality(Unsent(d)') <= Cardinality(Unsent(d))
    BY <2>1, <2>2, FS_Subset
  <2>4. Cardinality(Unsent(d)') \in Nat
    BY <2>3, FS_CardinalityType
  <2>5. copies[d] + Cardinality(Unsent(d)) <= attempts[d]
    BY DEF ClaimsInv, Budget
  <2> QED
    BY <2>2, <2>3, <2>4, <2>5
<1>3. Unused'
  BY DEF ClaimsInv, Unused
<1> QED
  BY <1>1, <1>2, <1>3 DEF ClaimsInv

\* A task at its next stage is its own heir, unless it goes back to sending.
LEMMA AdvanceHeirs ==
    ASSUME tasks \subseteq Task, OneClaimEach, NEW t \in tasks, Advance(t, "arrived")
               \/ Advance(t, "ack") \/ Advance(t, "fail")
    PROVE  /\ OneClaimEach'
           /\ \A u \in tasks' : \E v \in tasks : Heir(u, v)
           /\ \A u \in tasks' : u.d = t.d /\ u.att = t.att => u.pc \notin {"queued", "sending"}
<1>1. PICK pc \in {"arrived", "ack", "fail"} : Advance(t, pc)
  OBVIOUS
<1> DEFINE n == [t EXCEPT !.pc = pc]
<1>2. n.d = t.d /\ n.att = t.att /\ n.pc = pc
  BY DEF Task
<1>3. tasks' = (tasks \ {t}) \cup {n}
  BY <1>1 DEF Advance
<1> HIDE DEF n
<1>4. OneClaimEach'
  BY <1>2, <1>3 DEF OneClaimEach
<1>5. \A u \in tasks' : \E v \in tasks : Heir(u, v)
  <2> TAKE u \in tasks'
  <2>1. CASE u = n
    <3>1. Heir(u, t)
      BY <1>2, <2>1 DEF Heir
    <3> QED
      BY <3>1
  <2>2. CASE u \in tasks
    <3>1. Heir(u, u)
      BY DEF Heir
    <3> QED
      BY <2>2, <3>1
  <2> QED
    BY <1>3, <2>1, <2>2
<1>6. \A u \in tasks' : u.d = t.d /\ u.att = t.att => u.pc \notin {"queued", "sending"}
  BY <1>2, <1>3 DEF OneClaimEach
<1> QED
  BY <1>4, <1>5, <1>6

\* Tasks that disappear leave the others as they are.
LEMMA SubsetHeirs ==
    ASSUME OneClaimEach, tasks' \subseteq tasks
    PROVE  OneClaimEach' /\ \A u \in tasks' : \E v \in tasks : Heir(u, v)
  BY DEF OneClaimEach, Heir

\* A rejected cycle keeps each surviving task once, at its stage.
LEMMA RejectHeirs ==
    ASSUME tasks \subseteq Task, OneClaimEach, NEW t \in tasks, Reject(t)
    PROVE  OneClaimEach' /\ \A u \in tasks' : \E v \in tasks : Heir(u, v)
<1> DEFINE others == tasks \ {t}
           cycle  == {u \in others : u.own = t.own /\ u.mode = "awaited"}
           loose  == {[u EXCEPT !.mode = "detached"] :
                         u \in {v \in cycle : v.pc # "queued"}}
<1>1. CASE t.mode = "detached"
  <2>1. tasks' \subseteq tasks
    BY <1>1 DEF Reject
  <2> QED
    BY <2>1, SubsetHeirs
<1>2. CASE t.mode # "detached"
  <2>1. tasks' = (others \ cycle) \cup loose
    BY <1>2 DEF Reject
  <2>2. ASSUME NEW u \in tasks'
        PROVE  \E v \in tasks : /\ v.d = u.d /\ v.att = u.att /\ v.pc = u.pc
                                /\ v \in cycle => u = [v EXCEPT !.mode = "detached"]
                                /\ v \notin cycle => u = v
    <3>1. CASE u \in others \ cycle
      BY <3>1
    <3>2. CASE u \in loose
      <4>1. PICK v \in cycle : u = [v EXCEPT !.mode = "detached"]
        BY <3>2
      <4>2. v \in Task
        OBVIOUS
      <4>3. v.d = u.d /\ v.att = u.att /\ v.pc = u.pc
        BY <4>1, <4>2 DEF Task
      <4> QED
        BY <4>1, <4>3
    <3> QED
      BY <2>1, <3>1, <3>2
  <2> HIDE DEF loose, others, cycle
  <2>3. OneClaimEach'
    <3> SUFFICES ASSUME NEW u1 \in tasks', NEW u2 \in tasks', u1.d = u2.d, u1.att = u2.att
                 PROVE  u1 = u2
      BY DEF OneClaimEach
    <3>1. PICK v1 \in tasks : /\ v1.d = u1.d /\ v1.att = u1.att
                              /\ v1 \in cycle => u1 = [v1 EXCEPT !.mode = "detached"]
                              /\ v1 \notin cycle => u1 = v1
      BY <2>2
    <3>2. PICK v2 \in tasks : /\ v2.d = u2.d /\ v2.att = u2.att
                              /\ v2 \in cycle => u2 = [v2 EXCEPT !.mode = "detached"]
                              /\ v2 \notin cycle => u2 = v2
      BY <2>2
    <3>3. v1 = v2
      BY <3>1, <3>2 DEF OneClaimEach
    <3> QED
      BY <3>1, <3>2, <3>3
  <2>4. \A u \in tasks' : \E v \in tasks : Heir(u, v)
    BY <2>2 DEF Heir
  <2> QED
    BY <2>3, <2>4
<1> QED
  BY <1>1, <1>2

\* A window keeps each of its tasks once.
LEMMA WindowHeirs ==
    ASSUME tasks \subseteq Task, OneClaimEach, NEW w \in Workers, StartWindow(w)
    PROVE  OneClaimEach' /\ \A u \in tasks' : \E v \in tasks : Heir(u, v)
<1>1. PICK W \in SUBSET Queued(w) :
         tasks' = (tasks \ W) \cup
              {[t EXCEPT !.pc = IF w \in draining THEN "refuse" ELSE "sending"] : t \in W}
  BY DEF StartWindow
<1> DEFINE to == IF w \in draining THEN "refuse" ELSE "sending"
           new == {[t EXCEPT !.pc = to] : t \in W}
<1>2. W \subseteq tasks /\ \A t \in W : t.pc = "queued"
  BY DEF Queued, Awaited
<1>3. tasks' = (tasks \ W) \cup new
  BY <1>1
<1> HIDE DEF to
<1>4. ASSUME NEW u \in tasks'
      PROVE  \E v \in tasks : /\ v.d = u.d /\ v.att = u.att
                              /\ v \in W => u = [v EXCEPT !.pc = to]
                              /\ v \notin W => u = v
  <2>1. CASE u \in tasks \ W
    BY <2>1
  <2>2. CASE u \in new
    <3>1. PICK v \in W : u = [v EXCEPT !.pc = to]
      BY <2>2
    <3>2. v \in Task
      BY <1>2
    <3>3. v.d = u.d /\ v.att = u.att
      BY <3>1, <3>2 DEF Task
    <3> QED
      BY <1>2, <3>1, <3>3
  <2> QED
    BY <1>3, <2>1, <2>2
<1> HIDE DEF new
<1>5. OneClaimEach'
  <2> SUFFICES ASSUME NEW u1 \in tasks', NEW u2 \in tasks', u1.d = u2.d, u1.att = u2.att
               PROVE  u1 = u2
    BY DEF OneClaimEach
  <2>1. PICK v1 \in tasks : /\ v1.d = u1.d /\ v1.att = u1.att
                            /\ v1 \in W => u1 = [v1 EXCEPT !.pc = to]
                            /\ v1 \notin W => u1 = v1
    BY <1>4
  <2>2. PICK v2 \in tasks : /\ v2.d = u2.d /\ v2.att = u2.att
                            /\ v2 \in W => u2 = [v2 EXCEPT !.pc = to]
                            /\ v2 \notin W => u2 = v2
    BY <1>4
  <2>3. v1 = v2
    BY <2>1, <2>2 DEF OneClaimEach
  <2> QED
    BY <2>1, <2>2, <2>3
<1>6. \A u \in tasks' : \E v \in tasks : Heir(u, v)
  BY <1>2, <1>4 DEF Heir
<1> QED
  BY <1>5, <1>6

\* Redis executes a copy that the budget held back for this very claim.
LEMMA RedisReceivesClaims ==
    ASSUME TypeOK, ClaimsInv, NEW t \in tasks, RedisReceives(t)
    PROVE  ClaimsInv'
<1>1. t \in Task /\ t.d \in Deliveries /\ tasks \subseteq Task /\ t.pc = "sending"
  BY DEF TypeOK, Task, RedisReceives
<1>2. /\ OneClaimEach'
      /\ \A u \in tasks' : \E v \in tasks : Heir(u, v)
      /\ \A u \in tasks' : u.d = t.d /\ u.att = t.att => u.pc \notin {"queued", "sending"}
  BY <1>1, AdvanceHeirs DEF RedisReceives, ClaimsInv
<1>3. attempts' = attempts /\ state' = state /\ copies' = [copies EXCEPT ![t.d] = @ + 1]
  BY DEF RedisReceives, rowVars
<1>4. Counted' /\ Unused'
  BY <1>2, <1>3 DEF ClaimsInv, Counted, Unused, Heir
<1>5. Budget'
  <2> SUFFICES ASSUME NEW d \in Deliveries
               PROVE  copies'[d] + Cardinality(Unsent(d)') <= attempts[d]
    BY <1>3 DEF Budget
  <2>1. Unsent(d)' \subseteq Unsent(d)
    BY <1>2 DEF Unsent, Heir
  <2>2. /\ IsFiniteSet(Unsent(d)) /\ Cardinality(Unsent(d)) \in Nat
        /\ attempts[d] \in Nat /\ copies[d] \in Nat
        /\ copies[d] + Cardinality(Unsent(d)) <= attempts[d]
    BY UnsentFinite DEF ClaimsInv, Budget
  <2>3. CASE d # t.d
    <3>1. IsFiniteSet(Unsent(d)') /\ Cardinality(Unsent(d)') <= Cardinality(Unsent(d))
      BY <2>1, <2>2, FS_Subset
    <3>2. Cardinality(Unsent(d)') \in Nat /\ copies'[d] = copies[d]
      BY <1>3, <2>3, <3>1, FS_CardinalityType DEF TypeOK
    <3> QED
      BY <2>2, <3>1, <3>2
  <2>4. CASE d = t.d
    <3>1. t.att \in Unsent(d)
      BY <1>1, <2>4 DEF Unsent
    <3>2. Unsent(d)' \subseteq Unsent(d) \ {t.att}
      BY <1>2, <2>1, <2>4 DEF Unsent
    <3>3. /\ IsFiniteSet(Unsent(d) \ {t.att})
          /\ Cardinality(Unsent(d) \ {t.att}) = Cardinality(Unsent(d)) - 1
      BY <2>2, <3>1, FS_RemoveElement
    <3>4. /\ IsFiniteSet(Unsent(d)')
          /\ Cardinality(Unsent(d)') <= Cardinality(Unsent(d) \ {t.att})
      BY <3>2, <3>3, FS_Subset
    <3>5. Cardinality(Unsent(d)') \in Nat /\ copies'[d] = copies[d] + 1
      BY <1>1, <1>3, <2>4, <3>4, FS_CardinalityType DEF TypeOK
    <3> QED
      BY <2>2, <3>3, <3>4, <3>5
  <2> QED
    BY <2>3, <2>4
<1> QED
  BY <1>2, <1>4, <1>5 DEF ClaimsInv

\* The other steps of a task send nothing.
LEMMA TaskClaims ==
    ASSUME TypeOK, ClaimsInv, NEW t \in tasks,
           \/ PublishSucceeds(t) \/ PublishFails(t)
           \/ MarkPublished(t) \/ MarkPublishedUnconfirmed(t)
           \/ MarkFailed(t) \/ MarkFailedUnconfirmed(t)
    PROVE  ClaimsInv'
<1>1. t \in Task /\ t.d \in Deliveries /\ tasks \subseteq Task /\ OneClaimEach
  BY DEF TypeOK, Task, ClaimsInv
<1>2. attempts' = attempts /\ copies' = copies
  BY DEF PublishSucceeds, PublishFails, MarkPublished, MarkPublishedUnconfirmed, MarkFailed,
     MarkFailedUnconfirmed, RowPublished, RowFailed, rowVars
<1>3. \A d \in Deliveries : state'[d] = "absent" => state[d] = "absent"
  BY <1>1 DEF TypeOK, PublishSucceeds, PublishFails, MarkPublished, MarkPublishedUnconfirmed,
     MarkFailed, MarkFailedUnconfirmed, RowPublished, RowFailed, rowVars
<1>4. CASE Finish(t)
  BY <1>1, <1>2, <1>3, <1>4, SubsetHeirs, HeirsKeepClaims DEF Finish
<1>5. CASE Reject(t)
  BY <1>1, <1>2, <1>3, <1>5, RejectHeirs, HeirsKeepClaims
<1>6. CASE Advance(t, "ack") \/ Advance(t, "fail")
  BY <1>1, <1>2, <1>3, <1>6, AdvanceHeirs, HeirsKeepClaims
<1> QED
  BY <1>4, <1>5, <1>6 DEF PublishSucceeds, PublishFails, MarkPublished,
     MarkPublishedUnconfirmed, MarkFailed, MarkFailedUnconfirmed, AckThrows, FailThrows

\* A row starts with one attempt, for the one copy its fast path may send.
LEMMA InsertOutboxClaims ==
    ASSUME IInv, ClaimsInv, NEW r \in Realtimes, NEW d \in Deliveries, InsertOutbox(r, d)
    PROVE  ClaimsInv'
<1> DEFINE n == [own |-> r, d |-> d, att |-> 1, pc |-> "sending", mode |-> "detached"]
<1>1. n.d = d /\ n.att = 1 /\ n.pc = "sending"
  OBVIOUS
<1>2. tasks' \subseteq tasks \cup {n}
  BY DEF InsertOutbox
<1> HIDE DEF n
<1>3. /\ state[d] = "absent" /\ attempts' = [attempts EXCEPT ![d] = 1]
      /\ copies' = copies /\ state' = [state EXCEPT ![d] = "pending"]
  BY DEF InsertOutbox
<1>4. TypeOK /\ \A t \in tasks : t.d # d /\ t.d \in Deliveries
  BY <1>3 DEF IInv, Recorded, TypeOK, Task
<1>5. attempts'[d] = 1 /\ \A e \in Deliveries : e # d => attempts'[e] = attempts[e]
  BY <1>3, <1>4 DEF TypeOK
<1>6. Counted'
  BY <1>1, <1>2, <1>4, <1>5 DEF ClaimsInv, Counted
<1>7. OneClaimEach'
  BY <1>1, <1>2, <1>4 DEF ClaimsInv, OneClaimEach
<1>8. Unused'
  BY <1>3, <1>4, <1>5 DEF ClaimsInv, Unused, TypeOK
<1>9. Budget'
  <2> SUFFICES ASSUME NEW e \in Deliveries
               PROVE  copies[e] + Cardinality(Unsent(e)') <= attempts'[e]
    BY <1>3 DEF Budget
  <2>1. /\ IsFiniteSet(Unsent(e)) /\ Cardinality(Unsent(e)) \in Nat
        /\ attempts[e] \in Nat /\ copies[e] \in Nat
        /\ copies[e] + Cardinality(Unsent(e)) <= attempts[e]
    BY <1>4, UnsentFinite DEF ClaimsInv, Budget
  <2>2. CASE e = d
    <3>1. Unsent(e)' \subseteq {1}
      BY <1>1, <1>2, <1>4, <2>2 DEF Unsent
    <3>2. IsFiniteSet({1}) /\ Cardinality({1}) = 1
      BY FS_Singleton
    <3>3. IsFiniteSet(Unsent(e)') /\ Cardinality(Unsent(e)') <= 1
      BY <3>1, <3>2, FS_Subset
    <3>4. Cardinality(Unsent(e)') \in Nat
      BY <3>3, FS_CardinalityType
    <3>5. copies[e] = 0
      BY <1>3, <2>1, <2>2 DEF ClaimsInv, Unused
    <3> QED
      BY <1>5, <2>2, <3>3, <3>4, <3>5
  <2>3. CASE e # d
    <3>1. Unsent(e)' \subseteq Unsent(e)
      BY <1>1, <1>2, <2>3 DEF Unsent
    <3>2. IsFiniteSet(Unsent(e)') /\ Cardinality(Unsent(e)') <= Cardinality(Unsent(e))
      BY <2>1, <3>1, FS_Subset
    <3>3. Cardinality(Unsent(e)') \in Nat
      BY <3>2, FS_CardinalityType
    <3> QED
      BY <1>5, <2>1, <2>3, <3>2, <3>3
  <2> QED
    BY <2>2, <2>3
<1> QED
  BY <1>6, <1>7, <1>8, <1>9 DEF ClaimsInv

\* claimBatch counts an attempt for every row it takes, for one copy at most.
LEMMA ClaimClaims ==
    ASSUME TypeOK, ClaimsInv, NEW w \in Workers, Claim(w)
    PROVE  ClaimsInv'
<1>1. PICK S \in SUBSET {d \in Deliveries : Claimable(d)} :
         /\ LeaseRows(w, S)
         /\ \/ /\ tasks' = tasks \cup {[own |-> w, d |-> d, att |-> attempts[d] + 1,
                                        pc |-> "queued", mode |-> "awaited"] : d \in S}
               /\ UNCHANGED disruptions
            \/ /\ Disrupt
               /\ UNCHANGED tasks
  BY DEF Claim
<1> DEFINE new == {[own |-> w, d |-> d, att |-> attempts[d] + 1,
                    pc |-> "queued", mode |-> "awaited"] : d \in S}
<1>2. /\ \A u \in new : u.d \in S /\ u.att = attempts[u.d] + 1
      /\ \A u, v \in new : u.d = v.d => u = v
  OBVIOUS
<1>3. tasks' \subseteq tasks \cup new
  BY <1>1
<1> HIDE DEF new
<1>4. /\ S \subseteq Deliveries /\ \A d \in S : state[d] = "pending"
      /\ copies' = copies /\ state' = state
      /\ \A d \in Deliveries : attempts'[d] = IF d \in S THEN attempts[d] + 1 ELSE attempts[d]
  BY <1>1 DEF Claim, LeaseRows, Claimable
<1>5. \A d \in Deliveries : attempts[d] \in Nat
  BY DEF TypeOK
<1>6. \A t \in tasks : t.d \in Deliveries /\ t.att \in 1 .. attempts[t.d]
  BY DEF TypeOK, Task, ClaimsInv, Counted
<1>7. Counted'
  BY <1>2, <1>3, <1>4, <1>5, <1>6 DEF Counted
<1>8. OneClaimEach'
  <2> SUFFICES ASSUME NEW u \in tasks', NEW v \in tasks', u.d = v.d, u.att = v.att
               PROVE  u = v
    BY DEF OneClaimEach
  <2>1. CASE u \in tasks /\ v \in tasks
    BY <2>1 DEF ClaimsInv, OneClaimEach
  <2>2. CASE u \in new /\ v \in new
    BY <1>2, <2>2
  <2>3. CASE u \in new /\ v \in tasks
    BY <1>2, <1>4, <1>5, <1>6, <2>3
  <2>4. CASE u \in tasks /\ v \in new
    BY <1>2, <1>4, <1>5, <1>6, <2>4
  <2> QED
    BY <1>3, <2>1, <2>2, <2>3, <2>4
<1>9. Unused'
  BY <1>4 DEF ClaimsInv, Unused
<1>10. Budget'
  <2> SUFFICES ASSUME NEW e \in Deliveries
               PROVE  copies[e] + Cardinality(Unsent(e)') <= attempts'[e]
    BY <1>4 DEF Budget
  <2>1. /\ IsFiniteSet(Unsent(e)) /\ Cardinality(Unsent(e)) \in Nat
        /\ attempts[e] \in Nat /\ copies[e] \in Nat
        /\ copies[e] + Cardinality(Unsent(e)) <= attempts[e]
    BY UnsentFinite DEF ClaimsInv, Budget
  <2>2. CASE e \in S
    <3>1. Unsent(e)' \subseteq Unsent(e) \cup {attempts[e] + 1}
      BY <1>2, <1>3 DEF Unsent
    <3>2. /\ IsFiniteSet(Unsent(e) \cup {attempts[e] + 1})
          /\ Cardinality(Unsent(e) \cup {attempts[e] + 1}) =
                IF attempts[e] + 1 \in Unsent(e) THEN Cardinality(Unsent(e))
                                                 ELSE Cardinality(Unsent(e)) + 1
      BY <2>1, FS_AddElement
    <3>3. /\ IsFiniteSet(Unsent(e)')
          /\ Cardinality(Unsent(e)') <= Cardinality(Unsent(e) \cup {attempts[e] + 1})
      BY <3>1, <3>2, FS_Subset
    <3>4. Cardinality(Unsent(e)') \in Nat
      BY <3>3, FS_CardinalityType
    <3>5. Cardinality(Unsent(e)') <= Cardinality(Unsent(e)) + 1
      BY <2>1, <3>2, <3>3, <3>4
    <3> QED
      BY <1>4, <2>1, <2>2, <3>4, <3>5
  <2>3. CASE e \notin S
    <3>1. Unsent(e)' \subseteq Unsent(e)
      BY <1>2, <1>3, <2>3 DEF Unsent
    <3>2. IsFiniteSet(Unsent(e)') /\ Cardinality(Unsent(e)') <= Cardinality(Unsent(e))
      BY <2>1, <3>1, FS_Subset
    <3>3. Cardinality(Unsent(e)') \in Nat
      BY <3>2, FS_CardinalityType
    <3> QED
      BY <1>4, <2>1, <2>3, <3>2, <3>3
  <2> QED
    BY <2>2, <2>3
<1> QED
  BY <1>7, <1>8, <1>9, <1>10 DEF ClaimsInv

\* Windows, time, crashes and drains start no claim.
LEMMA EnvironmentClaims ==
    ASSUME TypeOK, ClaimsInv,
           \/ \E w \in Workers : StartWindow(w) \/ Shutdown(w)
           \/ \E d \in Deliveries : LeaseExpires(d) \/ BackoffElapses(d)
           \/ \E o \in Owners : Vanish(o)
           \/ UNCHANGED vars
    PROVE  ClaimsInv'
<1>1. attempts' = attempts /\ copies' = copies /\ state' = state
  BY DEF StartWindow, Shutdown, LeaseExpires, BackoffElapses, Vanish, vars, rowVars
<1>2. OneClaimEach /\ tasks \subseteq Task
  BY DEF ClaimsInv, TypeOK
<1>3. CASE \E w \in Workers : StartWindow(w)
  BY <1>1, <1>2, <1>3, WindowHeirs, HeirsKeepClaims
<1>4. CASE tasks' \subseteq tasks
  BY <1>1, <1>2, <1>4, SubsetHeirs, HeirsKeepClaims
<1> QED
  BY <1>3, <1>4 DEF Shutdown, LeaseExpires, BackoffElapses, Vanish, vars

(***************************************************************************)
(* No row is sent to Redis more often than its attempts column says, for   *)
(* any number of workers that claim it again after a lost lease, and with  *)
(* publications that go on when their cycle was rejected.                  *)
(***************************************************************************)
THEOREM DuplicatesBounded == Spec => []CopiesBounded
<1>1. Init => ClaimsInv
  <2> SUFFICES ASSUME Init PROVE ClaimsInv
    OBVIOUS
  <2>1. \A d \in Deliveries : Unsent(d) = {}
    BY DEF Init, Unsent
  <2>2. Budget
    BY <2>1, FS_EmptySet DEF Init, Budget
  <2> QED
    BY <2>2 DEF Init, ClaimsInv, Counted, OneClaimEach, Unused
<1>2. IInv /\ ClaimsInv /\ [Next]_vars => ClaimsInv'
  <2> SUFFICES ASSUME IInv, ClaimsInv, [Next]_vars PROVE ClaimsInv'
    OBVIOUS
  <2>1. TypeOK
    BY DEF IInv
  <2> QED
    BY <2>1, NextCases, RedisReceivesClaims, TaskClaims, InsertOutboxClaims, ClaimClaims,
       EnvironmentClaims
<1>3. IInv /\ ClaimsInv => CopiesBounded
  <2> SUFFICES ASSUME IInv, ClaimsInv, NEW d \in Deliveries
               PROVE  copies[d] <= attempts[d]
    BY DEF CopiesBounded
  <2>1. /\ Cardinality(Unsent(d)) \in Nat /\ attempts[d] \in Nat /\ copies[d] \in Nat
        /\ copies[d] + Cardinality(Unsent(d)) <= attempts[d]
    BY UnsentFinite DEF IInv, ClaimsInv, Budget
  <2> QED
    BY <2>1
<1> QED
  BY <1>1, <1>2, <1>3, Invariance, PTL DEF Spec
-----------------------------------------------------------------------------
\* A step that leaves the states and the broker alone is a stutter of AtLeastOnce.
LEMMA StutterSimulates ==
    ASSUME state' = state, copies' = copies
    PROVE  [Promise!ANext]_(Promise!avars)
  BY DEF Promise!avars

\* Every step of the outbox is a step of at-least-once delivery or a stutter.
LEMMA NextSimulates ==
    ASSUME IInv, [Next]_vars
    PROVE  [Promise!ANext]_(Promise!avars)
<1>0. TypeOK /\ tasks \subseteq Task
  BY DEF IInv, TypeOK
<1>1. CASE UNCHANGED vars
  BY <1>1, StutterSimulates DEF vars, rowVars
<1>2. ASSUME NEW t \in tasks, RedisReceives(t)
      PROVE  Promise!ANext
  <2>1. t.d \in Deliveries /\ state[t.d] # "absent"
    BY <1>0 DEF Task, IInv, Recorded
  <2>2. {d \in Deliveries : copies'[d] > 0}
           = {d \in Deliveries : copies[d] > 0} \cup {t.d}
    BY <1>0, <1>2, <2>1 DEF RedisReceives, TypeOK
  <2>3. Promise!Reach(t.d)
    BY <1>2, <2>1, <2>2 DEF RedisReceives, rowVars, Promise!Reach
  <2> QED
    BY <2>1, <2>3 DEF Promise!ANext
<1>3. ASSUME NEW t \in tasks, PublishSucceeds(t) \/ PublishFails(t)
      PROVE  state' = state /\ copies' = copies
  BY <1>3 DEF PublishSucceeds, PublishFails, rowVars
<1>4. ASSUME NEW t \in tasks, MarkPublished(t) \/ MarkPublishedUnconfirmed(t)
      PROVE  [Promise!ANext]_(Promise!avars)
  <2>1. t.d \in Deliveries /\ copies' = copies /\ copies[t.d] >= 1
    BY <1>0, <1>4 DEF Task, MarkPublished, MarkPublishedUnconfirmed, IInv, Sent
  <2>2. CASE UNCHANGED rowVars
    BY <2>1, <2>2, StutterSimulates DEF rowVars
  <2>3. CASE AckMatches(t) /\ RowPublished(t.d)
    <3>1. Promise!Confirm(t.d)
      BY <1>0, <2>1, <2>3 DEF AckMatches, RowPublished, TypeOK, Promise!Confirm
    <3> QED
      BY <2>1, <3>1 DEF Promise!ANext
  <2> QED
    BY <1>4, <2>2, <2>3 DEF MarkPublished, MarkPublishedUnconfirmed
<1>5. ASSUME NEW t \in tasks, MarkFailed(t) \/ MarkFailedUnconfirmed(t)
      PROVE  [Promise!ANext]_(Promise!avars)
  <2>1. t.d \in Deliveries /\ copies' = copies
    BY <1>0, <1>5 DEF Task, MarkFailed, MarkFailedUnconfirmed
  <2>2. CASE state' = state
    BY <2>1, <2>2, StutterSimulates
  <2>3. CASE FailMatches(t) /\ state' = [state EXCEPT ![t.d] = "dead"]
    <3>1. Promise!GiveUp(t.d)
      BY <2>1, <2>3 DEF FailMatches, Promise!GiveUp
    <3> QED
      BY <2>1, <3>1 DEF Promise!ANext
  <2>4. UNCHANGED rowVars \/ (FailMatches(t) /\ RowFailed(t.d))
    BY <1>5 DEF MarkFailed, MarkFailedUnconfirmed
  <2> QED
    BY <2>2, <2>3, <2>4 DEF RowFailed, rowVars
<1>6. ASSUME NEW r \in Realtimes, NEW d \in Deliveries, InsertOutbox(r, d)
      PROVE  Promise!ANext
  <2>1. Promise!Record(d)
    BY <1>6 DEF InsertOutbox, Promise!Record
  <2> QED
    BY <2>1 DEF Promise!ANext
<1>7. ASSUME NEW w \in Workers, Claim(w) \/ StartWindow(w) \/ Shutdown(w)
      PROVE  state' = state /\ copies' = copies
  BY <1>7 DEF Claim, LeaseRows, StartWindow, Shutdown, rowVars
<1>8. ASSUME NEW d \in Deliveries, LeaseExpires(d) \/ BackoffElapses(d)
      PROVE  state' = state /\ copies' = copies
  BY <1>8 DEF LeaseExpires, BackoffElapses
<1>9. ASSUME NEW o \in Owners, Vanish(o)
      PROVE  state' = state /\ copies' = copies
  BY <1>9 DEF Vanish
<1>10. CASE Next
  BY <1>10, <1>2, <1>3, <1>4, <1>5, <1>6, <1>7, <1>8, <1>9, NextCases, StutterSimulates
<1> QED
  BY <1>1, <1>10

(***************************************************************************)
(* The lease protocol implements AtLeastOnce: outcomes are final, and a    *)
(* row is published only after Redis executed a copy of it.                *)
(***************************************************************************)
THEOREM Refinement == Spec => ImplementsAtLeastOnce
<1>1. Init => Promise!AInit
  BY DEF Init, Promise!AInit
<1>2. IInv /\ [Next]_vars => [Promise!ANext]_(Promise!avars)
  BY NextSimulates
<1> QED
  BY <1>1, <1>2, Invariance, PTL DEF Spec, ImplementsAtLeastOnce, Promise!ASpec
=============================================================================
