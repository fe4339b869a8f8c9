----------------------------- MODULE ProcessProofs -----------------------------
(***************************************************************************)
(* Proofs about the processes of a deployment: ApiProcess with its signer, *)
(* for any number of signatures, slots and places in the queue, and the    *)
(* migration runs that come before it (MigrationRunner), for every set of  *)
(* processes, of migration files and of checksums.                         *)
(***************************************************************************)
EXTENDS ApiProcess, MigrationRunner, FiniteSetTheorems, SequenceTheorems, TLAPS

-----------------------------------------------------------------------------
(* The signer's slots *)

\* The calls that hold a slot, and those that wait for one.
Busy == {c \in Calls : call[c] \in {"running", "settled"}}
Queued == {c \in Calls : call[c] = "queued"}

(***************************************************************************)
(* The inductive form of SlotsExact: that the queue holds each waiting     *)
(* call once is said of its places, not of their number.                   *)
(***************************************************************************)
SlotsInv ==
    /\ call \in [Calls -> Places]
    /\ queue \in Seq(Calls)
    /\ closed \in BOOLEAN
    /\ active = Cardinality(Busy)
    /\ active <= Concurrency
    /\ Len(queue) <= Capacity
    /\ Waiting = Queued
    /\ \A i, j \in DOMAIN queue : queue[i] = queue[j] => i = j
    /\ queue # <<>> => active = Concurrency
    /\ closed => queue = <<>>

\* Types, one fact for the provers.
LEMMA SlotFields ==
    ASSUME SlotsInv
    PROVE  /\ IsFiniteSet(Busy) /\ active \in Nat /\ Concurrency \in Nat /\ Capacity \in Nat
           /\ Capacity > 0 /\ Concurrency > 0
           /\ Len(queue) \in Nat /\ DOMAIN queue = 1..Len(queue)
           /\ \A i \in 1..Len(queue) : queue[i] \in Calls /\ call[queue[i]] = "queued"
<1>1. IsFiniteSet(Busy)
  BY SignerAssumption, FS_Subset DEF Busy
<1>2. active \in Nat
  BY <1>1, FS_CardinalityType DEF SlotsInv
<1>3. Len(queue) \in Nat /\ DOMAIN queue = 1..Len(queue)
  BY LenProperties DEF SlotsInv
<1>4. \A i \in 1..Len(queue) : queue[i] \in Calls /\ call[queue[i]] = "queued"
  BY <1>3 DEF SlotsInv, Waiting, Queued
<1> QED
  BY <1>1, <1>2, <1>3, <1>4, SignerAssumption

\* A queue without repetition is as long as the set of its members.
LEMMA QueueCounts ==
    ASSUME NEW q \in Seq(Calls), \A i, j \in DOMAIN q : q[i] = q[j] => i = j
    PROVE  Cardinality({q[i] : i \in DOMAIN q}) = Len(q)
<1>1. Len(q) \in Nat /\ DOMAIN q = 1..Len(q)
  BY LenProperties
<1> DEFINE W == {q[i] : i \in DOMAIN q}
<1>2. q \in [1..Len(q) -> W] /\ \A w \in W : \E i \in 1..Len(q) : q[i] = w
  BY <1>1, LenProperties
<1>3. q \in Bijection(1..Len(q), W)
  BY <1>1, <1>2 DEF Bijection, Injection, Surjection, IsInjective
<1>4. ExistsBijection(1..Len(q), W)
  BY <1>3 DEF ExistsBijection
<1> HIDE DEF W
<1>5. Cardinality(W) = Len(q)
  BY <1>1, <1>4, FS_CountingElements
<1> QED
  BY <1>5 DEF W

\* The inductive form says no less.
LEMMA SlotsInvExact ==
    ASSUME SlotsInv
    PROVE  SlotsExact
<1>1. Cardinality(Waiting) = Len(queue)
  BY QueueCounts DEF SlotsInv, Waiting
<1> QED
  BY <1>1 DEF SlotsInv, SlotsExact, Busy, Queued

\* execute: the call is refused, takes a free slot or waits.
LEMMA ExecuteSlots ==
    ASSUME SlotsInv, NEW c \in Calls, Execute(c)
    PROVE  SlotsInv'
<1>1. /\ IsFiniteSet(Busy) /\ active \in Nat /\ Concurrency \in Nat /\ Capacity \in Nat
      /\ Len(queue) \in Nat /\ DOMAIN queue = 1..Len(queue)
      /\ \A i \in 1..Len(queue) : queue[i] \in Calls /\ call[queue[i]] = "queued"
  BY SlotFields
<1>2. /\ call \in [Calls -> Places] /\ call[c] = "new" /\ closed' = closed
      /\ c \notin Busy /\ c \notin Queued /\ active = Cardinality(Busy)
  BY DEF SlotsInv, Execute, Busy, Queued
<1>3. CASE call' = [call EXCEPT ![c] = "done"] /\ UNCHANGED <<queue, active>>
  <2>1. Busy' = Busy /\ Queued' = Queued /\ call' \in [Calls -> Places]
    BY <1>2, <1>3 DEF Busy, Queued, Places
  <2> QED
    BY <1>2, <1>3, <2>1 DEF SlotsInv, Waiting
<1>4. CASE /\ ~closed /\ Len(queue) < Capacity /\ FreeSlot /\ active' = active + 1
           /\ call' = [call EXCEPT ![c] = "running"] /\ UNCHANGED queue
  <2>1. Busy' = Busy \cup {c} /\ Queued' = Queued /\ call' \in [Calls -> Places]
    BY <1>2, <1>4 DEF Busy, Queued, Places
  <2>2. Cardinality(Busy \cup {c}) = Cardinality(Busy) + 1
    BY <1>1, <1>2, FS_AddElement
  <2>3. queue = <<>> /\ active + 1 <= Concurrency
    BY <1>1, <1>4 DEF SlotsInv, FreeSlot
  <2> QED
    BY <1>2, <1>4, <2>1, <2>2, <2>3 DEF SlotsInv, Waiting
<1>5. CASE /\ ~closed /\ Len(queue) < Capacity /\ ~FreeSlot /\ queue' = Append(queue, c)
           /\ call' = [call EXCEPT ![c] = "queued"] /\ UNCHANGED active
  <2>1. Busy' = Busy /\ Queued' = Queued \cup {c} /\ call' \in [Calls -> Places]
    BY <1>2, <1>5 DEF Busy, Queued, Places
  <2>2. /\ queue' \in Seq(Calls) /\ Len(queue') = Len(queue) + 1
        /\ \A i \in 1..Len(queue) : queue'[i] = queue[i]
        /\ queue'[Len(queue) + 1] = c
    BY <1>5, AppendProperties DEF SlotsInv
  <2>3. DOMAIN queue' = 1..(Len(queue) + 1)
    BY <2>2, LenProperties
  <2>4. Waiting' = Queued'
    <3>1. Waiting' = Waiting \cup {c}
      BY <1>1, <2>2, <2>3 DEF Waiting
    <3> QED
      BY <2>1, <3>1 DEF SlotsInv
  <2>5. \A i, j \in DOMAIN queue' : queue'[i] = queue'[j] => i = j
    <3> TAKE i, j \in DOMAIN queue'
    <3>1. \A k \in 1..Len(queue) : queue[k] # c
      BY <1>1, <1>2
    <3>2. i \in 1..Len(queue) \/ i = Len(queue) + 1
      BY <1>1, <2>3
    <3>3. j \in 1..Len(queue) \/ j = Len(queue) + 1
      BY <1>1, <2>3
    <3> QED
      BY <1>1, <2>2, <3>1, <3>2, <3>3 DEF SlotsInv
  <2>6. active = Concurrency /\ Len(queue) + 1 <= Capacity
    BY <1>1, <1>5 DEF SlotsInv, FreeSlot
  <2> QED
    BY <1>2, <1>5, <2>1, <2>2, <2>4, <2>5, <2>6 DEF SlotsInv
<1> QED
  BY <1>3, <1>4, <1>5 DEF Execute

\* The caller has its result; the slot is not free yet.
LEMMA SettleSlots ==
    ASSUME SlotsInv, NEW c \in Calls, Settle(c)
    PROVE  SlotsInv'
<1>1. Busy' = Busy /\ Queued' = Queued /\ call' \in [Calls -> Places]
  BY DEF SlotsInv, Settle, Busy, Queued, Places
<1> QED
  BY <1>1 DEF SlotsInv, Settle, Waiting

\* finally: the slot is freed or handed to the head of the queue.
LEMMA ReleaseSlots ==
    ASSUME SlotsInv, NEW c \in Calls, Release(c)
    PROVE  SlotsInv'
<1>1. /\ IsFiniteSet(Busy) /\ active \in Nat /\ Concurrency \in Nat /\ Capacity \in Nat
      /\ Len(queue) \in Nat /\ DOMAIN queue = 1..Len(queue)
      /\ \A i \in 1..Len(queue) : queue[i] \in Calls /\ call[queue[i]] = "queued"
  BY SlotFields
<1>2. /\ call \in [Calls -> Places] /\ call[c] = "settled" /\ closed' = closed
      /\ c \in Busy /\ c \notin Queued /\ active = Cardinality(Busy) /\ queue \in Seq(Calls)
  BY DEF SlotsInv, Release, Busy, Queued
<1>3. Cardinality(Busy \ {c}) = active - 1 /\ IsFiniteSet(Busy \ {c})
  BY <1>1, <1>2, FS_RemoveElement
<1>4. CASE queue = <<>>
  <2>1. active' = active - 1 /\ call' = [call EXCEPT ![c] = "done"] /\ queue' = queue
    BY <1>4 DEF Release
  <2>2. Busy' = Busy \ {c} /\ Queued' = Queued /\ call' \in [Calls -> Places]
    BY <1>2, <2>1 DEF Busy, Queued, Places
  <2>3. active - 1 <= Concurrency
    BY <1>1 DEF SlotsInv
  <2> QED
    BY <1>2, <1>3, <1>4, <2>1, <2>2, <2>3 DEF SlotsInv, Waiting
<1>5. CASE queue # <<>>
  <2>1. PICK h \in Calls : h = Head(queue)
    BY <1>2, <1>5, HeadTailProperties
  <2>2. /\ queue' \in Seq(Calls) /\ Len(queue') = Len(queue) - 1
        /\ \A i \in 1..Len(queue') : queue'[i] = queue[i + 1]
        /\ queue' = Tail(queue)
    <3>1. queue' = Tail(queue)
      BY <1>5 DEF Release
    <3> QED
      BY <1>2, <1>5, <3>1, HeadTailProperties
  <2>3. /\ call' = [call EXCEPT ![c] = "done", ![h] = "running"]
        /\ UNCHANGED <<active, closed>>
    BY <1>5, <2>1 DEF Release
  <2>4. Len(queue) >= 1 /\ h = queue[1] /\ call[h] = "queued"
    <3>1. Len(queue) # 0
      BY <1>2, <1>5, EmptySeq
    <3> QED
      BY <1>1, <1>2, <1>5, <2>1, <3>1
  <2>5. h # c /\ h \notin Busy
    BY <1>2, <2>4 DEF Busy
  <2>6. /\ Busy' = (Busy \ {c}) \cup {h} /\ Queued' = Queued \ {h} /\ call' \in [Calls -> Places]
    <3>1. /\ call' \in [Calls -> Places] /\ call'[c] = "done" /\ call'[h] = "running"
          /\ \A k \in Calls : k # c /\ k # h => call'[k] = call[k]
      BY <1>2, <2>3, <2>5 DEF Places
    <3> QED
      BY <1>2, <2>4, <2>5, <3>1 DEF Busy, Queued
  <2>7. Cardinality((Busy \ {c}) \cup {h}) = active
    <3>1. Cardinality((Busy \ {c}) \cup {h}) = Cardinality(Busy \ {c}) + 1
      <4>1. PICK B : B = Busy \ {c}
        OBVIOUS
      <4>2. IsFiniteSet(B) /\ h \notin B
        BY <1>3, <2>5, <4>1
      <4> QED
        BY <4>1, <4>2, FS_AddElement
    <3> QED
      BY <1>1, <1>3, <3>1
  <2>8. DOMAIN queue' = 1..(Len(queue) - 1)
    BY <2>2, LenProperties
  <2>9. \A i, j \in DOMAIN queue' : queue'[i] = queue'[j] => i = j
    <3> TAKE i, j \in DOMAIN queue'
    <3>1. /\ i + 1 \in DOMAIN queue /\ j + 1 \in DOMAIN queue
          /\ queue'[i] = queue[i + 1] /\ queue'[j] = queue[j + 1] /\ i \in Int /\ j \in Int
      BY <1>1, <2>2, <2>8
    <3>2. queue[i + 1] = queue[j + 1] => i + 1 = j + 1
      BY <3>1 DEF SlotsInv
    <3> QED
      BY <3>1, <3>2
  <2>10. Waiting' = Waiting \ {h}
    <3>1. \A i \in DOMAIN queue : i # 1 => queue[i] # h
      BY <1>1, <2>4 DEF SlotsInv
    <3>2. ASSUME NEW w \in Waiting' PROVE w \in Waiting \ {h}
      <4>1. PICK i \in DOMAIN queue' : w = queue'[i]
        BY <3>2 DEF Waiting
      <4>2. i + 1 \in DOMAIN queue /\ i + 1 # 1 /\ w = queue[i + 1]
        BY <1>1, <2>2, <2>8, <4>1
      <4> QED
        BY <3>1, <4>2 DEF Waiting
    <3>3. ASSUME NEW w \in Waiting \ {h} PROVE w \in Waiting'
      <4>1. PICK i \in DOMAIN queue : w = queue[i]
        BY <3>3 DEF Waiting
      <4>2. i # 1
        BY <2>4, <3>3, <4>1
      <4>3. i - 1 \in 1..(Len(queue) - 1) /\ i \in Int
        BY <1>1, <4>2
      <4>4. queue'[i - 1] = queue[(i - 1) + 1]
        BY <2>2, <4>3
      <4>5. queue'[i - 1] = w
        BY <4>1, <4>3, <4>4
      <4> QED
        BY <2>8, <4>3, <4>5 DEF Waiting
    <3> QED
      BY <3>2, <3>3
  <2>11. Waiting' = Queued'
    BY <2>6, <2>10 DEF SlotsInv
  <2>12. Len(queue) - 1 <= Capacity /\ active = Concurrency /\ ~closed
    BY <1>1, <1>5 DEF SlotsInv
  <2> QED
    BY <1>1, <1>2, <2>2, <2>3, <2>6, <2>7, <2>9, <2>11, <2>12 DEF SlotsInv
<1> QED
  BY <1>4, <1>5

\* close: the queue is emptied, what holds a slot keeps it.
LEMMA CloseSlots ==
    ASSUME SlotsInv, CloseExecutor
    PROVE  SlotsInv'
<1>1. call' \in [Calls -> Places] /\ \A c \in Calls :
         call'[c] = IF call[c] = "queued" THEN "done" ELSE call[c]
  BY DEF SlotsInv, CloseExecutor, Places
<1>2. Busy' = Busy /\ Queued' = {}
  BY <1>1 DEF Busy, Queued
<1>3. queue' = <<>> /\ queue' \in Seq(Calls) /\ Len(queue') = 0 /\ DOMAIN queue' = {}
  BY EmptySeq DEF CloseExecutor
<1>4. Waiting' = {}
  BY <1>3 DEF Waiting
<1>5. 0 <= Capacity
  BY SlotFields
<1> QED
  BY <1>1, <1>2, <1>3, <1>4, <1>5 DEF SlotsInv, CloseExecutor

\* A step that is none of the signer's.
LEMMA QuietSlots ==
    ASSUME SlotsInv, UNCHANGED executor
    PROVE  SlotsInv'
BY DEF SlotsInv, executor, Busy, Queued, Waiting

-----------------------------------------------------------------------------
(* Health and shutdown *)

(***************************************************************************)
(* A connection that is up has its indicator; from listen to the signal    *)
(* all are up; the process is ready in between; and a probe that runs was  *)
(* started when it was.                                                    *)
(***************************************************************************)
HealthInv ==
    /\ phase \in {"starting", "ready", "draining"}
    /\ boot \in {"init", "listening", "up", "failed"}
    /\ http \in {"down", "open", "closing", "closed"}
    /\ conn \in [Deps -> {"down", "up", "closing", "closed"}]
    /\ indicators \subseteq Deps
    /\ probe \in [busy : BOOLEAN, todo : SUBSET Deps, started : SUBSET Deps, healthy : BOOLEAN]
    /\ report \in [status : {"none", "ok", "unavailable"}, probed : SUBSET Deps]
    /\ shutdown \in {"none", "closing", "stopped"}
    /\ exitCode \in {0, 1}
    /\ \A d \in Deps : conn[d] = "up" => d \in indicators
    /\ boot \in {"listening", "up"} /\ shutdown = "none" => \A d \in Deps : conn[d] = "up"
    /\ shutdown # "none" => boot = "up"
    /\ phase = "ready" => boot = "up" /\ shutdown = "none"
    /\ probe.busy => probe.started = Deps
    /\ OkMeansProbed

\* Starting up.
LEMMA StartHealth ==
    ASSUME HealthInv,
           InitPostgres \/ InitRedis \/ InitSigner \/ StartFail \/ Listen \/ MarkReady
    PROVE  HealthInv'
<1>1. ASSUME NEW d \in Deps, Register(d)
      PROVE  HealthInv'
  BY <1>1 DEF HealthInv, Register, OkMeansProbed, lifecycle, health, closing
<1>2. CASE InitPostgres \/ InitRedis \/ InitSigner
  BY <1>1, <1>2 DEF InitPostgres, InitRedis, InitSigner, Deps
<1>3. CASE StartFail
  BY <1>3 DEF HealthInv, StartFail, OkMeansProbed, health
<1>4. CASE Listen
  BY <1>4 DEF HealthInv, Listen, OkMeansProbed, health, closing
<1>5. CASE MarkReady
  BY <1>5 DEF HealthInv, MarkReady, OkMeansProbed, health, closing
<1> QED
  BY <1>2, <1>3, <1>4, <1>5

\* The readiness probe and its report.
LEMMA ReportHealth ==
    ASSUME HealthInv, Readiness \/ Report \/ \E d \in Deps, ok \in BOOLEAN : CheckOne(d, ok)
    PROVE  HealthInv'
<1>1. /\ NoProbe \in [busy : BOOLEAN, todo : SUBSET Deps, started : SUBSET Deps, healthy : BOOLEAN]
      /\ ~NoProbe.busy
  BY DEF NoProbe
<1>2. UNCHANGED <<lifecycle, conn, indicators, closing>>
  BY DEF Readiness, Report, CheckOne
<1>3. ASSUME NEW st \in {"ok", "unavailable"}, NEW P \in SUBSET Deps, Answered(st, P),
             st = "ok" => P = Deps
      PROVE  HealthInv'
  <2>1. /\ report' \in [status : {"none", "ok", "unavailable"}, probed : SUBSET Deps]
        /\ report'.status = st /\ report'.probed = P /\ probe' = NoProbe
    BY <1>3 DEF Answered
  <2> QED
    BY <1>1, <1>2, <1>3, <2>1 DEF HealthInv, OkMeansProbed, lifecycle, closing
<1>4. CASE Readiness
  <2>1. CASE phase = "ready"
    <3>1. indicators = Deps
      BY <2>1 DEF HealthInv
    <3>2. /\ probe' = [busy |-> TRUE, todo |-> Deps, started |-> Deps, healthy |-> TRUE]
          /\ report' = report
      BY <1>4, <2>1, <3>1 DEF Readiness, Probing
    <3>3. /\ probe' \in [busy : BOOLEAN, todo : SUBSET Deps, started : SUBSET Deps, healthy : BOOLEAN]
          /\ probe'.started = Deps
      BY <3>2
    <3> QED
      BY <1>2, <3>2, <3>3 DEF HealthInv, OkMeansProbed, lifecycle, closing
  <2>2. CASE phase # "ready"
    BY <1>3, <1>4, <2>2 DEF Readiness
  <2> QED
    BY <2>1, <2>2
<1>5. CASE Report
  <2>1. PICK st \in {"ok", "unavailable"} : st = IF probe.healthy THEN "ok" ELSE "unavailable"
    OBVIOUS
  <2>2. PICK P \in SUBSET Deps : P = probe.started
    BY DEF HealthInv
  <2>3. Answered(st, P) /\ P = Deps
    BY <1>5, <2>1, <2>2 DEF Report, HealthInv
  <2> QED
    BY <1>3, <2>3
<1>6. ASSUME NEW d \in Deps, NEW ok \in BOOLEAN, CheckOne(d, ok)
      PROVE  HealthInv'
  <2>1. PICK T \in SUBSET Deps : T = probe.todo \ {d}
    BY DEF HealthInv
  <2>2. PICK w \in BOOLEAN : w = (probe.healthy /\ ok)
    OBVIOUS
  <2>3. probe' = [probe EXCEPT !.todo = T, !.healthy = w] /\ report' = report
    BY <1>6, <2>1, <2>2 DEF CheckOne
  <2>4. /\ probe' \in [busy : BOOLEAN, todo : SUBSET Deps, started : SUBSET Deps, healthy : BOOLEAN]
        /\ probe'.busy = probe.busy /\ probe'.started = probe.started
    BY <2>3 DEF HealthInv
  <2> QED
    BY <1>2, <2>3, <2>4 DEF HealthInv, OkMeansProbed, lifecycle, closing
<1> QED
  BY <1>4, <1>5, <1>6

\* The shutdown takes the indicators away only after the process stopped being ready.
LEMMA ShutdownHealth ==
    ASSUME HealthInv,
           \/ Signal \/ DestroyPostgres \/ DestroyRedis \/ DestroySigner
           \/ Dispose \/ ServerClosed \/ Stopped \/ Deadline
    PROVE  HealthInv'
<1>1. CASE Signal
  BY <1>1 DEF HealthInv, Signal, OkMeansProbed, health
<1>2. ASSUME NEW d \in Deps, Destroy(d)
      PROVE  HealthInv'
  BY <1>2 DEF HealthInv, Destroy, HookTurn, OkMeansProbed, lifecycle, health, closing
<1>3. ASSUME NEW d \in Deps, Closed(d)
      PROVE  HealthInv'
  BY <1>3 DEF HealthInv, Closed, OkMeansProbed, lifecycle, health, closing
<1>4. CASE DestroyPostgres \/ DestroyRedis
  BY <1>2, <1>3, <1>4 DEF DestroyPostgres, DestroyRedis, Deps
<1>5. CASE DestroySigner
  <2>1. Signer \in Deps
    BY DEF Deps
  <2> QED
    BY <1>5, <2>1 DEF HealthInv, DestroySigner, HookTurn, OkMeansProbed, lifecycle, health, closing
<1>6. CASE Dispose \/ ServerClosed \/ Stopped \/ Deadline
  BY <1>6 DEF HealthInv, Dispose, ServerClosed, Stopped, Deadline, OkMeansProbed,
     lifecycle, health, closing
<1> QED
  BY <1>1, <1>4, <1>5, <1>6

-----------------------------------------------------------------------------
(* The theorems on the process *)

\* The inductive invariant of the process.
ProcessInv == SlotsInv /\ HealthInv

\* The process has not been started.
LEMMA ProcessInit == Init => ProcessInv
<1> SUFFICES ASSUME Init PROVE ProcessInv
  OBVIOUS
<1>1. SlotsInv
  <2>1. Busy = {} /\ Queued = {} /\ call \in [Calls -> Places]
    BY DEF Init, ExecutorInit, Busy, Queued, Places
  <2>2. queue = <<>> /\ queue \in Seq(Calls) /\ Len(queue) = 0 /\ DOMAIN queue = {}
    BY EmptySeq DEF Init, ExecutorInit
  <2>3. Waiting = {}
    BY <2>2 DEF Waiting
  <2>4. Cardinality({}) = 0
    BY FS_EmptySet
  <2>5. active = 0 /\ closed = FALSE /\ 0 <= Concurrency /\ 0 <= Capacity
    BY SignerAssumption DEF Init, ExecutorInit
  <2> QED
    BY <2>1, <2>2, <2>3, <2>4, <2>5 DEF SlotsInv
<1>2. HealthInv
  <2>1. /\ NoProbe \in [busy : BOOLEAN, todo : SUBSET Deps, started : SUBSET Deps, healthy : BOOLEAN]
        /\ ~NoProbe.busy
    BY DEF NoProbe
  <2> QED
    BY <2>1 DEF Init, HealthInv, OkMeansProbed
<1> QED
  BY <1>1, <1>2 DEF ProcessInv

\* Every step keeps the invariant.
LEMMA ProcessStep == ProcessInv /\ [Next]_vars => ProcessInv'
<1> SUFFICES ASSUME SlotsInv, HealthInv, [Next]_vars PROVE SlotsInv' /\ HealthInv'
  BY DEF ProcessInv
<1>1. CASE InitPostgres \/ InitRedis \/ InitSigner \/ StartFail \/ Listen \/ MarkReady
  <2>1. UNCHANGED executor
    BY <1>1 DEF InitPostgres, InitRedis, InitSigner, Register, StartFail, Listen, MarkReady
  <2> QED
    BY <1>1, <2>1, QuietSlots, StartHealth
<1>2. CASE Readiness \/ Report \/ \E d \in Deps, ok \in BOOLEAN : CheckOne(d, ok)
  <2>1. UNCHANGED executor
    BY <1>2 DEF Readiness, Report, CheckOne
  <2> QED
    BY <1>2, <2>1, QuietSlots, ReportHealth
<1>3. CASE \/ Signal \/ DestroyPostgres \/ DestroyRedis
           \/ Dispose \/ ServerClosed \/ Stopped \/ Deadline
  <2>1. UNCHANGED executor
    BY <1>3 DEF Signal, DestroyPostgres, DestroyRedis, Destroy, Closed, Dispose, ServerClosed,
       Stopped, Deadline
  <2> QED
    BY <1>3, <2>1, QuietSlots, ShutdownHealth
<1>4. CASE DestroySigner
  BY <1>4, CloseSlots, ShutdownHealth DEF DestroySigner
<1>5. ASSUME NEW c \in Calls, Sign(c) \/ SignerStep(c)
      PROVE  SlotsInv' /\ HealthInv'
  <2>1. SlotsInv'
    BY <1>5, ExecuteSlots, SettleSlots, ReleaseSlots DEF Sign, SignerStep
  <2>2. HealthInv'
    BY <1>5 DEF HealthInv, Sign, SignerStep, OkMeansProbed, lifecycle, health, closing
  <2> QED
    BY <2>1, <2>2
<1>6. CASE UNCHANGED vars
  <2>1. HealthInv'
    BY <1>6 DEF vars, HealthInv, OkMeansProbed, lifecycle, health, closing
  <2> QED
    BY <1>6, <2>1, QuietSlots DEF vars
<1> QED
  BY <1>1, <1>2, <1>3, <1>4, <1>5, <1>6 DEF Next

\* The invariant of the process.
LEMMA ProcessInvariance == Spec => []ProcessInv
BY ProcessInit, ProcessStep, PTL DEF Spec

\* Type correctness of the process.
THEOREM ProcessTypes == Spec => []TypeOK
<1>1. ProcessInv => TypeOK
  BY DEF ProcessInv, SlotsInv, HealthInv, TypeOK
<1>2. QED
  BY <1>1, ProcessInvariance, PTL

\* BoundedSignerExecutor counts its slots exactly and never exceeds them, holds
\* each waiting call once, and keeps nobody waiting while a slot is free.
THEOREM SlotsAreExact == Spec => []SlotsExact
<1>1. ProcessInv => SlotsExact
  BY SlotsInvExact DEF ProcessInv
<1>2. QED
  BY <1>1, ProcessInvariance, PTL

\* A readiness report that says ok rests on a probe of every mandatory dependency,
\* although the shutdown unregisters them while reports are being built.
THEOREM OkRestsOnProbes == Spec => []OkMeansProbed
<1>1. ProcessInv => OkMeansProbed
  BY DEF ProcessInv, HealthInv
<1>2. QED
  BY <1>1, ProcessInvariance, PTL

\* Once close has emptied the queue, no call of sign waits again.
THEOREM NobodyWaitsOnClosed ==
    Spec => [](closed => \A c \in Calls : call[c] # "queued")
<1>1. ProcessInv => (closed => \A c \in Calls : call[c] # "queued")
  <2> SUFFICES ASSUME SlotsInv, closed, NEW c \in Calls PROVE call[c] # "queued"
    BY DEF ProcessInv
  <2>1. queue = <<>> /\ Waiting = Queued
    BY DEF SlotsInv
  <2>2. Waiting = {}
    BY <2>1 DEF Waiting
  <2> QED
    BY <2>1, <2>2 DEF Queued
<1>2. QED
  BY <1>1, ProcessInvariance, PTL

-----------------------------------------------------------------------------
(* The migration runner: the inductive invariant *)

\* Between the grant of the advisory lock and the end of run.
Holding == {"verify", "load", "apply", "insert", "commit", "committed"}
Verified == Holding \ {"verify"}
Loaded == Verified \ {"load"}

\* The files of r that have no row, and: all of them have theirs.
Missing(r) == {v \in Versions \ Applied : files[r][v] # None}
Installed(r) == \A v \in Versions : files[r][v] # None => history[v] = files[r][v]

\* What one process relies on: nobody else writes the history while it holds
\* the lock, so what it verified and loaded is still so, its transaction is
\* one of a file without a row, and its success remains true.
RunnerInv(r) ==
    /\ runner[r].phase \in Holding => lock = r
    /\ runner[r].phase \in Verified => Matches(r)
    /\ runner[r].phase \in Loaded => runner[r].todo = Missing(r)
    /\ runner[r].tx \subseteq runner[r].todo
    /\ runner[r].tx # {} => runner[r].phase \in {"insert", "commit"}
    /\ runner[r].outcome = "ok" => /\ runner[r].phase \in {"unlock", "closing", "ended"}
                                   /\ Installed(r)

MigrationInv == MigrationTypeOK /\ AppliedOnce /\ \A r \in Runners : RunnerInv(r)

-----------------------------------------------------------------------------
(* Steps that leave the database alone *)

\* The lock is kept, or it passes from or to r.
LockStep(r) ==
    \/ lock' = lock
    \/ lock = None /\ lock' = r
    \/ lock = r /\ lock' = None

\* A step of r that leaves the tables alone disturbs nobody else.
LEMMA QuietStep ==
  ASSUME MigrationInv,
         NEW r \in Runners, NEW n \in Runner,
         runner' = [runner EXCEPT ![r] = n],
         UNCHANGED <<files, history, schema>>,
         LockStep(r), RunnerInv(r)'
  PROVE  MigrationInv'
<1>1. MigrationTypeOK'
  BY DEF MigrationInv, MigrationTypeOK, LockStep
<1>2. AppliedOnce'
  BY DEF MigrationInv, AppliedOnce
<1>3. ASSUME NEW q \in Runners
      PROVE  RunnerInv(q)'
  <2>1. CASE q = r
    BY <2>1
  <2>2. CASE q # r
    <3>1. runner'[q] = runner[q] /\ RunnerInv(q)
      BY <2>2 DEF MigrationInv, MigrationTypeOK
    <3>2. lock = q => lock' = q
      BY <2>2, MigrationAssumption DEF LockStep
    <3>3. QED
      BY <3>1, <3>2 DEF RunnerInv, Matches, Missing, Installed, Applied
  <2>3. QED
    BY <2>1, <2>2
<1>4. QED
  BY <1>1, <1>2, <1>3 DEF MigrationInv

\* An error leaves the process without a transaction and without a success.
LEMMA RaiseStep ==
  ASSUME MigrationInv,
         NEW r \in Runners, Raise(r), runner[r].outcome # "ok",
         UNCHANGED <<files, history, schema>>, LockStep(r)
  PROVE  MigrationInv'
<1> DEFINE n == [runner[r] EXCEPT !.phase = "unlock", !.tx = {}, !.outcome = "error"]
<1>1. runner[r] \in Runner
  BY DEF MigrationInv, MigrationTypeOK
<1>2. n \in Runner /\ n.phase = "unlock" /\ n.tx = {} /\ n.outcome = "error"
  BY <1>1 DEF Runner, Phases
<1>3. runner' = [runner EXCEPT ![r] = n]
  BY DEF MigrationInv, MigrationTypeOK, Raise
<1> HIDE DEF n
<1>4. runner'[r] = n
  BY <1>3 DEF MigrationInv, MigrationTypeOK
<1>5. RunnerInv(r)'
  BY <1>2, <1>4 DEF RunnerInv, Holding, Verified, Loaded
<1>6. QED
  BY <1>2, <1>3, <1>5, QuietStep

-----------------------------------------------------------------------------
(* The steps of run *)

LEMMA StartStep ==
  ASSUME MigrationInv,
         NEW r \in Runners, Start(r)
  PROVE  MigrationInv'
<1> DEFINE n == [runner[r] EXCEPT !.phase = "locking"]
<1>1. runner[r] \in Runner /\ RunnerInv(r)
  BY DEF MigrationInv, MigrationTypeOK
<1>2. /\ n \in Runner /\ n.phase = "locking"
      /\ n.tx = runner[r].tx /\ n.todo = runner[r].todo /\ n.outcome = runner[r].outcome
  BY <1>1 DEF Runner, Phases
<1>3. runner' = [runner EXCEPT ![r] = n]
  BY DEF MigrationInv, MigrationTypeOK, Start, Go
<1> HIDE DEF n
<1>4. runner'[r] = n
  BY <1>3 DEF MigrationInv, MigrationTypeOK
<1>5. runner[r].tx = {} /\ runner[r].outcome # "ok"
  BY <1>1 DEF Start, Client, At, RunnerInv
<1>6. RunnerInv(r)'
  BY <1>1, <1>2, <1>4, <1>5 DEF RunnerInv, Holding, Verified, Loaded
<1>7. QED
  BY <1>2, <1>3, <1>6, QuietStep DEF Start, LockStep

LEMMA LockGranted ==
  ASSUME MigrationInv,
         NEW r \in Runners, Lock(r)
  PROVE  MigrationInv'
<1> DEFINE n == [runner[r] EXCEPT !.phase = "verify"]
<1>1. runner[r] \in Runner /\ RunnerInv(r)
  BY DEF MigrationInv, MigrationTypeOK
<1>2. /\ n \in Runner /\ n.phase = "verify"
      /\ n.tx = runner[r].tx /\ n.todo = runner[r].todo /\ n.outcome = runner[r].outcome
  BY <1>1 DEF Runner, Phases
<1>3. runner' = [runner EXCEPT ![r] = n]
  BY DEF MigrationInv, MigrationTypeOK, Lock, Go
<1> HIDE DEF n
<1>4. runner'[r] = n
  BY <1>3 DEF MigrationInv, MigrationTypeOK
<1>5. runner[r].tx = {} /\ runner[r].outcome # "ok" /\ lock' = r
  BY <1>1 DEF Lock, At, RunnerInv
<1>6. RunnerInv(r)'
  BY <1>1, <1>2, <1>4, <1>5 DEF RunnerInv, Holding, Verified, Loaded
<1>7. QED
  BY <1>2, <1>3, <1>6, QuietStep DEF Lock, LockStep

\* verifyAppliedMigrations compares under the lock: the comparison lasts.
LEMMA VerifyStep ==
  ASSUME MigrationInv,
         NEW r \in Runners, Verify(r)
  PROVE  MigrationInv'
<1>1. runner[r] \in Runner /\ RunnerInv(r)
  BY DEF MigrationInv, MigrationTypeOK
<1>2. runner[r].tx = {} /\ runner[r].outcome # "ok" /\ lock = r
  BY <1>1 DEF Verify, Client, At, RunnerInv, Holding
<1>3. CASE ~Matches(r)
  BY <1>2, <1>3, RaiseStep DEF Verify, LockStep
<1>4. CASE Matches(r)
  <2> DEFINE n == [runner[r] EXCEPT !.phase = "load"]
  <2>2. /\ n \in Runner /\ n.phase = "load"
        /\ n.tx = runner[r].tx /\ n.todo = runner[r].todo /\ n.outcome = runner[r].outcome
    BY <1>1 DEF Runner, Phases
  <2>3. runner' = [runner EXCEPT ![r] = n]
    BY <1>4 DEF MigrationInv, MigrationTypeOK, Verify, Go
  <2> HIDE DEF n
  <2>4. runner'[r] = n
    BY <2>3 DEF MigrationInv, MigrationTypeOK
  <2>5. Matches(r)' /\ lock' = r
    BY <1>2, <1>4 DEF Verify, Matches, Applied
  <2>6. RunnerInv(r)'
    BY <1>2, <2>2, <2>4, <2>5 DEF RunnerInv, Holding, Verified, Loaded
  <2>7. QED
    BY <2>2, <2>3, <2>6, QuietStep DEF Verify, LockStep
<1>5. QED
  BY <1>3, <1>4

LEMMA LoadStep ==
  ASSUME MigrationInv,
         NEW r \in Runners, Load(r)
  PROVE  MigrationInv'
<1> DEFINE n == [runner[r] EXCEPT !.phase = "apply", !.todo = Missing(r)]
<1>1. runner[r] \in Runner /\ RunnerInv(r)
  BY DEF MigrationInv, MigrationTypeOK
<1>2. Missing(r) \subseteq Versions
  BY DEF Missing
<1>3. /\ n \in Runner /\ n.phase = "apply" /\ n.todo = Missing(r)
      /\ n.tx = runner[r].tx /\ n.outcome = runner[r].outcome
  BY <1>1, <1>2 DEF Runner, Phases
<1>4. runner' = [runner EXCEPT ![r] = n]
  BY DEF MigrationInv, MigrationTypeOK, Load, Missing
<1> HIDE DEF n
<1>5. runner'[r] = n
  BY <1>4 DEF MigrationInv, MigrationTypeOK
<1>6. runner[r].tx = {} /\ runner[r].outcome # "ok" /\ lock = r /\ Matches(r)
  BY <1>1 DEF Load, Client, At, RunnerInv, Holding, Verified
<1>7. Matches(r)' /\ lock' = r /\ Missing(r)' = Missing(r)
  BY <1>6 DEF Load, Matches, Missing, Applied
<1>8. RunnerInv(r)'
  BY <1>3, <1>5, <1>6, <1>7 DEF RunnerInv, Holding, Verified, Loaded
<1>9. QED
  BY <1>3, <1>4, <1>8, QuietStep DEF Load, LockStep

LEMMA ApplyStep ==
  ASSUME MigrationInv,
         NEW r \in Runners, NEW v \in Versions, Apply(r, v)
  PROVE  MigrationInv'
<1> DEFINE n == [runner[r] EXCEPT !.phase = "insert", !.tx = {v}]
<1>1. runner[r] \in Runner /\ RunnerInv(r)
  BY DEF MigrationInv, MigrationTypeOK
<1>2. /\ n \in Runner /\ n.phase = "insert" /\ n.tx = {v}
      /\ n.todo = runner[r].todo /\ n.outcome = runner[r].outcome
  BY <1>1 DEF Runner, Phases
<1>3. runner' = [runner EXCEPT ![r] = n]
  BY DEF MigrationInv, MigrationTypeOK, Apply
<1> HIDE DEF n
<1>4. runner'[r] = n
  BY <1>3 DEF MigrationInv, MigrationTypeOK
<1>5. /\ runner[r].outcome # "ok" /\ lock = r /\ Matches(r)
      /\ runner[r].todo = Missing(r) /\ v \in runner[r].todo
  BY <1>1 DEF Apply, Client, At, RunnerInv, Holding, Verified, Loaded
<1>6. Matches(r)' /\ lock' = r /\ Missing(r)' = Missing(r)
  BY <1>5 DEF Apply, Matches, Missing, Applied
<1>7. RunnerInv(r)'
  BY <1>2, <1>4, <1>5, <1>6 DEF RunnerInv, Holding, Verified, Loaded
<1>8. QED
  BY <1>2, <1>3, <1>7, QuietStep DEF Apply, LockStep

\* The primary key never stops a run that holds the lock.
LEMMA InsertStep ==
  ASSUME MigrationInv,
         NEW r \in Runners, Insert(r)
  PROVE  MigrationInv'
<1> DEFINE n == [runner[r] EXCEPT !.phase = "commit"]
<1>1. runner[r] \in Runner /\ RunnerInv(r)
  BY DEF MigrationInv, MigrationTypeOK
<1>2. /\ n \in Runner /\ n.phase = "commit"
      /\ n.tx = runner[r].tx /\ n.todo = runner[r].todo /\ n.outcome = runner[r].outcome
  BY <1>1 DEF Runner, Phases
<1>3. /\ runner[r].outcome # "ok" /\ lock = r /\ Matches(r)
      /\ runner[r].todo = Missing(r) /\ runner[r].tx \subseteq runner[r].todo
  BY <1>1 DEF Insert, Client, At, RunnerInv, Holding, Verified, Loaded
<1>4. runner[r].tx \cap Applied = {}
  BY <1>3 DEF Missing
<1>5. runner' = [runner EXCEPT ![r] = n]
  BY <1>4 DEF MigrationInv, MigrationTypeOK, Insert, Go
<1> HIDE DEF n
<1>6. runner'[r] = n
  BY <1>5 DEF MigrationInv, MigrationTypeOK
<1>7. Matches(r)' /\ lock' = r /\ Missing(r)' = Missing(r)
  BY <1>3 DEF Insert, Matches, Missing, Applied
<1>8. RunnerInv(r)'
  BY <1>2, <1>3, <1>6, <1>7 DEF RunnerInv, Holding, Verified, Loaded
<1>9. QED
  BY <1>2, <1>5, <1>8, QuietStep DEF Insert, LockStep

LEMMA CommittedStep ==
  ASSUME MigrationInv,
         NEW r \in Runners, Committed(r)
  PROVE  MigrationInv'
<1> DEFINE n == [runner[r] EXCEPT !.phase = "apply"]
<1>1. runner[r] \in Runner /\ RunnerInv(r)
  BY DEF MigrationInv, MigrationTypeOK
<1>2. /\ n \in Runner /\ n.phase = "apply"
      /\ n.tx = runner[r].tx /\ n.todo = runner[r].todo /\ n.outcome = runner[r].outcome
  BY <1>1 DEF Runner, Phases
<1>3. /\ runner[r].outcome # "ok" /\ lock = r /\ Matches(r) /\ runner[r].tx = {}
      /\ runner[r].todo = Missing(r)
  BY <1>1 DEF Committed, Client, At, RunnerInv, Holding, Verified, Loaded
<1>4. runner' = [runner EXCEPT ![r] = n]
  BY DEF MigrationInv, MigrationTypeOK, Committed, Go
<1> HIDE DEF n
<1>5. runner'[r] = n
  BY <1>4 DEF MigrationInv, MigrationTypeOK
<1>6. Matches(r)' /\ lock' = r /\ Missing(r)' = Missing(r)
  BY <1>3 DEF Committed, Matches, Missing, Applied
<1>7. RunnerInv(r)'
  BY <1>2, <1>3, <1>5, <1>6 DEF RunnerInv, Holding, Verified, Loaded
<1>8. QED
  BY <1>2, <1>4, <1>7, QuietStep DEF Committed, LockStep

\* Nothing is missing and everything matches: the success is earned.
LEMMA CompleteStep ==
  ASSUME MigrationInv,
         NEW r \in Runners, Complete(r)
  PROVE  MigrationInv'
<1> DEFINE n == [runner[r] EXCEPT !.phase = "unlock", !.outcome = "ok"]
<1>1. runner[r] \in Runner /\ RunnerInv(r)
  BY DEF MigrationInv, MigrationTypeOK
<1>2. /\ n \in Runner /\ n.phase = "unlock" /\ n.outcome = "ok"
      /\ n.tx = runner[r].tx /\ n.todo = runner[r].todo
  BY <1>1 DEF Runner, Phases
<1>3. /\ Matches(r) /\ runner[r].tx = {} /\ Missing(r) = {}
  BY <1>1 DEF Complete, Client, At, RunnerInv, Holding, Verified, Loaded
<1>4. runner' = [runner EXCEPT ![r] = n]
  BY DEF MigrationInv, MigrationTypeOK, Complete
<1> HIDE DEF n
<1>5. runner'[r] = n
  BY <1>4 DEF MigrationInv, MigrationTypeOK
<1>6. Installed(r)'
  BY <1>3 DEF Complete, Matches, Missing, Applied, Installed
<1>7. RunnerInv(r)'
  BY <1>2, <1>3, <1>5, <1>6 DEF RunnerInv, Holding, Verified, Loaded
<1>8. QED
  BY <1>2, <1>4, <1>7, QuietStep DEF Complete, LockStep

-----------------------------------------------------------------------------
(* The end of a process or of its session *)

LEMMA FailStep ==
  ASSUME MigrationInv,
         NEW r \in Runners, Fail(r) \/ Disconnect(r)
  PROVE  MigrationInv'
<1>1. RunnerInv(r)
  BY DEF MigrationInv
<1>2. runner[r].outcome # "ok"
  BY <1>1 DEF Fail, Disconnect, RunnerInv
<1>3. QED
  BY <1>2, RaiseStep DEF Fail, Disconnect, LockStep

LEMMA UnlockStep ==
  ASSUME MigrationInv,
         NEW r \in Runners, Unlock(r)
  PROVE  MigrationInv'
<1> DEFINE n == [runner[r] EXCEPT !.phase = "closing"]
<1>1. runner[r] \in Runner /\ RunnerInv(r)
  BY DEF MigrationInv, MigrationTypeOK
<1>2. /\ n \in Runner /\ n.phase = "closing"
      /\ n.tx = runner[r].tx /\ n.todo = runner[r].todo /\ n.outcome = runner[r].outcome
  BY <1>1 DEF Runner, Phases
<1>3. runner' = [runner EXCEPT ![r] = n]
  BY DEF MigrationInv, MigrationTypeOK, Unlock, Go
<1> HIDE DEF n
<1>4. runner'[r] = n
  BY <1>3 DEF MigrationInv, MigrationTypeOK
<1>5. /\ runner[r].tx = {}
      /\ runner[r].outcome = "ok" => Installed(r)'
  BY <1>1 DEF Unlock, Client, At, RunnerInv, Installed
<1>6. RunnerInv(r)'
  BY <1>2, <1>4, <1>5 DEF RunnerInv, Holding, Verified, Loaded
<1>7. LockStep(r)
  BY DEF Unlock, LockStep
<1>8. QED
  BY <1>2, <1>3, <1>6, <1>7, QuietStep DEF Unlock

\* The server goes on with a dead client's statement: nothing it holds is lost.
LEMMA CrashStep ==
  ASSUME MigrationInv,
         NEW r \in Runners, Crash(r)
  PROVE  MigrationInv'
<1> DEFINE n == [runner[r] EXCEPT !.alive = FALSE]
<1>1. runner[r] \in Runner /\ RunnerInv(r)
  BY DEF MigrationInv, MigrationTypeOK
<1>2. /\ n \in Runner /\ n.phase = runner[r].phase
      /\ n.tx = runner[r].tx /\ n.todo = runner[r].todo /\ n.outcome = runner[r].outcome
  BY <1>1 DEF Runner
<1>3. runner' = [runner EXCEPT ![r] = n]
  BY DEF MigrationInv, MigrationTypeOK, Crash
<1> HIDE DEF n
<1>4. runner'[r] = n
  BY <1>3 DEF MigrationInv, MigrationTypeOK
<1>5. RunnerInv(r)'
  BY <1>1, <1>2, <1>4 DEF Crash, RunnerInv,
     Matches, Missing, Installed, Applied
<1>6. QED
  BY <1>2, <1>3, <1>5, QuietStep DEF Crash, LockStep

LEMMA SessionEndStep ==
  ASSUME MigrationInv,
         NEW r \in Runners, SessionEnd(r)
  PROVE  MigrationInv'
<1> DEFINE n == [runner[r] EXCEPT !.phase = "ended", !.tx = {}]
<1>1. runner[r] \in Runner /\ RunnerInv(r)
  BY DEF MigrationInv, MigrationTypeOK
<1>2. /\ n \in Runner /\ n.phase = "ended" /\ n.tx = {}
      /\ n.todo = runner[r].todo /\ n.outcome = runner[r].outcome
  BY <1>1 DEF Runner, Phases
<1>3. runner' = [runner EXCEPT ![r] = n]
  BY DEF MigrationInv, MigrationTypeOK, SessionEnd
<1> HIDE DEF n
<1>4. runner'[r] = n
  BY <1>3 DEF MigrationInv, MigrationTypeOK
<1>5. runner[r].outcome = "ok" => Installed(r)'
  BY <1>1 DEF SessionEnd, RunnerInv, Installed
<1>6. RunnerInv(r)'
  BY <1>2, <1>4, <1>5 DEF RunnerInv, Holding, Verified, Loaded
<1>7. QED
  BY <1>2, <1>3, <1>6, QuietStep DEF SessionEnd, LockStep

-----------------------------------------------------------------------------
(* COMMIT *)

\* What the transaction writes is new: every row that exists keeps its
\* checksum, and a row that appears is one of the process's files.
LEMMA CommitWrites ==
  ASSUME MigrationInv, NEW r \in Runners, Commit(r)
  PROVE  /\ runner[r].tx \subseteq Missing(r)
         /\ \A v \in Versions : history[v] # None => history'[v] = history[v]
         /\ \A v \in runner[r].tx : history'[v] = files[r][v] /\ history'[v] # None
         /\ Applied' = Applied \cup runner[r].tx
         /\ lock = r
<1>1. RunnerInv(r)
  BY DEF MigrationInv
<1>2. /\ lock = r /\ runner[r].todo = Missing(r)
      /\ runner[r].tx \subseteq Missing(r)
  BY <1>1 DEF Commit, At, RunnerInv, Holding, Verified, Loaded
<1>3. \A v \in Versions : history'[v] = IF v \in runner[r].tx THEN files[r][v] ELSE history[v]
  BY DEF Commit
<1>4. \A v \in runner[r].tx : v \in Versions /\ history[v] = None /\ files[r][v] # None
  BY <1>2 DEF Missing, Applied
<1>5. QED
  BY <1>2, <1>3, <1>4 DEF Applied

LEMMA CommitStep ==
  ASSUME MigrationInv,
         NEW r \in Runners, Commit(r)
  PROVE  MigrationInv'
<1> DEFINE n == [runner[r] EXCEPT !.phase = "committed", !.tx = {},
                                  !.todo = runner[r].todo \ runner[r].tx]
<1>1. runner[r] \in Runner /\ RunnerInv(r)
  BY DEF MigrationInv, MigrationTypeOK
<1>2. /\ n \in Runner /\ n.phase = "committed" /\ n.tx = {}
      /\ n.todo = runner[r].todo \ runner[r].tx /\ n.outcome = runner[r].outcome
  BY <1>1 DEF Runner, Phases
<1>3. runner' = [runner EXCEPT ![r] = n]
  BY DEF MigrationInv, MigrationTypeOK, Commit
<1> HIDE DEF n
<1>4. runner'[r] = n
  BY <1>3 DEF MigrationInv, MigrationTypeOK
<1>5. /\ runner[r].tx \subseteq Missing(r)
      /\ \A v \in Versions : history[v] # None => history'[v] = history[v]
      /\ \A v \in runner[r].tx : history'[v] = files[r][v] /\ history'[v] # None
      /\ Applied' = Applied \cup runner[r].tx
      /\ lock = r
  BY CommitWrites
<1>6. files' = files /\ lock' = lock
  BY DEF Commit
<1>7. MigrationTypeOK'
  <2>1. \A v \in Versions : history'[v] \in Row
    BY DEF Commit, MigrationInv, MigrationTypeOK
  <2>2. history' \in [Versions -> Row]
    BY <2>1 DEF Commit
  <2>3. \A v \in Versions : schema[v] \in Nat /\ schema[v] + 1 \in Nat
    BY DEF MigrationInv, MigrationTypeOK
  <2>4. schema' \in [Versions -> Nat]
    BY <2>3 DEF Commit
  <2>5. QED
    BY <1>2, <1>3, <1>6, <2>2, <2>4 DEF MigrationInv, MigrationTypeOK
<1>8. AppliedOnce'
  <2> SUFFICES ASSUME NEW v \in Versions
               PROVE  schema'[v] = IF history'[v] = None THEN 0 ELSE 1
    BY DEF AppliedOnce
  <2>1. schema[v] = IF history[v] = None THEN 0 ELSE 1
    BY DEF MigrationInv, AppliedOnce
  <2>2. CASE v \in runner[r].tx
    <3>1. history[v] = None
      BY <1>5, <2>2 DEF Missing, Applied
    <3>2. schema'[v] = schema[v] + 1 /\ history'[v] # None
      BY <1>5, <2>2 DEF Commit
    <3>3. QED
      BY <2>1, <3>1, <3>2
  <2>3. CASE v \notin runner[r].tx
    BY <2>1, <2>3 DEF Commit
  <2>4. QED
    BY <2>2, <2>3
<1>9. ASSUME NEW q \in Runners
      PROVE  RunnerInv(q)'
  <2>1. RunnerInv(q)
    BY DEF MigrationInv
  <2>2. Installed(q) => Installed(q)'
    BY <1>5, <1>6 DEF Installed
  <2>3. CASE q = r
    <3>1. runner[r].phase = "commit" /\ runner[r].outcome # "ok"
      BY <1>1 DEF Commit, At, RunnerInv
    <3>2. Matches(r) /\ runner[r].todo = Missing(r)
      BY <1>1, <3>1 DEF RunnerInv, Verified, Loaded, Holding
    <3>3. Matches(r)'
      BY <3>2, <1>5, <1>6 DEF Matches, Applied
    <3>4. n.todo = Missing(r)'
      BY <1>2, <3>2, <1>5, <1>6 DEF Missing
    <3>5. QED
      BY <1>2, <1>4, <1>5, <1>6, <2>3, <3>1, <3>3, <3>4
         DEF RunnerInv, Holding, Verified, Loaded
  <2>4. CASE q # r
    <3>1. runner'[q] = runner[q]
      BY <1>3, <2>4 DEF MigrationInv, MigrationTypeOK
    <3>2. runner[q].phase \notin Holding
      BY <2>1, <2>4, <1>5 DEF RunnerInv
    <3>3. QED
      BY <2>1, <2>2, <3>1, <3>2 DEF RunnerInv, Verified, Loaded
  <2>5. QED
    BY <2>3, <2>4
<1>10. QED
  BY <1>7, <1>8, <1>9 DEF MigrationInv

-----------------------------------------------------------------------------
(* The theorems on migrations *)

LEMMA MigrationBegins == MigrationInit => MigrationInv
<1> SUFFICES ASSUME MigrationInit PROVE MigrationInv
  OBVIOUS
<1> DEFINE n == [phase |-> "start", alive |-> TRUE, todo |-> {}, tx |-> {}, outcome |-> "none"]
<1>1. n \in Runner
  BY DEF Runner, Phases
<1>2. runner = [r \in Runners |-> n]
  BY DEF MigrationInit
<1>3. MigrationTypeOK
  BY <1>1, <1>2 DEF MigrationInit, MigrationTypeOK, Row
<1>4. AppliedOnce
  BY DEF MigrationInit, AppliedOnce
<1>5. ASSUME NEW r \in Runners PROVE RunnerInv(r)
  BY <1>2 DEF RunnerInv, Holding, Verified, Loaded
<1>6. QED
  BY <1>3, <1>4, <1>5 DEF MigrationInv

LEMMA MigrationStep ==
    MigrationInv /\ [MigrationNext]_migrationVars => MigrationInv'
<1> SUFFICES ASSUME MigrationInv, [MigrationNext]_migrationVars PROVE MigrationInv'
  OBVIOUS
<1>1. ASSUME NEW r \in Runners, Progress(r) PROVE MigrationInv'
  BY <1>1, StartStep, LockGranted, VerifyStep, LoadStep, ApplyStep, InsertStep,
     CommitStep, CommittedStep, CompleteStep, UnlockStep DEF Progress
<1>2. ASSUME NEW r \in Runners,
             \/ Fail(r) \/ Disconnect(r)
             \/ Crash(r) \/ SessionEnd(r)
      PROVE  MigrationInv'
  BY <1>2, FailStep, CrashStep, SessionEndStep
<1>3. CASE UNCHANGED migrationVars
  BY <1>3 DEF migrationVars, MigrationInv, MigrationTypeOK, AppliedOnce,
     RunnerInv, Matches, Missing, Installed, Applied
<1>4. QED
  BY <1>1, <1>2, <1>3 DEF MigrationNext

LEMMA MigrationInvariance == MigrationSpec => []MigrationInv
BY MigrationBegins, MigrationStep, PTL DEF MigrationSpec

\* Type correctness.
THEOREM MigrationTypes == MigrationSpec => []MigrationTypeOK
<1>1. MigrationInv => MigrationTypeOK
  BY DEF MigrationInv
<1>2. QED
  BY <1>1, MigrationInvariance, PTL

\* Two runs are never between BEGIN and COMMIT together: whatever process or
\* session is lost, the advisory lock covers verification and application.
THEOREM RunsExclude ==
    MigrationSpec => [](\A r, q \in Runners :
       runner[r].phase \in Holding /\ runner[q].phase \in Holding => r = q)
<1>1. MigrationInv => \A r, q \in Runners :
               runner[r].phase \in Holding /\ runner[q].phase \in Holding => r = q
  BY DEF MigrationInv, RunnerInv
<1>2. QED
  BY <1>1, MigrationInvariance, PTL

\* The SQL of a version takes effect once, exactly when applyMigration's row
\* of schema_migrations is there.
THEOREM EffectsOnce == MigrationSpec => []AppliedOnce
<1>1. MigrationInv => AppliedOnce
  BY DEF MigrationInv
<1>2. QED
  BY <1>1, MigrationInvariance, PTL

\* When run returns without an error, every file of the process is in the
\* history with its checksum, and stays there.
THEOREM SuccessLasts == MigrationSpec => []SuccessIsComplete
<1>1. MigrationInv => SuccessIsComplete
  BY DEF MigrationInv, RunnerInv, Installed, SuccessIsComplete
<1>2. QED
  BY <1>1, MigrationInvariance, PTL

\* No step removes or changes a row of schema_migrations.
THEOREM HistoryIsAppendOnly ==
    MigrationSpec =>
       [][\A v \in Versions : history[v] # None => history'[v] = history[v]]_migrationVars
<1>1. MigrationInv /\ [MigrationNext]_migrationVars =>
        [\A v \in Versions : history[v] # None => history'[v] = history[v]]_migrationVars
  <2> SUFFICES ASSUME MigrationInv, MigrationNext
               PROVE  \A v \in Versions : history[v] # None => history'[v] = history[v]
    OBVIOUS
  <2>1. ASSUME NEW r \in Runners, Commit(r)
        PROVE  \A v \in Versions : history[v] # None => history'[v] = history[v]
    BY <2>1, CommitWrites
  <2>2. CASE history' = history
    BY <2>2
  <2>3. QED
    BY <2>1, <2>2 DEF MigrationNext, Progress, Start, Lock, Verify,
       Load, Apply, Insert, Committed, Complete,
       Unlock, Fail, Disconnect, Crash, SessionEnd
<1>2. QED
  BY <1>1, MigrationInvariance, PTL DEF MigrationSpec

-----------------------------------------------------------------------------
(* The runner implements SchemaHistory *)

History == INSTANCE SchemaHistory

\* The open transaction of a run is that of its lowest file without a row.
OneFile ==
    \A r \in Runners : \A v \in runner[r].tx :
       /\ runner[r].tx = {v}
       /\ \A w \in runner[r].todo : v <= w

\* applyMigration takes the files in order, one transaction each.
LEMMA OneFileStep ==
    MigrationInv /\ OneFile /\ [MigrationNext]_migrationVars => OneFile'
<1> SUFFICES ASSUME MigrationInv, OneFile, [MigrationNext]_migrationVars,
                    NEW q \in Runners, NEW u \in runner'[q].tx
             PROVE  runner'[q].tx = {u} /\ \A w \in runner'[q].todo : u <= w
  BY DEF OneFile
<1>1. runner \in [Runners -> Runner] /\ runner[q] \in Runner /\ RunnerInv(q)
  BY DEF MigrationInv, MigrationTypeOK
<1>2. CASE runner'[q].tx = runner[q].tx /\ runner'[q].todo = runner[q].todo
  BY <1>2 DEF OneFile
<1>3. CASE runner'[q].tx = {}
  BY <1>3
<1>4. ASSUME NEW v \in Versions, Apply(q, v)
      PROVE  runner'[q].tx = {u} /\ \A w \in runner'[q].todo : u <= w
  <2>1. runner'[q].tx = {v} /\ runner'[q].todo = runner[q].todo
    BY <1>1, <1>4 DEF Apply, Runner
  <2>2. QED
    BY <1>4, <2>1 DEF Apply
<1>5. ASSUME Load(q)
      PROVE  runner'[q].tx = {}
  <2>1. runner[q].phase = "load" /\ runner'[q].tx = runner[q].tx
    BY <1>1, <1>5 DEF Load, Client, At, Runner
  <2>2. QED
    BY <1>1, <2>1 DEF RunnerInv
<1>6. ASSUME Commit(q) \/ Fail(q) \/ Disconnect(q) \/ SessionEnd(q)
      PROVE  runner'[q].tx = {}
  BY <1>1, <1>6 DEF Commit, Fail, Disconnect, SessionEnd, Raise, Runner
<1>7. ASSUME Verify(q) \/ Insert(q)
      PROVE  \/ runner'[q].tx = {}
             \/ runner'[q].tx = runner[q].tx /\ runner'[q].todo = runner[q].todo
  BY <1>1, <1>7 DEF Verify, Insert, Raise, Go, Runner
<1>8. ASSUME \/ Start(q) \/ Lock(q) \/ Committed(q) \/ Complete(q) \/ Unlock(q) \/ Crash(q)
      PROVE  runner'[q].tx = runner[q].tx /\ runner'[q].todo = runner[q].todo
  BY <1>1, <1>8 DEF Start, Lock, Committed, Complete, Unlock, Crash, Go, Runner
<1>9. ASSUME NEW r \in Runners, r # q,
             Progress(r) \/ Fail(r) \/ Disconnect(r) \/ Crash(r) \/ SessionEnd(r)
      PROVE  runner'[q] = runner[q]
  BY <1>1, <1>9 DEF Progress, Start, Lock, Verify, Load, Apply, Insert, Commit, Committed,
     Complete, Unlock, Fail, Disconnect, Crash, SessionEnd, Raise, Go
<1>10. UNCHANGED migrationVars => runner'[q] = runner[q]
  BY DEF migrationVars
<1>11. QED
  BY <1>2, <1>3, <1>4, <1>5, <1>6, <1>7, <1>8, <1>9, <1>10 DEF MigrationNext, Progress

\* COMMIT of a file is one installation, and nothing else shows.
LEMMA MigrationSimulates ==
    MigrationInv /\ OneFile /\ [MigrationNext]_migrationVars =>
       [History!HNext]_(History!hvars)
<1> SUFFICES ASSUME MigrationInv, OneFile, [MigrationNext]_migrationVars
             PROVE  [History!HNext]_(History!hvars)
  OBVIOUS
<1>1. ASSUME NEW r \in Runners, Commit(r), NEW v \in runner[r].tx
      PROVE  History!HNext
  <2>1. /\ runner[r].tx = {v}
        /\ \A w \in runner[r].todo : v <= w
    BY <1>1 DEF OneFile
  <2>2. runner[r].phase = "commit" /\ RunnerInv(r)
    BY <1>1 DEF Commit, At, MigrationInv
  <2>3. Matches(r) /\ runner[r].todo = Missing(r) /\ v \in Missing(r)
    BY <1>1, <2>2 DEF RunnerInv, Verified, Loaded, Holding
  <2>4. v \in Versions /\ history[v] = None /\ files[r][v] # None
    BY <2>3 DEF Missing, Applied
  <2>5. schema[v] = 0
    BY <2>4 DEF MigrationInv, AppliedOnce
  <2>6. History!Descends(r)
    BY <2>3 DEF History!Descends, Matches, Applied
  <2>7. ASSUME NEW w \in Versions, w < v, files[r][w] # None
        PROVE  history[w] = files[r][w]
    <3>1. w \in Nat /\ v \in Nat
      BY <2>4, MigrationAssumption
    <3>2. w \notin Missing(r)
      BY <2>1, <2>3, <2>7, <3>1
    <3>3. w \in Applied
      BY <2>7, <3>2 DEF Missing
    <3>4. QED
      BY <2>3, <3>3 DEF Matches
  <2>8. /\ history \in [Versions -> Row] /\ schema \in [Versions -> Nat]
    BY DEF MigrationInv, MigrationTypeOK
  <2>9. /\ history' = [history EXCEPT ![v] = files[r][v]]
        /\ schema' = [schema EXCEPT ![v] = 1]
        /\ files' = files
    <3>1. history' = [w \in Versions |-> IF w = v THEN files[r][w] ELSE history[w]]
      BY <1>1, <2>1 DEF Commit
    <3>2. schema' = [w \in Versions |-> IF w = v THEN schema[w] + 1 ELSE schema[w]]
      BY <1>1, <2>1 DEF Commit
    <3>3. history' = [history EXCEPT ![v] = files[r][v]]
      BY <2>8, <3>1
    <3>4. schema' = [schema EXCEPT ![v] = 1]
      <4>1. schema[v] + 1 = 1
        BY <2>5
      <4>2. schema' = [w \in Versions |-> IF w = v THEN 1 ELSE schema[w]]
        BY <3>2, <4>1, Zenon
      <4>3. QED
        BY <2>8, <4>2
    <3>5. QED
      BY <1>1, <3>3, <3>4 DEF Commit
  <2>10. History!Install(r, v)
    BY <2>4, <2>5, <2>6, <2>7, <2>9 DEF History!Install
  <2>11. QED
    BY <2>4, <2>10 DEF History!HNext
<1>2. ASSUME NEW r \in Runners, Commit(r), runner[r].tx = {}
      PROVE  UNCHANGED History!hvars
  <2>1. /\ history \in [Versions -> Row] /\ schema \in [Versions -> Nat]
    BY DEF MigrationInv, MigrationTypeOK
  <2>2. QED
    BY <1>2, <2>1 DEF Commit, History!hvars
<1>3. CASE UNCHANGED <<files, history, schema>>
  BY <1>3 DEF History!hvars
<1>4. QED
  BY <1>1, <1>2, <1>3 DEF MigrationNext, Progress, Start, Lock, Verify,
       Load, Apply, Insert, Committed, Complete,
       Unlock, Fail, Disconnect, Crash, SessionEnd, migrationVars

(***************************************************************************)
(* The migration runner implements SchemaHistory: whatever clients and     *)
(* sessions are lost, a file's SQL and its row appear together and once,   *)
(* in the order of the release that installs it, and a release adds        *)
(* nothing to a history it does not contain unchanged.                     *)
(***************************************************************************)
THEOREM ImplementsHistory == MigrationSpec => History!HSpec
<1>1. MigrationInit => History!HInit
  BY DEF MigrationInit, History!HInit
<1>2. MigrationInit => OneFile
  BY DEF MigrationInit, OneFile
<1>3. QED
  BY <1>1, <1>2, OneFileStep, MigrationSimulates, MigrationInvariance, PTL
     DEF MigrationSpec, History!HSpec
=============================================================================
