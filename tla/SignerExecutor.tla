---------------------------- MODULE SignerExecutor ----------------------------
(***************************************************************************)
(* BoundedSignerExecutor: signatures run on a bounded number of slots,     *)
(* wait in a bounded queue, and are given up after a time limit.           *)
(*                                                                         *)
(* Settling a call and freeing its slot are two callbacks (then, finally), *)
(* so a caller that is resumed in between may ask for another signature.   *)
(***************************************************************************)
EXTENDS Naturals, FiniteSets, Sequences

CONSTANTS Calls,        \* calls of sign, each made once
          Concurrency,  \* sfuAdmission.signerConcurrency
          Capacity      \* sfuAdmission.signerQueueCapacity

ASSUME SignerAssumption ==
    /\ IsFiniteSet(Calls)
    /\ Concurrency \in Nat \ {0}
    /\ Capacity \in Nat \ {0}

VARIABLES call,    \* where each call is
          queue,
          active,
          closed

executor == <<call, queue, active, closed>>

Places == {"new", "queued", "running", "settled", "done"}

ExecutorInit ==
    /\ call = [c \in Calls |-> "new"]
    /\ queue = <<>>
    /\ active = 0
    /\ closed = FALSE
-----------------------------------------------------------------------------
\* Faulty variant: one slot too many.
FreeSlotInclusive == active <= Concurrency

FreeSlot == active < Concurrency

\* execute.
Execute(c) ==
    /\ call[c] = "new"
    /\ \/ /\ closed \/ Len(queue) >= Capacity
          /\ call' = [call EXCEPT ![c] = "done"]
          /\ UNCHANGED <<queue, active>>
       \/ /\ ~closed /\ Len(queue) < Capacity
          /\ IF FreeSlot
             THEN /\ active' = active + 1
                  /\ call' = [call EXCEPT ![c] = "running"]
                  /\ UNCHANGED queue
             ELSE /\ queue' = Append(queue, c)
                  /\ call' = [call EXCEPT ![c] = "queued"]
                  /\ UNCHANGED active
    /\ UNCHANGED closed

(***************************************************************************)
(* start: the provider signs or fails, or the timer comes first and a      *)
(* later answer of the provider is ignored.  The caller has its result.    *)
(***************************************************************************)
Settle(c) ==
    /\ call[c] = "running"
    /\ call' = [call EXCEPT ![c] = "settled"]
    /\ UNCHANGED <<queue, active, closed>>

\* Faulty variant: the freed slot is not offered to the queue.
ReleaseUnused(c) ==
    /\ call[c] = "settled"
    /\ active' = active - 1
    /\ call' = [call EXCEPT ![c] = "done"]
    /\ UNCHANGED <<queue, closed>>

\* finally: the slot goes to the next in the queue.
Release(c) ==
    /\ call[c] = "settled"
    /\ IF queue = <<>>
       THEN /\ active' = active - 1
            /\ call' = [call EXCEPT ![c] = "done"]
            /\ UNCHANGED queue
       ELSE /\ queue' = Tail(queue)
            /\ call' = [call EXCEPT ![c] = "done", ![Head(queue)] = "running"]
            /\ UNCHANGED active
    /\ UNCHANGED closed

\* close: what waits is refused, what runs may settle.
CloseExecutor ==
    /\ closed' = TRUE
    /\ queue' = <<>>
    /\ call' = [c \in Calls |-> IF call[c] = "queued" THEN "done" ELSE call[c]]
    /\ UNCHANGED active
-----------------------------------------------------------------------------
Waiting == {queue[i] : i \in DOMAIN queue}

(***************************************************************************)
(* The slots are counted exactly and never exceeded, the queue holds each  *)
(* waiting call once, and nobody waits while a slot is free, although      *)
(* slots are freed later than their calls settle.                          *)
(***************************************************************************)
SlotsExact ==
    /\ active = Cardinality({c \in Calls : call[c] \in {"running", "settled"}})
    /\ active <= Concurrency
    /\ Len(queue) <= Capacity
    /\ Waiting = {c \in Calls : call[c] = "queued"}
    /\ Cardinality(Waiting) = Len(queue)
    /\ queue # <<>> => active = Concurrency

(***************************************************************************)
(* Every call that was accepted settles: it gets a slot or is refused when *)
(* the executor closes, and a provider that never answers costs one time   *)
(* limit.                                                                  *)
(***************************************************************************)
SignaturesSettle == \A c \in Calls : call[c] \in {"queued", "running"} ~> call[c] = "done"
=============================================================================
