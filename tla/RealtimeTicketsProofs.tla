------------------------ MODULE RealtimeTicketsProofs ------------------------
(***************************************************************************)
(* Proofs about RealtimeTickets, for any number of requests, connections   *)
(* and attempts and for all lifetimes.                                     *)
(***************************************************************************)
EXTENDS RealtimeTickets, TLAPS

------------------------------------------------------------------------------
(* The inductive invariant *)

\* A connection holds a ticket that its client was given: the issuing request
\* is over and writes neither its row nor its key any more.
HeldDelivered ==
    \A c \in Conns : Holding(c) => conn[c].id \in Delivered

\* From put on, a request has its audit row.
Recorded == {"put", "unstored", "collided", "mark", "undo", "delivered"}
RowsExist ==
    \A r \in Reqs : req[r].pc \in Recorded => audit[Id(r)].result # "none"

\* A revalidation that waits and has not been told of a change waits for an
\* active session.
WaitingActive ==
    \A c \in Conns : conn[c].pc = "lock" /\ ~conn[c].changed
                        => session.state = "active"

\* A request never promises more than the session's lifetime.
RequestTimes == \A r \in Reqs : req[r].expires <= Absolute

TicketInv == HeldDelivered /\ OneConsumer /\ ConsumedRecorded
                /\ RowsExist /\ AuditedBeforeUse
SessionInv == RevokedNotAdmitted /\ WaitingActive
TimeInv == TimesNested /\ RequestTimes

IInv == TypeOK /\ TicketInv /\ SessionInv /\ TimeInv

------------------------------------------------------------------------------
(* Helpers *)

LEMMA SmallestOfTwo ==
  ASSUME NEW a \in Int, NEW b \in Int
  PROVE  Smallest({a, b}) \in {a, b} /\ Smallest({a, b}) <= a /\ Smallest({a, b}) <= b
<1>1. \E x \in {a, b} : \A y \in {a, b} : x <= y
  <2>1. CASE a <= b
    BY <2>1
  <2>2. CASE b <= a
    BY <2>2
  <2>3. QED
    BY <2>1, <2>2
<1>2. QED
  BY <1>1 DEF Smallest

LEMMA SmallestOfThree ==
  ASSUME NEW a \in Int, NEW b \in Int, NEW d \in Int
  PROVE  /\ Smallest({a, b, d}) \in {a, b, d}
         /\ Smallest({a, b, d}) <= a
         /\ Smallest({a, b, d}) <= b
         /\ Smallest({a, b, d}) <= d
<1>1. \E x \in {a, b, d} : \A y \in {a, b, d} : x <= y
  <2>1. CASE a <= b /\ a <= d
    BY <2>1
  <2>2. CASE b <= a /\ b <= d
    BY <2>2
  <2>3. CASE d <= a /\ d <= b
    BY <2>3
  <2>4. QED
    BY <2>1, <2>2, <2>3
<1>2. QED
  BY <1>1 DEF Smallest

\* touch stays within the absolute expiry and the meeting's.
LEMMA IdleBounds ==
  ASSUME now \in Nat
  PROVE  IdleExpiry \in Nat /\ IdleExpiry <= Absolute /\ IdleExpiry <= MeetingEnd
<1>1. now + IdleTtl \in Nat /\ Absolute \in Nat /\ MeetingEnd \in Nat
  BY TicketAssumption
<1> DEFINE t == now + IdleTtl
           m == Smallest({t, Absolute, MeetingEnd})
<1>2. m \in {t, Absolute, MeetingEnd} /\ m <= Absolute /\ m <= MeetingEnd
  <2> HIDE DEF t
  <2>1. t \in Int /\ Absolute \in Int /\ MeetingEnd \in Int
    BY <1>1 DEF t
  <2>2. QED
    BY <2>1, SmallestOfThree
<1>3. m = IdleExpiry
  BY DEF IdleExpiry
<1>4. QED
  BY <1>1, <1>2, <1>3

LEMMA IdType ==
  ASSUME TypeOK, NEW r \in Reqs
  PROVE  Id(r) \in Ids /\ req[r] \in Issue
BY DEF TypeOK, Id, Ids, Issue

\* Identifiers of two requests differ.
LEMMA IdInjective ==
  ASSUME NEW r \in Reqs, NEW q \in Reqs, Id(r) = Id(q)
  PROVE  r = q
BY DEF Id

\* Taking note of a change touches nothing else.
LEMMA NoteChangeKeeps ==
  ASSUME TypeOK
  PROVE  /\ NoteChange(conn) \in [Conns -> Consume]
         /\ \A c \in Conns :
              /\ NoteChange(conn)[c].pc = conn[c].pc
              /\ NoteChange(conn)[c].id = conn[c].id
              /\ conn[c].pc = "lock" => NoteChange(conn)[c].changed
<1>1. \A c \in Conns : conn[c] \in Consume
  BY DEF TypeOK
<1>2. \A c \in Conns : /\ NoteChange(conn)[c] \in Consume
                       /\ NoteChange(conn)[c].pc = conn[c].pc
                       /\ NoteChange(conn)[c].id = conn[c].id
                       /\ conn[c].pc = "lock" => NoteChange(conn)[c].changed
  BY <1>1 DEF NoteChange, Consume
<1>3. QED
  BY <1>2 DEF NoteChange

------------------------------------------------------------------------------
(* The audit table *)

LEMMA RecordRowType ==
  ASSUME TypeOK, NEW i \in Ids, NEW x \in Nat, RecordRow(i, x)
  PROVE  /\ audit' \in [Ids -> Row]
         /\ audit'[i].result # "none" /\ audit'[i].expires = x
         /\ \A j \in Ids \ {i} : audit'[j] = audit[j]
BY DEF TypeOK, RecordRow, Row, Outcomes

LEMMA MarkType ==
  ASSUME TypeOK, NEW i \in Ids, NEW code \in Outcomes, NEW b \in BOOLEAN,
         MarkResult(i, code, b)
  PROVE  /\ audit' \in [Ids -> Row]
         /\ audit'[i].result = code /\ audit'[i].expires = audit[i].expires
         /\ b => audit'[i].consumed
         /\ \A j \in Ids \ {i} : audit'[j] = audit[j]
<1>1. audit[i] \in Row
  BY DEF TypeOK
<1>2. (b \/ audit[i].consumed) \in BOOLEAN
  OBVIOUS
<1>3. QED
  BY <1>1, <1>2 DEF TypeOK, MarkResult, MarkRow, Row

LEMMA MayMarkType ==
  ASSUME TypeOK, NEW i \in Ids, NEW code \in Outcomes, NEW b \in BOOLEAN,
         MayMark(i, code, b)
  PROVE  /\ audit' \in [Ids -> Row]
         /\ audit[i].result # "none" => audit'[i].result # "none"
         /\ audit'[i].expires = audit[i].expires
         /\ \A j \in Ids \ {i} : audit'[j] = audit[j]
<1>1. CASE MarkResult(i, code, b)
  BY <1>1, MarkType DEF Outcomes
<1>2. CASE UNCHANGED audit
  BY <1>2 DEF TypeOK
<1>3. QED
  BY <1>1, <1>2 DEF MayMark

------------------------------------------------------------------------------
(* Steps of issue() *)

\* What a step of request r may do: it is not over yet, it touches only its own
\* row and key, it does not lose the row, stores nothing without one, and
\* promises nothing beyond the session.
IssueStep(r) ==
    /\ req[r].pc # "delivered"
    /\ \A q \in Reqs \ {r} : req'[q] = req[q]
    /\ \A i \in Ids \ {Id(r)} : audit'[i] = audit[i] /\ redis'[i] = redis[i]
    /\ audit[Id(r)].result # "none" => audit'[Id(r)].result # "none"
    /\ redis'[Id(r)].stored => audit'[Id(r)].result # "none"
    /\ req'[r].pc \in Recorded => audit'[<<r, req'[r].try>>].result # "none"
    /\ audit'[Id(r)].expires <= Absolute
    /\ redis'[Id(r)].expires <= Absolute
    /\ req'[r].expires <= Absolute
    /\ UNCHANGED <<now, session, meeting, conn>>

LEMMA StepType ==
  ASSUME TypeOK, NEW r \in Reqs, NEW pc \in IssueSteps, Step(r, pc)
  PROVE  /\ req' \in [Reqs -> Issue]
         /\ req'[r].pc = pc /\ req'[r].try = req[r].try
         /\ req'[r].expires = req[r].expires
         /\ \A q \in Reqs \ {r} : req'[q] = req[q]
BY DEF TypeOK, Step, Issue

LEMMA StoreType ==
  ASSUME TypeOK, NEW r \in Reqs, Store(r)
  PROVE  /\ redis' \in [Ids -> Payload]
         /\ redis'[Id(r)].expires = req[r].expires
         /\ \A i \in Ids \ {Id(r)} : redis'[i] = redis[i]
<1>1. Id(r) \in Ids /\ req[r].expires \in Nat /\ req[r].ttl \in Nat /\ now \in Nat
  BY IdType DEF TypeOK, Issue
<1>2. now + req[r].ttl \in Nat
  BY <1>1
<1>3. QED
  BY <1>1, <1>2 DEF TypeOK, Store, Payload

LEMMA DropType ==
  ASSUME TypeOK, NEW i \in Ids, Drop(i)
  PROVE  /\ redis' \in [Ids -> Payload]
         /\ ~redis'[i].stored /\ redis'[i].expires = redis[i].expires
         /\ \A j \in Ids \ {i} : redis'[j] = redis[j]
<1>1. redis \in [Ids -> Payload] /\ redis' = [redis EXCEPT ![i].stored = FALSE]
  BY DEF TypeOK, Drop
<1> HIDE DEF TypeOK, Drop
<1>2. redis[i] \in Payload /\ [redis[i] EXCEPT !.stored = FALSE] \in Payload
  BY <1>1 DEF Payload
<1>3. redis'[i] = [redis[i] EXCEPT !.stored = FALSE]
  BY <1>1
<1>4. ~redis'[i].stored /\ redis'[i].expires = redis[i].expires
  BY <1>2, <1>3 DEF Payload
<1>5. QED
  BY <1>1, <1>2, <1>4

\* The facts of the invariant a step of request r starts from.
LEMMA RequestFacts ==
  ASSUME IInv, NEW r \in Reqs
  PROVE  /\ TypeOK
         /\ Id(r) \in Ids /\ req[r] \in Issue
         /\ Id(r) = <<r, req[r].try>>
         /\ redis[Id(r)].stored => audit[Id(r)].result # "none"
         /\ req[r].pc \in Recorded => audit[Id(r)].result # "none"
         /\ audit[Id(r)].expires <= Absolute
         /\ redis[Id(r)].expires <= Absolute
         /\ req[r].expires <= Absolute
<1>1. TypeOK
  BY DEF IInv
<1>2. Id(r) \in Ids /\ req[r] \in Issue
  BY <1>1, IdType
<1>3. QED
  BY <1>1, <1>2 DEF IInv, TicketInv, AuditedBeforeUse, RowsExist, TimeInv,
                    TimesNested, RequestTimes, Id

LEMMA IssueActions ==
  ASSUME IInv, NEW r \in Reqs,
         \/ IssueBegin(r) \/ Record(r) \/ RecordFail(r) \/ Put(r) \/ PutFail(r)
         \/ Unstored(r) \/ Collided(r) \/ CollidedFail(r) \/ Mark(r)
         \/ MarkFail(r) \/ Undo(r) \/ IssueCrash(r)
  PROVE  TypeOK' /\ IssueStep(r)
<1>0. /\ TypeOK
      /\ Id(r) \in Ids /\ req[r] \in Issue
      /\ Id(r) = <<r, req[r].try>>
      /\ redis[Id(r)].stored => audit[Id(r)].result # "none"
      /\ req[r].pc \in Recorded => audit[Id(r)].result # "none"
      /\ audit[Id(r)].expires <= Absolute
      /\ redis[Id(r)].expires <= Absolute
      /\ req[r].expires <= Absolute
  BY RequestFacts
<1>f. ASSUME IssueOnly, req' \in [Reqs -> Issue], audit' \in [Ids -> Row],
             redis' \in [Ids -> Payload]
      PROVE  TypeOK'
  BY <1>0, <1>f DEF TypeOK, IssueOnly
<1>1. CASE IssueBegin(r)
  <2> DEFINE t == Smallest({TicketTtl, Absolute - now})
  <2>1. IssueOnly /\ UNCHANGED <<audit, redis>> /\ req[r].pc = "begin"
    BY <1>1 DEF IssueBegin
  <2>2. CASE t < 1
    <3>1. Step(r, "failed")
      BY <1>1, <2>2 DEF IssueBegin
    <3>2. "failed" \in IssueSteps /\ "failed" \notin Recorded
      BY DEF IssueSteps, Recorded
    <3>3. QED
      BY <1>0, <1>f, <2>1, <3>1, <3>2, StepType DEF IssueStep, IssueOnly, TypeOK
  <2>3. CASE ~(t < 1)
    <3>1. req' = [req EXCEPT ![r] = [pc |-> "record", try |-> 0, ttl |-> t,
                                     expires |-> now + t]]
      BY <1>1, <2>3 DEF IssueBegin
    <3>2. t \in Int /\ t <= Absolute - now
      <4> DEFINE x == Absolute - now
      <4>1. TicketTtl \in Int /\ x \in Int
        BY <1>0, TicketAssumption DEF TypeOK
      <4> HIDE DEF x
      <4>2. Smallest({TicketTtl, x}) \in {TicketTtl, x} /\ Smallest({TicketTtl, x}) <= x
        BY <4>1, SmallestOfTwo
      <4>3. QED
        BY <4>1, <4>2 DEF x
    <3> HIDE DEF t
    <3>3. t \in Nat /\ now \in Nat /\ now + t \in Nat /\ now + t <= Absolute
      BY <1>0, <2>3, <3>2, TicketAssumption DEF TypeOK
    <3>4. [pc |-> "record", try |-> 0, ttl |-> t, expires |-> now + t] \in Issue
      BY <3>3, TicketAssumption DEF Issue, IssueSteps
    <3>5. req' \in [Reqs -> Issue] /\ req'[r].pc = "record"
          /\ req'[r].expires = now + t /\ \A q \in Reqs \ {r} : req'[q] = req[q]
      BY <1>0, <3>1, <3>4 DEF TypeOK
    <3>6. TypeOK'
      BY <1>0, <1>f, <2>1, <3>5 DEF TypeOK
    <3>7. QED
      BY <1>0, <2>1, <3>3, <3>5, <3>6 DEF IssueStep, IssueOnly, Recorded
  <2>4. QED
    BY <2>2, <2>3
<1>2. CASE Record(r)
  <2>1. req[r].expires \in Nat
    BY <1>0 DEF Issue
  <2>2. /\ audit' \in [Ids -> Row]
        /\ audit'[Id(r)].result # "none" /\ audit'[Id(r)].expires = req[r].expires
        /\ \A j \in Ids \ {Id(r)} : audit'[j] = audit[j]
    BY <1>0, <1>2, <2>1, RecordRowType DEF Record
  <2>3. Step(r, "put") /\ "put" \in IssueSteps
    BY <1>2 DEF Record, IssueSteps
  <2>4. QED
    BY <1>0, <1>2, <1>f, <2>2, <2>3, StepType DEF Record, IssueStep, IssueOnly, TypeOK
<1>3. CASE RecordFail(r)
  <2>1. req[r].expires \in Nat
    BY <1>0 DEF Issue
  <2>2. /\ audit' \in [Ids -> Row]
        /\ audit[Id(r)].result # "none" => audit'[Id(r)].result # "none"
        /\ audit'[Id(r)].expires <= Absolute
        /\ \A j \in Ids \ {Id(r)} : audit'[j] = audit[j]
    <3>1. CASE UNCHANGED audit
      BY <1>0, <3>1 DEF TypeOK
    <3>2. CASE RecordRow(Id(r), req[r].expires)
      BY <1>0, <2>1, <3>2, RecordRowType
    <3>3. QED
      BY <1>3, <3>1, <3>2 DEF RecordFail
  <2>3. Step(r, "failed") /\ "failed" \in IssueSteps /\ "failed" \notin Recorded
    BY <1>3 DEF RecordFail, IssueSteps, Recorded
  <2>4. QED
    BY <1>0, <1>3, <1>f, <2>2, <2>3, StepType DEF RecordFail, IssueStep, IssueOnly, TypeOK
<1>4. CASE Put(r)
  <2>0. audit[Id(r)].result # "none" /\ IssueOnly /\ UNCHANGED audit /\ req[r].pc = "put"
    BY <1>0, <1>4 DEF Put, Recorded
  <2>1. CASE Store(r) /\ Step(r, "mark")
    BY <1>0, <1>f, <2>0, <2>1, StoreType, StepType
      DEF IssueStep, IssueOnly, TypeOK, IssueSteps
  <2>2. CASE UNCHANGED redis /\ Step(r, "collided")
    BY <1>0, <1>f, <2>0, <2>2, StepType DEF IssueStep, IssueOnly, TypeOK, IssueSteps
  <2>3. QED
    BY <1>4, <2>1, <2>2 DEF Put
<1>5. CASE PutFail(r)
  <2>0. /\ audit[Id(r)].result # "none" /\ IssueOnly /\ UNCHANGED audit
        /\ req[r].pc = "put" /\ Step(r, "unstored")
    BY <1>0, <1>5 DEF PutFail, Recorded
  <2>1. CASE Store(r)
    BY <1>0, <1>f, <2>0, <2>1, StoreType, StepType
      DEF IssueStep, IssueOnly, TypeOK, IssueSteps
  <2>2. CASE UNCHANGED redis
    BY <1>0, <1>f, <2>0, <2>2, StepType DEF IssueStep, IssueOnly, TypeOK, IssueSteps
  <2>3. QED
    BY <1>5, <2>1, <2>2 DEF PutFail
<1>m. ASSUME NEW code \in Outcomes, MayMark(Id(r), code, FALSE),
             req[r].pc \in Recorded \ {"delivered"}, NEW pc \in IssueSteps,
             Step(r, pc), IssueOnly, UNCHANGED redis
      PROVE  TypeOK' /\ IssueStep(r)
  <2>1. /\ audit' \in [Ids -> Row]
        /\ audit'[Id(r)].result # "none"
        /\ audit'[Id(r)].expires <= Absolute
        /\ \A j \in Ids \ {Id(r)} : audit'[j] = audit[j]
    BY <1>0, <1>m, MayMarkType
  <2>2. QED
    BY <1>0, <1>f, <1>m, <2>1, StepType DEF IssueStep, IssueOnly, TypeOK
<1>6. CASE Unstored(r)
  BY <1>6, <1>m DEF Unstored, Recorded, IssueSteps, Outcomes
<1>7. CASE Collided(r)
  <2>0. /\ req[r].pc = "collided" /\ MarkResult(Id(r), "digest_collision", FALSE)
        /\ IssueOnly /\ UNCHANGED redis
    BY <1>7 DEF Collided
  <2>a. MayMark(Id(r), "digest_collision", FALSE)
    BY <2>0 DEF MayMark
  <2>1. CASE req[r].try + 1 < Attempts
    <3>1. req' = [req EXCEPT ![r].pc = "record", ![r].try = req[r].try + 1]
      BY <1>7, <2>1 DEF Collided
    <3>2. req[r].try + 1 \in 0 .. Attempts - 1
      BY <1>0, <2>1, TicketAssumption DEF Issue
    <3>3. /\ req' \in [Reqs -> Issue]
          /\ req'[r].pc = "record" /\ req'[r].expires = req[r].expires
          /\ \A q \in Reqs \ {r} : req'[q] = req[q]
      BY <1>0, <3>1, <3>2 DEF TypeOK, Issue, IssueSteps
    <3>4. /\ audit' \in [Ids -> Row]
          /\ audit'[Id(r)].result # "none"
          /\ audit'[Id(r)].expires <= Absolute
          /\ \A j \in Ids \ {Id(r)} : audit'[j] = audit[j]
      BY <1>0, <2>0, <2>a, MayMarkType DEF Outcomes, Recorded
    <3>5. QED
      BY <1>0, <1>f, <2>0, <3>3, <3>4 DEF IssueStep, IssueOnly, TypeOK, Recorded
  <2>2. CASE ~(req[r].try + 1 < Attempts)
    <3>1. Step(r, "failed")
      BY <1>7, <2>2 DEF Collided
    <3>2. QED
      BY <1>m, <2>0, <2>a, <3>1 DEF Recorded, IssueSteps, Outcomes
  <2>3. QED
    BY <2>1, <2>2
<1>8. CASE CollidedFail(r)
  BY <1>8, <1>m DEF CollidedFail, Recorded, IssueSteps, Outcomes
<1>9. CASE Mark(r)
  <2>1. MayMark(Id(r), "issued", FALSE)
    BY <1>9 DEF Mark, MayMark
  <2>2. QED
    BY <1>9, <1>m, <2>1 DEF Mark, Recorded, IssueSteps, Outcomes
<1>10. CASE MarkFail(r)
  BY <1>10, <1>m DEF MarkFail, Recorded, IssueSteps, Outcomes
<1>11. CASE Undo(r)
  <2>0. /\ audit[Id(r)].result # "none" /\ IssueOnly /\ UNCHANGED audit
        /\ req[r].pc = "undo" /\ Step(r, "failed")
    BY <1>0, <1>11 DEF Undo, Recorded
  <2>1. CASE Drop(Id(r))
    BY <1>0, <1>f, <2>0, <2>1, DropType, StepType
      DEF IssueStep, IssueOnly, TypeOK, IssueSteps
  <2>2. CASE UNCHANGED redis
    BY <1>0, <1>f, <2>0, <2>2, StepType DEF IssueStep, IssueOnly, TypeOK, IssueSteps
  <2>3. QED
    BY <1>11, <2>1, <2>2 DEF Undo
<1>12. CASE IssueCrash(r)
  <2>1. /\ req[r].pc # "delivered" /\ Step(r, "failed") /\ IssueOnly
        /\ UNCHANGED <<audit, redis>>
    BY <1>12 DEF IssueCrash
  <2>2. "failed" \in IssueSteps /\ "failed" \notin Recorded
    BY DEF IssueSteps, Recorded
  <2>3. QED
    BY <1>0, <1>f, <2>1, <2>2, StepType DEF IssueStep, IssueOnly, TypeOK
<1>13. QED
  BY <1>1, <1>2, <1>3, <1>4, <1>5, <1>6, <1>7, <1>8, <1>9, <1>10, <1>11, <1>12

\* A held ticket belongs to a request that is over: not to one that steps.
LEMMA HeldFacts ==
  ASSUME IInv, NEW c \in Conns, Holding(c)
  PROVE  /\ conn[c].id \in Ids
         /\ \E q \in Reqs : req[q].pc = "delivered" /\ conn[c].id = Id(q)
<1>1. conn[c].id \in Ids
  BY DEF IInv, TypeOK, Consume
<1>2. conn[c].id \in Delivered
  BY DEF IInv, TicketInv, HeldDelivered
<1>3. QED
  BY <1>1, <1>2 DEF Delivered

\* A delivered ticket stays delivered while its request does not step.
LEMMA StaysDelivered ==
  ASSUME NEW q \in Reqs, req[q].pc = "delivered", req'[q] = req[q]
  PROVE  Id(q) \in Delivered'
<1>1. Id(q)' = Id(q)
  BY DEF Id
<1>2. Delivered' = {Id(r)' : r \in {p \in Reqs : req'[p].pc = "delivered"}}
  BY DEF Delivered, Id
<1>3. QED
  BY <1>1, <1>2 DEF Id

LEMMA IssuePreserves ==
  ASSUME IInv, NEW r \in Reqs, TypeOK', IssueStep(r)
  PROVE  IInv'
<1>0. TypeOK /\ Id(r) \in Ids
  BY IdType DEF IInv
<1>1. \A c \in Conns : Holding(c)' = Holding(c) /\ conn'[c] = conn[c]
  BY DEF IssueStep, Holding
<1>2. ASSUME NEW c \in Conns, Holding(c)
      PROVE  /\ conn[c].id \in Delivered' /\ conn[c].id \in Ids
             /\ audit'[conn[c].id] = audit[conn[c].id]
             /\ redis'[conn[c].id] = redis[conn[c].id]
  <2>1. PICK q \in Reqs : req[q].pc = "delivered" /\ conn[c].id = Id(q)
    BY <1>2, HeldFacts
  <2>2. q # r /\ req'[q] = req[q]
    BY <2>1 DEF IssueStep
  <2>3. conn[c].id # Id(r) /\ conn[c].id \in Ids
    BY <1>2, <2>1, <2>2, IdInjective, HeldFacts
  <2>4. conn[c].id \in Delivered'
    BY <2>1, <2>2, StaysDelivered
  <2>5. QED
    BY <2>3, <2>4 DEF IssueStep
<1>3. HeldDelivered'
  BY <1>1, <1>2 DEF HeldDelivered
<1>4. OneConsumer'
  BY <1>1, <1>2 DEF OneConsumer, IInv, TicketInv
<1>5. ConsumedRecorded'
  <2>1. \A c \in Conns : conn[c].pc = "admitted" => Holding(c)
    BY DEF Holding, ConsumeSteps
  <2>2. QED
    BY <1>1, <1>2, <2>1 DEF ConsumedRecorded, IInv, TicketInv
<1>6. RowsExist'
  <2> SUFFICES ASSUME NEW q \in Reqs, req'[q].pc \in Recorded
               PROVE  audit'[<<q, req'[q].try>>].result # "none"
    BY DEF RowsExist, Id, Recorded
  <2>1. CASE q = r
    BY <2>1 DEF IssueStep
  <2>2. CASE q # r
    <3>1. req'[q] = req[q] /\ Id(q) # Id(r) /\ Id(q) \in Ids
      BY <1>0, <2>2, IdInjective, IdType DEF IssueStep
    <3>2. audit'[Id(q)] = audit[Id(q)] /\ audit[Id(q)].result # "none"
      BY <3>1 DEF IssueStep, IInv, TicketInv, RowsExist
    <3>3. QED
      BY <3>1, <3>2 DEF Id
  <2>3. QED
    BY <2>1, <2>2
<1>7. AuditedBeforeUse'
  <2>1. ASSUME NEW i \in Ids, redis'[i].stored PROVE audit'[i].result # "none"
    BY <2>1 DEF IssueStep, IInv, TicketInv, AuditedBeforeUse
  <2>2. ASSUME NEW c \in Conns, Holding(c) PROVE audit'[conn'[c].id].result # "none"
    BY <1>1, <1>2, <2>2 DEF IInv, TicketInv, AuditedBeforeUse
  <2>3. QED
    BY <1>1, <2>1, <2>2 DEF AuditedBeforeUse
<1>8. SessionInv'
  BY DEF IssueStep, IInv, SessionInv, RevokedNotAdmitted, WaitingActive
<1>9. TimeInv'
  <2>1. \A q \in Reqs : req'[q].expires <= Absolute
    BY DEF IssueStep, IInv, TimeInv, RequestTimes
  <2>2. \A i \in Ids : audit'[i].expires <= Absolute /\ redis'[i].expires <= Absolute
    BY DEF IssueStep, IInv, TimeInv, TimesNested
  <2>3. QED
    BY <2>1, <2>2 DEF IssueStep, IInv, TimeInv, TimesNested, RequestTimes
<1>10. QED
  BY <1>3, <1>4, <1>5, <1>6, <1>7, <1>8, <1>9 DEF IInv, TicketInv

------------------------------------------------------------------------------
(* Steps that leave tickets alone *)

\* A step that neither takes nor stores a ticket, moves no connection to or
\* from one, keeps every request's row and changes only rows nobody holds.
QuietStep ==
    /\ \A c \in Conns : conn'[c].pc = conn[c].pc /\ conn'[c].id = conn[c].id
    /\ UNCHANGED redis
    /\ \A i \in Ids : /\ audit'[i].expires = audit[i].expires
                      /\ audit[i].result # "none" => audit'[i].result # "none"
                      /\ audit[i].consumed => audit'[i] = audit[i]
    /\ \A r \in Reqs : /\ req'[r].try = req[r].try
                       /\ req'[r].expires = req[r].expires
                       /\ req'[r].pc \in Recorded \/ req[r].pc \in Recorded
                            => req'[r] = req[r]

LEMMA QuietPreserves ==
  ASSUME IInv, QuietStep
  PROVE  TicketInv' /\ RequestTimes'
         /\ \A i \in Ids : audit'[i].expires <= Absolute
                           /\ redis'[i].expires <= Absolute
<1>1. \A c \in Conns : Holding(c)' = Holding(c)
  BY DEF QuietStep, Holding
<1>2. HeldDelivered'
  <2> SUFFICES ASSUME NEW c \in Conns, Holding(c) PROVE conn'[c].id \in Delivered'
    BY <1>1 DEF HeldDelivered
  <2>1. PICK q \in Reqs : req[q].pc = "delivered" /\ conn[c].id = Id(q)
    BY HeldFacts
  <2>2. req'[q] = req[q]
    BY <2>1 DEF QuietStep, Recorded
  <2>3. QED
    BY <2>1, <2>2, StaysDelivered DEF QuietStep
<1>3. OneConsumer'
  BY <1>1 DEF QuietStep, OneConsumer, IInv, TicketInv
<1>4. ConsumedRecorded'
  <2>1. \A c \in Conns : conn[c].id \in Ids
    BY DEF IInv, TypeOK, Consume
  <2>2. QED
    BY <2>1 DEF QuietStep, ConsumedRecorded, IInv, TicketInv
<1>5. RowsExist'
  <2> SUFFICES ASSUME NEW q \in Reqs, req'[q].pc \in Recorded
               PROVE  audit'[<<q, req'[q].try>>].result # "none"
    BY DEF RowsExist, Id, Recorded
  <2>1. req'[q] = req[q] /\ Id(q) \in Ids /\ Id(q) = <<q, req'[q].try>>
    BY IdType DEF QuietStep, IInv, Id
  <2>2. QED
    BY <2>1 DEF QuietStep, IInv, TicketInv, RowsExist
<1>6. AuditedBeforeUse'
  <2>1. \A c \in Conns : conn[c].id \in Ids
    BY DEF IInv, TypeOK, Consume
  <2>2. QED
    BY <1>1, <2>1 DEF QuietStep, AuditedBeforeUse, IInv, TicketInv
<1>7. RequestTimes'
  BY DEF QuietStep, RequestTimes, IInv, TimeInv
<1>8. QED
  BY <1>2, <1>3, <1>4, <1>5, <1>6, <1>7 DEF QuietStep, TicketInv, IInv, TimeInv, TimesNested

LEMMA AuthenticatePreserves ==
  ASSUME IInv, NEW r \in Reqs, Authenticate(r)
  PROVE  IInv'
<1>1. /\ TypeOK /\ now \in Nat /\ session.holder = Free /\ req[r].pc = "idle"
      /\ session' = [session EXCEPT !.idle = IdleExpiry] /\ Step(r, "begin")
      /\ conn' = NoteChange(conn) /\ UNCHANGED <<now, meeting, audit, redis>>
  BY DEF IInv, Authenticate, TypeOK
<1>2. IdleExpiry \in Nat /\ IdleExpiry <= Absolute /\ IdleExpiry <= MeetingEnd
  BY <1>1, IdleBounds
<1>3. /\ session' \in [state : {"active", "revoked"}, idle : Nat, holder : Conns \cup {Free}]
      /\ session'.idle = IdleExpiry /\ session'.holder = Free
      /\ session'.state = session.state
  <2> HIDE DEF IdleExpiry
  <2>1. QED
    BY <1>1, <1>2 DEF TypeOK
<1>4. /\ conn' \in [Conns -> Consume]
      /\ \A c \in Conns : /\ conn'[c].pc = conn[c].pc /\ conn'[c].id = conn[c].id
                          /\ conn[c].pc = "lock" => conn'[c].changed
  BY <1>1, NoteChangeKeeps
<1>5. /\ req' \in [Reqs -> Issue]
      /\ req'[r].pc = "begin" /\ req'[r].try = req[r].try
      /\ req'[r].expires = req[r].expires
      /\ \A q \in Reqs \ {r} : req'[q] = req[q]
  <2>1. "begin" \in IssueSteps
    BY DEF IssueSteps
  <2>2. QED
    BY <1>1, <2>1, StepType
<1>6. TypeOK'
  BY <1>1, <1>3, <1>4, <1>5 DEF TypeOK
<1>7. QuietStep
  BY <1>1, <1>4, <1>5 DEF QuietStep, Recorded
<1>8. TicketInv' /\ RequestTimes'
      /\ \A i \in Ids : audit'[i].expires <= Absolute /\ redis'[i].expires <= Absolute
  BY <1>7, QuietPreserves
<1>9. SessionInv'
  BY <1>3, <1>4 DEF IInv, SessionInv, RevokedNotAdmitted, WaitingActive
<1>10. TimeInv'
  BY <1>2, <1>3, <1>8 DEF TimeInv, TimesNested
<1>11. QED
  BY <1>6, <1>8, <1>9, <1>10 DEF IInv

\* The clock, the janitor, revocation and the end of the meeting.
LEMMA EnvironmentPreserves ==
  ASSUME IInv, Tick \/ Revoke \/ EndMeeting \/ Expire \/ UNCHANGED vars
  PROVE  IInv'
<1>0. TypeOK
  BY DEF IInv
<1>q. ASSUME UNCHANGED <<audit, redis, req>>,
             \A c \in Conns : conn'[c].pc = conn[c].pc /\ conn'[c].id = conn[c].id,
             TypeOK', SessionInv', session'.idle = session.idle
      PROVE  IInv'
  <2>1. QuietStep
    BY <1>q DEF QuietStep
  <2>2. QED
    BY <1>q, <2>1, QuietPreserves DEF IInv, TimeInv, TimesNested
<1>1. CASE Tick
  <2>1. now' \in 0 .. MaxTime
    BY <1>0, <1>1, TicketAssumption DEF Tick, TypeOK
  <2>2. TypeOK'
    BY <1>0, <1>1, <2>1 DEF Tick, TypeOK
  <2>3. SessionInv'
    BY <1>1 DEF Tick, IInv, SessionInv, RevokedNotAdmitted, WaitingActive
  <2>4. QED
    BY <1>1, <1>q, <2>2, <2>3 DEF Tick
<1>2. CASE Revoke
  <2>1. /\ conn' \in [Conns -> Consume]
        /\ \A c \in Conns : /\ conn'[c].pc = conn[c].pc /\ conn'[c].id = conn[c].id
                            /\ conn[c].pc = "lock" => conn'[c].changed
    BY <1>0, <1>2, NoteChangeKeeps DEF Revoke
  <2>2. /\ session' \in [state : {"active", "revoked"}, idle : Nat, holder : Conns \cup {Free}]
        /\ session'.idle = session.idle /\ session'.holder = Free /\ session.holder = Free
    BY <1>0, <1>2 DEF Revoke, TypeOK
  <2>3. \A c \in Conns : conn[c].pc # "touch"
    BY <1>0, <2>2, TicketAssumption DEF TypeOK
  <2>4. TypeOK'
    BY <1>0, <1>2, <2>1, <2>2 DEF Revoke, TypeOK
  <2>5. SessionInv'
    BY <2>1, <2>3 DEF SessionInv, RevokedNotAdmitted, WaitingActive
  <2>6. QED
    BY <1>2, <1>q, <2>1, <2>2, <2>4, <2>5 DEF Revoke
<1>3. CASE EndMeeting
  <2>1. TypeOK'
    BY <1>0, <1>3 DEF EndMeeting, TypeOK
  <2>2. SessionInv'
    BY <1>3 DEF EndMeeting, IInv, SessionInv, RevokedNotAdmitted, WaitingActive
  <2>3. QED
    BY <1>3, <1>q, <2>1, <2>2 DEF EndMeeting
<1>4. CASE Expire
  <2>1. PICK batch \in SUBSET Ids :
          /\ \A i \in batch : Outstanding(i)
          /\ audit' = [i \in Ids |-> IF i \in batch
                                     THEN [audit[i] EXCEPT !.result = "expired"]
                                     ELSE audit[i]]
    BY <1>4 DEF Expire
  <2>2. ASSUME NEW i \in Ids
        PROVE  /\ audit'[i] \in Row
               /\ audit'[i].expires = audit[i].expires
               /\ audit[i].result # "none" => audit'[i].result # "none"
               /\ audit[i].consumed => audit'[i] = audit[i]
    <3>1. audit[i] \in Row
      BY <1>0 DEF TypeOK
    <3>2. CASE i \in batch
      BY <2>1, <3>1, <3>2 DEF Row, Outcomes, Outstanding
    <3>3. CASE i \notin batch
      BY <2>1, <3>1, <3>3
    <3>4. QED
      BY <3>2, <3>3
  <2>3. TypeOK'
    BY <1>0, <1>4, <2>1, <2>2 DEF Expire, TypeOK
  <2>4. SessionInv'
    BY <1>4 DEF Expire, IInv, SessionInv, RevokedNotAdmitted, WaitingActive
  <2>5. QuietStep
    BY <1>4, <2>2 DEF Expire, QuietStep
  <2>6. QED
    BY <1>4, <2>3, <2>4, <2>5, QuietPreserves DEF Expire, IInv, TimeInv, TimesNested
<1>5. CASE UNCHANGED vars
  <2>1. TypeOK'
    BY <1>0, <1>5 DEF vars, TypeOK
  <2>2. SessionInv'
    BY <1>5 DEF vars, IInv, SessionInv, RevokedNotAdmitted, WaitingActive
  <2>3. QED
    BY <1>5, <1>q, <2>1, <2>2 DEF vars
<1>6. QED
  BY <1>1, <1>2, <1>3, <1>4, <1>5

------------------------------------------------------------------------------
(* Steps of consume() *)

\* What a step of connection c may do to tickets: it stores none, writes only
\* the row of the ticket it holds and keeps it a row; it keeps its ticket or
\* takes a delivered one out of the store; it is admitted with its row.
ConsumeStep(c) ==
    /\ UNCHANGED <<now, meeting, req>>
    /\ \A d \in Conns \ {c} : conn'[d].pc = conn[d].pc /\ conn'[d].id = conn[d].id
    /\ \A i \in Ids : /\ redis'[i].stored => redis[i].stored
                      /\ redis'[i].expires = redis[i].expires
                      /\ audit'[i].expires = audit[i].expires
                      /\ audit[i].result # "none" => audit'[i].result # "none"
                      /\ audit'[i] = audit[i] \/ (Holding(c) /\ i = conn[c].id)
    /\ Holding(c)' =>
         \/ Holding(c) /\ conn'[c].id = conn[c].id
         \/ /\ conn'[c].id \in Delivered
            /\ redis[conn'[c].id].stored /\ ~redis'[conn'[c].id].stored
    /\ conn'[c].pc = "admitted" => /\ audit'[conn'[c].id].result = "consumed"
                                   /\ audit'[conn'[c].id].consumed

LEMMA ConsumePreserves ==
  ASSUME IInv, NEW c \in Conns, TypeOK', ConsumeStep(c)
  PROVE  TicketInv' /\ RequestTimes'
         /\ \A i \in Ids : audit'[i].expires <= Absolute
                           /\ redis'[i].expires <= Absolute
<1>0. \A d \in Conns : conn[d].id \in Ids /\ conn'[d].id \in Ids
  BY DEF IInv, TypeOK, Consume
<1>1. \A d \in Conns \ {c} : /\ Holding(d)' = Holding(d)
                             /\ conn'[d].id = conn[d].id /\ conn'[d].pc = conn[d].pc
  BY DEF ConsumeStep, Holding
<1>2. Delivered' = Delivered
  BY DEF ConsumeStep, Delivered, Id
<1>a. HeldDelivered /\ OneConsumer /\ ConsumedRecorded /\ RowsExist /\ AuditedBeforeUse
  BY DEF IInv, TicketInv
<1>3. HeldDelivered'
  BY <1>1, <1>2, <1>a DEF ConsumeStep, HeldDelivered
<1>4. OneConsumer'
  <2>1. ASSUME NEW d \in Conns, Holding(d)'
        PROVE  ~redis'[conn'[d].id].stored
    <3>1. CASE Holding(d) /\ conn'[d].id = conn[d].id
      BY <1>0, <1>a, <3>1 DEF ConsumeStep, OneConsumer
    <3>2. CASE d = c /\ ~redis'[conn'[c].id].stored
      BY <3>2
    <3>3. QED
      BY <1>1, <2>1, <3>1, <3>2 DEF ConsumeStep
  <2>2. ASSUME NEW d \in Conns \ {c}, Holding(d)', Holding(c)'
        PROVE  conn'[d].id # conn'[c].id
    <3>1. Holding(d) /\ conn'[d].id = conn[d].id
      BY <1>1, <2>2
    <3>2. CASE Holding(c) /\ conn'[c].id = conn[c].id
      BY <1>a, <3>1, <3>2 DEF OneConsumer
    <3>3. CASE redis[conn'[c].id].stored
      BY <1>a, <3>1, <3>3 DEF OneConsumer
    <3>4. QED
      BY <2>2, <3>2, <3>3 DEF ConsumeStep
  <2>3. ASSUME NEW d \in Conns \ {c}, NEW e \in Conns \ {c}, d # e,
               Holding(d)', Holding(e)'
        PROVE  conn'[d].id # conn'[e].id
    BY <1>1, <1>a, <2>3 DEF OneConsumer
  <2>4. QED
    BY <2>1, <2>2, <2>3 DEF OneConsumer
<1>5. ConsumedRecorded'
  <2> SUFFICES ASSUME NEW d \in Conns, conn'[d].pc = "admitted"
               PROVE  /\ audit'[conn'[d].id].result = "consumed"
                      /\ audit'[conn'[d].id].consumed
    BY DEF ConsumedRecorded
  <2>1. CASE d = c
    BY <2>1 DEF ConsumeStep
  <2>2. CASE d # c
    <3>1. conn[d].pc = "admitted" /\ conn'[d].id = conn[d].id
      BY <1>1, <2>2
    <3>2. Holding(d)
      BY <3>1 DEF Holding, ConsumeSteps
    <3>3. Holding(c) => conn[d].id # conn[c].id
      BY <1>a, <2>2, <3>2 DEF OneConsumer
    <3>4. audit'[conn[d].id] = audit[conn[d].id]
      BY <1>0, <3>3 DEF ConsumeStep
    <3>5. QED
      BY <1>a, <3>1, <3>4 DEF ConsumedRecorded
  <2>3. QED
    BY <2>1, <2>2
<1>6. RowsExist'
  <2> SUFFICES ASSUME NEW q \in Reqs, req[q].pc \in Recorded
               PROVE  audit'[Id(q)].result # "none"
    BY DEF RowsExist, Id, Recorded, ConsumeStep
  <2>1. QED
    BY <1>a, IdType DEF ConsumeStep, RowsExist, IInv
<1>7. AuditedBeforeUse'
  <2>1. \A i \in Ids : redis'[i].stored => audit'[i].result # "none"
    BY <1>a DEF ConsumeStep, AuditedBeforeUse
  <2>2. ASSUME NEW d \in Conns, Holding(d)' PROVE audit'[conn'[d].id].result # "none"
    <3>1. CASE Holding(d) /\ conn'[d].id = conn[d].id
      BY <1>0, <1>a, <3>1 DEF ConsumeStep, AuditedBeforeUse
    <3>2. CASE d = c /\ redis[conn'[c].id].stored
      BY <1>0, <1>a, <3>2 DEF ConsumeStep, AuditedBeforeUse
    <3>3. QED
      BY <1>1, <2>2, <3>1, <3>2 DEF ConsumeStep
  <2>3. QED
    BY <2>1, <2>2 DEF AuditedBeforeUse
<1>8. QED
  BY <1>3, <1>4, <1>5, <1>6, <1>7
    DEF TicketInv, ConsumeStep, RequestTimes, IInv, TimeInv, TimesNested

LEMMA MoveType ==
  ASSUME TypeOK, NEW c \in Conns, NEW pc \in ConsumeSteps, Move(c, pc)
  PROVE  /\ conn' \in [Conns -> Consume]
         /\ conn'[c].pc = pc /\ conn'[c].id = conn[c].id
         /\ conn'[c].changed = conn[c].changed
         /\ \A d \in Conns \ {c} : conn'[d] = conn[d]
BY DEF TypeOK, Move, Consume

\* The session row was written: the writer moves on, who waits takes note.
LEMMA NoteMoveType ==
  ASSUME TypeOK, NEW c \in Conns, NEW pc \in ConsumeSteps,
         conn' = [NoteChange(conn) EXCEPT ![c].pc = pc]
  PROVE  /\ conn' \in [Conns -> Consume]
         /\ conn'[c].pc = pc /\ conn'[c].id = conn[c].id
         /\ \A d \in Conns \ {c} :
              /\ conn'[d].pc = conn[d].pc /\ conn'[d].id = conn[d].id
              /\ conn[d].pc = "lock" => conn'[d].changed
<1> DEFINE n == NoteChange(conn)
<1>1. /\ n \in [Conns -> Consume]
      /\ \A d \in Conns : /\ n[d].pc = conn[d].pc /\ n[d].id = conn[d].id
                          /\ conn[d].pc = "lock" => n[d].changed
  BY NoteChangeKeeps
<1>2. conn' = [n EXCEPT ![c].pc = pc]
  OBVIOUS
<1> HIDE DEF n
<1>3. conn' \in [Conns -> Consume]
  <2>1. n[c] \in Consume
    BY <1>1
  <2>2. [n[c] EXCEPT !.pc = pc] \in Consume
    BY <2>1 DEF Consume
  <2>3. conn' = [n EXCEPT ![c] = [n[c] EXCEPT !.pc = pc]]
    BY <1>2
  <2>4. QED
    BY <1>1, <2>2, <2>3
<1>4. conn'[c].pc = pc /\ conn'[c].id = n[c].id
  BY <1>1, <1>2 DEF Consume
<1>5. \A d \in Conns \ {c} : conn'[d] = n[d]
  BY <1>1, <1>2
<1>6. QED
  BY <1>1, <1>3, <1>4, <1>5

\* A step of a connection that leaves the session row as it is.
LEMMA SessionKept ==
  ASSUME IInv, NEW c \in Conns, ConsumeOnly, UNCHANGED session,
         audit' \in [Ids -> Row], redis' \in [Ids -> Payload],
         conn' \in [Conns -> Consume], \A d \in Conns \ {c} : conn'[d] = conn[d],
         conn[c].pc # "touch", conn'[c].pc # "touch",
         conn'[c].pc = "lock" => session.state = "active"
  PROVE  TypeOK' /\ SessionInv' /\ session'.idle <= Absolute
         /\ session'.idle <= MeetingEnd
<1>1. TypeOK'
  BY DEF IInv, TypeOK, ConsumeOnly
<1>2. SessionInv'
  BY DEF IInv, SessionInv, RevokedNotAdmitted, WaitingActive
<1>3. QED
  BY <1>1, <1>2 DEF IInv, TimeInv, TimesNested

\* A step of a connection that gives the row back, or does not have it.
LEMMA SessionGiven ==
  ASSUME IInv, NEW c \in Conns, ConsumeOnly, Unlock(c), UNCHANGED <<audit, redis>>,
         NEW pc \in ConsumeSteps \ {"lock", "touch"}, Move(c, pc)
  PROVE  TypeOK' /\ SessionInv' /\ session'.idle <= Absolute
         /\ session'.idle <= MeetingEnd
<1>0. TypeOK
  BY DEF IInv
<1>1. /\ conn' \in [Conns -> Consume]
      /\ conn'[c].pc = pc
      /\ \A d \in Conns \ {c} : conn'[d] = conn[d]
  BY <1>0, MoveType
<1>2. /\ session' \in [state : {"active", "revoked"}, idle : Nat, holder : Conns \cup {Free}]
      /\ session'.idle = session.idle /\ session'.state = session.state
      /\ session'.holder = IF session.holder = c THEN Free ELSE session.holder
  BY <1>0 DEF Unlock, TypeOK
<1>3. \A d \in Conns : session'.holder = d <=> conn'[d].pc = "touch"
  <2>1. session'.holder # c /\ conn'[c].pc # "touch"
    BY <1>1, <1>2, TicketAssumption
  <2>2. \A d \in Conns \ {c} : session'.holder = d <=> session.holder = d
    BY <1>2, TicketAssumption
  <2>3. QED
    BY <1>0, <1>1, <2>1, <2>2 DEF TypeOK
<1>4. TypeOK'
  BY <1>0, <1>1, <1>2, <1>3 DEF TypeOK, ConsumeOnly
<1>5. SessionInv'
  BY <1>1, <1>2 DEF IInv, SessionInv, RevokedNotAdmitted, WaitingActive
<1>6. QED
  BY <1>2, <1>4, <1>5 DEF IInv, TimeInv, TimesNested

\* The COMMIT of touch: nobody else was past the lock, who waits takes note.
LEMMA SessionTouched ==
  ASSUME IInv, NEW c \in Conns, ConsumeOnly, conn[c].pc = "touch",
         session' = [session EXCEPT !.idle = IdleExpiry, !.holder = Free],
         NEW pc \in ConsumeSteps \ {"lock", "touch"},
         conn' = [NoteChange(conn) EXCEPT ![c].pc = pc], UNCHANGED <<audit, redis>>
  PROVE  TypeOK' /\ SessionInv' /\ session'.idle <= Absolute
         /\ session'.idle <= MeetingEnd
<1>0. TypeOK /\ now \in Nat
  BY DEF IInv, TypeOK
<1>1. /\ conn' \in [Conns -> Consume]
      /\ conn'[c].pc = pc /\ conn'[c].id = conn[c].id
      /\ \A d \in Conns \ {c} :
           /\ conn'[d].pc = conn[d].pc /\ conn'[d].id = conn[d].id
           /\ conn[d].pc = "lock" => conn'[d].changed
  BY <1>0, NoteMoveType
<1>2. IdleExpiry \in Nat /\ IdleExpiry <= Absolute /\ IdleExpiry <= MeetingEnd
  BY <1>0, IdleBounds
<1>3. /\ session' \in [state : {"active", "revoked"}, idle : Nat, holder : Conns \cup {Free}]
      /\ session'.idle = IdleExpiry /\ session'.holder = Free
      /\ session'.state = session.state
  <2> HIDE DEF IdleExpiry
  <2>1. QED
    BY <1>0, <1>2 DEF TypeOK
<1>4. \A d \in Conns : conn'[d].pc # "touch"
  <2>1. session.holder = c
    BY <1>0 DEF TypeOK
  <2>2. QED
    BY <1>0, <1>1, <2>1 DEF TypeOK
<1>5. TypeOK'
  BY <1>0, <1>1, <1>3, <1>4, TicketAssumption DEF TypeOK, ConsumeOnly
<1>6. SessionInv'
  BY <1>1, <1>4 DEF SessionInv, RevokedNotAdmitted, WaitingActive
<1>7. QED
  BY <1>2, <1>3, <1>5, <1>6

\* The part of the invariant that a step of a connection may disturb besides
\* its tickets.
SessionOK == SessionInv /\ session.idle <= Absolute /\ session.idle <= MeetingEnd

LEMMA ConsumeActions ==
  ASSUME IInv, NEW c \in Conns,
         \/ Take(c) \/ TakeFail(c) \/ Reject(c) \/ Revalidate(c) \/ Lock(c)
         \/ Touch(c) \/ RevalidateFail(c) \/ Invalid(c) \/ Accept(c)
         \/ AcceptFail(c) \/ ConsumeCrash(c)
  PROVE  TypeOK' /\ SessionOK' /\ ConsumeStep(c)
<1>0. /\ TypeOK /\ conn[c].id \in Ids
      /\ audit \in [Ids -> Row] /\ redis \in [Ids -> Payload]
      /\ Holding(c) => audit[conn[c].id].result # "none"
  BY DEF IInv, TypeOK, Consume, TicketInv, AuditedBeforeUse
<1>h. \A pc \in ConsumeSteps \ {"idle", "refused"} : conn[c].pc = pc => Holding(c)
  BY DEF Holding
\* Steps that only move the connection.
<1>v. ASSUME NEW pc \in ConsumeSteps \ {"admitted"}, conn'[c].pc = pc,
             conn'[c].id = conn[c].id,
             \A d \in Conns \ {c} : conn'[d].pc = conn[d].pc /\ conn'[d].id = conn[d].id,
             ConsumeOnly, UNCHANGED <<audit, redis>>,
             pc = "refused" \/ Holding(c)
      PROVE  ConsumeStep(c)
  BY <1>v DEF ConsumeStep, ConsumeOnly, Holding
\* Steps that record an outcome and end.
<1>m. ASSUME NEW code \in Outcomes, MayMark(conn[c].id, code, TRUE),
             conn[c].pc \in {"check", "invalid", "accept"}, Move(c, "refused"),
             ConsumeOnly, UNCHANGED <<session, redis>>
      PROVE  TypeOK' /\ SessionOK' /\ ConsumeStep(c)
  <2>1. /\ audit' \in [Ids -> Row]
        /\ audit[conn[c].id].result # "none" => audit'[conn[c].id].result # "none"
        /\ audit'[conn[c].id].expires = audit[conn[c].id].expires
        /\ \A j \in Ids \ {conn[c].id} : audit'[j] = audit[j]
    BY <1>0, <1>m, MayMarkType
  <2>2. /\ conn' \in [Conns -> Consume]
        /\ conn'[c].pc = "refused" /\ conn'[c].id = conn[c].id
        /\ \A d \in Conns \ {c} : conn'[d] = conn[d]
    BY <1>0, <1>m, MoveType DEF ConsumeSteps
  <2>3. TypeOK' /\ SessionOK'
    BY <1>0, <1>m, <2>1, <2>2, SessionKept DEF SessionOK
  <2>4. Holding(c) /\ ~Holding(c)'
    BY <1>m, <2>2 DEF Holding, ConsumeSteps
  <2>5. QED
    BY <1>m, <2>1, <2>2, <2>3, <2>4 DEF ConsumeStep, ConsumeOnly
<1>1. CASE Take(c)
  <2>1. PICK i \in Delivered, match \in BOOLEAN :
          /\ Present(i) /\ Drop(i)
          /\ conn' = [conn EXCEPT ![c] =
                        [pc |-> "check", id |-> i, match |-> match,
                         expires |-> redis[i].expires, changed |-> FALSE]]
    BY <1>1 DEF Take
  <2>2. i \in Ids
    BY <1>0, IdType DEF Delivered
  <2>3. redis[i].expires \in Nat /\ redis[i].stored
    BY <1>0, <2>1, <2>2 DEF Payload, Present
  <2>4. /\ redis' \in [Ids -> Payload]
        /\ ~redis'[i].stored /\ redis'[i].expires = redis[i].expires
        /\ \A j \in Ids \ {i} : redis'[j] = redis[j]
    BY <1>0, <2>1, <2>2, DropType
  <2>5. [pc |-> "check", id |-> i, match |-> match,
         expires |-> redis[i].expires, changed |-> FALSE] \in Consume
    BY <2>2, <2>3 DEF Consume, ConsumeSteps
  <2>6. /\ conn' \in [Conns -> Consume]
        /\ conn'[c].pc = "check" /\ conn'[c].id = i
        /\ \A d \in Conns \ {c} : conn'[d] = conn[d]
    BY <1>0, <2>1, <2>5 DEF TypeOK
  <2>7. ConsumeOnly /\ UNCHANGED <<session, audit>> /\ conn[c].pc = "idle"
    BY <1>1 DEF Take
  <2>8. TypeOK' /\ SessionOK'
    BY <1>0, <2>4, <2>6, <2>7, SessionKept DEF SessionOK
  <2>9. QED
    BY <2>2, <2>3, <2>4, <2>6, <2>7, <2>8 DEF ConsumeStep, ConsumeOnly
<1>2. CASE TakeFail(c)
  <2>1. /\ Move(c, "refused") /\ ConsumeOnly /\ UNCHANGED <<session, audit>>
        /\ conn[c].pc = "idle"
    BY <1>2 DEF TakeFail
  <2>2. PICK i \in Delivered : Drop(i) \/ UNCHANGED redis
    BY <1>2 DEF TakeFail
  <2>3. i \in Ids
    BY <1>0, IdType DEF Delivered
  <2>4. /\ redis' \in [Ids -> Payload]
        /\ \A j \in Ids : /\ redis'[j].stored => redis[j].stored
                          /\ redis'[j].expires = redis[j].expires
    <3>1. CASE Drop(i)
      BY <1>0, <2>3, <3>1, DropType
    <3>2. CASE UNCHANGED redis
      BY <1>0, <3>2
    <3>3. QED
      BY <2>2, <3>1, <3>2
  <2>5. /\ conn' \in [Conns -> Consume]
        /\ conn'[c].pc = "refused" /\ conn'[c].id = conn[c].id
        /\ \A d \in Conns \ {c} : conn'[d] = conn[d]
    BY <1>0, <2>1, MoveType DEF ConsumeSteps
  <2>6. TypeOK' /\ SessionOK'
    BY <1>0, <2>1, <2>4, <2>5, SessionKept DEF SessionOK
  <2>7. ~Holding(c)'
    BY <2>5 DEF Holding
  <2>8. QED
    BY <2>1, <2>4, <2>5, <2>6, <2>7 DEF ConsumeStep, ConsumeOnly
<1>3. CASE Reject(c)
  BY <1>3, <1>m DEF Reject, Outcomes
<1>4. CASE Revalidate(c)
  <2> DEFINE to == IF Live THEN "lock" ELSE "invalid"
  <2>1. /\ Move(c, to) /\ ConsumeOnly /\ UNCHANGED <<session, audit, redis>>
        /\ conn[c].pc = "check"
    BY <1>4 DEF Revalidate
  <2>2. to \in ConsumeSteps /\ to \notin {"admitted", "touch", "refused"}
        /\ (to = "lock" => session.state = "active")
    BY DEF ConsumeSteps, Live
  <2> HIDE DEF to
  <2>3. /\ conn' \in [Conns -> Consume]
        /\ conn'[c].pc = to /\ conn'[c].id = conn[c].id
        /\ \A d \in Conns \ {c} : conn'[d] = conn[d]
    BY <1>0, <2>1, <2>2, MoveType
  <2>4. TypeOK' /\ SessionOK'
    BY <1>0, <2>1, <2>2, <2>3, SessionKept DEF SessionOK
  <2>5. Holding(c)
    BY <1>h, <2>1 DEF ConsumeSteps
  <2>6. QED
    BY <1>v, <2>1, <2>2, <2>3, <2>4, <2>5
<1>5. CASE Lock(c)
  <2>1. /\ conn[c].pc = "lock" /\ session.holder = Free /\ ConsumeOnly
        /\ UNCHANGED <<audit, redis>>
    BY <1>5 DEF Lock
  <2>2. Holding(c)
    BY <1>h, <2>1 DEF ConsumeSteps
  <2>3. CASE conn[c].changed => LiveAgain
    <3>1. Move(c, "touch") /\ session' = [session EXCEPT !.holder = c]
      BY <1>5, <2>3 DEF Lock
    <3>2. /\ conn' \in [Conns -> Consume]
          /\ conn'[c].pc = "touch" /\ conn'[c].id = conn[c].id
          /\ \A d \in Conns \ {c} : conn'[d] = conn[d]
      BY <1>0, <3>1, MoveType DEF ConsumeSteps
    <3>3. /\ session' \in [state : {"active", "revoked"}, idle : Nat,
                           holder : Conns \cup {Free}]
          /\ session'.idle = session.idle /\ session'.holder = c
          /\ session'.state = session.state
      BY <1>0, <3>1 DEF TypeOK
    <3>4. session.state = "active"
      BY <2>1, <2>3 DEF LiveAgain, IInv, SessionInv, WaitingActive
    <3>5. \A d \in Conns : conn[d].pc # "touch"
      BY <1>0, <2>1, TicketAssumption DEF TypeOK
    <3>6. TypeOK'
      BY <1>0, <2>1, <3>2, <3>3, <3>5 DEF TypeOK, ConsumeOnly
    <3>7. SessionOK'
      BY <3>2, <3>3, <3>4 DEF SessionOK, SessionInv, RevokedNotAdmitted,
                              WaitingActive, IInv, TimeInv, TimesNested
    <3>8. ConsumeStep(c)
      BY <1>v, <2>1, <2>2, <3>2 DEF ConsumeSteps
    <3>9. QED
      BY <3>6, <3>7, <3>8
  <2>4. CASE ~(conn[c].changed => LiveAgain)
    <3>1. Move(c, "invalid") /\ UNCHANGED session
      BY <1>5, <2>4 DEF Lock
    <3>2. /\ conn' \in [Conns -> Consume]
          /\ conn'[c].pc = "invalid" /\ conn'[c].id = conn[c].id
          /\ \A d \in Conns \ {c} : conn'[d] = conn[d]
      BY <1>0, <3>1, MoveType DEF ConsumeSteps
    <3>3. TypeOK' /\ SessionOK'
      BY <1>0, <2>1, <3>1, <3>2, SessionKept DEF SessionOK
    <3>4. QED
      BY <1>v, <2>1, <2>2, <3>2, <3>3 DEF ConsumeSteps
  <2>5. QED
    BY <2>3, <2>4
<1>t. ASSUME conn[c].pc = "touch",
             session' = [session EXCEPT !.idle = IdleExpiry, !.holder = Free],
             NEW pc \in {"accept", "invalid"},
             conn' = [NoteChange(conn) EXCEPT ![c].pc = pc],
             ConsumeOnly, UNCHANGED <<audit, redis>>
      PROVE  TypeOK' /\ SessionOK' /\ ConsumeStep(c)
  <2>1. pc \in ConsumeSteps /\ pc \notin {"lock", "touch", "admitted", "refused"}
    BY <1>t DEF ConsumeSteps
  <2>2. TypeOK' /\ SessionOK'
    BY <1>t, <2>1, SessionTouched DEF SessionOK
  <2>3. /\ conn'[c].pc = pc /\ conn'[c].id = conn[c].id
        /\ \A d \in Conns \ {c} : conn'[d].pc = conn[d].pc /\ conn'[d].id = conn[d].id
    BY <1>0, <1>t, <2>1, NoteMoveType
  <2>4. Holding(c)
    BY <1>h, <1>t DEF ConsumeSteps
  <2>5. QED
    BY <1>t, <1>v, <2>1, <2>2, <2>3, <2>4
<1>6. CASE Touch(c)
  BY <1>6, <1>t DEF Touch
<1>u. ASSUME NEW pc \in {"invalid", "refused"}, Unlock(c), Move(c, pc), Holding(c),
             ConsumeOnly, UNCHANGED <<audit, redis>>
      PROVE  TypeOK' /\ SessionOK' /\ ConsumeStep(c)
  <2>1. pc \in ConsumeSteps /\ pc \notin {"lock", "touch", "admitted"}
    BY <1>u DEF ConsumeSteps
  <2>2. TypeOK' /\ SessionOK'
    BY <1>u, <2>1, SessionGiven DEF SessionOK
  <2>3. /\ conn'[c].pc = pc /\ conn'[c].id = conn[c].id
        /\ \A d \in Conns \ {c} : conn'[d] = conn[d]
    BY <1>0, <1>u, <2>1, MoveType
  <2>4. QED
    BY <1>u, <1>v, <2>1, <2>2, <2>3
<1>7. CASE RevalidateFail(c)
  <2>1. Holding(c) /\ ConsumeOnly /\ UNCHANGED <<audit, redis>>
    BY <1>7 DEF RevalidateFail, Holding, ConsumeSteps
  <2>2. CASE Unlock(c) /\ Move(c, "invalid")
    BY <1>u, <2>1, <2>2
  <2>3. CASE /\ conn[c].pc = "touch"
             /\ session' = [session EXCEPT !.idle = IdleExpiry, !.holder = Free]
             /\ conn' = [NoteChange(conn) EXCEPT ![c].pc = "invalid"]
    BY <1>t, <2>1, <2>3
  <2>4. QED
    BY <1>7, <2>2, <2>3 DEF RevalidateFail
<1>8. CASE Invalid(c)
  BY <1>8, <1>m DEF Invalid, Outcomes
<1>9. CASE Accept(c)
  <2>1. /\ conn[c].pc = "accept" /\ MarkResult(conn[c].id, "consumed", TRUE)
        /\ Move(c, "admitted") /\ ConsumeOnly /\ UNCHANGED <<session, redis>>
    BY <1>9 DEF Accept
  <2>2. /\ audit' \in [Ids -> Row]
        /\ audit'[conn[c].id].result = "consumed" /\ audit'[conn[c].id].consumed
        /\ audit'[conn[c].id].expires = audit[conn[c].id].expires
        /\ \A j \in Ids \ {conn[c].id} : audit'[j] = audit[j]
    BY <1>0, <2>1, MarkType DEF Outcomes
  <2>3. /\ conn' \in [Conns -> Consume]
        /\ conn'[c].pc = "admitted" /\ conn'[c].id = conn[c].id
        /\ \A d \in Conns \ {c} : conn'[d] = conn[d]
    BY <1>0, <2>1, MoveType DEF ConsumeSteps
  <2>4. TypeOK' /\ SessionOK'
    BY <1>0, <2>1, <2>2, <2>3, SessionKept DEF SessionOK
  <2>5. Holding(c)
    BY <1>h, <2>1 DEF ConsumeSteps
  <2>6. QED
    BY <2>1, <2>2, <2>3, <2>4, <2>5 DEF ConsumeStep, ConsumeOnly
<1>10. CASE AcceptFail(c)
  BY <1>10, <1>m DEF AcceptFail, Outcomes
<1>11. CASE ConsumeCrash(c)
  <2>1. Holding(c)
    BY <1>11 DEF ConsumeCrash, Holding, ConsumeSteps
  <2>2. QED
    BY <1>11, <1>u, <2>1 DEF ConsumeCrash
<1>12. QED
  BY <1>1, <1>2, <1>3, <1>4, <1>5, <1>6, <1>7, <1>8, <1>9, <1>10, <1>11

------------------------------------------------------------------------------
(* The theorems *)

LEMMA InitInv == Init => IInv
<1> SUFFICES ASSUME Init PROVE IInv
  OBVIOUS
<1>1. Absolute \in Nat /\ MeetingEnd \in Nat /\ IdleTtl \in Nat /\ MaxTime \in Nat
      /\ Attempts \in Nat /\ 0 \in 0 .. Attempts - 1
  BY TicketAssumption
<1>2. PICK r \in Reqs : TRUE
  BY TicketAssumption
<1>3. AnyId \in Ids
  <2>1. <<r, 0>> \in Ids
    BY <1>1 DEF Ids
  <2>2. QED
    BY <2>1 DEF AnyId
<1>4. /\ Smallest({IdleTtl, Absolute, MeetingEnd}) \in {IdleTtl, Absolute, MeetingEnd}
      /\ Smallest({IdleTtl, Absolute, MeetingEnd}) <= Absolute
      /\ Smallest({IdleTtl, Absolute, MeetingEnd}) <= MeetingEnd
  BY <1>1, SmallestOfThree
<1>5. session.idle \in Nat /\ session.idle <= Absolute /\ session.idle <= MeetingEnd
      /\ session.state = "active" /\ session.holder = Free
      /\ session \in [state : {"active", "revoked"}, idle : Nat,
                      holder : Conns \cup {Free}]
  <2> DEFINE m == Smallest({IdleTtl, Absolute, MeetingEnd})
  <2>1. m \in Nat
    BY <1>1, <1>4
  <2>2. session = [state |-> "active", holder |-> Free, idle |-> m]
    BY DEF Init
  <2>3. m <= Absolute /\ m <= MeetingEnd
    BY <1>4
  <2> HIDE DEF m
  <2>4. QED
    BY <2>1, <2>2, <2>3
<1>6. \A c \in Conns : conn[c] \in Consume /\ conn[c].pc = "idle"
  BY <1>3 DEF Init, Consume, ConsumeSteps
<1>7. \A q \in Reqs : req[q] \in Issue /\ req[q].pc = "idle" /\ req[q].expires = 0
  BY <1>1 DEF Init, Issue, IssueSteps
<1>8. \A i \in Ids : /\ audit[i] \in Row /\ audit[i].expires = 0
                     /\ redis[i] \in Payload /\ redis[i].expires = 0
                     /\ ~redis[i].stored
  BY DEF Init, Row, Payload
<1>9. TypeOK
  <2>1. now \in 0 .. MaxTime /\ meeting \in BOOLEAN
    BY <1>1 DEF Init
  <2>2. audit \in [Ids -> Row] /\ redis \in [Ids -> Payload]
    BY <1>8 DEF Init
  <2>3. req \in [Reqs -> Issue] /\ conn \in [Conns -> Consume]
    BY <1>6, <1>7 DEF Init
  <2>4. QED
    BY <1>5, <1>6, <2>1, <2>2, <2>3, TicketAssumption DEF TypeOK
<1>10. TicketInv
  <2>1. \A c \in Conns : ~Holding(c)
    BY <1>6 DEF Holding
  <2>2. QED
    BY <1>6, <1>7, <1>8, <2>1
      DEF TicketInv, HeldDelivered, OneConsumer, ConsumedRecorded, RowsExist,
          Recorded, AuditedBeforeUse
<1>11. SessionInv
  BY <1>6 DEF SessionInv, RevokedNotAdmitted, WaitingActive
<1>12. TimeInv
  BY <1>1, <1>5, <1>7, <1>8 DEF TimeInv, TimesNested, RequestTimes
<1>13. QED
  BY <1>9, <1>10, <1>11, <1>12 DEF IInv

LEMMA NextInv == IInv /\ [Next]_vars => IInv'
<1> SUFFICES ASSUME IInv, [Next]_vars PROVE IInv'
  OBVIOUS
<1>1. CASE Tick \/ Revoke \/ EndMeeting \/ Expire \/ UNCHANGED vars
  BY <1>1, EnvironmentPreserves
<1>2. ASSUME NEW r \in Reqs, Authenticate(r) PROVE IInv'
  BY <1>2, AuthenticatePreserves
<1>3. ASSUME NEW r \in Reqs,
             \/ IssueBegin(r) \/ Record(r) \/ RecordFail(r) \/ Put(r) \/ PutFail(r)
             \/ Unstored(r) \/ Collided(r) \/ CollidedFail(r) \/ Mark(r)
             \/ MarkFail(r) \/ Undo(r) \/ IssueCrash(r)
      PROVE  IInv'
  BY <1>3, IssueActions, IssuePreserves
<1>4. ASSUME NEW c \in Conns,
             \/ Take(c) \/ TakeFail(c) \/ Reject(c) \/ Revalidate(c) \/ Lock(c)
             \/ Touch(c) \/ RevalidateFail(c) \/ Invalid(c) \/ Accept(c)
             \/ AcceptFail(c) \/ ConsumeCrash(c)
      PROVE  IInv'
  <2>1. TypeOK' /\ SessionOK' /\ ConsumeStep(c)
    BY <1>4, ConsumeActions
  <2>2. TicketInv' /\ RequestTimes'
        /\ \A i \in Ids : audit'[i].expires <= Absolute /\ redis'[i].expires <= Absolute
    BY <2>1, ConsumePreserves
  <2>3. QED
    BY <2>1, <2>2 DEF IInv, SessionOK, TimeInv, TimesNested
<1>5. QED
  BY <1>1, <1>2, <1>3, <1>4 DEF Next

\* The invariant holds in every reachable state.
THEOREM Invariance == Spec => []IInv
BY InitInv, NextInv, PTL DEF Spec

\* Types, and the session row is held exactly by the connection between its
\* locking SELECT and its COMMIT.
THEOREM TypeCorrect == Spec => []TypeOK
<1>1. IInv => TypeOK
  BY DEF IInv
<1>2. QED
  BY <1>1, Invariance, PTL

\* GETDEL gives a ticket to one connection, and what it took is never stored
\* again (TKT-005).
THEOREM SingleConsumer == Spec => []OneConsumer
<1>1. IInv => OneConsumer
  BY DEF IInv, TicketInv
<1>2. QED
  BY <1>1, Invariance, PTL

\* The row of an admitted connection says consumed, for good: no late write of
\* issue(), no janitor and no other connection overwrites it.
THEOREM ConsumptionRecorded == Spec => []ConsumedRecorded
<1>1. IInv => ConsumedRecorded
  BY DEF IInv, TicketInv
<1>2. QED
  BY <1>1, Invariance, PTL

\* No secret without its audit row, whatever fails or crashes.
THEOREM UseIsAudited == Spec => []AuditedBeforeUse
<1>1. IInv => AuditedBeforeUse
  BY DEF IInv, TicketInv
<1>2. QED
  BY <1>1, Invariance, PTL

\* revalidate admits no session that was revoked while it waited for the row.
THEOREM RevocationRespected == Spec => []RevokedNotAdmitted
<1>1. IInv => RevokedNotAdmitted
  BY DEF IInv, SessionInv
<1>2. QED
  BY <1>1, Invariance, PTL

\* Ticket lifetimes and idle expiry stay within the session's and the
\* meeting's, for all lifetimes configured.
THEOREM LifetimesNested == Spec => []TimesNested
<1>1. IInv => TimesNested
  BY DEF IInv, TimeInv
<1>2. QED
  BY <1>1, Invariance, PTL

------------------------------------------------------------------------------
(***************************************************************************)
(* The mapping onto OneTimeTicket.  A ticket is reserved while its request *)
(* is between recordIssue and SET, live while the secret is stored, and    *)
(* spent from then on, whether a connection took it, undo removed it or    *)
(* the request gave up.                                                    *)
(***************************************************************************)
Admits(i) == \E c \in Conns : conn[c].pc = "admitted" /\ conn[c].id = i
Storing(i) == req[i[1]].pc = "put" /\ req[i[1]].try = i[2]
Life(i) ==
    IF Admits(i) THEN "admitted"
    ELSE IF redis[i].stored THEN "live"
    ELSE IF audit[i].result = "none" THEN "unknown"
    ELSE IF Storing(i) THEN "reserved"
    ELSE "spent"
Lives == [i \in Ids |-> Life(i)]
Used == {i \in Ids : audit[i].consumed}

Ticket == INSTANCE OneTimeTicket WITH life <- Lives, used <- Used

\* Attempt k of request r has not reached recordIssue.
Ahead(r, k) ==
    \/ k > req[r].try
    \/ k = req[r].try /\ req[r].pc \in {"idle", "begin", "record"}

\* What makes the life of a ticket one-way: nothing exists before its attempt,
\* a recorded use is of a delivered ticket that nobody can take or still uses.
UseInv ==
    \A i \in Ids : audit[i].consumed =>
       /\ i \in Delivered
       /\ ~redis[i].stored
       /\ \A c \in Conns : Holding(c) /\ conn[c].id = i => conn[c].pc = "admitted"
AttemptInv(r) ==
    /\ \A k \in 0 .. Attempts - 1 : Ahead(r, k) =>
          audit[<<r, k>>].result = "none" /\ ~redis[<<r, k>>].stored
    /\ req[r].pc = "put" => ~redis[Id(r)].stored
    /\ req[r].pc \in {"idle", "begin"} => req[r].try = 0
OnceInv == UseInv /\ \A r \in Reqs : AttemptInv(r)

\* A request that is not over has delivered nothing, so nobody holds its ticket.
LEMMA OwnTicket ==
  ASSUME IInv, OnceInv, NEW r \in Reqs, req[r].pc # "delivered"
  PROVE  /\ Id(r) \notin Delivered
         /\ ~audit[Id(r)].consumed
         /\ ~Admits(Id(r))
         /\ \A c \in Conns : Holding(c) => conn[c].id # Id(r)
<1>1. Id(r) \in Ids
  BY IdType DEF IInv
<1>2. Id(r) \notin Delivered
  BY IdInjective DEF Delivered
<1>3. \A c \in Conns : Holding(c) => conn[c].id # Id(r)
  BY <1>2 DEF IInv, TicketInv, HeldDelivered
<1>4. ~Admits(Id(r))
  BY <1>3 DEF Admits, Holding, ConsumeSteps
<1>5. QED
  BY <1>1, <1>2, <1>3, <1>4 DEF OnceInv, UseInv

\* What a step of issue() may do to the ticket of its current attempt.
OnceStep(r) ==
    /\ audit'[Id(r)].consumed = audit[Id(r)].consumed
    /\ \A k \in 0 .. Attempts - 1 : Ahead(r, k)' =>
          Ahead(r, k) /\ (k = req[r].try => audit'[Id(r)] = audit[Id(r)] /\ redis'[Id(r)] = redis[Id(r)])
    /\ req'[r].pc = "put" => /\ req[r].pc = "record" /\ req'[r].try = req[r].try
                             /\ redis'[Id(r)] = redis[Id(r)]
    /\ redis'[Id(r)].stored => redis[Id(r)].stored \/ req[r].pc = "put"
    /\ req'[r].pc \in {"idle", "begin"} => req'[r].try = 0

LEMMA OncePreserved ==
  ASSUME IInv, OnceInv, TypeOK', NEW r \in Reqs, IssueStep(r), OnceStep(r)
  PROVE  OnceInv'
<1>0. TypeOK /\ Id(r) \in Ids /\ req[r] \in Issue /\ Id(r) = <<r, req[r].try>>
  BY RequestFacts
<1>1. UseInv'
  <2> SUFFICES ASSUME NEW i \in Ids, audit'[i].consumed
               PROVE  /\ i \in Delivered'
                      /\ ~redis'[i].stored
                      /\ \A c \in Conns : Holding(c)' /\ conn'[c].id = i => conn'[c].pc = "admitted"
    BY DEF UseInv
  <2>1. audit[i].consumed
    BY DEF IssueStep, OnceStep
  <2>2. /\ i \in Delivered /\ ~redis[i].stored
        /\ \A c \in Conns : Holding(c) /\ conn[c].id = i => conn[c].pc = "admitted"
    BY <2>1 DEF OnceInv, UseInv
  <2>3. PICK q \in Reqs : req[q].pc = "delivered" /\ i = Id(q)
    BY <2>2 DEF Delivered
  <2>4. q # r /\ i # Id(r) /\ req'[q] = req[q]
    BY <2>3, IdInjective DEF IssueStep
  <2>5. i \in Delivered'
    BY <2>3, <2>4, StaysDelivered
  <2>6. redis'[i] = redis[i] /\ conn' = conn
    BY <2>4 DEF IssueStep
  <2>7. QED
    BY <2>2, <2>5, <2>6 DEF Holding
<1>2. ASSUME NEW q \in Reqs, q # r
      PROVE  AttemptInv(q)'
  <2>1. req'[q] = req[q] /\ Id(q)' = Id(q) /\ Id(q) \in Ids /\ Id(q) # Id(r)
    BY <1>0, <1>2, IdType, IdInjective DEF IssueStep, Id
  <2>2. \A k \in 0 .. Attempts - 1 : /\ <<q, k>> \in Ids
                                     /\ <<q, k>> # Id(r)
                                     /\ Ahead(q, k)' = Ahead(q, k)
    BY <1>0, <1>2, <2>1 DEF Ids, Ahead
  <2>3. AttemptInv(q)
    BY DEF OnceInv
  <2>4. /\ redis'[Id(q)] = redis[Id(q)]
        /\ \A k \in 0 .. Attempts - 1 : /\ audit'[<<q, k>>] = audit[<<q, k>>]
                                         /\ redis'[<<q, k>>] = redis[<<q, k>>]
    BY <2>1, <2>2 DEF IssueStep
  <2>5. QED
    BY <2>1, <2>2, <2>3, <2>4 DEF AttemptInv
<1>3. AttemptInv(r)'
  <2>1. AttemptInv(r)
    BY DEF OnceInv
  <2>2. ASSUME NEW k \in 0 .. Attempts - 1, Ahead(r, k)'
        PROVE  audit'[<<r, k>>].result = "none" /\ ~redis'[<<r, k>>].stored
    <3>1. Ahead(r, k) /\ <<r, k>> \in Ids
      BY <2>2 DEF OnceStep, Ids
    <3>2. audit[<<r, k>>].result = "none" /\ ~redis[<<r, k>>].stored
      BY <2>1, <3>1 DEF AttemptInv
    <3>3. CASE k = req[r].try
      BY <1>0, <2>2, <3>2, <3>3 DEF OnceStep
    <3>4. CASE k # req[r].try
      BY <1>0, <3>1, <3>2, <3>4 DEF IssueStep
    <3>5. QED
      BY <3>3, <3>4
  <2>3. req'[r].pc = "put" => ~redis'[Id(r)'].stored
    <3> SUFFICES ASSUME req'[r].pc = "put" PROVE ~redis'[Id(r)'].stored
      OBVIOUS
    <3>1. req[r].pc = "record" /\ Id(r)' = Id(r) /\ redis'[Id(r)] = redis[Id(r)]
      BY DEF OnceStep, Id
    <3>2. req[r].try \in 0 .. Attempts - 1 /\ Ahead(r, req[r].try)
      BY <1>0, <3>1 DEF Ahead, Issue
    <3>3. ~redis[Id(r)].stored
      BY <1>0, <2>1, <3>2 DEF AttemptInv
    <3>4. QED
      BY <3>1, <3>3
  <2>4. QED
    BY <2>2, <2>3 DEF AttemptInv, OnceStep
<1>4. QED
  BY <1>1, <1>2, <1>3 DEF OnceInv

\* When only ticket i moves, so does the map.
LEMMA OneLife ==
  ASSUME NEW i \in Ids, \A j \in Ids \ {i} : Life(j)' = Life(j)
  PROVE  Lives' = [Lives EXCEPT ![i] = Life(i)']
<1>1. \A j \in Ids : Lives'[j] = Life(j)' /\ Lives[j] = Life(j)
  BY DEF Lives
<1>2. Lives' = [j \in Ids |-> Lives'[j]] /\ Lives = [j \in Ids |-> Lives[j]]
  BY DEF Lives
<1> HIDE DEF Lives
<1>3. QED
  BY <1>1, <1>2

\* A step of issue() takes its ticket forward, or leaves it where it is.
LEMMA IssueSimulates ==
  ASSUME IInv, OnceInv, TypeOK', NEW r \in Reqs, IssueStep(r), OnceStep(r)
  PROVE  [Ticket!TNext]_(Ticket!tvars)
<1>i. PICK i \in Ids : i = Id(r)
  BY RequestFacts
<1>0. TypeOK /\ req[r] \in Issue /\ i = <<r, req[r].try>>
  BY <1>i, RequestFacts
<1>1. conn' = conn /\ \A j \in Ids : Admits(j)' = Admits(j)
  BY DEF IssueStep, Admits
<1>2. ~Admits(i)
  BY <1>i, OwnTicket DEF IssueStep
<1>3. /\ req[r].pc = "put" => ~redis[i].stored /\ audit[i].result # "none"
      /\ req[r].pc = "record" => ~redis[i].stored /\ audit[i].result = "none"
  <2>1. AttemptInv(r)
    BY DEF OnceInv
  <2>2. req[r].pc = "record" => Ahead(r, req[r].try) /\ req[r].try \in 0 .. Attempts - 1
    BY <1>0 DEF Ahead, Issue
  <2>3. req[r].pc = "put" => audit[i].result # "none"
    BY <1>i, RequestFacts DEF Recorded
  <2>4. QED
    BY <1>0, <1>i, <2>1, <2>2, <2>3 DEF AttemptInv
<1>4. Storing(i) <=> req[r].pc = "put"
  BY <1>0 DEF Storing
<1>5. Storing(i)' <=> req'[r].pc = "put"
  <2>1. Storing(i)' <=> req'[r].pc = "put" /\ req'[r].try = req[r].try
    BY <1>0 DEF Storing
  <2>2. QED
    BY <2>1 DEF OnceStep
<1>6. ASSUME NEW j \in Ids \ {i}
      PROVE  Life(j)' = Life(j)
  <2>1. audit'[j] = audit[j] /\ redis'[j] = redis[j]
    BY <1>i DEF IssueStep
  <2>2. PICK q \in Reqs, k \in 0 .. Attempts - 1 : j = <<q, k>>
    BY DEF Ids
  <2>3. Storing(j)' <=> Storing(j)
    <3>1. CASE q # r
      BY <2>2, <3>1 DEF IssueStep, Storing
    <3>2. CASE q = r
      BY <1>0, <1>6, <2>2, <3>2 DEF OnceStep, Storing
    <3>3. QED
      BY <3>1, <3>2
  <2>4. QED
    BY <1>1, <2>1, <2>3 DEF Life
<1>7. Used' = Used
  <2>1. \A j \in Ids : audit'[j].consumed = audit[j].consumed
    BY <1>i DEF IssueStep, OnceStep
  <2>2. QED
    BY <2>1 DEF Used
<1>8. Lives' = [Lives EXCEPT ![i] = Life(i)']
  BY <1>0, <1>6, OneLife
<1>9. Lives[i] = Life(i) /\ Lives = [Lives EXCEPT ![i] = Life(i)]
  BY <1>0 DEF Lives
<1>10. \/ Life(i)' = Life(i)
       \/ Life(i) = "unknown" /\ Life(i)' \in {"reserved", "spent"}
       \/ Life(i) = "reserved" /\ Life(i)' = "live"
       \/ Life(i) \in {"reserved", "live"} /\ Life(i)' = "spent"
  <2>1. /\ redis'[i].stored => redis[i].stored \/ req[r].pc = "put"
        /\ req'[r].pc = "put" => req[r].pc = "record"
        /\ audit[i].result # "none" => audit'[i].result # "none"
        /\ redis'[i].stored => audit'[i].result # "none"
        /\ redis[i].stored => audit[i].result # "none"
    BY <1>i, RequestFacts DEF IssueStep, OnceStep
  <2>2. ~Admits(i)'
    BY <1>0, <1>1, <1>2
  <2>3. Life(i) = IF redis[i].stored THEN "live"
                  ELSE IF audit[i].result = "none" THEN "unknown"
                  ELSE IF req[r].pc = "put" THEN "reserved" ELSE "spent"
    BY <1>2, <1>4 DEF Life
  <2>4. Life(i)' = IF redis'[i].stored THEN "live"
                   ELSE IF audit'[i].result = "none" THEN "unknown"
                   ELSE IF req'[r].pc = "put" THEN "reserved" ELSE "spent"
    BY <1>5, <2>2 DEF Life
  <2>5. QED
    BY <1>3, <2>1, <2>3, <2>4
<1>11. QED
  <2>1. CASE Life(i)' = Life(i)
    BY <1>7, <1>8, <1>9, <2>1 DEF Ticket!tvars
  <2>2. CASE Life(i) = "unknown" /\ Life(i)' \in {"reserved", "spent"}
    BY <1>0, <1>7, <1>8, <1>9, <2>2 DEF Ticket!TNext, Ticket!Reserve, Ticket!Becomes
  <2>3. CASE Life(i) = "reserved" /\ Life(i)' = "live"
    BY <1>0, <1>7, <1>8, <1>9, <2>3 DEF Ticket!TNext, Ticket!Activate, Ticket!Becomes
  <2>4. CASE Life(i) \in {"reserved", "live"} /\ Life(i)' = "spent"
    BY <1>0, <1>7, <1>8, <1>9, <2>4 DEF Ticket!TNext, Ticket!Spend, Ticket!Becomes
  <2>5. QED
    BY <1>10, <2>1, <2>2, <2>3, <2>4

\* A step that ends or advances an attempt whose row exists already.
LEMMA PastRecord ==
  ASSUME TypeOK, NEW r \in Reqs, NEW pc \in IssueSteps, Step(r, pc),
         pc \notin {"idle", "begin", "record", "put"},
         audit'[Id(r)].consumed = audit[Id(r)].consumed,
         redis'[Id(r)].stored => redis[Id(r)].stored \/ req[r].pc = "put"
  PROVE  OnceStep(r)
<1>1. req'[r].pc = pc /\ req'[r].try = req[r].try
  BY StepType
<1>2. req[r].try \in Nat
  BY DEF TypeOK, Issue
<1>3. \A k \in 0 .. Attempts - 1 : Ahead(r, k)' => k > req[r].try
  BY <1>1, <1>2 DEF Ahead
<1>4. \A k \in 0 .. Attempts - 1 : k > req[r].try => Ahead(r, k) /\ k # req[r].try
  BY <1>2 DEF Ahead
<1>5. QED
  BY <1>1, <1>3, <1>4 DEF OnceStep

\* markResult with consumed FALSE records no use.
LEMMA MarkKeepsUse ==
  ASSUME TypeOK, NEW i \in Ids, NEW code \in Outcomes, MayMark(i, code, FALSE)
  PROVE  audit'[i].consumed = audit[i].consumed
<1>1. audit \in [Ids -> Row] /\ audit[i] \in Row /\ audit[i].consumed \in BOOLEAN
  BY DEF TypeOK, Row
<1>2. CASE UNCHANGED audit
  BY <1>2
<1>3. CASE MarkResult(i, code, FALSE)
  <2>1. audit' = [audit EXCEPT ![i].result = code, ![i].consumed = FALSE \/ audit[i].consumed]
    BY <1>3 DEF MarkResult, MarkRow
  <2>2. audit'[i].consumed = (FALSE \/ audit[i].consumed)
    BY <1>1, <2>1 DEF Row
  <2>3. QED
    BY <1>1, <2>2
<1>4. QED
  BY <1>2, <1>3 DEF MayMark

LEMMA IssueOnce ==
  ASSUME IInv, OnceInv, NEW r \in Reqs,
         \/ IssueBegin(r) \/ Record(r) \/ RecordFail(r) \/ Put(r) \/ PutFail(r)
         \/ Unstored(r) \/ Collided(r) \/ CollidedFail(r) \/ Mark(r)
         \/ MarkFail(r) \/ Undo(r) \/ IssueCrash(r)
  PROVE  OnceStep(r)
<1>0. /\ TypeOK /\ Id(r) \in Ids /\ req[r] \in Issue /\ Id(r) = <<r, req[r].try>>
      /\ req \in [Reqs -> Issue] /\ audit \in [Ids -> Row] /\ redis \in [Ids -> Payload]
      /\ req[r].try \in 0 .. Attempts - 1 /\ req[r].try \in Nat
  BY RequestFacts, TicketAssumption DEF TypeOK, Issue
<1>1. req[r].pc # "delivered"
  BY IssueActions DEF IssueStep
<1>2. audit[Id(r)].consumed = FALSE
  BY <1>0, <1>1, OwnTicket DEF Row
<1>3. AttemptInv(r)
  BY DEF OnceInv
<1>4. CASE IssueBegin(r)
  <2>1. UNCHANGED <<audit, redis>> /\ req[r].pc = "begin" /\ req[r].try = 0
    BY <1>3, <1>4 DEF IssueBegin, AttemptInv
  <2>2. req'[r].pc \in {"failed", "record"} /\ req'[r].try = 0
    BY <1>0, <1>4, <2>1 DEF IssueBegin, Step, Issue
  <2>3. \A k \in 0 .. Attempts - 1 : Ahead(r, k)
    BY <2>1 DEF Ahead
  <2>4. QED
    BY <2>1, <2>2, <2>3 DEF OnceStep
<1>5. CASE Record(r)
  <2>1. RecordRow(Id(r), req[r].expires) /\ Step(r, "put") /\ redis' = redis /\ req[r].pc = "record"
    BY <1>5 DEF Record
  <2>2. audit'[Id(r)].consumed = FALSE
    BY <1>0, <2>1 DEF RecordRow
  <2>3. req'[r].pc = "put" /\ req'[r].try = req[r].try
    BY <1>0, <2>1, StepType DEF IssueSteps
  <2>4. \A k \in 0 .. Attempts - 1 : Ahead(r, k)' => Ahead(r, k) /\ k # req[r].try
    BY <1>0, <2>3 DEF Ahead
  <2>5. QED
    BY <1>2, <2>1, <2>2, <2>3, <2>4 DEF OnceStep
<1>6. CASE RecordFail(r)
  <2>1. Step(r, "failed") /\ redis' = redis
    BY <1>6 DEF RecordFail
  <2>2. audit'[Id(r)].consumed = audit[Id(r)].consumed
    <3>1. CASE UNCHANGED audit
      BY <3>1
    <3>2. CASE RecordRow(Id(r), req[r].expires)
      BY <1>0, <1>2, <3>2 DEF RecordRow
    <3>3. QED
      BY <1>6, <3>1, <3>2 DEF RecordFail
  <2>3. QED
    BY <1>0, <2>1, <2>2, PastRecord DEF IssueSteps
<1>7. CASE Put(r) \/ PutFail(r)
  <2>1. req[r].pc = "put" /\ audit' = audit
    BY <1>7 DEF Put, PutFail
  <2>2. PICK pc \in {"mark", "collided", "unstored"} : Step(r, pc)
    BY <1>7 DEF Put, PutFail
  <2>3. pc \in IssueSteps
    BY DEF IssueSteps
  <2>4. QED
    BY <1>0, <2>1, <2>2, <2>3, PastRecord
<1>8. CASE Unstored(r) \/ CollidedFail(r) \/ Mark(r) \/ MarkFail(r)
  <2>1. redis' = redis
    BY <1>8 DEF Unstored, CollidedFail, Mark, MarkFail
  <2>2. PICK code \in {"store_unavailable", "digest_collision", "issued"} :
          MayMark(Id(r), code, FALSE)
    BY <1>8 DEF Unstored, CollidedFail, Mark, MarkFail, MayMark
  <2>3. PICK pc \in {"failed", "delivered", "undo"} : Step(r, pc)
    BY <1>8 DEF Unstored, CollidedFail, Mark, MarkFail
  <2>4. code \in Outcomes /\ pc \in IssueSteps
    BY DEF Outcomes, IssueSteps
  <2>5. audit'[Id(r)].consumed = audit[Id(r)].consumed
    BY <1>0, <2>2, <2>4, MarkKeepsUse
  <2>6. QED
    BY <1>0, <2>1, <2>3, <2>4, <2>5, PastRecord
<1>9. CASE Collided(r)
  <2>1. redis' = redis /\ MayMark(Id(r), "digest_collision", FALSE)
    BY <1>9 DEF Collided, MayMark
  <2>2. audit'[Id(r)].consumed = audit[Id(r)].consumed
    BY <1>0, <2>1, MarkKeepsUse DEF Outcomes
  <2>3. CASE Step(r, "failed")
    BY <1>0, <2>1, <2>2, <2>3, PastRecord DEF IssueSteps
  <2>4. CASE req' = [req EXCEPT ![r].pc = "record", ![r].try = req[r].try + 1]
    <3>1. req'[r].pc = "record" /\ req'[r].try = req[r].try + 1
      BY <1>0, <2>4 DEF Issue
    <3>2. \A k \in 0 .. Attempts - 1 : Ahead(r, k)' => Ahead(r, k) /\ k # req[r].try
      BY <1>0, <3>1 DEF Ahead
    <3>3. QED
      BY <2>1, <2>2, <3>1, <3>2 DEF OnceStep
  <2>5. QED
    BY <1>9, <2>3, <2>4 DEF Collided
<1>10. CASE Undo(r)
  <2>1. audit' = audit /\ Step(r, "failed") /\ (Drop(Id(r)) \/ UNCHANGED redis)
    BY <1>10 DEF Undo
  <2>2. redis'[Id(r)].stored => redis[Id(r)].stored
    BY <1>0, <2>1, DropType
  <2>3. QED
    BY <1>0, <2>1, <2>2, PastRecord DEF IssueSteps
<1>11. CASE IssueCrash(r)
  BY <1>0, <1>11, PastRecord DEF IssueCrash, IssueSteps
<1>12. QED
  BY <1>4, <1>5, <1>6, <1>7, <1>8, <1>9, <1>10, <1>11

\* A step that shows in no ticket.
LEMMA Invisible ==
  ASSUME \A i \in Ids : /\ redis'[i].stored = redis[i].stored
                        /\ audit'[i].consumed = audit[i].consumed
                        /\ audit'[i].result = "none" <=> audit[i].result = "none"
                        /\ Storing(i)' <=> Storing(i)
                        /\ Admits(i)' <=> Admits(i)
  PROVE  UNCHANGED Ticket!tvars
<1>1. \A i \in Ids : Life(i)' = Life(i)
  BY DEF Life
<1>2. Lives' = Lives
  BY <1>1 DEF Lives
<1>3. Used' = Used
  BY DEF Used
<1>4. QED
  BY <1>2, <1>3 DEF Ticket!tvars

\* A step that takes at most one secret out of the store and records nothing.
TakeStep(c) ==
    /\ UNCHANGED audit
    /\ conn[c].pc # "admitted" /\ conn'[c].pc # "admitted"
    /\ \A i, j \in Ids : redis'[i] # redis[i] /\ redis'[j] # redis[j] => i = j

\* A step that records the use of the ticket the connection holds and ends.
SettleStep(c) ==
    /\ UNCHANGED redis
    /\ Holding(c) /\ conn[c].pc # "admitted" /\ conn'[c].id = conn[c].id
    /\ \/ conn'[c].pc = "refused"
       \/ conn'[c].pc = "admitted" /\ audit'[conn[c].id].consumed
    /\ audit[conn[c].id].consumed => audit'[conn[c].id].consumed

\* What every step of a connection leaves alone.
LEMMA ConsumeKeeps ==
  ASSUME IInv, TypeOK', NEW c \in Conns, ConsumeStep(c)
  PROVE  /\ Delivered' = Delivered
         /\ \A i \in Ids : Storing(i)' <=> Storing(i)
         /\ \A i \in Ids : audit'[i].result = "none" <=> audit[i].result = "none"
         /\ \A d \in Conns \ {c} : Holding(d)' <=> Holding(d)
<1>1. req' = req
  BY DEF ConsumeStep
<1>2. Delivered' = Delivered /\ \A i \in Ids : Storing(i)' <=> Storing(i)
  BY <1>1 DEF Delivered, Id, Storing
<1>3. ASSUME NEW i \in Ids
      PROVE  audit'[i].result = "none" <=> audit[i].result = "none"
  <2>1. CASE audit'[i] = audit[i]
    BY <2>1
  <2>2. CASE Holding(c) /\ i = conn[c].id
    BY <2>2 DEF ConsumeStep, IInv, TicketInv, AuditedBeforeUse
  <2>3. QED
    BY <2>1, <2>2 DEF ConsumeStep
<1>4. \A d \in Conns \ {c} : Holding(d)' <=> Holding(d)
  BY DEF ConsumeStep, Holding
<1>5. QED
  BY <1>2, <1>3, <1>4

\* Attempts that have not begun are untouched by connections.
LEMMA ConsumeAttempts ==
  ASSUME IInv, OnceInv, TypeOK', NEW c \in Conns, ConsumeStep(c), NEW r \in Reqs
  PROVE  AttemptInv(r)'
<1>1. req' = req /\ Id(r)' = Id(r) /\ Id(r) \in Ids
  BY IdType DEF ConsumeStep, Id, IInv
<1>2. \A k \in 0 .. Attempts - 1 : <<r, k>> \in Ids /\ (Ahead(r, k)' <=> Ahead(r, k))
  BY <1>1 DEF Ids, Ahead
<1>3. AttemptInv(r)
  BY DEF OnceInv
<1>4. \A i \in Ids : /\ redis'[i].stored => redis[i].stored
                     /\ audit'[i].result = "none" <=> audit[i].result = "none"
  BY ConsumeKeeps DEF ConsumeStep
<1>5. QED
  BY <1>1, <1>2, <1>3, <1>4 DEF AttemptInv

LEMMA TakeOnce ==
  ASSUME IInv, OnceInv, TypeOK', NEW c \in Conns, ConsumeStep(c), TakeStep(c)
  PROVE  OnceInv' /\ [Ticket!TNext]_(Ticket!tvars)
<1>0. TypeOK /\ redis \in [Ids -> Payload] /\ redis' \in [Ids -> Payload]
  BY DEF IInv, TypeOK
<1>1. UseInv'
  <2> SUFFICES ASSUME NEW i \in Ids, audit'[i].consumed
               PROVE  /\ i \in Delivered'
                      /\ ~redis'[i].stored
                      /\ \A d \in Conns : Holding(d)' /\ conn'[d].id = i => conn'[d].pc = "admitted"
    BY DEF UseInv
  <2>1. /\ i \in Delivered /\ ~redis[i].stored
        /\ \A d \in Conns : Holding(d) /\ conn[d].id = i => conn[d].pc = "admitted"
    BY DEF TakeStep, OnceInv, UseInv
  <2>2. i \in Delivered' /\ ~redis'[i].stored
    BY <2>1, ConsumeKeeps DEF ConsumeStep
  <2>3. ASSUME NEW d \in Conns, Holding(d)', conn'[d].id = i
        PROVE  conn'[d].pc = "admitted"
    <3>1. CASE d # c
      BY <2>1, <2>3, <3>1, ConsumeKeeps DEF ConsumeStep
    <3>2. CASE d = c
      BY <2>1, <2>3, <3>2 DEF ConsumeStep, TakeStep
    <3>3. QED
      BY <3>1, <3>2
  <2>4. QED
    BY <2>2, <2>3
<1>2. OnceInv'
  BY <1>1, ConsumeAttempts DEF OnceInv
<1>3. \A i \in Ids : Admits(i)' <=> Admits(i)
  BY DEF ConsumeStep, TakeStep, Admits
<1>4. \A i \in Ids : redis'[i] = redis[i] => Life(i)' = Life(i)
  BY <1>3, ConsumeKeeps DEF Life
<1>5. Used' = Used
  BY DEF TakeStep, Used
<1>6. CASE \A i \in Ids : redis[i].stored => redis'[i].stored
  <2>1. \A i \in Ids : redis'[i].stored = redis[i].stored
    BY <1>0, <1>6 DEF ConsumeStep, Payload
  <2>2. QED
    BY <1>2, <1>3, <2>1, ConsumeKeeps, Invisible DEF TakeStep
<1>7. CASE \E i \in Ids : redis[i].stored /\ ~redis'[i].stored
  <2>1. PICK i \in Ids : redis[i].stored /\ ~redis'[i].stored
    BY <1>7
  <2>2. \A j \in Ids \ {i} : Life(j)' = Life(j)
    BY <1>4, <2>1 DEF TakeStep
  <2>3. ~Admits(i) /\ ~Admits(i)'
    BY <1>3, <2>1 DEF Admits, Holding, ConsumeSteps, IInv, TicketInv, OneConsumer
  <2>4. audit[i].result # "none"
    BY <2>1 DEF IInv, TicketInv, AuditedBeforeUse
  <2>5. ~Storing(i)
    <3>1. PICK q \in Reqs, k \in 0 .. Attempts - 1 : i = <<q, k>>
      BY DEF Ids
    <3>2. AttemptInv(q)
      BY DEF OnceInv
    <3>3. QED
      BY <2>1, <3>1, <3>2 DEF Storing, AttemptInv, Id
  <2>6. Life(i) = "live" /\ Life(i)' = "spent"
    <3>1. ~Storing(i)' /\ audit'[i].result # "none"
      BY <2>4, <2>5, ConsumeKeeps
    <3>2. QED
      BY <2>1, <2>3, <3>1 DEF Life
  <2>7. Lives[i] = "live" /\ Lives' = [Lives EXCEPT ![i] = "spent"]
    <3>1. Lives' = [Lives EXCEPT ![i] = Life(i)']
      BY <2>2, OneLife
    <3>2. QED
      BY <2>6, <3>1 DEF Lives
  <2>8. QED
    BY <1>2, <1>5, <2>7 DEF Ticket!TNext, Ticket!Spend, Ticket!Becomes
<1>8. QED
  BY <1>6, <1>7

LEMMA SettleOnce ==
  ASSUME IInv, OnceInv, TypeOK', NEW c \in Conns, ConsumeStep(c), SettleStep(c)
  PROVE  OnceInv' /\ [Ticket!TNext]_(Ticket!tvars)
<1>i. PICK i \in Ids : i = conn[c].id
  BY DEF IInv, TypeOK, Consume
<1>0. TypeOK /\ audit \in [Ids -> Row] /\ audit' \in [Ids -> Row]
  BY DEF IInv, TypeOK
<1>1. /\ i \in Delivered /\ ~redis[i].stored /\ audit[i].result # "none"
      /\ \A d \in Conns \ {c} : Holding(d) => conn[d].id # i
  BY <1>i DEF SettleStep, IInv, TicketInv, HeldDelivered, OneConsumer, AuditedBeforeUse
<1>2. ~audit[i].consumed
  BY <1>i DEF SettleStep, OnceInv, UseInv
<1>3. \A j \in Ids \ {i} : audit'[j] = audit[j]
  BY <1>i DEF ConsumeStep
<1>4. redis' = redis /\ conn'[c].id = i
  BY <1>i DEF SettleStep
<1>5. UseInv'
  <2> SUFFICES ASSUME NEW j \in Ids, audit'[j].consumed
               PROVE  /\ j \in Delivered'
                      /\ ~redis'[j].stored
                      /\ \A d \in Conns : Holding(d)' /\ conn'[d].id = j => conn'[d].pc = "admitted"
    BY DEF UseInv
  <2>1. CASE j = i
    <3>1. ASSUME NEW d \in Conns, Holding(d)', conn'[d].id = j
          PROVE  conn'[d].pc = "admitted"
      <4>1. d = c
        BY <1>1, <2>1, <3>1, ConsumeKeeps DEF ConsumeStep
      <4>2. QED
        BY <3>1, <4>1 DEF SettleStep, Holding
    <3>2. QED
      BY <1>1, <1>4, <2>1, <3>1, ConsumeKeeps
  <2>2. CASE j # i
    <3>1. /\ j \in Delivered /\ ~redis[j].stored
          /\ \A d \in Conns : Holding(d) /\ conn[d].id = j => conn[d].pc = "admitted"
      BY <1>3, <2>2 DEF OnceInv, UseInv
    <3>2. ASSUME NEW d \in Conns, Holding(d)', conn'[d].id = j
          PROVE  conn'[d].pc = "admitted"
      BY <1>4, <2>2, <3>1, <3>2, ConsumeKeeps DEF ConsumeStep
    <3>3. QED
      BY <1>4, <3>1, <3>2, ConsumeKeeps
  <2>3. QED
    BY <2>1, <2>2
<1>6. OnceInv'
  BY <1>5, ConsumeAttempts DEF OnceInv
<1>7. ~Storing(i)
  <2>1. PICK q \in Reqs : req[q].pc = "delivered" /\ i = Id(q)
    BY <1>1 DEF Delivered
  <2>2. QED
    BY <2>1 DEF Storing, Id
<1>8. ~Admits(i)
  BY <1>1 DEF Admits, Holding, ConsumeSteps, SettleStep
<1>9. Life(i) = "spent"
  BY <1>1, <1>7, <1>8 DEF Life
<1>10. \A j \in Ids \ {i} : Life(j)' = Life(j)
  <2>1. \A j \in Ids \ {i} : Admits(j)' <=> Admits(j)
    BY <1>4, <1>i DEF Admits, ConsumeStep, SettleStep
  <2>2. QED
    BY <1>3, <1>4, <2>1, ConsumeKeeps DEF Life
<1>11. Life(i)' \in {"spent", "admitted"}
  BY <1>1, <1>4, <1>7, ConsumeKeeps DEF Life
<1>12. Lives[i] = "spent" /\ Lives' = [Lives EXCEPT ![i] = Life(i)'] /\ Lives = [Lives EXCEPT ![i] = "spent"]
  BY <1>9, <1>10, OneLife DEF Lives
<1>13. CASE audit'[i].consumed
  <2>1. Used' = Used \cup {i} /\ i \notin Used
    BY <1>2, <1>3, <1>13 DEF Used
  <2>2. Lives' \in {Lives, [Lives EXCEPT ![i] = "admitted"]}
    BY <1>11, <1>12
  <2>3. Ticket!Use(i)
    BY <1>12, <2>1, <2>2 DEF Ticket!Use
  <2>4. QED
    BY <1>6, <2>3 DEF Ticket!TNext
<1>14. CASE ~audit'[i].consumed
  <2>1. Used' = Used
    BY <1>2, <1>3, <1>14 DEF Used
  <2>2. conn'[c].pc = "refused"
    BY <1>i, <1>14 DEF SettleStep
  <2>3. ~Admits(i)'
    BY <1>8, <2>2 DEF Admits, ConsumeStep
  <2>4. Life(i)' = "spent"
    BY <1>11, <2>3 DEF Life
  <2>5. QED
    BY <1>6, <1>12, <2>1, <2>4 DEF Ticket!tvars
<1>15. QED
  BY <1>13, <1>14

\* Each step of consume() either takes or settles.
LEMMA ConsumeOnce ==
  ASSUME IInv, NEW c \in Conns,
         \/ Take(c) \/ TakeFail(c) \/ Reject(c) \/ Revalidate(c) \/ Lock(c)
         \/ Touch(c) \/ RevalidateFail(c) \/ Invalid(c) \/ Accept(c)
         \/ AcceptFail(c) \/ ConsumeCrash(c)
  PROVE  TakeStep(c) \/ SettleStep(c)
<1>0. TypeOK /\ conn[c].id \in Ids /\ conn \in [Conns -> Consume] /\ redis \in [Ids -> Payload]
  BY DEF IInv, TypeOK, Consume
<1>1. CASE Take(c) \/ TakeFail(c)
  <2>1. PICK i \in Delivered : Drop(i) \/ UNCHANGED redis
    BY <1>1 DEF Take, TakeFail
  <2>2. i \in Ids
    BY <1>0, IdType DEF Delivered
  <2>3. \A j \in Ids \ {i} : redis'[j] = redis[j]
    BY <1>0, <2>1, <2>2, DropType
  <2>4. conn[c].pc = "idle" /\ conn'[c].pc \in {"check", "refused"} /\ audit' = audit
    BY <1>0, <1>1 DEF Take, TakeFail, Move, Consume
  <2>5. QED
    BY <2>3, <2>4 DEF TakeStep
<1>2. CASE Revalidate(c) \/ Lock(c) \/ ConsumeCrash(c)
  <2>1. UNCHANGED <<audit, redis>> /\ conn[c].pc # "admitted"
    BY <1>2 DEF Revalidate, Lock, ConsumeCrash
  <2>2. PICK pc \in {"lock", "invalid", "touch", "refused"} : Move(c, pc)
    BY <1>2 DEF Revalidate, Lock, ConsumeCrash
  <2>3. conn'[c].pc = pc
    BY <1>0, <2>2, MoveType DEF ConsumeSteps
  <2>4. QED
    BY <2>1, <2>3 DEF TakeStep
<1>3. CASE Touch(c) \/ RevalidateFail(c)
  <2>1. UNCHANGED <<audit, redis>> /\ conn[c].pc # "admitted"
    BY <1>3 DEF Touch, RevalidateFail
  <2>2. CASE Move(c, "invalid")
    <3>1. conn'[c].pc = "invalid"
      BY <1>0, <2>2, MoveType DEF ConsumeSteps
    <3>2. QED
      BY <2>1, <3>1 DEF TakeStep
  <2>3. CASE \E pc \in {"accept", "invalid"} : conn' = [NoteChange(conn) EXCEPT ![c].pc = pc]
    <3>1. NoteChange(conn) \in [Conns -> Consume]
      BY <1>0, NoteChangeKeeps
    <3>2. conn'[c].pc \in {"accept", "invalid"}
      BY <2>3, <3>1 DEF Consume
    <3>3. QED
      BY <2>1, <3>2 DEF TakeStep
  <2>4. QED
    BY <1>3, <2>2, <2>3 DEF Touch, RevalidateFail
<1>4. CASE Reject(c) \/ Invalid(c) \/ Accept(c) \/ AcceptFail(c)
  <2>1. redis' = redis /\ conn[c].pc \in {"check", "invalid", "accept"}
    BY <1>4 DEF Reject, Invalid, Accept, AcceptFail
  <2>2. Holding(c) /\ conn[c].pc # "admitted"
    BY <2>1 DEF Holding, ConsumeSteps
  <2>3. PICK code \in {"expired", "context_mismatch", "session_invalid", "consumed"} :
          MayMark(conn[c].id, code, TRUE)
    BY <1>4 DEF Reject, Invalid, Accept, AcceptFail, MayMark
  <2>4. code \in Outcomes
    BY DEF Outcomes
  <2>5. audit[conn[c].id].consumed => audit'[conn[c].id].consumed
    BY <1>0, <2>3, <2>4, MarkType DEF MayMark
  <2>6. CASE Reject(c) \/ Invalid(c) \/ AcceptFail(c)
    <3>1. Move(c, "refused")
      BY <2>6 DEF Reject, Invalid, AcceptFail
    <3>2. conn'[c].pc = "refused" /\ conn'[c].id = conn[c].id
      BY <1>0, <3>1, MoveType DEF ConsumeSteps
    <3>3. QED
      BY <2>1, <2>2, <2>5, <3>2 DEF SettleStep
  <2>7. CASE Accept(c)
    <3>1. Move(c, "admitted") /\ MarkResult(conn[c].id, "consumed", TRUE)
      BY <2>7 DEF Accept
    <3>2. conn'[c].pc = "admitted" /\ conn'[c].id = conn[c].id
      BY <1>0, <3>1, MoveType DEF ConsumeSteps
    <3>3. audit'[conn[c].id].consumed
      BY <1>0, <3>1, MarkType DEF Outcomes
    <3>4. QED
      BY <2>1, <2>2, <2>5, <3>2, <3>3 DEF SettleStep
  <2>8. QED
    BY <1>4, <2>6, <2>7
<1>5. QED
  BY <1>1, <1>2, <1>3, <1>4

\* The clock, the session, the meeting, the janitor and the authentication of
\* a request leave every ticket where it is.
LEMMA EnvironmentOnce ==
  ASSUME IInv, OnceInv, IInv',
         \/ Tick \/ Revoke \/ EndMeeting \/ Expire \/ UNCHANGED vars
         \/ \E r \in Reqs : Authenticate(r)
  PROVE  OnceInv' /\ UNCHANGED Ticket!tvars
<1>0. /\ TypeOK /\ TypeOK' /\ audit \in [Ids -> Row] /\ req \in [Reqs -> Issue]
      /\ conn \in [Conns -> Consume]
  BY DEF IInv, TypeOK
<1>1. redis' = redis
  BY DEF Tick, Revoke, EndMeeting, Expire, Authenticate, vars
<1>2. ASSUME NEW i \in Ids
      PROVE  /\ audit'[i].consumed = audit[i].consumed
             /\ audit'[i].result = "none" <=> audit[i].result = "none"
  <2>1. CASE audit' = audit
    BY <2>1
  <2>2. CASE Expire
    <3>1. PICK batch \in SUBSET Ids :
            /\ \A j \in batch : Outstanding(j)
            /\ audit' = [j \in Ids |-> IF j \in batch
                                       THEN [audit[j] EXCEPT !.result = "expired"]
                                       ELSE audit[j]]
      BY <2>2 DEF Expire
    <3>2. CASE i \in batch
      <4>1. audit'[i] = [audit[i] EXCEPT !.result = "expired"] /\ audit[i] \in Row
        BY <1>0, <3>1, <3>2
      <4>2. audit'[i].consumed = audit[i].consumed /\ audit'[i].result = "expired"
        BY <4>1 DEF Row
      <4>3. audit[i].result # "none"
        BY <3>1, <3>2 DEF Outstanding
      <4>4. QED
        BY <4>2, <4>3
    <3>3. CASE i \notin batch
      BY <3>1, <3>3
    <3>4. QED
      BY <3>2, <3>3
  <2>3. QED
    BY <2>1, <2>2 DEF Tick, Revoke, EndMeeting, Authenticate, vars
<1>3. \A c \in Conns : conn'[c].pc = conn[c].pc /\ conn'[c].id = conn[c].id
  <2>1. CASE conn' = conn
    BY <2>1
  <2>2. CASE conn' = NoteChange(conn)
    BY <1>0, <2>2, NoteChangeKeeps
  <2>3. QED
    BY <2>1, <2>2 DEF Tick, Revoke, EndMeeting, Expire, Authenticate, vars
<1>4. ASSUME NEW q \in Reqs
      PROVE  /\ req'[q].try = req[q].try
             /\ \/ req'[q].pc = req[q].pc
                \/ req[q].pc = "idle" /\ req'[q].pc = "begin"
  <2>1. CASE req' = req
    BY <2>1
  <2>2. ASSUME NEW r \in Reqs, Authenticate(r)
        PROVE  /\ req'[q].try = req[q].try
               /\ \/ req'[q].pc = req[q].pc
                  \/ req[q].pc = "idle" /\ req'[q].pc = "begin"
    <3>1. req[r].pc = "idle" /\ Step(r, "begin") /\ "begin" \in IssueSteps
      BY <2>2 DEF Authenticate, IssueSteps
    <3>2. /\ req'[r].pc = "begin" /\ req'[r].try = req[r].try
          /\ \A p \in Reqs \ {r} : req'[p] = req[p]
      BY <1>0, <3>1, StepType
    <3>3. QED
      BY <3>1, <3>2
  <2>3. QED
    BY <2>1, <2>2 DEF Tick, Revoke, EndMeeting, Expire, vars
<1>5. \A i \in Ids : (Storing(i)' <=> Storing(i)) /\ (Admits(i)' <=> Admits(i))
  <2>1. \A i \in Ids : i[1] \in Reqs
    BY DEF Ids
  <2>2. QED
    BY <1>3, <1>4, <2>1 DEF Storing, Admits
<1>6. Delivered \subseteq Delivered'
  <2> SUFFICES ASSUME NEW q \in Reqs, req[q].pc = "delivered"
               PROVE  Id(q) \in Delivered'
    BY DEF Delivered
  <2>1. req'[q].pc = "delivered" /\ Id(q)' = Id(q)
    BY <1>4 DEF Id
  <2>2. Delivered' = {Id(r)' : r \in {p \in Reqs : req'[p].pc = "delivered"}}
    BY DEF Delivered, Id
  <2>3. QED
    BY <2>1, <2>2
<1>7. UseInv'
  <2>1. \A c \in Conns : Holding(c)' <=> Holding(c)
    BY <1>3 DEF Holding
  <2>2. QED
    BY <1>1, <1>2, <1>3, <1>6, <2>1 DEF OnceInv, UseInv
<1>8. ASSUME NEW r \in Reqs
      PROVE  AttemptInv(r)'
  <2>1. AttemptInv(r) /\ Id(r)' = Id(r)
    BY <1>4 DEF OnceInv, Id
  <2>2. \A k \in 0 .. Attempts - 1 : <<r, k>> \in Ids /\ (Ahead(r, k)' => Ahead(r, k))
    BY <1>4 DEF Ids, Ahead
  <2>3. QED
    BY <1>1, <1>2, <1>4, <2>1, <2>2 DEF AttemptInv
<1>9. QED
  BY <1>1, <1>2, <1>5, <1>7, <1>8, Invisible DEF OnceInv

LEMMA NextOnce ==
  IInv /\ IInv' /\ OnceInv /\ [Next]_vars => OnceInv' /\ [Ticket!TNext]_(Ticket!tvars)
<1> SUFFICES ASSUME IInv, IInv', OnceInv, [Next]_vars
             PROVE  OnceInv' /\ [Ticket!TNext]_(Ticket!tvars)
  OBVIOUS
<1>1. CASE \/ Tick \/ Revoke \/ EndMeeting \/ Expire \/ UNCHANGED vars
           \/ \E r \in Reqs : Authenticate(r)
  BY <1>1, EnvironmentOnce
<1>2. ASSUME NEW r \in Reqs,
             \/ IssueBegin(r) \/ Record(r) \/ RecordFail(r) \/ Put(r) \/ PutFail(r)
             \/ Unstored(r) \/ Collided(r) \/ CollidedFail(r) \/ Mark(r)
             \/ MarkFail(r) \/ Undo(r) \/ IssueCrash(r)
      PROVE  OnceInv' /\ [Ticket!TNext]_(Ticket!tvars)
  <2>1. TypeOK' /\ IssueStep(r) /\ OnceStep(r)
    BY <1>2, IssueActions, IssueOnce
  <2>2. QED
    BY <2>1, OncePreserved, IssueSimulates
<1>3. ASSUME NEW c \in Conns,
             \/ Take(c) \/ TakeFail(c) \/ Reject(c) \/ Revalidate(c) \/ Lock(c)
             \/ Touch(c) \/ RevalidateFail(c) \/ Invalid(c) \/ Accept(c)
             \/ AcceptFail(c) \/ ConsumeCrash(c)
      PROVE  OnceInv' /\ [Ticket!TNext]_(Ticket!tvars)
  <2>1. TypeOK' /\ ConsumeStep(c) /\ (TakeStep(c) \/ SettleStep(c))
    BY <1>3, ConsumeActions, ConsumeOnce
  <2>2. QED
    BY <2>1, TakeOnce, SettleOnce
<1>4. QED
  BY <1>1, <1>2, <1>3 DEF Next

(***************************************************************************)
(* Tickets implement OneTimeTicket: whatever call fails, before or after   *)
(* its effect, and whatever process dies, a ticket is on record before its *)
(* secret is stored, its secret is stored once and taken once, its use is  *)
(* recorded once, and nobody is admitted by a use that is not on record.   *)
(***************************************************************************)
THEOREM ImplementsTicket == Spec => Ticket!TSpec
<1>1. Init => OnceInv
  <2> SUFFICES ASSUME Init PROVE OnceInv
    OBVIOUS
  <2>1. \A r \in Reqs, k \in 0 .. Attempts - 1 : <<r, k>> \in Ids
    BY DEF Ids
  <2>2. \A r \in Reqs : Id(r) \in Ids
    BY TicketAssumption DEF Init, Id, Ids
  <2>3. QED
    BY <2>1, <2>2 DEF Init, OnceInv, UseInv, AttemptInv
<1>2. Init => Ticket!TInit
  BY DEF Init, Ticket!TInit, Lives, Life, Used, Admits
<1>3. QED
  BY <1>1, <1>2, NextOnce, Invariance, PTL DEF Spec, Ticket!TSpec
==============================================================================
