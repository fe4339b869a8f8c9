----------------------- MODULE MeetingCommandsProofs -----------------------
(***************************************************************************)
(* Proofs about MeetingCommands, for every set of calls, commands, bodies  *)
(* and keyrings and every number of retries.                               *)
(***************************************************************************)
EXTENDS MeetingCommands, FiniteSetTheorems, TLAPS

-----------------------------------------------------------------------------
(* The inductive invariant *)

Active(c) == call[c].pc \in {"begin"} \cup InTransaction

\* A join that has locked its meeting, and its capability too; a call that
\* has inserted or locked its command row.
PastMeeting(c) == call[c].pc \in InTransaction \ {"meeting"} /\ ~Creates(c)
PastCapability(c) == call[c].pc \in InTransaction \ {"meeting", "capability"} /\ ~Creates(c)
Reserved(c) == call[c].pc \in {"insert", "session", "replay", "commit"}

\* A call under way has a request; only a call that inserted its command row
\* is fresh.
RequestInv(c) ==
    /\ Active(c) => /\ call[c].in \in Request
                    /\ Creates(c) => call[c].in.meeting = c
                    /\ ~Creates(c) => call[c].in.meeting \in meetings
    /\ call[c].pc \in {"meeting", "capability"} => ~Creates(c)
    /\ call[c].pc = "insert" => Creates(c) /\ call[c].fresh
    /\ call[c].fresh => call[c].pc \in {"insert", "session", "commit"}

MayHold(c) ==
    (IF PastMeeting(c) THEN {MeetingOf(c)} ELSE {})
       \cup (IF PastCapability(c) THEN {CapabilityOf(c)} ELSE {})
       \cup (IF Reserved(c) THEN {CommandOf(c)} ELSE {})
       \cup (IF Reserved(c) /\ call[c].pc # "insert" THEN {SecretOf(c)} ELSE {})

\* The rows a call holds at each of its statements.
LockInv(c) ==
    /\ \A x \in Rows : locks[x] = c => x \in MayHold(c)
    /\ PastMeeting(c) => locks[MeetingOf(c)] = c
    /\ PastCapability(c) => locks[CapabilityOf(c)] = c
    /\ Reserved(c) => locks[CommandOf(c)] = c

\* A join's checks on its snapshot are still true once it holds the rows.
OpenInv(c) ==
    /\ call[c].pc = "meeting" /\ MeetingOf(c) \in closed => MeetingOf(c) \in call[c].stale
    /\ PastMeeting(c) => MeetingOf(c) \notin closed
    /\ PastCapability(c) => CapabilityOf(c) \notin closed

\* What a call knows of the command row it holds.
CommandInv(c) ==
    Reserved(c) =>
       /\ call[c].fresh => commands[Key(c)] = NoRow
       /\ ~call[c].fresh => commands[Key(c)] # NoRow /\ commands[Key(c)].print = Fingerprint(c)

CallInv(c) == RequestInv(c) /\ LockInv(c) /\ OpenInv(c) /\ CommandInv(c)

\* Every participant is the one its command row names.
ParticipantInv(p) ==
    /\ commands[p.key] # NoRow
    /\ p.id = commands[p.key].participant
    /\ p.meeting = commands[p.key].meeting
    /\ p.meeting \in meetings
    /\ call[p.id].pc \in Ends

\* Every answer repeats the command row.
AnswerInv(a) ==
    /\ [token |-> a.token, participant |-> a.participant] \in sessions
    /\ commands[a.key] # NoRow
    /\ commands[a.key].print = a.print
    /\ commands[a.key].participant = a.participant
    /\ commands[a.key].meeting = a.meeting

RowInv(k) ==
    commands[k] # NoRow =>
       /\ commands[k].status = "succeeded"
       /\ [id |-> commands[k].participant, meeting |-> commands[k].meeting, key |-> k]
             \in participants

TableInv ==
    /\ IsFiniteSet(participants)
    /\ \A p \in participants : ParticipantInv(p)
    /\ \A k \in Keys : RowInv(k)
    /\ \A m \in meetings : call[m].pc \in Ends
    /\ UsesCounted
    /\ \A a \in answers : AnswerInv(a)

IInv == TypeOK /\ (\A c \in Calls : CallInv(c)) /\ TableInv

-----------------------------------------------------------------------------
(* Requests and rows *)

\* The rows of a request exist and are four different ones.
LEMMA RequestRows ==
  ASSUME NEW c \in Calls, call[c].in \in Request
  PROVE  /\ Key(c) \in Keys
         /\ MeetingOf(c) \in Rows /\ CapabilityOf(c) \in Rows
         /\ CommandOf(c) \in Rows /\ SecretOf(c) \in Rows
         /\ Fingerprint(c) \in Fingerprints
<1> DEFINE q == call[c].in
<1>1. /\ q.scope \in {"meeting.create", "meeting.join"} /\ q.cmd \in Commands
      /\ q.body \in Bodies /\ q.meeting \in Calls /\ q.ring \in Rings
  BY DEF Request
<1>2. q.ring.current \in q.ring.keys
  BY <1>1, MeetingAssumption
<1>3. q.ring.keys \subseteq Versions /\ q.ring.current \in Versions
  BY <1>1, <1>2 DEF Versions
<1>4. Key(c) \in Keys
  BY <1>1 DEF Key, Keys
<1>5. MeetingOf(c) \in Rows /\ CapabilityOf(c) \in Rows
  BY <1>1 DEF MeetingOf, CapabilityOf, Rows
<1>6. CommandOf(c) \in Rows
  BY <1>4 DEF CommandOf, Rows
<1>7. SecretOf(c) \in Rows
  BY <1>1, <1>3 DEF SecretOf, Rows
<1>8. Fingerprint(c) \in Fingerprints
  BY <1>1, <1>3 DEF Fingerprint, Fingerprints
<1>9. QED
  BY <1>4, <1>5, <1>6, <1>7, <1>8

LEMMA RowsDiffer ==
  ASSUME NEW c, NEW d
  PROVE  /\ MeetingOf(c) # CapabilityOf(d) /\ MeetingOf(c) # CommandOf(d)
         /\ MeetingOf(c) # SecretOf(d) /\ CapabilityOf(c) # CommandOf(d)
         /\ CapabilityOf(c) # SecretOf(d) /\ CommandOf(c) # SecretOf(d)
BY DEF MeetingOf, CapabilityOf, CommandOf, SecretOf

\* Everything about a call that its request determines.
LEMMA SameRequest ==
  ASSUME NEW c \in Calls, call'[c].in = call[c].in
  PROVE  /\ Creates(c)' <=> Creates(c)
         /\ Key(c)' = Key(c)
         /\ MeetingOf(c)' = MeetingOf(c)
         /\ CapabilityOf(c)' = CapabilityOf(c)
         /\ CommandOf(c)' = CommandOf(c)
         /\ SecretOf(c)' = SecretOf(c)
         /\ Fingerprint(c)' = Fingerprint(c)
BY DEF Creates, Key, MeetingOf, CapabilityOf, CommandOf, SecretOf, Fingerprint

-----------------------------------------------------------------------------
(* Steps of one call that leave the tables alone *)

\* Only rows that were free or its own change hands.
OwnLocks(c) ==
    /\ locks' \in [Rows -> Calls \cup {Nobody}]
    /\ \A x \in Rows : \/ locks'[x] = locks[x]
                       \/ locks[x] \in {Nobody, c} /\ locks'[x] \in {Nobody, c}

\* The other calls are where they were; what they hold is unchanged.
LEMMA OthersKeepInv ==
  ASSUME IInv, NEW c \in Calls, NEW d \in Calls, d # c, call'[d] = call[d],
         UNCHANGED <<tables, closed>>, OwnLocks(c)
  PROVE  CallInv(d)'
<1>1. CallInv(d)
  BY DEF IInv
<1>2. /\ Creates(d)' <=> Creates(d)
      /\ Key(d)' = Key(d)
      /\ MeetingOf(d)' = MeetingOf(d)
      /\ CapabilityOf(d)' = CapabilityOf(d)
      /\ CommandOf(d)' = CommandOf(d)
      /\ SecretOf(d)' = SecretOf(d)
      /\ Fingerprint(d)' = Fingerprint(d)
  BY SameRequest
<1>3. \A x \in Rows : locks'[x] = d <=> locks[x] = d
  BY MeetingAssumption DEF OwnLocks
<1>4. RequestInv(d)'
  BY <1>1, <1>2 DEF CallInv, RequestInv, Active, tables
<1>5. /\ PastMeeting(d)' <=> PastMeeting(d)
      /\ PastCapability(d)' <=> PastCapability(d)
      /\ Reserved(d)' <=> Reserved(d)
  BY <1>2 DEF PastMeeting, PastCapability, Reserved
<1>6. MayHold(d)' = MayHold(d)
  BY <1>2, <1>5 DEF MayHold
<1>7. Active(d) => /\ MeetingOf(d) \in Rows /\ CapabilityOf(d) \in Rows
                   /\ CommandOf(d) \in Rows
  BY <1>1, RequestRows DEF CallInv, RequestInv
<1>8. PastMeeting(d) \/ PastCapability(d) \/ Reserved(d) => Active(d)
  BY DEF PastMeeting, PastCapability, Reserved, Active, InTransaction
<1>9. LockInv(d)'
  BY <1>1, <1>2, <1>3, <1>5, <1>6, <1>7, <1>8 DEF CallInv, LockInv
<1>10. OpenInv(d)'
  BY <1>1, <1>2, <1>5 DEF CallInv, OpenInv
<1>11. CommandInv(d)'
  BY <1>1, <1>2, <1>5 DEF CallInv, CommandInv, tables
<1>12. QED
  BY <1>4, <1>9, <1>10, <1>11 DEF CallInv

LEMMA PrivateStep ==
  ASSUME IInv, NEW c \in Calls, call[c].pc \notin Ends,
         call' \in [Calls -> Call],
         \A d \in Calls : d # c => call'[d] = call[d],
         UNCHANGED <<tables, closed, expired, answers>>,
         OwnLocks(c), CallInv(c)'
  PROVE  IInv'
<1>1. \A d \in Calls : CallInv(d)'
  BY OthersKeepInv
<1>2. TypeOK'
  <2>1. ASSUME NEW x \in Rows, locks'[x] # Nobody
        PROVE  call'[locks'[x]].pc \in InTransaction
    <3>1. CASE locks'[x] = c
      <4>1. MayHold(c)' # {}
        BY <3>1 DEF CallInv, LockInv
      <4>2. PastMeeting(c)' \/ PastCapability(c)' \/ Reserved(c)'
        BY <4>1 DEF MayHold
      <4>3. QED
        BY <3>1, <4>2 DEF PastMeeting, PastCapability, Reserved, InTransaction
    <3>2. CASE locks'[x] # c
      <4>1. locks'[x] = locks[x] /\ locks[x] \in Calls
        BY <2>1, <3>2 DEF OwnLocks
      <4>2. QED
        BY <2>1, <3>2, <4>1 DEF IInv, TypeOK
    <3>3. QED
      BY <3>1, <3>2
  <2>2. QED
    BY <2>1 DEF IInv, TypeOK, OwnLocks, tables
<1>3. TableInv'
  <2>1. \A d \in Calls : call[d].pc \in Ends => call'[d].pc \in Ends
    OBVIOUS
  <2>2. ASSUME NEW p \in participants
        PROVE  ParticipantInv(p)'
    <3>1. ParticipantInv(p) /\ p.id \in Calls
      BY DEF IInv, TableInv, TypeOK
    <3>2. QED
      BY <2>1, <3>1 DEF ParticipantInv, tables
  <2>3. ASSUME NEW m \in meetings
        PROVE  call'[m].pc \in Ends
    BY <2>1 DEF IInv, TableInv, TypeOK
  <2>4. \A k \in Keys : RowInv(k)'
    BY DEF IInv, TableInv, RowInv, tables
  <2>5. \A a \in answers : AnswerInv(a)'
    BY DEF IInv, TableInv, AnswerInv, tables
  <2>6. UsesCounted' /\ IsFiniteSet(participants')
    BY DEF IInv, TableInv, UsesCounted, tables
  <2>7. QED
    BY <2>2, <2>3, <2>4, <2>5, <2>6 DEF TableInv, tables
<1>4. QED
  BY <1>1, <1>2, <1>3 DEF IInv

\* ROLLBACK or COMMIT: the call holds nothing, the others what they held.
LEMMA ReleasedLocks ==
  ASSUME IInv, NEW c \in Calls, locks' = Released(c)
  PROVE  OwnLocks(c) /\ \A x \in Rows : locks'[x] # c
<1>1. \A x \in Rows : locks'[x] = IF locks[x] = c THEN Nobody ELSE locks[x]
  BY DEF Released
<1>2. \A x \in Rows : locks[x] \in Calls \cup {Nobody}
  BY DEF IInv, TypeOK
<1>3. locks' \in [Rows -> Calls \cup {Nobody}]
  BY <1>1, <1>2 DEF Released
<1>4. QED
  BY <1>1, <1>2, <1>3, MeetingAssumption DEF OwnLocks

LEMMA OverType ==
  ASSUME NEW outcome \in Ends
  PROVE  Over(outcome) \in Call
BY MeetingAssumption DEF Over, Call

\* A call outside a transaction that holds nothing.
LEMMA RestingInv ==
  ASSUME NEW c \in Calls, call'[c].pc \notin InTransaction, ~call'[c].fresh,
         \A x \in Rows : locks'[x] # c,
         Active(c)' => /\ call'[c].in \in Request
                       /\ Creates(c)' => call'[c].in.meeting = c
                       /\ ~Creates(c)' => call'[c].in.meeting \in meetings'
  PROVE  CallInv(c)'
<1>1. ~PastMeeting(c)' /\ ~PastCapability(c)' /\ ~Reserved(c)' /\ call'[c].pc # "meeting"
  BY DEF PastMeeting, PastCapability, Reserved, InTransaction
<1>2. RequestInv(c)'
  BY DEF RequestInv, InTransaction
<1>3. QED
  BY <1>1, <1>2 DEF CallInv, LockInv, OpenInv, CommandInv

LEMMA EndStep ==
  ASSUME IInv, NEW c \in Calls, Active(c), NEW outcome \in Ends, End(c, outcome),
         UNCHANGED <<tables, closed, expired, answers>>
  PROVE  IInv'
<1>1. OwnLocks(c) /\ \A x \in Rows : locks'[x] # c
  BY ReleasedLocks DEF End
<1>2. call' = [call EXCEPT ![c] = Over(outcome)] /\ call \in [Calls -> Call]
  BY DEF End, IInv, TypeOK
<1>3. /\ call' \in [Calls -> Call]
      /\ call'[c] = Over(outcome)
      /\ \A d \in Calls : d # c => call'[d] = call[d]
  BY <1>2, OverType
<1>4. call'[c].pc = outcome /\ ~call'[c].fresh
  BY <1>3 DEF Over
<1>5. CallInv(c)'
  BY <1>1, <1>4, RestingInv DEF Ends, InTransaction, Active
<1>6. call[c].pc \notin Ends
  BY DEF Active, Ends, InTransaction
<1>7. QED
  BY <1>1, <1>3, <1>5, <1>6, PrivateStep

\* Another attempt starts with the same request and with nothing else.
LEMMA ConflictStep ==
  ASSUME IInv, NEW c \in Calls, Active(c), Conflict(c),
         UNCHANGED <<tables, closed, expired, answers>>
  PROVE  IInv'
<1>1. CASE ~(call[c].tries < MaxRetries)
  <2>1. End(c, "failed") /\ "failed" \in Ends
    BY <1>1 DEF Conflict, Ends
  <2>2. QED
    BY <2>1, EndStep
<1>2. CASE call[c].tries < MaxRetries
  <2>1. OwnLocks(c) /\ \A x \in Rows : locks'[x] # c
    BY <1>2, ReleasedLocks DEF Conflict
  <2>2. call \in [Calls -> Call] /\ call[c] \in Call
    BY DEF IInv, TypeOK
  <2>3. call[c].tries + 1 \in 0 .. MaxRetries
    BY <1>2, <2>2, MeetingAssumption DEF Call
  <2> DEFINE n == [call[c] EXCEPT !.pc = "begin", !.tries = call[c].tries + 1,
                                  !.fresh = FALSE, !.stale = {}]
  <2>4. n \in Call /\ n.pc = "begin" /\ n.in = call[c].in /\ ~n.fresh
    BY <2>2, <2>3 DEF Call
  <2>5. call' = [call EXCEPT ![c] = n]
    BY <1>2, <2>2 DEF Conflict
  <2> HIDE DEF n
  <2>6. /\ call' \in [Calls -> Call]
        /\ call'[c] = n
        /\ \A d \in Calls : d # c => call'[d] = call[d]
    BY <2>2, <2>4, <2>5
  <2>7. RequestInv(c) /\ meetings' = meetings
    BY DEF IInv, CallInv, tables
  <2>8. Creates(c)' <=> Creates(c)
    BY <2>4, <2>6, SameRequest
  <2>9. CallInv(c)'
    BY <2>1, <2>4, <2>6, <2>7, <2>8, RestingInv DEF RequestInv, InTransaction
  <2>10. call[c].pc \notin Ends
    BY DEF Active, Ends, InTransaction
  <2>11. QED
    BY <2>1, <2>6, <2>9, <2>10, PrivateStep
<1>3. QED
  BY <1>1, <1>2

\* What Goto changes.
LEMMA GotoFields ==
  ASSUME TypeOK, NEW c \in Calls, NEW pc \in InTransaction, Goto(c, pc)
  PROVE  /\ call' \in [Calls -> Call]
         /\ \A d \in Calls : d # c => call'[d] = call[d]
         /\ call'[c].pc = pc /\ call'[c].in = call[c].in
         /\ call'[c].fresh = call[c].fresh /\ call'[c].stale = call[c].stale
<1>1. call \in [Calls -> Call] /\ call[c] \in Call
  BY DEF TypeOK
<1> DEFINE n == [call[c] EXCEPT !.pc = pc]
<1>2. /\ n \in Call /\ n.pc = pc /\ n.in = call[c].in /\ n.fresh = call[c].fresh
      /\ n.stale = call[c].stale
  BY <1>1 DEF Call
<1>3. call' = [call EXCEPT ![c] = n]
  BY <1>1 DEF Goto
<1> HIDE DEF n
<1>4. QED
  BY <1>1, <1>2, <1>3

\* A granted row.
LEMMA TakenLock ==
  ASSUME TypeOK, NEW c \in Calls, NEW x \in Rows, Free(c, x),
         locks' = [locks EXCEPT ![x] = c]
  PROVE  /\ OwnLocks(c)
         /\ locks'[x] = c
         /\ \A y \in Rows : y # x => locks'[y] = locks[y]
BY DEF TypeOK, Free, OwnLocks

LEMMA KeptLocks ==
  ASSUME TypeOK, NEW c \in Calls, locks' = locks
  PROVE  OwnLocks(c)
BY DEF TypeOK, OwnLocks

-----------------------------------------------------------------------------
(* The statements of a transaction *)

LEMMA SubmitStep ==
  ASSUME IInv, NEW c \in Calls, Submit(c)
  PROVE  IInv'
<1>1. PICK q \in Request :
        /\ q.scope = "meeting.create" => q.meeting = c
        /\ q.scope = "meeting.join" => q.meeting \in meetings
        /\ call' = [call EXCEPT ![c].pc = "begin", ![c].in = q]
  BY DEF Submit
<1>2. call \in [Calls -> Call] /\ call[c] \in Call /\ CallInv(c) /\ call[c].pc = "idle"
  BY DEF IInv, TypeOK, Submit
<1> DEFINE n == [call[c] EXCEPT !.pc = "begin", !.in = q]
<1>3. n \in Call /\ n.pc = "begin" /\ n.in = q /\ n.fresh = call[c].fresh
  BY <1>2 DEF Call
<1>4. call' = [call EXCEPT ![c] = n]
  BY <1>1, <1>2
<1> HIDE DEF n
<1>5. /\ call' \in [Calls -> Call]
      /\ call'[c] = n
      /\ \A d \in Calls : d # c => call'[d] = call[d]
  BY <1>2, <1>3, <1>4
<1>6. ~call[c].fresh /\ \A x \in Rows : locks[x] # c
  BY <1>2 DEF CallInv, RequestInv, LockInv, MayHold, PastMeeting, PastCapability, Reserved,
     InTransaction
<1>7. q.scope \in {"meeting.create", "meeting.join"}
  BY DEF Request
<1>8. CallInv(c)'
  <2>1. call'[c].pc = "begin" /\ call'[c].in = q /\ ~call'[c].fresh
    BY <1>3, <1>5, <1>6
  <2>2. meetings' = meetings /\ locks' = locks
    BY DEF Submit, tables
  <2>3. /\ Creates(c)' => q.meeting = c
        /\ ~Creates(c)' => q.meeting \in meetings'
    BY <1>1, <1>7, <2>1, <2>2 DEF Creates
  <2>4. QED
    BY <1>6, <2>1, <2>2, <2>3, RestingInv DEF InTransaction
<1>9. OwnLocks(c)
  BY KeptLocks DEF Submit, IInv
<1>10. QED
  BY <1>2, <1>5, <1>8, <1>9, PrivateStep DEF Submit, Ends

\* A statement that was granted what it asked for.
LEMMA AdvanceStep ==
  ASSUME IInv, NEW c \in Calls, Active(c), NEW pc \in InTransaction, Goto(c, pc),
         UNCHANGED <<tables, closed, expired, answers>>, OwnLocks(c), CallInv(c)'
  PROVE  IInv'
<1>1. /\ call' \in [Calls -> Call]
      /\ \A d \in Calls : d # c => call'[d] = call[d]
  BY GotoFields DEF IInv
<1>2. call[c].pc \notin Ends
  BY DEF Active, Ends, InTransaction
<1>3. QED
  BY <1>1, <1>2, PrivateStep

\* Everything about c after a statement, from what it was before.
LEMMA AfterGoto ==
  ASSUME IInv, NEW c \in Calls, Active(c), NEW pc \in InTransaction, Goto(c, pc),
         UNCHANGED <<tables, closed, expired, answers>>
  PROVE  /\ call'[c].pc = pc
         /\ call'[c].fresh = call[c].fresh /\ call'[c].stale = call[c].stale
         /\ call'[c].in = call[c].in /\ call[c].in \in Request
         /\ Creates(c) => call[c].in.meeting = c
         /\ ~Creates(c) => call'[c].in.meeting \in meetings'
         /\ Creates(c)' <=> Creates(c)
         /\ Key(c)' = Key(c)
         /\ MeetingOf(c)' = MeetingOf(c)
         /\ CapabilityOf(c)' = CapabilityOf(c)
         /\ CommandOf(c)' = CommandOf(c)
         /\ SecretOf(c)' = SecretOf(c)
         /\ Fingerprint(c)' = Fingerprint(c)
         /\ commands' = commands /\ closed' = closed
         /\ MeetingOf(c) \in Rows /\ CapabilityOf(c) \in Rows /\ CommandOf(c) \in Rows
         /\ SecretOf(c) \in Rows
<1>1. CallInv(c) /\ TypeOK
  BY DEF IInv
<1>2. /\ call'[c].pc = pc /\ call'[c].fresh = call[c].fresh
      /\ call'[c].stale = call[c].stale /\ call'[c].in = call[c].in
  BY <1>1, GotoFields
<1>3. /\ call[c].in \in Request
      /\ Creates(c) => call[c].in.meeting = c
      /\ ~Creates(c) => call[c].in.meeting \in meetings
  BY <1>1 DEF CallInv, RequestInv
<1>4. meetings' = meetings /\ commands' = commands /\ closed' = closed
  BY DEF tables
<1>5. QED
  BY <1>2, <1>3, <1>4, SameRequest, RequestRows

\* The snapshot: a join has seen its meeting open.
LEMMA BeginStep ==
  ASSUME IInv, NEW c \in Calls, Begin(c)
  PROVE  IInv'
<1>1. Active(c) /\ CallInv(c) /\ call[c].pc = "begin" /\ TypeOK
  BY DEF Begin, Active, IInv
<1>2. \A x \in Rows : locks[x] # c
  BY <1>1 DEF CallInv, LockInv, MayHold, PastMeeting, PastCapability, Reserved, InTransaction
<1>3. ~call[c].fresh
  BY <1>1 DEF CallInv, RequestInv
<1>4. CASE Creates(c) /\ Goto(c, "reserve") /\ UNCHANGED locks
  <2>1. OwnLocks(c) /\ "reserve" \in InTransaction
    BY <1>1, <1>4, KeptLocks DEF InTransaction
  <2>2. CallInv(c)'
    BY <1>1, <1>2, <1>3, <1>4, <2>1, AfterGoto
       DEF Begin, CallInv, RequestInv, LockInv, OpenInv, CommandInv, MayHold, PastMeeting,
           PastCapability, Reserved
  <2>3. QED
    BY <1>1, <1>4, <2>1, <2>2, AdvanceStep DEF Begin
<1>5. CASE ~Creates(c) /\ Open(c) /\ Goto(c, "meeting") /\ UNCHANGED locks
  <2>1. OwnLocks(c) /\ "meeting" \in InTransaction
    BY <1>1, <1>5, KeptLocks DEF InTransaction
  <2>2. CallInv(c)'
    BY <1>1, <1>2, <1>3, <1>5, <2>1, AfterGoto
       DEF Begin, Open, CallInv, RequestInv, LockInv, OpenInv, CommandInv, MayHold,
           PastMeeting, PastCapability, Reserved
  <2>3. QED
    BY <1>1, <1>5, <2>1, <2>2, AdvanceStep DEF Begin
<1>6. CASE End(c, "refused")
  BY <1>1, <1>6, EndStep DEF Begin, Ends
<1>7. QED
  BY <1>4, <1>5, <1>6 DEF Begin

\* FOR UPDATE on the meeting: a row closed since the snapshot is a conflict.
LEMMA LockMeetingStep ==
  ASSUME IInv, NEW c \in Calls, LockMeeting(c)
  PROVE  IInv'
<1>1. Active(c) /\ CallInv(c) /\ call[c].pc = "meeting" /\ TypeOK
  BY DEF LockMeeting, Active, IInv, InTransaction
<1>2. CASE Conflict(c)
  BY <1>1, <1>2, ConflictStep DEF LockMeeting
<1>3. CASE MeetingOf(c) \notin call[c].stale /\ Take(c, MeetingOf(c), "capability")
  <2>1. Goto(c, "capability") /\ "capability" \in InTransaction
    BY <1>3 DEF Take, InTransaction
  <2>2. MeetingOf(c) \in Rows
    BY <1>1, <2>1, AfterGoto DEF LockMeeting
  <2>3. /\ OwnLocks(c) /\ locks'[MeetingOf(c)] = c
        /\ \A y \in Rows : y # MeetingOf(c) => locks'[y] = locks[y]
    BY <1>1, <1>3, <2>2, TakenLock DEF LockMeeting, Take
  <2>4. \A x \in Rows : locks[x] # c
    BY <1>1 DEF CallInv, LockInv, MayHold, PastMeeting, PastCapability, Reserved
  <2>5. ~Creates(c) /\ MeetingOf(c) \notin closed /\ ~call[c].fresh
    BY <1>1, <1>3 DEF CallInv, RequestInv, OpenInv
  <2>6. CallInv(c)'
    BY <1>1, <2>1, <2>3, <2>4, <2>5, AfterGoto
       DEF LockMeeting, CallInv, RequestInv, LockInv, OpenInv, CommandInv, MayHold,
           PastMeeting, PastCapability, Reserved, InTransaction
  <2>7. QED
    BY <1>1, <2>1, <2>3, <2>6, AdvanceStep DEF LockMeeting
<1>4. QED
  BY <1>2, <1>3 DEF LockMeeting

LEMMA FindInviteStep ==
  ASSUME IInv, NEW c \in Calls, FindInviteCapability(c)
  PROVE  IInv'
<1>1. Active(c) /\ CallInv(c) /\ call[c].pc = "capability" /\ TypeOK
  BY DEF FindInviteCapability, Active, IInv, InTransaction
<1>2. CASE Conflict(c)
  BY <1>1, <1>2, ConflictStep DEF FindInviteCapability
<1>3. CASE End(c, "refused")
  BY <1>1, <1>3, EndStep DEF FindInviteCapability, Ends
<1>4. CASE /\ Invited(c) /\ Free(c, CapabilityOf(c))
           /\ CapabilityOf(c) \notin call[c].stale /\ Take(c, CapabilityOf(c), "reserve")
  <2>1. Goto(c, "reserve") /\ "reserve" \in InTransaction
    BY <1>4 DEF Take, InTransaction
  <2>2. CapabilityOf(c) \in Rows
    BY <1>1, <2>1, AfterGoto DEF FindInviteCapability
  <2>3. /\ OwnLocks(c) /\ locks'[CapabilityOf(c)] = c
        /\ \A y \in Rows : y # CapabilityOf(c) => locks'[y] = locks[y]
    BY <1>1, <1>4, <2>2, TakenLock DEF Take
  <2>4. ~Creates(c) /\ ~call[c].fresh
    BY <1>1 DEF CallInv, RequestInv
  <2>5. PastMeeting(c) /\ ~PastCapability(c) /\ ~Reserved(c)
    BY <1>1, <2>4 DEF PastMeeting, PastCapability, Reserved, InTransaction
  <2>6. /\ \A x \in Rows : locks[x] = c => x = MeetingOf(c)
        /\ locks[MeetingOf(c)] = c /\ MeetingOf(c) \notin closed
    BY <1>1, <2>5 DEF CallInv, LockInv, OpenInv, MayHold
  <2>7. CapabilityOf(c) \notin closed
    BY <1>4 DEF Invited
  <2>8. CallInv(c)'
    BY <1>1, <2>1, <2>3, <2>4, <2>6, <2>7, AfterGoto, RowsDiffer
       DEF FindInviteCapability, CallInv, RequestInv, LockInv, OpenInv, CommandInv, MayHold,
           PastMeeting, PastCapability, Reserved, InTransaction
  <2>9. QED
    BY <1>1, <2>1, <2>3, <2>8, AdvanceStep DEF FindInviteCapability
<1>5. QED
  BY <1>2, <1>3, <1>4 DEF FindInviteCapability

\* What a call at reserveCommand holds.
LEMMA BeforeReserve ==
  ASSUME IInv, NEW c \in Calls, call[c].pc = "reserve"
  PROVE  /\ \A x \in Rows : locks[x] = c =>
               ~Creates(c) /\ x \in {MeetingOf(c), CapabilityOf(c)}
         /\ ~Creates(c) => /\ locks[MeetingOf(c)] = c /\ MeetingOf(c) \notin closed
                           /\ locks[CapabilityOf(c)] = c /\ CapabilityOf(c) \notin closed
         /\ ~call[c].fresh
<1>1. CallInv(c)
  BY DEF IInv
<1>2. /\ PastMeeting(c) <=> ~Creates(c)
      /\ PastCapability(c) <=> ~Creates(c)
      /\ ~Reserved(c)
  BY DEF PastMeeting, PastCapability, Reserved, InTransaction
<1>3. QED
  BY <1>1, <1>2 DEF CallInv, RequestInv, LockInv, OpenInv, MayHold

\* The command row is inserted: nobody else can insert it before this call ends.
LEMMA ReserveFresh ==
  ASSUME IInv, NEW c \in Calls, call[c].pc = "reserve", Free(c, CommandOf(c)),
         commands[Key(c)] = NoRow,
         locks' = [locks EXCEPT ![CommandOf(c)] = c],
         call' = [call EXCEPT ![c].pc = IF Creates(c) THEN "insert" ELSE "session",
                              ![c].fresh = TRUE],
         UNCHANGED <<tables, closed, expired, answers>>
  PROVE  IInv'
<1> DEFINE pc == IF Creates(c) THEN "insert" ELSE "session"
           n == [call[c] EXCEPT !.pc = pc, !.fresh = TRUE]
<1>1. Active(c) /\ CallInv(c) /\ TypeOK
  BY DEF Active, IInv, InTransaction
<1>2. call \in [Calls -> Call] /\ call[c] \in Call
  BY <1>1 DEF TypeOK
<1>3. pc \in {"insert", "session"}
  OBVIOUS
<1> HIDE DEF pc
<1>4. n \in Call /\ n.pc = pc /\ n.in = call[c].in /\ n.fresh /\ n.stale = call[c].stale
  BY <1>2, <1>3 DEF Call, InTransaction
<1>5. call' = [call EXCEPT ![c] = n]
  BY <1>2 DEF pc
<1> HIDE DEF n
<1>6. /\ call' \in [Calls -> Call]
      /\ call'[c] = n
      /\ \A d \in Calls : d # c => call'[d] = call[d]
  BY <1>2, <1>4, <1>5
<1>7. /\ call[c].in \in Request
      /\ Creates(c) => call[c].in.meeting = c
      /\ ~Creates(c) => call[c].in.meeting \in meetings
  BY <1>1 DEF CallInv, RequestInv
<1>8. MeetingOf(c) \in Rows /\ CapabilityOf(c) \in Rows /\ CommandOf(c) \in Rows
  BY <1>7, RequestRows
<1>9. /\ Creates(c)' <=> Creates(c)
      /\ Key(c)' = Key(c)
      /\ MeetingOf(c)' = MeetingOf(c)
      /\ CapabilityOf(c)' = CapabilityOf(c)
      /\ CommandOf(c)' = CommandOf(c)
      /\ SecretOf(c)' = SecretOf(c)
      /\ Fingerprint(c)' = Fingerprint(c)
  BY <1>4, <1>6, SameRequest
<1>10. /\ OwnLocks(c) /\ locks'[CommandOf(c)] = c
       /\ \A y \in Rows : y # CommandOf(c) => locks'[y] = locks[y]
  BY <1>1, <1>8, TakenLock
<1>11. meetings' = meetings /\ commands' = commands /\ closed' = closed
  BY DEF tables
<1>12. RequestInv(c)'
  BY <1>3, <1>4, <1>6, <1>7, <1>9, <1>11 DEF RequestInv, pc
<1>13. LockInv(c)'
  <2>1. /\ PastMeeting(c)' <=> ~Creates(c)
        /\ PastCapability(c)' <=> ~Creates(c)
        /\ Reserved(c)'
    BY <1>3, <1>4, <1>6, <1>9 DEF PastMeeting, PastCapability, Reserved, InTransaction
  <2>2. \A x \in Rows : locks'[x] = c => x \in MayHold(c)'
    BY <1>9, <1>10, <2>1, BeforeReserve DEF MayHold
  <2>3. QED
    BY <1>8, <1>9, <1>10, <2>1, <2>2, BeforeReserve, RowsDiffer DEF LockInv
<1>14. OpenInv(c)'
  BY <1>3, <1>4, <1>6, <1>9, <1>11, BeforeReserve DEF OpenInv, PastMeeting, PastCapability
<1>15. CommandInv(c)'
  BY <1>4, <1>6, <1>9, <1>11 DEF CommandInv
<1>16. QED
  BY <1>6, <1>10, <1>12, <1>13, <1>14, <1>15, PrivateStep DEF CallInv, Ends

\* The command row of an earlier execution is locked for a replay.
LEMMA ReserveReplay ==
  ASSUME IInv, NEW c \in Calls, call[c].pc = "reserve", Free(c, CommandOf(c)),
         commands[Key(c)] # NoRow, commands[Key(c)].print = Fingerprint(c),
         Take(c, CommandOf(c), "replay"),
         UNCHANGED <<tables, closed, expired, answers>>
  PROVE  IInv'
<1>1. Active(c) /\ TypeOK
  BY DEF Active, IInv, InTransaction
<1>2. Goto(c, "replay") /\ "replay" \in InTransaction
  BY DEF Take, InTransaction
<1>3. CommandOf(c) \in Rows
  BY <1>1, <1>2, AfterGoto
<1>4. /\ OwnLocks(c) /\ locks'[CommandOf(c)] = c
      /\ \A y \in Rows : y # CommandOf(c) => locks'[y] = locks[y]
  BY <1>1, <1>3, TakenLock DEF Take
<1>5. /\ PastMeeting(c)' <=> ~Creates(c)
      /\ PastCapability(c)' <=> ~Creates(c)
      /\ Reserved(c)'
  BY <1>1, <1>2, AfterGoto DEF PastMeeting, PastCapability, Reserved, InTransaction
<1>6. RequestInv(c)'
  BY <1>1, <1>2, AfterGoto, BeforeReserve DEF RequestInv
<1>7. LockInv(c)'
  <2>1. \A x \in Rows : locks'[x] = c => x \in MayHold(c)'
    BY <1>1, <1>2, <1>4, <1>5, AfterGoto, BeforeReserve DEF MayHold
  <2>2. QED
    BY <1>1, <1>2, <1>4, <1>5, <2>1, AfterGoto, BeforeReserve, RowsDiffer DEF LockInv
<1>8. OpenInv(c)'
  BY <1>1, <1>2, <1>5, AfterGoto, BeforeReserve DEF OpenInv
<1>9. CommandInv(c)'
  BY <1>1, <1>2, AfterGoto, BeforeReserve DEF CommandInv
<1>10. QED
  BY <1>1, <1>2, <1>4, <1>6, <1>7, <1>8, <1>9, AdvanceStep DEF CallInv

LEMMA ReserveStep ==
  ASSUME IInv, NEW c \in Calls, ReserveCommand(c)
  PROVE  IInv'
<1>1. /\ Active(c) /\ call[c].pc = "reserve" /\ Free(c, CommandOf(c))
      /\ UNCHANGED <<tables, closed, expired, answers>>
  BY DEF ReserveCommand, Active, InTransaction
<1>2. CASE Conflict(c)
  BY <1>1, <1>2, ConflictStep
<1>3. CASE End(c, "reused")
  BY <1>1, <1>3, EndStep DEF Ends
<1>4. QED
  BY <1>1, <1>2, <1>3, ReserveFresh, ReserveReplay DEF ReserveCommand

LEMMA InsertMeetingStep ==
  ASSUME IInv, NEW c \in Calls, InsertMeeting(c)
  PROVE  IInv'
<1>1. Active(c) /\ CallInv(c) /\ call[c].pc = "insert" /\ TypeOK
  BY DEF InsertMeeting, Active, IInv, InTransaction
<1>2. CASE End(c, "failed")
  BY <1>1, <1>2, EndStep DEF InsertMeeting, Ends
<1>3. CASE Take(c, SecretOf(c), "session")
  <2>1. Goto(c, "session") /\ "session" \in InTransaction
    BY <1>3 DEF Take, InTransaction
  <2>2. SecretOf(c) \in Rows
    BY <1>1, <2>1, AfterGoto DEF InsertMeeting
  <2>3. /\ OwnLocks(c) /\ locks'[SecretOf(c)] = c
        /\ \A y \in Rows : y # SecretOf(c) => locks'[y] = locks[y]
    BY <1>1, <1>3, <2>2, TakenLock DEF InsertMeeting, Take
  <2>4. Creates(c) /\ call[c].fresh /\ Reserved(c) /\ ~PastMeeting(c) /\ ~PastCapability(c)
    BY <1>1 DEF CallInv, RequestInv, Reserved, PastMeeting, PastCapability
  <2>5. /\ \A x \in Rows : locks[x] = c => x = CommandOf(c)
        /\ locks[CommandOf(c)] = c
        /\ commands[Key(c)] = NoRow
    BY <1>1, <2>4 DEF CallInv, LockInv, CommandInv, MayHold
  <2>6. CallInv(c)'
    BY <1>1, <2>1, <2>3, <2>4, <2>5, AfterGoto, RowsDiffer
       DEF InsertMeeting, CallInv, RequestInv, LockInv, OpenInv, CommandInv, MayHold,
           PastMeeting, PastCapability, Reserved
  <2>7. QED
    BY <1>1, <2>1, <2>3, <2>6, AdvanceStep DEF InsertMeeting
<1>4. QED
  BY <1>2, <1>3 DEF InsertMeeting

\* replaySession and insertSession keep the rows and what is known of them.
LEMMA KeepStep ==
  ASSUME IInv, NEW c \in Calls, call[c].pc \in {"replay", "session"},
         NEW pc \in {"session", "commit"}, Goto(c, pc), UNCHANGED locks,
         UNCHANGED <<tables, closed, expired, answers>>
  PROVE  IInv'
<1>1. Active(c) /\ CallInv(c) /\ TypeOK /\ pc \in InTransaction
  BY DEF Active, IInv, InTransaction
<1>2. OwnLocks(c)
  BY <1>1, KeptLocks
<1>3. /\ Creates(c)' <=> Creates(c)
      /\ MeetingOf(c)' = MeetingOf(c) /\ CapabilityOf(c)' = CapabilityOf(c)
      /\ CommandOf(c)' = CommandOf(c) /\ SecretOf(c)' = SecretOf(c)
      /\ call'[c].pc = pc
  BY <1>1, AfterGoto
<1>4. /\ PastMeeting(c)' <=> PastMeeting(c)
      /\ PastCapability(c)' <=> PastCapability(c)
      /\ Reserved(c)' /\ Reserved(c)
  BY <1>3 DEF PastMeeting, PastCapability, Reserved, InTransaction
<1>5. RequestInv(c)'
  BY <1>1, AfterGoto DEF CallInv, RequestInv
<1>6. MayHold(c)' = MayHold(c)
  BY <1>3, <1>4 DEF MayHold
<1>7. LockInv(c)'
  BY <1>1, <1>3, <1>4, <1>6 DEF CallInv, LockInv
<1>8. OpenInv(c)'
  BY <1>1, <1>3, <1>4 DEF CallInv, OpenInv
<1>9. CommandInv(c)'
  BY <1>1, <1>4, AfterGoto DEF CallInv, CommandInv
<1>10. QED
  BY <1>1, <1>2, <1>5, <1>7, <1>8, <1>9, AdvanceStep DEF CallInv

LEMMA ReplayStep ==
  ASSUME IInv, NEW c \in Calls, ReplaySession(c) \/ InsertSession(c)
  PROVE  IInv'
<1>1. Active(c) /\ call[c].pc \in {"replay", "session"}
  BY DEF ReplaySession, InsertSession, Active, InTransaction
<1>2. UNCHANGED <<tables, closed, expired, answers>>
  BY DEF ReplaySession, InsertSession
<1>3. CASE End(c, "in_progress") \/ End(c, "failed")
  BY <1>1, <1>2, <1>3, EndStep DEF Ends
<1>4. CASE (Goto(c, "session") \/ Goto(c, "commit")) /\ UNCHANGED locks
  BY <1>1, <1>2, <1>4, KeepStep
<1>5. QED
  BY <1>3, <1>4 DEF ReplaySession, InsertSession

LEMMA AbortStep ==
  ASSUME IInv, NEW c \in Calls, Abort(c)
  PROVE  IInv'
<1>1. Active(c) /\ UNCHANGED <<tables, closed, expired, answers>>
  BY DEF Abort, Active
<1>2. QED
  BY <1>1, EndStep, ConflictStep DEF Abort, Ends

-----------------------------------------------------------------------------
(* Steps that others notice *)

\* The rows that changed become stale; nothing else about a call does.
LEMMA OutdateFields ==
  ASSUME NEW f \in [Calls -> Call], NEW X \in SUBSET Rows
  PROVE  /\ Outdate(f, X) \in [Calls -> Call]
         /\ \A d \in Calls : /\ Outdate(f, X)[d].pc = f[d].pc
                             /\ Outdate(f, X)[d].in = f[d].in
                             /\ Outdate(f, X)[d].fresh = f[d].fresh
                             /\ f[d].stale \subseteq Outdate(f, X)[d].stale
                             /\ f[d].pc \in InTransaction =>
                                   X \cap Footprint(d) \subseteq Outdate(f, X)[d].stale
<1>1. ASSUME NEW d \in Calls
      PROVE  /\ Outdate(f, X)[d] \in Call
             /\ Outdate(f, X)[d].pc = f[d].pc
             /\ Outdate(f, X)[d].in = f[d].in
             /\ Outdate(f, X)[d].fresh = f[d].fresh
             /\ f[d].stale \subseteq Outdate(f, X)[d].stale
             /\ f[d].pc \in InTransaction =>
                   X \cap Footprint(d) \subseteq Outdate(f, X)[d].stale
  <2>1. f[d] \in Call
    OBVIOUS
  <2>2. CASE f[d].pc \notin InTransaction
    BY <2>1, <2>2 DEF Outdate
  <2>3. CASE f[d].pc \in InTransaction
    <3> DEFINE s == f[d].stale \cup (X \cap Footprint(d))
    <3>1. s \subseteq Rows
      BY <2>1 DEF Call
    <3>2. Outdate(f, X)[d] = [f[d] EXCEPT !.stale = s]
      BY <2>3 DEF Outdate
    <3> HIDE DEF s
    <3>3. /\ Outdate(f, X)[d] \in Call
          /\ Outdate(f, X)[d].pc = f[d].pc
          /\ Outdate(f, X)[d].in = f[d].in
          /\ Outdate(f, X)[d].fresh = f[d].fresh
          /\ Outdate(f, X)[d].stale = s
      BY <2>1, <3>1, <3>2 DEF Call
    <3>4. QED
      BY <3>3 DEF s
  <2>4. QED
    BY <2>2, <2>3
<1>2. Outdate(f, X) \in [Calls -> Call]
  <2> DEFINE g == Outdate(f, X)
  <2>1. g = [d \in Calls |-> g[d]]
    BY DEF Outdate
  <2>2. \A d \in Calls : g[d] \in Call
    BY <1>1
  <2> HIDE DEF g
  <2>3. g \in [Calls -> Call]
    BY <2>1, <2>2
  <2>4. QED
    BY <2>3 DEF g
<1>3. QED
  BY <1>1, <1>2

\* A call that is where it was, with the rows it held.
LEMMA BystanderInv ==
  ASSUME IInv, NEW d \in Calls,
         call'[d].pc = call[d].pc, call'[d].in = call[d].in, call'[d].fresh = call[d].fresh,
         meetings \subseteq meetings',
         \A x \in Rows : locks'[x] = d <=> locks[x] = d
  PROVE  /\ RequestInv(d)' /\ LockInv(d)'
         /\ Key(d)' = Key(d) /\ Fingerprint(d)' = Fingerprint(d)
         /\ MeetingOf(d)' = MeetingOf(d) /\ CapabilityOf(d)' = CapabilityOf(d)
         /\ PastMeeting(d)' <=> PastMeeting(d)
         /\ PastCapability(d)' <=> PastCapability(d)
         /\ Reserved(d)' <=> Reserved(d)
<1>1. CallInv(d)
  BY DEF IInv
<1>2. /\ Creates(d)' <=> Creates(d)
      /\ Key(d)' = Key(d)
      /\ MeetingOf(d)' = MeetingOf(d)
      /\ CapabilityOf(d)' = CapabilityOf(d)
      /\ CommandOf(d)' = CommandOf(d)
      /\ SecretOf(d)' = SecretOf(d)
      /\ Fingerprint(d)' = Fingerprint(d)
  BY SameRequest
<1>3. RequestInv(d)'
  BY <1>1, <1>2 DEF CallInv, RequestInv, Active
<1>4. /\ PastMeeting(d)' <=> PastMeeting(d)
      /\ PastCapability(d)' <=> PastCapability(d)
      /\ Reserved(d)' <=> Reserved(d)
  BY <1>2 DEF PastMeeting, PastCapability, Reserved
<1>5. MayHold(d)' = MayHold(d)
  BY <1>2, <1>4 DEF MayHold
<1>6. Active(d) => /\ MeetingOf(d) \in Rows /\ CapabilityOf(d) \in Rows
                   /\ CommandOf(d) \in Rows
  BY <1>1, RequestRows DEF CallInv, RequestInv
<1>7. PastMeeting(d) \/ PastCapability(d) \/ Reserved(d) => Active(d)
  BY DEF PastMeeting, PastCapability, Reserved, Active, InTransaction
<1>8. LockInv(d)'
  BY <1>1, <1>2, <1>4, <1>5, <1>6, <1>7 DEF CallInv, LockInv
<1>9. QED
  BY <1>2, <1>3, <1>4, <1>8

\* The end of a meeting or of an invitation: whoever has checked it and does
\* not hold it yet gets it stale.
LEMMA CloseStep ==
  ASSUME IInv, NEW x \in {"meeting", "capability"} \X Calls, Close(x)
  PROVE  IInv'
<1>1. TypeOK /\ TableInv
  BY DEF IInv
<1>2. x \in Rows /\ {x} \in SUBSET Rows
  BY DEF Rows
<1>3. call' = Outdate(call, {x}) /\ call \in [Calls -> Call]
  BY <1>1 DEF Close, TypeOK
<1>4. /\ call' \in [Calls -> Call]
      /\ \A d \in Calls : /\ call'[d].pc = call[d].pc
                          /\ call'[d].in = call[d].in
                          /\ call'[d].fresh = call[d].fresh
                          /\ call[d].stale \subseteq call'[d].stale
                          /\ call[d].pc \in InTransaction =>
                                {x} \cap Footprint(d) \subseteq call'[d].stale
  BY <1>2, <1>3, OutdateFields
<1>5. /\ UNCHANGED <<tables, expired, locks, answers>>
      /\ closed' = closed \cup {x} /\ locks[x] = Nobody
  BY DEF Close
<1>6. TypeOK'
  <2>1. \A y \in Rows : locks[y] # Nobody => locks[y] \in Calls
    BY <1>1 DEF TypeOK
  <2>2. QED
    BY <1>1, <1>2, <1>4, <1>5, <2>1 DEF TypeOK, tables
<1>7. ASSUME NEW d \in Calls
      PROVE  CallInv(d)'
  <2>1. CallInv(d)
    BY DEF IInv
  <2>2. /\ RequestInv(d)' /\ LockInv(d)'
        /\ Key(d)' = Key(d) /\ Fingerprint(d)' = Fingerprint(d)
        /\ MeetingOf(d)' = MeetingOf(d) /\ CapabilityOf(d)' = CapabilityOf(d)
        /\ PastMeeting(d)' <=> PastMeeting(d)
        /\ PastCapability(d)' <=> PastCapability(d)
        /\ Reserved(d)' <=> Reserved(d)
    BY <1>4, <1>5, BystanderInv DEF tables
  <2>3. CommandInv(d)'
    BY <1>4, <1>5, <2>1, <2>2 DEF CallInv, CommandInv, tables
  <2>4. ASSUME call[d].pc = "meeting", MeetingOf(d) \in closed \cup {x}
        PROVE  MeetingOf(d) \in call'[d].stale
    <3>1. ~Creates(d) /\ call[d].pc \in InTransaction
      BY <2>1, <2>4 DEF CallInv, RequestInv, InTransaction
    <3>2. CASE MeetingOf(d) \in closed
      BY <1>4, <2>1, <2>4, <3>2 DEF CallInv, OpenInv
    <3>3. CASE MeetingOf(d) = x
      BY <1>4, <3>1, <3>3 DEF Footprint
    <3>4. QED
      BY <2>4, <3>2, <3>3
  <2>5. /\ PastMeeting(d) => MeetingOf(d) # x
        /\ PastCapability(d) => CapabilityOf(d) # x
    BY <1>5, <2>1, MeetingAssumption DEF CallInv, LockInv
  <2>6. OpenInv(d)'
    BY <1>4, <1>5, <2>1, <2>2, <2>4, <2>5 DEF CallInv, OpenInv
  <2>7. QED
    BY <2>2, <2>3, <2>6 DEF CallInv
<1>8. TableInv'
  <2>1. ASSUME NEW p \in participants
        PROVE  ParticipantInv(p)'
    <3>1. ParticipantInv(p) /\ p.id \in Calls
      BY <1>1 DEF TableInv, TypeOK
    <3>2. QED
      BY <1>4, <1>5, <3>1 DEF ParticipantInv, tables
  <2>2. ASSUME NEW m \in meetings
        PROVE  call'[m].pc \in Ends
    BY <1>1, <1>4 DEF TableInv, TypeOK
  <2>3. \A k \in Keys : RowInv(k)'
    BY <1>1, <1>5 DEF TableInv, RowInv, tables
  <2>4. \A a \in answers : AnswerInv(a)'
    BY <1>1, <1>5 DEF TableInv, AnswerInv, tables
  <2>5. UsesCounted' /\ IsFiniteSet(participants')
    BY <1>1, <1>5 DEF TableInv, UsesCounted, tables
  <2>6. QED
    BY <1>5, <2>1, <2>2, <2>3, <2>4, <2>5 DEF TableInv, tables
<1>9. QED
  BY <1>6, <1>7, <1>8 DEF IInv

\* No part of the invariant speaks of expires_at.
LEMMA ExpireStep ==
  ASSUME IInv, NEW x \in {"meeting", "capability"} \X Calls, Expire(x)
  PROVE  IInv'
<1>1. /\ UNCHANGED <<tables, closed, locks, call, answers>>
      /\ expired' = expired \cup {x, <<"capability", x[2]>>}
  BY DEF Expire
<1>2. x \in Rows /\ <<"capability", x[2]>> \in Rows
  BY DEF Rows
<1>3. TypeOK'
  BY <1>1, <1>2 DEF IInv, TypeOK, tables
<1>4. ASSUME NEW d \in Calls
      PROVE  CallInv(d)'
  <2>1. CallInv(d)
    BY DEF IInv
  <2>2. QED
    BY <1>1, <2>1 DEF CallInv, RequestInv, LockInv, OpenInv, CommandInv, Active, PastMeeting,
       PastCapability, Reserved, MayHold, Creates, Key, MeetingOf, CapabilityOf, CommandOf,
       SecretOf, Fingerprint, tables
<1>5. TableInv'
  BY <1>1 DEF IInv, TableInv, ParticipantInv, RowInv, AnswerInv, UsesCounted, tables
<1>6. QED
  BY <1>3, <1>4, <1>5 DEF IInv

-----------------------------------------------------------------------------
(* COMMIT *)

\* What a call that commits is about to write.
LEMMA BeforeCommit ==
  ASSUME IInv, NEW c \in Calls, call[c].pc = "commit"
  PROVE  /\ call[c].in \in Request /\ Key(c) \in Keys
         /\ Fingerprint(c) \in Fingerprints
         /\ CommandOf(c) \in Rows /\ CapabilityOf(c) \in Rows
         /\ locks[CommandOf(c)] = c
         /\ call[c].fresh => commands[Key(c)] = NoRow
         /\ ~call[c].fresh => /\ commands[Key(c)] \in Result
                              /\ commands[Key(c)].print = Fingerprint(c)
         /\ c \notin meetings
         /\ \A p \in participants : p.id # c
         /\ Home(c) \in Calls /\ Member(c) \in Calls
         /\ ~call[c].fresh => /\ Home(c) = commands[Key(c)].meeting
                              /\ Member(c) = commands[Key(c)].participant
         /\ call[c].fresh => Member(c) = c
         /\ call[c].fresh /\ Creates(c) => Home(c) = c
         /\ call[c].fresh /\ ~Creates(c) => Home(c) = call[c].in.meeting /\ Home(c) \in meetings
<1>1. CallInv(c) /\ TypeOK /\ TableInv
  BY DEF IInv
<1>2. Active(c) /\ Reserved(c)
  BY DEF Active, Reserved, InTransaction
<1>3. /\ call[c].in \in Request
      /\ ~Creates(c) => call[c].in.meeting \in meetings
  BY <1>1, <1>2 DEF CallInv, RequestInv
<1>4. /\ Key(c) \in Keys /\ Fingerprint(c) \in Fingerprints
      /\ CommandOf(c) \in Rows /\ CapabilityOf(c) \in Rows
  BY <1>3, RequestRows
<1>5. locks[CommandOf(c)] = c
  BY <1>1, <1>2 DEF CallInv, LockInv
<1>6. /\ call[c].fresh => commands[Key(c)] = NoRow
      /\ ~call[c].fresh => /\ commands[Key(c)] \in Result
                           /\ commands[Key(c)].print = Fingerprint(c)
  BY <1>1, <1>2, <1>4 DEF CallInv, CommandInv, TypeOK
<1>7. call[c].pc \notin Ends
  BY DEF Ends
<1>8. c \notin meetings /\ \A p \in participants : p.id # c
  BY <1>1, <1>7 DEF TableInv, ParticipantInv
<1>9. /\ ~call[c].fresh => Home(c) = commands[Key(c)].meeting
      /\ call[c].fresh /\ Creates(c) => Home(c) = c
      /\ call[c].fresh /\ ~Creates(c) => Home(c) = call[c].in.meeting
  BY DEF Home
<1>10. /\ ~call[c].fresh => Member(c) = commands[Key(c)].participant
       /\ call[c].fresh => Member(c) = c
  BY DEF Member
<1>11. call[c].in.meeting \in Calls
  BY <1>3 DEF Request
<1>12. ~call[c].fresh => commands[Key(c)].meeting \in Calls
                         /\ commands[Key(c)].participant \in Calls
  BY <1>6 DEF Result
<1>13. Home(c) \in Calls /\ Member(c) \in Calls
  BY <1>9, <1>10, <1>11, <1>12
<1>14. QED
  BY <1>3, <1>4, <1>5, <1>6, <1>8, <1>9, <1>10, <1>13

\* How the calls look after a COMMIT of c.
LEMMA CommitCalls ==
  ASSUME IInv, NEW c \in Calls, Commit(c)
  PROVE  /\ call' \in [Calls -> Call]
         /\ call'[c].pc \in Ends /\ ~call'[c].fresh
         /\ \A d \in Calls : d # c => /\ call'[d].pc = call[d].pc
                                      /\ call'[d].in = call[d].in
                                      /\ call'[d].fresh = call[d].fresh
                                      /\ call[d].stale \subseteq call'[d].stale
<1> DEFINE changed == IF ~call[c].fresh THEN {}
                      ELSE IF Creates(c) THEN {CommandOf(c)}
                      ELSE {CommandOf(c), CapabilityOf(c)}
<1>1. PICK outcome \in {"answered", "failed"} :
        call' = Outdate([call EXCEPT ![c] = Over(outcome)], changed)
  BY DEF Commit
<1>2. changed \in SUBSET Rows
  BY BeforeCommit DEF Commit
<1> HIDE DEF changed
<1> DEFINE f == [call EXCEPT ![c] = Over(outcome)]
<1>3. outcome \in Ends /\ call \in [Calls -> Call]
  BY DEF IInv, TypeOK, Ends
<1>4. f \in [Calls -> Call] /\ f[c] = Over(outcome) /\ \A d \in Calls : d # c => f[d] = call[d]
  BY <1>3, OverType
<1>5. call' = Outdate(f, changed)
  BY <1>1
<1> HIDE DEF f
<1>6. /\ call' \in [Calls -> Call]
      /\ \A d \in Calls : /\ call'[d].pc = f[d].pc
                          /\ call'[d].in = f[d].in
                          /\ call'[d].fresh = f[d].fresh
                          /\ f[d].stale \subseteq call'[d].stale
  BY <1>2, <1>4, <1>5, OutdateFields
<1>7. f[c].pc = outcome /\ ~f[c].fresh
  BY <1>4 DEF Over
<1>8. QED
  BY <1>3, <1>4, <1>6, <1>7

\* What a COMMIT does to the tables: a command row appears once and never changes.
LEMMA CommitTables ==
  ASSUME IInv, NEW c \in Calls, Commit(c)
  PROVE  /\ meetings' = IF call[c].fresh /\ Creates(c) THEN meetings \cup {c} ELSE meetings
         /\ commands' = IF call[c].fresh THEN [commands EXCEPT ![Key(c)] = CompleteCommand(c)]
                                         ELSE commands
         /\ participants' = IF call[c].fresh THEN participants \cup {Joined(c)}
                                             ELSE participants
         /\ sessions' = sessions \cup {[token |-> c, participant |-> Member(c)]}
         /\ answers' \in {answers, answers \cup {Answer(c)}}
         /\ closed' = closed /\ expired' = expired /\ locks' = Released(c)
         /\ \A k \in Keys : commands[k] # NoRow => commands'[k] = commands[k]
         /\ \A k \in Keys : k # Key(c) => commands'[k] = commands[k]
         /\ commands' \in [Keys -> Result \cup {NoRow}]
         /\ commands'[Key(c)] \in Result /\ commands'[Key(c)] # NoRow
         /\ commands'[Key(c)].print = Fingerprint(c)
         /\ commands'[Key(c)].meeting = Home(c)
         /\ commands'[Key(c)].participant = Member(c)
         /\ call[c].fresh => commands'[Key(c)].status = "succeeded"
<1>1. call[c].pc = "commit"
  BY DEF Commit
<1>2. /\ Key(c) \in Keys /\ Fingerprint(c) \in Fingerprints
      /\ Home(c) \in Calls /\ Member(c) \in Calls
      /\ call[c].fresh => commands[Key(c)] = NoRow /\ Member(c) = c
      /\ ~call[c].fresh => /\ commands[Key(c)] \in Result
                           /\ commands[Key(c)].print = Fingerprint(c)
                           /\ Home(c) = commands[Key(c)].meeting
                           /\ Member(c) = commands[Key(c)].participant
  BY <1>1, BeforeCommit
<1>3. commands \in [Keys -> Result \cup {NoRow}]
  BY DEF IInv, TypeOK
<1>4. /\ meetings' = IF call[c].fresh /\ Creates(c) THEN meetings \cup {c} ELSE meetings
      /\ commands' = IF call[c].fresh THEN [commands EXCEPT ![Key(c)] = CompleteCommand(c)]
                                      ELSE commands
      /\ participants' = IF call[c].fresh THEN participants \cup {Joined(c)} ELSE participants
      /\ sessions' = sessions \cup {[token |-> c, participant |-> Member(c)]}
      /\ answers' \in {answers, answers \cup {Answer(c)}}
      /\ closed' = closed /\ expired' = expired /\ locks' = Released(c)
  BY DEF Commit, Persist
<1>5. /\ CompleteCommand(c) \in Result
      /\ CompleteCommand(c).print = Fingerprint(c)
      /\ CompleteCommand(c).meeting = Home(c)
      /\ CompleteCommand(c).participant = c
      /\ CompleteCommand(c).status = "succeeded"
  BY <1>2 DEF CompleteCommand, Result
<1>6. NoRow \notin Result
  BY MeetingAssumption
<1>7. /\ \A k \in Keys : commands[k] # NoRow => commands'[k] = commands[k]
      /\ \A k \in Keys : k # Key(c) => commands'[k] = commands[k]
  BY <1>2, <1>3, <1>4
<1>8. CASE call[c].fresh
  <2>1. commands'[Key(c)] = CompleteCommand(c)
    BY <1>2, <1>3, <1>4, <1>8
  <2>2. commands' \in [Keys -> Result \cup {NoRow}]
    BY <1>2, <1>3, <1>4, <1>5, <1>8
  <2>3. QED
    BY <1>2, <1>4, <1>5, <1>6, <1>7, <1>8, <2>1, <2>2
<1>9. CASE ~call[c].fresh
  <2>1. commands' = commands
    BY <1>4, <1>9
  <2>2. QED
    BY <1>2, <1>3, <1>4, <1>6, <1>7, <1>9, <2>1
<1>10. QED
  BY <1>8, <1>9

\* No other call has reserved the command that is written, because c holds it.
LEMMA CommitCallInv ==
  ASSUME IInv, NEW c \in Calls, Commit(c), NEW d \in Calls
  PROVE  CallInv(d)'
<1>1. call[c].pc = "commit"
  BY DEF Commit
<1>2. OwnLocks(c) /\ \A x \in Rows : locks'[x] # c
  BY CommitTables, ReleasedLocks
<1>3. CASE d = c
  <2>1. call'[c].pc \in Ends /\ ~call'[c].fresh
    BY CommitCalls
  <2>2. call'[c].pc \notin InTransaction /\ ~Active(c)'
    BY <2>1 DEF Ends, InTransaction, Active
  <2>3. QED
    BY <1>2, <1>3, <2>1, <2>2, RestingInv
<1>4. CASE d # c
  <2>1. CallInv(d)
    BY DEF IInv
  <2>2. /\ call'[d].pc = call[d].pc /\ call'[d].in = call[d].in
        /\ call'[d].fresh = call[d].fresh /\ call[d].stale \subseteq call'[d].stale
    BY <1>4, CommitCalls
  <2>3. \A x \in Rows : locks'[x] = d <=> locks[x] = d
    BY <1>2, <1>4, MeetingAssumption DEF OwnLocks
  <2>4. meetings \subseteq meetings'
    BY CommitTables
  <2>5. /\ RequestInv(d)' /\ LockInv(d)'
        /\ Key(d)' = Key(d) /\ Fingerprint(d)' = Fingerprint(d)
        /\ MeetingOf(d)' = MeetingOf(d) /\ CapabilityOf(d)' = CapabilityOf(d)
        /\ PastMeeting(d)' <=> PastMeeting(d)
        /\ PastCapability(d)' <=> PastCapability(d)
        /\ Reserved(d)' <=> Reserved(d)
    BY <2>2, <2>3, <2>4, BystanderInv
  <2>6. OpenInv(d)'
    <3>1. closed' = closed
      BY CommitTables
    <3>2. QED
      BY <2>1, <2>2, <2>5, <3>1 DEF CallInv, OpenInv
  <2>7. Reserved(d) => commands'[Key(d)] = commands[Key(d)]
    <3> SUFFICES ASSUME Reserved(d) PROVE commands'[Key(d)] = commands[Key(d)]
      OBVIOUS
    <3>1. Active(d)
      BY DEF Reserved, Active, InTransaction
    <3>2. Key(d) \in Keys
      BY <2>1, <3>1, RequestRows DEF CallInv, RequestInv
    <3>3. locks[CommandOf(d)] = d
      BY <2>1 DEF CallInv, LockInv
    <3>4. locks[CommandOf(c)] = c
      BY <1>1, BeforeCommit
    <3>5. Key(d) # Key(c)
      BY <1>4, <3>3, <3>4 DEF CommandOf
    <3>6. QED
      BY <3>2, <3>5, CommitTables
  <2>8. CommandInv(d)'
    BY <2>1, <2>2, <2>5, <2>7 DEF CallInv, CommandInv
  <2>9. QED
    BY <2>5, <2>6, <2>8 DEF CallInv
<1>5. QED
  BY <1>3, <1>4

LEMMA CommitType ==
  ASSUME IInv, NEW c \in Calls, Commit(c)
  PROVE  TypeOK'
<1>1. call[c].pc = "commit" /\ TypeOK
  BY DEF Commit, IInv
<1>2. /\ call[c].in \in Request /\ Key(c) \in Keys /\ Fingerprint(c) \in Fingerprints
      /\ Home(c) \in Calls /\ Member(c) \in Calls
  BY <1>1, BeforeCommit
<1>3. meetings' \subseteq Calls
  BY <1>1, CommitTables DEF TypeOK
<1>4. capability' \in [Calls -> Capability]
  <2>1. capability \in [Calls -> Capability]
    BY <1>1 DEF TypeOK
  <2>2. CASE capability' = capability
    BY <2>1, <2>2
  <2>3. CASE capability' = [capability EXCEPT ![c] =
                [uses |-> 0, version |-> call[c].in.ring.current, body |-> call[c].in.body]]
    <3>1. call[c].in.ring \in Rings /\ call[c].in.body \in Bodies
      BY <1>2 DEF Request
    <3>2. call[c].in.ring.current \in Versions
      BY <3>1, MeetingAssumption DEF Versions
    <3>3. [uses |-> 0, version |-> call[c].in.ring.current, body |-> call[c].in.body]
             \in Capability
      BY <3>1, <3>2 DEF Capability
    <3>4. QED
      BY <2>1, <2>3, <3>3
  <2>4. CASE capability' = [capability EXCEPT ![Home(c)].uses = @ + 1]
    <3> DEFINE n == [capability[Home(c)] EXCEPT !.uses = capability[Home(c)].uses + 1]
    <3>1. capability[Home(c)] \in Capability
      BY <1>2, <2>1
    <3>2. n \in Capability
      BY <3>1 DEF Capability
    <3>3. capability' = [capability EXCEPT ![Home(c)] = n]
      BY <1>2, <2>1, <2>4
    <3> HIDE DEF n
    <3>4. QED
      BY <1>2, <2>1, <3>2, <3>3
  <2>5. QED
    BY <2>2, <2>3, <2>4 DEF Commit, Persist
<1>5. commands' \in [Keys -> Result \cup {NoRow}]
  BY CommitTables
<1>6. participants' \subseteq [id : Calls, meeting : Calls, key : Keys]
  <2>1. Joined(c) \in [id : Calls, meeting : Calls, key : Keys]
    BY <1>2 DEF Joined
  <2>2. QED
    BY <1>1, <2>1, CommitTables DEF TypeOK
<1>7. sessions' \subseteq [token : Calls, participant : Calls]
  BY <1>1, <1>2, CommitTables DEF TypeOK
<1>8. answers' \subseteq [key : Keys, print : Fingerprints, meeting : Calls,
                          participant : Calls, token : Calls]
  <2>1. Answer(c) \in [key : Keys, print : Fingerprints, meeting : Calls,
                       participant : Calls, token : Calls]
    BY <1>2 DEF Answer
  <2>2. QED
    BY <1>1, <2>1, CommitTables DEF TypeOK
<1>9. closed' \subseteq Rows /\ expired' \subseteq Rows
  BY <1>1, CommitTables DEF TypeOK
<1>10. call' \in [Calls -> Call]
  BY CommitCalls
<1>11. OwnLocks(c) /\ \A x \in Rows : locks'[x] # c
  BY CommitTables, ReleasedLocks
<1>12. ASSUME NEW x \in Rows, locks'[x] # Nobody
       PROVE  call'[locks'[x]].pc \in InTransaction
  <2>1. locks'[x] = locks[x] /\ locks[x] \in Calls /\ locks[x] # c
    BY <1>11, <1>12 DEF OwnLocks
  <2>2. call[locks[x]].pc \in InTransaction
    BY <1>1, <1>12, <2>1 DEF TypeOK
  <2>3. QED
    BY <2>1, <2>2, CommitCalls
<1>13. QED
  BY <1>3, <1>4, <1>5, <1>6, <1>7, <1>8, <1>9, <1>10, <1>11, <1>12 DEF TypeOK, OwnLocks

\* The participants a meeting's invitation has let in.
Guests(m) == {p \in participants : p.meeting = m /\ p.id # m}

LEMMA CommitUses ==
  ASSUME IInv, NEW c \in Calls, Commit(c)
  PROVE  UsesCounted' /\ IsFiniteSet(participants')
<1>1. call[c].pc = "commit" /\ TypeOK /\ TableInv
  BY DEF Commit, IInv
<1>2. /\ c \notin meetings /\ \A p \in participants : p.id # c
      /\ call[c].fresh /\ Creates(c) => Home(c) = c
      /\ call[c].fresh /\ ~Creates(c) => Home(c) \in meetings
  BY <1>1, BeforeCommit
<1>3. capability \in [Calls -> Capability] /\ meetings \subseteq Calls
  BY <1>1 DEF TypeOK
<1>4. /\ \A m \in meetings : capability[m].uses = Cardinality(Guests(m))
      /\ IsFiniteSet(participants)
      /\ \A p \in participants : p.meeting \in meetings
  BY <1>1 DEF TableInv, UsesCounted, Guests, ParticipantInv
<1>5. IsFiniteSet(participants')
  BY <1>4, CommitTables, FS_AddElement
<1>6. Joined(c).id = c /\ Joined(c).meeting = Home(c)
  BY DEF Joined
<1>7. CASE ~call[c].fresh
  BY <1>4, <1>5, <1>7, CommitTables DEF Commit, UsesCounted, Guests
<1>8. CASE call[c].fresh /\ Creates(c)
  <2>1. /\ meetings' = meetings \cup {c} /\ participants' = participants \cup {Joined(c)}
        /\ capability' = [capability EXCEPT ![c] =
              [uses |-> 0, version |-> call[c].in.ring.current, body |-> call[c].in.body]]
    BY <1>8, CommitTables DEF Commit, Persist
  <2>2. capability'[c].uses = 0
    BY <1>3, <2>1
  <2>3. Guests(c)' = {}
    BY <1>2, <1>4, <1>6, <1>8, <2>1 DEF Guests
  <2>4. ASSUME NEW m \in meetings
        PROVE  capability'[m].uses = Cardinality(Guests(m)')
    <3>1. m # c /\ capability'[m] = capability[m]
      BY <1>2, <1>3, <2>1
    <3>2. Guests(m)' = Guests(m)
      BY <1>2, <1>6, <1>8, <2>1, <3>1 DEF Guests
    <3>3. QED
      BY <1>4, <3>1, <3>2
  <2>5. Cardinality(Guests(c)') = 0
    BY <2>3, FS_EmptySet
  <2>6. QED
    BY <1>5, <2>1, <2>2, <2>4, <2>5 DEF UsesCounted, Guests
<1>9. CASE call[c].fresh /\ ~Creates(c)
  <2>h. PICK h : h = Home(c)
    OBVIOUS
  <2>1. /\ meetings' = meetings /\ participants' = participants \cup {Joined(c)}
        /\ capability' = [capability EXCEPT ![h].uses = @ + 1]
    BY <1>9, <2>h, CommitTables DEF Commit, Persist
  <2>2. h \in meetings /\ h # c /\ h \in Calls
    BY <1>2, <1>3, <1>9, <2>h
  <2>3. capability'[h].uses = capability[h].uses + 1
    <3>1. capability[h] \in Capability
      BY <1>3, <2>2
    <3>2. QED
      BY <1>3, <2>1, <2>2, <3>1 DEF Capability
  <2>4. Cardinality(Guests(h)') = Cardinality(Guests(h)) + 1
    <3>1. Guests(h)' = Guests(h) \cup {Joined(c)}
      BY <1>6, <2>1, <2>2, <2>h DEF Guests
    <3>2. Joined(c) \notin Guests(h)
      BY <1>2, <1>6 DEF Guests
    <3>3. IsFiniteSet(Guests(h))
      <4>1. Guests(h) \subseteq participants
        BY DEF Guests
      <4>2. QED
        BY <1>4, <4>1, FS_Subset
    <3>4. QED
      BY <3>1, <3>2, <3>3, FS_AddElement
  <2>5. ASSUME NEW m \in meetings
        PROVE  capability'[m].uses = Cardinality(Guests(m)')
    <3>1. CASE m = h
      BY <1>4, <2>2, <2>3, <2>4, <3>1
    <3>2. CASE m # h
      <4>1. capability'[m] = capability[m]
        BY <1>3, <2>1, <3>2
      <4>2. Guests(m)' = Guests(m)
        BY <1>6, <2>1, <2>h, <3>2 DEF Guests
      <4>3. QED
        BY <1>4, <4>1, <4>2
    <3>3. QED
      BY <3>1, <3>2
  <2>6. QED
    BY <1>5, <2>1, <2>5 DEF UsesCounted, Guests
<1>10. QED
  BY <1>7, <1>8, <1>9

LEMMA CommitTableInv ==
  ASSUME IInv, NEW c \in Calls, Commit(c)
  PROVE  TableInv'
<1>1. call[c].pc = "commit" /\ TypeOK /\ TableInv
  BY DEF Commit, IInv
<1>2. /\ Key(c) \in Keys
      /\ call[c].fresh => Member(c) = c
      /\ call[c].fresh /\ Creates(c) => Home(c) = c
      /\ call[c].fresh /\ ~Creates(c) => Home(c) \in meetings
      /\ ~call[c].fresh => commands[Key(c)] # NoRow
  BY <1>1, BeforeCommit, MeetingAssumption
<1>3. /\ \A k \in Keys : commands[k] # NoRow => commands'[k] = commands[k]
      /\ commands'[Key(c)] # NoRow
      /\ commands'[Key(c)].print = Fingerprint(c)
      /\ commands'[Key(c)].meeting = Home(c)
      /\ commands'[Key(c)].participant = Member(c)
      /\ meetings \subseteq meetings' /\ sessions \subseteq sessions'
      /\ participants \subseteq participants'
  BY CommitTables
<1>4. \A d \in Calls : call[d].pc \in Ends => call'[d].pc \in Ends
  BY <1>1, CommitCalls DEF Ends
<1>5. call'[c].pc \in Ends
  BY CommitCalls
<1>6. ASSUME NEW p \in participants
      PROVE  ParticipantInv(p)'
  <2>1. ParticipantInv(p) /\ p.id \in Calls /\ p.key \in Keys
    BY <1>1 DEF TableInv, TypeOK
  <2>2. QED
    BY <1>3, <1>4, <2>1 DEF ParticipantInv
<1>7. ASSUME NEW p, call[c].fresh, p = Joined(c)
      PROVE  ParticipantInv(p)'
  <2>1. p.id = c /\ p.meeting = Home(c) /\ p.key = Key(c)
    BY <1>7 DEF Joined
  <2>2. Home(c) \in meetings'
    BY <1>2, <1>7, CommitTables
  <2>3. QED
    BY <1>2, <1>3, <1>5, <1>7, <2>1, <2>2 DEF ParticipantInv
<1>8. \A p \in participants' : ParticipantInv(p)'
  BY <1>6, <1>7, CommitTables
<1>9. ASSUME NEW k \in Keys
      PROVE  RowInv(k)'
  <2>1. RowInv(k)
    BY <1>1 DEF TableInv
  <2>2. CASE commands[k] # NoRow
    BY <1>3, <2>1, <2>2 DEF RowInv
  <2>3. CASE commands[k] = NoRow /\ k = Key(c)
    <3>1. call[c].fresh
      BY <1>2, <2>3
    <3>2. /\ commands'[k].status = "succeeded" /\ Joined(c) \in participants'
          /\ commands'[k].meeting = Home(c) /\ commands'[k].participant = c
      BY <1>2, <1>3, <2>3, <3>1, CommitTables
    <3>3. Joined(c) = [id |-> c, meeting |-> Home(c), key |-> k]
      BY <2>3 DEF Joined
    <3>4. QED
      BY <3>2, <3>3 DEF RowInv
  <2>4. CASE commands[k] = NoRow /\ k # Key(c)
    <3>1. commands'[k] = NoRow
      BY <2>4, CommitTables
    <3>2. QED
      BY <3>1 DEF RowInv
  <2>5. QED
    BY <2>2, <2>3, <2>4
<1>10. \A m \in meetings' : call'[m].pc \in Ends
  BY <1>1, <1>4, <1>5, CommitTables DEF TableInv, TypeOK
<1>11. \A a \in answers' : AnswerInv(a)'
  <2>1. ASSUME NEW a \in answers
        PROVE  AnswerInv(a)'
    <3>1. AnswerInv(a) /\ a.key \in Keys
      BY <1>1 DEF TableInv, TypeOK
    <3>2. QED
      BY <1>3, <3>1 DEF AnswerInv
  <2>2. ASSUME NEW a, a = Answer(c)
        PROVE  AnswerInv(a)'
    <3>1. /\ a.key = Key(c) /\ a.print = Fingerprint(c) /\ a.meeting = Home(c)
          /\ a.participant = Member(c) /\ a.token = c
      BY <2>2 DEF Answer
    <3>2. [token |-> a.token, participant |-> a.participant] \in sessions'
      BY <3>1, CommitTables
    <3>3. QED
      BY <1>3, <3>1, <3>2 DEF AnswerInv
  <2>3. QED
    BY <2>1, <2>2, CommitTables
<1>12. QED
  BY <1>8, <1>9, <1>10, <1>11, CommitUses DEF TableInv

LEMMA CommitStep ==
  ASSUME IInv, NEW c \in Calls, Commit(c)
  PROVE  IInv'
BY CommitType, CommitCallInv, CommitTableInv DEF IInv

-----------------------------------------------------------------------------
(* The theorems *)

LEMMA InitInv == Init => IInv
<1> SUFFICES ASSUME Init PROVE IInv
  OBVIOUS
<1> DEFINE n == [pc |-> "idle", in |-> NoRow, tries |-> 0, fresh |-> FALSE, stale |-> {}]
<1>1. n \in Call
  BY MeetingAssumption DEF Call
<1>2. call = [c \in Calls |-> n] /\ \A c \in Calls : call[c].pc = "idle" /\ ~call[c].fresh
  BY DEF Init
<1> HIDE DEF n
<1>3. call \in [Calls -> Call]
  BY <1>1, <1>2
<1>4. [uses |-> 0, version |-> 0, body |-> NoRow] \in Capability
  BY DEF Capability
<1>5. TypeOK
  BY <1>3, <1>4 DEF Init, TypeOK
<1>6. ASSUME NEW c \in Calls PROVE CallInv(c)
  <2>1. ~PastMeeting(c) /\ ~PastCapability(c) /\ ~Reserved(c) /\ ~Active(c)
    BY <1>2 DEF PastMeeting, PastCapability, Reserved, Active, InTransaction
  <2>2. \A x \in Rows : locks[x] # c
    BY MeetingAssumption DEF Init
  <2>3. QED
    BY <1>2, <2>1, <2>2 DEF CallInv, RequestInv, LockInv, OpenInv, CommandInv
<1>7. TableInv
  BY FS_EmptySet DEF Init, TableInv, UsesCounted, RowInv
<1>8. QED
  BY <1>5, <1>6, <1>7 DEF IInv

LEMMA StepInv == IInv /\ [Next]_vars => IInv'
<1> SUFFICES ASSUME IInv, [Next]_vars PROVE IInv'
  OBVIOUS
<1>1. ASSUME NEW c \in Calls, Submit(c) \/ CallStep(c) \/ Abort(c)
      PROVE  IInv'
  BY <1>1, SubmitStep, BeginStep, LockMeetingStep, FindInviteStep, ReserveStep,
     InsertMeetingStep, ReplayStep, CommitStep, AbortStep DEF CallStep
<1>2. ASSUME NEW x \in {"meeting", "capability"} \X Calls, Close(x) \/ Expire(x)
      PROVE  IInv'
  BY <1>2, CloseStep, ExpireStep
<1>3. CASE UNCHANGED vars
  <2>1. UNCHANGED <<tables, closed, expired, locks, call, answers>>
    BY <1>3 DEF vars
  <2>2. TypeOK'
    BY <2>1 DEF IInv, TypeOK, tables
  <2>3. ASSUME NEW d \in Calls
        PROVE  CallInv(d)'
    <3>1. CallInv(d)
      BY DEF IInv
    <3>2. QED
      BY <2>1, <3>1 DEF CallInv, RequestInv, LockInv, OpenInv, CommandInv, Active, PastMeeting,
         PastCapability, Reserved, MayHold, Creates, Key, MeetingOf, CapabilityOf, CommandOf,
         SecretOf, Fingerprint, tables
  <2>4. TableInv'
    BY <2>1 DEF IInv, TableInv, ParticipantInv, RowInv, AnswerInv, UsesCounted, tables
  <2>5. QED
    BY <2>2, <2>3, <2>4 DEF IInv
<1>4. QED
  BY <1>1, <1>2, <1>3 DEF Next

LEMMA Invariance == Spec => []IInv
BY InitInv, StepInv, PTL DEF Spec

\* Type correctness, and no row is locked outside a transaction.
THEOREM TypeCorrect == Spec => []TypeOK
<1>1. IInv => TypeOK
  BY DEF IInv
<1>2. QED
  BY <1>1, Invariance, PTL

\* A commandId makes one participant and its row is complete: reserveCommand,
\* the row locks and the retry of run together are idempotent.
THEOREM CommandsAreIdempotent == Spec => []OneParticipantPerCommand
<1>1. IInv => OneParticipantPerCommand
  <2> SUFFICES ASSUME IInv PROVE OneParticipantPerCommand
    OBVIOUS
  <2>1. \A k \in Keys : RowInv(k)
    BY DEF IInv, TableInv
  <2>2. ASSUME NEW p \in participants
        PROVE  p = [id |-> commands[p.key].participant, meeting |-> commands[p.key].meeting,
                    key |-> p.key]
    <3>1. ParticipantInv(p) /\ p \in [id : Calls, meeting : Calls, key : Keys]
      BY DEF IInv, TableInv, TypeOK
    <3>2. QED
      BY <3>1 DEF ParticipantInv
  <2>3. ASSUME NEW p \in participants, NEW q \in participants, p.key = q.key
        PROVE  p = q
    BY <2>2, <2>3
  <2>4. QED
    BY <2>1, <2>3 DEF OneParticipantPerCommand, RowInv
<1>2. QED
  BY <1>1, Invariance, PTL

\* use_count counts the participants that joined, although several joins of
\* one meeting are under way and some are rolled back or replayed.
THEOREM UsesAreCounted == Spec => []UsesCounted
<1>1. IInv => UsesCounted
  BY DEF IInv, TableInv
<1>2. QED
  BY <1>1, Invariance, PTL

\* Answers to one commandId agree, and their sessions are stored.
THEOREM RepliesAgree == Spec => []AnswersAgree
<1>1. IInv => AnswersAgree
  <2> SUFFICES ASSUME IInv, NEW a \in answers
               PROVE  /\ [token |-> a.token, participant |-> a.participant] \in sessions
                      /\ [id |-> a.participant, meeting |-> a.meeting, key |-> a.key]
                            \in participants
                      /\ \A b \in answers :
                            a.key = b.key => a.print = b.print /\ a.participant = b.participant
    BY DEF AnswersAgree
  <2>1. /\ \A b \in answers : AnswerInv(b)
        /\ \A k \in Keys : RowInv(k)
        /\ a.key \in Keys
    BY DEF IInv, TableInv, TypeOK
  <2>2. [id |-> a.participant, meeting |-> a.meeting, key |-> a.key] \in participants
    BY <2>1 DEF AnswerInv, RowInv
  <2>3. QED
    BY <2>1, <2>2 DEF AnswerInv
<1>2. QED
  BY <1>1, Invariance, PTL

\* The rows a call waits for come after the rows it holds: no circle of calls
\* that wait for one another.
THEOREM LocksAreOrdered == Spec => []LocksOrdered
<1>1. IInv => LocksOrdered
  <2> SUFFICES ASSUME IInv, NEW c \in Calls, NEW x \in Rows,
                      call[c].pc \in {"meeting", "capability", "reserve", "insert"},
                      locks[x] = c
               PROVE  Rank(x) < Rank(Awaited(c))
    BY DEF LocksOrdered
  <2>1. CallInv(c) /\ x \in MayHold(c)
    BY DEF IInv, CallInv, LockInv
  <2>2. /\ Rank(MeetingOf(c)) = 1 /\ Rank(CapabilityOf(c)) = 2
        /\ Rank(CommandOf(c)) = 3 /\ Rank(SecretOf(c)) = 4
    BY DEF Rank, MeetingOf, CapabilityOf, CommandOf, SecretOf
  <2>3. CASE call[c].pc = "meeting"
    BY <2>1, <2>3 DEF MayHold, PastMeeting, PastCapability, Reserved
  <2>4. CASE call[c].pc = "capability"
    <3>1. Awaited(c) = CapabilityOf(c) /\ x = MeetingOf(c)
      BY <2>1, <2>4 DEF Awaited, MayHold, PastMeeting, PastCapability, Reserved
    <3>2. QED
      BY <2>2, <3>1
  <2>5. CASE call[c].pc = "reserve"
    <3>1. Awaited(c) = CommandOf(c) /\ x \in {MeetingOf(c), CapabilityOf(c)}
      BY <2>1, <2>5 DEF Awaited, MayHold, PastMeeting, PastCapability, Reserved
    <3>2. QED
      BY <2>2, <3>1
  <2>6. CASE call[c].pc = "insert"
    <3>1. Creates(c)
      BY <2>1, <2>6 DEF CallInv, RequestInv
    <3>2. Awaited(c) = SecretOf(c) /\ x = CommandOf(c)
      BY <2>1, <2>6, <3>1 DEF Awaited, MayHold, PastMeeting, PastCapability, Reserved
    <3>3. QED
      BY <2>2, <3>2
  <2>7. QED
    BY <2>3, <2>4, <2>5, <2>6
<1>2. QED
  BY <1>1, Invariance, PTL

\* A COMMIT never admits anybody to a meeting that has ended or through an
\* invitation that was revoked, also after waiting for their rows.
THEOREM ClosedStaysClosed == Spec => ClosedAdmitsNobody
<1>1. IInv /\ [Next]_vars =>
        [\A p \in participants' \ participants :
            p.key[1] = "meeting.join" =>
               <<"meeting", p.meeting>> \notin closed /\ <<"capability", p.meeting>> \notin closed
        ]_vars
  <2> SUFFICES ASSUME IInv, Next, NEW p \in participants' \ participants,
                      p.key[1] = "meeting.join"
               PROVE  /\ <<"meeting", p.meeting>> \notin closed
                      /\ <<"capability", p.meeting>> \notin closed
    OBVIOUS
  <2>1. PICK c \in Calls : Commit(c)
    BY DEF Next, CallStep, Submit, Begin, LockMeeting, FindInviteCapability, ReserveCommand,
       InsertMeeting, ReplaySession, InsertSession, Abort, Close, Expire, tables
  <2>2. call[c].fresh /\ p = Joined(c)
    BY <2>1, CommitTables
  <2>3. p.meeting = Home(c) /\ p.key = Key(c)
    BY <2>2 DEF Joined
  <2>4. ~Creates(c)
    BY <2>3 DEF Key, Creates
  <2>5. call[c].pc = "commit"
    BY <2>1 DEF Commit
  <2>6. PastMeeting(c) /\ PastCapability(c)
    BY <2>4, <2>5 DEF PastMeeting, PastCapability, InTransaction
  <2>7. Home(c) = call[c].in.meeting
    BY <2>2, <2>4, <2>5, BeforeCommit
  <2>8. MeetingOf(c) \notin closed /\ CapabilityOf(c) \notin closed
    BY <2>6 DEF IInv, CallInv, OpenInv
  <2>9. QED
    BY <2>3, <2>7, <2>8 DEF MeetingOf, CapabilityOf
<1>2. QED
  BY <1>1, Invariance, PTL DEF Spec, ClosedAdmitsNobody

\* A command's row is written once: what the first execution stored is what
\* every replay reads.
THEOREM CommandRowsAreFinal ==
  Spec => [][\A k \in Keys : commands[k] # NoRow => commands'[k] = commands[k]]_vars
<1>1. IInv /\ [Next]_vars =>
        [\A k \in Keys : commands[k] # NoRow => commands'[k] = commands[k]]_vars
  <2> SUFFICES ASSUME IInv, Next
               PROVE  \A k \in Keys : commands[k] # NoRow => commands'[k] = commands[k]
    OBVIOUS
  <2>1. ASSUME NEW c \in Calls, Commit(c)
        PROVE  \A k \in Keys : commands[k] # NoRow => commands'[k] = commands[k]
    BY <2>1, CommitTables
  <2>2. CASE commands' = commands
    BY <2>2
  <2>3. QED
    BY <2>1, <2>2 DEF Next, CallStep, Submit, Begin, LockMeeting, FindInviteCapability,
       ReserveCommand, InsertMeeting, ReplaySession, InsertSession, Abort, Close, Expire, tables
<1>2. QED
  BY <1>1, Invariance, PTL DEF Spec

-----------------------------------------------------------------------------
(***************************************************************************)
(* The mapping onto CommandLedger: the effect of a command is what its     *)
(* committed row says, the uses are use_count of each invitation.          *)
(***************************************************************************)
CreateKeys == {"meeting.create"} \X Commands
JoinKeys == {"meeting.join"} \X Commands
EffectOf(row) ==
    [print |-> row.print, meeting |-> row.meeting, participant |-> row.participant]
Effects == [k \in Keys |-> IF commands[k] = NoRow THEN {} ELSE {EffectOf(commands[k])}]
Uses == [m \in Calls |-> capability[m].uses]

Ledger == INSTANCE CommandLedger
             WITH Names <- Calls, CreateKeys <- CreateKeys, JoinKeys <- JoinKeys,
                  Prints <- Fingerprints, effect <- Effects, uses <- Uses,
                  shut <- closed, told <- answers

LEMMA KeysSplit ==
  /\ Keys = CreateKeys \cup JoinKeys
  /\ \A k \in Keys : k[1] = "meeting.create" => k \in CreateKeys
  /\ \A k \in Keys : k[1] # "meeting.create" => k \in JoinKeys
BY DEF Keys, CreateKeys, JoinKeys

\* The session that a COMMIT hands out is for the participant of the command.
LEMMA CommitAdmits ==
  ASSUME IInv, NEW c \in Calls, Commit(c),
         NEW e, e = [print |-> Fingerprint(c), meeting |-> Home(c), participant |-> Member(c)]
  PROVE  Ledger!Admit(c, Key(c), e)
<1>1. /\ sessions' = sessions \cup {[token |-> c, participant |-> Member(c)]}
      /\ answers' \in {answers, answers \cup {Answer(c)}}
  BY CommitTables
<1>2. QED
  BY <1>1 DEF Ledger!Admit, Answer

\* The first COMMIT of a command takes its effect, which nobody has taken before.
LEMMA FirstCommitExecutes ==
  ASSUME IInv, NEW c \in Calls, Commit(c), call[c].fresh
  PROVE  Ledger!Execute(c, Key(c), Fingerprint(c), Home(c))
<1> DEFINE e == [print |-> Fingerprint(c), meeting |-> Home(c), participant |-> c]
<1>1. call[c].pc = "commit"
  BY DEF Commit
<1>2. /\ Key(c) \in Keys /\ commands[Key(c)] = NoRow /\ Member(c) = c
      /\ \A p \in participants : p.id # c
  BY <1>1, BeforeCommit
<1>3. /\ \A k \in Keys : k # Key(c) => commands'[k] = commands[k]
      /\ commands'[Key(c)] # NoRow
      /\ EffectOf(commands'[Key(c)]) = e
  BY <1>2, CommitTables DEF EffectOf
<1>4. Effects[Key(c)] = {}
  BY <1>2 DEF Effects
<1>5. ASSUME NEW j \in CreateKeys \cup JoinKeys, NEW done \in Effects[j]
      PROVE  done.participant # c
  <2>1. j \in Keys
    BY KeysSplit
  <2>2. commands[j] # NoRow /\ done = EffectOf(commands[j])
    BY <1>5, <2>1 DEF Effects
  <2>3. \E p \in participants : p.id = commands[j].participant
    BY <2>1, <2>2 DEF IInv, TableInv, RowInv
  <2>4. QED
    BY <1>2, <2>2, <2>3 DEF EffectOf
<1>6. Effects' = [Effects EXCEPT ![Key(c)] = {e}]
  <2>1. Effects' = [k \in Keys |-> IF k = Key(c) THEN {e} ELSE Effects[k]]
    <3> HIDE DEF e
    <3>1. QED
      BY <1>3 DEF Effects
  <2>2. QED
    BY <1>2, <2>1 DEF Effects
<1>7. Ledger!Admit(c, Key(c), e)
  BY <1>2, CommitAdmits
<1>8. QED
  BY <1>4, <1>5, <1>6, <1>7 DEF Ledger!Execute

\* COMMIT is the one step in which a command takes effect or is repeated.
LEMMA CommitSimulates ==
  ASSUME IInv, NEW c \in Calls, Commit(c)
  PROVE  Ledger!LNext
<1>1. call[c].pc = "commit" /\ closed' = closed
  BY DEF Commit
<1>2. Key(c) \in Keys /\ Fingerprint(c) \in Fingerprints /\ c \notin meetings /\ Home(c) \in Calls
  BY <1>1, BeforeCommit
<1>3. Key(c)[1] = call[c].in.scope
  BY DEF Key
<1>4. capability \in [Calls -> Capability]
  BY DEF IInv, TypeOK
<1>5. CASE call[c].fresh /\ Creates(c)
  <2>1. Home(c) = c /\ meetings' = meetings \cup {c}
    BY <1>1, <1>5, BeforeCommit, CommitTables
  <2>2. capability' = [capability EXCEPT ![c] =
           [uses |-> 0, version |-> call[c].in.ring.current, body |-> call[c].in.body]]
    BY <1>5 DEF Commit, Persist
  <2>3. Uses' = [Uses EXCEPT ![c] = 0]
    BY <1>4, <2>2 DEF Uses
  <2>4. Ledger!Create(c, Key(c), Fingerprint(c))
    BY <1>1, <1>2, <1>5, <2>1, <2>3, FirstCommitExecutes DEF Ledger!Create
  <2>5. Key(c) \in CreateKeys
    BY <1>2, <1>3, <1>5, KeysSplit DEF Creates
  <2>6. QED
    BY <1>2, <2>4, <2>5 DEF Ledger!LNext
<1>6. CASE call[c].fresh /\ ~Creates(c)
  <2>1. Home(c) = call[c].in.meeting /\ Home(c) \in meetings /\ meetings' = meetings
    BY <1>1, <1>6, BeforeCommit, CommitTables
  <2>2. capability' = [capability EXCEPT ![Home(c)].uses = @ + 1]
    BY <1>6 DEF Commit, Persist
  <2>3. Uses' = [Uses EXCEPT ![Home(c)] = @ + 1]
    BY <1>2, <1>4, <2>2 DEF Uses, Capability
  <2>4. MeetingOf(c) \notin closed /\ CapabilityOf(c) \notin closed
    BY <1>1, <1>6 DEF IInv, CallInv, OpenInv, PastMeeting, PastCapability, InTransaction
  <2>5. Ledger!Join(c, Key(c), Fingerprint(c), Home(c))
    BY <1>1, <1>6, <2>1, <2>3, <2>4, FirstCommitExecutes DEF Ledger!Join, MeetingOf, CapabilityOf
  <2>6. Key(c) \in JoinKeys
    BY <1>2, <1>3, <1>6, KeysSplit DEF Creates
  <2>7. QED
    BY <1>2, <2>1, <2>5, <2>6 DEF Ledger!LNext
<1>7. CASE ~call[c].fresh
  <2>1. UNCHANGED <<meetings, capability, commands>>
    BY <1>7 DEF Commit
  <2>2. /\ commands[Key(c)] # NoRow
        /\ EffectOf(commands[Key(c)]) = [print |-> Fingerprint(c), meeting |-> Home(c),
                                         participant |-> Member(c)]
    BY <1>1, <1>7, <2>1, CommitTables DEF EffectOf
  <2>3. Ledger!Admit(c, Key(c), EffectOf(commands[Key(c)]))
    BY <2>2, CommitAdmits
  <2>4. EffectOf(commands[Key(c)]) \in Effects[Key(c)]
    BY <1>2, <2>2 DEF Effects
  <2>5. Effects' = Effects /\ Uses' = Uses
    BY <2>1 DEF Effects, Uses
  <2>6. Ledger!Repeat(c, Key(c), Fingerprint(c))
    BY <1>1, <2>1, <2>2, <2>3, <2>4, <2>5 DEF Ledger!Repeat
  <2>7. QED
    BY <1>2, <2>6, KeysSplit DEF Ledger!LNext
<1>8. QED
  BY <1>5, <1>6, <1>7

\* Every step is a step of the ledger or invisible in it.
LEMMA NextSimulates ==
  ASSUME IInv, [Next]_vars
  PROVE  [Ledger!LNext]_(Ledger!lvars)
<1>1. UNCHANGED <<tables, closed, answers>> => UNCHANGED Ledger!lvars
  BY DEF tables, Ledger!lvars, Effects, Uses
<1>2. ASSUME NEW c \in Calls, Submit(c) \/ CallStep(c) \/ Abort(c)
      PROVE  Commit(c) \/ UNCHANGED <<tables, closed, answers>>
  BY <1>2 DEF CallStep, Submit, Begin, LockMeeting, FindInviteCapability, ReserveCommand,
     InsertMeeting, ReplaySession, InsertSession, Abort
<1>3. ASSUME NEW x \in {"meeting", "capability"} \X Calls, Close(x)
      PROVE  Ledger!LNext
  <2>1. UNCHANGED <<tables, answers>>
    BY <1>3 DEF Close
  <2>2. Effects' = Effects /\ Uses' = Uses
    BY <2>1 DEF tables, Effects, Uses
  <2>3. Ledger!Shut(x)
    BY <1>3, <2>1, <2>2 DEF Close, tables, Ledger!Shut
  <2>4. QED
    BY <2>3 DEF Ledger!LNext
<1>4. ASSUME NEW x \in {"meeting", "capability"} \X Calls, Expire(x)
      PROVE  UNCHANGED <<tables, closed, answers>>
  BY <1>4 DEF Expire
<1>5. UNCHANGED vars => UNCHANGED <<tables, closed, answers>>
  BY DEF vars
<1>6. QED
  BY <1>1, <1>2, <1>3, <1>4, <1>5, CommitSimulates DEF Next

(***************************************************************************)
(* The two SERIALIZABLE transactions, their row locks, snapshots and       *)
(* retries implement CommandLedger: a commandId takes effect in one step   *)
(* and once, only while meeting and invitation are open, and every         *)
(* repetition gets a session of the participant the first one made.        *)
(***************************************************************************)
THEOREM ImplementsLedger == Spec => Ledger!LSpec
<1>1. Init => Ledger!LInit
  BY KeysSplit DEF Init, Ledger!LInit, Effects, Uses
<1>2. IInv /\ [Next]_vars => [Ledger!LNext]_(Ledger!lvars)
  BY NextSimulates
<1>3. QED
  BY <1>1, <1>2, Invariance, PTL DEF Spec, Ledger!LSpec
=============================================================================
