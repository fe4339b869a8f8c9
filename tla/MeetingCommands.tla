--------------------------- MODULE MeetingCommands ---------------------------
(***************************************************************************)
(* Creating and joining anonymous meetings: the two SERIALIZABLE           *)
(* transactions of PostgresMeetingRepository, their idempotency records,   *)
(* the bounded retry of PostgresUnitOfWork and the keyring under which the *)
(* request fingerprint is computed.                                        *)
(*                                                                         *)
(* A transaction's snapshot is taken by its first statement, before that   *)
(* statement waits for any row.  `stale` holds the rows that others have   *)
(* committed since: locking or colliding with one of them is 40001.  What  *)
(* a transaction writes is visible to others at its COMMIT; until then it  *)
(* holds the locks of the rows it wrote or selected FOR UPDATE.            *)
(*                                                                         *)
(* A call commits at most once, so its name stands for every identifier it *)
(* generates: meeting, participant and session token.                      *)
(***************************************************************************)
EXTENDS Integers, FiniteSets

CONSTANTS Calls,        \* HTTP requests
          Commands,     \* values of commandId
          Bodies,       \* the rest of a request: display name, secrets, device
          Rings,        \* capability keyrings of the running processes
          MaxRetries,   \* maxRetries of both transactions
          Nobody,       \* a row that is not locked
          NoRow         \* no command result

Versions == UNION {r.keys : r \in Rings}
Keys == {"meeting.create", "meeting.join"} \X Commands
Rows == ({"meeting", "capability"} \X Calls) \cup ({"command"} \X Keys)
           \cup ({"secret"} \X (Bodies \X Versions))

Fingerprints == [meeting : Calls \cup {NoRow}, body : Bodies, digests : SUBSET Versions]
Result == [print : Fingerprints, status : {"in_progress", "succeeded"},
           meeting : Calls, participant : Calls]

ASSUME MeetingAssumption ==
    /\ \A r \in Rings : r.keys \subseteq Nat /\ r.current \in r.keys
    /\ MaxRetries \in Nat
    /\ Nobody \notin Calls
    /\ NoRow \notin Calls
    /\ NoRow \notin Result

VARIABLES meetings,      \* committed meetings
          capability,    \* the invite capability of each meeting
          commands,      \* command_results
          participants,  \* participants, with the command that made each
          sessions,      \* participant_sessions
          closed,        \* meetings ended and capabilities revoked
          expired,       \* meetings and capabilities past expires_at
          locks,         \* who holds each row
          call,          \* progress of each request
          answers        \* what clients were told

tables == <<meetings, capability, commands, participants, sessions>>
vars == <<tables, closed, expired, locks, call, answers>>

InTransaction == {"meeting", "capability", "reserve", "insert", "session", "replay", "commit"}
Ends == {"answered", "refused", "reused", "in_progress", "failed"}

Request == [scope : {"meeting.create", "meeting.join"}, cmd : Commands, body : Bodies,
            meeting : Calls, ring : Rings]
Call == [pc : {"idle", "begin"} \cup InTransaction \cup Ends,
         in : Request \cup {NoRow},
         tries : 0..MaxRetries,
         fresh : BOOLEAN,          \* it inserted the command row itself
         stale : SUBSET Rows]

Capability == [uses : Nat, version : Versions \cup {0}, body : Bodies \cup {NoRow}]

Init ==
    /\ meetings = {}
    /\ capability = [m \in Calls |-> [uses |-> 0, version |-> 0, body |-> NoRow]]
    /\ commands = [k \in Keys |-> NoRow]
    /\ participants = {}
    /\ sessions = {}
    /\ closed = {}
    /\ expired = {}
    /\ locks = [x \in Rows |-> Nobody]
    /\ call = [c \in Calls |-> [pc |-> "idle", in |-> NoRow, tries |-> 0,
                                fresh |-> FALSE, stale |-> {}]]
    /\ answers = {}
-----------------------------------------------------------------------------
Creates(c) == call[c].in.scope = "meeting.create"
Key(c) == <<call[c].in.scope, call[c].in.cmd>>
MeetingOf(c) == <<"meeting", call[c].in.meeting>>
CapabilityOf(c) == <<"capability", call[c].in.meeting>>
CommandOf(c) == <<"command", Key(c)>>
SecretOf(c) == <<"secret", <<call[c].in.body, call[c].in.ring.current>>>>

\* fingerprint: a creation is digested under the current key, a join under
\* every key of the process that serves it.
Fingerprint(c) ==
    IF Creates(c)
    THEN [meeting |-> NoRow, body |-> call[c].in.body, digests |-> {call[c].in.ring.current}]
    ELSE [meeting |-> call[c].in.meeting, body |-> call[c].in.body,
          digests |-> call[c].in.ring.keys]

Free(c, x) == locks[x] \in {Nobody, c}
Released(c) == [x \in Rows |-> IF locks[x] = c THEN Nobody ELSE locks[x]]
Goto(c, pc) == call' = [call EXCEPT ![c].pc = pc]
Take(c, x, pc) == locks' = [locks EXCEPT ![x] = c] /\ Goto(c, pc)

\* What is left of a call that is over.
Over(outcome) == [pc |-> outcome, in |-> NoRow, tries |-> 0, fresh |-> FALSE, stale |-> {}]

\* ROLLBACK, and the error reaches the caller.
End(c, outcome) ==
    /\ call' = [call EXCEPT ![c] = Over(outcome)]
    /\ locks' = Released(c)

\* Mutant: the next attempt starts on the transaction of the last one.
ConflictHolding(c) ==
    IF call[c].tries < MaxRetries
    THEN /\ UNCHANGED locks
         /\ call' = [call EXCEPT ![c].pc = "begin", ![c].tries = @ + 1,
                                 ![c].fresh = FALSE, ![c].stale = {}]
    ELSE End(c, "failed")

\* 40001 or 40P01: ROLLBACK and another attempt, while there is one left.
Conflict(c) ==
    IF call[c].tries < MaxRetries
    THEN /\ locks' = Released(c)
         /\ call' = [call EXCEPT ![c].pc = "begin", ![c].tries = @ + 1,
                                 ![c].fresh = FALSE, ![c].stale = {}]
    ELSE End(c, "failed")

\* The rows a transaction locks or collides with.
Footprint(c) == {CommandOf(c)} \cup (IF Creates(c) THEN {} ELSE {MeetingOf(c), CapabilityOf(c)})

\* The rows X changed: every transaction that has its snapshot sees them stale.
Outdate(f, X) ==
    [d \in Calls |-> IF f[d].pc \in InTransaction
                     THEN [f[d] EXCEPT !.stale = @ \cup (X \cap Footprint(d))] ELSE f[d]]
-----------------------------------------------------------------------------
\* A client sends a command to some process; a repeated commandId may come
\* with the same request or with another one.
Submit(c) ==
    /\ call[c].pc = "idle"
    /\ \E q \in Request :
          /\ q.scope = "meeting.create" => q.meeting = c
          /\ q.scope = "meeting.join" => q.meeting \in meetings
          /\ call' = [call EXCEPT ![c].pc = "begin", ![c].in = q]
    /\ UNCHANGED <<tables, closed, expired, locks, answers>>

Open(c) == MeetingOf(c) \notin closed \cup expired

\* BEGIN and the snapshot of the first statement: reserveCommand for create,
\* the meeting for join.
Begin(c) ==
    /\ call[c].pc = "begin"
    /\ \/ Creates(c) /\ Goto(c, "reserve") /\ UNCHANGED locks
       \/ ~Creates(c) /\ Open(c) /\ Goto(c, "meeting") /\ UNCHANGED locks
       \/ ~Creates(c) /\ ~Open(c) /\ End(c, "refused")
    /\ UNCHANGED <<tables, closed, expired, answers>>

\* Mutant: READ COMMITTED without looking at the row again.
LockMeetingUnchecked(c) ==
    /\ call[c].pc = "meeting"
    /\ Free(c, MeetingOf(c))
    /\ Take(c, MeetingOf(c), "capability")
    /\ UNCHANGED <<tables, closed, expired, answers>>

\* SELECT ... FROM meetings ... FOR UPDATE is granted the row.
LockMeeting(c) ==
    /\ call[c].pc = "meeting"
    /\ Free(c, MeetingOf(c))
    /\ \/ MeetingOf(c) \in call[c].stale /\ Conflict(c)
       \/ MeetingOf(c) \notin call[c].stale /\ Take(c, MeetingOf(c), "capability")
    /\ UNCHANGED <<tables, closed, expired, answers>>

\* The snapshot shows a valid invite under one of the candidate digests.
Invited(c) ==
    /\ capability[call[c].in.meeting].version \in call[c].in.ring.keys
    /\ CapabilityOf(c) \notin expired
    /\ CapabilityOf(c) \in closed => CapabilityOf(c) \in call[c].stale

FindInviteCapability(c) ==
    /\ call[c].pc = "capability"
    /\ \/ ~Invited(c) /\ End(c, "refused")
       \/ /\ Invited(c) /\ Free(c, CapabilityOf(c))
          /\ \/ CapabilityOf(c) \in call[c].stale /\ Conflict(c)
             \/ CapabilityOf(c) \notin call[c].stale /\ Take(c, CapabilityOf(c), "reserve")
    /\ UNCHANGED <<tables, closed, expired, answers>>

\* Mutant: no unique key, so an uncommitted row stops nobody.
ReserveUnkeyed(c) ==
    /\ call[c].pc = "reserve"
    /\ commands[Key(c)] = NoRow
    /\ call' = [call EXCEPT ![c].pc = IF Creates(c) THEN "insert" ELSE "session",
                            ![c].fresh = TRUE]
    /\ UNCHANGED <<tables, closed, expired, locks, answers>>

\* Mutant: the stored fingerprint is not compared.
ReserveUncompared(c) ==
    LET row == commands[Key(c)]
    IN  /\ call[c].pc = "reserve"
        /\ Free(c, CommandOf(c))
        /\ \/ /\ row = NoRow
              /\ locks' = [locks EXCEPT ![CommandOf(c)] = c]
              /\ call' = [call EXCEPT ![c].pc = IF Creates(c) THEN "insert" ELSE "session",
                                      ![c].fresh = TRUE]
           \/ row # NoRow /\ CommandOf(c) \in call[c].stale /\ Conflict(c)
           \/ row # NoRow /\ CommandOf(c) \notin call[c].stale /\ Take(c, CommandOf(c), "replay")
        /\ UNCHANGED <<tables, closed, expired, answers>>

\* INSERT ... ON CONFLICT DO NOTHING waits for an uncommitted row of the same
\* key; one committed after the snapshot is 40001.
ReserveCommand(c) ==
    LET row == commands[Key(c)]
    IN  /\ call[c].pc = "reserve"
        /\ Free(c, CommandOf(c))
        /\ \/ /\ row = NoRow
              /\ locks' = [locks EXCEPT ![CommandOf(c)] = c]
              /\ call' = [call EXCEPT ![c].pc = IF Creates(c) THEN "insert" ELSE "session",
                                      ![c].fresh = TRUE]
           \/ row # NoRow /\ CommandOf(c) \in call[c].stale /\ Conflict(c)
           \/ /\ row # NoRow /\ CommandOf(c) \notin call[c].stale
              /\ \/ row.print # Fingerprint(c) /\ End(c, "reused")
                 \/ /\ row.print = Fingerprint(c)
                    /\ Take(c, CommandOf(c), "replay")
        /\ UNCHANGED <<tables, closed, expired, answers>>

\* The creation's INSERTs; the digest of a capability is unique.
InsertMeeting(c) ==
    LET taken == \E m \in meetings : /\ capability[m].body = call[c].in.body
                                     /\ capability[m].version = call[c].in.ring.current
    IN  /\ call[c].pc = "insert"
        /\ Free(c, SecretOf(c))
        /\ \/ taken /\ End(c, "failed")
           \/ ~taken /\ Take(c, SecretOf(c), "session")
        /\ UNCHANGED <<tables, closed, expired, answers>>

\* replaySession refuses a command that is not complete.
ReplaySession(c) ==
    /\ call[c].pc = "replay"
    /\ \/ commands[Key(c)].status # "succeeded" /\ End(c, "in_progress")
       \/ /\ commands[Key(c)].status = "succeeded"
          /\ Goto(c, "session")
          /\ UNCHANGED locks
    /\ UNCHANGED <<tables, closed, expired, answers>>

\* The meeting the session is for.
Home(c) == CASE ~call[c].fresh -> commands[Key(c)].meeting
             [] call[c].fresh /\ Creates(c) -> c
             [] OTHER -> call[c].in.meeting

\* insertSession: its expiry is capped by the meeting's, and the table wants
\* it in the future.
InsertSession(c) ==
    /\ call[c].pc = "session"
    /\ \/ <<"meeting", Home(c)>> \in expired /\ End(c, "failed")
       \/ /\ <<"meeting", Home(c)>> \notin expired
          /\ Goto(c, "commit")
          /\ UNCHANGED locks
    /\ UNCHANGED <<tables, closed, expired, answers>>

\* reserveCommand's row as completeCommand leaves it.
CompleteCommand(c) ==
    [print |-> Fingerprint(c), status |-> "succeeded", meeting |-> Home(c), participant |-> c]

\* The participant whose session the transaction inserts.
Member(c) == IF call[c].fresh THEN c ELSE commands[Key(c)].participant

\* sessionResult.
Answer(c) == [key |-> Key(c), print |-> Fingerprint(c), meeting |-> Home(c),
              participant |-> Member(c), token |-> c]

\* A participant; its audit row and its outbox event are written with it.
Joined(c) == [id |-> c, meeting |-> Home(c), key |-> Key(c)]

\* Mutant: the capability is not updated.
PersistUncounted(c) ==
    /\ commands' = [commands EXCEPT ![Key(c)] = CompleteCommand(c)]
    /\ participants' = participants \cup {Joined(c)}
    /\ \/ /\ Creates(c)
          /\ meetings' = meetings \cup {c}
          /\ capability' = [capability EXCEPT ![c] =
                [uses |-> 0, version |-> call[c].in.ring.current, body |-> call[c].in.body]]
       \/ ~Creates(c) /\ UNCHANGED <<meetings, capability>>

\* The rows of a first execution.
Persist(c) ==
    /\ commands' = [commands EXCEPT ![Key(c)] = CompleteCommand(c)]
    /\ participants' = participants \cup {Joined(c)}
    /\ \/ /\ Creates(c)
          /\ meetings' = meetings \cup {c}
          /\ capability' = [capability EXCEPT ![c] =
                [uses |-> 0, version |-> call[c].in.ring.current, body |-> call[c].in.body]]
       \/ /\ ~Creates(c)
          /\ capability' = [capability EXCEPT ![Home(c)].uses = @ + 1]
          /\ UNCHANGED meetings

\* COMMIT, or a COMMIT that took effect and whose answer was lost.
Commit(c) ==
    /\ call[c].pc = "commit"
    /\ sessions' = sessions \cup {[token |-> c, participant |-> Member(c)]}
    /\ \/ call[c].fresh /\ Persist(c)
       \/ ~call[c].fresh /\ UNCHANGED <<meetings, capability, commands, participants>>
    /\ locks' = Released(c)
    /\ LET changed == IF ~call[c].fresh THEN {}
                      ELSE IF Creates(c) THEN {CommandOf(c)}
                      ELSE {CommandOf(c), CapabilityOf(c)}
       IN  \/ /\ call' = Outdate([call EXCEPT ![c] = Over("answered")], changed)
              /\ answers' = answers \cup {Answer(c)}
           \/ /\ call' = Outdate([call EXCEPT ![c] = Over("failed")], changed)
              /\ UNCHANGED answers
    /\ UNCHANGED <<closed, expired>>

\* A statement fails, times out or its process dies; or PostgreSQL sees a
\* dangerous structure of dependencies and reports 40001.
Abort(c) ==
    /\ call[c].pc \in InTransaction
    /\ End(c, "failed") \/ Conflict(c)
    /\ UNCHANGED <<tables, closed, expired, answers>>

\* Somebody ends the meeting or revokes its invitation.
Close(x) ==
    /\ x[2] \in meetings
    /\ x \notin closed
    /\ locks[x] = Nobody
    /\ closed' = closed \cup {x}
    /\ call' = Outdate(call, {x})
    /\ UNCHANGED <<tables, expired, locks, answers>>

\* expires_at passes; no row changes.  A capability expires with its meeting
\* at the latest.
Expire(x) ==
    /\ x[2] \in meetings
    /\ x \notin expired
    /\ expired' = expired \cup {x, <<"capability", x[2]>>}
    /\ UNCHANGED <<tables, closed, locks, call, answers>>

CallStep(c) ==
    \/ Begin(c) \/ LockMeeting(c) \/ FindInviteCapability(c) \/ ReserveCommand(c)
    \/ InsertMeeting(c) \/ ReplaySession(c) \/ InsertSession(c) \/ Commit(c)

Next ==
    \/ \E c \in Calls : Submit(c) \/ CallStep(c) \/ Abort(c)
    \/ \E x \in {"meeting", "capability"} \X Calls : Close(x) \/ Expire(x)

Spec == Init /\ [][Next]_vars

-----------------------------------------------------------------------------
(***************************************************************************)
(* Types, and only an open transaction holds rows.                         *)
(***************************************************************************)
TypeOK ==
    /\ meetings \subseteq Calls
    /\ capability \in [Calls -> Capability]
    /\ commands \in [Keys -> Result \cup {NoRow}]
    /\ participants \subseteq [id : Calls, meeting : Calls, key : Keys]
    /\ sessions \subseteq [token : Calls, participant : Calls]
    /\ closed \subseteq Rows
    /\ expired \subseteq Rows
    /\ locks \in [Rows -> Calls \cup {Nobody}]
    /\ \A x \in Rows : locks[x] # Nobody => call[locks[x]].pc \in InTransaction
    /\ call \in [Calls -> Call]
    /\ answers \subseteq [key : Keys, print : Fingerprints, meeting : Calls,
                          participant : Calls, token : Calls]

(***************************************************************************)
(* MTG-005: a commandId makes one participant, whatever calls repeat it at *)
(* the same time, lose their answer or are started again by run.  Its row  *)
(* is complete and names that participant, so no retry finds the command   *)
(* in progress for ever.                                                   *)
(***************************************************************************)
OneParticipantPerCommand ==
    /\ \A p, q \in participants : p.key = q.key => p = q
    /\ \A k \in Keys : commands[k] # NoRow =>
          /\ commands[k].status = "succeeded"
          /\ [id |-> commands[k].participant, meeting |-> commands[k].meeting, key |-> k]
                \in participants

(***************************************************************************)
(* use_count is the number of participants that joined with the            *)
(* invitation: no lost update, no count for a replay or a rollback.        *)
(***************************************************************************)
UsesCounted ==
    \A m \in meetings :
       capability[m].uses = Cardinality({p \in participants : p.meeting = m /\ p.id # m})

(***************************************************************************)
(* MTG-005 and MTG-006: all answers to a commandId are to the same request *)
(* and name the same meeting and participant, and the session each of them *)
(* hands out is stored.                                                    *)
(***************************************************************************)
AnswersAgree ==
    \A a \in answers :
       /\ [token |-> a.token, participant |-> a.participant] \in sessions
       /\ [id |-> a.participant, meeting |-> a.meeting, key |-> a.key] \in participants
       /\ \A b \in answers :
             a.key = b.key => /\ a.print = b.print
                              /\ a.participant = b.participant

(***************************************************************************)
(* A join that commits finds the meeting not ended and the invitation not  *)
(* revoked at its COMMIT, although it checked both on a snapshot taken     *)
(* before it waited for their rows.  Expiry is not part of this: the clock *)
(* is read before COMMIT and no lock stops it.                             *)
(***************************************************************************)
ClosedAdmitsNobody ==
    [][\A p \in participants' \ participants :
          p.key[1] = "meeting.join" =>
             <<"meeting", p.meeting>> \notin closed /\ <<"capability", p.meeting>> \notin closed
      ]_vars

(***************************************************************************)
(* README, "verrou ordre reunion puis capacite/participant": a call that   *)
(* waits for a row holds only rows that come before it in one order, so    *)
(* calls never wait for one another in a circle, also when run starts one  *)
(* again.  The two secrets a create inserts are one token here, so nothing *)
(* is said of an order between them.                                       *)
(***************************************************************************)
Awaited(c) == CASE call[c].pc = "meeting" -> MeetingOf(c)
                [] call[c].pc = "capability" -> CapabilityOf(c)
                [] call[c].pc = "reserve" -> CommandOf(c)
                [] call[c].pc = "insert" -> SecretOf(c)
Rank(x) == CASE x[1] = "meeting" -> 1 [] x[1] = "capability" -> 2
             [] x[1] = "command" -> 3 [] x[1] = "secret" -> 4
LocksOrdered ==
    \A c \in Calls, x \in Rows :
       /\ call[c].pc \in {"meeting", "capability", "reserve", "insert"}
       /\ locks[x] = c
       => Rank(x) < Rank(Awaited(c))
=============================================================================
