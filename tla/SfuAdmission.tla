----------------------------- MODULE SfuAdmission -----------------------------
(***************************************************************************)
(* Issuing an SFU admission token: transaction A (prepare) locks session,  *)
(* participant and meeting and reserves an audit row, the key service      *)
(* signs outside any transaction, transaction B (finalize) locks and       *)
(* compares again before the token is released.  Around it run revocation, *)
(* role and membership changes, the audit janitor and other calls of the   *)
(* same session that may repeat a commandId.                               *)
(*                                                                         *)
(* One session.  Its three rows are always locked together and in the same *)
(* order, so they are one lock.  A SELECT ... FOR UPDATE evaluates its     *)
(* clock_timestamp() and its EXISTS on unlocked tables when it starts and  *)
(* waits for the rows afterwards: `seen` keeps what it saw.                *)
(***************************************************************************)
EXTENDS Naturals, FiniteSets, SfuPolicy

CONSTANTS Calls,         \* invocations of issue
          Commands,      \* values of commandId
          Nobody,        \* no transaction holds the lock
          NoRow,         \* no audit row, nothing prepared
          Mode,          \* meetings.mode
          Policy,        \* meetings.media_e2ee_policy
          TokenTtl,      \* config.sfuAdmission.tokenTtlSeconds
          SessionEnds,   \* participant_sessions.absolute_expires_at
          Retention,     \* config.sfuAdmission.auditRetentionDays
          MaxTime,       \* bound: clock ticks
          MaxVersion     \* bound: changes of role and of membership

Row == [token : Calls, version : Nat \ {0}, at : Nat, expires : Nat,
        state : {"requested", "issued", "sign_failed", "invalidated"}]

ASSUME AdmissionAssumption ==
    /\ NoRow \notin Row
    /\ Mode \in MeetingModes
    /\ Policy \in E2eePolicies
    /\ TokenTtl \in Nat \ {0}
    /\ SessionEnds \in Nat \ {0}
    /\ Retention \in Nat \ {0}
    /\ MaxTime \in Nat
    /\ MaxVersion \in Nat \ {0}
    /\ Nobody \notin Calls

VARIABLES auth,      \* the session, participant and meeting rows, and the membership
          audit,     \* sfu_admission_audit, by commandId
          pc,        \* where each call is
          cmd,       \* its commandId
          prep,      \* what prepare returned to it
          seen,      \* what its running SELECT ... FOR UPDATE saw at its start
          authLock,  \* the call that holds session, participant and meeting
          rowLock,   \* the call that holds each audit row
          given,     \* tokens that clients received
          swept,     \* invalidateSession has run after the revocation
          changes,   \* how much of MaxVersion is used
          now        \* clock_timestamp()

locks == <<authLock, rowLock>>
call == <<pc, cmd, prep, seen>>
vars == <<auth, audit, call, locks, given, swept, changes, now>>

Auth == [product : ProductRoles, sfu : SfuRoles, version : Nat \ {0}, member : BOOLEAN,
         session : {"active", "revoked"}, meeting : {"open", "active", "ended"}]
Prepared == [sfu : SfuRoles, version : Nat \ {0}, grant : SUBSET Permissions,
             at : Nat, expires : Nat]
Token == [token : Calls, cmd : Commands, sfu : SfuRoles, version : Nat \ {0},
          grant : SUBSET Permissions, at : Nat]

InA == {"reserving", "replay"}                  \* transaction A past its locks
Active == {"waiting", "locking", "finalizing", "signing", "signed", "unsigned"} \cup InA
Ends == {"rejected", "replayed", "failed", "changed", "released", "unavailable"}

(***************************************************************************)
(* The types, and who holds which lock: nothing is held outside the two    *)
(* transactions, so the call of the key service holds no row.              *)
(***************************************************************************)
TypeOK ==
    /\ auth \in Auth
    /\ audit \in [Commands -> Row \cup {NoRow}]
    /\ pc \in [Calls -> {"idle"} \cup Active \cup Ends]
    /\ cmd \in [Calls -> Commands]
    /\ prep \in [Calls -> Prepared \cup {NoRow}]
    /\ \A c \in Calls : pc[c] \in Active \ {"waiting"} => prep[c] \in Prepared
    /\ seen \in [Calls -> [member : BOOLEAN, now : Nat]]
    /\ authLock \in Calls \cup {Nobody}
    /\ \A c \in Calls : authLock = c <=> pc[c] \in InA
    /\ rowLock \in [Commands -> Calls \cup {Nobody}]
    /\ \A c \in Calls, k \in Commands :
          rowLock[k] = c <=> pc[c] = "finalizing" /\ cmd[c] = k
    /\ given \subseteq Token
    /\ swept \in BOOLEAN
    /\ changes \in 0..MaxVersion
    /\ now \in Nat

\* create stores a host, join a participant or, in a live meeting, a viewer.
Init ==
    /\ auth \in {[product |-> r[1], sfu |-> r[2], version |-> 1, member |-> TRUE,
                  session |-> "active", meeting |-> "open"] :
                   r \in {<<"host", "host">>,
                          IF Mode = "live" THEN <<"viewer", "viewer">>
                                           ELSE <<"participant", "speaker">>}}
    /\ audit = [k \in Commands |-> NoRow]
    /\ pc = [c \in Calls |-> "idle"]
    /\ cmd \in [Calls -> Commands]
    /\ prep = [c \in Calls |-> NoRow]
    /\ seen = [c \in Calls |-> [member |-> FALSE, now |-> 0]]
    /\ authLock = Nobody
    /\ rowLock = [k \in Commands |-> Nobody]
    /\ given = {}
    /\ swept = FALSE
    /\ changes = 0
    /\ now = 0
-----------------------------------------------------------------------------
\* What the statement of call c makes of the rows and of what it saw.
Input(c) == [mode |-> Mode, product |-> auth.product, sfu |-> auth.sfu,
             e2ee |-> Policy, member |-> seen[c].member]

\* The WHERE clause of SELECT_AUTHORIZATION.
Live(c) ==
    /\ auth.session = "active"
    /\ auth.meeting # "ended"
    /\ SessionEnds > seen[c].now

Least(a, b) == IF a <= b THEN a ELSE b

Goto(c, s) == pc' = [pc EXCEPT ![c] = s]

\* Faulty variant: the client goes back to the pool without ROLLBACK.
EndUnreleased(c, s) == Goto(c, s) /\ UNCHANGED locks

\* COMMIT or ROLLBACK releases what the call holds.
End(c, s) ==
    /\ Goto(c, s)
    /\ authLock' = IF authLock = c THEN Nobody ELSE authLock
    /\ rowLock' = [k \in Commands |-> IF rowLock[k] = c THEN Nobody ELSE rowLock[k]]

\* A SELECT ... FOR UPDATE starts.
See(c) == seen' = [seen EXCEPT ![c] = [member |-> auth.member, now |-> now]]

Begin(c) ==
    /\ pc[c] = "idle"
    /\ See(c)
    /\ Goto(c, "waiting")
    /\ UNCHANGED <<auth, audit, cmd, prep, locks, given, swept, changes, now>>

\* What prepare will return.
Preparation(c) ==
    [sfu |-> auth.sfu, version |-> auth.version,
     grant |-> DeriveSfuPermissions(Input(c)), at |-> seen[c].now,
     expires |-> Least(seen[c].now + TokenTtl, SessionEnds)]

\* Faulty variant: FOR UPDATE is left out.
LoadAuthorizationUnlocked(c) ==
    /\ pc[c] = "waiting"
    /\ Live(c) /\ Admitted(Input(c))
    /\ prep' = [prep EXCEPT ![c] = Preparation(c)]
    /\ Goto(c, "reserving")
    /\ UNCHANGED <<auth, audit, cmd, seen, locks, given, swept, changes, now>>

\* The rows are granted: loadAuthorization and deriveSfuPermissions.
LoadAuthorization(c) ==
    /\ pc[c] = "waiting"
    /\ authLock = Nobody
    /\ \/ /\ Live(c) /\ Admitted(Input(c))
          /\ prep' = [prep EXCEPT ![c] = Preparation(c)]
          /\ authLock' = c
          /\ Goto(c, "reserving")
          /\ UNCHANGED rowLock
       \/ /\ ~(Live(c) /\ Admitted(Input(c)))
          /\ End(c, "rejected")
          /\ UNCHANGED prep
    /\ UNCHANGED <<auth, audit, cmd, seen, given, swept, changes, now>>

\* The row that prepare inserts; its CHECK asks expires_at > requested_at.
NewRow(c) == [token |-> c, version |-> prep[c].version, at |-> now,
              expires |-> prep[c].expires, state |-> "requested"]
InsertRow(c) ==
    /\ prep[c].expires > now
    /\ audit' = [audit EXCEPT ![cmd[c]] = NewRow(c)]
    /\ End(c, "signing") \/ End(c, "unavailable")     \* the reply of COMMIT is lost

\* Faulty variant: ON CONFLICT DO UPDATE.
ReserveAgain(c) ==
    /\ pc[c] = "reserving"
    /\ InsertRow(c)
    /\ UNCHANGED <<auth, cmd, prep, seen, given, swept, changes, now>>

\* INSERT ... ON CONFLICT DO NOTHING, then COMMIT or throwReplay.
Reserve(c) ==
    /\ pc[c] = "reserving"
    /\ \/ audit[cmd[c]] = NoRow /\ InsertRow(c)
       \/ audit[cmd[c]] # NoRow /\ Goto(c, "replay") /\ UNCHANGED <<audit, locks>>
    /\ UNCHANGED <<auth, cmd, prep, seen, given, swept, changes, now>>

\* throwReplay waits for the audit row, which the janitor may have deleted.
ThrowReplay(c) ==
    /\ pc[c] = "replay"
    /\ rowLock[cmd[c]] = Nobody
    /\ End(c, IF audit[cmd[c]] = NoRow THEN "unavailable" ELSE "replayed")
    /\ UNCHANGED <<auth, audit, cmd, prep, seen, given, swept, changes, now>>

\* The key service answers, or the executor refuses or times out.
Sign(c) ==
    /\ pc[c] = "signing"
    /\ Goto(c, "signed") \/ Goto(c, "unsigned")
    /\ UNCHANGED <<auth, audit, cmd, prep, seen, locks, given, swept, changes, now>>

\* The audit row this call has inserted, unless the janitor deleted it.
Mine(c) == audit[cmd[c]] # NoRow /\ audit[cmd[c]].token = c

SetState(c, s) == audit' = [audit EXCEPT ![cmd[c]].state = s]

\* Best effort: its own failure is swallowed.
MarkSigningFailed(c) ==
    /\ pc[c] = "unsigned"
    /\ rowLock[cmd[c]] = Nobody
    /\ Goto(c, "failed")
    /\ \/ Mine(c) /\ audit[cmd[c]].state = "requested" /\ SetState(c, "sign_failed")
       \/ UNCHANGED audit
    /\ UNCHANGED <<auth, cmd, prep, seen, locks, given, swept, changes, now>>
-----------------------------------------------------------------------------
\* finalize: its SELECT starts.
FinalizeBegin(c) ==
    /\ pc[c] = "signed"
    /\ See(c)
    /\ Goto(c, "locking")
    /\ UNCHANGED <<auth, audit, cmd, prep, locks, given, swept, changes, now>>

\* The audit row comes first in FOR UPDATE OF audit, ps, p, m.
FinalizeLockRow(c) ==
    /\ pc[c] = "locking"
    /\ rowLock[cmd[c]] = Nobody
    /\ \/ Mine(c) /\ Goto(c, "finalizing") /\ rowLock' = [rowLock EXCEPT ![cmd[c]] = c]
       \/ ~Mine(c) /\ Goto(c, "unavailable") /\ UNCHANGED rowLock
    /\ UNCHANGED <<auth, audit, cmd, prep, seen, authLock, given, swept, changes, now>>

\* Faulty variant: the audit row alone is looked at.
StillReserved(c) ==
    audit[cmd[c]].state = "requested" /\ audit[cmd[c]].expires > seen[c].now

\* isStillAuthorized.
IsStillAuthorized(c) ==
    /\ audit[cmd[c]].state = "requested"
    /\ audit[cmd[c]].expires > seen[c].now
    /\ Live(c)
    /\ auth.version = prep[c].version
    /\ auth.sfu = prep[c].sfu
    /\ Admitted(Input(c))
    /\ DeriveSfuPermissions(Input(c)) = prep[c].grant

Release(c) ==
    given' = given \cup {[token |-> c, cmd |-> cmd[c], sfu |-> prep[c].sfu,
                          version |-> prep[c].version, grant |-> prep[c].grant,
                          at |-> audit[cmd[c]].at]}

(***************************************************************************)
(* The other rows are granted: compare, settle the audit row, activate the *)
(* meeting, COMMIT.  If the reply of COMMIT is lost the row is settled and *)
(* no token is returned.                                                   *)
(***************************************************************************)
Finalize(c) ==
    /\ pc[c] = "finalizing"
    /\ authLock = Nobody
    /\ \/ /\ IsStillAuthorized(c)
          /\ SetState(c, "issued")
          /\ auth' = [auth EXCEPT !.meeting = "active"]
          /\ \/ End(c, "released") /\ Release(c)
             \/ End(c, "unavailable") /\ UNCHANGED given
       \/ /\ ~IsStillAuthorized(c)
          /\ IF audit[cmd[c]].state = "requested"
             THEN SetState(c, "invalidated") ELSE UNCHANGED audit
          /\ End(c, "changed")
          /\ UNCHANGED <<auth, given>>
    /\ UNCHANGED <<cmd, prep, seen, swept, changes, now>>

\* A statement fails, waits too long or is a deadlock's victim; the process dies.
Abort(c) ==
    /\ pc[c] \in Active
    /\ End(c, "unavailable")
    /\ UNCHANGED <<auth, audit, cmd, prep, seen, given, swept, changes, now>>
-----------------------------------------------------------------------------
LiveRow(r) == r # NoRow /\ r.state \in {"requested", "issued"} /\ r.expires > now

\* invalidateSession, after the revocation: waits for rows that are held.
InvalidateSession ==
    /\ auth.session = "revoked"
    /\ \A k \in Commands : LiveRow(audit[k]) => rowLock[k] = Nobody
    /\ audit' = [k \in Commands |->
                   IF LiveRow(audit[k]) THEN [audit[k] EXCEPT !.state = "invalidated"]
                   ELSE audit[k]]
    /\ swept' = TRUE
    /\ UNCHANGED <<auth, call, locks, given, changes, now>>

Unlocked == {k \in Commands : audit[k] # NoRow /\ rowLock[k] = Nobody}
Overdue == {k \in Unlocked : audit[k].state = "requested" /\ audit[k].expires <= now}
Old(D) == {k \in Unlocked : /\ audit[k].state # "requested" \/ k \in D
                            /\ audit[k].at + Retention < now}

MaintainRows(I, D) ==
    /\ I \cup D # {}
    /\ audit' = [k \in Commands |->
                   IF k \in D THEN NoRow
                   ELSE IF k \in I THEN [audit[k] EXCEPT !.state = "invalidated"]
                   ELSE audit[k]]
    /\ UNCHANGED <<auth, call, locks, given, swept, changes, now>>

\* Faulty variant: nothing is ever invalidated.
MaintainDeletesOnly == \E D \in SUBSET Old({}) : MaintainRows({}, D)

\* maintain: a batch is invalidated, then a batch is deleted; SKIP LOCKED.
Maintain ==
    \E I \in SUBSET Overdue : \E D \in SUBSET Old(I) : MaintainRows(I, D)

\* External: the writers of the locked rows, and of the membership, which by
\* the architecture's lock order hold the meeting row.
Change ==
    /\ authLock = Nobody
    /\ changes < MaxVersion
    /\ changes' = changes + 1
    /\ \/ auth' = [auth EXCEPT !.session = "revoked"]
       \/ auth' = [auth EXCEPT !.meeting = "ended"]
       \/ auth' = [auth EXCEPT !.member = ~auth.member]
       \/ \E r \in {<<"host", "host">>, <<"participant", "speaker">>} :
             auth' = [auth EXCEPT !.product = r[1], !.sfu = r[2], !.version = @ + 1]
    /\ UNCHANGED <<audit, call, locks, given, swept, now>>

Tick ==
    /\ now < MaxTime
    /\ now' = now + 1
    /\ UNCHANGED <<auth, audit, call, locks, given, swept, changes>>
-----------------------------------------------------------------------------
CallStep(c) ==
    \/ LoadAuthorization(c)
    \/ Reserve(c)
    \/ ThrowReplay(c)
    \/ Sign(c)
    \/ MarkSigningFailed(c)
    \/ FinalizeBegin(c)
    \/ FinalizeLockRow(c)
    \/ Finalize(c)

Next ==
    \/ \E c \in Calls : Begin(c) \/ CallStep(c) \/ Abort(c)
    \/ InvalidateSession
    \/ Maintain
    \/ Change
    \/ Tick

Spec == Init /\ [][Next]_vars

(***************************************************************************)
(* Blocked transactions end by their timeouts, the janitor's interval      *)
(* comes round and invalidates what is overdue, and time passes.           *)
(***************************************************************************)
FairSpec ==
    /\ Spec
    /\ \A c \in Calls : WF_vars(CallStep(c) \/ Abort(c))
    /\ WF_vars(Maintain /\ \E k \in Overdue : audit'[k] # audit[k])
    /\ WF_vars(Tick)
-----------------------------------------------------------------------------
(***************************************************************************)
(* SFU-010: once invalidateSession has run after a revocation, no audit    *)
(* row of the session is requested or issued and unexpired, and none comes *)
(* back, whatever calls were under way at the revocation.                  *)
(***************************************************************************)
RevokedStaysOut == swept => \A k \in Commands : ~LiveRow(audit[k])

(***************************************************************************)
(* SFU-005: a commandId releases one token.  A second one for the same     *)
(* command only after the audit row of the first has passed retention.     *)
(***************************************************************************)
OneTokenPerCommand ==
    \A g, h \in given :
       g.cmd = h.cmd /\ g # h => g.at + Retention < h.at \/ h.at + Retention < g.at

(***************************************************************************)
(* SFU-009: every released token has its audit row, issued or invalidated  *)
(* later, until retention; no janitor pass or failed call loses it.        *)
(***************************************************************************)
TokenAudited ==
    \A g \in given :
       \/ g.at + Retention < now
       \/ /\ audit[g.cmd] # NoRow
          /\ audit[g.cmd].token = g.token
          /\ audit[g.cmd].state \in {"issued", "invalidated"}

(***************************************************************************)
(* SFU-007: a change of session, role or meeting that committed before the *)
(* release wins: the token that is released carries the role and version   *)
(* of that moment, for a session and meeting that are still open.          *)
(***************************************************************************)
ChangeWins ==
    [][\A g \in given' \ given :
         /\ auth.session = "active" /\ auth.meeting # "ended"
         /\ g.sfu = auth.sfu /\ g.version = auth.version
         /\ g.grant \cap {"room:moderate"} # {} => auth.product = "host"]_vars

(***************************************************************************)
(* A reservation whose call failed, crashed or lost its reply does not     *)
(* stay requested.                                                         *)
(***************************************************************************)
ReservationSettles ==
    \A k \in Commands :
       (audit[k] # NoRow /\ audit[k].state = "requested")
          ~> ~(audit[k] # NoRow /\ audit[k].state = "requested")
-----------------------------------------------------------------------------

(***************************************************************************)
(* README: "Un changement concurrent gagne toujours sur la publication du  *)
(* jeton".  A token with e2ee:enable is not released once the removal of   *)
(* the membership has committed.                                           *)
(***************************************************************************)
MembershipChangeWins ==
    [][\A g \in given' \ given : "e2ee:enable" \in g.grant => auth.member]_vars
=============================================================================
