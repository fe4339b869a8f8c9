-------------------------- MODULE SfuAdmissionProofs --------------------------
(***************************************************************************)
(* Proofs about SfuAdmission for any number of calls and commands, any     *)
(* policy and any lifetimes.                                               *)
(***************************************************************************)
EXTENDS SfuAdmission, TLAPS

\* The part of TypeOK that is about the calls and their locks.
CallOK ==
    /\ pc \in [Calls -> {"idle"} \cup Active \cup Ends]
    /\ cmd \in [Calls -> Commands]
    /\ prep \in [Calls -> Prepared \cup {NoRow}]
    /\ \A c \in Calls : pc[c] \in Active \ {"waiting"} => prep[c] \in Prepared
    /\ seen \in [Calls -> [member : BOOLEAN, now : Nat]]
    /\ authLock \in Calls \cup {Nobody}
    /\ \A c \in Calls : authLock = c <=> pc[c] \in InA
    /\ rowLock \in [Commands -> Calls \cup {Nobody}]
    /\ \A c \in Calls, k \in Commands :
          rowLock[k] = c <=> pc[c] = "finalizing" /\ cmd[c] = k

\* The part of TypeOK that is about the database and the clients.
DataOK ==
    /\ auth \in Auth
    /\ audit \in [Commands -> Row \cup {NoRow}]
    /\ given \subseteq Token
    /\ swept \in BOOLEAN
    /\ changes \in 0..MaxVersion
    /\ now \in Nat

\* The locks of transaction A keep the session as prepare has found it.
LockedIsActive == \A c \in Calls : pc[c] \in InA => auth.session = "active"

\* invalidateSession runs after the revocation, which is final.
SweptIsRevoked == swept => auth.session = "revoked"

\* The lock of transaction B keeps the audit row.
FinalizerHasRow == \A c \in Calls : pc[c] = "finalizing" => Mine(c)

\* No row is younger than the clock.
RowsPast == \A k \in Commands : audit[k] # NoRow => audit[k].at <= now

(***************************************************************************)
(* A released token ends its call.  Its row is kept, or the command has a  *)
(* row that was inserted, or could be, only after retention.               *)
(***************************************************************************)
Backed ==
    \A g \in given :
       /\ pc[g.token] = "released"
       /\ audit[g.cmd] = NoRow => g.at + Retention < now
       /\ audit[g.cmd] # NoRow =>
             \/ /\ audit[g.cmd].token = g.token
                /\ audit[g.cmd].state \in {"issued", "invalidated"}
                /\ audit[g.cmd].at = g.at
             \/ g.at + Retention < audit[g.cmd].at

AdmissionInv ==
    /\ LockedIsActive
    /\ SweptIsRevoked
    /\ RevokedStaysOut
    /\ FinalizerHasRow
    /\ RowsPast
    /\ Backed
    /\ OneTokenPerCommand

IInv == CallOK /\ DataOK /\ AdmissionInv
-----------------------------------------------------------------------------
\* The two parts are TypeOK.
LEMMA TypeParts == TypeOK <=> CallOK /\ DataOK
  BY DEF TypeOK, CallOK, DataOK

\* What is derived stays inside the vocabulary.
LEMMA DerivedPermissions ==
    ASSUME NEW i
    PROVE  DeriveSfuPermissions(i) \in SUBSET Permissions
  BY DEF DeriveSfuPermissions, Permissions

\* A step inside or outside the transactions that takes and gives up no lock.
LEMMA GotoCall ==
    ASSUME CallOK, NEW c \in Calls, NEW s \in Active \cup Ends, Goto(c, s),
           UNCHANGED <<cmd, prep, locks>>,
           seen' \in [Calls -> [member : BOOLEAN, now : Nat]],
           s \in InA <=> pc[c] \in InA, s # "finalizing", pc[c] # "finalizing",
           s \in Active \ {"waiting"} => prep[c] \in Prepared
    PROVE  CallOK'
<1>1. UNCHANGED <<cmd, prep, authLock, rowLock>>
  BY DEF locks
<1>2. pc' \in [Calls -> {"idle"} \cup Active \cup Ends]
      /\ \A d \in Calls : pc'[d] = IF d = c THEN s ELSE pc[d]
  BY DEF CallOK, Goto
<1> QED
  BY <1>1, <1>2 DEF CallOK

\* COMMIT and ROLLBACK give up every lock of the call and no other.
LEMMA EndCall ==
    ASSUME CallOK, NEW c \in Calls, NEW s \in Ends \cup {"signing"}, End(c, s),
           UNCHANGED <<cmd, prep, seen>>, s = "signing" => prep[c] \in Prepared
    PROVE  CallOK'
<1>1. s \notin InA /\ s # "finalizing" /\ s \in {"idle"} \cup Active \cup Ends /\ s # "waiting"
  BY DEF Ends, Active, InA
<1>2. s \in Active => s = "signing"
  BY DEF Ends, Active, InA
<1>3. pc' \in [Calls -> {"idle"} \cup Active \cup Ends]
      /\ \A d \in Calls : pc'[d] = IF d = c THEN s ELSE pc[d]
  BY <1>1 DEF CallOK, End, Goto
<1>4. \A d \in Calls : authLock' = d <=> pc'[d] \in InA
  BY <1>1, <1>3, AdmissionAssumption DEF CallOK, End
<1>5. rowLock' \in [Commands -> Calls \cup {Nobody}]
      /\ \A k \in Commands : rowLock'[k] = IF rowLock[k] = c THEN Nobody ELSE rowLock[k]
  BY DEF CallOK, End
<1>6. \A d \in Calls, k \in Commands :
         rowLock'[k] = d <=> pc'[d] = "finalizing" /\ cmd'[d] = k
  BY <1>1, <1>3, <1>5, AdmissionAssumption DEF CallOK
<1> QED
  BY <1>2, <1>3, <1>4, <1>5, <1>6 DEF CallOK, End

\* What one call knows is not disturbed by another call's move.
LEMMA MoveInv ==
    ASSUME AdmissionInv, CallOK, NEW c \in Calls, NEW s, pc' = [pc EXCEPT ![c] = s],
           UNCHANGED <<auth, audit, cmd, given, swept, now>>,
           s \in InA => auth.session = "active",
           s = "finalizing" => Mine(c),
           pc[c] # "released"
    PROVE  AdmissionInv'
<1>1. \A d \in Calls : pc'[d] = IF d = c THEN s ELSE pc[d]
  BY DEF CallOK
<1>2. LockedIsActive' /\ SweptIsRevoked'
  BY <1>1 DEF AdmissionInv, LockedIsActive, SweptIsRevoked
<1>3. RevokedStaysOut' /\ RowsPast' /\ OneTokenPerCommand'
  BY DEF AdmissionInv, RevokedStaysOut, RowsPast, OneTokenPerCommand, LiveRow
<1>4. FinalizerHasRow'
  BY <1>1 DEF AdmissionInv, FinalizerHasRow, Mine
<1>5. Backed'
  <2>1. \A g \in given : pc'[g.token] = "released"
    BY DEF AdmissionInv, Backed, CallOK
  <2> QED
    BY <2>1 DEF AdmissionInv, Backed
<1> QED
  BY <1>2, <1>3, <1>4, <1>5 DEF AdmissionInv
-----------------------------------------------------------------------------
\* A call in progress has released nothing yet.
LEMMA NotReleased == \A s \in Active \cup {"idle"} : s # "released"
  BY DEF Active, InA

\* Starting a statement only notes what it saw.
LEMMA SeeType ==
    ASSUME CallOK, DataOK, NEW c \in Calls, See(c)
    PROVE  seen' \in [Calls -> [member : BOOLEAN, now : Nat]]
<1>1. [member |-> auth.member, now |-> now] \in [member : BOOLEAN, now : Nat]
  BY DEF DataOK, Auth
<1> QED
  BY <1>1 DEF CallOK, See

LEMMA BeginInv ==
    ASSUME IInv, NEW c \in Calls, Begin(c) \/ FinalizeBegin(c)
    PROVE  IInv'
<1>1. CallOK'
  BY SeeType, GotoCall DEF IInv, Begin, FinalizeBegin, Active, InA, CallOK
<1>2. AdmissionInv'
  BY MoveInv DEF IInv, Begin, FinalizeBegin, Goto, InA
<1> QED
  BY <1>1, <1>2 DEF IInv, DataOK, Begin, FinalizeBegin

LEMMA LoadAuthorizationInv ==
    ASSUME IInv, NEW c \in Calls, LoadAuthorization(c)
    PROVE  IInv'
<1>1. CallOK /\ DataOK /\ AdmissionInv /\ pc[c] = "waiting" /\ authLock = Nobody
  BY DEF IInv, LoadAuthorization
<1>2. CASE /\ Live(c)
           /\ prep' = [prep EXCEPT ![c] = Preparation(c)]
           /\ authLock' = c /\ Goto(c, "reserving") /\ UNCHANGED rowLock
  <2>1. Preparation(c) \in Prepared
    <3>1. seen[c].now \in Nat
      BY <1>1 DEF CallOK
    <3>2. Least(seen[c].now + TokenTtl, SessionEnds) \in Nat
      BY <3>1, AdmissionAssumption DEF Least
    <3>3. auth.sfu \in SfuRoles /\ auth.version \in Nat \ {0}
      BY <1>1 DEF DataOK, Auth
    <3> QED
      BY <3>1, <3>2, <3>3, DerivedPermissions DEF Preparation, Prepared
  <2>2. CallOK'
    <3>1. \A d \in Calls : pc'[d] = IF d = c THEN "reserving" ELSE pc[d]
      BY <1>1, <1>2 DEF CallOK, Goto
    <3>2. pc' \in [Calls -> {"idle"} \cup Active \cup Ends]
          /\ prep' \in [Calls -> Prepared \cup {NoRow}]
          /\ \A d \in Calls : prep'[d] = IF d = c THEN Preparation(c) ELSE prep[d]
      BY <1>1, <1>2, <2>1 DEF CallOK, Goto, Active, InA
    <3>3. UNCHANGED <<cmd, seen>>
      BY DEF LoadAuthorization
    <3>4. \A d \in Calls : authLock' = d <=> pc'[d] \in InA
      BY <1>1, <1>2, <3>1, AdmissionAssumption DEF CallOK, InA
    <3>5. \A d \in Calls, k \in Commands :
             rowLock'[k] = d <=> pc'[d] = "finalizing" /\ cmd'[d] = k
      BY <1>1, <1>2, <3>1, <3>3 DEF CallOK
    <3> QED
      BY <1>1, <1>2, <2>1, <3>1, <3>2, <3>3, <3>4, <3>5 DEF CallOK
  <2>3. AdmissionInv'
    BY <1>1, <1>2, MoveInv DEF LoadAuthorization, Goto, Live
  <2> QED
    BY <1>1, <2>2, <2>3 DEF IInv, DataOK, LoadAuthorization
<1>3. CASE End(c, "rejected") /\ UNCHANGED prep
  <2>1. CallOK'
    BY <1>1, <1>3, EndCall DEF LoadAuthorization, Ends
  <2>2. AdmissionInv'
    BY <1>1, <1>3, MoveInv DEF LoadAuthorization, End, Goto, InA
  <2> QED
    BY <1>1, <2>1, <2>2 DEF IInv, DataOK, LoadAuthorization
<1> QED
  BY <1>2, <1>3 DEF LoadAuthorization

\* The reserved row: the command has none, so no token of it is recent.
LEMMA InsertRowInv ==
    ASSUME IInv, NEW c \in Calls, pc[c] = "reserving", audit[cmd[c]] = NoRow, InsertRow(c),
           UNCHANGED <<auth, cmd, prep, seen, given, swept, changes, now>>
    PROVE  IInv'
<1>1. CallOK /\ DataOK /\ AdmissionInv
  BY DEF IInv
<1> DEFINE k == cmd[c]
<1>2. k \in Commands /\ prep[c] \in Prepared
  BY <1>1 DEF CallOK, Active, InA
<1>3. NewRow(c) \in Row
  BY <1>1, <1>2 DEF NewRow, Row, Prepared, DataOK
<1>4. audit' \in [Commands -> Row \cup {NoRow}]
      /\ \A j \in Commands : audit'[j] = IF j = k THEN NewRow(c) ELSE audit[j]
  BY <1>1, <1>3 DEF InsertRow, DataOK
<1>5. CallOK'
  BY <1>1, <1>2, EndCall DEF InsertRow, Ends
<1>6. DataOK'
  BY <1>1, <1>4 DEF DataOK
<1>7. /\ \A d \in Calls : d # c => pc'[d] = pc[d]
      /\ pc'[c] \in {"signing", "unavailable"}
  BY <1>1 DEF CallOK, InsertRow, End, Goto
<1>8. auth.session = "active" /\ ~swept
  BY <1>1 DEF AdmissionInv, LockedIsActive, SweptIsRevoked, InA
<1>9. LockedIsActive' /\ SweptIsRevoked' /\ RevokedStaysOut' /\ OneTokenPerCommand'
  BY <1>1, <1>7, <1>8 DEF AdmissionInv, LockedIsActive, SweptIsRevoked, RevokedStaysOut,
                          OneTokenPerCommand, InA
<1>10. FinalizerHasRow'
  BY <1>1, <1>4, <1>7 DEF AdmissionInv, FinalizerHasRow, Mine, CallOK
<1>11. RowsPast'
  BY <1>1, <1>4 DEF AdmissionInv, RowsPast, NewRow, DataOK
<1>12. Backed'
  <2> SUFFICES ASSUME NEW g \in given
               PROVE  /\ pc'[g.token] = "released"
                      /\ audit'[g.cmd] = NoRow => g.at + Retention < now
                      /\ audit'[g.cmd] # NoRow =>
                           \/ /\ audit'[g.cmd].token = g.token
                              /\ audit'[g.cmd].state \in {"issued", "invalidated"}
                              /\ audit'[g.cmd].at = g.at
                           \/ g.at + Retention < audit'[g.cmd].at
    BY DEF Backed
  <2>1. g.token \in Calls /\ g.cmd \in Commands
    BY <1>1 DEF DataOK, Token
  <2>2. pc[g.token] = "released" /\ g.token # c
    BY <1>1 DEF AdmissionInv, Backed
  <2>3. CASE g.cmd = k
    BY <1>1, <1>4, <1>7, <2>1, <2>2, <2>3 DEF AdmissionInv, Backed, NewRow
  <2>4. CASE g.cmd # k
    BY <1>1, <1>4, <1>7, <2>1, <2>2, <2>4 DEF AdmissionInv, Backed
  <2> QED
    BY <2>3, <2>4
<1> QED
  BY <1>5, <1>6, <1>9, <1>10, <1>11, <1>12 DEF IInv, AdmissionInv

LEMMA ReserveInv ==
    ASSUME IInv, NEW c \in Calls, Reserve(c)
    PROVE  IInv'
<1>1. CASE audit[cmd[c]] = NoRow /\ InsertRow(c)
  BY <1>1, InsertRowInv DEF Reserve
<1>2. CASE Goto(c, "replay") /\ UNCHANGED <<audit, locks>>
  <2>1. CallOK /\ DataOK /\ AdmissionInv /\ pc[c] = "reserving"
        /\ UNCHANGED <<auth, cmd, prep, seen, given, swept, changes, now>>
    BY DEF IInv, Reserve
  <2>2. CallOK'
    BY <1>2, <2>1, GotoCall DEF Active, InA, CallOK
  <2>3. AdmissionInv'
    BY <1>2, <2>1, MoveInv DEF Goto, AdmissionInv, LockedIsActive, InA
  <2> QED
    BY <1>2, <2>1, <2>2, <2>3 DEF IInv, DataOK
<1> QED
  BY <1>1, <1>2 DEF Reserve

\* The ends that leave the database alone.
LEMMA PlainEndInv ==
    ASSUME IInv, NEW c \in Calls, ThrowReplay(c) \/ Abort(c)
    PROVE  IInv'
<1>1. CallOK /\ DataOK /\ AdmissionInv /\ pc[c] \in Active
      /\ UNCHANGED <<auth, audit, cmd, prep, seen, given, swept, changes, now>>
  BY DEF IInv, ThrowReplay, Abort, Active, InA
<1>2. PICK s \in {"unavailable", "replayed"} : End(c, s)
  BY DEF ThrowReplay, Abort
<1>3. CallOK'
  BY <1>1, <1>2, EndCall DEF Ends
<1>4. AdmissionInv'
  BY <1>1, <1>2, MoveInv, NotReleased DEF End, Goto, InA
<1> QED
  BY <1>1, <1>3, <1>4 DEF IInv, DataOK

LEMMA SignInv ==
    ASSUME IInv, NEW c \in Calls, Sign(c)
    PROVE  IInv'
<1>1. CallOK /\ DataOK /\ AdmissionInv /\ pc[c] = "signing"
      /\ UNCHANGED <<auth, audit, cmd, prep, seen, locks, given, swept, changes, now>>
  BY DEF IInv, Sign
<1>2. PICK s \in {"signed", "unsigned"} : Goto(c, s)
  BY DEF Sign
<1>3. CallOK'
  BY <1>1, <1>2, GotoCall DEF Active, InA, CallOK
<1>4. AdmissionInv'
  BY <1>1, <1>2, MoveInv DEF Goto, InA
<1> QED
  BY <1>1, <1>3, <1>4 DEF IInv, DataOK

\* A row with another state.
LEMMA RowWithState ==
    ASSUME NEW r \in Row, NEW st \in {"requested", "issued", "sign_failed", "invalidated"},
           NEW q, q = [r EXCEPT !.state = st]
    PROVE  /\ q \in Row /\ q # NoRow
           /\ q.token = r.token /\ q.at = r.at /\ q.expires = r.expires /\ q.state = st
  BY AdmissionAssumption DEF Row

\* The row stays, with its token and age, and is no live grant.
Closed(k) ==
    /\ audit[k] # NoRow /\ audit'[k] # NoRow /\ audit'[k] \in Row
    /\ audit'[k].token = audit[k].token /\ audit'[k].at = audit[k].at
    /\ \/ audit'[k].state = "invalidated"
       \/ audit[k].state = "requested" /\ audit'[k].state = "sign_failed"

\* The row is deleted after retention.
Deleted(k) == audit[k] # NoRow /\ audit'[k] = NoRow /\ audit[k].at + Retention < now

\* How a row changes without being reserved or issued.
Settled(k) == audit'[k] = audit[k] \/ Closed(k) \/ Deleted(k)

\* Settling rows keeps what is said about rows and tokens.
LEMMA SettledInv ==
    ASSUME DataOK, AdmissionInv, given' = given, now' = now, swept' = swept,
           \A g \in given : pc'[g.token] = "released",
           \A k \in Commands : Settled(k)
    PROVE  /\ \A k \in Commands : audit'[k] \in Row \cup {NoRow}
           /\ RevokedStaysOut' /\ RowsPast' /\ Backed' /\ OneTokenPerCommand'
<1>2. \A k \in Commands : audit'[k] \in Row \cup {NoRow}
  BY DEF Settled, Closed, Deleted, DataOK
<1>3. RevokedStaysOut'
  BY DEF AdmissionInv, RevokedStaysOut, LiveRow, Settled, Closed, Deleted
<1>4. RowsPast'
  BY DEF AdmissionInv, RowsPast, Settled, Closed, Deleted
<1>5. Backed'
  <2> SUFFICES ASSUME NEW g \in given
               PROVE  /\ audit'[g.cmd] = NoRow => g.at + Retention < now
                      /\ audit'[g.cmd] # NoRow =>
                           \/ /\ audit'[g.cmd].token = g.token
                              /\ audit'[g.cmd].state \in {"issued", "invalidated"}
                              /\ audit'[g.cmd].at = g.at
                           \/ g.at + Retention < audit'[g.cmd].at
    BY DEF Backed
  <2>1. g.cmd \in Commands /\ g.at \in Nat
    BY DEF DataOK, Token
  <2>2. audit[g.cmd] # NoRow => audit[g.cmd].at \in Nat
    BY <2>1 DEF DataOK, Row
  <2>3. Settled(g.cmd)
    BY <2>1
  <2> QED
    BY <2>1, <2>2, <2>3, AdmissionAssumption DEF AdmissionInv, Backed, Settled, Closed, Deleted, DataOK
<1>6. OneTokenPerCommand'
  BY DEF AdmissionInv, OneTokenPerCommand
<1> QED
  BY <1>2, <1>3, <1>4, <1>5, <1>6

\* A released token stays released when another call moves.
LEMMA StayReleased ==
    ASSUME CallOK, AdmissionInv, NEW c \in Calls, NEW s, pc' = [pc EXCEPT ![c] = s],
           pc[c] # "released"
    PROVE  \A g \in given : pc'[g.token] = "released"
  BY DEF CallOK, AdmissionInv, Backed

LEMMA MarkSigningFailedInv ==
    ASSUME IInv, NEW c \in Calls, MarkSigningFailed(c)
    PROVE  IInv'
<1>1. CallOK /\ DataOK /\ AdmissionInv /\ pc[c] = "unsigned" /\ Goto(c, "failed")
      /\ UNCHANGED <<auth, cmd, prep, seen, locks, given, swept, changes, now>>
      /\ rowLock[cmd[c]] = Nobody /\ cmd[c] \in Commands
  BY DEF IInv, MarkSigningFailed, CallOK
<1>2. CallOK'
  BY <1>1, GotoCall DEF Active, Ends, InA, CallOK
<1>3. CASE UNCHANGED audit
  BY <1>1, <1>2, <1>3, MoveInv DEF IInv, DataOK, Goto, InA
<1>4. CASE Mine(c) /\ audit[cmd[c]].state = "requested" /\ SetState(c, "sign_failed")
  <2>1. \A k \in Commands : audit'[k] =
           IF k = cmd[c] THEN [audit[k] EXCEPT !.state = "sign_failed"] ELSE audit[k]
    BY <1>1, <1>4 DEF SetState, DataOK
  <2>2. audit[cmd[c]] \in Row
    BY <1>1, <1>4 DEF Mine, DataOK
  <2>3. Closed(cmd[c])
    <3>1. audit'[cmd[c]] = [audit[cmd[c]] EXCEPT !.state = "sign_failed"]
      BY <1>1, <2>1
    <3>2. /\ audit'[cmd[c]] \in Row /\ audit'[cmd[c]] # NoRow
          /\ audit'[cmd[c]].token = audit[cmd[c]].token
          /\ audit'[cmd[c]].at = audit[cmd[c]].at
          /\ audit'[cmd[c]].state = "sign_failed"
      BY <2>2, <3>1, RowWithState
    <3> QED
      BY <1>4, <3>2 DEF Closed, Mine
  <2>4. \A k \in Commands : Settled(k)
    BY <2>1, <2>3 DEF Settled
  <2>5. \A g \in given : pc'[g.token] = "released"
    BY <1>1, StayReleased DEF Goto
  <2>6. /\ \A k \in Commands : audit'[k] \in Row \cup {NoRow}
        /\ RevokedStaysOut' /\ RowsPast' /\ Backed' /\ OneTokenPerCommand'
    BY <1>1, <2>4, <2>5, SettledInv
  <2>7. DataOK'
    BY <1>1, <1>4, <2>6 DEF DataOK, SetState
  <2>8. \A d \in Calls : pc'[d] = IF d = c THEN "failed" ELSE pc[d]
    BY <1>1 DEF CallOK, Goto
  <2>9. LockedIsActive' /\ SweptIsRevoked'
    BY <1>1, <2>8 DEF AdmissionInv, LockedIsActive, SweptIsRevoked, InA
  <2>10. FinalizerHasRow'
    <3> SUFFICES ASSUME NEW d \in Calls, pc'[d] = "finalizing" PROVE Mine(d)'
      BY DEF FinalizerHasRow
    <3>1. pc[d] = "finalizing" /\ rowLock[cmd[d]] = d /\ cmd[d] \in Commands
      BY <1>1, <2>8 DEF CallOK
    <3>2. cmd[d] # cmd[c]
      BY <1>1, <3>1, AdmissionAssumption
    <3> QED
      BY <1>1, <2>1, <3>1, <3>2 DEF AdmissionInv, FinalizerHasRow, Mine
  <2> QED
    BY <1>2, <2>6, <2>7, <2>9, <2>10 DEF IInv, AdmissionInv
<1> QED
  BY <1>3, <1>4 DEF MarkSigningFailed

LEMMA InvalidatedIsClosed ==
    ASSUME DataOK, NEW k \in Commands, audit[k] # NoRow,
           audit'[k] = [audit[k] EXCEPT !.state = "invalidated"]
    PROVE  Closed(k)
<1>1. audit[k] \in Row
  BY DEF DataOK
<1>2. /\ audit'[k] \in Row /\ audit'[k] # NoRow
      /\ audit'[k].token = audit[k].token
      /\ audit'[k].at = audit[k].at
      /\ audit'[k].state = "invalidated"
  BY <1>1, RowWithState
<1> QED
  BY <1>2 DEF Closed

LEMMA FinalizeLockRowInv ==
    ASSUME IInv, NEW c \in Calls, FinalizeLockRow(c)
    PROVE  IInv'
<1>1. CallOK /\ DataOK /\ AdmissionInv /\ pc[c] = "locking" /\ cmd[c] \in Commands
      /\ UNCHANGED <<auth, audit, cmd, prep, seen, authLock, given, swept, changes, now>>
      /\ rowLock[cmd[c]] = Nobody
  BY DEF IInv, FinalizeLockRow, CallOK
<1>2. CASE Mine(c) /\ Goto(c, "finalizing") /\ rowLock' = [rowLock EXCEPT ![cmd[c]] = c]
  <2>1. pc' \in [Calls -> {"idle"} \cup Active \cup Ends]
        /\ \A d \in Calls : pc'[d] = IF d = c THEN "finalizing" ELSE pc[d]
    BY <1>1, <1>2 DEF CallOK, Goto, Active
  <2>2. rowLock' \in [Commands -> Calls \cup {Nobody}]
        /\ \A k \in Commands : rowLock'[k] = IF k = cmd[c] THEN c ELSE rowLock[k]
    BY <1>1, <1>2 DEF CallOK
  <2>3. \A d \in Calls, k \in Commands :
           rowLock'[k] = d <=> pc'[d] = "finalizing" /\ cmd'[d] = k
    BY <1>1, <2>1, <2>2, AdmissionAssumption DEF CallOK
  <2>4. \A d \in Calls : authLock' = d <=> pc'[d] \in InA
    BY <1>1, <2>1 DEF CallOK, InA
  <2>5. \A d \in Calls : pc'[d] \in Active \ {"waiting"} => prep'[d] \in Prepared
    BY <1>1, <2>1 DEF CallOK, Active
  <2>6. CallOK'
    BY <1>1, <2>1, <2>2, <2>3, <2>4, <2>5 DEF CallOK
  <2>7. AdmissionInv'
    BY <1>1, <1>2, MoveInv DEF Goto, InA
  <2> QED
    BY <1>1, <2>6, <2>7 DEF IInv, DataOK
<1>3. CASE Goto(c, "unavailable") /\ UNCHANGED rowLock
  <2>1. CallOK'
    BY <1>1, <1>3, GotoCall DEF CallOK, Active, Ends, InA, locks
  <2>2. AdmissionInv'
    BY <1>1, <1>3, MoveInv DEF Goto, InA
  <2> QED
    BY <1>1, <2>1, <2>2 DEF IInv, DataOK
<1> QED
  BY <1>2, <1>3 DEF FinalizeLockRow

\* Transaction B issues the row: its call is the only one with a token for it.
LEMMA IssueInv ==
    ASSUME IInv, NEW c \in Calls, pc[c] = "finalizing", IsStillAuthorized(c),
           SetState(c, "issued"), auth' = [auth EXCEPT !.meeting = "active"],
           \/ End(c, "released") /\ Release(c)
           \/ End(c, "unavailable") /\ UNCHANGED given,
           UNCHANGED <<cmd, prep, seen, swept, changes, now>>
    PROVE  IInv'
<1>1. CallOK /\ DataOK /\ AdmissionInv
  BY DEF IInv
<1> DEFINE k == cmd[c]
           r == audit[k]
           g0 == [token |-> c, cmd |-> k, sfu |-> prep[c].sfu, version |-> prep[c].version,
                  grant |-> prep[c].grant, at |-> r.at]
<1>2. k \in Commands /\ prep[c] \in Prepared
  BY <1>1 DEF CallOK, Active
<1>3. r # NoRow /\ r \in Row /\ r.token = c
  BY <1>1, <1>2 DEF AdmissionInv, FinalizerHasRow, Mine, DataOK
<1>4. audit' \in [Commands -> Row \cup {NoRow}]
      /\ \A j \in Commands : audit'[j] = IF j = k THEN [r EXCEPT !.state = "issued"] ELSE audit[j]
  <2>1. [r EXCEPT !.state = "issued"] \in Row
    BY <1>3, RowWithState
  <2> QED
    BY <1>1, <1>2, <2>1 DEF SetState, DataOK
<1>5. /\ audit'[k] \in Row /\ audit'[k] # NoRow /\ audit'[k].token = c
      /\ audit'[k].at = r.at /\ audit'[k].state = "issued"
  <2>1. audit'[k] = [r EXCEPT !.state = "issued"]
    BY <1>2, <1>4
  <2> QED
    BY <1>3, <2>1, RowWithState
<1>6. CallOK'
  BY <1>1, <1>2, EndCall DEF Ends
<1>7. auth' \in Auth /\ auth'.session = auth.session /\ auth.session = "active"
  BY <1>1 DEF DataOK, Auth, IsStillAuthorized, Live
<1>8. g0 \in Token
  BY <1>2, <1>3 DEF Token, Prepared, Row
<1>9. /\ given' \subseteq given \cup {g0}
      /\ \A d \in Calls : d # c => pc'[d] = pc[d]
      /\ given' = given \/ pc'[c] = "released"
      /\ pc'[c] \in {"released", "unavailable"}
  BY <1>1 DEF Release, End, Goto, CallOK
<1>10. DataOK'
  BY <1>1, <1>4, <1>7, <1>8, <1>9 DEF DataOK
<1>11. ~swept
  BY <1>1, <1>7 DEF AdmissionInv, SweptIsRevoked
<1>12. LockedIsActive' /\ SweptIsRevoked' /\ RevokedStaysOut'
  BY <1>1, <1>7, <1>9, <1>11 DEF AdmissionInv, LockedIsActive, SweptIsRevoked,
                                 RevokedStaysOut, InA
<1>13. RowsPast'
  BY <1>1, <1>2, <1>3, <1>4, <1>5 DEF AdmissionInv, RowsPast
<1>14. FinalizerHasRow'
  <2> SUFFICES ASSUME NEW d \in Calls, pc'[d] = "finalizing" PROVE Mine(d)'
    BY DEF FinalizerHasRow
  <2>1. d # c /\ pc[d] = "finalizing"
    BY <1>9
  <2>2. cmd[d] # k /\ cmd[d] \in Commands
    BY <1>1, <1>2, <2>1 DEF CallOK
  <2> QED
    BY <1>1, <1>4, <2>1, <2>2 DEF AdmissionInv, FinalizerHasRow, Mine
\* An earlier token of the command is older than the row by more than retention.
<1>15. \A g \in given : g.cmd = k => g.at + Retention < r.at
  <2> SUFFICES ASSUME NEW g \in given, g.cmd = k PROVE g.at + Retention < r.at
    OBVIOUS
  <2>1. g.token # c
    BY <1>1 DEF AdmissionInv, Backed
  <2> QED
    BY <1>1, <1>3, <2>1 DEF AdmissionInv, Backed
<1>16. Backed'
  <2> SUFFICES ASSUME NEW g \in given'
               PROVE  /\ pc'[g.token] = "released"
                      /\ audit'[g.cmd] = NoRow => g.at + Retention < now
                      /\ audit'[g.cmd] # NoRow =>
                           \/ /\ audit'[g.cmd].token = g.token
                              /\ audit'[g.cmd].state \in {"issued", "invalidated"}
                              /\ audit'[g.cmd].at = g.at
                           \/ g.at + Retention < audit'[g.cmd].at
    BY DEF Backed
  <2>1. CASE g \in given
    <3>1. g.token \in Calls /\ g.cmd \in Commands
      BY <1>1, <2>1 DEF DataOK, Token
    <3>2. pc[g.token] = "released" /\ g.token # c
      BY <1>1, <2>1 DEF AdmissionInv, Backed
    <3>3. CASE g.cmd = k
      BY <1>5, <1>9, <1>15, <2>1, <3>1, <3>2, <3>3
    <3>4. CASE g.cmd # k
      BY <1>1, <1>4, <1>9, <2>1, <3>1, <3>2, <3>4 DEF AdmissionInv, Backed
    <3> QED
      BY <3>3, <3>4
  <2>2. CASE g \notin given
    <3>1. g = g0 /\ pc'[c] = "released"
      BY <1>9, <2>2
    <3> QED
      BY <1>5, <3>1
  <2> QED
    BY <2>1, <2>2
<1>17. OneTokenPerCommand'
  BY <1>1, <1>9, <1>15 DEF AdmissionInv, OneTokenPerCommand
<1> QED
  BY <1>6, <1>10, <1>12, <1>13, <1>14, <1>16, <1>17 DEF IInv, AdmissionInv

\* Transaction B finds a change: the reservation is closed, unless it was already.
LEMMA RefuseInv ==
    ASSUME IInv, NEW c \in Calls, pc[c] = "finalizing",
           IF audit[cmd[c]].state = "requested"
           THEN SetState(c, "invalidated") ELSE UNCHANGED audit,
           End(c, "changed"),
           UNCHANGED <<auth, given, cmd, prep, seen, swept, changes, now>>
    PROVE  IInv'
<1>1. CallOK /\ DataOK /\ AdmissionInv /\ cmd[c] \in Commands
  BY DEF IInv, CallOK
<1>2. CallOK'
  BY <1>1, EndCall DEF Ends
<1>3. CASE UNCHANGED audit
  BY <1>1, <1>2, <1>3, MoveInv DEF IInv, DataOK, End, Goto, InA
<1>4. CASE SetState(c, "invalidated")
  <2>1. \A k \in Commands : audit'[k] =
           IF k = cmd[c] THEN [audit[k] EXCEPT !.state = "invalidated"] ELSE audit[k]
    BY <1>1, <1>4 DEF SetState, DataOK
  <2>2. Closed(cmd[c])
    BY <1>1, <2>1, InvalidatedIsClosed DEF AdmissionInv, FinalizerHasRow, Mine
  <2>3. \A k \in Commands : Settled(k)
    BY <2>1, <2>2 DEF Settled
  <2>4. \A g \in given : pc'[g.token] = "released"
    BY <1>1, StayReleased DEF End, Goto
  <2>5. /\ \A k \in Commands : audit'[k] \in Row \cup {NoRow}
        /\ RevokedStaysOut' /\ RowsPast' /\ Backed' /\ OneTokenPerCommand'
    BY <1>1, <2>3, <2>4, SettledInv
  <2>6. DataOK'
    BY <1>1, <1>4, <2>5 DEF DataOK, SetState
  <2>7. \A d \in Calls : pc'[d] = IF d = c THEN "changed" ELSE pc[d]
    BY <1>1 DEF CallOK, End, Goto
  <2>8. LockedIsActive' /\ SweptIsRevoked'
    BY <1>1, <2>7 DEF AdmissionInv, LockedIsActive, SweptIsRevoked, InA
  <2>9. FinalizerHasRow'
    <3> SUFFICES ASSUME NEW d \in Calls, pc'[d] = "finalizing" PROVE Mine(d)'
      BY DEF FinalizerHasRow
    <3>1. d # c /\ pc[d] = "finalizing" /\ cmd[d] \in Commands
      BY <1>1, <2>7 DEF CallOK
    <3>2. cmd[d] # cmd[c]
      BY <1>1, <3>1 DEF CallOK
    <3> QED
      BY <1>1, <2>1, <3>1, <3>2 DEF AdmissionInv, FinalizerHasRow, Mine
  <2> QED
    BY <1>2, <2>5, <2>6, <2>8, <2>9 DEF IInv, AdmissionInv
<1> QED
  BY <1>3, <1>4

LEMMA FinalizeInv ==
    ASSUME IInv, NEW c \in Calls, Finalize(c)
    PROVE  IInv'
  BY IssueInv, RefuseInv DEF Finalize
-----------------------------------------------------------------------------
\* Rows that no transaction holds are settled; the calls do not move.
LEMMA SweepInv ==
    ASSUME IInv, UNCHANGED <<auth, call, locks, given, swept, changes, now>>,
           audit' = [k \in Commands |-> audit'[k]],
           \A k \in Commands : Settled(k),
           \A k \in Commands : rowLock[k] # Nobody => audit'[k] = audit[k]
    PROVE  IInv'
<1>1. CallOK /\ DataOK /\ AdmissionInv
  BY DEF IInv
<1>2. CallOK'
  BY <1>1 DEF CallOK, call, locks
<1>3. /\ \A k \in Commands : audit'[k] \in Row \cup {NoRow}
      /\ RevokedStaysOut' /\ RowsPast' /\ Backed' /\ OneTokenPerCommand'
  BY <1>1, SettledInv DEF call, AdmissionInv, Backed
<1>4. DataOK'
  BY <1>1, <1>3 DEF DataOK
<1>5. LockedIsActive' /\ SweptIsRevoked'
  BY <1>1 DEF AdmissionInv, LockedIsActive, SweptIsRevoked, call
<1>6. FinalizerHasRow'
  <2> SUFFICES ASSUME NEW d \in Calls, pc[d] = "finalizing" PROVE Mine(d)'
    BY DEF FinalizerHasRow, call
  <2>1. cmd[d] \in Commands /\ rowLock[cmd[d]] # Nobody
    BY <1>1, AdmissionAssumption DEF CallOK
  <2> QED
    BY <1>1, <2>1 DEF AdmissionInv, FinalizerHasRow, Mine, call
<1> QED
  BY <1>2, <1>3, <1>4, <1>5, <1>6 DEF IInv, AdmissionInv

LEMMA MaintainInv ==
    ASSUME IInv, Maintain
    PROVE  IInv'
<1>1. CallOK /\ DataOK /\ AdmissionInv
  BY DEF IInv
<1>2. PICK I \in SUBSET Overdue : \E D \in SUBSET Old(I) : MaintainRows(I, D)
  BY DEF Maintain
<1>3. PICK D \in SUBSET Old(I) : MaintainRows(I, D)
  BY <1>2
<1>4. \A k \in I \cup D : k \in Commands /\ audit[k] # NoRow /\ rowLock[k] = Nobody
  BY DEF Overdue, Old, Unlocked
<1>5. \A k \in D : audit[k].at + Retention < now
  BY DEF Old
<1>6. \A k \in Commands :
         audit'[k] = IF k \in D THEN NoRow
                     ELSE IF k \in I THEN [audit[k] EXCEPT !.state = "invalidated"]
                     ELSE audit[k]
  BY <1>3 DEF MaintainRows
<1>7. \A k \in Commands : Settled(k)
  <2> SUFFICES ASSUME NEW k \in Commands PROVE Settled(k)
    OBVIOUS
  <2>1. CASE k \in D
    BY <1>4, <1>5, <1>6, <2>1 DEF Settled, Deleted
  <2>2. CASE k \notin D /\ k \in I
    BY <1>1, <1>4, <1>6, <2>2, InvalidatedIsClosed DEF Settled
  <2>3. CASE k \notin D /\ k \notin I
    BY <1>6, <2>3 DEF Settled
  <2> QED
    BY <2>1, <2>2, <2>3
<1>8. \A k \in Commands : rowLock[k] # Nobody => audit'[k] = audit[k]
  BY <1>4, <1>6
<1>9. audit' = [k \in Commands |-> audit'[k]]
  BY <1>3 DEF MaintainRows
<1> QED
  BY <1>3, <1>7, <1>8, <1>9, SweepInv DEF MaintainRows

LEMMA InvalidateSessionInv ==
    ASSUME IInv, InvalidateSession
    PROVE  IInv'
<1>1. CallOK /\ DataOK /\ AdmissionInv /\ auth.session = "revoked"
      /\ UNCHANGED <<auth, call, locks, given, changes, now>> /\ swept' = TRUE
  BY DEF IInv, InvalidateSession
<1>2. \A k \in Commands :
         audit'[k] = IF LiveRow(audit[k]) THEN [audit[k] EXCEPT !.state = "invalidated"]
                     ELSE audit[k]
  BY DEF InvalidateSession
<1>3. \A k \in Commands : LiveRow(audit[k]) => Closed(k) /\ rowLock[k] = Nobody
  BY <1>1, <1>2, InvalidatedIsClosed DEF LiveRow, InvalidateSession
<1>4. \A k \in Commands : audit'[k] \in Row \cup {NoRow}
  BY <1>1, <1>2, <1>3 DEF DataOK, Closed
<1>12. ASSUME NEW k \in Commands, LiveRow(audit[k])
       PROVE  audit'[k].state = "invalidated"
  <2>1. audit[k] \in Row
    BY <1>1, <1>12 DEF DataOK, LiveRow
  <2>2. audit'[k] = [audit[k] EXCEPT !.state = "invalidated"]
    BY <1>2, <1>12
  <2> QED
    BY <2>1, <2>2 DEF Row
<1>5. CallOK'
  BY <1>1 DEF CallOK, call, locks
<1>6. DataOK'
  BY <1>1, <1>4 DEF DataOK, InvalidateSession
<1>7. LockedIsActive' /\ SweptIsRevoked' /\ OneTokenPerCommand'
  BY <1>1 DEF AdmissionInv, LockedIsActive, SweptIsRevoked, OneTokenPerCommand, call
<1>8. RevokedStaysOut'
  <2> SUFFICES ASSUME NEW k \in Commands
               PROVE  ~(/\ audit'[k] # NoRow
                        /\ audit'[k].state \in {"requested", "issued"}
                        /\ audit'[k].expires > now)
    BY <1>1 DEF RevokedStaysOut, LiveRow
  <2>1. CASE LiveRow(audit[k])
    BY <1>12, <2>1
  <2>2. CASE ~LiveRow(audit[k])
    BY <1>1, <1>2, <2>2 DEF LiveRow
  <2> QED
    BY <2>1, <2>2
<1>9. RowsPast'
  BY <1>1, <1>2, <1>3 DEF AdmissionInv, RowsPast, Closed
<1>10. FinalizerHasRow'
  <2> SUFFICES ASSUME NEW d \in Calls, pc[d] = "finalizing" PROVE Mine(d)'
    BY <1>1 DEF FinalizerHasRow, call
  <2>1. cmd[d] \in Commands /\ rowLock[cmd[d]] # Nobody
    BY <1>1, AdmissionAssumption DEF CallOK
  <2> QED
    BY <1>1, <1>2, <1>3, <2>1 DEF AdmissionInv, FinalizerHasRow, Mine, call
<1>11. Backed'
  <2> SUFFICES ASSUME NEW g \in given
               PROVE  /\ pc[g.token] = "released"
                      /\ audit'[g.cmd] = NoRow => g.at + Retention < now
                      /\ audit'[g.cmd] # NoRow =>
                           \/ /\ audit'[g.cmd].token = g.token
                              /\ audit'[g.cmd].state \in {"issued", "invalidated"}
                              /\ audit'[g.cmd].at = g.at
                           \/ g.at + Retention < audit'[g.cmd].at
    BY <1>1 DEF Backed, call
  <2>1. g.cmd \in Commands
    BY <1>1 DEF DataOK, Token
  <2>2. CASE LiveRow(audit[g.cmd])
    <3>1. Closed(g.cmd)
      BY <1>3, <2>1, <2>2
    <3>2. audit'[g.cmd].state = "invalidated"
      BY <1>12, <2>1, <2>2
    <3> QED
      BY <1>1, <2>1, <3>1, <3>2 DEF AdmissionInv, Backed, Closed
  <2>3. CASE ~LiveRow(audit[g.cmd])
    BY <1>1, <1>2, <2>1, <2>3 DEF AdmissionInv, Backed
  <2> QED
    BY <2>2, <2>3
<1> QED
  BY <1>5, <1>6, <1>7, <1>8, <1>9, <1>10, <1>11 DEF IInv, AdmissionInv

\* The writers of the locked rows wait for transaction A.
LEMMA ChangeInv ==
    ASSUME IInv, Change
    PROVE  IInv'
<1>1. CallOK /\ DataOK /\ AdmissionInv /\ authLock = Nobody /\ changes < MaxVersion
      /\ changes' = changes + 1 /\ UNCHANGED <<audit, call, locks, given, swept, now>>
  BY DEF IInv, Change
<1>2. auth' \in Auth /\ (auth.session = "revoked" => auth'.session = "revoked")
  <2>1. CASE auth' = [auth EXCEPT !.session = "revoked"]
    BY <1>1, <2>1 DEF DataOK, Auth
  <2>2. CASE auth' = [auth EXCEPT !.meeting = "ended"]
    BY <1>1, <2>2 DEF DataOK, Auth
  <2>3. CASE auth' = [auth EXCEPT !.member = ~auth.member]
    <3>1. PICK b \in BOOLEAN : auth' = [auth EXCEPT !.member = b]
      BY <2>3, Zenon
    <3> QED
      BY <1>1, <3>1 DEF DataOK, Auth
  <2>4. ASSUME NEW p \in ProductRoles, NEW q \in SfuRoles,
               auth' = [auth EXCEPT !.product = p, !.sfu = q, !.version = @ + 1]
        PROVE  auth' \in Auth /\ auth'.session = auth.session
    <3>1. auth \in Auth /\ auth.version + 1 \in Nat \ {0}
      BY <1>1 DEF DataOK, Auth
    <3>2. auth' = [auth EXCEPT !.product = p, !.sfu = q, !.version = auth.version + 1]
      BY <2>4
    <3> QED
      BY <3>1, <3>2 DEF Auth
  <2>5. ASSUME NEW r \in {<<"host", "host">>, <<"participant", "speaker">>},
               auth' = [auth EXCEPT !.product = r[1], !.sfu = r[2], !.version = @ + 1]
        PROVE  auth' \in Auth /\ auth'.session = auth.session
    <3>1. r[1] \in ProductRoles /\ r[2] \in SfuRoles
      BY DEF ProductRoles, SfuRoles
    <3> QED
      BY <2>4, <2>5, <3>1
  <2> QED
    BY <2>1, <2>2, <2>3, <2>5 DEF Change
<1>3. \A c \in Calls : pc[c] \notin InA
  BY <1>1, AdmissionAssumption DEF CallOK
<1>4. CallOK'
  BY <1>1 DEF CallOK, call, locks
<1>5. DataOK'
  BY <1>1, <1>2, AdmissionAssumption DEF DataOK
<1>6. LockedIsActive' /\ SweptIsRevoked'
  BY <1>1, <1>2, <1>3 DEF AdmissionInv, LockedIsActive, SweptIsRevoked, call
<1>7. RevokedStaysOut' /\ RowsPast' /\ OneTokenPerCommand'
  BY <1>1 DEF AdmissionInv, RevokedStaysOut, LiveRow, RowsPast, OneTokenPerCommand
<1>8. FinalizerHasRow' /\ Backed'
  BY <1>1 DEF AdmissionInv, FinalizerHasRow, Mine, Backed, call
<1> QED
  BY <1>4, <1>5, <1>6, <1>7, <1>8 DEF IInv, AdmissionInv

LEMMA TickInv ==
    ASSUME IInv, Tick
    PROVE  IInv'
<1>1. CallOK /\ DataOK /\ AdmissionInv /\ now' = now + 1 /\ now \in Nat
      /\ UNCHANGED <<auth, audit, call, locks, given, swept, changes>>
  BY DEF IInv, Tick, DataOK
<1>2. CallOK' /\ DataOK'
  BY <1>1 DEF CallOK, DataOK, call, locks
<1>3. LockedIsActive' /\ SweptIsRevoked' /\ OneTokenPerCommand' /\ FinalizerHasRow'
  BY <1>1 DEF AdmissionInv, LockedIsActive, SweptIsRevoked, OneTokenPerCommand,
              FinalizerHasRow, Mine, call
<1>4. \A k \in Commands : audit[k] # NoRow => audit[k].at \in Nat /\ audit[k].expires \in Nat
  BY <1>1 DEF DataOK, Row
<1>5. RevokedStaysOut' /\ RowsPast'
  BY <1>1, <1>4 DEF AdmissionInv, RevokedStaysOut, LiveRow, RowsPast
<1>6. \A g \in given : g.at \in Nat
  BY <1>1 DEF DataOK, Token
<1>7. Backed'
  BY <1>1, <1>6, AdmissionAssumption DEF AdmissionInv, Backed, call
<1> QED
  BY <1>2, <1>3, <1>5, <1>7 DEF IInv, AdmissionInv

LEMMA InitInv == Init => IInv
<1> SUFFICES ASSUME Init PROVE IInv
  OBVIOUS
<1>1. auth \in Auth /\ auth.session = "active"
  <2>1. PICK r \in {<<"host", "host">>, IF Mode = "live" THEN <<"viewer", "viewer">>
                                        ELSE <<"participant", "speaker">>} :
               auth = [product |-> r[1], sfu |-> r[2], version |-> 1, member |-> TRUE,
                       session |-> "active", meeting |-> "open"]
    BY DEF Init
  <2>2. r[1] \in ProductRoles /\ r[2] \in SfuRoles
    BY DEF ProductRoles, SfuRoles
  <2> QED
    BY <2>1, <2>2 DEF Auth
<1>2. CallOK
  BY AdmissionAssumption DEF Init, CallOK, Active, InA
<1>3. DataOK
  <2>1. audit \in [Commands -> Row \cup {NoRow}] /\ given \subseteq Token
    BY DEF Init
  <2>2. changes = 0 /\ now = 0 /\ swept = FALSE
    BY DEF Init
  <2>3. changes \in 0..MaxVersion /\ now \in Nat
    BY <2>2, AdmissionAssumption
  <2> QED
    BY <1>1, <2>1, <2>2, <2>3 DEF DataOK
<1>4. AdmissionInv
  BY <1>1 DEF Init, AdmissionInv, LockedIsActive, SweptIsRevoked, RevokedStaysOut,
              FinalizerHasRow, RowsPast, Backed, OneTokenPerCommand, InA
<1> QED
  BY <1>2, <1>3, <1>4 DEF IInv
-----------------------------------------------------------------------------
(***************************************************************************)
(* Every step of the two transactions, of the janitor, of a revocation and *)
(* of a policy change keeps the inductive invariant.                       *)
(***************************************************************************)
THEOREM Invariance == Spec => []IInv
<1>1. IInv /\ [Next]_vars => IInv'
  <2> SUFFICES ASSUME IInv, [Next]_vars PROVE IInv'
    OBVIOUS
  <2>1. ASSUME NEW c \in Calls, Begin(c) \/ FinalizeBegin(c) PROVE IInv'
    BY <2>1, BeginInv
  <2>2. ASSUME NEW c \in Calls, LoadAuthorization(c) PROVE IInv'
    BY <2>2, LoadAuthorizationInv
  <2>3. ASSUME NEW c \in Calls, Reserve(c) PROVE IInv'
    BY <2>3, ReserveInv
  <2>4. ASSUME NEW c \in Calls, ThrowReplay(c) \/ Abort(c) PROVE IInv'
    BY <2>4, PlainEndInv
  <2>5. ASSUME NEW c \in Calls, Sign(c) PROVE IInv'
    BY <2>5, SignInv
  <2>6. ASSUME NEW c \in Calls, MarkSigningFailed(c) PROVE IInv'
    BY <2>6, MarkSigningFailedInv
  <2>7. ASSUME NEW c \in Calls, FinalizeLockRow(c) PROVE IInv'
    BY <2>7, FinalizeLockRowInv
  <2>8. ASSUME NEW c \in Calls, Finalize(c) PROVE IInv'
    BY <2>8, FinalizeInv
  <2>9. CASE InvalidateSession
    BY <2>9, InvalidateSessionInv
  <2>10. CASE Maintain
    BY <2>10, MaintainInv
  <2>11. CASE Change
    BY <2>11, ChangeInv
  <2>12. CASE Tick
    BY <2>12, TickInv
  <2>13. CASE UNCHANGED vars
    BY <2>13 DEF vars, call, locks, IInv, CallOK, DataOK, AdmissionInv, LockedIsActive,
                 SweptIsRevoked, RevokedStaysOut, LiveRow, FinalizerHasRow, Mine, RowsPast,
                 Backed, OneTokenPerCommand
  <2> QED
    BY <2>1, <2>2, <2>3, <2>4, <2>5, <2>6, <2>7, <2>8, <2>9, <2>10, <2>11, <2>12, <2>13
       DEF Next, CallStep
<1> QED
  BY <1>1, InitInv, PTL DEF Spec

\* Types, and no lock is held while the key service signs.
THEOREM TypeCorrect == Spec => []TypeOK
<1>1. IInv => TypeOK
  BY TypeParts DEF IInv
<1> QED
  BY <1>1, Invariance, PTL

\* After the sweep of a revoked session no grant of it is live again.
THEOREM RevocationHolds == Spec => []RevokedStaysOut
<1>1. IInv => RevokedStaysOut
  BY DEF IInv, AdmissionInv
<1> QED
  BY <1>1, Invariance, PTL

\* A command releases one token per retention period, whoever repeats it.
THEOREM CommandsIdempotent == Spec => []OneTokenPerCommand
<1>1. IInv => OneTokenPerCommand
  BY DEF IInv, AdmissionInv
<1> QED
  BY <1>1, Invariance, PTL

\* Every token a client holds is on record until retention.
THEOREM ReleasesAudited == Spec => []TokenAudited
<1>1. IInv => TokenAudited
  <2> SUFFICES ASSUME IInv, NEW g \in given, ~(g.at + Retention < now)
               PROVE  /\ audit[g.cmd] # NoRow
                      /\ audit[g.cmd].token = g.token
                      /\ audit[g.cmd].state \in {"issued", "invalidated"}
    BY DEF TokenAudited
  <2>1. g.cmd \in Commands /\ g.at \in Nat /\ now \in Nat
    BY DEF IInv, DataOK, Token
  <2>2. audit[g.cmd] # NoRow
    BY DEF IInv, AdmissionInv, Backed
  <2>3. audit[g.cmd].at \in Nat /\ audit[g.cmd].at <= now
    BY <2>1, <2>2 DEF IInv, DataOK, Row, AdmissionInv, RowsPast
  <2>4. ~(g.at + Retention < audit[g.cmd].at)
    BY <2>1, <2>3, AdmissionAssumption
  <2> QED
    BY <2>2, <2>4 DEF IInv, AdmissionInv, Backed
<1> QED
  BY <1>1, Invariance, PTL

(***************************************************************************)
(* A committed change of session, meeting or role is seen by the release:  *)
(* the comparison of transaction B happens under the locks.                *)
(***************************************************************************)
THEOREM ConcurrentChangeWins == Spec => ChangeWins
<1> DEFINE Good == \A g \in given' \ given :
                     /\ auth.session = "active" /\ auth.meeting # "ended"
                     /\ g.sfu = auth.sfu /\ g.version = auth.version
                     /\ g.grant \cap {"room:moderate"} # {} => auth.product = "host"
<1>1. [Next]_vars => [Good]_vars
  <2> SUFFICES ASSUME Next PROVE Good
    BY DEF vars
  <2>1. CASE given' = given
    BY <2>1
  <2>2. ASSUME NEW c \in Calls, Finalize(c), given' # given PROVE Good
    <3>1. IsStillAuthorized(c) /\ Release(c)
      BY <2>2 DEF Finalize
    <3>2. "room:moderate" \in prep[c].grant => auth.product = "host"
      <4>1. prep[c].grant = DeriveSfuPermissions(Input(c))
        BY <3>1 DEF IsStillAuthorized
      <4>2. "room:moderate" \in DeriveSfuPermissions(Input(c)) => Input(c).product = "host"
        BY DEF DeriveSfuPermissions
      <4> QED
        BY <4>1, <4>2 DEF Input
    <3> QED
      BY <3>1, <3>2 DEF IsStillAuthorized, Live, Release
  <2> QED
    BY <2>1, <2>2 DEF Next, CallStep, Begin, LoadAuthorization, Reserve, ThrowReplay, Sign,
       MarkSigningFailed, FinalizeBegin, FinalizeLockRow, Abort, InvalidateSession, Maintain,
       MaintainRows, Change, Tick
<1> QED
  BY <1>1, PTL DEF Spec, ChangeWins
-----------------------------------------------------------------------------
\* The states an audit row may go through, in this order and no other.
Outcomes == {<<"requested", "issued">>, <<"requested", "sign_failed">>,
             <<"requested", "invalidated">>, <<"issued", "invalidated">>}

\* Only the state of the row changes, and only towards its end.
Forward(k) ==
    /\ audit[k] # NoRow /\ audit'[k] = [audit[k] EXCEPT !.state = audit'[k].state]
    /\ <<audit[k].state, audit'[k].state>> \in Outcomes

\* The row appears: requested by a call that holds session, participant and meeting.
Reserved(k) ==
    /\ audit[k] = NoRow
    /\ \E c \in Calls : /\ authLock = c /\ cmd[c] = k
                        /\ audit'[k] = NewRow(c) /\ audit'[k].expires > now

\* What a step may do to the audit row of a command.
RowStep(k) == audit'[k] = audit[k] \/ Reserved(k) \/ Forward(k) \/ Deleted(k)

\* A row that a finalize has locked is changed by that finalize alone.
HolderOnly(k) ==
    \A c \in Calls : rowLock[k] = c /\ audit'[k] # audit[k] => Finalize(c)

\* Outside these actions no audit row changes.
LEMMA RowsUntouched ==
    ASSUME [Next]_vars,
           ~InvalidateSession, ~Maintain,
           \A c \in Calls : ~Reserve(c) /\ ~MarkSigningFailed(c) /\ ~Finalize(c)
    PROVE  audit' = audit
<1>1. CASE UNCHANGED vars
  BY <1>1 DEF vars
<1>2. CASE Next
  BY <1>2 DEF Next, CallStep, Begin, LoadAuthorization, ThrowReplay, Sign, FinalizeBegin,
     FinalizeLockRow, Abort, Change, Tick
<1> QED
  BY <1>1, <1>2

\* A row whose state alone is set goes forward.
LEMMA StateForward ==
    ASSUME DataOK, NEW k \in Commands, audit[k] # NoRow,
           NEW s, audit'[k] = [audit[k] EXCEPT !.state = s],
           <<audit[k].state, s>> \in Outcomes
    PROVE  Forward(k)
<1>1. audit[k] \in Row
  BY DEF DataOK
<1>2. audit'[k].state = s
  BY <1>1 DEF Row
<1> QED
  BY <1>2 DEF Forward

LEMMA ReserveRow ==
    ASSUME IInv, NEW c \in Calls, Reserve(c), NEW k \in Commands
    PROVE  RowStep(k) /\ HolderOnly(k)
<1>1. audit \in [Commands -> Row \cup {NoRow}] /\ cmd[c] \in Commands /\ authLock = c
  BY DEF IInv, DataOK, CallOK, Reserve, InA
<1>2. CASE audit[cmd[c]] # NoRow \/ k # cmd[c]
  <2>1. audit'[k] = audit[k]
    BY <1>1, <1>2 DEF Reserve, InsertRow
  <2> QED
    BY <2>1 DEF RowStep, HolderOnly
<1>3. CASE audit[cmd[c]] = NoRow /\ k = cmd[c]
  <2>1. audit'[k] = NewRow(c) /\ prep[c].expires > now
    BY <1>1, <1>3 DEF Reserve, InsertRow
  <2>2. Reserved(k)
    BY <1>1, <1>3, <2>1 DEF Reserved, NewRow
  <2>3. \A d \in Calls : rowLock[k] # d
    BY <1>3 DEF IInv, CallOK, AdmissionInv, FinalizerHasRow, Mine
  <2> QED
    BY <2>2, <2>3 DEF RowStep, HolderOnly
<1> QED
  BY <1>2, <1>3

LEMMA MarkSigningFailedRow ==
    ASSUME IInv, NEW c \in Calls, MarkSigningFailed(c), NEW k \in Commands
    PROVE  RowStep(k) /\ HolderOnly(k)
<1>1. DataOK /\ audit \in [Commands -> Row \cup {NoRow}] /\ cmd[c] \in Commands
  BY DEF IInv, DataOK, CallOK
<1>2. CASE audit'[k] = audit[k]
  BY <1>2 DEF RowStep, HolderOnly
<1>3. CASE audit'[k] # audit[k]
  <2>1. Mine(c) /\ audit[cmd[c]].state = "requested" /\ SetState(c, "sign_failed")
        /\ rowLock[cmd[c]] = Nobody
    BY <1>3 DEF MarkSigningFailed
  <2>2. k = cmd[c] /\ audit'[k] = [audit[k] EXCEPT !.state = "sign_failed"]
    BY <1>1, <1>3, <2>1 DEF SetState
  <2>3. Forward(k)
    BY <1>1, <2>1, <2>2, StateForward DEF Mine, Outcomes
  <2> QED
    BY <2>1, <2>2, <2>3, AdmissionAssumption DEF RowStep, HolderOnly
<1> QED
  BY <1>2, <1>3

LEMMA FinalizeRow ==
    ASSUME IInv, NEW c \in Calls, Finalize(c), NEW k \in Commands
    PROVE  RowStep(k) /\ HolderOnly(k)
<1>1. DataOK /\ audit \in [Commands -> Row \cup {NoRow}] /\ cmd[c] \in Commands
      /\ audit[cmd[c]] # NoRow /\ rowLock[cmd[c]] = c
  BY DEF IInv, DataOK, CallOK, AdmissionInv, FinalizerHasRow, Mine, Finalize
<1>2. CASE audit'[k] = audit[k]
  BY <1>2 DEF RowStep, HolderOnly
<1>3. CASE audit'[k] # audit[k]
  <2>1. PICK s \in {"issued", "invalidated"} :
           SetState(c, s) /\ audit[cmd[c]].state = "requested"
    BY <1>3 DEF Finalize, IsStillAuthorized
  <2>2. k = cmd[c] /\ audit'[k] = [audit[k] EXCEPT !.state = s]
    BY <1>1, <1>3, <2>1 DEF SetState
  <2>3. Forward(k)
    BY <1>1, <2>1, <2>2, StateForward DEF Outcomes
  <2> QED
    BY <1>1, <2>2, <2>3 DEF RowStep, HolderOnly
<1> QED
  BY <1>2, <1>3

LEMMA InvalidateSessionRow ==
    ASSUME IInv, InvalidateSession, NEW k \in Commands
    PROVE  RowStep(k) /\ HolderOnly(k)
<1>1. CASE ~LiveRow(audit[k])
  BY <1>1 DEF InvalidateSession, RowStep, HolderOnly
<1>2. CASE LiveRow(audit[k])
  <2>1. audit'[k] = [audit[k] EXCEPT !.state = "invalidated"] /\ rowLock[k] = Nobody
    BY <1>2 DEF InvalidateSession
  <2>2. Forward(k)
    BY <1>2, <2>1, StateForward DEF IInv, LiveRow, Outcomes
  <2> QED
    BY <2>1, <2>2, AdmissionAssumption DEF RowStep, HolderOnly
<1> QED
  BY <1>1, <1>2

LEMMA MaintainRow ==
    ASSUME IInv, Maintain, NEW k \in Commands
    PROVE  RowStep(k) /\ HolderOnly(k)
<1>1. PICK I \in SUBSET Overdue : \E D \in SUBSET Old(I) : MaintainRows(I, D)
  BY DEF Maintain
<1>2. PICK D \in SUBSET Old(I) : MaintainRows(I, D)
  BY <1>1
<1>3. audit'[k] = IF k \in D THEN NoRow
                  ELSE IF k \in I THEN [audit[k] EXCEPT !.state = "invalidated"]
                  ELSE audit[k]
  BY <1>2 DEF MaintainRows
<1>4. k \in I \cup D => audit[k] # NoRow /\ rowLock[k] = Nobody
  BY DEF Overdue, Old, Unlocked
<1>5. HolderOnly(k)
  BY <1>3, <1>4, AdmissionAssumption DEF HolderOnly
<1>6. CASE k \in D
  BY <1>3, <1>4, <1>5, <1>6 DEF RowStep, Deleted, Old
<1>7. CASE k \notin D /\ k \in I
  <2>1. audit[k].state = "requested"
    BY <1>7 DEF Overdue
  <2> QED
    BY <1>3, <1>4, <1>5, <1>7, <2>1, StateForward DEF IInv, RowStep, Outcomes
<1>8. CASE k \notin D /\ k \notin I
  BY <1>3, <1>5, <1>8 DEF RowStep
<1> QED
  BY <1>6, <1>7, <1>8

LEMMA NextRow ==
    ASSUME IInv, [Next]_vars, NEW k \in Commands
    PROVE  RowStep(k) /\ HolderOnly(k)
<1>1. CASE audit' = audit
  BY <1>1 DEF RowStep, HolderOnly
<1>2. CASE audit' # audit
  BY <1>2, RowsUntouched, ReserveRow, MarkSigningFailedRow, FinalizeRow, InvalidateSessionRow,
     MaintainRow
<1> QED
  BY <1>1, <1>2

(***************************************************************************)
(* SFU-009: the audit trail is only written forwards.  A row appears as    *)
(* requested under the locks of prepare, its state goes to issued,         *)
(* sign_failed or invalidated, or from issued to invalidated, nothing else *)
(* in it is ever rewritten, and it goes away only past retention.          *)
(***************************************************************************)
THEOREM AuditGoesForward == Spec => [][\A k \in Commands : RowStep(k)]_vars
<1>1. IInv /\ [Next]_vars => [\A k \in Commands : RowStep(k)]_vars
  BY NextRow
<1> QED
  BY <1>1, Invariance, PTL DEF Spec

(***************************************************************************)
(* Between FOR UPDATE and COMMIT of finalize nobody else, neither the      *)
(* sweep of a revocation nor the janitor nor a failed signature, changes   *)
(* the row it compares: what it decides is about the row it settles.       *)
(***************************************************************************)
THEOREM LockedRowIsKept == Spec => [][\A k \in Commands : HolderOnly(k)]_vars
<1>1. IInv /\ [Next]_vars => [\A k \in Commands : HolderOnly(k)]_vars
  BY NextRow
<1> QED
  BY <1>1, Invariance, PTL DEF Spec

(***************************************************************************)
(* A token reaches its client in the very step that turns its row from     *)
(* requested to issued, and is never taken back from the record.           *)
(***************************************************************************)
THEOREM ReleasesIssue ==
    Spec => [][/\ given \subseteq given'
               /\ \A g \in given' \ given :
                     /\ audit[g.cmd] # NoRow /\ audit[g.cmd].token = g.token
                     /\ audit[g.cmd].state = "requested"
                     /\ audit'[g.cmd] = [audit[g.cmd] EXCEPT !.state = "issued"]]_vars
<1> DEFINE Good == /\ given \subseteq given'
                   /\ \A g \in given' \ given :
                         /\ audit[g.cmd] # NoRow /\ audit[g.cmd].token = g.token
                         /\ audit[g.cmd].state = "requested"
                         /\ audit'[g.cmd] = [audit[g.cmd] EXCEPT !.state = "issued"]
<1>1. IInv /\ [Next]_vars => [Good]_vars
  <2> SUFFICES ASSUME IInv, Next PROVE Good
    BY DEF vars
  <2>1. CASE given' = given
    BY <2>1
  <2>2. ASSUME NEW c \in Calls, Finalize(c), given' # given PROVE Good
    <3>1. IsStillAuthorized(c) /\ Release(c) /\ SetState(c, "issued")
      BY <2>2 DEF Finalize
    <3>2. Mine(c) /\ cmd[c] \in Commands /\ audit \in [Commands -> Row \cup {NoRow}]
      BY <2>2 DEF IInv, DataOK, CallOK, AdmissionInv, FinalizerHasRow, Finalize
    <3>3. audit'[cmd[c]] = [audit[cmd[c]] EXCEPT !.state = "issued"]
      BY <3>1, <3>2 DEF SetState
    <3>4. \A g \in given' \ given : g.cmd = cmd[c] /\ g.token = c
      BY <3>1 DEF Release
    <3> QED
      BY <3>1, <3>2, <3>3, <3>4 DEF IsStillAuthorized, Release, Mine
  <2> QED
    BY <2>1, <2>2 DEF Next, CallStep, Begin, LoadAuthorization, Reserve, ThrowReplay, Sign,
       MarkSigningFailed, FinalizeBegin, FinalizeLockRow, Abort, InvalidateSession, Maintain,
       MaintainRows, Change, Tick
<1> QED
  BY <1>1, Invariance, PTL DEF Spec
=============================================================================
