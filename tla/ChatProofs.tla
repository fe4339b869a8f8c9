------------------------------ MODULE ChatProofs ------------------------------
(***************************************************************************)
(* Proofs about the chat: ChatStream, for any number of sessions, senders, *)
(* readers, commands and any slow mode and retention, and ChatDelivery,    *)
(* for any number of sockets, any reorder buffer and page limit.  The head *)
(* that T3 advances is the one the delivery polls and reads.               *)
(***************************************************************************)
EXTENDS ChatStream, ChatDelivery, FiniteSetTheorems, SequenceTheorems, TLAPS

\* The part of TypeOK that is about the sessions.
SessionOK ==
    /\ lock \in Txns \cup {Nobody}
    /\ \A t \in Txns : lock = t <=> pc[t] \in Holding
    /\ pc \in [Txns -> Active \cup Results]
    /\ cmd \in [Txns -> Command \cup {NoCommand}]
    /\ \A t \in Txns : pc[t] \in Active => cmd[t] \in Command
    /\ at \in [Txns -> Nat]

\* A transaction that passed the second lookup stores a command that is new.
LookedUp ==
    \A t \in Txns : pc[t] \in {"fresh", "allowed", "inserted"} => Existing(cmd[t]) = {}

\* A stored message is the last event of its command.
Latest ==
    \A m \in messages, e \in outbox :
       e.from = m.from /\ e.id = m.id => e.pos <= m.pos

\* An event whose message is gone is older than the retention.
Retained ==
    \A e \in outbox :
       \/ e.at + Retention <= now
       \/ \E m \in messages : m.from = e.from /\ m.id = e.id /\ m.pos = e.pos /\ m.at = e.at

\* Nothing was created in the future.
Past ==
    /\ \A e \in outbox : e.at <= now
    /\ \A t \in Txns : pc[t] = "inserted" => at[t] <= now

\* The verdict of enforceSlowMode stays true until the commit.
Spaced ==
    /\ \A t \in Txns : pc[t] = "allowed" =>
         \A e \in outbox : e.from = cmd[t].from => e.at + SlowMode <= now
    /\ \A t \in Txns : pc[t] = "inserted" =>
         \A e \in outbox : e.from = cmd[t].from => e.at + SlowMode <= at[t]

(***************************************************************************)
(* The inductive invariant: the safety properties, and what the holder of  *)
(* the head row knows about the committed rows.                            *)
(***************************************************************************)
StreamInv ==
    /\ NoGap
    /\ ConstraintNeverFires
    /\ AckedIsDurable
    /\ SlowModeRespected
    /\ LookedUp
    /\ Latest
    /\ Retained
    /\ Past
    /\ Spaced

IInv == TypeOK /\ StreamInv

\* A statement of accept leaves the sessions well formed.
LEMMA GotoSession ==
    ASSUME SessionOK, NEW t \in Txns, NEW s \in Active, pc[t] \in Active,
           s \in Holding <=> pc[t] \in Holding, Goto(t, s)
    PROVE  SessionOK'
  BY DEF SessionOK, Goto

\* The end of a transaction releases the head row and no other.
LEMMA EndSession ==
    ASSUME SessionOK, NEW t \in Txns, NEW s \in Results, End(t, s)
    PROVE  SessionOK'
<1>1. s \notin Active /\ s \notin Holding
  BY DEF Results, Active, Holding
<1> QED
  BY <1>1, ChatAssumption DEF SessionOK, End

\* Only one transaction is past lockStreamHead.
LEMMA OneHolder ==
    ASSUME SessionOK, NEW t \in Txns, NEW u \in Txns,
           pc[t] \in Holding, pc[u] \in Holding
    PROVE  t = u
  BY DEF SessionOK

(***************************************************************************)
(* A step that stores nothing keeps StreamInv if the transaction it moves  *)
(* knows what its new place asks for.                                      *)
(***************************************************************************)
LEMMA QuietStep ==
    ASSUME StreamInv, UNCHANGED stored, now' = now, acks' = acks,
           NEW t \in Txns, NEW s, pc \in [Txns -> Active \cup Results],
           pc' = [pc EXCEPT ![t] = s], s # "constraint",
           cmd' = cmd, at' = at,
           s \in {"fresh", "allowed", "inserted"} => Existing(cmd[t]) = {},
           s = "allowed" => \A e \in outbox : e.from = cmd[t].from => e.at + SlowMode <= now,
           s # "inserted"
    PROVE  StreamInv'
<1>1. /\ head' = head /\ messages' = messages /\ outbox' = outbox
      /\ \A u \in Txns : u # t => pc'[u] = pc[u]
      /\ pc'[t] = s
  BY DEF stored
<1>2. NoGap' /\ AckedIsDurable' /\ SlowModeRespected' /\ Latest' /\ Retained'
  BY <1>1 DEF StreamInv, NoGap, AckedIsDurable, SlowModeRespected, Latest, Retained
<1>3. ConstraintNeverFires'
  BY <1>1 DEF StreamInv, ConstraintNeverFires
<1>4. LookedUp'
  BY <1>1 DEF StreamInv, LookedUp, Existing
<1>5. Spaced' /\ Past'
  BY <1>1 DEF StreamInv, Spaced, Past
<1> QED
  BY <1>2, <1>3, <1>4, <1>5 DEF StreamInv
-----------------------------------------------------------------------------
\* TypeOK holds of the session part.
LEMMA TypeSession ==
    ASSUME TypeOK
    PROVE  SessionOK
  BY DEF TypeOK, SessionOK

\* TypeOK again after a step of accept that stores nothing.
LEMMA QuietType ==
    ASSUME TypeOK, SessionOK', UNCHANGED <<stored, history, epoch, bounds>>, acks' \subseteq Ack
    PROVE  TypeOK'
  BY DEF TypeOK, SessionOK, stored, history, bounds

\* requireMembership, lockStreamHead and the roll back move one transaction.
LEMMA RequireMembershipInv ==
    ASSUME IInv, NEW t \in Txns, RequireMembership(t)
    PROVE  IInv'
<1>1. SessionOK /\ TypeOK /\ StreamInv
  BY TypeSession DEF IInv
<1>2. UNCHANGED <<stored, history, epoch, bounds>> /\ acks' = acks /\ pc[t] = "access"
  BY DEF RequireMembership
<1>3. CASE Goto(t, "admitted")
  <2>1. SessionOK'
    BY <1>1, <1>2, <1>3, GotoSession DEF Active, Holding
  <2>2. StreamInv'
    BY <1>1, <1>2, <1>3, QuietStep DEF Goto, SessionOK, bounds
  <2> QED
    BY <1>1, <1>2, <2>1, <2>2, QuietType DEF IInv, TypeOK
<1>4. CASE End(t, "stale")
  <2>1. SessionOK'
    BY <1>1, <1>4, EndSession DEF Results
  <2>2. StreamInv'
    BY <1>1, <1>2, <1>4, QuietStep DEF End, SessionOK, bounds
  <2> QED
    BY <1>1, <1>2, <2>1, <2>2, QuietType DEF IInv, TypeOK
<1> QED
  BY <1>3, <1>4 DEF RequireMembership

\* A new acknowledgement of a stored message is durable.
LEMMA ReplayInv ==
    ASSUME IInv, NEW t \in Txns, ReplayExisting(t), UNCHANGED <<stored, history, epoch, bounds>>
    PROVE  IInv'
<1>1. SessionOK /\ TypeOK /\ StreamInv
  BY TypeSession DEF IInv
<1>2. PICK m \in Existing(cmd[t]) :
        \/ /\ End(t, "replayed")
           /\ acks' = acks \cup {[from |-> m.from, id |-> m.id, pos |-> m.pos]}
        \/ /\ End(t, "conflict")
           /\ UNCHANGED acks
  BY DEF ReplayExisting
<1>3. m \in messages /\ m \in Message
  BY <1>1 DEF Existing, TypeOK
<1>4. PICK s \in {"replayed", "conflict"} : End(t, s)
  BY <1>2
<1>5. SessionOK'
  BY <1>1, <1>4, EndSession DEF Results
<1>6. acks' \subseteq Ack
  BY <1>1, <1>2, <1>3 DEF TypeOK, Ack, Message
<1>7. TypeOK'
  BY <1>1, <1>5, <1>6, QuietType
<1>8. /\ head' = head /\ messages' = messages /\ outbox' = outbox /\ now' = now
      /\ \A u \in Txns : u # t => pc'[u] = pc[u]
      /\ pc'[t] = s /\ cmd' = cmd /\ at' = at
  BY <1>1, <1>4 DEF stored, bounds, End, SessionOK
<1>9. NoGap' /\ SlowModeRespected' /\ Latest' /\ Retained'
  BY <1>1, <1>8 DEF StreamInv, NoGap, SlowModeRespected, Latest, Retained
<1>10. ConstraintNeverFires' /\ LookedUp' /\ Spaced' /\ Past'
  BY <1>1, <1>8 DEF StreamInv, ConstraintNeverFires, LookedUp, Existing, Spaced, Past
<1>11. AckedIsDurable'
  <2> DEFINE a == [from |-> m.from, id |-> m.id, pos |-> m.pos]
             e0 == [from |-> m.from, id |-> m.id, pos |-> m.pos, at |-> m.at]
  <2>1. e0 \in outbox
    BY <1>1, <1>3 DEF StreamInv, NoGap
  <2>2. \A n \in messages : n.pos = m.pos =>
           \A e \in outbox : e.from = m.from /\ e.id = m.id => e.pos <= m.pos
    BY <1>1, <1>3 DEF StreamInv, Latest
  <2>3. acks' \subseteq acks \cup {a}
    BY <1>2
  <2> QED
    BY <1>1, <1>8, <2>1, <2>2, <2>3 DEF StreamInv, AckedIsDurable
<1> QED
  BY <1>1, <1>7, <1>9, <1>10, <1>11 DEF IInv, StreamInv

\* Both lookups: a replay, or the transaction goes on with a command that is new.
LEMMA FindExistingInv ==
    ASSUME IInv, NEW t \in Txns, FindExisting(t) \/ FindExistingLocked(t)
    PROVE  IInv'
<1>1. SessionOK /\ TypeOK /\ StreamInv
  BY TypeSession DEF IInv
<1>2. UNCHANGED <<stored, history, epoch, bounds>>
  BY DEF FindExisting, FindExistingLocked
<1>3. CASE ReplayExisting(t)
  BY <1>2, <1>3, ReplayInv
<1>4. CASE ~ReplayExisting(t)
  <2>1. PICK s \in {"waiting", "fresh"} :
           /\ Goto(t, s) /\ UNCHANGED acks /\ Existing(cmd[t]) = {}
           /\ pc[t] \in Active /\ (s \in Holding <=> pc[t] \in Holding)
    BY <1>4 DEF FindExisting, FindExistingLocked, Active, Holding
  <2>2. SessionOK'
    BY <1>1, <2>1, GotoSession DEF Active, Holding
  <2>3. StreamInv'
    BY <1>1, <1>2, <2>1, QuietStep DEF Goto, SessionOK, bounds
  <2> QED
    BY <1>1, <1>2, <2>1, <2>2, <2>3, QuietType DEF IInv, TypeOK
<1> QED
  BY <1>3, <1>4

\* The lock is granted to a transaction when nobody has it.
LEMMA LockStreamHeadInv ==
    ASSUME IInv, NEW t \in Txns, LockStreamHead(t)
    PROVE  IInv'
<1>1. SessionOK /\ TypeOK /\ StreamInv
  BY TypeSession DEF IInv
<1>2. UNCHANGED <<stored, history, epoch, bounds>> /\ acks' = acks /\ cmd' = cmd /\ at' = at
  BY DEF LockStreamHead
<1>3. SessionOK'
  BY <1>1, ChatAssumption DEF LockStreamHead, SessionOK, Active, Holding
<1>4. StreamInv'
  BY <1>1, <1>2, QuietStep DEF LockStreamHead, SessionOK, bounds
<1> QED
  BY <1>1, <1>2, <1>3, <1>4, QuietType DEF IInv, TypeOK

\* enforceSlowMode sees the stored messages, Retained speaks for the deleted ones.
LEMMA EnforceSlowModeInv ==
    ASSUME IInv, NEW t \in Txns, EnforceSlowMode(t)
    PROVE  IInv'
<1>1. SessionOK /\ TypeOK /\ StreamInv
  BY TypeSession DEF IInv
<1>2. UNCHANGED <<stored, history, epoch, bounds>> /\ acks' = acks /\ pc[t] = "fresh"
  BY DEF EnforceSlowMode
<1>3. CASE End(t, "slow")
  <2>1. SessionOK'
    BY <1>1, <1>3, EndSession DEF Results
  <2>2. StreamInv'
    BY <1>1, <1>2, <1>3, QuietStep DEF End, SessionOK, bounds
  <2> QED
    BY <1>1, <1>2, <2>1, <2>2, QuietType DEF IInv, TypeOK
<1>4. CASE ~SlowBlocked(cmd[t]) /\ Goto(t, "allowed")
  <2>1. SessionOK'
    BY <1>1, <1>2, <1>4, GotoSession DEF Active, Holding
  <2>2. ASSUME NEW e \in outbox, e.from = cmd[t].from
        PROVE  e.at + SlowMode <= now
    <3>1. e \in Event /\ e.at \in Nat /\ now \in Nat /\ e.at <= now
      BY <1>1 DEF TypeOK, Event, StreamInv, Past
    <3>2. SlowMode \in Nat /\ Retention \in Nat /\ SlowMode <= Retention
      BY ChatAssumption
    <3>3. CASE SlowMode = 0
      BY <3>1, <3>3
    <3>4. CASE e.at + Retention <= now
      BY <3>1, <3>2, <3>4
    <3>5. CASE SlowMode > 0 /\ \E m \in messages : m.from = e.from /\ m.at = e.at
      BY <1>4, <2>2, <3>1, <3>2, <3>5 DEF SlowBlocked
    <3> QED
      BY <1>1, <3>2, <3>3, <3>4, <3>5 DEF StreamInv, Retained
  <2>3. Existing(cmd[t]) = {}
    BY <1>1, <1>2 DEF StreamInv, LookedUp
  <2>4. StreamInv'
    BY <1>1, <1>2, <1>4, <2>2, <2>3, QuietStep DEF Goto, SessionOK, bounds
  <2> QED
    BY <1>1, <1>2, <2>1, <2>4, QuietType DEF IInv, TypeOK
<1> QED
  BY <1>3, <1>4 DEF EnforceSlowMode

\* ROLLBACK leaves what is stored alone.
LEMMA RollbackInv ==
    ASSUME IInv, NEW t \in Txns, Rollback(t)
    PROVE  IInv'
<1>1. SessionOK /\ TypeOK /\ StreamInv
  BY TypeSession DEF IInv
<1>2. UNCHANGED <<stored, history, epoch, bounds>> /\ acks' = acks /\ End(t, "failed")
  BY DEF Rollback
<1>3. SessionOK'
  BY <1>1, <1>2, EndSession DEF Results
<1>4. StreamInv'
  BY <1>1, <1>2, QuietStep DEF End, SessionOK, bounds
<1> QED
  BY <1>1, <1>2, <1>3, <1>4, QuietType DEF IInv, TypeOK

\* Under the lock, after the second lookup, no unique index can refuse the insert.
LEMMA InsertInv ==
    ASSUME IInv, NEW t \in Txns, Insert(t)
    PROVE  IInv'
<1>1. SessionOK /\ TypeOK /\ StreamInv
  BY TypeSession DEF IInv
<1>2. UNCHANGED <<stored, history, epoch, bounds>> /\ acks' = acks /\ pc[t] = "allowed"
  BY DEF Insert
<1>3. ~Duplicate(cmd[t])
  <2>1. Existing(cmd[t]) = {}
    BY <1>1, <1>2 DEF StreamInv, LookedUp
  <2>2. ASSUME NEW m \in messages
        PROVE  m.pos # head + 1
    <3>1. [from |-> m.from, id |-> m.id, pos |-> m.pos, at |-> m.at] \in outbox
      BY <1>1 DEF StreamInv, NoGap
    <3>2. m.pos \in {e.pos : e \in outbox}
      BY <3>1
    <3>3. m.pos \in 1..head /\ head \in Nat
      BY <1>1, <3>2 DEF StreamInv, NoGap, TypeOK
    <3> QED
      BY <3>3
  <2> QED
    BY <2>1, <2>2 DEF Duplicate
<1>4. /\ at' = [at EXCEPT ![t] = now] /\ pc' = [pc EXCEPT ![t] = "inserted"]
      /\ cmd' = cmd /\ lock' = lock
  BY <1>3 DEF Insert
<1>5. SessionOK'
  BY <1>1, <1>2, <1>4 DEF SessionOK, Active, Holding, TypeOK
<1>6. /\ head' = head /\ messages' = messages /\ outbox' = outbox /\ now' = now
      /\ \A u \in Txns : u # t => pc'[u] = pc[u] /\ at'[u] = at[u]
      /\ pc'[t] = "inserted" /\ at'[t] = now /\ now \in Nat
  BY <1>1, <1>2, <1>4 DEF stored, bounds, SessionOK, TypeOK
<1>7. NoGap' /\ AckedIsDurable' /\ SlowModeRespected' /\ Latest' /\ Retained'
  BY <1>1, <1>2, <1>6 DEF StreamInv, NoGap, AckedIsDurable, SlowModeRespected, Latest, Retained
<1>8. ConstraintNeverFires'
  BY <1>1, <1>6 DEF StreamInv, ConstraintNeverFires
<1>9. LookedUp'
  BY <1>1, <1>2, <1>4, <1>6 DEF StreamInv, LookedUp, Existing
<1>10. Past'
  BY <1>1, <1>6 DEF StreamInv, Past
<1>11. Spaced'
  BY <1>1, <1>2, <1>4, <1>6 DEF StreamInv, Spaced
<1> QED
  BY <1>1, <1>2, <1>5, <1>7, <1>8, <1>9, <1>10, <1>11, QuietType DEF IInv, StreamInv, TypeOK

(***************************************************************************)
(* COMMIT: the lock makes this transaction the only one that stores, so    *)
(* position head + 1 is new, its command is new and its sender was quiet   *)
(* for long enough.                                                        *)
(***************************************************************************)
LEMMA CommitInv ==
    ASSUME IInv, NEW t \in Txns, Commit(t)
    PROVE  IInv'
<1> DEFINE c == cmd[t]
           row == [from |-> c.from, id |-> c.id, body |-> c.body,
                   epoch |-> c.epoch, pos |-> head + 1, at |-> at[t]]
           ev == [from |-> c.from, id |-> c.id, pos |-> head + 1, at |-> at[t]]
           ak == [from |-> c.from, id |-> c.id, pos |-> head + 1]
<1>1. SessionOK /\ TypeOK /\ StreamInv
  BY TypeSession DEF IInv
<1>2. /\ pc[t] = "inserted"
      /\ head' = head + 1
      /\ messages' = messages \cup {row}
      /\ outbox' = outbox \cup {ev}
      /\ acks' \subseteq acks \cup {ak}
      /\ UNCHANGED <<history, epoch, bounds>>
  BY DEF Commit, Publish
<1>3. PICK s \in {"accepted", "failed"} : End(t, s)
  BY DEF Commit
<1>4. SessionOK'
  BY <1>1, <1>3, EndSession DEF Results
<1>5. c \in Command /\ head \in Nat /\ at[t] \in Nat /\ now \in Nat
  BY <1>1, <1>2 DEF SessionOK, TypeOK, Active, Holding
<1>6. row \in Message /\ ev \in Event /\ ak \in Ack
  BY <1>5 DEF Command, Message, Event, Ack
<1>7. TypeOK'
  BY <1>1, <1>2, <1>4, <1>5, <1>6 DEF TypeOK, SessionOK, history, bounds
<1>8. Existing(c) = {}
  BY <1>1, <1>2 DEF StreamInv, LookedUp
<1>9. \A u \in Txns : u # t => pc'[u] = pc[u] /\ pc'[u] \notin Holding
  BY <1>1, <1>2, <1>3, OneHolder DEF End, Holding, SessionOK
<1>10. pc'[t] = s /\ now' = now
  BY <1>1, <1>2, <1>3 DEF End, SessionOK, bounds
<1>11. \A e \in outbox : e \in Event /\ e.pos \in Nat /\ e.at \in Nat /\ 1 <= e.pos /\ e.pos <= head
  <2> TAKE e \in outbox
  <2>1. e.pos \in {f.pos : f \in outbox}
    OBVIOUS
  <2>2. e.pos \in 1..head
    BY <1>1, <2>1 DEF StreamInv, NoGap
  <2> QED
    BY <1>1, <1>5, <2>2 DEF TypeOK, Event
<1>12. \A m \in messages : /\ m \in Message /\ m.pos \in Nat /\ m.pos <= head
                           /\ [from |-> m.from, id |-> m.id, pos |-> m.pos, at |-> m.at] \in outbox
  BY <1>1, <1>11 DEF StreamInv, NoGap, TypeOK, Message
<1>13. NoGap'
  <2>1. {e.pos : e \in outbox'} = {e.pos : e \in outbox} \cup {head + 1}
    <3>1. ev.pos = head + 1 /\ outbox' = outbox \cup {ev}
      BY <1>2
    <3> HIDE DEF ev
    <3> QED
      BY <3>1
  <2>2. {e.pos : e \in outbox} = 1..head
    BY <1>1 DEF StreamInv, NoGap
  <2>3. 1..(head + 1) = (1..head) \cup {head + 1}
    BY <1>5
  <2>4. {e.pos : e \in outbox'} = 1..head'
    BY <1>2, <2>1, <2>2, <2>3
  <2>5. \A e, f \in outbox' : e.pos = f.pos => e = f
    <3>1. \A e, f \in outbox : e.pos = f.pos => e = f
      BY <1>1 DEF StreamInv, NoGap
    <3>2. ev.pos = head + 1 /\ \A e \in outbox : e.pos # head + 1
      BY <1>5, <1>11
    <3> HIDE DEF ev
    <3> QED
      BY <1>2, <3>1, <3>2
  <2>6. \A m \in messages' :
           [from |-> m.from, id |-> m.id, pos |-> m.pos, at |-> m.at] \in outbox'
    <3> TAKE m \in messages'
    <3>1. CASE m \in messages
      BY <1>2, <1>12, <3>1
    <3>2. CASE m = row
      <4>1. row.from = ev.from /\ row.id = ev.id /\ row.pos = ev.pos /\ row.at = ev.at
        OBVIOUS
      <4>2. ev = [from |-> ev.from, id |-> ev.id, pos |-> ev.pos, at |-> ev.at]
        OBVIOUS
      <4> HIDE DEF ev, row
      <4> QED
        BY <1>2, <3>2, <4>1, <4>2
    <3> QED
      BY <1>2, <3>1, <3>2
  <2> QED
    BY <2>4, <2>5, <2>6 DEF NoGap
<1>14. ConstraintNeverFires' /\ LookedUp' /\ Spaced'
  BY <1>1, <1>9, <1>10 DEF StreamInv, ConstraintNeverFires, LookedUp, Spaced, Holding
<1>15. Past'
  BY <1>1, <1>2, <1>5, <1>9, <1>10, <1>11 DEF StreamInv, Past, Holding
<1>16. Latest'
  <2>1. ASSUME NEW m \in messages', NEW e \in outbox', e.from = m.from, e.id = m.id
        PROVE  e.pos <= m.pos
    <3>1. CASE m = row
      BY <1>2, <1>5, <1>11, <3>1
    <3>2. CASE m \in messages /\ e = ev
      BY <1>8, <2>1, <3>2 DEF Existing
    <3>3. CASE m \in messages /\ e \in outbox
      BY <1>1, <2>1, <3>3 DEF StreamInv, Latest
    <3> QED
      BY <1>2, <3>1, <3>2, <3>3
  <2> QED
    BY <2>1 DEF Latest
<1>17. Retained'
  <2>1. ASSUME NEW e \in outbox'
        PROVE  \/ e.at + Retention <= now
               \/ \E m \in messages' :
                     m.from = e.from /\ m.id = e.id /\ m.pos = e.pos /\ m.at = e.at
    <3>1. CASE e = ev
      <4>1. row \in messages' /\ row.from = ev.from /\ row.id = ev.id
            /\ row.pos = ev.pos /\ row.at = ev.at
        BY <1>2
      <4> QED
        BY <3>1, <4>1
    <3>2. CASE e \in outbox
      BY <1>1, <1>2, <3>2 DEF StreamInv, Retained
    <3> QED
      BY <1>2, <3>1, <3>2
  <2> QED
    BY <1>10, <2>1 DEF Retained
<1>18. AckedIsDurable'
  <2>1. ASSUME NEW a \in acks'
        PROVE  \E e \in outbox' : e.from = a.from /\ e.id = a.id /\ e.pos = a.pos
    <3>1. CASE a \in acks
      BY <1>1, <1>2, <3>1 DEF StreamInv, AckedIsDurable
    <3>2. CASE a = ak
      <4>1. ev.from = ak.from /\ ev.id = ak.id /\ ev.pos = ak.pos /\ ev \in outbox'
        BY <1>2
      <4> HIDE DEF ev, ak
      <4> QED
        BY <3>2, <4>1
    <3> QED
      BY <1>2, <3>1, <3>2
  <2>2. ASSUME NEW a \in acks', NEW m \in messages', m.pos = a.pos,
               NEW e \in outbox', e.from = a.from, e.id = a.id
        PROVE  e.pos <= a.pos
    <3>1. PICK f \in outbox' : f.from = a.from /\ f.id = a.id /\ f.pos = a.pos
      BY <2>1
    <3>2. [from |-> m.from, id |-> m.id, pos |-> m.pos, at |-> m.at] \in outbox'
      BY <1>13 DEF NoGap
    <3>3. f = [from |-> m.from, id |-> m.id, pos |-> m.pos, at |-> m.at]
      BY <1>13, <2>2, <3>1, <3>2 DEF NoGap
    <3> QED
      BY <1>16, <2>2, <3>1, <3>3 DEF Latest
  <2> QED
    BY <2>1, <2>2 DEF AckedIsDurable
<1>19. SlowModeRespected'
  <2>1. ASSUME NEW e \in outbox', NEW f \in outbox', e.from = f.from, e.pos < f.pos
        PROVE  e.at + SlowMode <= f.at
    <3>1. CASE e \in outbox /\ f \in outbox
      BY <1>1, <2>1, <3>1 DEF StreamInv, SlowModeRespected
    <3>2. CASE e \in outbox /\ f = ev
      BY <1>1, <1>2, <2>1, <3>2 DEF StreamInv, Spaced
    <3>3. CASE e = ev
      BY <1>2, <1>5, <1>11, <2>1, <3>3
    <3> QED
      BY <1>2, <3>1, <3>2, <3>3
  <2> QED
    BY <2>1 DEF SlowModeRespected
<1> QED
  BY <1>7, <1>13, <1>14, <1>15, <1>16, <1>17, <1>18, <1>19 DEF IInv, StreamInv

\* A command enters accept.
LEMMA SubmitInv ==
    ASSUME IInv, NEW t \in Txns, Submit(t)
    PROVE  IInv'
<1>1. SessionOK /\ TypeOK /\ StreamInv
  BY TypeSession DEF IInv
<1>2. PICK c \in Command : RequireAccess(t, c)
  BY <1>1 DEF Submit, Command, TypeOK
<1>3. /\ head' = head /\ messages' = messages /\ outbox' = outbox /\ now' = now
      /\ acks' = acks /\ at' = at /\ lock' = lock
      /\ \A u \in Txns : u # t => pc'[u] = pc[u] /\ cmd'[u] = cmd[u]
      /\ pc'[t] = "access" /\ pc[t] \in Results
  BY <1>1, <1>2 DEF RequireAccess, stored, SessionOK
<1>4. SessionOK'
  BY <1>1, <1>2, <1>3 DEF RequireAccess, SessionOK, Active, Holding, Results
<1>5. TypeOK'
  BY <1>1, <1>2, <1>3, <1>4, ChatAssumption DEF RequireAccess, TypeOK, SessionOK, history
<1>6. NoGap' /\ AckedIsDurable' /\ SlowModeRespected' /\ Latest' /\ Retained'
  BY <1>1, <1>3 DEF StreamInv, NoGap, AckedIsDurable, SlowModeRespected, Latest, Retained
<1>7. ConstraintNeverFires' /\ LookedUp' /\ Spaced' /\ Past'
  BY <1>1, <1>3 DEF StreamInv, ConstraintNeverFires, LookedUp, Existing, Spaced, Past
<1> QED
  BY <1>5, <1>6, <1>7 DEF IInv, StreamInv

\* The janitor deletes messages that are older than the retention, and nothing else.
LEMMA DeleteExpiredInv ==
    ASSUME IInv, DeleteExpired
    PROVE  IInv'
<1>1. TypeOK /\ StreamInv
  BY DEF IInv
<1>2. PICK S \in SUBSET {m \in messages : Expired(m)} : messages' = messages \ S
  BY DEF DeleteExpired
<1>3. /\ head' = head /\ outbox' = outbox /\ acks' = acks /\ now' = now
      /\ pc' = pc /\ cmd' = cmd /\ at' = at /\ lock' = lock
      /\ messages' \subseteq messages
      /\ UNCHANGED <<history, epoch, bounds>>
  BY <1>2 DEF DeleteExpired, session, bounds
<1>4. TypeOK'
  BY <1>1, <1>3 DEF TypeOK, history, bounds
<1>5. NoGap' /\ AckedIsDurable' /\ SlowModeRespected' /\ Latest'
  BY <1>1, <1>3 DEF StreamInv, NoGap, AckedIsDurable, SlowModeRespected, Latest
<1>6. ConstraintNeverFires' /\ LookedUp' /\ Spaced' /\ Past'
  BY <1>1, <1>3 DEF StreamInv, ConstraintNeverFires, LookedUp, Existing, Spaced, Past
<1>7. Retained'
  BY <1>1, <1>2, <1>3 DEF StreamInv, Retained, Expired
<1> QED
  BY <1>4, <1>5, <1>6, <1>7 DEF IInv, StreamInv

\* Joins and pages store nothing in the stream.
LEMMA ReaderInv ==
    ASSUME IInv, NEW r \in Readers, ReaderStep(r)
    PROVE  IInv'
<1>1. TypeOK /\ StreamInv
  BY DEF IInv
<1>2. /\ head' = head /\ messages' = messages /\ outbox' = outbox /\ acks' = acks
      /\ pc' = pc /\ cmd' = cmd /\ at' = at /\ lock' = lock
      /\ now' = now /\ started' = started
  BY DEF ReaderStep, JoinBegin, JoinLock, JoinCommit, Enrol, ReadPage, stored, session, bounds
<1>3. StreamInv'
  <2>1. NoGap' /\ AckedIsDurable' /\ SlowModeRespected' /\ Latest' /\ Retained'
    BY <1>1, <1>2 DEF StreamInv, NoGap, AckedIsDurable, SlowModeRespected, Latest, Retained
  <2>2. ConstraintNeverFires' /\ LookedUp' /\ Spaced' /\ Past'
    BY <1>1, <1>2 DEF StreamInv, ConstraintNeverFires, LookedUp, Existing, Spaced, Past
  <2> QED
    BY <2>1, <2>2 DEF StreamInv
<1>4. /\ reader' \in [Readers -> Reader]
      /\ page' \in [Readers -> [cursor : Nat, got : SUBSET Nat]]
      /\ epoch' \in Nat
  <2>1. CASE JoinBegin(r)
    <3>1. Peers \subseteq Readers /\ head \in Nat
      BY <1>1 DEF Peers, TypeOK
    <3>2. [pc |-> "snapshot", floor |-> head, peers |-> Peers, since |-> 0] \in Reader
      BY <3>1 DEF Reader
    <3> QED
      BY <1>1, <2>1, <3>2 DEF JoinBegin, TypeOK
  <2>2. CASE JoinLock(r) \/ JoinCommit(r)
    <3>1. PICK s \in {"locked", "out", "joined"} : reader' = [reader EXCEPT ![r].pc = s]
      BY <2>2 DEF JoinLock, JoinCommit
    <3>2. reader' \in [Readers -> Reader]
      BY <1>1, <3>1 DEF TypeOK, Reader
    <3> QED
      BY <1>1, <2>2, <3>2 DEF JoinLock, JoinCommit, TypeOK
  <2>3. CASE Enrol(r)
    <3> DEFINE n == [reader[r] EXCEPT !.pc = "enrolled", !.since = epoch + 1]
    <3>1. reader[r] \in Reader /\ epoch + 1 \in Nat
      BY <1>1 DEF TypeOK
    <3>2. n \in Reader
      BY <3>1 DEF Reader
    <3>3. reader' = [reader EXCEPT ![r] = n] /\ page' = page /\ epoch' = epoch + 1
      BY <2>3 DEF Enrol
    <3> HIDE DEF n
    <3> QED
      BY <1>1, <3>1, <3>2, <3>3 DEF TypeOK
  <2>4. CASE ReadPage(r)
    <3> DEFINE S == Visible(r)
    <3>1. S \subseteq Message /\ FirstPage(S) \subseteq S
      BY <1>1 DEF Visible, FirstPage, TypeOK
    <3>2. {m.pos : m \in FirstPage(S)} \subseteq Nat
      BY <3>1 DEF Message
    <3>3. NextAfter(S) \subseteq Nat
      BY <1>1, <3>2 DEF NextAfter, TypeOK
    <3>4. PICK next \in NextAfter(S) :
             page' = [page EXCEPT ![r] =
                        [cursor |-> next, got |-> page[r].got \cup {m.pos : m \in FirstPage(S)}]]
      BY <2>4 DEF ReadPage
    <3> HIDE DEF S
    <3>5. page' \in [Readers -> [cursor : Nat, got : SUBSET Nat]]
      BY <1>1, <3>2, <3>3, <3>4 DEF TypeOK
    <3> QED
      BY <1>1, <2>4, <3>5 DEF ReadPage, TypeOK
  <2> QED
    BY <2>1, <2>2, <2>3, <2>4 DEF ReaderStep
<1>5. TypeOK'
  BY <1>1, <1>2, <1>4 DEF TypeOK
<1> QED
  BY <1>3, <1>5 DEF IInv

\* Time only passes.
LEMMA TickInv ==
    ASSUME IInv, Tick
    PROVE  IInv'
<1>1. TypeOK /\ StreamInv
  BY DEF IInv
<1>2. /\ head' = head /\ messages' = messages /\ outbox' = outbox /\ acks' = acks
      /\ pc' = pc /\ cmd' = cmd /\ at' = at /\ lock' = lock
      /\ now' = now + 1 /\ UNCHANGED <<history, epoch, started>>
  BY DEF Tick, stored, session
<1>3. TypeOK'
  BY <1>1, <1>2 DEF TypeOK, history
<1>4. NoGap' /\ AckedIsDurable' /\ SlowModeRespected' /\ Latest'
  BY <1>1, <1>2 DEF StreamInv, NoGap, AckedIsDurable, SlowModeRespected, Latest
<1>5. ConstraintNeverFires' /\ LookedUp'
  BY <1>1, <1>2 DEF StreamInv, ConstraintNeverFires, LookedUp, Existing
<1>6. /\ now \in Nat /\ SlowMode \in Nat /\ Retention \in Nat
      /\ at \in [Txns -> Nat] /\ \A e \in outbox : e.at \in Nat
  BY <1>1, ChatAssumption DEF TypeOK, Event
<1>7. Retained'
  BY <1>1, <1>2, <1>6 DEF StreamInv, Retained
<1>8. Past' /\ Spaced'
  BY <1>1, <1>2, <1>6 DEF StreamInv, Past, Spaced
<1> QED
  BY <1>3, <1>4, <1>5, <1>7, <1>8 DEF IInv, StreamInv
-----------------------------------------------------------------------------
\* Every step keeps the inductive invariant.
LEMMA NextInv ==
    ASSUME IInv, [Next]_vars
    PROVE  IInv'
<1>1. CASE UNCHANGED vars
  <2>1. /\ head' = head /\ messages' = messages /\ outbox' = outbox /\ acks' = acks
        /\ pc' = pc /\ cmd' = cmd /\ at' = at /\ lock' = lock
        /\ now' = now /\ UNCHANGED <<history, epoch, started>>
    BY <1>1 DEF vars, stored, session, bounds
  <2>2. TypeOK'
    BY <2>1 DEF IInv, TypeOK, history
  <2>3. NoGap' /\ AckedIsDurable' /\ SlowModeRespected' /\ Latest' /\ Retained'
    BY <2>1 DEF IInv, StreamInv, NoGap, AckedIsDurable, SlowModeRespected, Latest, Retained
  <2>4. ConstraintNeverFires' /\ LookedUp' /\ Spaced' /\ Past'
    BY <2>1 DEF IInv, StreamInv, ConstraintNeverFires, LookedUp, Existing, Spaced, Past
  <2> QED
    BY <2>2, <2>3, <2>4 DEF IInv, StreamInv
<1>2. ASSUME NEW t \in Txns, AcceptStep(t)
      PROVE  IInv'
  BY <1>2, RequireMembershipInv, FindExistingInv, LockStreamHeadInv, EnforceSlowModeInv,
     InsertInv, CommitInv DEF AcceptStep
<1>3. CASE Next
  BY <1>2, <1>3, SubmitInv, RollbackInv, ReaderInv, DeleteExpiredInv, TickInv DEF Next
<1> QED
  BY <1>1, <1>3

\* The empty stream satisfies the invariant.
LEMMA InitInv == Init => IInv
<1> SUFFICES ASSUME Init PROVE IInv
  OBVIOUS
<1>1. TypeOK
  BY ChatAssumption DEF Init, TypeOK, Active, Holding, Results, Reader
<1>2. NoGap
  BY DEF Init, NoGap
<1>3. AckedIsDurable /\ SlowModeRespected /\ Latest /\ Retained
  BY DEF Init, AckedIsDurable, SlowModeRespected, Latest, Retained
<1>4. ConstraintNeverFires /\ LookedUp /\ Spaced /\ Past
  BY DEF Init, ConstraintNeverFires, LookedUp, Spaced, Past
<1> QED
  BY <1>1, <1>2, <1>3, <1>4 DEF IInv, StreamInv

\* The inductive invariant holds in every reachable state.
THEOREM Invariance == Spec => []IInv
  BY InitInv, NextInv, PTL DEF Spec

\* Types, and the head row is held exactly by the transaction past lockStreamHead.
THEOREM TypeCorrect == Spec => []TypeOK
<1>1. IInv => TypeOK
  BY DEF IInv
<1> QED
  BY <1>1, Invariance, PTL

(***************************************************************************)
(* advanceStreamHead under the row lock gives positions 1 to head to the   *)
(* committed events, without a gap or a duplicate, whatever rolls back.    *)
(***************************************************************************)
THEOREM PositionsContiguous == Spec => []NoGap
<1>1. IInv => NoGap
  BY DEF IInv, StreamInv
<1> QED
  BY <1>1, Invariance, PTL

\* The double lookup of accept makes concurrent retries replay, never fail on an index.
THEOREM RetriesNeverCollide == Spec => []ConstraintNeverFires
<1>1. IInv => ConstraintNeverFires
  BY DEF IInv, StreamInv
<1> QED
  BY <1>1, Invariance, PTL

\* An accepted or replayed result names a committed position of the command.
THEOREM AcksDurable == Spec => []AckedIsDurable
<1>1. IInv => AckedIsDurable
  BY DEF IInv, StreamInv
<1> QED
  BY <1>1, Invariance, PTL

(***************************************************************************)
(* enforceSlowMode holds across sessions, and across the retention that    *)
(* deletes the rows it looks at, because slow mode is not longer.          *)
(***************************************************************************)
THEOREM SlowModeHolds == Spec => []SlowModeRespected
<1>1. IInv => SlowModeRespected
  BY DEF IInv, StreamInv
<1> QED
  BY <1>1, Invariance, PTL
-----------------------------------------------------------------------------
\* A cursor is not ahead of the stream, and moves for enrolled readers only.
CursorInv ==
    \A r \in Readers : /\ page[r].cursor <= head
                       /\ reader[r].pc # "enrolled" => page[r].cursor = 0

(***************************************************************************)
(* The inductive invariant of the history, on top of IInv.  A message that *)
(* commits later is above every cursor; the messages are finitely many, so *)
(* the LIMIT of readPage counts them.                                      *)
(***************************************************************************)
HistoryInv ==
    /\ IsFiniteSet(messages)
    /\ CursorInv
    /\ HistoryComplete

\* The rows of S in front of m.
Below(S, m) == {n \in S : n.pos < m.pos}

\* LIMIT cuts nothing off a set that fits, and never a row in front of one it keeps.
LEMMA PageIsPrefix ==
    ASSUME NEW S, IsFiniteSet(S), \A m \in S : m.pos \in Nat, NEW m \in S,
           \/ Cardinality(S) <= PageLimit
           \/ \E x \in FirstPage(S) : m.pos <= x.pos
    PROVE  m \in FirstPage(S)
<1>1. /\ IsFiniteSet(Below(S, m)) /\ Cardinality(Below(S, m)) <= Cardinality(S)
      /\ Cardinality(S) = Cardinality(Below(S, m)) => S = Below(S, m)
  <2>1. Below(S, m) \in SUBSET S
    BY DEF Below
  <2> QED
    BY <2>1, FS_Subset
<1>2. m \notin Below(S, m)
  BY DEF Below
<1>3. Cardinality(S) \in Nat /\ Cardinality(Below(S, m)) \in Nat /\ PageLimit \in Nat
  BY <1>1, FS_CardinalityType, ChatAssumption
<1>4. CASE Cardinality(S) <= PageLimit
  <2>1. Cardinality(Below(S, m)) < PageLimit
    BY <1>1, <1>2, <1>3, <1>4
  <2> QED
    BY <2>1 DEF FirstPage, Below
<1>5. ASSUME NEW x \in FirstPage(S), m.pos <= x.pos
      PROVE  m \in FirstPage(S)
  <2>1. x \in S /\ Cardinality(Below(S, x)) < PageLimit
    BY <1>5 DEF FirstPage, Below
  <2>2. Below(S, x) \in SUBSET S /\ Below(S, m) \in SUBSET Below(S, x)
    BY <1>5, <2>1 DEF Below
  <2>3. IsFiniteSet(Below(S, x))
    BY <2>2, FS_Subset
  <2>4. Cardinality(Below(S, m)) <= Cardinality(Below(S, x)) /\ Cardinality(Below(S, x)) \in Nat
    BY <2>2, <2>3, FS_Subset, FS_CardinalityType
  <2>5. Cardinality(Below(S, m)) < PageLimit
    BY <1>3, <2>1, <2>4
  <2> QED
    BY <2>5 DEF FirstPage, Below
<1> QED
  BY <1>4, <1>5

\* Every stored message has a position from 1 to head.
LEMMA MessagePositions ==
    ASSUME IInv
    PROVE  \A m \in messages : m.pos \in Nat /\ m.at \in Nat /\ 1 <= m.pos /\ m.pos <= head
<1> TAKE m \in messages
<1> DEFINE e == [from |-> m.from, id |-> m.id, pos |-> m.pos, at |-> m.at]
<1>1. e \in outbox /\ e.pos = m.pos
  BY DEF IInv, StreamInv, NoGap
<1>2. m.pos \in {f.pos : f \in outbox}
  <2> HIDE DEF e
  <2> QED
    BY <1>1
<1>3. m.pos \in 1..head
  BY <1>2 DEF IInv, StreamInv, NoGap
<1> QED
  BY <1>3 DEF IInv, TypeOK, Message

\* A page moves the cursor past what it returns and past nothing else.
LEMMA ReadPageHistory ==
    ASSUME IInv, HistoryInv, NEW r \in Readers, ReadPage(r)
    PROVE  HistoryInv'
<1> DEFINE S == Visible(r)
<1>1. PICK next \in NextAfter(S) :
         page' = [page EXCEPT ![r] =
                    [cursor |-> next, got |-> page[r].got \cup {m.pos : m \in FirstPage(S)}]]
  BY DEF ReadPage
<1>2. messages' = messages /\ head' = head /\ now' = now /\ reader' = reader
  BY DEF ReadPage, stored, bounds
<1>3. page \in [Readers -> [cursor : Nat, got : SUBSET Nat]] /\ head \in Nat
  BY DEF IInv, TypeOK
<1>4. S \subseteq messages /\ \A m \in S : m.pos \in Nat /\ m.pos <= head
  BY MessagePositions DEF Visible
<1>5. IsFiniteSet(S)
  BY <1>4, FS_Subset DEF HistoryInv
<1>6. /\ next \in Nat /\ next <= head
      /\ \/ Cardinality(S) <= PageLimit
         \/ \E x \in FirstPage(S) : next = x.pos
  <2>1. FirstPage(S) \subseteq S
    BY DEF FirstPage
  <2>2. CASE Cardinality(S) > PageLimit
    <3> HIDE DEF S
    <3> QED
      BY <1>1, <1>4, <2>1, <2>2 DEF NextAfter
  <2>3. CASE ~(Cardinality(S) > PageLimit)
    <3>1. Cardinality(S) \in Nat /\ PageLimit \in Nat
      BY <1>5, FS_CardinalityType, ChatAssumption
    <3>2. next = head
      BY <1>1, <2>3 DEF NextAfter
    <3> QED
      BY <1>3, <2>3, <3>1, <3>2
  <2> QED
    BY <2>2, <2>3
<1>7. /\ page'[r].cursor = next
      /\ page'[r].got = page[r].got \cup {m.pos : m \in FirstPage(S)}
      /\ \A q \in Readers : q # r => page'[q] = page[q]
  <2> HIDE DEF S
  <2> QED
    BY <1>1, <1>3
<1>8. CursorInv'
  BY <1>2, <1>6, <1>7 DEF HistoryInv, CursorInv, ReadPage
<1>9. ASSUME NEW q \in Readers, reader[q].pc = "enrolled", NEW m \in messages,
             m.pos <= page'[q].cursor, m.pos > reader[q].floor,
             reader[q].since <= m.epoch, ~Expired(m)
      PROVE  m.pos \in page'[q].got
  <2>1. CASE m.pos <= page[q].cursor
    <3>1. m.pos \in page[q].got
      BY <1>9, <2>1 DEF HistoryInv, HistoryComplete
    <3> QED
      BY <1>7, <3>1
  <2>2. CASE ~(m.pos <= page[q].cursor)
    <3>1. q = r
      BY <1>7, <1>9, <2>2
    <3>2. m.pos \in Nat /\ m.pos <= head /\ page[r].cursor \in Nat
      BY <1>3, MessagePositions
    <3>3. m \in S
      BY <1>9, <2>2, <3>1, <3>2 DEF Visible
    <3>4. m.pos <= next
      BY <1>7, <1>9, <3>1
    <3> HIDE DEF S
    <3>5. m \in FirstPage(S)
      BY <1>4, <1>5, <1>6, <3>3, <3>4, PageIsPrefix
    <3> QED
      BY <1>7, <3>1, <3>5
  <2> QED
    BY <2>1, <2>2
<1>10. HistoryComplete'
  BY <1>2, <1>9 DEF HistoryComplete, Expired
<1> QED
  BY <1>2, <1>8, <1>10 DEF HistoryInv

\* A join moves no cursor, and a reader that enrols starts in front of everything.
LEMMA JoinHistory ==
    ASSUME IInv, HistoryInv, NEW r \in Readers,
           JoinBegin(r) \/ JoinLock(r) \/ JoinCommit(r) \/ Enrol(r)
    PROVE  HistoryInv'
<1>1. messages' = messages /\ head' = head /\ now' = now /\ page' = page
  BY DEF JoinBegin, JoinLock, JoinCommit, Enrol, stored, bounds
<1>2. /\ reader[r].pc # "enrolled"
      /\ \A q \in Readers : q # r => reader'[q] = reader[q]
  BY DEF JoinBegin, JoinLock, JoinCommit, Enrol, IInv, TypeOK
<1>3. page[r].cursor = 0
  BY <1>2 DEF HistoryInv, CursorInv
<1>4. CursorInv'
  BY <1>1, <1>2, <1>3 DEF HistoryInv, CursorInv
<1>5. \A m \in messages : m.pos \in Nat /\ ~(m.pos <= 0)
  BY MessagePositions
<1>6. HistoryComplete'
  <2>1. ASSUME NEW q \in Readers, reader'[q].pc = "enrolled", NEW m \in messages,
               m.pos <= page[q].cursor, m.pos > reader'[q].floor,
               reader'[q].since <= m.epoch, ~Expired(m)
        PROVE  m.pos \in page[q].got
    BY <1>2, <1>3, <1>5, <2>1 DEF HistoryInv, HistoryComplete
  <2> QED
    BY <1>1, <2>1 DEF HistoryComplete, Expired
<1> QED
  BY <1>1, <1>4, <1>6 DEF HistoryInv

\* A message commits at a position above every cursor.
LEMMA CommitHistory ==
    ASSUME IInv, HistoryInv, NEW t \in Txns, Commit(t)
    PROVE  HistoryInv'
<1> DEFINE row == [from |-> cmd[t].from, id |-> cmd[t].id, body |-> cmd[t].body,
                   epoch |-> cmd[t].epoch, pos |-> head + 1, at |-> at[t]]
<1>1. /\ messages' = messages \cup {row} /\ head' = head + 1
      /\ now' = now /\ page' = page /\ reader' = reader
  BY DEF Commit, Publish, history, bounds
<1>2. row.pos = head + 1
  OBVIOUS
<1> HIDE DEF row
<1>3. /\ head \in Nat
      /\ \A r \in Readers : page[r].cursor \in Nat /\ page[r].cursor <= head
  BY DEF IInv, TypeOK, HistoryInv, CursorInv
<1>4. CursorInv'
  BY <1>1, <1>3 DEF HistoryInv, CursorInv
<1>5. HistoryComplete'
  <2>1. ASSUME NEW r \in Readers, NEW m \in messages', m.pos <= page[r].cursor
        PROVE  m \in messages
    BY <1>1, <1>2, <1>3, <2>1
  <2> QED
    BY <1>1, <2>1 DEF HistoryInv, HistoryComplete, Expired
<1>6. IsFiniteSet(messages')
  BY <1>1, FS_AddElement DEF HistoryInv
<1> QED
  BY <1>4, <1>5, <1>6 DEF HistoryInv

\* The other statements of accept, the janitor and the clock take obligations away only.
LEMMA QuietHistory ==
    ASSUME IInv, HistoryInv,
           messages' \subseteq messages, head' = head, UNCHANGED history,
           now' \in Nat, now <= now'
    PROVE  HistoryInv'
<1>1. page' = page /\ reader' = reader
  BY DEF history
<1>2. CursorInv'
  BY <1>1 DEF HistoryInv, CursorInv
<1>3. IsFiniteSet(messages')
  BY FS_Subset DEF HistoryInv
<1>4. \A m \in messages' : m \in messages /\ (Expired(m) => m.at + Retention <= now')
  <2>1. now \in Nat /\ Retention \in Nat
    BY ChatAssumption DEF IInv, TypeOK
  <2> QED
    BY <2>1, MessagePositions DEF Expired
<1>5. HistoryComplete'
  BY <1>1, <1>4 DEF HistoryInv, HistoryComplete, Expired
<1> QED
  BY <1>2, <1>3, <1>5 DEF HistoryInv

\* Every step keeps the invariant of the history.
LEMMA NextHistory ==
    ASSUME IInv, HistoryInv, [Next]_vars
    PROVE  HistoryInv'
<1>1. now \in Nat /\ now <= now
  BY DEF IInv, TypeOK
<1>2. CASE UNCHANGED vars
  BY <1>1, <1>2, QuietHistory DEF vars, stored, bounds
<1>3. ASSUME NEW t \in Txns, Submit(t) \/ Rollback(t)
      PROVE  HistoryInv'
  BY <1>1, <1>3, QuietHistory DEF Submit, RequireAccess, Rollback, stored, bounds
<1>4. ASSUME NEW t \in Txns, AcceptStep(t), ~Commit(t)
      PROVE  HistoryInv'
  <2>1. UNCHANGED <<stored, history, bounds>>
    BY <1>4 DEF AcceptStep, RequireMembership, FindExisting, LockStreamHead,
       FindExistingLocked, EnforceSlowMode, Insert
  <2> QED
    BY <1>1, <2>1, QuietHistory DEF stored, bounds
<1>5. CASE DeleteExpired
  BY <1>1, <1>5, QuietHistory DEF DeleteExpired, bounds
<1>6. CASE Tick
  BY <1>1, <1>6, QuietHistory DEF Tick, stored
<1>7. CASE Next
  BY <1>3, <1>4, <1>5, <1>6, <1>7, CommitHistory, ReadPageHistory, JoinHistory
     DEF Next, ReaderStep
<1> QED
  BY <1>2, <1>7

(***************************************************************************)
(* A reader that pages forward from nextAfterPosition misses no message up *)
(* to its cursor: the cursor of a full page is its last row, the watermark *)
(* of a short one is the head of the same snapshot, and later commits are  *)
(* above both.                                                             *)
(***************************************************************************)
THEOREM HistoryHasNoHoles == Spec => []HistoryComplete
<1>1. Init => HistoryInv
  BY FS_EmptySet DEF Init, HistoryInv, CursorInv, HistoryComplete
<1>2. IInv /\ HistoryInv /\ [Next]_vars => HistoryInv'
  BY NextHistory
<1>3. HistoryInv => HistoryComplete
  BY DEF HistoryInv
<1> QED
  BY <1>1, <1>2, <1>3, Invariance, PTL DEF Spec

(***************************************************************************)
(* A history only grows: no page takes a position back, and no cursor      *)
(* moves backwards.                                                        *)
(***************************************************************************)
THEOREM CursorsAdvance ==
    Spec => [][\A r \in Readers : /\ page[r].cursor <= page'[r].cursor
                                  /\ page[r].got \subseteq page'[r].got]_vars
<1> DEFINE Forward == \A r \in Readers : /\ page[r].cursor <= page'[r].cursor
                                         /\ page[r].got \subseteq page'[r].got
<1>1. ASSUME IInv, HistoryInv, [Next]_vars
      PROVE  [Forward]_vars
  <2>1. /\ head \in Nat
        /\ \A q \in Readers : page[q].cursor \in Nat /\ page[q].cursor <= head
    BY <1>1 DEF IInv, TypeOK, HistoryInv, CursorInv
  <2>2. CASE page' = page
    BY <2>1, <2>2
  <2>3. ASSUME NEW r \in Readers, ReadPage(r)
        PROVE  Forward
    <3> DEFINE S == Visible(r)
    <3>1. PICK next \in NextAfter(S) :
             page' = [page EXCEPT ![r] =
                        [cursor |-> next, got |-> page[r].got \cup {m.pos : m \in FirstPage(S)}]]
      BY <2>3 DEF ReadPage
    <3>2. \A m \in FirstPage(S) : page[r].cursor <= m.pos
      BY <1>1, <2>1, MessagePositions DEF FirstPage, Visible
    <3> HIDE DEF S
    <3>3. page[r].cursor <= next
      BY <2>1, <3>1, <3>2 DEF NextAfter
    <3>4. page \in [Readers -> [cursor : Nat, got : SUBSET Nat]]
      BY <1>1 DEF IInv, TypeOK
    <3> QED
      BY <2>1, <3>1, <3>3, <3>4
  <2>4. \/ page' = page
        \/ \E r \in Readers : ReadPage(r)
    <3>1. ASSUME NEW t \in Txns, Submit(t) \/ AcceptStep(t) \/ Rollback(t)
          PROVE  page' = page
      BY <3>1 DEF Submit, RequireAccess, Rollback, AcceptStep, RequireMembership,
         FindExisting, LockStreamHead, FindExistingLocked, EnforceSlowMode, Insert,
         Commit, history
    <3>2. ASSUME NEW r \in Readers, ReaderStep(r), ~ReadPage(r)
          PROVE  page' = page
      BY <3>2 DEF ReaderStep, JoinBegin, JoinLock, JoinCommit, Enrol
    <3>3. DeleteExpired \/ Tick \/ UNCHANGED vars => page' = page
      BY DEF DeleteExpired, Tick, vars, history
    <3> QED
      BY <1>1, <3>1, <3>2, <3>3 DEF Next
  <2> QED
    BY <2>2, <2>3, <2>4
<1>2. Init => HistoryInv
  BY FS_EmptySet DEF Init, HistoryInv, CursorInv, HistoryComplete
<1> QED
  BY <1>1, <1>2, NextHistory, Invariance, PTL DEF Spec

-----------------------------------------------------------------------------
(* Live delivery *)

\* A set of naturals that is not empty has a least member.
LEMMA LeastNumber ==
    ASSUME NEW T \in SUBSET Nat, NEW x \in T
    PROVE  \E m \in T : \A k \in T : m <= k
<1> DEFINE L == {n \in Nat : \A k \in T : n <= k}
           c == Cardinality(L)
<1>1. L \in SUBSET Nat /\ 0 \in L /\ \A n \in L : n <= x
  OBVIOUS
<1>2. IsFiniteSet(L) /\ c \in Nat
  BY <1>1, FS_BoundedSetOfNaturals, FS_CardinalityType
<1>3. ASSUME NEW n \in L
      PROVE  n < c
  <2>1. 0..n \in SUBSET L /\ n \in Nat
    BY <1>3
  <2>2. Cardinality(0..n) = n + 1
    BY <2>1, FS_Interval
  <2> HIDE DEF L
  <2>3. Cardinality(0..n) <= Cardinality(L)
    BY <1>2, <2>1, FS_Subset
  <2> QED
    BY <1>2, <2>1, <2>2, <2>3
<1>4. c >= 1
  BY <1>1, <1>2, <1>3
<1>5. ASSUME c - 1 \notin L
      PROVE  FALSE
  <2>1. \A n \in L : n \in Nat /\ n < c - 1
    <3> TAKE n \in L
    <3>1. n \in Nat /\ n < c
      BY <1>3
    <3>2. n # c - 1
      BY <1>5
    <3> QED
      BY <1>2, <3>1, <3>2
  <2>2. c - 2 \in Nat
    <3> HIDE DEF L, c
    <3> QED
      BY <1>1, <1>2, <1>4, <2>1
  <2>3. \A n \in L : n <= c - 2
    BY <1>2, <2>1
  <2> HIDE DEF L
  <2>4. Cardinality(L) <= (c - 2) + 1
    BY <1>1, <2>2, <2>3, FS_BoundedSetOfNaturals
  <2> QED
    BY <1>2, <2>4
<1>6. c \notin L
  BY <1>2, <1>3
<1>7. PICK k \in T : ~(c <= k)
  BY <1>2, <1>6
<1>8. \A j \in T : c - 1 <= j
  BY <1>5
<1>9. k = c - 1
  BY <1>2, <1>7, <1>8
<1> QED
  BY <1>8, <1>9

\* The cursor reaches the end of what is contiguous.
LEMMA ReachEnds ==
    ASSUME NEW p \in 0..MaxHead, NEW S \in SUBSET Positions
    PROVE  /\ Reach(p, S) \in p..MaxHead
           /\ (p + 1)..Reach(p, S) \subseteq S
           /\ Reach(p, S) + 1 \notin S
<1> DEFINE T == {q \in Nat : p <= q /\ q + 1 \notin S}
<1>1. MaxHead \in Nat /\ MaxHead \in T /\ p \in Nat
  BY DeliveryAssumption DEF Positions
<1>2. PICK m \in T : \A k \in T : m <= k
  BY <1>1, LeastNumber
<1>3. m \in p..MaxHead /\ m + 1 \notin S
  BY <1>1, <1>2
<1>4. (p + 1)..m \subseteq S
  <2> SUFFICES ASSUME NEW i \in (p + 1)..m PROVE i \in S
    OBVIOUS
  <2>1. i - 1 \in Nat /\ p <= i - 1 /\ i - 1 < m
    BY <1>1, <1>2
  <2>2. i - 1 \notin T
    BY <1>2, <2>1
  <2>3. (i - 1) + 1 \in S
    BY <2>1, <2>2
  <2> QED
    BY <1>1, <2>1, <2>3
<1> QED
  BY <1>3, <1>4 DEF Reach

\* The rows of a finite set of positions are counted.
LEMMA PendFinite ==
    ASSUME NEW S \in SUBSET Positions
    PROVE  IsFiniteSet(S) /\ Cardinality(S) \in Nat
<1>1. IsFiniteSet(Positions)
  BY FS_Interval, DeliveryAssumption DEF Positions
<1> QED
  BY <1>1, FS_Subset, FS_CardinalityType

(***************************************************************************)
(* What is true of every socket r.  The bounds of its memory; and as long  *)
(* as it is open: it has not overflowed, its cursor skipped nothing, its   *)
(* client was told of the cursor's position and has what a page it waits   *)
(* for builds on.  A listener hands over only after the activation.        *)
(***************************************************************************)
RecordInv(r) ==
    /\ r.page.to <= r.page.mark
    /\ Len(r.buffer) <= Buffer
    /\ Cardinality(r.pend) <= Buffer
    /\ r.conn = "open" => /\ ~r.lost
                          /\ (r.base + 1)..r.pos \subseteq r.got
                          /\ r.pos <= r.know
                          /\ r.phase = "syncing" => 1..r.page.from \subseteq r.got
    /\ r.phase \in {"watching", "reading", "read"} => ~r.active

(***************************************************************************)
(* What is true of a listener when the process has observed position o:    *)
(* its client was told of it, or will be by the page it waits for or by a  *)
(* notification in its buffer.                                             *)
(***************************************************************************)
Told(r, o) ==
    r.conn = "open" =>
       /\ r.active => o <= r.know
       /\ r.phase = "read" => \/ o <= r.page.mark
                              \/ \E i \in DOMAIN r.buffer : o <= r.buffer[i].pos

\* The inductive invariant.
FeedInv ==
    /\ FeedTypeOK
    /\ observed <= head /\ poll <= head
    /\ \A s \in Sockets : RecordInv(sock[s])
    /\ \A s \in Listeners : Told(sock[s], observed)
-----------------------------------------------------------------------------
\* Nothing but the place in the stream and what the client has differs.
Framed(x, r) ==
    /\ x \in Socket
    /\ x.phase = r.phase /\ x.ctx = r.ctx /\ x.active = r.active
    /\ x.base = r.base /\ x.page = r.page /\ x.buffer = r.buffer

\* A client that is still connected keeps what it has.
Grown(x, r) ==
    x.conn = "open" => r.conn = "open" /\ r.got \subseteq x.got /\ r.know <= x.know

\* Types of the fields, one fact for the provers.
LEMMA SocketFields ==
    ASSUME NEW r \in Socket
    PROVE  /\ r.base \in Nat /\ r.pos \in Nat /\ r.know \in Nat /\ MaxHead \in Nat /\ Buffer \in Nat
           /\ r.base \in 0..MaxHead /\ r.pos \in 0..MaxHead /\ r.know \in 0..MaxHead
           /\ r.pend \in SUBSET Positions /\ r.got \in SUBSET Positions
           /\ r.buffer \in Seq(Notification) /\ Len(r.buffer) \in Nat
           /\ r.lost \in BOOLEAN /\ r.active \in BOOLEAN
           /\ r.page \in Page
           /\ r.page.from \in 0..MaxHead /\ r.page.to \in 0..MaxHead /\ r.page.mark \in 0..MaxHead
<1>1. r.page \in Page /\ r.buffer \in Seq(Notification)
  BY DEF Socket
<1>2. r.page.from \in 0..MaxHead /\ r.page.to \in 0..MaxHead /\ r.page.mark \in 0..MaxHead
  BY <1>1 DEF Page
<1>3. Len(r.buffer) \in Nat
  BY <1>1, LenProperties
<1>4. /\ r.base \in 0..MaxHead /\ r.pos \in 0..MaxHead /\ r.know \in 0..MaxHead
      /\ r.pend \in SUBSET Positions /\ r.got \in SUBSET Positions
      /\ r.lost \in BOOLEAN /\ r.active \in BOOLEAN
  BY DEF Socket
<1> QED
  BY <1>1, <1>2, <1>3, <1>4, DeliveryAssumption

\* sendReliable adds to what an open client has.
LEMMA SendRecord ==
    ASSUME NEW r \in Socket, NEW P \in SUBSET Positions, NEW n \in 0..MaxHead
    PROVE  LET x == Send(r, P, n)
           IN  /\ Framed(x, r) /\ Grown(x, r) /\ x.conn = r.conn /\ x.lost = r.lost
               /\ x.pos = r.pos /\ x.pend = r.pend
               /\ x.conn = "open" => P \subseteq x.got /\ n <= x.know
<1>1. r.know \in 0..MaxHead /\ r.got \subseteq Positions
  BY DEF Socket
<1>2. MaxHead \in Nat
  BY DeliveryAssumption
<1>3. CASE r.conn = "open"
  <2>1. PICK g \in SUBSET Positions : g = r.got \cup P
    BY <1>1
  <2>2. PICK k \in 0..MaxHead : k = Larger(r.know, n)
    BY <1>1 DEF Larger
  <2> DEFINE x == [r EXCEPT !.got = g, !.know = k]
  <2>3. Send(r, P, n) = x
    BY <1>3, <2>1, <2>2 DEF Send
  <2>4. /\ x \in Socket /\ x.conn = r.conn /\ x.lost = r.lost /\ x.pos = r.pos /\ x.pend = r.pend
        /\ x.phase = r.phase /\ x.ctx = r.ctx /\ x.active = r.active /\ x.base = r.base
        /\ x.page = r.page /\ x.buffer = r.buffer /\ x.got = g /\ x.know = k
    BY <2>1, <2>2 DEF Socket
  <2> HIDE DEF x
  <2>5. r.know <= k /\ n <= k
    BY <1>1, <1>2, <2>2 DEF Larger
  <2> QED
    BY <1>3, <2>1, <2>3, <2>4, <2>5 DEF Framed, Grown
<1>4. CASE r.conn # "open"
  BY <1>4 DEF Send, Framed, Grown
<1> QED
  BY <1>3, <1>4

\* closeSocket forgets the client.
LEMMA ClosedRecord ==
    ASSUME NEW r \in Socket
    PROVE  LET x == CloseSocket(r)
           IN  /\ Framed(x, r) /\ Grown(x, r) /\ x.conn # "open" /\ x.lost = r.lost
               /\ x.pos = r.pos /\ x.pend = r.pend
<1>1. CASE r.conn = "open"
  <2> DEFINE x == [r EXCEPT !.conn = "closing", !.got = {}, !.know = 0]
  <2>1. 0 \in 0..MaxHead /\ {} \in SUBSET Positions
    BY DeliveryAssumption
  <2>2. CloseSocket(r) = x
    BY <1>1 DEF CloseSocket
  <2>3. /\ x \in Socket /\ x.conn = "closing" /\ x.lost = r.lost /\ x.pos = r.pos /\ x.pend = r.pend
        /\ x.phase = r.phase /\ x.ctx = r.ctx /\ x.active = r.active /\ x.base = r.base
        /\ x.page = r.page /\ x.buffer = r.buffer
    BY <2>1 DEF Socket
  <2> HIDE DEF x
  <2> QED
    BY <2>2, <2>3 DEF Framed, Grown
<1>2. CASE r.conn # "open"
  BY <1>2 DEF CloseSocket, Framed, Grown
<1> QED
  BY <1>1, <1>2

\* A socket that is not open only has to keep its memory within bounds.
LEMMA ClosedInv ==
    ASSUME NEW r \in Socket, r.page.to <= r.page.mark, Len(r.buffer) <= Buffer,
           Cardinality(r.pend) <= Buffer,
           r.phase \in {"watching", "reading", "read"} => ~r.active
    PROVE  RecordInv(CloseSocket(r))
<1> DEFINE x == CloseSocket(r)
<1>1. Framed(x, r) /\ x.conn # "open" /\ x.pend = r.pend
  BY ClosedRecord
<1> HIDE DEF x
<1>2. RecordInv(x)
  BY <1>1 DEF Framed, RecordInv
<1> QED
  BY <1>2 DEF x

\* flush: the cursor moves over contiguous positions, each of which is delivered.
LEMMA FlushRecord ==
    ASSUME NEW r \in Socket, RecordInv(r)
    PROVE  LET x == Flush(r)
           IN  /\ Framed(x, r) /\ Grown(x, r) /\ RecordInv(x) /\ x.conn = r.conn /\ x.lost = r.lost
               /\ r.pos <= x.pos
               /\ \A q \in r.pend : q \in x.pend \/ q <= x.pos
<1> DEFINE p == Reach(r.pos, r.pend)
<1>1. /\ p \in r.pos..MaxHead /\ (r.pos + 1)..p \subseteq r.pend
      /\ r.pos \in 0..MaxHead /\ r.pos \in Nat /\ MaxHead \in Nat /\ r.pend \in SUBSET Positions
      /\ r.base \in Nat /\ Buffer \in Nat
  BY ReachEnds, SocketFields
<1>2. CASE p = r.pos
  <2>1. Flush(r) = r
    BY <1>2 DEF Flush
  <2>2. r.know <= r.know
    BY SocketFields
  <2> QED
    BY <1>1, <2>1, <2>2 DEF Framed, Grown
<1>3. CASE p # r.pos
  <2> HIDE DEF p
  <2>1. PICK S \in SUBSET Positions : S = {q \in r.pend : q > p}
    BY <1>1
  <2>2. /\ p \in 0..MaxHead /\ p \in Nat /\ r.pos <= p
        /\ (r.pos + 1)..p \in SUBSET Positions
    BY <1>1
  <2>3. PICK P \in SUBSET Positions : P = (r.pos + 1)..p
    BY <2>2
  <2> DEFINE y == [r EXCEPT !.pos = p, !.pend = S]
             x == Send(y, P, p)
  <2>4. Flush(r) = x
    BY <1>3, <2>3, <2>1 DEF Flush, p
  <2>5. /\ y \in Socket /\ y.conn = r.conn /\ y.lost = r.lost /\ y.pos = p /\ y.pend = S
        /\ y.phase = r.phase /\ y.ctx = r.ctx /\ y.active = r.active /\ y.base = r.base
        /\ y.page = r.page /\ y.buffer = r.buffer /\ y.got = r.got /\ y.know = r.know
    BY <2>1, <2>2 DEF Socket
  <2> HIDE DEF y
  <2>6. /\ Framed(x, y) /\ Grown(x, y) /\ x.conn = y.conn /\ x.lost = y.lost
        /\ x.pos = y.pos /\ x.pend = y.pend
        /\ x.conn = "open" => P \subseteq x.got /\ p <= x.know
    <3>1. y \in Socket /\ p \in 0..MaxHead
      BY <2>2, <2>5
    <3> QED
      BY <3>1, SendRecord
  <2> HIDE DEF x
  <2>7. Framed(x, r) /\ Grown(x, r) /\ x.pos = p /\ x.pend = S
    BY <2>5, <2>6 DEF Framed, Grown
  <2>8. Cardinality(S) <= Buffer
    <3>1. S \in SUBSET r.pend
      BY <2>1
    <3>2. Cardinality(S) <= Cardinality(r.pend)
      BY <1>1, <3>1, PendFinite, FS_Subset
    <3> QED
      BY <1>1, <2>1, <3>2, PendFinite DEF RecordInv
  <2>9. x.conn = "open" => (x.base + 1)..x.pos \subseteq x.got
    <3> SUFFICES ASSUME x.conn = "open", NEW i \in (r.base + 1)..p
                 PROVE  i \in x.got
      BY <2>7 DEF Framed
    <3>1. r.conn = "open" /\ (r.base + 1)..r.pos \subseteq r.got /\ r.got \subseteq x.got
      BY <2>5, <2>6, <2>7 DEF RecordInv, Grown
    <3>2. i \in (r.base + 1)..r.pos \/ i \in (r.pos + 1)..p
      BY <1>1, <2>2
    <3> QED
      BY <2>3, <2>6, <3>1, <3>2
  <2>10. RecordInv(x)
    BY <2>5, <2>6, <2>7, <2>8, <2>9 DEF RecordInv, Framed, Grown
  <2>11. \A q \in r.pend : q \in S \/ q <= p
    BY <1>1, <2>1, <2>2 DEF Positions
  <2> QED
    BY <2>2, <2>4, <2>5, <2>6, <2>7, <2>10, <2>11
<1> QED
  BY <1>2, <1>3

\* A position enters the reorder buffer: it is announced, or the socket closes.
LEMMA BufferedRecord ==
    ASSUME NEW r \in Socket, RecordInv(r), NEW p \in Positions
    PROVE  LET x == Buffered(r, p)
           IN  /\ Framed(x, r) /\ Grown(x, r) /\ RecordInv(x)
               /\ x.conn = "open" => p <= x.know
<1>1. /\ Buffer \in Nat /\ r.pend \cup {p} \in SUBSET Positions /\ MaxHead \in Nat
      /\ Cardinality(r.pend \cup {p}) \in Nat /\ p \in Nat /\ p \in 0..MaxHead
      /\ {} \in SUBSET Positions
  BY SocketFields, PendFinite DEF Positions
<1>2. CASE Cardinality(r.pend \cup {p}) > Buffer
  <2> DEFINE y == [r EXCEPT !.lost = TRUE, !.pend = {}]
             x == CloseSocket(y)
  <2>1. Buffered(r, p) = x
    BY <1>2 DEF Buffered
  <2>2. /\ y \in Socket /\ y.conn = r.conn /\ y.pend = {}
        /\ y.phase = r.phase /\ y.ctx = r.ctx /\ y.active = r.active /\ y.base = r.base
        /\ y.page = r.page /\ y.buffer = r.buffer /\ y.got = r.got /\ y.know = r.know
    BY <1>1 DEF Socket
  <2> HIDE DEF y
  <2>3. Framed(x, y) /\ x.conn # "open"
    BY <2>2, ClosedRecord
  <2>4. Cardinality({}) <= Buffer
    BY <1>1, FS_EmptySet
  <2>5. RecordInv(x)
    BY <2>2, <2>4, ClosedInv DEF RecordInv
  <2> HIDE DEF x
  <2> QED
    BY <2>1, <2>2, <2>3, <2>5 DEF Framed, Grown
<1>3. CASE ~(Cardinality(r.pend \cup {p}) > Buffer)
  <2>1. PICK S \in SUBSET Positions : S = r.pend \cup {p}
    BY <1>1
  <2> DEFINE y == [r EXCEPT !.pend = S]
             f == Flush(y)
             x == Send(f, {}, Larger(p, f.pos))
  <2>2. /\ y \in Socket /\ y.conn = r.conn /\ y.lost = r.lost /\ y.pos = r.pos /\ y.pend = S
        /\ y.phase = r.phase /\ y.ctx = r.ctx /\ y.active = r.active /\ y.base = r.base
        /\ y.page = r.page /\ y.buffer = r.buffer /\ y.got = r.got /\ y.know = r.know
    BY <2>1 DEF Socket
  <2>3. Buffered(r, p) = IF f.pend = {} THEN f ELSE x
    BY <1>3, <2>1 DEF Buffered
  <2> HIDE DEF y
  <2>4. RecordInv(y)
    BY <1>1, <1>3, <2>1, <2>2 DEF RecordInv
  <2>5. /\ Framed(f, y) /\ Grown(f, y) /\ RecordInv(f) /\ f.conn = y.conn /\ f.lost = y.lost
        /\ \A q \in y.pend : q \in f.pend \/ q <= f.pos
    BY <2>2, <2>4, FlushRecord
  <2> HIDE DEF f
  <2>6. /\ f \in Socket /\ f.pos \in 0..MaxHead /\ f.pos \in Nat /\ f.know \in Nat
        /\ Framed(f, r) /\ Grown(f, r) /\ f.conn = r.conn
    BY <2>2, <2>5, SocketFields DEF Framed, Grown
  <2>7. CASE f.pend = {}
    <3>1. p <= f.pos
      BY <2>1, <2>2, <2>5, <2>7
    <3>2. f.conn = "open" => p <= f.know
      BY <1>1, <2>5, <2>6, <3>1 DEF RecordInv
    <3> QED
      BY <2>3, <2>5, <2>6, <2>7, <3>2
  <2>8. CASE f.pend # {}
    <3>1. /\ Larger(p, f.pos) \in 0..MaxHead /\ p <= Larger(p, f.pos)
      BY <1>1, <2>6 DEF Larger
    <3>2. /\ Framed(x, f) /\ Grown(x, f) /\ x.conn = f.conn /\ x.lost = f.lost
          /\ x.pos = f.pos /\ x.pend = f.pend
          /\ x.conn = "open" => Larger(p, f.pos) <= x.know
      BY <1>1, <2>6, <3>1, SendRecord
    <3> HIDE DEF x
    <3>3. x.know \in Nat /\ x \in Socket /\ Larger(p, f.pos) \in Nat /\ r.know \in Nat
      BY <3>1, <3>2, SocketFields DEF Framed
    <3>4. RecordInv(x)
      BY <2>5, <2>6, <3>2, <3>3 DEF RecordInv, Framed, Grown
    <3>5. Framed(x, r) /\ Grown(x, r)
      BY <2>6, <3>2, <3>3 DEF Framed, Grown
    <3> QED
      BY <1>1, <2>3, <2>8, <3>1, <3>2, <3>3, <3>4, <3>5
  <2> QED
    BY <2>7, <2>8
<1> QED
  BY <1>2, <1>3

\* ChatLiveCursor.accept: the client learns of the position, if it stays connected.
LEMMA AcceptRecord ==
    ASSUME NEW r \in Socket, RecordInv(r), NEW n \in Notification
    PROVE  LET x == Accept(r, n)
           IN  /\ Framed(x, r) /\ Grown(x, r) /\ RecordInv(x)
               /\ x.conn = "open" => n.pos <= x.know
<1>1. n.pos \in 0..MaxHead /\ n.kind \in {"message", "high_watermark"}
  BY DEF Notification
<1>2. r.pos \in Nat /\ r.know \in Nat /\ MaxHead \in Nat /\ {} \in SUBSET Positions
  BY SocketFields
<1>3. CASE r.lost \/ n.pos <= r.pos
  <2>1. Accept(r, n) = r
    BY <1>3 DEF Accept
  <2>2. r.conn = "open" => n.pos <= r.know
    BY <1>1, <1>2, <1>3 DEF RecordInv
  <2> QED
    BY <1>2, <2>1, <2>2 DEF Framed, Grown
<1>4. CASE ~(r.lost \/ n.pos <= r.pos) /\ n.kind = "high_watermark"
  <2> DEFINE x == Send(r, {}, n.pos)
  <2>1. Accept(r, n) = x
    BY <1>4 DEF Accept
  <2>2. /\ Framed(x, r) /\ Grown(x, r) /\ x.conn = r.conn /\ x.lost = r.lost
        /\ x.pos = r.pos /\ x.pend = r.pend
        /\ x.conn = "open" => n.pos <= x.know
    BY <1>1, <1>2, SendRecord
  <2> HIDE DEF x
  <2>3. x.know \in Nat
    BY <2>2, SocketFields DEF Framed
  <2>4. RecordInv(x)
    BY <1>2, <2>2, <2>3 DEF RecordInv, Framed, Grown
  <2> QED
    BY <2>1, <2>2, <2>4
<1>5. CASE ~(r.lost \/ n.pos <= r.pos) /\ n.kind # "high_watermark"
  <2>1. n.pos \in Positions
    BY <1>1, <1>2, <1>5 DEF Positions
  <2>2. Accept(r, n) = Buffered(r, n.pos)
    BY <1>5 DEF Accept
  <2> QED
    BY <2>1, <2>2, BufferedRecord
<1> QED
  BY <1>3, <1>4, <1>5

\* The listener of a socket that has been told of o hears n.
LEMMA ListenerRecord ==
    ASSUME NEW r \in Socket, RecordInv(r), NEW n \in Notification,
           NEW o \in Int, Told(r, o), NEW v \in Int, v <= o \/ v <= n.pos
    PROVE  LET x == Listener(r, n)
           IN  x \in Socket /\ RecordInv(x) /\ Told(x, v)
<1>1. n.pos \in 0..MaxHead
  BY DEF Notification
<1>2. /\ r.active \in BOOLEAN /\ r.know \in Nat /\ MaxHead \in Nat /\ Buffer \in Nat
      /\ r.page.mark \in 0..MaxHead /\ r.buffer \in Seq(Notification) /\ Len(r.buffer) \in Nat
  BY SocketFields
<1>3. CASE r.active
  <2> DEFINE x == Accept(r, n)
  <2>1. /\ Framed(x, r) /\ Grown(x, r) /\ RecordInv(x)
        /\ x.conn = "open" => n.pos <= x.know
    BY AcceptRecord
  <2>2. Listener(r, n) = x
    BY <1>3 DEF Listener
  <2> HIDE DEF x
  <2>3. x \in Socket /\ x.know \in Nat /\ x.phase # "read"
    BY <1>3, <2>1, SocketFields DEF Framed, RecordInv
  <2>4. Told(x, v)
    BY <1>1, <1>2, <1>3, <2>1, <2>3 DEF Told, Framed, Grown
  <2> QED
    BY <2>1, <2>2, <2>3, <2>4
<1>4. CASE ~r.active /\ Len(r.buffer) >= Buffer
  <2> DEFINE y == [r EXCEPT !.lost = TRUE]
             x == CloseSocket(y)
  <2>1. Listener(r, n) = x
    BY <1>4 DEF Listener
  <2>2. /\ y \in Socket /\ y.pend = r.pend /\ y.phase = r.phase /\ y.active = r.active
        /\ y.page = r.page /\ y.buffer = r.buffer
    BY DEF Socket
  <2> HIDE DEF y
  <2>3. Framed(x, y) /\ x.conn # "open"
    BY <2>2, ClosedRecord
  <2>4. RecordInv(x)
    BY <2>2, ClosedInv DEF RecordInv
  <2> HIDE DEF x
  <2> QED
    BY <2>1, <2>3, <2>4 DEF Told, Framed
<1>5. CASE ~r.active /\ ~(Len(r.buffer) >= Buffer)
  <2>1. PICK b \in Seq(Notification) : b = Append(r.buffer, n)
    BY <1>2, AppendProperties
  <2>2. /\ Len(b) = Len(r.buffer) + 1 /\ b[Len(r.buffer) + 1] = n
        /\ \A i \in DOMAIN r.buffer : i \in DOMAIN b /\ b[i] = r.buffer[i]
        /\ Len(r.buffer) + 1 \in DOMAIN b
    BY <1>2, <2>1
  <2> DEFINE x == [r EXCEPT !.buffer = b]
  <2>3. Listener(r, n) = x
    BY <1>5, <2>1 DEF Listener
  <2>4. /\ x \in Socket /\ x.conn = r.conn /\ x.lost = r.lost /\ x.pos = r.pos /\ x.pend = r.pend
        /\ x.phase = r.phase /\ x.active = r.active /\ x.base = r.base
        /\ x.page = r.page /\ x.buffer = b /\ x.got = r.got /\ x.know = r.know
    BY DEF Socket
  <2> HIDE DEF x
  <2>5. RecordInv(x)
    BY <1>2, <1>5, <2>2, <2>4 DEF RecordInv
  <2>6. Told(x, v)
    <3> SUFFICES ASSUME r.conn = "open", r.phase = "read"
                 PROVE  \/ v <= r.page.mark
                        \/ \E i \in DOMAIN b : v <= b[i].pos
      BY <1>5, <2>4 DEF Told
    <3>1. CASE v <= n.pos
      BY <2>2, <3>1
    <3>2. CASE v <= o /\ o <= r.page.mark
      BY <1>2, <3>2
    <3>3. ASSUME v <= o, NEW i \in DOMAIN r.buffer, o <= r.buffer[i].pos
          PROVE  \E j \in DOMAIN b : v <= b[j].pos
      <4>1. r.buffer[i] \in Notification
        BY <1>2, <3>3
      <4>2. r.buffer[i].pos \in 0..MaxHead
        BY <4>1 DEF Notification
      <4>3. v <= b[i].pos /\ i \in DOMAIN b
        BY <2>2, <3>3, <4>2
      <4> QED
        BY <4>3
    <3> QED
      BY <3>1, <3>2, <3>3 DEF Told
  <2> QED
    BY <2>3, <2>4, <2>5, <2>6
<1> QED
  BY <1>2, <1>3, <1>4, <1>5

\* As many positions as notifications, at most.
LEMMA BufferBound ==
    ASSUME NEW b \in Seq(Notification), NEW S \in SUBSET Positions,
           \A p \in S : \E i \in DOMAIN b : p = b[i].pos
    PROVE  Cardinality(S) <= Len(b)
<1> DEFINE F == [i \in 1..Len(b) |-> b[i].pos]
           A == {b[i].pos : i \in 1..Len(b)}
<1>1. Len(b) \in Nat /\ DOMAIN b = 1..Len(b)
  BY LenProperties
<1>2. F \in Surjection(1..Len(b), A)
  BY DEF Surjection
<1>3. ExistsSurjection(1..Len(b), A)
  <2> HIDE DEF F, A
  <2> QED
    BY <1>2 DEF ExistsSurjection
<1>4. S \in SUBSET A
  BY <1>1
<1> HIDE DEF A
<1>5. Cardinality(A) <= Len(b)
  BY <1>1, <1>3, FS_SurjCardinalityBound
<1>6. IsFiniteSet(A)
  BY <1>1, <1>3, FS_NatSurjection
<1>7. Cardinality(S) <= Cardinality(A) /\ Cardinality(A) \in Nat /\ Cardinality(S) \in Nat
  BY <1>4, <1>6, FS_Subset, FS_CardinalityType, PendFinite
<1> QED
  BY <1>1, <1>5, <1>7

\* A set of positions with an upper bound has a greatest one, from p on.
LEMMA GreatestPosition ==
    ASSUME NEW p \in 0..MaxHead, NEW S \in SUBSET (0..MaxHead)
    PROVE  \E q \in S \cup {p} : p <= q /\ \A n \in S : n <= q
<1> DEFINE U == {u \in Nat : p <= u /\ \A n \in S : n <= u}
<1>1. MaxHead \in Nat /\ p \in Nat /\ S \subseteq Nat
  BY DeliveryAssumption
<1>2. MaxHead \in U
  BY <1>1
<1>3. PICK m \in U : \A k \in U : m <= k
  BY <1>2, LeastNumber
<1>4. m \in S \cup {p}
  <2> SUFFICES ASSUME m \notin S, m # p PROVE FALSE
    OBVIOUS
  <2>1. m \in Nat /\ p <= m - 1 /\ \A n \in S : n <= m - 1
    BY <1>1, <1>3
  <2>2. m - 1 \in U
    BY <1>1, <2>1
  <2> QED
    BY <1>3, <2>1, <2>2
<1> QED
  BY <1>3, <1>4

\* activate: all that was buffered is announced, and what is contiguous is delivered.
LEMMA ReplayRecord ==
    ASSUME NEW r \in Socket, RecordInv(r), r.phase = "idle"
    PROVE  LET x == Replay(r)
           IN  /\ x \in Socket /\ RecordInv(x) /\ Grown(x, r)
               /\ x.phase = r.phase /\ x.page = r.page /\ x.ctx = r.ctx
               /\ x.conn = "open" => \A i \in DOMAIN r.buffer : r.buffer[i].pos <= x.know
<1> DEFINE all == {r.buffer[i] : i \in DOMAIN r.buffer}
           new == {n \in all : n.pos > r.pos}
           S == {n.pos : n \in {m \in new : m.kind = "message"}}
           N == {n.pos : n \in new}
           top == CHOOSE q \in N \cup {r.pos} : \A n \in new : n.pos <= q
           y == [r EXCEPT !.pend = S]
           f == Flush(y)
           g == Send(f, {}, top)
           x == [g EXCEPT !.active = TRUE, !.buffer = <<>>]
<1>1. Replay(r) = x
  BY DEF Replay
<1>2. /\ r.pos \in 0..MaxHead /\ r.pos \in Nat /\ MaxHead \in Nat /\ Buffer \in Nat
      /\ r.buffer \in Seq(Notification) /\ Len(r.buffer) \in Nat /\ Len(r.buffer) <= Buffer
      /\ {} \in SUBSET Positions /\ r.know \in Nat
  BY SocketFields DEF RecordInv
<1>3. \A n \in all : n \in Notification /\ n.pos \in 0..MaxHead
  <2> TAKE n \in all
  <2>1. n \in Notification
    BY <1>2
  <2> QED
    BY <2>1 DEF Notification
<1>4. S \in SUBSET Positions /\ N \in SUBSET (0..MaxHead)
  BY <1>2, <1>3 DEF Positions
<1>5. \A p \in S : \E i \in DOMAIN r.buffer : p = r.buffer[i].pos
  OBVIOUS
<1>6. Cardinality(S) <= Len(r.buffer) /\ Cardinality(S) \in Nat
  <2> HIDE DEF S
  <2> QED
    BY <1>2, <1>4, <1>5, BufferBound, PendFinite
<1>7. /\ top \in N \cup {r.pos} /\ \A n \in new : n.pos <= top
      /\ top \in 0..MaxHead
  <2>1. \E q \in N \cup {r.pos} : \A n \in new : n.pos <= q
    <3>1. PICK q \in N \cup {r.pos} : r.pos <= q /\ \A n \in N : n <= q
      <4>1. N \in SUBSET (0..MaxHead) /\ r.pos \in 0..MaxHead
        BY <1>2, <1>4
      <4> HIDE DEF N
      <4> QED
        BY <4>1, GreatestPosition
    <3>2. \A n \in new : n.pos \in N
      OBVIOUS
    <3> QED
      BY <3>1, <3>2
  <2>2. top \in N \cup {r.pos} /\ \A n \in new : n.pos <= top
    <3> HIDE DEF N, new
    <3> QED
      BY <2>1
  <2> HIDE DEF N, top
  <2> QED
    BY <1>2, <1>4, <2>2
<1> HIDE DEF S, N, top
<1>8. /\ y \in Socket /\ y.conn = r.conn /\ y.lost = r.lost /\ y.pos = r.pos /\ y.pend = S
      /\ y.phase = r.phase /\ y.ctx = r.ctx /\ y.active = r.active /\ y.base = r.base
      /\ y.page = r.page /\ y.buffer = r.buffer /\ y.got = r.got /\ y.know = r.know
  BY <1>4 DEF Socket
<1> HIDE DEF y
<1>9. RecordInv(y)
  BY <1>2, <1>6, <1>8 DEF RecordInv
<1>10. /\ Framed(f, y) /\ Grown(f, y) /\ RecordInv(f) /\ f.conn = y.conn /\ f.lost = y.lost
       /\ f \in Socket /\ f.know \in Nat
  BY <1>8, <1>9, FlushRecord, SocketFields DEF Framed
<1> HIDE DEF f
<1>11. /\ Framed(g, f) /\ Grown(g, f) /\ g.conn = f.conn /\ g.lost = f.lost
       /\ g.pos = f.pos /\ g.pend = f.pend
       /\ g.conn = "open" => top <= g.know
  BY <1>2, <1>7, <1>10, SendRecord
<1> HIDE DEF g
<1>12. /\ g \in Socket /\ g.know \in Nat /\ g.phase = r.phase /\ g.page = r.page /\ g.ctx = r.ctx
       /\ Grown(g, r)
  BY <1>2, <1>8, <1>10, <1>11, SocketFields DEF Framed, Grown
<1>13. RecordInv(g)
  BY <1>8, <1>10, <1>11, <1>12, SocketFields DEF RecordInv, Framed, Grown
<1>14. /\ x \in Socket /\ x.conn = g.conn /\ x.lost = g.lost /\ x.pos = g.pos /\ x.pend = g.pend
       /\ x.phase = g.phase /\ x.ctx = g.ctx /\ x.active = TRUE /\ x.base = g.base
       /\ x.page = g.page /\ x.buffer = <<>> /\ x.got = g.got /\ x.know = g.know
  <2>1. <<>> \in Seq(Notification)
    OBVIOUS
  <2> QED
    BY <1>12, <2>1 DEF Socket
<1> HIDE DEF x
<1>15. RecordInv(x)
  <2>1. Len(<<>>) <= Buffer
    BY <1>2
  <2> QED
    BY <1>12, <1>13, <1>14, <2>1 DEF RecordInv
<1>16. ASSUME x.conn = "open", NEW i \in DOMAIN r.buffer
       PROVE  r.buffer[i].pos <= x.know
  <2>1. PICK n \in all : n = r.buffer[i]
    OBVIOUS
  <2>2. n.pos \in 0..MaxHead /\ (n \in new \/ n.pos <= r.pos)
    BY <1>2, <1>3, <2>1
  <2>3. CASE n \in new
    BY <1>7, <1>11, <1>12, <1>14, <1>16, <2>1, <2>2, <2>3
  <2>4. CASE n.pos <= r.pos
    <3>1. r.conn = "open" /\ r.pos <= r.know /\ r.know <= x.know
      BY <1>12, <1>14, <1>16 DEF Grown, RecordInv
    <3> QED
      BY <1>2, <1>12, <1>14, <2>1, <2>2, <2>4, <3>1
  <2> QED
    BY <2>2, <2>3, <2>4
<1> QED
  BY <1>1, <1>12, <1>14, <1>15, <1>16 DEF Grown

\* A page is sent: the client has its positions and knows its watermark.
LEMMA PageRecord ==
    ASSUME NEW r \in Socket
    PROVE  LET x == SendPage(r)
           IN  /\ Framed(x, r) /\ Grown(x, r) /\ x.conn = r.conn /\ x.lost = r.lost
               /\ x.pos = r.pos /\ x.pend = r.pend
               /\ x.conn = "open" => /\ (r.page.from + 1)..r.page.to \subseteq x.got
                                     /\ r.page.mark <= x.know
<1>1. /\ r.page.from \in 0..MaxHead /\ r.page.to \in 0..MaxHead /\ r.page.mark \in 0..MaxHead
      /\ MaxHead \in Nat
  BY SocketFields
<1>2. (r.page.from + 1)..r.page.to \in SUBSET Positions
  BY <1>1 DEF Positions
<1> QED
  BY <1>1, <1>2, SendRecord DEF SendPage

\* A page answers chat.sync.request and the cursor follows its last row.
LEMMA AdvanceRecord ==
    ASSUME NEW r \in Socket, RecordInv(r), r.phase = "syncing"
    PROVE  LET x == Advance(SendPage(r))
           IN  /\ Framed(x, r) /\ Grown(x, r) /\ RecordInv(x)
<1> DEFINE g == SendPage(r)
           x == Advance(g)
<1>1. /\ Framed(g, r) /\ Grown(g, r) /\ g.conn = r.conn /\ g.lost = r.lost
      /\ g.pos = r.pos /\ g.pend = r.pend
      /\ g.conn = "open" => /\ (r.page.from + 1)..r.page.to \subseteq g.got
                            /\ r.page.mark <= g.know
  BY PageRecord
<1> HIDE DEF g
<1>2. /\ g \in Socket /\ g.know \in Nat /\ r.know \in Nat /\ r.pos \in Nat /\ g.base \in Nat
      /\ r.page.from \in 0..MaxHead /\ r.page.to \in 0..MaxHead /\ r.page.mark \in 0..MaxHead
      /\ MaxHead \in Nat /\ Buffer \in Nat /\ r.pend \in SUBSET Positions
      /\ g.page = r.page /\ g.base = r.base /\ g.phase = "syncing"
  BY <1>1, SocketFields DEF Framed
<1>3. RecordInv(g)
  BY <1>1, <1>2 DEF RecordInv, Framed, Grown
<1>4. CASE g.page.to <= g.pos \/ g.lost
  <2>1. x = g
    BY <1>4 DEF Advance
  <2> QED
    BY <1>1, <1>3, <2>1 DEF g
<1>5. CASE ~(g.page.to <= g.pos \/ g.lost)
  <2>1. PICK S \in SUBSET Positions : S = {q \in g.pend : q > r.page.to}
    BY <1>1, <1>2
  <2> DEFINE y == [g EXCEPT !.pos = r.page.to, !.pend = S]
  <2>2. x = Flush(y)
    BY <1>2, <1>5, <2>1 DEF Advance
  <2>3. /\ y \in Socket /\ y.conn = g.conn /\ y.lost = g.lost /\ y.pos = r.page.to /\ y.pend = S
        /\ y.phase = g.phase /\ y.ctx = g.ctx /\ y.active = g.active /\ y.base = g.base
        /\ y.page = g.page /\ y.buffer = g.buffer /\ y.got = g.got /\ y.know = g.know
    BY <1>2, <2>1 DEF Socket
  <2> HIDE DEF y
  <2>4. Cardinality(S) <= Buffer
    <3>1. S \in SUBSET r.pend
      BY <1>1, <2>1
    <3>2. Cardinality(S) <= Cardinality(r.pend)
      BY <1>2, <3>1, PendFinite, FS_Subset
    <3> QED
      BY <1>2, <2>1, <3>2, PendFinite DEF RecordInv
  <2>5. y.conn = "open" => (y.base + 1)..y.pos \subseteq y.got
    <3> SUFFICES ASSUME g.conn = "open", NEW i \in (g.base + 1)..r.page.to
                 PROVE  i \in g.got
      BY <2>3
    <3>1. i \in 1..r.page.from \/ i \in (r.page.from + 1)..r.page.to
      BY <1>2
    <3>2. 1..r.page.from \subseteq g.got
      BY <1>1 DEF RecordInv, Grown
    <3> QED
      BY <1>1, <3>1, <3>2
  <2>6. y.conn = "open" => y.pos <= y.know
    BY <1>1, <1>2, <2>3 DEF RecordInv
  <2>7. RecordInv(y)
    BY <1>2, <1>3, <2>3, <2>4, <2>5, <2>6 DEF RecordInv
  <2>8. Framed(x, y) /\ Grown(x, y) /\ RecordInv(x)
    BY <2>2, <2>3, <2>7, FlushRecord
  <2> HIDE DEF x
  <2>9. x.know \in Nat
    BY <2>8, SocketFields DEF Framed
  <2>10. Framed(x, r) /\ Grown(x, r)
    BY <1>1, <1>2, <2>3, <2>8, <2>9 DEF Framed, Grown
  <2> QED
    BY <2>8, <2>10 DEF x, g
<1> QED
  BY <1>4, <1>5
-----------------------------------------------------------------------------
\* Who is told of o is told of what is below it.
LEMMA ToldBelow ==
    ASSUME NEW r \in Socket, NEW o \in Int, NEW v \in Int, v <= o, Told(r, o)
    PROVE  Told(r, v)
<1>1. r.know \in Nat /\ r.page.mark \in 0..MaxHead /\ r.buffer \in Seq(Notification)
  BY SocketFields
<1>2. \A i \in DOMAIN r.buffer : r.buffer[i].pos \in 0..MaxHead
  <2> TAKE i \in DOMAIN r.buffer
  <2>1. r.buffer[i] \in Notification
    BY <1>1
  <2> QED
    BY <2>1 DEF Notification
<1> QED
  BY <1>1, <1>2 DEF Told

\* Types of the process, one fact for the provers.
LEMMA ProcessFields ==
    ASSUME FeedInv
    PROVE  /\ head \in 0..MaxHead /\ head \in Nat /\ MaxHead \in Nat
           /\ observed \in -1..MaxHead /\ observed \in Int /\ -1 <= observed
           /\ poll \in -1..MaxHead /\ poll \in Int
           /\ sub \in Subscription \cup {Absent} /\ channel \in BOOLEAN /\ leaving \subseteq Sockets
           /\ sock \in [Sockets -> Socket] /\ Listeners \subseteq Sockets
           /\ Absent \notin Subscription
<1>1. Absent \notin Subscription
  BY DeliveryAssumption DEF Subscription
<1>2. /\ head \in 0..MaxHead /\ observed \in -1..MaxHead /\ poll \in -1..MaxHead /\ MaxHead \in Nat
      /\ sub \in Subscription \cup {Absent} /\ channel \in BOOLEAN /\ leaving \subseteq Sockets
      /\ sock \in [Sockets -> Socket]
  BY DeliveryAssumption DEF FeedInv, FeedTypeOK
<1>3. Listeners \subseteq Sockets
  BY <1>2 DEF Listeners, Subscription
<1> QED
  BY <1>1, <1>2, <1>3

\* A step of one socket, in which nobody else starts to listen and nothing is observed.
LEMMA SocketStep ==
    ASSUME FeedInv, NEW s \in Sockets, NEW x \in Socket, RecordInv(x), Set(s, x),
           head' = head, poll' = poll, observed' \in {observed, -1},
           sub' \in Subscription \cup {Absent}, channel' \in BOOLEAN, leaving' \subseteq Sockets,
           Listeners' \ {s} \subseteq Listeners,
           s \in Listeners' => Told(x, observed')
    PROVE  FeedInv'
<1>1. /\ head \in Nat /\ MaxHead \in Nat /\ observed \in Int /\ -1 <= observed
      /\ sock \in [Sockets -> Socket] /\ Listeners \subseteq Sockets
      /\ observed <= head /\ poll <= head
  BY ProcessFields DEF FeedInv
<1>2. sock' \in [Sockets -> Socket] /\ sock'[s] = x /\ \A q \in Sockets : q # s => sock'[q] = sock[q]
  BY <1>1 DEF Set
<1>3. observed' \in Int /\ observed' <= observed /\ observed' <= head
      /\ observed' \in -1..MaxHead
  BY <1>1, ProcessFields
<1>4. \A q \in Sockets : RecordInv(sock'[q])
  BY <1>2 DEF FeedInv
<1>5. FeedTypeOK'
  BY <1>2, <1>3, <1>4, ProcessFields DEF FeedTypeOK, RecordInv
<1>6. ASSUME NEW q \in Listeners'
      PROVE  Told(sock'[q], observed')
  <2>1. CASE q = s
    BY <1>2, <1>6, <2>1
  <2>2. CASE q # s
    <3>1. q \in Listeners /\ q \in Sockets /\ Told(sock[q], observed)
      BY <1>1, <1>6, <2>2 DEF FeedInv
    <3>2. sock[q] \in Socket /\ sock'[q] = sock[q]
      BY <1>1, <1>2, <2>2, <3>1
    <3> QED
      BY <1>1, <1>3, <3>1, <3>2, ToldBelow
  <2> QED
    BY <2>1, <2>2
<1> QED
  BY <1>1, <1>3, <1>4, <1>5, <1>6 DEF FeedInv

\* unwatch takes this listener away and no other.
LEMMA UnwatchFacts ==
    ASSUME FeedInv, NEW s \in Sockets, Unwatch(s)
    PROVE  /\ sub' \in Subscription \cup {Absent} /\ leaving' \subseteq Sockets
           /\ observed' \in {observed, -1} /\ Listeners' = Listeners \ {s}
<1>1. /\ sub \in Subscription \cup {Absent} /\ leaving \subseteq Sockets
      /\ Absent \notin Subscription
  BY ProcessFields
<1>2. CASE s \notin Listeners
  BY <1>1, <1>2 DEF Unwatch, Listeners
<1>3. CASE s \in Listeners
  <2>1. sub \in Subscription /\ sub # Absent /\ Listeners = sub.listeners /\ s \in sub.listeners
    BY <1>1, <1>3 DEF Listeners
  <2>2. CASE sub.listeners # {s}
    <3>1. PICK L \in (SUBSET Sockets) \ {{}} : L = sub.listeners \ {s}
      BY <2>1, <2>2 DEF Subscription
    <3> DEFINE n == [sub EXCEPT !.listeners = L]
    <3>2. sub' = n /\ leaving' = leaving /\ observed' = observed
      BY <1>3, <2>2, <3>1 DEF Unwatch
    <3>3. n \in Subscription /\ n.listeners = L
      BY <2>1 DEF Subscription
    <3> HIDE DEF n
    <3>4. sub' # Absent /\ Listeners' = L
      BY <1>1, <3>2, <3>3 DEF Listeners
    <3> QED
      BY <1>1, <2>1, <3>1, <3>2, <3>3, <3>4
  <2>3. CASE sub.listeners = {s}
    <3>1. sub' = Absent /\ leaving' = leaving \cup {s} /\ observed' = -1
      BY <1>3, <2>3 DEF Unwatch
    <3> QED
      BY <1>1, <2>1, <2>3, <3>1 DEF Listeners
  <2> QED
    BY <2>2, <2>3
<1> QED
  BY <1>2, <1>3

\* notify reaches every listener.
LEMMA NotifyInv ==
    ASSUME FeedInv, NEW n \in Notification, Notify(n),
           head' = head, sub' = sub, channel' = channel, leaving' = leaving,
           poll' \in {poll, -1},
           observed' \in -1..MaxHead, observed' <= head,
           observed' <= observed \/ observed' <= n.pos
    PROVE  FeedInv'
<1>1. /\ head \in Nat /\ MaxHead \in Nat /\ observed \in Int /\ -1 <= observed
      /\ sock \in [Sockets -> Socket] /\ Listeners \subseteq Sockets
      /\ observed <= head /\ poll <= head /\ observed' \in Int
  BY ProcessFields DEF FeedInv
<1>2. ASSUME NEW q \in Sockets
      PROVE  sock'[q] \in Socket /\ RecordInv(sock'[q])
             /\ (q \in Listeners => Told(sock'[q], observed'))
  <2>1. sock[q] \in Socket /\ RecordInv(sock[q])
    BY <1>1 DEF FeedInv
  <2>2. CASE q \in Listeners
    <3>1. Told(sock[q], observed)
      BY <2>2 DEF FeedInv
    <3>2. sock'[q] = Listener(sock[q], n)
      BY <2>2 DEF Notify
    <3> QED
      BY <1>1, <2>1, <3>1, <3>2, ListenerRecord
  <2>3. CASE q \notin Listeners
    <3>1. sock'[q] = sock[q]
      BY <2>3 DEF Notify
    <3> QED
      BY <2>1, <2>3, <3>1
  <2> QED
    BY <2>2, <2>3
<1>3. sock' \in [Sockets -> Socket]
  BY <1>2 DEF Notify
<1>4. poll' \in -1..MaxHead /\ poll' <= head
  BY <1>1, ProcessFields
<1>5. FeedTypeOK'
  BY <1>2, <1>3, <1>4, ProcessFields DEF FeedTypeOK, RecordInv
<1>6. Listeners' = Listeners
  BY DEF Listeners
<1> QED
  BY <1>1, <1>2, <1>4, <1>5, <1>6 DEF FeedInv

\* A step that leaves the sockets and the listeners alone.
LEMMA ProcessStep ==
    ASSUME FeedInv, sock' = sock, Listeners' = Listeners, observed' = observed,
           head' \in 0..MaxHead, head <= head', poll' \in -1..MaxHead, poll' <= head',
           sub' \in Subscription \cup {Absent}, channel' \in BOOLEAN, leaving' \subseteq Sockets
    PROVE  FeedInv'
<1>1. /\ head \in Nat /\ observed \in Int /\ observed <= head /\ head' \in Nat
      /\ sock \in [Sockets -> Socket] /\ Listeners \subseteq Sockets
  BY ProcessFields DEF FeedInv
<1>2. observed' <= head'
  BY <1>1
<1>3. FeedTypeOK'
  BY DEF FeedInv, FeedTypeOK
<1>4. \A s \in Listeners' : Told(sock'[s], observed')
  BY DEF FeedInv
<1> QED
  BY <1>2, <1>3, <1>4 DEF FeedInv

\* A socket goes on to another phase, maybe with another page; all else is left alone.
Moved(x, r) ==
    /\ x \in Socket
    /\ x.conn = r.conn /\ x.active = r.active /\ x.lost = r.lost /\ x.buffer = r.buffer
    /\ x.base = r.base /\ x.pos = r.pos /\ x.pend = r.pend /\ x.got = r.got /\ x.know = r.know

\* Every await that ends only moves its socket on, and that keeps the invariant.
LEMMA MovedInv ==
    ASSUME NEW r \in Socket, RecordInv(r), NEW x, Moved(x, r), x.page.to <= x.page.mark,
           x.conn = "open" /\ x.phase = "syncing" => 1..x.page.from \subseteq r.got,
           x.phase \in {"watching", "reading", "read"} => ~r.active
    PROVE  /\ RecordInv(x)
           /\ \A o : Told(r, o) /\ (x.phase = "read" => o <= x.page.mark) => Told(x, o)
BY DEF RecordInv, Told, Moved

\* room.subscribe.
LEMMA SubscribeInv ==
    ASSUME FeedInv, NEW s \in Sockets, Subscribe(s)
    PROVE  FeedInv'
<1>1. PICK r \in Socket : r = sock[s] /\ RecordInv(r)
  BY ProcessFields DEF FeedInv
<1>2. PICK x \in Socket : x = [r EXCEPT !.phase = "leaving"]
  BY <1>1 DEF Socket, Phases
<1>3. Moved(x, r) /\ x.phase = "leaving" /\ x.page = r.page
  BY <1>2 DEF Moved, Socket
<1>4. RecordInv(x) /\ \A o : Told(r, o) => Told(x, o)
  BY <1>1, <1>3, MovedInv DEF RecordInv
<1>5. Set(s, x) /\ UNCHANGED <<head, channel, poll>>
  BY <1>1, <1>2 DEF Subscribe
<1>6. CASE sock[s].ctx
  <2>1. Unwatch(s)
    BY <1>6 DEF Subscribe
  <2>2. /\ sub' \in Subscription \cup {Absent} /\ leaving' \subseteq Sockets
        /\ observed' \in {observed, -1} /\ Listeners' = Listeners \ {s}
    BY <2>1, UnwatchFacts
  <2> QED
    BY <1>4, <1>5, <2>2, SocketStep, ProcessFields
<1>7. CASE ~sock[s].ctx
  <2>1. UNCHANGED <<sub, leaving, observed>>
    BY <1>7 DEF Subscribe
  <2>2. Listeners' = Listeners
    BY <2>1 DEF Listeners
  <2>3. s \in Listeners' => Told(x, observed')
    BY <1>1, <1>4, <2>1, <2>2 DEF FeedInv
  <2> QED
    BY <1>4, <1>5, <2>1, <2>2, <2>3, SocketStep, ProcessFields
<1> QED
  BY <1>6, <1>7

\* watch: the new listener starts from nothing.
LEMMA WatchInv ==
    ASSUME FeedInv, NEW s \in Sockets, Watch(s)
    PROVE  FeedInv'
<1>1. PICK r \in Socket : r = sock[s] /\ RecordInv(r)
  BY ProcessFields DEF FeedInv
<1>2. /\ 0 \in 0..MaxHead /\ {} \in SUBSET Positions /\ <<>> \in Seq(Notification) /\ Buffer \in Nat
  BY DeliveryAssumption
<1> DEFINE x == [r EXCEPT !.phase = "watching", !.ctx = FALSE, !.active = FALSE,
                          !.lost = FALSE, !.buffer = <<>>, !.base = 0, !.pos = 0,
                          !.pend = {}]
<1>3. /\ x \in Socket /\ x.phase = "watching" /\ ~x.active /\ ~x.lost /\ x.buffer = <<>>
      /\ x.base = 0 /\ x.pos = 0 /\ x.pend = {} /\ x.page = r.page /\ x.know = r.know
  BY <1>2 DEF Socket, Phases
<1>4. Set(s, x) /\ UNCHANGED <<head, leaving, observed, poll>>
  BY <1>1 DEF Watch
<1> HIDE DEF x
<1>5. RecordInv(x)
  <2>1. Cardinality({}) = 0 /\ Len(<<>>) = 0
    BY FS_EmptySet
  <2>2. (0 + 1)..0 = {} /\ r.know \in Nat
    BY SocketFields
  <2> QED
    BY <1>1, <1>2, <1>3, <2>1, <2>2 DEF RecordInv
<1>6. \A o : Told(x, o)
  BY <1>3 DEF Told
<1>7. /\ sub' \in Subscription \cup {Absent} /\ channel' \in BOOLEAN
      /\ Listeners' \ {s} \subseteq Listeners
  <2>1. CASE sub = Absent /\ sub' = [listeners |-> {s}, ready |-> FALSE] /\ channel' = TRUE
    <3>1. sub' \in Subscription /\ sub'.listeners = {s}
      BY <2>1 DEF Subscription
    <3> QED
      BY <2>1, <3>1, ProcessFields DEF Listeners
  <2>2. CASE sub # Absent /\ sub' = [sub EXCEPT !.listeners = @ \cup {s}] /\ UNCHANGED channel
    <3>1. sub \in Subscription /\ channel \in BOOLEAN /\ Absent \notin Subscription
      BY <2>2, ProcessFields
    <3>2. PICK L \in (SUBSET Sockets) \ {{}} : L = sub.listeners \cup {s}
      BY <3>1 DEF Subscription
    <3>3. sub' = [sub EXCEPT !.listeners = L]
      BY <2>2, <3>2
    <3>4. sub' \in Subscription /\ sub'.listeners = L
      BY <3>1, <3>3 DEF Subscription
    <3> QED
      BY <2>2, <3>1, <3>2, <3>4 DEF Listeners
  <2> QED
    BY <2>1, <2>2 DEF Watch
<1> QED
  BY <1>3, <1>4, <1>5, <1>6, <1>7, SocketStep, ProcessFields

\* Steps of a socket that leave the process as it is.
LEMMA AloneStep ==
    ASSUME FeedInv, NEW s \in Sockets, NEW x \in Socket, RecordInv(x), Set(s, x),
           UNCHANGED <<head, fanout>>, s \in Listeners => Told(x, observed)
    PROVE  FeedInv'
<1>1. Listeners' = Listeners
  BY DEF Listeners, fanout
<1> QED
  BY <1>1, SocketStep, ProcessFields DEF fanout

\* await ready.
LEMMA WatchedInv ==
    ASSUME FeedInv, NEW s \in Sockets, Watched(s)
    PROVE  FeedInv'
<1>1. PICK r \in Socket : r = sock[s] /\ RecordInv(r)
  BY ProcessFields DEF FeedInv
<1>2. PICK x \in Socket : x = [r EXCEPT !.phase = "reading"]
  BY <1>1 DEF Socket, Phases
<1>3. Moved(x, r) /\ x.phase = "reading" /\ x.page = r.page
  BY <1>2 DEF Moved, Socket
<1>4. r.phase = "watching" /\ Set(s, x) /\ UNCHANGED <<head, fanout>>
  BY <1>1, <1>2 DEF Watched
<1>5. RecordInv(x) /\ \A o : Told(r, o) => Told(x, o)
  BY <1>1, <1>3, <1>4, MovedInv DEF RecordInv
<1>6. s \in Listeners => Told(x, observed)
  BY <1>1, <1>5 DEF FeedInv
<1> QED
  BY <1>4, <1>5, <1>6, AloneStep

\* synchronize reads a page that builds on what the client has, up to the durable head.
LEMMA ReadPageFacts ==
    ASSUME FeedInv, NEW r \in Socket
    PROVE  LET g == ReadSnapshot(r)
           IN  g \in Page /\ g.to <= g.mark /\ 1..g.from \subseteq r.got /\ g.mark = head
<1>1. r.got \in SUBSET Positions /\ head \in 0..MaxHead /\ MaxHead \in Nat /\ PageLimit \in Nat
      /\ 0 \in 0..MaxHead
  BY SocketFields, ProcessFields, DeliveryAssumption
<1>2. PICK a \in 0..MaxHead : a = After(r) /\ (0 + 1)..a \subseteq r.got
  BY <1>1, ReachEnds DEF After
<1>3. PICK b \in 0..MaxHead : b = Smaller(a + PageLimit, head) /\ b <= head
  BY <1>1 DEF Smaller
<1>4. ReadSnapshot(r) = [from |-> a, to |-> b, mark |-> head]
  BY <1>2, <1>3 DEF ReadSnapshot
<1> QED
  BY <1>1, <1>2, <1>3, <1>4 DEF Page

\* The page is there; it was read at the durable head.
LEMMA ReadInv ==
    ASSUME FeedInv, NEW s \in Sockets, Read(s)
    PROVE  FeedInv'
<1>1. PICK r \in Socket : r = sock[s] /\ RecordInv(r)
  BY ProcessFields DEF FeedInv
<1>2. PICK g \in Page : g = ReadSnapshot(r) /\ g.to <= g.mark /\ g.mark = head
  BY ReadPageFacts
<1>3. PICK x \in Socket : x = [r EXCEPT !.phase = "read", !.page = g]
  BY <1>1 DEF Socket, Phases
<1>4. Moved(x, r) /\ x.phase = "read" /\ x.page = g
  BY <1>3 DEF Moved, Socket
<1>5. r.phase = "reading" /\ Set(s, x) /\ UNCHANGED <<head, fanout>>
  BY <1>1, <1>2, <1>3 DEF Read
<1>6. RecordInv(x) /\ \A o : Told(r, o) /\ o <= g.mark => Told(x, o)
  BY <1>1, <1>2, <1>4, <1>5, MovedInv DEF RecordInv
<1>7. s \in Listeners => Told(x, observed)
  BY <1>1, <1>2, <1>6 DEF FeedInv
<1> QED
  BY <1>5, <1>6, <1>7, AloneStep

\* The page of a socket that waits for none.
LEMMA NoPageIsPage ==
    NoPage \in Page /\ NoPage.to <= NoPage.mark /\ NoPage.from = 0
BY DeliveryAssumption DEF NoPage, Page

\* synchronize fails.
LEMMA ReadFailInv ==
    ASSUME FeedInv, NEW s \in Sockets, ReadFail(s)
    PROVE  FeedInv'
<1>1. PICK r \in Socket : r = sock[s] /\ RecordInv(r)
  BY ProcessFields DEF FeedInv
<1>2. PICK x \in Socket : x = [r EXCEPT !.phase = "failing", !.page = NoPage]
  BY <1>1, NoPageIsPage DEF Socket, Phases
<1>3. Moved(x, r) /\ x.phase = "failing" /\ x.page = NoPage
  BY <1>2 DEF Moved, Socket
<1>4. RecordInv(x)
  BY <1>1, <1>3, MovedInv, NoPageIsPage
<1>5. Set(s, x) /\ UNCHANGED <<head, channel, poll>> /\ Unwatch(s)
  BY <1>1, <1>2 DEF ReadFail
<1>6. /\ sub' \in Subscription \cup {Absent} /\ leaving' \subseteq Sockets
      /\ observed' \in {observed, -1} /\ Listeners' = Listeners \ {s}
  BY <1>5, UnwatchFacts
<1> QED
  BY <1>4, <1>5, <1>6, SocketStep, ProcessFields

\* The error is answered.
LEMMA FailedInv ==
    ASSUME FeedInv, NEW s \in Sockets, Failed(s)
    PROVE  FeedInv'
<1>1. PICK r \in Socket : r = sock[s] /\ RecordInv(r)
  BY ProcessFields DEF FeedInv
<1>2. PICK x \in Socket : x = [r EXCEPT !.phase = "idle"]
  BY <1>1 DEF Socket, Phases
<1>3. Moved(x, r) /\ x.phase = "idle" /\ x.page = r.page
  BY <1>2 DEF Moved, Socket
<1>4. Set(s, x) /\ UNCHANGED <<head, fanout>>
  BY <1>1, <1>2 DEF Failed
<1>5. RecordInv(x) /\ \A o : Told(r, o) => Told(x, o)
  BY <1>1, <1>3, MovedInv DEF RecordInv
<1>6. s \in Listeners => Told(x, observed)
  BY <1>1, <1>5 DEF FeedInv
<1> QED
  BY <1>4, <1>5, <1>6, AloneStep

\* The cursor is created, the page is sent and the buffer is replayed.
LEMMA ActivateInv ==
    ASSUME FeedInv, NEW s \in Sockets, Activate(s)
    PROVE  FeedInv'
<1>1. PICK r \in Socket : r = sock[s] /\ RecordInv(r)
  BY ProcessFields DEF FeedInv
<1>2. /\ r.page \in Page /\ r.page.mark \in 0..MaxHead /\ MaxHead \in Nat /\ {} \in SUBSET Positions
      /\ Buffer \in Nat /\ r.buffer \in Seq(Notification) /\ observed \in Int
  BY SocketFields, ProcessFields
<1>3. PICK m \in 0..MaxHead : m = r.page.mark
  BY <1>2
<1> DEFINE y == [r EXCEPT !.phase = "idle", !.ctx = TRUE, !.pend = {}, !.pos = m, !.base = m]
           g == SendPage(y)
           h == IF g.lost THEN g ELSE Replay(g)
           x == [h EXCEPT !.page = NoPage]
<1>4. r.phase = "read" /\ Set(s, x) /\ UNCHANGED <<head, fanout>>
  BY <1>1, <1>3 DEF Activate
<1>5. /\ y \in Socket /\ y.conn = r.conn /\ y.lost = r.lost /\ y.pos = m /\ y.pend = {}
      /\ y.phase = "idle" /\ y.active = r.active /\ y.base = m
      /\ y.page = r.page /\ y.buffer = r.buffer
  BY <1>2, <1>3 DEF Socket, Phases
<1> HIDE DEF y
<1>6. /\ Framed(g, y) /\ g.conn = y.conn /\ g.lost = y.lost /\ g.pos = y.pos /\ g.pend = y.pend
      /\ g.conn = "open" => m <= g.know
  BY <1>3, <1>5, PageRecord
<1> HIDE DEF g
<1>7. g \in Socket /\ g.know \in Nat /\ g.phase = "idle" /\ g.page = r.page /\ g.buffer = r.buffer
  BY <1>5, <1>6, SocketFields DEF Framed
<1>8. RecordInv(g)
  <2>1. Cardinality({}) = 0 /\ (m + 1)..m = {}
    BY <1>2, FS_EmptySet
  <2> QED
    BY <1>1, <1>2, <1>5, <1>6, <1>7, <2>1 DEF RecordInv, Framed
<1>9. /\ h \in Socket /\ RecordInv(h) /\ h.phase = "idle"
      /\ h.conn = "open" => /\ m <= h.know
                            /\ \A i \in DOMAIN r.buffer : r.buffer[i].pos <= h.know
  <2>1. CASE g.lost
    BY <1>7, <1>8, <2>1 DEF RecordInv
  <2>2. CASE ~g.lost
    <3>1. /\ h \in Socket /\ RecordInv(h) /\ Grown(h, g) /\ h.phase = g.phase
          /\ h.conn = "open" => \A i \in DOMAIN g.buffer : g.buffer[i].pos <= h.know
      BY <1>7, <1>8, <2>2, ReplayRecord
    <3> HIDE DEF h
    <3>2. h.know \in Nat /\ m \in Nat
      BY <1>2, <3>1, SocketFields
    <3> QED
      BY <1>6, <1>7, <3>1, <3>2 DEF Grown
  <2> QED
    BY <2>1, <2>2
<1> HIDE DEF h
<1>10. Moved(x, h) /\ x.phase = "idle" /\ x.page = NoPage /\ x \in Socket
  BY <1>9, NoPageIsPage DEF Moved, Socket
<1> HIDE DEF x
<1>11. RecordInv(x)
  BY <1>9, <1>10, MovedInv, NoPageIsPage
<1>12. ASSUME s \in Listeners, x.conn = "open"
       PROVE  observed <= x.know
  <2>1. x.know = h.know /\ h.conn = "open" /\ h.know \in Nat /\ r.conn = "open"
    <3>1. h.conn = "open" => r.conn = "open"
      <4>1. CASE g.lost
        BY <1>5, <1>6, <4>1 DEF h
      <4>2. CASE ~g.lost
        BY <1>5, <1>6, <1>7, <1>8, <4>2, ReplayRecord DEF h, Grown
      <4> QED
        BY <4>1, <4>2
    <3> QED
      BY <1>9, <1>10, <1>12, <3>1, SocketFields DEF Moved
  <2>2. Told(r, observed)
    BY <1>1, <1>12 DEF FeedInv
  <2>3. CASE observed <= r.page.mark
    BY <1>2, <1>3, <1>9, <2>1, <2>3
  <2>4. CASE \E i \in DOMAIN r.buffer : observed <= r.buffer[i].pos
    <3>1. PICK i \in DOMAIN r.buffer : observed <= r.buffer[i].pos
      BY <2>4
    <3>2. r.buffer[i] \in Notification
      BY <1>2
    <3>3. r.buffer[i].pos \in 0..MaxHead
      BY <3>2 DEF Notification
    <3>4. r.buffer[i].pos <= h.know
      BY <1>9, <2>1
    <3> QED
      BY <1>2, <2>1, <3>1, <3>3, <3>4
  <2> QED
    BY <1>4, <2>1, <2>2, <2>3, <2>4 DEF Told
<1>13. s \in Listeners => Told(x, observed)
  BY <1>10, <1>12 DEF Told
<1> QED
  BY <1>4, <1>10, <1>11, <1>13, AloneStep

\* chat.sync.request.
LEMMA SyncInv ==
    ASSUME FeedInv, NEW s \in Sockets, Sync(s)
    PROVE  FeedInv'
<1>1. PICK r \in Socket : r = sock[s] /\ RecordInv(r)
  BY ProcessFields DEF FeedInv
<1>2. PICK g \in Page : g = ReadSnapshot(r) /\ g.to <= g.mark /\ 1..g.from \subseteq r.got
  BY ReadPageFacts
<1>3. PICK x \in Socket : x = [r EXCEPT !.phase = "syncing", !.page = g]
  BY <1>1 DEF Socket, Phases
<1>4. Moved(x, r) /\ x.phase = "syncing" /\ x.page = g
  BY <1>3 DEF Moved, Socket
<1>5. Set(s, x) /\ UNCHANGED <<head, fanout>>
  BY <1>1, <1>2, <1>3 DEF Sync
<1>6. RecordInv(x) /\ \A o : Told(r, o) => Told(x, o)
  BY <1>1, <1>2, <1>4, MovedInv
<1>7. s \in Listeners => Told(x, observed)
  BY <1>1, <1>6 DEF FeedInv
<1> QED
  BY <1>5, <1>6, <1>7, AloneStep

\* The page is answered.
LEMMA SyncReplyInv ==
    ASSUME FeedInv, NEW s \in Sockets, SyncReply(s)
    PROVE  FeedInv'
<1>1. PICK r \in Socket : r = sock[s] /\ RecordInv(r)
  BY ProcessFields DEF FeedInv
<1>2. PICK h : h = Advance(SendPage(r))
  OBVIOUS
<1>3. r.phase = "syncing"
  BY <1>1 DEF SyncReply
<1>4. h \in Socket /\ Framed(h, r) /\ Grown(h, r) /\ RecordInv(h)
  BY <1>1, <1>2, <1>3, AdvanceRecord DEF Framed
<1>5. PICK x \in Socket : x = [h EXCEPT !.phase = "idle", !.page = NoPage]
  BY <1>4, NoPageIsPage DEF Socket, Phases
<1>6. Moved(x, h) /\ x.phase = "idle" /\ x.page = NoPage
  BY <1>4, <1>5 DEF Moved, Socket
<1>7. Set(s, x) /\ UNCHANGED <<head, fanout>>
  BY <1>1, <1>2, <1>5 DEF SyncReply
<1>8. RecordInv(x)
  BY <1>4, <1>6, MovedInv, NoPageIsPage
<1>9. s \in Listeners => Told(x, observed)
  <2>1. h.know \in Nat /\ r.know \in Nat /\ observed \in Int
    BY <1>4, SocketFields, ProcessFields
  <2>2. s \in Listeners => Told(r, observed)
    BY <1>1 DEF FeedInv
  <2> QED
    BY <1>4, <1>6, <2>1, <2>2 DEF Told, Moved, Framed, Grown
<1> QED
  BY <1>7, <1>8, <1>9, AloneStep

\* chat.sync.request fails.
LEMMA SyncFailInv ==
    ASSUME FeedInv, NEW s \in Sockets, SyncFail(s)
    PROVE  FeedInv'
<1>1. PICK r \in Socket : r = sock[s] /\ RecordInv(r)
  BY ProcessFields DEF FeedInv
<1>2. PICK x \in Socket : x = [r EXCEPT !.phase = "idle", !.page = NoPage]
  BY <1>1, NoPageIsPage DEF Socket, Phases
<1>3. Moved(x, r) /\ x.phase = "idle" /\ x.page = NoPage
  BY <1>2 DEF Moved, Socket
<1>4. Set(s, x) /\ UNCHANGED <<head, fanout>>
  BY <1>1, <1>2 DEF SyncFail
<1>5. RecordInv(x) /\ \A o : Told(r, o) => Told(x, o)
  BY <1>1, <1>3, MovedInv, NoPageIsPage
<1>6. s \in Listeners => Told(x, observed)
  BY <1>1, <1>5 DEF FeedInv
<1> QED
  BY <1>4, <1>5, <1>6, AloneStep

\* The client leaves: closeSocket.
LEMMA DisconnectInv ==
    ASSUME FeedInv, NEW s \in Sockets, Disconnect(s)
    PROVE  FeedInv'
<1>1. PICK r \in Socket : r = sock[s] /\ RecordInv(r)
  BY ProcessFields DEF FeedInv
<1>2. PICK x : x = CloseSocket(r)
  OBVIOUS
<1>3. x \in Socket /\ x.conn # "open" /\ RecordInv(x)
  BY <1>1, <1>2, ClosedRecord, ClosedInv DEF Framed, RecordInv
<1>4. Set(s, x) /\ UNCHANGED <<head, fanout>>
  BY <1>1, <1>2 DEF Disconnect
<1> QED
  BY <1>3, <1>4, AloneStep DEF Told

\* cleanup, at the close event.
LEMMA CleanupInv ==
    ASSUME FeedInv, NEW s \in Sockets, Cleanup(s)
    PROVE  FeedInv'
<1>1. PICK r \in Socket : r = sock[s] /\ RecordInv(r)
  BY ProcessFields DEF FeedInv
<1>2. PICK x \in Socket : x = [r EXCEPT !.conn = "closed"]
  BY <1>1 DEF Socket
<1>3. /\ x.conn = "closed" /\ x.phase = r.phase /\ x.active = r.active /\ x.pend = r.pend
      /\ x.buffer = r.buffer /\ x.page = r.page
  BY <1>2 DEF Socket
<1>4. RecordInv(x) /\ \A o : Told(x, o)
  BY <1>1, <1>3 DEF RecordInv, Told
<1>5. Set(s, x) /\ UNCHANGED <<head, channel, poll>>
  BY <1>1, <1>2 DEF Cleanup
<1>6. /\ sub' \in Subscription \cup {Absent} /\ leaving' \subseteq Sockets
      /\ observed' \in {observed, -1} /\ Listeners' \subseteq Listeners
  <2>1. CASE sock[s].ctx
    BY <2>1, UnwatchFacts DEF Cleanup
  <2>2. CASE ~sock[s].ctx
    BY <2>2, ProcessFields DEF Cleanup, Listeners
  <2> QED
    BY <2>1, <2>2
<1> QED
  BY <1>4, <1>5, <1>6, SocketStep, ProcessFields

\* Redis refuses the subscription: nobody listens, and its watchers are closed.
LEMMA WatchFailInv ==
    ASSUME FeedInv, WatchFail
    PROVE  FeedInv'
<1>1. /\ sub' = Absent /\ channel' = FALSE /\ UNCHANGED <<head, leaving, observed, poll>>
      /\ Listeners' = {}
  BY DEF WatchFail, Listeners
<1>2. ASSUME NEW s \in Sockets
      PROVE  sock'[s] \in Socket /\ RecordInv(sock'[s])
  <2>1. PICK r \in Socket : r = sock[s] /\ RecordInv(r)
    BY ProcessFields DEF FeedInv
  <2>2. CASE s \in sub.listeners
    <3>1. PICK y \in Socket : y = [r EXCEPT !.phase = "idle"]
      BY <2>1 DEF Socket, Phases
    <3>2. y.pend = r.pend /\ y.buffer = r.buffer /\ y.page = r.page /\ y.phase = "idle"
      BY <3>1 DEF Socket
    <3>3. sock'[s] = CloseSocket(y)
      BY <2>1, <2>2, <3>1 DEF WatchFail
    <3> QED
      BY <2>1, <3>2, <3>3, ClosedRecord, ClosedInv DEF Framed, RecordInv
  <2>3. CASE s \notin sub.listeners
    BY <2>1, <2>3 DEF WatchFail
  <2> QED
    BY <2>2, <2>3
<1>3. sock' \in [Sockets -> Socket]
  BY <1>2 DEF WatchFail
<1>4. FeedTypeOK'
  BY <1>1, <1>2, <1>3, ProcessFields DEF FeedTypeOK, RecordInv
<1> QED
  BY <1>1, <1>2, <1>4 DEF FeedInv

\* A notification arrives.
LEMMA ReceiveInv ==
    ASSUME FeedInv, NEW p \in Positions, Receive(p)
    PROVE  FeedInv'
<1>1. PICK n : n = [kind |-> "message", pos |-> p]
  OBVIOUS
<1>2. /\ observed \in Int /\ -1 <= observed /\ observed <= head /\ head \in 0..MaxHead
      /\ MaxHead \in Nat /\ p \in Nat /\ p <= head /\ p \in 0..MaxHead
  BY ProcessFields DEF FeedInv, Positions, Receive
<1>3. n \in Notification /\ n.pos = p
  BY <1>1, <1>2 DEF Notification
<1>4. /\ observed' \in -1..MaxHead /\ observed' <= head
      /\ observed' <= observed \/ observed' <= p
  BY <1>2 DEF Receive, Larger
<1> QED
  BY <1>1, <1>3, <1>4, NotifyInv DEF Receive

\* The poll tells everybody of a head that was not observed before.
LEMMA PollNotifyInv ==
    ASSUME FeedInv, PollNotify
    PROVE  FeedInv'
<1>1. /\ observed \in Int /\ -1 <= observed /\ observed <= head /\ head \in 0..MaxHead
      /\ MaxHead \in Nat /\ poll \in -1..MaxHead /\ poll <= head /\ poll # -1
      /\ poll' = -1 /\ UNCHANGED <<head, sub, channel, leaving>>
      /\ observed' = Larger(observed, poll)
  BY ProcessFields DEF FeedInv, PollNotify
<1>2. CASE poll > observed
  <2>1. PICK n : n = [kind |-> "high_watermark", pos |-> poll]
    OBVIOUS
  <2>2. n \in Notification /\ n.pos = poll
    BY <1>1, <2>1 DEF Notification
  <2>3. observed' \in -1..MaxHead /\ observed' <= head /\ observed' <= n.pos
    BY <1>1, <1>2, <2>2 DEF Larger
  <2>4. Notify(n)
    BY <1>2, <2>1 DEF PollNotify
  <2> QED
    BY <1>1, <2>2, <2>3, <2>4, NotifyInv
<1>3. CASE ~(poll > observed)
  <2>1. observed' = observed /\ sock' = sock
    BY <1>1, <1>3 DEF Larger, PollNotify
  <2>2. -1 \in -1..MaxHead /\ -1 <= head /\ head <= head
    BY <1>1
  <2> QED
    BY <1>1, <2>1, <2>2, ProcessStep, ProcessFields DEF Listeners
<1> QED
  BY <1>2, <1>3

\* The steps of the process that no socket notices.
LEMMA QuietInv ==
    ASSUME FeedInv,
           \/ MessageCommits \/ PollRead \/ PollFail \/ Ready
           \/ \E s \in Sockets : Unsubscribe(s)
    PROVE  FeedInv'
<1>1. /\ head \in 0..MaxHead /\ MaxHead \in Nat /\ poll \in -1..MaxHead /\ poll \in Int /\ poll <= head
      /\ -1 \in -1..MaxHead /\ -1 <= head /\ head <= head /\ head \in -1..MaxHead
  BY ProcessFields DEF FeedInv
<1>2. CASE MessageCommits
  <2>1. head' \in 0..MaxHead /\ head <= head' /\ poll <= head'
    BY <1>1, <1>2 DEF MessageCommits
  <2> QED
    BY <1>1, <1>2, <2>1, ProcessStep, ProcessFields DEF MessageCommits, fanout, Listeners
<1>3. CASE PollRead
  BY <1>1, <1>3, ProcessStep, ProcessFields DEF PollRead, Listeners
<1>4. CASE PollFail
  BY <1>1, <1>4, ProcessStep, ProcessFields DEF PollFail, Listeners
<1>5. CASE Ready
  <2>1. sub \in Subscription /\ sub' = [sub EXCEPT !.ready = TRUE] /\ sub # Absent
    BY <1>5, ProcessFields DEF Ready
  <2>2. sub' \in Subscription /\ sub'.listeners = sub.listeners
    BY <2>1 DEF Subscription
  <2>3. Listeners' = Listeners
    BY <2>1, <2>2, ProcessFields DEF Listeners
  <2> QED
    BY <1>1, <1>5, <2>2, <2>3, ProcessStep, ProcessFields DEF Ready
<1>6. CASE \E s \in Sockets : Unsubscribe(s)
  <2>1. PICK s \in Sockets : Unsubscribe(s)
    BY <1>6
  <2>2. leaving' \subseteq Sockets /\ channel' \in BOOLEAN
    BY <2>1, ProcessFields DEF Unsubscribe
  <2> QED
    BY <1>1, <2>1, <2>2, ProcessStep, ProcessFields DEF Unsubscribe, Listeners
<1> QED
  BY <1>2, <1>3, <1>4, <1>5, <1>6

\* No socket, no subscription.
LEMMA FeedInitInv ==
    ASSUME FeedInit
    PROVE  FeedInv
<1>1. /\ MaxHead \in Nat /\ Buffer \in Nat /\ 0 \in 0..MaxHead /\ -1 \in -1..MaxHead
      /\ {} \in SUBSET Positions /\ <<>> \in Seq(Notification)
  BY DeliveryAssumption
<1>2. Cardinality({}) = 0 /\ Len(<<>>) = 0 /\ (0 + 1)..0 = {}
  BY FS_EmptySet
<1> DEFINE x == NewSocket
<1>3. /\ x \in Socket /\ x.page = NoPage /\ x.buffer = <<>> /\ x.pend = {} /\ x.phase = "idle"
      /\ ~x.lost /\ x.base = 0 /\ x.pos = 0 /\ x.know = 0
  BY <1>1, NoPageIsPage DEF NewSocket, Socket, Phases
<1> HIDE DEF x
<1>4. RecordInv(x)
  BY <1>1, <1>2, <1>3, NoPageIsPage DEF RecordInv
<1>5. sock \in [Sockets -> Socket] /\ \A s \in Sockets : sock[s] = x
  BY <1>3 DEF FeedInit, x
<1>6. Listeners = {}
  BY DEF FeedInit, Listeners
<1>7. FeedTypeOK
  BY <1>1, <1>4, <1>5 DEF FeedInit, FeedTypeOK, RecordInv
<1> QED
  BY <1>1, <1>4, <1>5, <1>6, <1>7 DEF FeedInit, FeedInv

\* Every step keeps the invariant.
LEMMA FeedNextInv ==
    ASSUME FeedInv, [FeedNext]_feedVars
    PROVE  FeedInv'
<1>1. CASE \/ MessageCommits \/ PollRead \/ PollFail \/ Ready
           \/ \E s \in Sockets : Unsubscribe(s)
  BY <1>1, QuietInv
<1>2. CASE \E p \in Positions : Receive(p)
  BY <1>2, ReceiveInv
<1>3. CASE PollNotify \/ WatchFail
  BY <1>3, PollNotifyInv, WatchFailInv
<1>4. ASSUME NEW s \in Sockets,
             \/ Subscribe(s) \/ Watch(s) \/ Watched(s) \/ Read(s)
             \/ Failed(s) \/ Activate(s)
             \/ ReadFail(s) \/ Sync(s) \/ SyncReply(s) \/ SyncFail(s)
             \/ Disconnect(s) \/ Cleanup(s)
      PROVE  FeedInv'
  BY <1>4, SubscribeInv, WatchInv, WatchedInv, ReadInv, FailedInv, ActivateInv, ReadFailInv,
     SyncInv, SyncReplyInv, SyncFailInv, DisconnectInv, CleanupInv
<1>5. CASE UNCHANGED feedVars
  BY <1>5 DEF feedVars, fanout, FeedInv, FeedTypeOK, Listeners
<1> QED
  BY <1>1, <1>2, <1>3, <1>4, <1>5 DEF FeedNext, Resume

\* The invariant of the delivery.
LEMMA FeedInvariance == FeedSpec => []FeedInv
<1>1. FeedInit => FeedInv
  BY FeedInitInv
<1>2. FeedInv /\ [FeedNext]_feedVars => FeedInv'
  BY FeedNextInv
<1> QED
  BY <1>1, <1>2, PTL DEF FeedSpec

\* Type correctness, and CHAT-012: buffer and cursor of every socket stay within
\* config.chat.reorderBufferMessages.
THEOREM FeedTypes == FeedSpec => []FeedTypeOK
<1>1. FeedInv => FeedTypeOK
  BY DEF FeedInv
<1> QED
  BY <1>1, FeedInvariance, PTL

\* ChatLiveCursor skips nothing between the watermark of the subscription and
\* its position, whatever Redis loses, repeats or reorders.
THEOREM CursorSkipsNothing == FeedSpec => []NoSkip
<1>1. FeedInv => NoSkip
  BY DEF FeedInv, RecordInv, NoSkip, Live
<1> QED
  BY <1>1, FeedInvariance, PTL

\* observeHead silences no announcement that a subscribed client still needs.
THEOREM SubscribersAreTold == FeedSpec => []Informed
<1>1. FeedInv => Informed
  BY DEF FeedInv, Told, Informed, Live
<1> QED
  BY <1>1, FeedInvariance, PTL
-----------------------------------------------------------------------------
(***************************************************************************)
(* The two halves together.  Nothing a socket holds, was told of or waits  *)
(* for lies beyond h.                                                      *)
(***************************************************************************)
Within(r, h) ==
    /\ r.pos <= h /\ r.know <= h /\ r.page.mark <= h
    /\ \A p \in r.pend \cup r.got : p <= h
    /\ \A i \in DOMAIN r.buffer : r.buffer[i].pos <= h

\* No socket is ahead of the stream.
NotAhead == \A s \in Sockets : Within(sock[s], head)

\* sendReliable of what is below h.
LEMMA SendBelow ==
    ASSUME NEW r \in Socket, NEW h \in Nat, Within(r, h),
           NEW P \in SUBSET Positions, \A p \in P : p <= h, NEW n \in 0..MaxHead, n <= h
    PROVE  Within(Send(r, P, n), h)
<1>1. CASE r.conn = "open"
  <2>1. PICK k \in 0..MaxHead : k = Larger(r.know, n) /\ k <= h
    BY SocketFields DEF Larger, Within
  <2>2. PICK g \in SUBSET Positions : g = r.got \cup P
    BY SocketFields
  <2> DEFINE x == [r EXCEPT !.got = g, !.know = k]
  <2>3. Send(r, P, n) = x
    BY <1>1, <2>1, <2>2 DEF Send
  <2>4. /\ x.pos = r.pos /\ x.pend = r.pend /\ x.page = r.page /\ x.buffer = r.buffer
        /\ x.got = g /\ x.know = k
    BY DEF Socket
  <2> HIDE DEF x
  <2> QED
    BY <2>1, <2>2, <2>3, <2>4 DEF Within
<1>2. CASE r.conn # "open"
  BY <1>2 DEF Send
<1> QED
  BY <1>1, <1>2

\* closeSocket takes away.
LEMMA CloseBelow ==
    ASSUME NEW r \in Socket, NEW h \in Nat, Within(r, h)
    PROVE  Within(CloseSocket(r), h)
<1>1. CASE r.conn = "open"
  <2> DEFINE x == [r EXCEPT !.conn = "closing", !.got = {}, !.know = 0]
  <2>1. CloseSocket(r) = x
    BY <1>1 DEF CloseSocket
  <2>2. /\ x.pos = r.pos /\ x.pend = r.pend /\ x.page = r.page /\ x.buffer = r.buffer
        /\ x.got = {} /\ x.know = 0
    BY DEF Socket
  <2> HIDE DEF x
  <2> QED
    BY <2>1, <2>2 DEF Within
<1>2. CASE r.conn # "open"
  BY <1>2 DEF CloseSocket
<1> QED
  BY <1>1, <1>2

\* flush delivers only what was buffered.
LEMMA FlushBelow ==
    ASSUME NEW r \in Socket, NEW h \in Nat, Within(r, h)
    PROVE  Within(Flush(r), h) /\ Flush(r) \in Socket
<1> DEFINE p == Reach(r.pos, r.pend)
<1>1. /\ p \in r.pos..MaxHead /\ (r.pos + 1)..p \subseteq r.pend
      /\ r.pos \in Nat /\ MaxHead \in Nat /\ r.pend \in SUBSET Positions
  BY ReachEnds, SocketFields
<1>2. CASE p = r.pos
  BY <1>2 DEF Flush
<1>3. CASE p # r.pos
  <2> HIDE DEF p
  <2>1. p \in (r.pos + 1)..p /\ p \in 0..MaxHead /\ (r.pos + 1)..p \in SUBSET Positions
    BY <1>1, <1>3
  <2>2. p <= h
    BY <1>1, <2>1 DEF Within
  <2>3. PICK P \in SUBSET Positions : P = (r.pos + 1)..p
    BY <2>1
  <2>4. PICK S \in SUBSET Positions : S = {q \in r.pend : q > p}
    BY <1>1
  <2>5. \A q \in P : q <= h
    BY <1>1, <2>3 DEF Within
  <2> DEFINE y == [r EXCEPT !.pos = p, !.pend = S]
  <2>6. Flush(r) = Send(y, P, p)
    BY <1>3, <2>3, <2>4 DEF Flush, p
  <2>7. /\ y \in Socket /\ y.pos = p /\ y.pend = S /\ y.page = r.page
        /\ y.buffer = r.buffer /\ y.got = r.got /\ y.know = r.know
    BY <2>1, <2>4 DEF Socket
  <2> HIDE DEF y
  <2>8. Within(y, h)
    BY <2>2, <2>4, <2>7 DEF Within
  <2> QED
    BY <2>1, <2>2, <2>5, <2>6, <2>7, <2>8, SendBelow, SendRecord DEF Framed
<1> QED
  BY <1>2, <1>3

\* accept of a notification below h.
LEMMA AcceptBelow ==
    ASSUME NEW r \in Socket, NEW h \in Nat, Within(r, h),
           NEW n \in Notification, n.pos <= h
    PROVE  Within(Accept(r, n), h)
<1>1. n.pos \in 0..MaxHead /\ r.pos \in Nat /\ MaxHead \in Nat /\ {} \in SUBSET Positions
      /\ r.pend \in SUBSET Positions
  BY SocketFields DEF Notification
<1>2. CASE r.lost \/ n.pos <= r.pos
  BY <1>2 DEF Accept
<1>3. CASE ~(r.lost \/ n.pos <= r.pos) /\ n.kind = "high_watermark"
  BY <1>1, <1>3, SendBelow DEF Accept
<1>4. CASE ~(r.lost \/ n.pos <= r.pos) /\ n.kind # "high_watermark"
  <2>1. PICK p \in Positions : p = n.pos
    BY <1>1, <1>4 DEF Positions
  <2>2. Accept(r, n) = Buffered(r, p)
    BY <1>4, <2>1 DEF Accept
  <2>3. CASE Cardinality(r.pend \cup {p}) > Buffer
    <3> DEFINE y == [r EXCEPT !.lost = TRUE, !.pend = {}]
    <3>1. Buffered(r, p) = CloseSocket(y)
      BY <2>3 DEF Buffered
    <3>2. /\ y \in Socket /\ y.pos = r.pos /\ y.pend = {} /\ y.page = r.page
          /\ y.buffer = r.buffer /\ y.got = r.got /\ y.know = r.know
      BY <1>1 DEF Socket
    <3> HIDE DEF y
    <3>3. Within(y, h)
      BY <3>2 DEF Within
    <3> QED
      BY <2>2, <3>1, <3>2, <3>3, CloseBelow
  <2>4. CASE ~(Cardinality(r.pend \cup {p}) > Buffer)
    <3>1. PICK S \in SUBSET Positions : S = r.pend \cup {p}
      BY <1>1
    <3> DEFINE y == [r EXCEPT !.pend = S]
               f == Flush(y)
    <3>2. Buffered(r, p) = IF f.pend = {} THEN f ELSE Send(f, {}, Larger(p, f.pos))
      BY <2>4, <3>1 DEF Buffered
    <3>3. /\ y \in Socket /\ y.pos = r.pos /\ y.pend = S /\ y.page = r.page
          /\ y.buffer = r.buffer /\ y.got = r.got /\ y.know = r.know
      BY <3>1 DEF Socket
    <3> HIDE DEF y
    <3>4. Within(y, h)
      BY <2>1, <3>1, <3>3 DEF Within
    <3>5. f \in Socket /\ Within(f, h)
      BY <3>3, <3>4, FlushBelow
    <3> HIDE DEF f
    <3>6. Larger(p, f.pos) \in 0..MaxHead /\ Larger(p, f.pos) <= h
      BY <1>1, <2>1, <3>5, SocketFields DEF Larger, Within
    <3>7. Within(Send(f, {}, Larger(p, f.pos)), h)
      BY <1>1, <3>5, <3>6, SendBelow
    <3> QED
      BY <2>2, <3>2, <3>5, <3>7
  <2> QED
    BY <2>3, <2>4
<1> QED
  BY <1>2, <1>3, <1>4

\* The listener hears of a notification below h.
LEMMA ListenerBelow ==
    ASSUME NEW r \in Socket, NEW h \in Nat, Within(r, h),
           NEW n \in Notification, n.pos <= h
    PROVE  Within(Listener(r, n), h)
<1>1. r.active \in BOOLEAN /\ r.buffer \in Seq(Notification)
  BY SocketFields
<1>2. CASE r.active
  BY <1>2, AcceptBelow DEF Listener
<1>3. CASE ~r.active /\ Len(r.buffer) >= Buffer
  <2> DEFINE y == [r EXCEPT !.lost = TRUE]
  <2>1. Listener(r, n) = CloseSocket(y)
    BY <1>3 DEF Listener
  <2>2. /\ y \in Socket /\ y.pos = r.pos /\ y.pend = r.pend /\ y.page = r.page
        /\ y.buffer = r.buffer /\ y.got = r.got /\ y.know = r.know
    BY DEF Socket
  <2> HIDE DEF y
  <2>3. Within(y, h)
    BY <2>2 DEF Within
  <2> QED
    BY <2>1, <2>2, <2>3, CloseBelow
<1>4. CASE ~r.active /\ ~(Len(r.buffer) >= Buffer)
  <2>1. PICK b \in Seq(Notification) : b = Append(r.buffer, n)
    BY <1>1, AppendProperties
  <2>2. \A i \in DOMAIN b : b[i] = n \/ (i \in DOMAIN r.buffer /\ b[i] = r.buffer[i])
    BY <1>1, <2>1
  <2> DEFINE x == [r EXCEPT !.buffer = b]
  <2>3. Listener(r, n) = x
    BY <1>4, <2>1 DEF Listener
  <2>4. /\ x.pos = r.pos /\ x.pend = r.pend /\ x.page = r.page
        /\ x.buffer = b /\ x.got = r.got /\ x.know = r.know
    BY DEF Socket
  <2> HIDE DEF x
  <2> QED
    BY <2>2, <2>3, <2>4 DEF Within
<1> QED
  BY <1>1, <1>2, <1>3, <1>4

\* activate: everything in the buffer is below h.
LEMMA ReplayBelow ==
    ASSUME NEW r \in Socket, NEW h \in Nat, Within(r, h)
    PROVE  Within(Replay(r), h) /\ Replay(r) \in Socket
<1> DEFINE all == {r.buffer[i] : i \in DOMAIN r.buffer}
           new == {n \in all : n.pos > r.pos}
           S == {n.pos : n \in {m \in new : m.kind = "message"}}
           N == {n.pos : n \in new}
           top == CHOOSE q \in N \cup {r.pos} : \A n \in new : n.pos <= q
           y == [r EXCEPT !.pend = S]
           f == Flush(y)
           g == Send(f, {}, top)
           x == [g EXCEPT !.active = TRUE, !.buffer = <<>>]
<1>1. Replay(r) = x
  BY DEF Replay
<1>2. /\ r.pos \in 0..MaxHead /\ r.pos \in Nat /\ MaxHead \in Nat
      /\ r.buffer \in Seq(Notification) /\ {} \in SUBSET Positions
  BY SocketFields
<1>3. \A n \in all : n \in Notification /\ n.pos \in 0..MaxHead /\ n.pos <= h
  <2> TAKE n \in all
  <2>1. n \in Notification /\ n.pos <= h
    BY <1>2 DEF Within
  <2> QED
    BY <2>1 DEF Notification
<1>4. /\ S \in SUBSET Positions /\ N \in SUBSET (0..MaxHead)
      /\ \A p \in S \cup N : p <= h
  BY <1>2, <1>3 DEF Positions
<1>5. top \in 0..MaxHead /\ top <= h
  <2>1. PICK q \in N \cup {r.pos} : r.pos <= q /\ \A n \in N : n <= q
    <3>1. N \in SUBSET (0..MaxHead) /\ r.pos \in 0..MaxHead
      BY <1>2, <1>4
    <3> HIDE DEF N
    <3> QED
      BY <3>1, GreatestPosition
  <2>2. \A n \in new : n.pos <= q
    BY <2>1
  <2>3. top \in N \cup {r.pos}
    <3> HIDE DEF N, new
    <3> QED
      BY <2>2
  <2> HIDE DEF N, top
  <2> QED
    BY <1>2, <1>4, <2>3 DEF Within
<1> HIDE DEF S, N, top
<1>6. /\ y \in Socket /\ y.pos = r.pos /\ y.pend = S /\ y.page = r.page
      /\ y.buffer = r.buffer /\ y.got = r.got /\ y.know = r.know
  BY <1>4 DEF Socket
<1> HIDE DEF y
<1>7. Within(y, h)
  BY <1>4, <1>6 DEF Within
<1>8. Within(f, h) /\ f \in Socket
  BY <1>6, <1>7, FlushBelow
<1> HIDE DEF f
<1>9. Within(g, h) /\ Framed(g, f)
  BY <1>2, <1>5, <1>8, SendBelow, SendRecord
<1> HIDE DEF g
<1>10. /\ x \in Socket /\ x.pos = g.pos /\ x.pend = g.pend /\ x.page = g.page
       /\ x.buffer = <<>> /\ x.got = g.got /\ x.know = g.know
  <2>1. <<>> \in Seq(Notification) /\ g \in Socket
    BY <1>9 DEF Framed
  <2> QED
    BY <2>1 DEF Socket
<1> HIDE DEF x
<1>11. Within(x, h)
  <2>1. DOMAIN <<>> = {}
    OBVIOUS
  <2> QED
    BY <1>9, <1>10, <2>1 DEF Within
<1> QED
  BY <1>1, <1>10, <1>11

\* A page of rows that are below h.
LEMMA PageBelow ==
    ASSUME NEW r \in Socket, r.page.to <= r.page.mark,
           NEW h \in Nat, Within(r, h)
    PROVE  Within(SendPage(r), h)
<1>1. /\ r.page.from \in 0..MaxHead /\ r.page.to \in 0..MaxHead /\ r.page.mark \in 0..MaxHead
      /\ MaxHead \in Nat
  BY SocketFields
<1>2. (r.page.from + 1)..r.page.to \in SUBSET Positions
  BY <1>1 DEF Positions
<1>3. \A p \in (r.page.from + 1)..r.page.to : p <= h
  BY <1>1 DEF Within
<1>4. r.page.mark <= h
  BY DEF Within
<1> QED
  BY <1>1, <1>2, <1>3, <1>4, SendBelow DEF SendPage

\* advance to the last row of such a page.
LEMMA AdvanceBelow ==
    ASSUME NEW r \in Socket, r.page.to <= r.page.mark,
           NEW h \in Nat, Within(r, h)
    PROVE  Within(Advance(r), h)
<1>1. /\ r.page.to \in 0..MaxHead /\ r.page.mark \in 0..MaxHead /\ MaxHead \in Nat
      /\ r.pend \in SUBSET Positions
  BY SocketFields
<1>2. CASE r.page.to <= r.pos \/ r.lost
  BY <1>2 DEF Advance
<1>3. CASE ~(r.page.to <= r.pos \/ r.lost)
  <2>1. PICK S \in SUBSET Positions : S = {q \in r.pend : q > r.page.to}
    BY <1>1
  <2>2. PICK t \in 0..MaxHead : t = r.page.to /\ t <= h
    BY <1>1 DEF Within
  <2> DEFINE y == [r EXCEPT !.pos = t, !.pend = S]
  <2>3. Advance(r) = Flush(y)
    BY <1>3, <2>1, <2>2 DEF Advance
  <2>4. /\ y \in Socket /\ y.pos = t /\ y.pend = S /\ y.page = r.page
        /\ y.buffer = r.buffer /\ y.got = r.got /\ y.know = r.know
    BY <2>1, <2>2 DEF Socket
  <2> HIDE DEF y
  <2>5. Within(y, h)
    BY <2>1, <2>2, <2>4 DEF Within
  <2> QED
    BY <2>3, <2>4, <2>5, FlushBelow
<1> QED
  BY <1>2, <1>3

\* A socket moves on, with a page that was read below h.
LEMMA MovedBelow ==
    ASSUME NEW r, NEW x, Moved(x, r), NEW h \in Nat, Within(r, h), x.page.mark <= h
    PROVE  Within(x, h)
BY DEF Within, Moved

\* One socket takes a step.
LEMMA SocketBelow ==
    ASSUME FeedInv, NotAhead, NEW s \in Sockets, NEW x,
           Set(s, x), head' = head, Within(x, head)
    PROVE  NotAhead'
<1>1. \A q \in Sockets : sock'[q] = IF q = s THEN x ELSE sock[q]
  BY ProcessFields DEF Set
<1> QED
  BY <1>1 DEF NotAhead

\* Every listener hears of a position that has been committed.
LEMMA NotifyBelow ==
    ASSUME FeedInv, NotAhead, NEW n \in Notification,
           Notify(n), n.pos <= head, head' = head
    PROVE  NotAhead'
<1> SUFFICES ASSUME NEW q \in Sockets
             PROVE  Within(sock'[q], head)
  BY DEF NotAhead
<1>1. sock[q] \in Socket /\ head \in Nat /\ Within(sock[q], head)
  BY ProcessFields DEF NotAhead
<1>2. CASE q \in Listeners
  <2>1. sock'[q] = Listener(sock[q], n)
    BY <1>2 DEF Notify
  <2> QED
    BY <1>1, <2>1, ListenerBelow
<1>3. CASE q \notin Listeners
  BY <1>1, <1>3 DEF Notify
<1> QED
  BY <1>2, <1>3

\* An await of socket s ends without a message to its client.
LEMMA MoveBelow ==
    ASSUME FeedInv, NotAhead, NEW s \in Sockets,
           \/ Subscribe(s) \/ Watched(s) \/ Read(s) \/ ReadFail(s)
           \/ Failed(s) \/ Sync(s) \/ SyncFail(s)
    PROVE  NotAhead'
<1>1. PICK r \in Socket : r = sock[s] /\ Within(r, head)
  BY ProcessFields DEF NotAhead
<1>2. head \in Nat /\ r.page \in Page
  BY SocketFields, ProcessFields
<1>3. PICK g \in Page : g = ReadSnapshot(r) /\ g.mark = head
  BY ReadPageFacts
<1>4. \E f \in Phases, n \in {r.page, g, NoPage} :
         Set(s, [r EXCEPT !.phase = f, !.page = n]) /\ head' = head
  <2>1. \A f : [r EXCEPT !.phase = f] = [r EXCEPT !.phase = f, !.page = r.page]
    BY DEF Socket
  <2>2. CASE Subscribe(s) \/ Watched(s) \/ Failed(s)
    <3>1. PICK f \in Phases : Set(s, [r EXCEPT !.phase = f]) /\ head' = head
      BY <1>1, <2>2 DEF Subscribe, Watched, Failed, Phases
    <3>2. Set(s, [r EXCEPT !.phase = f, !.page = r.page])
      BY <2>1, <3>1
    <3> QED
      BY <3>1, <3>2
  <2>3. CASE Read(s) \/ Sync(s)
    BY <1>1, <1>3, <2>3 DEF Read, Sync, Phases
  <2>4. CASE ReadFail(s) \/ SyncFail(s)
    BY <1>1, <2>4 DEF ReadFail, SyncFail, Phases
  <2> QED
    BY <2>2, <2>3, <2>4
<1>5. PICK f \in Phases, n \in {r.page, g, NoPage} :
         Set(s, [r EXCEPT !.phase = f, !.page = n]) /\ head' = head
  BY <1>4
<1>6. n \in Page /\ n.mark <= head
  BY <1>1, <1>2, <1>3, NoPageIsPage DEF Within, NoPage
<1>7. PICK x \in Socket : x = [r EXCEPT !.phase = f, !.page = n]
  BY <1>6 DEF Socket
<1>8. Moved(x, r) /\ x.page = n
  BY <1>7 DEF Moved, Socket
<1>9. Within(x, head)
  BY <1>1, <1>2, <1>6, <1>8, MovedBelow
<1> QED
  BY <1>5, <1>7, <1>9, SocketBelow

\* A page is sent to the client of s, and its cursor is created or advanced.
LEMMA AnswerBelow ==
    ASSUME FeedInv, NotAhead, NEW s \in Sockets,
           Activate(s) \/ SyncReply(s)
    PROVE  NotAhead'
<1>1. PICK r \in Socket : r = sock[s] /\ Within(r, head) /\ RecordInv(r)
  BY ProcessFields DEF NotAhead, FeedInv
<1>2. /\ head \in Nat /\ r.page \in Page /\ r.page.mark \in 0..MaxHead
      /\ r.page.to <= r.page.mark /\ {} \in SUBSET Positions
  BY <1>1, SocketFields, ProcessFields DEF RecordInv
<1>3. NoPage \in Page /\ NoPage.mark = 0
  BY NoPageIsPage DEF NoPage
<1>4. CASE Activate(s)
  <2>1. PICK m \in 0..MaxHead : m = r.page.mark /\ m <= head
    BY <1>1, <1>2 DEF Within
  <2> DEFINE y == [r EXCEPT !.phase = "idle", !.ctx = TRUE, !.pend = {}, !.pos = m, !.base = m]
             g == SendPage(y)
             h == IF g.lost THEN g ELSE Replay(g)
             x == [h EXCEPT !.page = NoPage]
  <2>2. Set(s, x) /\ head' = head /\ r.phase = "read"
    BY <1>1, <1>4, <2>1 DEF Activate
  <2>3. /\ y \in Socket /\ y.pos = m /\ y.pend = {} /\ y.page = r.page /\ y.base = m
        /\ y.buffer = r.buffer /\ y.got = r.got /\ y.know = r.know
        /\ y.conn = r.conn /\ y.lost = r.lost /\ y.phase = "idle" /\ y.active = r.active
    BY <1>2, <2>1 DEF Socket, Phases
  <2> HIDE DEF y
  <2>4. Within(y, head)
    BY <1>1, <2>1, <2>3 DEF Within
  <2>5. Within(g, head) /\ g \in Socket
    BY <1>2, <2>3, <2>4, PageBelow, PageRecord DEF Framed
  <2> HIDE DEF g
  <2>6. Within(h, head) /\ h \in Socket
    BY <1>2, <2>5, ReplayBelow
  <2> HIDE DEF h
  <2>7. Moved(x, h) /\ x.page = NoPage
    BY <1>3, <2>6 DEF Moved, Socket
  <2> HIDE DEF x
  <2>8. Within(x, head)
    BY <1>2, <1>3, <2>6, <2>7, MovedBelow
  <2> QED
    BY <2>2, <2>8, SocketBelow
<1>5. CASE SyncReply(s)
  <2>1. PICK h : h = Advance(SendPage(r))
    OBVIOUS
  <2>2. r.phase = "syncing" /\ head' = head
    BY <1>1, <1>5 DEF SyncReply
  <2>3. h \in Socket
    BY <1>1, <2>1, <2>2, AdvanceRecord DEF Framed
  <2>4. PICK g \in Socket : g = SendPage(r) /\ g.page = r.page /\ Within(g, head)
    BY <1>1, <1>2, PageBelow, PageRecord DEF Framed
  <2>5. Within(h, head)
    BY <1>2, <2>1, <2>4, AdvanceBelow
  <2>6. PICK x \in Socket : x = [h EXCEPT !.phase = "idle", !.page = NoPage]
    BY <1>3, <2>3 DEF Socket, Phases
  <2>7. Moved(x, h) /\ x.page = NoPage
    BY <2>3, <2>6 DEF Moved, Socket
  <2>8. Within(x, head)
    BY <1>2, <1>3, <2>5, <2>7, MovedBelow
  <2>9. Set(s, x)
    BY <1>1, <1>5, <2>1, <2>6 DEF SyncReply
  <2> QED
    BY <2>2, <2>8, <2>9, SocketBelow
<1> QED
  BY <1>4, <1>5

\* A socket that closes, or starts to listen from nothing.
LEMMA ResetBelow ==
    ASSUME FeedInv, NotAhead, NEW s \in Sockets,
           Watch(s) \/ Disconnect(s) \/ Cleanup(s)
    PROVE  NotAhead'
<1>1. PICK r \in Socket : r = sock[s] /\ Within(r, head)
  BY ProcessFields DEF NotAhead
<1>2. head \in Nat
  BY ProcessFields
<1>3. CASE Watch(s)
  <2> DEFINE x == [r EXCEPT !.phase = "watching", !.ctx = FALSE, !.active = FALSE,
                            !.lost = FALSE, !.buffer = <<>>, !.base = 0, !.pos = 0,
                            !.pend = {}]
  <2>1. Set(s, x) /\ head' = head
    BY <1>1, <1>3 DEF Watch
  <2>2. /\ x.pos = 0 /\ x.pend = {} /\ x.page = r.page
        /\ x.buffer = <<>> /\ x.got = r.got /\ x.know = r.know
    BY DEF Socket
  <2> HIDE DEF x
  <2>3. DOMAIN <<>> = {}
    OBVIOUS
  <2>4. Within(x, head)
    BY <1>1, <1>2, <2>2, <2>3 DEF Within
  <2> QED
    BY <2>1, <2>4, SocketBelow
<1>4. CASE Disconnect(s)
  <2>1. Set(s, CloseSocket(r)) /\ head' = head
    BY <1>1, <1>4 DEF Disconnect
  <2> QED
    BY <1>1, <1>2, <2>1, CloseBelow, SocketBelow
<1>5. CASE Cleanup(s)
  <2>1. PICK x \in Socket : x = [r EXCEPT !.conn = "closed"]
    BY DEF Socket
  <2>2. /\ x.pos = r.pos /\ x.pend = r.pend /\ x.page = r.page
        /\ x.buffer = r.buffer /\ x.got = r.got /\ x.know = r.know
    BY <2>1 DEF Socket
  <2>3. Set(s, x) /\ head' = head
    BY <1>1, <1>5, <2>1 DEF Cleanup
  <2>4. Within(x, head)
    BY <1>1, <2>2 DEF Within
  <2> QED
    BY <2>3, <2>4, SocketBelow
<1> QED
  BY <1>3, <1>4, <1>5

\* Steps of the process: a notification is of a committed position, so is a poll.
LEMMA ProcessBelow ==
    ASSUME FeedInv, NotAhead,
           \/ \E p \in Positions : Receive(p)
           \/ PollNotify \/ WatchFail \/ MessageCommits
    PROVE  NotAhead'
<1>1. head \in 0..MaxHead /\ head \in Nat /\ MaxHead \in Nat /\ poll \in -1..MaxHead /\ poll <= head
  BY ProcessFields DEF FeedInv
<1>2. ASSUME NEW p \in Positions, Receive(p)
      PROVE  NotAhead'
  <2>1. PICK n : n = [kind |-> "message", pos |-> p]
    OBVIOUS
  <2>2. n \in Notification /\ n.pos = p /\ p <= head /\ Notify(n) /\ head' = head
    BY <1>1, <1>2, <2>1 DEF Notification, Positions, Receive
  <2> QED
    BY <2>2, NotifyBelow
<1>3. CASE PollNotify
  <2>1. CASE poll > observed
    <3>1. PICK n : n = [kind |-> "high_watermark", pos |-> poll]
      OBVIOUS
    <3>2. n \in Notification /\ n.pos = poll /\ Notify(n) /\ head' = head
      BY <1>1, <1>3, <2>1, <3>1 DEF Notification, PollNotify
    <3> QED
      BY <1>1, <3>2, NotifyBelow
  <2>2. CASE ~(poll > observed)
    BY <1>3, <2>2 DEF PollNotify, NotAhead
  <2> QED
    BY <2>1, <2>2
<1>4. CASE WatchFail
  <2> SUFFICES ASSUME NEW q \in Sockets
               PROVE  Within(sock'[q], head)
    BY <1>4 DEF NotAhead, WatchFail
  <2>1. PICK r \in Socket : r = sock[q] /\ Within(r, head)
    BY ProcessFields DEF NotAhead
  <2>2. PICK y \in Socket : y = [r EXCEPT !.phase = "idle"]
    BY DEF Socket, Phases
  <2>3. Moved(y, r) /\ y.page = r.page
    BY <2>2 DEF Moved, Socket
  <2>4. Within(y, head)
    BY <1>1, <2>1, <2>3, MovedBelow DEF Within
  <2>5. sock'[q] = CloseSocket(y) \/ sock'[q] = r
    BY <1>4, <2>1, <2>2 DEF WatchFail
  <2> QED
    BY <1>1, <2>1, <2>2, <2>4, <2>5, CloseBelow
<1>5. CASE MessageCommits
  <2> SUFFICES ASSUME NEW q \in Sockets
               PROVE  Within(sock[q], head + 1)
    BY <1>5 DEF NotAhead, MessageCommits
  <2>1. PICK r \in Socket : r = sock[q] /\ Within(r, head)
    BY ProcessFields DEF NotAhead
  <2>2. /\ r.pos \in Nat /\ r.know \in Nat /\ r.page.mark \in 0..MaxHead
        /\ r.pend \cup r.got \subseteq Nat /\ r.buffer \in Seq(Notification)
    BY SocketFields DEF Positions
  <2>3. \A i \in DOMAIN r.buffer : r.buffer[i].pos \in 0..MaxHead
    <3> TAKE i \in DOMAIN r.buffer
    <3>1. r.buffer[i] \in Notification
      BY <2>2
    <3> QED
      BY <3>1 DEF Notification
  <2> QED
    BY <1>1, <2>1, <2>2, <2>3 DEF Within
<1> QED
  BY <1>2, <1>3, <1>4, <1>5

\* Every step leaves every socket behind the head.
LEMMA FeedNextBelow ==
    ASSUME FeedInv, NotAhead, [FeedNext]_feedVars
    PROVE  NotAhead'
<1>1. CASE \/ \E p \in Positions : Receive(p)
           \/ PollNotify \/ WatchFail \/ MessageCommits
  BY <1>1, ProcessBelow
<1>2. CASE \/ PollRead \/ PollFail \/ Ready \/ UNCHANGED feedVars
           \/ \E s \in Sockets : Unsubscribe(s)
  <2>1. sock' = sock /\ head' = head
    BY <1>2 DEF PollRead, PollFail, Ready, Unsubscribe, feedVars
  <2> QED
    BY <2>1 DEF NotAhead
<1>3. ASSUME NEW s \in Sockets,
             \/ Subscribe(s) \/ Watch(s) \/ Watched(s) \/ Read(s)
             \/ Failed(s) \/ Activate(s)
             \/ ReadFail(s) \/ Sync(s) \/ SyncReply(s) \/ SyncFail(s)
             \/ Disconnect(s) \/ Cleanup(s)
      PROVE  NotAhead'
  BY <1>3, MoveBelow, AnswerBelow, ResetBelow
<1> QED
  BY <1>1, <1>2, <1>3 DEF FeedNext, Resume

\* No socket is ahead of the stream: neither a notification that Redis repeats
\* late nor a watermark of the poll takes a cursor or a client beyond the head.
THEOREM NobodyIsAhead == FeedSpec => []NotAhead
<1>1. FeedInit => NotAhead
  <2> SUFFICES ASSUME FeedInit
               PROVE  NotAhead
    OBVIOUS
  <2> DEFINE x == NewSocket
  <2>1. /\ x.pos = 0 /\ x.pend = {} /\ x.page.mark = 0
        /\ x.buffer = <<>> /\ x.got = {} /\ x.know = 0
    BY DEF NewSocket, NoPage
  <2> HIDE DEF x
  <2>2. head = 0 /\ \A s \in Sockets : sock[s] = x
    BY DEF FeedInit, x
  <2>3. DOMAIN <<>> = {}
    OBVIOUS
  <2>4. Within(x, 0)
    BY <2>1, <2>3 DEF Within
  <2> QED
    BY <2>2, <2>4 DEF NotAhead
<1>2. FeedInv /\ NotAhead /\ [FeedNext]_feedVars => NotAhead'
  BY FeedNextBelow
<1> QED
  BY <1>1, <1>2, FeedInvariance, PTL DEF FeedSpec

\* What a client has received are rows that T3 committed, each at its position.
Genuine ==
    \A s \in Sockets : \A p \in sock[s].got :
       \E e \in outbox : e.pos = p /\ \A f \in outbox : f.pos = p => f = e

(***************************************************************************)
(* The repository and the delivery together, over the head they share: no  *)
(* client ever receives a position that does not stand for exactly one     *)
(* event that acceptMessage committed.                                     *)
(***************************************************************************)
THEOREM ClientsGetCommittedRows == Spec /\ FeedSpec => []Genuine
<1>1. NoGap /\ FeedInv /\ NotAhead => Genuine
  <2> SUFFICES ASSUME NoGap, FeedInv, NotAhead, NEW s \in Sockets, NEW p \in sock[s].got
               PROVE  \E e \in outbox : e.pos = p /\ \A f \in outbox : f.pos = p => f = e
    BY DEF Genuine
  <2>1. p \in 1..MaxHead /\ MaxHead \in Nat /\ p <= head /\ head \in Nat
    BY ProcessFields, SocketFields DEF NotAhead, Within, Positions
  <2>2. p \in {e.pos : e \in outbox}
    BY <2>1 DEF NoGap
  <2> QED
    BY <2>2 DEF NoGap
<1> QED
  BY <1>1, PositionsContiguous, FeedInvariance, NobodyIsAhead, PTL
-----------------------------------------------------------------------------
(***************************************************************************)
(* The mapping of the stream onto MessageLog: position p of the log is the *)
(* one committed event at p, kept are the positions of the stored rows and *)
(* told are the results of accept that reached a caller.                   *)
(***************************************************************************)
EventAt(p) == CHOOSE e \in outbox : e.pos = p
StreamLog == [p \in 1..head |->
                [from |-> EventAt(p).from, id |-> EventAt(p).id, at |-> EventAt(p).at]]
KeptPositions == {m.pos : m \in messages}

Log == INSTANCE MessageLog WITH log <- StreamLog, kept <- KeptPositions, told <- acks

\* A function on 1..n is a sequence of length n.
LEMMA SequenceOfLength ==
    ASSUME NEW S, NEW n \in Nat, NEW f \in [1..n -> S]
    PROVE  f \in Seq(S) /\ Len(f) = n
<1>1. f \in Seq(S)
  BY SeqDef
<1>2. Len(f) \in Nat /\ 1..n = 1..Len(f)
  BY <1>1, LenProperties
<1>3. Len(f) = n
  <2>1. CASE n = 0
    BY <1>2, <2>1
  <2>2. CASE n > 0
    <3>1. n \in 1..Len(f) /\ Len(f) >= 1
      BY <1>2, <2>2
    <3>2. Len(f) \in 1..n
      BY <1>2, <3>1
    <3> QED
      BY <1>2, <3>1, <3>2
  <2> QED
    BY <2>1, <2>2
<1> QED
  BY <1>1, <1>3

\* Every committed event is the one the log has at its position.
LEMMA EventAtPosition ==
    ASSUME IInv
    PROVE  /\ \A p \in 1..head : EventAt(p) \in outbox /\ EventAt(p).pos = p
           /\ \A e \in outbox : e.pos \in 1..head /\ EventAt(e.pos) = e
<1>1. NoGap
  BY DEF IInv, StreamInv
<1>2. ASSUME NEW p \in 1..head
      PROVE  EventAt(p) \in outbox /\ EventAt(p).pos = p
  <2>1. \E e \in outbox : e.pos = p
    BY <1>1 DEF NoGap
  <2> QED
    BY <2>1 DEF EventAt
<1>3. ASSUME NEW e \in outbox
      PROVE  e.pos \in 1..head /\ EventAt(e.pos) = e
  <2>1. e.pos \in 1..head
    BY <1>1 DEF NoGap
  <2> QED
    BY <1>1, <1>2, <2>1 DEF NoGap
<1> QED
  BY <1>2, <1>3

\* The log is a sequence as long as the head says.
LEMMA LogIsSequence ==
    ASSUME IInv
    PROVE  /\ StreamLog \in Seq([from : Senders, id : Ids, at : Nat])
           /\ Len(StreamLog) = head
           /\ \A e \in outbox : /\ StreamLog[e.pos].from = e.from
                                /\ StreamLog[e.pos].id = e.id
                                /\ StreamLog[e.pos].at = e.at
<1>1. head \in Nat /\ outbox \subseteq Event
  BY DEF IInv, TypeOK
<1>2. \A p \in 1..head : [from |-> EventAt(p).from, id |-> EventAt(p).id, at |-> EventAt(p).at]
                           \in [from : Senders, id : Ids, at : Nat]
  BY <1>1, EventAtPosition DEF Event
<1>3. StreamLog \in Seq([from : Senders, id : Ids, at : Nat]) /\ Len(StreamLog) = head
  <2>1. StreamLog \in [1..head -> [from : Senders, id : Ids, at : Nat]]
    BY <1>2 DEF StreamLog
  <2> QED
    BY <1>1, <2>1, SequenceOfLength
<1>4. ASSUME NEW e \in outbox
      PROVE  /\ StreamLog[e.pos].from = e.from
             /\ StreamLog[e.pos].id = e.id
             /\ StreamLog[e.pos].at = e.at
  BY EventAtPosition DEF StreamLog
<1> QED
  BY <1>3, <1>4

\* UNIQUE (meeting_id, position) of chat_messages: no two rows share a position.
RowsApart == \A m, n \in messages : m.pos = n.pos => m = n

\* No step stores a second row at a position.
LEMMA NextApart ==
    ASSUME IInv, RowsApart, [Next]_vars
    PROVE  RowsApart'
<1>1. CASE messages' \subseteq messages
  BY <1>1 DEF RowsApart
<1>2. ASSUME NEW t \in Txns, Commit(t)
      PROVE  RowsApart'
  <2>1. PICK row : row.pos = head + 1 /\ messages' = messages \cup {row}
    BY <1>2 DEF Commit, Publish
  <2>2. \A m \in messages : m.pos # head + 1
    BY MessagePositions DEF IInv, TypeOK
  <2> QED
    BY <2>1, <2>2 DEF RowsApart
<1>3. ASSUME NEW t \in Txns, Submit(t) \/ AcceptStep(t) \/ Rollback(t), ~Commit(t)
      PROVE  messages' \subseteq messages
  BY <1>3 DEF Submit, RequireAccess, AcceptStep, RequireMembership, FindExisting, LockStreamHead,
              FindExistingLocked, EnforceSlowMode, Insert, Rollback, stored
<1>4. ASSUME NEW r \in Readers, ReaderStep(r)
      PROVE  messages' \subseteq messages
  BY <1>4 DEF ReaderStep, JoinBegin, JoinLock, JoinCommit, Enrol, ReadPage, stored
<1>5. DeleteExpired \/ Tick \/ UNCHANGED vars => messages' \subseteq messages
  BY DEF DeleteExpired, Tick, vars, stored
<1> QED
  BY <1>1, <1>2, <1>3, <1>4, <1>5 DEF Next

\* The commit of T3 is one append, and the slow mode still holds at that moment.
LEMMA CommitSimulates ==
    ASSUME IInv, IInv', NEW t \in Txns, Commit(t)
    PROVE  Log!LNext
<1> DEFINE c == cmd[t]
           entry == [from |-> c.from, id |-> c.id, at |-> at[t]]
           event == [from |-> c.from, id |-> c.id, pos |-> head + 1, at |-> at[t]]
<1>1. /\ pc[t] = "inserted" /\ now' = now
      /\ head' = head + 1
      /\ outbox' = outbox \cup {event}
      /\ messages' = messages \cup {[from |-> c.from, id |-> c.id, body |-> c.body,
                                     epoch |-> c.epoch, pos |-> head + 1, at |-> at[t]]}
      /\ acks' \in {acks, acks \cup {[from |-> c.from, id |-> c.id, pos |-> head + 1]}}
  BY DEF Commit, Publish, bounds
<1>2. /\ head \in Nat /\ c \in Command /\ at[t] \in Nat /\ now \in Nat
      /\ messages \subseteq Message
  BY <1>1 DEF IInv, TypeOK, Active, Holding
<1>3. c.from \in Senders /\ c.id \in Ids
  BY <1>2 DEF Command
<1>4. at[t] \in 0..now
  BY <1>1, <1>2 DEF IInv, StreamInv, Past
<1>5. \A q \in KeptPositions : ~(StreamLog[q].from = c.from /\ StreamLog[q].id = c.id)
  <2> SUFFICES ASSUME NEW m \in messages
               PROVE  ~(StreamLog[m.pos].from = c.from /\ StreamLog[m.pos].id = c.id)
    BY DEF KeptPositions
  <2>1. [from |-> m.from, id |-> m.id, pos |-> m.pos, at |-> m.at] \in outbox
    BY DEF IInv, StreamInv, NoGap
  <2>2. StreamLog[m.pos].from = m.from /\ StreamLog[m.pos].id = m.id
    BY <2>1, LogIsSequence
  <2>3. ~(m.from = c.from /\ m.id = c.id)
    BY <1>1 DEF IInv, StreamInv, LookedUp, Existing
  <2> QED
    BY <2>2, <2>3
<1>6. \A q \in 1..Len(StreamLog) :
         StreamLog[q].from = c.from => StreamLog[q].at + SlowMode <= at[t]
  <2> SUFFICES ASSUME NEW q \in 1..head, StreamLog[q].from = c.from
               PROVE  StreamLog[q].at + SlowMode <= at[t]
    BY LogIsSequence
  <2>1. EventAt(q) \in outbox /\ EventAt(q).from = c.from /\ StreamLog[q].at = EventAt(q).at
    BY EventAtPosition DEF StreamLog
  <2> QED
    BY <1>1, <2>1 DEF IInv, StreamInv, Spaced
<1>7. StreamLog' = Append(StreamLog, entry)
  <2>1. NoGap'
    BY DEF IInv, StreamInv
  <2>2. ASSUME NEW q, NEW e \in outbox', e.pos = q
        PROVE  EventAt(q)' = e
    <3>1. EventAt(q)' \in outbox' /\ EventAt(q)'.pos = q
      BY <2>2 DEF EventAt
    <3> QED
      BY <2>1, <2>2, <3>1 DEF NoGap
  <2>3. ASSUME NEW q \in 1..head
        PROVE  EventAt(q)' = EventAt(q)
    <3>1. EventAt(q) \in outbox' /\ EventAt(q).pos = q
      BY <1>1, EventAtPosition
    <3> QED
      BY <2>2, <3>1
  <2>4. ASSUME NEW q \in 1..(head + 1)
        PROVE  StreamLog'[q] = IF q = head + 1 THEN entry ELSE StreamLog[q]
    <3>1. StreamLog'[q] = [from |-> EventAt(q)'.from, id |-> EventAt(q)'.id, at |-> EventAt(q)'.at]
      BY <1>1 DEF StreamLog
    <3>2. CASE q = head + 1
      <4>1. event \in outbox' /\ event.pos = q
        BY <1>1, <3>2
      <4>2. EventAt(q)' = event
        BY <2>2, <4>1
      <4> QED
        BY <3>1, <3>2, <4>2
    <3>3. CASE q # head + 1
      <4>1. q \in 1..head
        BY <1>2, <3>3
      <4>2. EventAt(q)' = EventAt(q)
        BY <2>3, <4>1
      <4> QED
        BY <3>1, <3>3, <4>1, <4>2 DEF StreamLog
    <3> QED
      BY <3>2, <3>3
  <2>5. Append(StreamLog, entry) = [q \in 1..(head + 1) |->
                                      IF q = head + 1 THEN entry ELSE StreamLog[q]]
    BY LogIsSequence
  <2>6. StreamLog' = [q \in 1..(head + 1) |-> StreamLog'[q]]
    BY <1>1 DEF StreamLog
  <2> QED
    BY <2>4, <2>5, <2>6
<1>8. KeptPositions' = KeptPositions \cup {Len(StreamLog) + 1}
  <2>1. PICK row : row.pos = head + 1 /\ messages' = messages \cup {row}
    BY <1>1
  <2>2. KeptPositions' = KeptPositions \cup {row.pos}
    BY <2>1 DEF KeptPositions
  <2> QED
    BY <2>1, <2>2, LogIsSequence
<1>9. acks' \in {acks, acks \cup {Log!Answer(c.from, c.id, Len(StreamLog) + 1)}}
  BY <1>1, LogIsSequence DEF Log!Answer
<1>10. Log!Accept(c.from, c.id, at[t])
  BY <1>1, <1>4, <1>5, <1>6, <1>7, <1>8, <1>9 DEF Log!Accept
<1> QED
  BY <1>3, <1>4, <1>10 DEF Log!LNext

\* A replay answers with the position of a row that is still stored.
LEMMA ReplaySimulates ==
    ASSUME IInv, NEW t \in Txns, ReplayExisting(t), UNCHANGED <<stored, now>>
    PROVE  [Log!LNext]_(Log!lvars)
<1>1. StreamLog' = StreamLog /\ KeptPositions' = KeptPositions
  BY DEF stored, StreamLog, KeptPositions, EventAt
<1>2. CASE UNCHANGED acks
  BY <1>1, <1>2 DEF Log!lvars
<1>3. CASE ~UNCHANGED acks
  <2>1. PICK m \in messages : acks' = acks \cup {[from |-> m.from, id |-> m.id, pos |-> m.pos]}
    BY <1>3 DEF ReplayExisting, Existing
  <2>2. [from |-> m.from, id |-> m.id, pos |-> m.pos, at |-> m.at] \in outbox
    BY DEF IInv, StreamInv, NoGap
  <2>3. StreamLog[m.pos].from = m.from /\ StreamLog[m.pos].id = m.id
    BY <2>2, LogIsSequence
  <2>4. m.pos \in KeptPositions
    BY DEF KeptPositions
  <2>5. Log!Repeat(m.pos)
    BY <1>1, <2>1, <2>3, <2>4 DEF Log!Repeat, Log!Answer
  <2> QED
    BY <2>4, <2>5 DEF Log!LNext
<1> QED
  BY <1>2, <1>3

\* The janitor forgets messages whose retention has ended, and no position.
LEMMA DeleteExpiredSimulates ==
    ASSUME IInv, RowsApart, DeleteExpired
    PROVE  Log!LNext
<1>1. PICK S \in SUBSET {m \in messages : Expired(m)} : S # {} /\ messages' = messages \ S
  BY DEF DeleteExpired
<1>2. StreamLog' = StreamLog /\ acks' = acks /\ now' = now
  BY DEF DeleteExpired, bounds, StreamLog, EventAt
<1> DEFINE T == {m.pos : m \in S}
<1>3. \A m \in messages, n \in messages : m.pos = n.pos /\ m \in S => n \in S
  BY DEF RowsApart
<1>4. KeptPositions' = KeptPositions \ T
  BY <1>1, <1>3 DEF KeptPositions
<1>5. T \in SUBSET KeptPositions /\ T # {}
  BY <1>1 DEF KeptPositions
<1>6. ASSUME NEW m \in S
      PROVE  StreamLog[m.pos].at + Retention <= now
  <2>1. [from |-> m.from, id |-> m.id, pos |-> m.pos, at |-> m.at] \in outbox
    BY <1>1 DEF IInv, StreamInv, NoGap
  <2>2. StreamLog[m.pos].at = m.at
    BY <2>1, LogIsSequence
  <2> QED
    BY <1>1, <2>2 DEF Expired
<1>7. Log!Forget(T)
  BY <1>2, <1>4, <1>5, <1>6 DEF Log!Forget
<1> QED
  BY <1>5, <1>7 DEF Log!LNext

\* Every step of the chat is a step of the log or invisible in it.
LEMMA NextSimulates ==
    ASSUME IInv, IInv', RowsApart, [Next]_vars
    PROVE  [Log!LNext]_(Log!lvars)
<1>1. UNCHANGED <<stored, acks, now>> => UNCHANGED Log!lvars
  BY DEF stored, StreamLog, KeptPositions, EventAt, Log!lvars
<1>2. ASSUME NEW t \in Txns, Submit(t) \/ AcceptStep(t) \/ Rollback(t)
      PROVE  [Log!LNext]_(Log!lvars)
  <2>1. CASE Commit(t)
    BY <2>1, CommitSimulates
  <2>2. CASE FindExisting(t) \/ FindExistingLocked(t)
    <3>1. UNCHANGED <<stored, now>>
      BY <2>2 DEF FindExisting, FindExistingLocked, bounds
    <3>2. ReplayExisting(t) \/ UNCHANGED acks
      BY <2>2 DEF FindExisting, FindExistingLocked
    <3> QED
      BY <1>1, <3>1, <3>2, ReplaySimulates
  <2>3. CASE Submit(t) \/ RequireMembership(t) \/ LockStreamHead(t) \/ EnforceSlowMode(t)
                 \/ Insert(t) \/ Rollback(t)
    BY <1>1, <2>3 DEF Submit, RequireAccess, RequireMembership, LockStreamHead, EnforceSlowMode,
                      Insert, Rollback, bounds
  <2> QED
    BY <1>2, <2>1, <2>2, <2>3 DEF AcceptStep
<1>3. ASSUME NEW r \in Readers, ReaderStep(r)
      PROVE  [Log!LNext]_(Log!lvars)
  BY <1>1, <1>3 DEF ReaderStep, JoinBegin, JoinLock, JoinCommit, Enrol, ReadPage, bounds
<1>4. CASE DeleteExpired
  BY <1>4, DeleteExpiredSimulates
<1>5. CASE Tick
  <2>1. StreamLog' = StreamLog /\ KeptPositions' = KeptPositions /\ acks' = acks
    BY <1>5 DEF Tick, stored, StreamLog, KeptPositions, EventAt
  <2>2. Log!Pass
    BY <1>5, <2>1 DEF Tick, Log!Pass
  <2> QED
    BY <2>2 DEF Log!LNext
<1>6. CASE UNCHANGED vars
  BY <1>1, <1>6 DEF vars, bounds
<1> QED
  BY <1>2, <1>3, <1>4, <1>5, <1>6 DEF Next

(***************************************************************************)
(* The chat stream implements MessageLog: whatever sessions interleave,    *)
(* roll back, lose their COMMIT reply or retry, accept acts as one atomic  *)
(* append that happens at most once while the row is kept; the lookups,    *)
(* the locked head row and the slow-mode query are invisible.              *)
(***************************************************************************)
THEOREM ImplementsLog == Spec => Log!LSpec
<1>1. Init => Log!LInit
  BY DEF Init, Log!LInit, StreamLog, KeptPositions
<1>2. Init => RowsApart
  BY DEF Init, RowsApart
<1>3. IInv /\ RowsApart /\ [Next]_vars => RowsApart'
  BY NextApart
<1>4. IInv /\ IInv' /\ RowsApart /\ [Next]_vars => [Log!LNext]_(Log!lvars)
  BY NextSimulates
<1> QED
  BY <1>1, <1>2, <1>3, <1>4, Invariance, PTL DEF Spec, Log!LSpec
=============================================================================
