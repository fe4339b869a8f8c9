------------------------ MODULE RealtimeGatewayProofs ------------------------
(***************************************************************************)
(* Proofs about RealtimeGateway for any number of sockets, sources and     *)
(* sessions and any limits.                                                *)
(***************************************************************************)
EXTENDS RealtimeGateway, FiniteSetTheorems, SequenceTheorems, TLAPS

(***************************************************************************)
(* What is true of a socket r when rev holds the revocations: the running  *)
(* command is in the queue, an authentication knows its session, a command *)
(* past the revalidation has a principal, and the answer of a durable read *)
(* is as old as `wait` says: a session that was active then was revoked    *)
(* later.  A principal was validated `age` ago, by such an answer.         *)
(***************************************************************************)
SocketInv(r, rev) ==
    /\ Len(r.queue) <= MaxPending
    /\ r.step # "idle" => r.queue # <<>>
    /\ r.conn = "new" => r.principal = None
    /\ r.step = "consumed" => r.who \in Sessions /\ rev[r.who] <= r.wait
    /\ r.step \in {"revalidating", "validated", "executing"} => r.principal \in Sessions
    /\ r.step = "validated" => rev[r.principal] <= r.wait
    /\ r.principal \in Sessions => rev[r.principal] <= r.age + AnswerTime

\* The registered sockets were accepted from a source, before the drain ended.
ContextsInv ==
    /\ IsFiniteSet(contexts)
    /\ \A s \in contexts : sock[s].conn # "new" /\ sock[s].source \in Sources
    /\ phase = "destroyed" => contexts = {}

\* The inductive invariant.
IInv ==
    /\ TypeOK
    /\ RegistryExact
    /\ ContextsInv
    /\ \A s \in Sockets : SocketInv(sock[s], revoked)
-----------------------------------------------------------------------------
\* Closing changes readyState only, and never back to "new".
LEMMA CloseRecord ==
    ASSUME NEW r \in Socket
    PROVE  /\ Close(r) \in Socket
           /\ Close(r).conn = "new" <=> r.conn = "new"
           /\ Close(r).source = r.source /\ Close(r).principal = r.principal
           /\ Close(r).age = r.age /\ Close(r).wait = r.wait /\ Close(r).who = r.who
           /\ Close(r).queue = r.queue /\ Close(r).step = r.step
<1>1. CASE r.conn = "open"
  <2> DEFINE n == [r EXCEPT !.conn = "closing"]
  <2>1. /\ n \in Socket /\ n.conn = "closing" /\ n.source = r.source
        /\ n.principal = r.principal /\ n.age = r.age /\ n.wait = r.wait /\ n.who = r.who
        /\ n.queue = r.queue /\ n.step = r.step
    BY DEF Socket
  <2>2. Close(r) = n
    BY <1>1 DEF Close
  <2> HIDE DEF n
  <2> QED
    BY <1>1, <2>1, <2>2
<1>2. CASE r.conn # "open"
  BY <1>2 DEF Close
<1> QED
  BY <1>1, <1>2

\* The end of a command takes it off the queue and keeps the rest of the socket.
LEMMA DoneRecord ==
    ASSUME NEW r \in Socket, NEW rev, SocketInv(r, rev), r.queue # <<>>, GatewayAssumption
    PROVE  /\ Done(r) \in Socket /\ SocketInv(Done(r), rev)
           /\ Done(r).conn = r.conn /\ Done(r).source = r.source
           /\ Done(r).principal = r.principal /\ Done(r).step = "idle"
<1> DEFINE n == Done(r)
<1>1. /\ Tail(r.queue) \in Seq(Commands) /\ Len(Tail(r.queue)) = Len(r.queue) - 1
      /\ Len(r.queue) \in Nat
  <2>1. r.queue \in Seq(Commands)
    BY DEF Socket
  <2> QED
    BY <2>1, HeadTailProperties, LenProperties
<1>2. AnswerTime \in Nat /\ MaxPending \in Nat
  BY GatewayAssumption DEF GatewayAssumption
<1>3. /\ n \in Socket /\ n.conn = r.conn /\ n.source = r.source /\ n.age = r.age
      /\ n.principal = r.principal /\ n.step = "idle" /\ n.queue = Tail(r.queue)
  <2>1. PICK q \in Seq(Commands) : q = Tail(r.queue)
    BY <1>1
  <2>2. n = [r EXCEPT !.queue = q, !.step = "idle", !.who = None, !.wait = 0]
    BY <2>1 DEF Done
  <2>3. 0 \in 0..AnswerTime /\ "idle" \in Steps /\ None \in Sessions \cup {None}
    BY <1>2 DEF Steps
  <2> QED
    BY <2>1, <2>2, <2>3 DEF Socket
<1> HIDE DEF n
<1>4. SocketInv(n, rev)
  BY <1>1, <1>2, <1>3 DEF SocketInv
<1> QED
  BY <1>3, <1>4 DEF n

\* A step of one socket that the registry does not see keeps the invariant.
LEMMA QuietStep ==
    ASSUME IInv, NEW s \in Sockets, NEW r \in Socket, Set(s, r),
           UNCHANGED <<registry, revoked, phase>>,
           SocketInv(r, revoked), r.source = sock[s].source, r.principal = sock[s].principal,
           r.conn = "new" => sock[s].conn = "new"
    PROVE  IInv'
<1>1. /\ contexts' = contexts /\ sourceCounts' = sourceCounts
      /\ sessionSockets' = sessionSockets /\ revoked' = revoked /\ phase' = phase
  BY DEF registry
<1>2. sock \in [Sockets -> Socket]
  BY DEF IInv, TypeOK
<1>3. sock' \in [Sockets -> Socket] /\ sock'[s] = r /\ \A q \in Sockets : q # s => sock'[q] = sock[q]
  BY <1>2 DEF Set
<1>4. \A q \in Sockets : /\ sock'[q].source = sock[q].source
                         /\ sock'[q].principal = sock[q].principal
                         /\ sock'[q].conn = "new" => sock[q].conn = "new"
  BY <1>3
<1>5. \A q \in Sockets : SocketInv(sock'[q], revoked)
  BY <1>3 DEF IInv
<1>6. TypeOK'
  BY <1>1, <1>3, <1>5 DEF IInv, TypeOK, SocketInv
<1>7. contexts \subseteq Sockets
  BY DEF IInv, TypeOK
<1>8. RegistryExact'
  <2>1. \A k \in Sources : {q \in contexts : sock'[q].source = k} = {q \in contexts : sock[q].source = k}
    BY <1>4, <1>7
  <2>2. \A p \in Sessions :
           {q \in contexts : sock'[q].principal = p} = {q \in contexts : sock[q].principal = p}
    BY <1>4, <1>7
  <2> QED
    BY <1>1, <2>1, <2>2 DEF IInv, RegistryExact
<1>9. ContextsInv'
  BY <1>1, <1>4, <1>7 DEF IInv, ContextsInv
<1> QED
  BY <1>1, <1>5, <1>6, <1>8, <1>9 DEF IInv

\* A command ends, with an answer or an error, and the socket stays open or closes.
LEMMA CommandEnds ==
    ASSUME IInv, NEW s \in Sockets, sock[s].queue # <<>>,
           Reply(s) \/ \E kind \in Kinds : CommandError(s, kind),
           UNCHANGED <<registry, revoked, phase>>
    PROVE  IInv'
<1>1. sock[s] \in Socket /\ SocketInv(sock[s], revoked)
  BY DEF IInv, TypeOK
<1>2. PICK r \in {sock[s], Close(sock[s])} : Set(s, Done(r))
  BY DEF Reply, CommandError
<1>3. /\ r \in Socket /\ r.queue # <<>>
      /\ r.source = sock[s].source /\ r.principal = sock[s].principal
      /\ r.conn = "new" => sock[s].conn = "new"
  BY <1>1, CloseRecord
<1>4. SocketInv(r, revoked)
  <2>1. SocketInv(Close(sock[s]), revoked)
    BY <1>1, CloseRecord DEF SocketInv
  <2> QED
    BY <1>1, <2>1
<1>5. /\ Done(r) \in Socket /\ SocketInv(Done(r), revoked) /\ Done(r).conn = r.conn
      /\ Done(r).source = r.source /\ Done(r).principal = r.principal
  BY <1>3, <1>4, DoneRecord, GatewayAssumption
<1> QED
  BY <1>2, <1>3, <1>5, QuietStep

\* An open socket starts to close.
LEMMA SocketCloses ==
    ASSUME IInv, NEW s \in Sockets, Set(s, Close(sock[s])), UNCHANGED <<registry, revoked, phase>>
    PROVE  IInv'
<1>1. sock[s] \in Socket /\ SocketInv(sock[s], revoked)
  BY DEF IInv, TypeOK
<1>2. SocketInv(Close(sock[s]), revoked)
  BY <1>1, CloseRecord DEF SocketInv
<1> QED
  BY <1>1, <1>2, CloseRecord, QuietStep
-----------------------------------------------------------------------------
\* The indexes follow when registered sockets are removed.
LEMMA RemoveKeeps ==
    ASSUME IInv, NEW S, RemoveAll(S), phase' = "destroyed" => contexts' = {},
           \A q \in Sockets : /\ sock'[q].source = sock[q].source
                              /\ sock'[q].principal = sock[q].principal
                              /\ sock'[q].conn = "new" => sock[q].conn = "new"
    PROVE  /\ RegistryExact' /\ ContextsInv'
           /\ contexts' \subseteq Sockets
           /\ sourceCounts' \in [Sources -> 0..SourceLimit]
           /\ sessionSockets' \in [Sessions -> SUBSET Sockets]
<1> DEFINE gone == S \cap contexts
<1>1. /\ contexts' = contexts \ gone
      /\ sourceCounts' = [k \in Sources |->
            sourceCounts[k] - Cardinality({q \in gone : sock[q].source = k})]
      /\ sessionSockets' = [p \in Sessions |->
            sessionSockets[p] \ {q \in gone : sock[q].principal = p}]
  BY DEF RemoveAll
<1>2. /\ contexts \subseteq Sockets /\ IsFiniteSet(contexts)
      /\ sourceCounts \in [Sources -> 0..SourceLimit]
      /\ sessionSockets \in [Sessions -> SUBSET Sockets]
      /\ SourceLimit \in Nat /\ SessionLimit \in Nat
  BY GatewayAssumption DEF IInv, TypeOK, ContextsInv
<1>3. ASSUME NEW k \in Sources
      PROVE  /\ sourceCounts'[k] = Cardinality({q \in contexts' : sock'[q].source = k})
             /\ sourceCounts'[k] \in 0..SourceLimit
  <2> DEFINE A == {q \in contexts : sock[q].source = k}
             B == {q \in gone : sock[q].source = k}
             C == {q \in contexts' : sock'[q].source = k}
  <2>1. B \subseteq A /\ A \in SUBSET contexts /\ C = A \ B
    BY <1>1, <1>2
  <2>2. IsFiniteSet(A)
    BY <1>2, <2>1, FS_Subset
  <2>3. IsFiniteSet(B) /\ IsFiniteSet(C)
    BY <2>1, <2>2, FS_Subset
  <2>4. B \cup C = A /\ B \cap C = {}
    BY <2>1
  <2> HIDE DEF A, B, C
  <2>5. Cardinality(A) = Cardinality(B) + Cardinality(C) - Cardinality({})
    BY <2>3, <2>4, FS_Union
  <2>6. /\ Cardinality({}) = 0 /\ Cardinality(A) \in Nat
        /\ Cardinality(B) \in Nat /\ Cardinality(C) \in Nat
    BY <2>2, <2>3, FS_EmptySet, FS_CardinalityType
  <2>7. sourceCounts[k] = Cardinality(A)
    BY DEF IInv, RegistryExact, A
  <2>8. sourceCounts'[k] = sourceCounts[k] - Cardinality(B)
    BY <1>1 DEF B
  <2>9. sourceCounts'[k] = Cardinality(C) /\ sourceCounts'[k] \in 0..SourceLimit
    BY <1>2, <2>5, <2>6, <2>7, <2>8
  <2> QED
    BY <2>9 DEF C
<1>4. ASSUME NEW p \in Sessions
      PROVE  /\ sessionSockets'[p] = {q \in contexts' : sock'[q].principal = p}
             /\ Cardinality(sessionSockets'[p]) <= SessionLimit
             /\ sessionSockets'[p] \subseteq Sockets
  <2>1. /\ sessionSockets[p] = {q \in contexts : sock[q].principal = p}
        /\ Cardinality(sessionSockets[p]) <= SessionLimit
    BY DEF IInv, RegistryExact
  <2>2. sessionSockets'[p] = sessionSockets[p] \ {q \in gone : sock[q].principal = p}
    BY <1>1
  <2>3. IsFiniteSet(sessionSockets[p])
    BY <1>2, <2>1, FS_Subset
  <2>4. sessionSockets'[p] \in SUBSET sessionSockets[p]
    BY <2>2
  <2>5. IsFiniteSet(sessionSockets'[p]) /\ Cardinality(sessionSockets'[p]) <= Cardinality(sessionSockets[p])
    BY <2>3, <2>4, FS_Subset
  <2>6. Cardinality(sessionSockets'[p]) <= SessionLimit
    BY <1>2, <2>1, <2>3, <2>5, FS_CardinalityType
  <2>7. sessionSockets'[p] = {q \in contexts' : sock'[q].principal = p}
    BY <1>1, <1>2, <2>1, <2>2
  <2> QED
    BY <1>2, <2>4, <2>6, <2>7
<1>5. RegistryExact'
  BY <1>3, <1>4 DEF RegistryExact
<1>6. ContextsInv'
  <2>1. contexts' \in SUBSET contexts
    BY <1>1
  <2>2. IsFiniteSet(contexts')
    BY <1>2, <2>1, FS_Subset
  <2> QED
    BY <1>2, <2>1, <2>2 DEF IInv, ContextsInv
<1> QED
  BY <1>1, <1>2, <1>3, <1>4, <1>5, <1>6

\* The close event unregisters the socket.
LEMMA CleanupInv ==
    ASSUME IInv, NEW s \in Sockets, Cleanup(s)
    PROVE  IInv'
<1> DEFINE n == [sock[s] EXCEPT !.conn = "closed", !.timer = FALSE]
<1>1. sock \in [Sockets -> Socket] /\ SocketInv(sock[s], revoked)
  BY DEF IInv, TypeOK
<1>2. /\ n \in Socket /\ n.conn = "closed" /\ n.source = sock[s].source /\ n.age = sock[s].age
      /\ n.principal = sock[s].principal /\ n.step = sock[s].step /\ n.queue = sock[s].queue
      /\ n.who = sock[s].who /\ n.wait = sock[s].wait
  BY <1>1 DEF Socket
<1>3. RemoveAll({s}) /\ sock' = [sock EXCEPT ![s] = n] /\ revoked' = revoked /\ phase' = phase
  BY DEF Cleanup, Set
<1> HIDE DEF n
<1>4. sock' \in [Sockets -> Socket] /\ sock'[s] = n /\ \A q \in Sockets : q # s => sock'[q] = sock[q]
  BY <1>1, <1>2, <1>3
<1>5. SocketInv(n, revoked)
  BY <1>1, <1>2 DEF SocketInv
<1>6. \A q \in Sockets : SocketInv(sock'[q], revoked)
  BY <1>4, <1>5 DEF IInv
<1>7. phase' = "destroyed" => contexts' = {}
  BY <1>3 DEF RemoveAll, IInv, ContextsInv
<1>8. \A q \in Sockets : /\ sock'[q].source = sock[q].source
                         /\ sock'[q].principal = sock[q].principal
                         /\ sock'[q].conn = "new" => sock[q].conn = "new"
  BY <1>2, <1>4
<1>9. /\ RegistryExact' /\ ContextsInv' /\ contexts' \subseteq Sockets
      /\ sourceCounts' \in [Sources -> 0..SourceLimit]
      /\ sessionSockets' \in [Sessions -> SUBSET Sockets]
  BY <1>3, <1>7, <1>8, RemoveKeeps
<1>10. TypeOK'
  BY <1>3, <1>4, <1>6, <1>9 DEF IInv, TypeOK, SocketInv
<1> QED
  BY <1>3, <1>6, <1>9, <1>10 DEF IInv

\* onModuleDestroy empties the registry.
LEMMA DestroyInv ==
    ASSUME IInv, Destroy
    PROVE  IInv'
<1>1. sock \in [Sockets -> Socket] /\ contexts \subseteq Sockets
  BY DEF IInv, TypeOK
<1>2. /\ RemoveAll(contexts) /\ revoked' = revoked /\ phase' = "destroyed"
      /\ sock' = [q \in Sockets |-> IF q \in contexts
                                    THEN Close([sock[q] EXCEPT !.timer = FALSE])
                                    ELSE sock[q]]
  BY DEF Destroy
<1>3. ASSUME NEW q \in Sockets
      PROVE  /\ sock'[q] \in Socket /\ SocketInv(sock'[q], revoked)
             /\ sock'[q].source = sock[q].source /\ sock'[q].principal = sock[q].principal
             /\ sock'[q].conn = "new" => sock[q].conn = "new"
  <2> DEFINE n == [sock[q] EXCEPT !.timer = FALSE]
  <2>1. sock[q] \in Socket /\ SocketInv(sock[q], revoked)
    BY DEF IInv, TypeOK
  <2>2. /\ n \in Socket /\ n.conn = sock[q].conn /\ n.source = sock[q].source
        /\ n.age = sock[q].age /\ n.principal = sock[q].principal /\ n.step = sock[q].step
        /\ n.queue = sock[q].queue /\ n.who = sock[q].who /\ n.wait = sock[q].wait
    BY <2>1 DEF Socket
  <2>3. sock'[q] = IF q \in contexts THEN Close(n) ELSE sock[q]
    BY <1>2
  <2> HIDE DEF n
  <2>4. /\ Close(n) \in Socket
        /\ Close(n).conn = "new" <=> n.conn = "new"
        /\ Close(n).source = n.source /\ Close(n).principal = n.principal
        /\ Close(n).age = n.age /\ Close(n).wait = n.wait /\ Close(n).who = n.who
        /\ Close(n).queue = n.queue /\ Close(n).step = n.step
    BY <2>2, CloseRecord
  <2>5. SocketInv(Close(n), revoked)
    BY <2>1, <2>2, <2>4 DEF SocketInv
  <2> QED
    BY <2>1, <2>2, <2>3, <2>4, <2>5
<1>4. contexts' = {}
  BY <1>2 DEF RemoveAll
<1>5. /\ RegistryExact' /\ ContextsInv' /\ contexts' \subseteq Sockets
      /\ sourceCounts' \in [Sources -> 0..SourceLimit]
      /\ sessionSockets' \in [Sessions -> SUBSET Sockets]
  BY <1>2, <1>3, <1>4, RemoveKeeps
<1>6. sock' \in [Sockets -> Socket]
  BY <1>2, <1>3
<1>7. TypeOK'
  BY <1>2, <1>3, <1>5, <1>6 DEF IInv, TypeOK, SocketInv
<1> QED
  BY <1>2, <1>3, <1>5, <1>7 DEF IInv
-----------------------------------------------------------------------------
\* handleConnection registers a socket that has no principal.
LEMMA ConnectInv ==
    ASSUME IInv, NEW s \in Sockets, NEW k \in Sources, Connect(s, k)
    PROVE  IInv'
<1>1. /\ sock \in [Sockets -> Socket] /\ sock[s] \in Socket /\ SocketInv(sock[s], revoked)
      /\ sock[s].conn = "new" /\ phase = "ready" /\ revoked' = revoked /\ phase' = phase
  BY DEF IInv, TypeOK, Connect, VerifyClient
<1>2. CASE sourceCounts[k] >= SourceLimit
  <2> DEFINE n == [sock[s] EXCEPT !.conn = "closing"]
  <2>1. /\ n \in Socket /\ n.conn = "closing" /\ n.source = sock[s].source /\ n.age = sock[s].age
        /\ n.principal = sock[s].principal /\ n.step = sock[s].step /\ n.queue = sock[s].queue
        /\ n.who = sock[s].who /\ n.wait = sock[s].wait
    BY <1>1 DEF Socket
  <2>2. Set(s, n) /\ UNCHANGED <<registry, revoked, phase>>
    BY <1>1, <1>2 DEF Connect
  <2> HIDE DEF n
  <2>3. SocketInv(n, revoked)
    BY <1>1, <2>1 DEF SocketInv
  <2> QED
    BY <2>1, <2>2, <2>3, QuietStep
<1>3. CASE ~(sourceCounts[k] >= SourceLimit)
  <2> DEFINE n == [sock[s] EXCEPT !.conn = "open", !.source = k, !.timer = TRUE]
  <2>1. /\ n \in Socket /\ n.conn = "open" /\ n.source = k /\ n.age = sock[s].age
        /\ n.principal = sock[s].principal /\ n.step = sock[s].step /\ n.queue = sock[s].queue
        /\ n.who = sock[s].who /\ n.wait = sock[s].wait
    BY <1>1 DEF Socket
  <2>2. /\ contexts' = contexts \cup {s} /\ sourceCounts' = [sourceCounts EXCEPT ![k] = @ + 1]
        /\ sock' = [sock EXCEPT ![s] = n] /\ sessionSockets' = sessionSockets
    BY <1>3 DEF Connect, Set
  <2> HIDE DEF n
  <2>3. sock' \in [Sockets -> Socket] /\ sock'[s] = n /\ \A q \in Sockets : q # s => sock'[q] = sock[q]
    BY <1>1, <2>1, <2>2
  <2>4. s \notin contexts /\ contexts \subseteq Sockets /\ n.principal = None /\ None \notin Sessions
    BY <1>1, <2>1, GatewayAssumption DEF IInv, TypeOK, ContextsInv, SocketInv
  <2>5. SocketInv(n, revoked)
    BY <1>1, <2>1 DEF SocketInv
  <2>6. \A q \in Sockets : SocketInv(sock'[q], revoked)
    BY <2>3, <2>5 DEF IInv
  <2>7. sourceCounts \in [Sources -> 0..SourceLimit] /\ SourceLimit \in Nat
    BY GatewayAssumption DEF IInv, TypeOK
  <2>8. sourceCounts' \in [Sources -> 0..SourceLimit]
    BY <1>3, <2>2, <2>7
  <2>9. TypeOK'
    BY <1>1, <2>2, <2>3, <2>6, <2>8 DEF IInv, TypeOK, SocketInv
  <2>10. ASSUME NEW j \in Sources
         PROVE  sourceCounts'[j] = Cardinality({q \in contexts' : sock'[q].source = j})
    <3> DEFINE A == {q \in contexts : sock[q].source = j}
    <3>1. sourceCounts[j] = Cardinality(A)
      BY DEF IInv, RegistryExact
    <3>2. IsFiniteSet(A) /\ s \notin A
      BY <2>4, FS_Subset DEF IInv, ContextsInv
    <3>3. CASE j = k
      <4>1. {q \in contexts' : sock'[q].source = j} = A \cup {s}
        BY <2>1, <2>2, <2>3, <2>4, <3>3
      <4>2. sourceCounts'[j] = sourceCounts[j] + 1
        BY <2>2, <2>7, <3>3
      <4> HIDE DEF A
      <4> QED
        BY <3>1, <3>2, <4>1, <4>2, FS_AddElement
    <3>4. CASE j # k
      <4>1. {q \in contexts' : sock'[q].source = j} = A
        BY <2>1, <2>2, <2>3, <2>4, <3>4
      <4>2. sourceCounts'[j] = sourceCounts[j]
        BY <2>2, <2>7, <3>4
      <4> QED
        BY <3>1, <4>1, <4>2
    <3> QED
      BY <3>3, <3>4
  <2>11. ASSUME NEW p \in Sessions
         PROVE  {q \in contexts' : sock'[q].principal = p} = {q \in contexts : sock[q].principal = p}
    BY <2>2, <2>3, <2>4
  <2>12. RegistryExact'
    BY <2>2, <2>10, <2>11 DEF IInv, RegistryExact
  <2>13. ContextsInv'
    <3>1. IsFiniteSet(contexts')
      BY <2>2, FS_AddElement DEF IInv, ContextsInv
    <3> QED
      BY <1>1, <2>1, <2>2, <2>3, <2>4, <3>1 DEF IInv, ContextsInv
  <2> QED
    BY <1>1, <2>6, <2>9, <2>12, <2>13 DEF IInv
<1> QED
  BY <1>2, <1>3

\* registry.authenticate adds the socket to its session, within the limit.
LEMMA AuthenticatedInv ==
    ASSUME IInv, NEW s \in Sockets, Authenticated(s)
    PROVE  IInv'
<1>1. /\ sock \in [Sockets -> Socket] /\ sock[s] \in Socket /\ SocketInv(sock[s], revoked)
      /\ sock[s].step = "consumed" /\ revoked' = revoked /\ phase' = phase
      /\ contexts' = contexts /\ sourceCounts' = sourceCounts
  BY DEF IInv, TypeOK, Authenticated
<1>2. PICK p \in Sessions : p = sock[s].who
  BY <1>1 DEF SocketInv
<1>3. sock[s].queue # <<>> /\ revoked[p] <= sock[s].wait
  BY <1>1, <1>2 DEF SocketInv
<1>4. CASE ~RegistryAccepts(s)
  <2>1. CommandError(s, "rate_limited") /\ UNCHANGED <<registry, revoked, phase>>
    BY <1>1, <1>4 DEF Authenticated, registry
  <2> QED
    BY <1>3, <2>1, CommandEnds DEF Kinds
<1>5. CASE RegistryAccepts(s)
  <2> DEFINE n == [sock[s] EXCEPT !.step = "opening", !.principal = p, !.age = 0, !.wait = 0,
                                  !.who = None, !.timer = FALSE]
  <2>1. AnswerTime \in Nat /\ Revalidate \in Nat /\ SessionLimit \in Nat
        /\ revoked[p] \in Int /\ sock[s].wait \in Nat /\ sock[s].wait <= AnswerTime
    BY <1>1, GatewayAssumption DEF IInv, TypeOK, Socket
  <2>2. /\ n \in Socket /\ n.conn = sock[s].conn /\ n.source = sock[s].source /\ n.age = 0
        /\ n.principal = p /\ n.step = "opening" /\ n.queue = sock[s].queue
    <3>1. "opening" \in Steps /\ 0 \in 0..Revalidate /\ 0 \in 0..AnswerTime
      BY <2>1 DEF Steps
    <3> QED
      BY <1>1, <3>1 DEF Socket
  <2>3. /\ sessionSockets' = [sessionSockets EXCEPT ![p] = @ \cup {s}]
        /\ sock' = [sock EXCEPT ![s] = n]
    BY <1>2, <1>5 DEF Authenticated, Set
  <2>4. /\ s \in contexts /\ sock[s].principal = None
        /\ Cardinality(sessionSockets[p]) < SessionLimit
    BY <1>2, <1>5 DEF RegistryAccepts
  <2> HIDE DEF n
  <2>5. sock' \in [Sockets -> Socket] /\ sock'[s] = n /\ \A q \in Sockets : q # s => sock'[q] = sock[q]
    BY <1>1, <2>2, <2>3
  <2>6. /\ contexts \subseteq Sockets /\ IsFiniteSet(contexts) /\ sock[s].conn # "new"
        /\ sessionSockets \in [Sessions -> SUBSET Sockets] /\ None \notin Sessions
    BY <2>4, GatewayAssumption DEF IInv, TypeOK, ContextsInv
  <2>7. SocketInv(n, revoked)
    BY <1>1, <1>3, <2>1, <2>2, <2>6 DEF SocketInv
  <2>8. \A q \in Sockets : SocketInv(sock'[q], revoked)
    BY <2>5, <2>7 DEF IInv
  <2>9. sessionSockets' \in [Sessions -> SUBSET Sockets]
    BY <2>3, <2>6
  <2>10. TypeOK'
    BY <1>1, <2>5, <2>8, <2>9 DEF IInv, TypeOK, SocketInv
  <2>11. ASSUME NEW o \in Sessions
         PROVE  /\ sessionSockets'[o] = {q \in contexts' : sock'[q].principal = o}
                /\ Cardinality(sessionSockets'[o]) <= SessionLimit
    <3>1. /\ sessionSockets[o] = {q \in contexts : sock[q].principal = o}
          /\ Cardinality(sessionSockets[o]) <= SessionLimit
      BY DEF IInv, RegistryExact
    <3>2. IsFiniteSet(sessionSockets[o]) /\ s \notin sessionSockets[o]
      BY <2>4, <2>6, <3>1, FS_Subset
    <3>3. CASE o = p
      <4>1. sessionSockets'[o] = sessionSockets[o] \cup {s}
        BY <2>3, <2>6, <3>3
      <4>2. Cardinality(sessionSockets'[o]) = Cardinality(sessionSockets[o]) + 1
            /\ Cardinality(sessionSockets[o]) \in Nat
        BY <3>2, <4>1, FS_AddElement, FS_CardinalityType
      <4>3. sessionSockets'[o] = {q \in contexts' : sock'[q].principal = o}
        BY <1>1, <2>2, <2>4, <2>5, <2>6, <3>1, <3>3, <4>1
      <4> QED
        BY <2>1, <2>4, <3>3, <4>2, <4>3
    <3>4. CASE o # p
      <4>1. sessionSockets'[o] = sessionSockets[o]
        BY <2>3, <2>6, <3>4
      <4> QED
        BY <1>1, <2>2, <2>4, <2>5, <2>6, <3>1, <3>2, <3>4, <4>1
    <3> QED
      BY <3>3, <3>4
  <2>12. ASSUME NEW k \in Sources
         PROVE  sourceCounts'[k] = Cardinality({q \in contexts' : sock'[q].source = k})
    <3>1. {q \in contexts' : sock'[q].source = k} = {q \in contexts : sock[q].source = k}
      BY <1>1, <2>2, <2>5, <2>6
    <3> QED
      BY <1>1, <3>1 DEF IInv, RegistryExact
  <2>13. RegistryExact'
    BY <2>11, <2>12 DEF RegistryExact
  <2>14. ContextsInv'
    BY <1>1, <2>2, <2>5, <2>6 DEF IInv, ContextsInv
  <2> QED
    BY <1>1, <2>8, <2>10, <2>13, <2>14 DEF IInv
<1> QED
  BY <1>4, <1>5

\* A frame of the peer, the timer and the end of the connection.
LEMMA FrameInv ==
    ASSUME IInv, NEW s \in Sockets,
           \/ AuthenticationTimeout(s) \/ Leave(s) \/ Refuse(s)
           \/ \E c \in Commands : Enqueue(s, c)
    PROVE  IInv'
<1>1. sock[s] \in Socket /\ SocketInv(sock[s], revoked)
  BY DEF IInv, TypeOK
<1>2. UNCHANGED <<registry, revoked, phase>>
  BY DEF AuthenticationTimeout, Leave, Refuse, Enqueue
<1>3. CASE AuthenticationTimeout(s)
  <2> DEFINE n == [sock[s] EXCEPT !.timer = FALSE]
  <2>1. /\ n \in Socket /\ n.conn = sock[s].conn /\ n.source = sock[s].source
        /\ n.age = sock[s].age /\ n.principal = sock[s].principal /\ n.step = sock[s].step
        /\ n.queue = sock[s].queue /\ n.who = sock[s].who /\ n.wait = sock[s].wait
    BY <1>1 DEF Socket
  <2>2. Set(s, Close(n))
    BY <1>3 DEF AuthenticationTimeout
  <2> HIDE DEF n
  <2>3. SocketInv(Close(n), revoked)
    BY <1>1, <2>1, CloseRecord DEF SocketInv
  <2> QED
    BY <1>2, <2>1, <2>2, <2>3, CloseRecord, QuietStep
<1>4. CASE Set(s, Close(sock[s]))
  BY <1>2, <1>4, SocketCloses
<1>5. ASSUME NEW c \in Commands, ~(Len(sock[s].queue) >= MaxPending),
             Set(s, [sock[s] EXCEPT !.queue = Append(@, c)])
      PROVE  IInv'
  <2>1. PICK q \in Seq(Commands) : q = sock[s].queue
    BY <1>1 DEF Socket
  <2>2. /\ Append(q, c) \in Seq(Commands) /\ Len(Append(q, c)) = Len(q) + 1
        /\ Append(q, c) # <<>> /\ Len(q) \in Nat
    BY <2>1
  <2>3. PICK a \in Seq(Commands) : a = Append(q, c)
    BY <2>2
  <2> DEFINE n == [sock[s] EXCEPT !.queue = a]
  <2>4. /\ n \in Socket /\ n.conn = sock[s].conn /\ n.source = sock[s].source
        /\ n.age = sock[s].age /\ n.principal = sock[s].principal /\ n.step = sock[s].step
        /\ n.queue = a /\ n.who = sock[s].who /\ n.wait = sock[s].wait
    BY <1>1, <2>3 DEF Socket
  <2>5. Set(s, n)
    BY <1>5, <2>1, <2>3
  <2> HIDE DEF n
  <2>6. Len(a) <= MaxPending
    BY <1>5, <2>1, <2>2, <2>3, GatewayAssumption
  <2>7. SocketInv(n, revoked)
    BY <1>1, <2>2, <2>3, <2>4, <2>6 DEF SocketInv
  <2> QED
    BY <1>2, <2>4, <2>5, <2>7, QuietStep
<1> QED
  BY <1>3, <1>4, <1>5 DEF Leave, Refuse, Enqueue

\* A command goes on to its next await.
LEMMA StepInv ==
    ASSUME IInv, NEW s \in Sockets, NEW n \in Socket, Set(s, n),
           UNCHANGED <<registry, revoked, phase>>,
           n.conn = sock[s].conn, n.source = sock[s].source, n.queue = sock[s].queue,
           n.principal = sock[s].principal, sock[s].queue # <<>>,
           n.step = "consumed" => n.who \in Sessions /\ revoked[n.who] <= n.wait,
           n.step \in {"revalidating", "validated", "executing"} => n.principal \in Sessions,
           n.step = "validated" => revoked[n.principal] <= n.wait,
           n.principal \in Sessions => revoked[n.principal] <= n.age + AnswerTime
    PROVE  IInv'
<1>1. SocketInv(sock[s], revoked)
  BY DEF IInv
<1>2. SocketInv(n, revoked)
  BY <1>1 DEF SocketInv
<1> QED
  BY <1>2, QuietStep

\* The next command of commandTail starts.
LEMMA ProcessInv ==
    ASSUME IInv, NEW s \in Sockets, Process(s)
    PROVE  IInv'
<1>1. sock[s] \in Socket /\ SocketInv(sock[s], revoked) /\ sock[s].queue # <<>>
      /\ UNCHANGED <<registry, revoked, phase>>
  BY DEF IInv, TypeOK, Process
<1>2. ASSUME NEW kind \in Kinds, CommandError(s, kind)
      PROVE  IInv'
  BY <1>1, <1>2, CommandEnds
<1>3. ASSUME NEW t \in {"consuming", "executing", "revalidating"},
             sock[s].principal \in Sessions \/ t = "consuming",
             Set(s, [sock[s] EXCEPT !.step = t])
      PROVE  IInv'
  <2> DEFINE n == [sock[s] EXCEPT !.step = t]
  <2>1. t \in Steps
    BY <1>3 DEF Steps
  <2>2. /\ n \in Socket /\ n.conn = sock[s].conn /\ n.source = sock[s].source
        /\ n.age = sock[s].age /\ n.principal = sock[s].principal /\ n.step = t
        /\ n.queue = sock[s].queue /\ n.who = sock[s].who /\ n.wait = sock[s].wait
    BY <1>1, <2>1 DEF Socket
  <2>3. Set(s, n)
    BY <1>3
  <2> HIDE DEF n
  <2>4. n.principal \in Sessions => revoked[n.principal] <= n.age + AnswerTime
    BY <1>1, <2>2 DEF SocketInv
  <2> QED
    BY <1>1, <1>3, <2>2, <2>3, <2>4, StepInv
<1>4. Authenticate(s) => IInv'
  BY <1>2, <1>3 DEF Authenticate, Kinds
<1>5. RequireFreshPrincipal(s) => IInv'
  <2>1. sock[s].principal # None => sock[s].principal \in Sessions
    BY <1>1 DEF Socket
  <2>2. CASE sock[s].principal = None
    BY <1>2, <2>2 DEF RequireFreshPrincipal, Kinds
  <2>3. CASE sock[s].principal # None
    <3>1. PICK t \in {"executing", "revalidating"} :
             t = IF sock[s].age < Revalidate THEN "executing" ELSE "revalidating"
      OBVIOUS
    <3> QED
      BY <1>3, <2>1, <2>3, <3>1 DEF RequireFreshPrincipal
  <2> QED
    BY <2>2, <2>3
<1>6. Head(sock[s].queue) \in Commands
  <2>1. sock[s].queue \in Seq(Commands)
    BY <1>1 DEF Socket
  <2> QED
    BY <1>1, <2>1, HeadTailProperties
<1>7. \/ Authenticate(s) \/ RequireFreshPrincipal(s) \/ CommandError(s, "validation")
  <2>1. CASE Head(sock[s].queue) = "authenticate"
    BY <2>1 DEF Process
  <2>2. CASE Head(sock[s].queue) = "command"
    BY <2>2 DEF Process
  <2>3. CASE Head(sock[s].queue) = "malformed"
    BY <2>3 DEF Process
  <2> QED
    BY <1>6, <2>1, <2>2, <2>3 DEF Commands
<1> QED
  BY <1>2, <1>4, <1>5, <1>7 DEF Kinds

\* The answers that a command waits for.
LEMMA AnswerInv ==
    ASSUME IInv, NEW s \in Sockets, Answer(s) \/ Revalidation(s), ~Authenticated(s)
    PROVE  IInv'
<1>1. /\ sock[s] \in Socket /\ SocketInv(sock[s], revoked)
      /\ UNCHANGED <<registry, revoked, phase>> /\ sock[s].step # "idle"
  BY DEF IInv, TypeOK, Answer, Revalidation, Consume, ConsumeFail, Opened,
     RevalidationFail, Revalidated, Executed
<1>2. sock[s].queue # <<>>
  BY <1>1 DEF SocketInv
<1>3. CASE Reply(s) \/ \E kind \in Kinds : CommandError(s, kind)
  BY <1>1, <1>2, <1>3, CommandEnds
<1>4. /\ AnswerTime \in Nat /\ Revalidate \in Nat /\ sock[s].wait \in Nat
      /\ sock[s].wait <= AnswerTime /\ sock[s].age \in Nat
      /\ \A p \in Sessions : revoked[p] \in Int
  BY <1>1, GatewayAssumption DEF IInv, TypeOK, Socket
<1>5. ASSUME NEW p \in Sessions, Consume(s, p)
      PROVE  IInv'
  <2> DEFINE n == [sock[s] EXCEPT !.step = "consumed", !.who = p]
  <2>1. /\ n \in Socket /\ n.conn = sock[s].conn /\ n.source = sock[s].source
        /\ n.age = sock[s].age /\ n.principal = sock[s].principal /\ n.step = "consumed"
        /\ n.queue = sock[s].queue /\ n.who = p /\ n.wait = sock[s].wait
    <3>1. "consumed" \in Steps
      BY DEF Steps
    <3> QED
      BY <1>1, <3>1 DEF Socket
  <2>2. Set(s, n) /\ revoked[p] = -1
    BY <1>5 DEF Consume
  <2> HIDE DEF n
  <2>3. n.principal \in Sessions => revoked[n.principal] <= n.age + AnswerTime
    BY <1>1, <2>1 DEF SocketInv
  <2>4. revoked[n.who] <= n.wait
    BY <1>4, <2>1, <2>2
  <2> QED
    BY <1>1, <1>2, <2>1, <2>2, <2>3, <2>4, StepInv
<1>6. ASSUME Revalidation(s), revoked[sock[s].principal] = -1
      PROVE  IInv'
  <2> DEFINE n == [sock[s] EXCEPT !.step = "validated"]
  <2>1. /\ n \in Socket /\ n.conn = sock[s].conn /\ n.source = sock[s].source
        /\ n.age = sock[s].age /\ n.principal = sock[s].principal /\ n.step = "validated"
        /\ n.queue = sock[s].queue /\ n.wait = sock[s].wait
    <3>1. "validated" \in Steps
      BY DEF Steps
    <3> QED
      BY <1>1, <3>1 DEF Socket
  <2>2. Set(s, n) /\ sock[s].principal \in Sessions
    BY <1>1, <1>6 DEF Revalidation, SocketInv
  <2> HIDE DEF n
  <2>3. revoked[n.principal] <= n.age + AnswerTime /\ revoked[n.principal] <= n.wait
    BY <1>4, <1>6, <2>1
  <2> QED
    BY <1>1, <1>2, <2>1, <2>2, <2>3, StepInv
<1>7. ASSUME Revalidated(s)
      PROVE  IInv'
  <2> DEFINE n == [sock[s] EXCEPT !.step = "executing", !.age = 0, !.wait = 0]
  <2>1. /\ n \in Socket /\ n.conn = sock[s].conn /\ n.source = sock[s].source
        /\ n.age = 0 /\ n.principal = sock[s].principal /\ n.step = "executing"
        /\ n.queue = sock[s].queue
    <3>1. "executing" \in Steps /\ 0 \in 0..Revalidate /\ 0 \in 0..AnswerTime
      BY <1>4 DEF Steps
    <3> QED
      BY <1>1, <3>1 DEF Socket
  <2>2. Set(s, n) /\ sock[s].principal \in Sessions /\ revoked[sock[s].principal] <= sock[s].wait
    BY <1>1, <1>7 DEF Revalidated, SocketInv
  <2> HIDE DEF n
  <2>3. revoked[n.principal] <= n.age + AnswerTime
    BY <1>4, <2>1, <2>2
  <2> QED
    BY <1>1, <1>2, <2>1, <2>2, <2>3, StepInv
<1>8. CASE Revalidation(s)
  BY <1>3, <1>6, <1>8 DEF Revalidation, Kinds
<1>9. CASE Answer(s)
  BY <1>3, <1>5, <1>7, <1>9 DEF Answer, ConsumeFail, Opened, RevalidationFail, Executed,
     Kinds, Tolerated
<1> QED
  BY <1>8, <1>9
-----------------------------------------------------------------------------
\* A session that is revoked now is revoked since no earlier than any durable read.
LEMMA RevokeInv ==
    ASSUME IInv, NEW p \in Sessions, Revoke(p)
    PROVE  IInv'
<1>1. /\ revoked' = [revoked EXCEPT ![p] = 0] /\ UNCHANGED <<registry, sock, phase>>
      /\ revoked \in [Sessions -> -1..(Revalidate + AnswerTime)]
      /\ AnswerTime \in Nat /\ Revalidate \in Nat /\ sock \in [Sockets -> Socket]
  BY GatewayAssumption DEF Revoke, IInv, TypeOK
<1>2. /\ revoked' \in [Sessions -> -1..(Revalidate + AnswerTime)]
      /\ revoked'[p] = 0 /\ \A o \in Sessions : o # p => revoked'[o] = revoked[o]
  BY <1>1
<1>3. ASSUME NEW s \in Sockets
      PROVE  SocketInv(sock[s], revoked')
  <2>1. SocketInv(sock[s], revoked) /\ sock[s].age \in Nat /\ sock[s].wait \in Nat
    BY <1>1 DEF IInv, Socket
  <2> QED
    BY <1>1, <1>2, <2>1 DEF SocketInv
<1>4. TypeOK'
  BY <1>1, <1>2 DEF IInv, TypeOK, registry
<1>5. RegistryExact' /\ ContextsInv'
  BY <1>1 DEF IInv, RegistryExact, ContextsInv, registry
<1> QED
  BY <1>1, <1>3, <1>4, <1>5 DEF IInv

\* All ages grow together, up to their bounds.
LEMMA TickInv ==
    ASSUME IInv, Tick
    PROVE  IInv'
<1>1. /\ revoked \in [Sessions -> -1..(Revalidate + AnswerTime)]
      /\ AnswerTime \in Nat /\ Revalidate \in Nat /\ sock \in [Sockets -> Socket]
      /\ UNCHANGED <<contexts, sourceCounts, sessionSockets, phase>>
  BY GatewayAssumption DEF Tick, IInv, TypeOK, registry
<1>2. \A p \in Sessions :
         /\ revoked'[p] \in -1..(Revalidate + AnswerTime)
         /\ revoked[p] \in Int /\ revoked'[p] \in Int
         /\ revoked'[p] <= revoked[p] + 1 /\ revoked'[p] <= Revalidate + AnswerTime
         /\ revoked[p] = -1 => revoked'[p] = -1
  <2> TAKE p \in Sessions
  <2>1. /\ revoked[p] \in -1..(Revalidate + AnswerTime)
        /\ revoked'[p] = IF revoked[p] = -1 THEN -1
                         ELSE Older(revoked[p], Revalidate + AnswerTime)
    BY <1>1 DEF Tick
  <2>2. revoked'[p] = -1 \/ revoked'[p] = Older(revoked[p], Revalidate + AnswerTime)
    BY <2>1
  <2> QED
    BY <1>1, <2>1, <2>2 DEF Older
<1>3. revoked' \in [Sessions -> -1..(Revalidate + AnswerTime)]
  BY <1>2 DEF Tick
<1>4. ASSUME NEW s \in Sockets
      PROVE  /\ sock'[s] \in Socket /\ SocketInv(sock'[s], revoked')
             /\ sock'[s].source = sock[s].source /\ sock'[s].principal = sock[s].principal
             /\ sock'[s].conn = sock[s].conn
  <2> DEFINE a == IF sock[s].principal = None THEN sock[s].age ELSE Older(sock[s].age, Revalidate)
             w == IF sock[s].step \in {"consumed", "validated"} THEN sock[s].wait + 1
                  ELSE sock[s].wait
             n == [sock[s] EXCEPT !.age = a, !.wait = w]
  <2>1. /\ sock[s] \in Socket /\ sock[s].age \in 0..Revalidate /\ sock[s].wait \in 0..AnswerTime
        /\ SocketInv(sock[s], revoked) /\ None \notin Sessions
    BY <1>1, GatewayAssumption DEF IInv, Socket
  <2>2. sock'[s] = n
    BY DEF Tick
  <2>3. a \in 0..Revalidate /\ w \in 0..AnswerTime
    <3>1. sock[s].step \in {"consumed", "validated"} => sock[s].wait < AnswerTime
      BY DEF Tick
    <3>2. a \in 0..Revalidate
      BY <1>1, <2>1 DEF Older
    <3>3. w \in 0..AnswerTime
      BY <1>1, <2>1, <3>1
    <3> QED
      BY <3>2, <3>3
  <2>4. sock[s].principal # None => a = sock[s].age + 1 \/ a = Revalidate
    BY <1>1, <2>1 DEF Older
  <2>5. sock[s].step \in {"consumed", "validated"} => w = sock[s].wait + 1
    OBVIOUS
  <2> HIDE DEF a, w
  <2>6. /\ n \in Socket /\ n.conn = sock[s].conn /\ n.source = sock[s].source
        /\ n.age = a /\ n.principal = sock[s].principal /\ n.step = sock[s].step
        /\ n.queue = sock[s].queue /\ n.who = sock[s].who /\ n.wait = w
    BY <2>1, <2>3 DEF Socket
  <2> HIDE DEF n
  <2>7. n.step = "consumed" => n.who \in Sessions /\ revoked'[n.who] <= n.wait
    BY <1>2, <2>1, <2>5, <2>6 DEF SocketInv
  <2>8. n.step = "validated" => revoked'[n.principal] <= n.wait
    BY <1>2, <2>1, <2>5, <2>6 DEF SocketInv
  <2>9. n.principal \in Sessions => revoked'[n.principal] <= n.age + AnswerTime
    <3> SUFFICES ASSUME NEW p \in Sessions, p = n.principal
                 PROVE  revoked'[p] <= a + AnswerTime
      BY <2>6
    <3>1. revoked[p] <= sock[s].age + AnswerTime /\ p # None
      BY <2>1, <2>6 DEF SocketInv
    <3>2. a = sock[s].age + 1 \/ a = Revalidate
      BY <2>4, <2>6, <3>1
    <3> QED
      BY <1>1, <1>2, <2>1, <3>1, <3>2
  <2>10. SocketInv(n, revoked')
    BY <2>1, <2>6, <2>7, <2>8, <2>9 DEF SocketInv
  <2> QED
    BY <2>2, <2>6, <2>10
<1>5. sock' \in [Sockets -> Socket]
  BY <1>4 DEF Tick
<1>6. TypeOK'
  BY <1>1, <1>3, <1>4, <1>5 DEF IInv, TypeOK, SocketInv
<1>7. contexts \subseteq Sockets
  BY DEF IInv, TypeOK
<1>8. RegistryExact'
  <2>1. \A k \in Sources : {q \in contexts : sock'[q].source = k} = {q \in contexts : sock[q].source = k}
    BY <1>4, <1>7
  <2>2. \A p \in Sessions :
           {q \in contexts : sock'[q].principal = p} = {q \in contexts : sock[q].principal = p}
    BY <1>4, <1>7
  <2> QED
    BY <1>1, <2>1, <2>2 DEF IInv, RegistryExact
<1>9. ContextsInv'
  BY <1>1, <1>4, <1>7 DEF IInv, ContextsInv
<1> QED
  BY <1>4, <1>6, <1>8, <1>9 DEF IInv

\* Every step keeps the inductive invariant.
LEMMA NextInv ==
    ASSUME IInv, [Next]_vars
    PROVE  IInv'
<1>1. ASSUME UNCHANGED <<registry, sock, revoked>>, phase' \in {phase, "draining"}
      PROVE  IInv'
  <2>1. TypeOK'
    BY <1>1 DEF IInv, TypeOK, registry
  <2>2. RegistryExact' /\ ContextsInv'
    BY <1>1 DEF IInv, RegistryExact, ContextsInv, registry
  <2> QED
    BY <1>1, <2>1, <2>2 DEF IInv
<1>2. CASE BeginDrain \/ UNCHANGED vars
  BY <1>1, <1>2 DEF BeginDrain, vars
<1>3. ASSUME NEW s \in Sockets,
             \/ \E k \in Sources : Connect(s, k)
             \/ AuthenticationTimeout(s) \/ Leave(s) \/ Cleanup(s)
             \/ \E c \in Commands : Enqueue(s, c)
             \/ Refuse(s) \/ Process(s) \/ Answer(s) \/ Revalidation(s)
      PROVE  IInv'
  BY <1>3, ConnectInv, FrameInv, CleanupInv, ProcessInv, AuthenticatedInv, AnswerInv
<1>4. CASE Next
  BY <1>2, <1>3, <1>4, RevokeInv, TickInv, DestroyInv DEF Next
<1> QED
  BY <1>2, <1>4

\* The gateway before its first connection satisfies the invariant.
LEMMA InitInv == Init => IInv
<1> SUFFICES ASSUME Init PROVE IInv
  OBVIOUS
<1>1. /\ AnswerTime \in Nat /\ Revalidate \in Nat /\ MaxPending \in Nat
      /\ SourceLimit \in Nat /\ SessionLimit \in Nat /\ None \notin Sessions
  BY GatewayAssumption
<1>2. <<>> \in Seq(Commands) /\ Len(<<>>) = 0
  OBVIOUS
<1>3. NewSocket \in Socket
  BY <1>1, <1>2 DEF NewSocket, Socket, Steps
<1>4. SocketInv(NewSocket, revoked)
  BY <1>1, <1>2 DEF NewSocket, SocketInv
<1>5. TypeOK
  BY <1>1, <1>3, <1>4 DEF Init, TypeOK, SocketInv
<1>6. RegistryExact
  <2>1. \A k \in Sources : {s \in contexts : sock[s].source = k} = {}
    BY DEF Init
  <2>2. \A p \in Sessions : {s \in contexts : sock[s].principal = p} = {}
    BY DEF Init
  <2> QED
    BY <1>1, <2>1, <2>2, FS_EmptySet DEF Init, RegistryExact
<1>7. ContextsInv
  BY FS_EmptySet DEF Init, ContextsInv
<1> QED
  BY <1>4, <1>5, <1>6, <1>7 DEF Init, IInv

\* The inductive invariant holds in every reachable state.
THEOREM Invariance == Spec => []IInv
  BY InitInv, NextInv, PTL DEF Spec

\* Types; no source and no command queue exceeds its bound.
THEOREM TypeCorrect == Spec => []TypeOK
<1>1. IInv => TypeOK
  BY DEF IInv
<1> QED
  BY <1>1, Invariance, PTL

(***************************************************************************)
(* The registry looks the socket up again after the await of authenticate, *)
(* so its indexes count the registered sockets exactly and the limit per   *)
(* session is kept, whatever closes, times out or drains meanwhile.        *)
(***************************************************************************)
THEOREM RegistryCountsExactly == Spec => []RegistryExact
<1>1. IInv => RegistryExact
  BY DEF IInv
<1> QED
  BY <1>1, Invariance, PTL

\* After onModuleDestroy the registry is empty and stays so.
THEOREM DrainIsFinal == Spec => []DrainedStaysEmpty
<1>1. IInv => DrainedStaysEmpty
  <2> SUFFICES ASSUME IInv, phase = "destroyed"
               PROVE  /\ contexts = {}
                      /\ \A k \in Sources : sourceCounts[k] = 0
                      /\ \A p \in Sessions : sessionSockets[p] = {}
    BY DEF DrainedStaysEmpty
  <2>1. contexts = {}
    BY DEF IInv, ContextsInv
  <2>2. \A k \in Sources : {s \in contexts : sock[s].source = k} = {}
    BY <2>1
  <2>3. \A p \in Sessions : {s \in contexts : sock[s].principal = p} = {}
    BY <2>1
  <2> QED
    BY <2>1, <2>2, <2>3, FS_EmptySet DEF IInv, RegistryExact
<1> QED
  BY <1>1, Invariance, PTL

\* A command starts to execute after a revalidation or on a principal that is fresh.
LEMMA ExecutionStarts ==
    ASSUME IInv, Next, NEW s \in Sockets,
           sock[s].step # "executing", sock'[s].step = "executing"
    PROVE  \/ sock[s].step = "validated"
           \/ sock[s].principal # None /\ sock[s].age < Revalidate
<1>1. sock \in [Sockets -> Socket] /\ sock[s] \in Socket
  BY DEF IInv, TypeOK
<1>2. ASSUME NEW q \in Sockets, NEW n, Set(q, n)
      PROVE  q = s /\ n.step = "executing"
  BY <1>1, <1>2 DEF Set
<1>3. ASSUME NEW q \in Sockets, Reply(q) \/ \E kind \in Kinds : CommandError(q, kind)
      PROVE  FALSE
  <2>1. PICK r \in {sock[q], Close(sock[q])} : Set(q, Done(r))
    BY <1>3 DEF Reply, CommandError
  <2>2. r \in Socket
    BY <1>1, CloseRecord
  <2>3. Done(r).step = "idle"
    BY <2>2 DEF Done, Socket
  <2> QED
    BY <1>2, <2>1, <2>3
<1>4. ASSUME NEW q \in Sockets,
             \/ \E k \in Sources : Connect(q, k)
             \/ AuthenticationTimeout(q) \/ Leave(q) \/ Cleanup(q)
             \/ \E c \in Commands : Enqueue(q, c)
             \/ Refuse(q)
      PROVE  FALSE
  <2>1. ASSUME NEW n, Set(q, n), n.step = sock[q].step
        PROVE  FALSE
    BY <1>2, <2>1
  <2>2. sock[q] \in Socket
    BY <1>1
  <2>3. Close(sock[q]).step = sock[q].step
    BY <2>2, CloseRecord
  <2>4. CASE \E k \in Sources : Connect(q, k)
    BY <2>1, <2>2, <2>4 DEF Connect, Socket
  <2>5. CASE AuthenticationTimeout(q)
    <3> DEFINE n == [sock[q] EXCEPT !.timer = FALSE]
    <3>1. n \in Socket /\ n.step = sock[q].step /\ Set(q, Close(n))
      BY <2>2, <2>5 DEF Socket, AuthenticationTimeout
    <3> HIDE DEF n
    <3> QED
      BY <2>1, <3>1, CloseRecord
  <2>6. CASE Leave(q) \/ Refuse(q)
    BY <2>1, <2>3, <2>6 DEF Leave, Refuse
  <2>7. CASE Cleanup(q)
    BY <2>1, <2>2, <2>7 DEF Cleanup, Socket
  <2>8. ASSUME NEW c \in Commands, Enqueue(q, c)
        PROVE  FALSE
    <3> DEFINE n == [sock[q] EXCEPT !.queue = Append(@, c)]
    <3>1. n.step = sock[q].step
      BY <2>2 DEF Socket
    <3>2. Set(q, Close(sock[q])) \/ Set(q, n)
      BY <2>8 DEF Enqueue
    <3> HIDE DEF n
    <3> QED
      BY <2>1, <2>3, <3>1, <3>2
  <2> QED
    BY <1>4, <2>4, <2>5, <2>6, <2>7, <2>8
<1>5. ASSUME NEW q \in Sockets, NEW t, t # "executing", Set(q, [sock[q] EXCEPT !.step = t])
      PROVE  FALSE
  <2>1. [sock[q] EXCEPT !.step = t].step = t
    BY <1>1 DEF Socket
  <2> QED
    BY <1>2, <1>5, <2>1
<1>6. ASSUME NEW q \in Sockets, Process(q)
      PROVE  q = s /\ sock[s].principal # None /\ sock[s].age < Revalidate
  <2>1. ~Authenticate(q)
    BY <1>3, <1>5 DEF Authenticate, Kinds
  <2>2. ~CommandError(q, "validation")
    BY <1>3 DEF Kinds
  <2>3. RequireFreshPrincipal(q) => q = s /\ sock[s].principal # None /\ sock[s].age < Revalidate
    <3>1. SUFFICES ASSUME RequireFreshPrincipal(q)
                   PROVE  q = s /\ sock[s].principal # None /\ sock[s].age < Revalidate
      OBVIOUS
    <3>2. sock[q].principal # None
      BY <1>3, <3>1 DEF RequireFreshPrincipal, Kinds
    <3>3. PICK t : /\ t = IF sock[q].age < Revalidate THEN "executing" ELSE "revalidating"
                   /\ Set(q, [sock[q] EXCEPT !.step = t])
      BY <3>1, <3>2 DEF RequireFreshPrincipal
    <3>4. t = "executing" /\ sock[q].age < Revalidate
      BY <1>5, <3>3
    <3> QED
      BY <1>2, <3>2, <3>3, <3>4
  <2>4. Head(sock[q].queue) \in Commands
    <3>1. sock[q].queue \in Seq(Commands) /\ sock[q].queue # <<>>
      BY <1>1, <1>6 DEF Socket, Process
    <3> QED
      BY <3>1, HeadTailProperties
  <2>5. \/ Authenticate(q) \/ RequireFreshPrincipal(q) \/ CommandError(q, "validation")
    <3>1. CASE Head(sock[q].queue) = "authenticate"
      BY <1>6, <3>1 DEF Process
    <3>2. CASE Head(sock[q].queue) = "command"
      BY <1>6, <3>2 DEF Process
    <3>3. CASE Head(sock[q].queue) = "malformed"
      BY <1>6, <3>3 DEF Process
    <3> QED
      BY <2>4, <3>1, <3>2, <3>3 DEF Commands
  <2> QED
    BY <2>1, <2>2, <2>3, <2>5
<1>7. ASSUME NEW q \in Sockets, Answer(q) \/ Revalidation(q)
      PROVE  q = s /\ sock[s].step = "validated"
  <2>1. sock[q] \in Socket
    BY <1>1
  <2>2. ASSUME NEW p \in Sessions, Consume(q, p)
        PROVE  FALSE
    <3>1. [sock[q] EXCEPT !.step = "consumed", !.who = p].step = "consumed"
      BY <2>1 DEF Socket
    <3> QED
      BY <1>2, <2>2, <3>1 DEF Consume
  <2>3. ~Revalidation(q)
    BY <1>3, <1>5 DEF Revalidation, Kinds
  <2>4. ~(ConsumeFail(q) \/ Opened(q) \/ RevalidationFail(q) \/ Executed(q))
    BY <1>3 DEF ConsumeFail, Opened, RevalidationFail, Executed, Kinds, Tolerated
  <2>5. ~Authenticated(q)
    <3> DEFINE n == [sock[q] EXCEPT !.step = "opening", !.principal = sock[q].who,
                                    !.age = 0, !.wait = 0, !.who = None, !.timer = FALSE]
    <3>1. n.step = "opening"
      BY <2>1 DEF Socket
    <3>2. Authenticated(q) => Set(q, n) \/ CommandError(q, "rate_limited")
      BY DEF Authenticated
    <3> HIDE DEF n
    <3> QED
      BY <1>2, <1>3, <3>1, <3>2 DEF Kinds
  <2>6. Revalidated(q)
    BY <1>7, <2>2, <2>3, <2>4, <2>5 DEF Answer
  <2> QED
    BY <1>2, <2>6 DEF Revalidated
<1>8. ~Tick
  <2> SUFFICES ASSUME Tick PROVE FALSE
    OBVIOUS
  <2>1. PICK a, w : sock'[s] = [sock[s] EXCEPT !.age = a, !.wait = w]
    BY DEF Tick
  <2>2. [sock[s] EXCEPT !.age = a, !.wait = w].step = sock[s].step
    BY <1>1 DEF Socket
  <2> QED
    BY <2>1, <2>2
<1>9. ~Destroy
  <2> DEFINE n == [sock[s] EXCEPT !.timer = FALSE]
  <2>1. n \in Socket /\ n.step = sock[s].step
    BY <1>1 DEF Socket
  <2>2. Destroy => sock'[s] = Close(n) \/ sock'[s] = sock[s]
    BY DEF Destroy
  <2> HIDE DEF n
  <2> QED
    BY <2>1, <2>2, CloseRecord
<1>10. ~BeginDrain /\ \A p \in Sessions : ~Revoke(p)
  BY DEF BeginDrain, Revoke
<1> QED
  BY <1>4, <1>6, <1>7, <1>8, <1>9, <1>10 DEF Next

(***************************************************************************)
(* A revocation takes effect: a command starts to execute for a principal  *)
(* validated less than Revalidate ago, or just now, by an answer that was  *)
(* read at most AnswerTime earlier, when the session was active.           *)
(***************************************************************************)
THEOREM RevocationsBite == Spec => RevocationTakesEffect
<1> DEFINE Bite == \A s \in Sockets :
                      sock[s].step # "executing" /\ sock'[s].step = "executing" =>
                         revoked[sock[s].principal] < Revalidate + AnswerTime
<1>1. ASSUME IInv, [Next]_vars
      PROVE  [Bite]_vars
  <2> SUFFICES ASSUME Next, NEW s \in Sockets,
                      sock[s].step # "executing", sock'[s].step = "executing"
               PROVE  revoked[sock[s].principal] < Revalidate + AnswerTime
    BY <1>1
  <2>1. /\ sock \in [Sockets -> Socket] /\ sock[s] \in Socket /\ SocketInv(sock[s], revoked)
        /\ AnswerTime \in Nat /\ Revalidate \in Nat \ {0} /\ sock[s].wait \in 0..AnswerTime
        /\ sock[s].age \in 0..Revalidate
        /\ \A p \in Sessions : revoked[p] \in Int
    BY <1>1, GatewayAssumption DEF IInv, TypeOK, Socket
  <2>2. \/ sock[s].step = "validated"
        \/ sock[s].principal # None /\ sock[s].age < Revalidate
    BY <1>1, ExecutionStarts
  <2>3. CASE sock[s].step = "validated"
    <3>1. PICK p \in Sessions : p = sock[s].principal /\ revoked[p] <= sock[s].wait
      BY <2>1, <2>3 DEF SocketInv
    <3> QED
      BY <2>1, <3>1
  <2>4. CASE sock[s].principal # None /\ sock[s].age < Revalidate
    <3>1. sock[s].principal \in Sessions
      BY <2>1, <2>4 DEF Socket
    <3>2. PICK p \in Sessions : p = sock[s].principal /\ revoked[p] <= sock[s].age + AnswerTime
      BY <2>1, <3>1 DEF SocketInv
    <3> QED
      BY <2>1, <2>4, <3>2
  <2> QED
    BY <2>2, <2>3, <2>4
<1> QED
  BY <1>1, Invariance, PTL DEF Spec, RevocationTakesEffect
-----------------------------------------------------------------------------
(***************************************************************************)
(* The registry as ConnectionQuota sees it: who is registered, from where, *)
(* for whom, and who was ever answered.                                    *)
(***************************************************************************)
Homes == [s \in Sockets |-> sock[s].source]
Holders == [s \in Sockets |-> sock[s].principal]
Met == {s \in Sockets : sock[s].conn # "new"}

Quota == INSTANCE ConnectionQuota
           WITH members <- contexts, home <- Homes, holder <- Holders, met <- Met

\* Nothing of a socket changes that ConnectionQuota tells apart.
Alike(r, n) ==
    /\ n.source = r.source
    /\ n.principal = r.principal
    /\ n.conn = "new" <=> r.conn = "new"

LEMMA AlikeSockets ==
    ASSUME \A q \in Sockets : Alike(sock[q], sock'[q])
    PROVE  Homes' = Homes /\ Holders' = Holders /\ Met' = Met
<1>1. Homes' = Homes
  BY DEF Alike, Homes
<1>2. Holders' = Holders
  BY DEF Alike, Holders
<1>3. Met' = Met
  BY DEF Alike, Met
<1> QED
  BY <1>1, <1>2, <1>3

\* One socket is set to a record that is alike.
LEMMA SetAlike ==
    ASSUME IInv, NEW s \in Sockets, NEW n, Set(s, n), Alike(sock[s], n)
    PROVE  \A q \in Sockets : Alike(sock[q], sock'[q])
<1>1. sock \in [Sockets -> Socket]
  BY DEF IInv, TypeOK
<1>2. \A q \in Sockets : sock'[q] = IF q = s THEN n ELSE sock[q]
  BY <1>1 DEF Set
<1> QED
  BY <1>2 DEF Alike

\* The end of a command, with a reply or an error.
LEMMA EndAlike ==
    ASSUME IInv, NEW s \in Sockets, Reply(s) \/ \E kind \in Kinds : CommandError(s, kind)
    PROVE  \A q \in Sockets : Alike(sock[q], sock'[q])
<1>1. sock[s] \in Socket
  BY DEF IInv, TypeOK
<1>2. PICK r \in {sock[s], Close(sock[s])} : Set(s, Done(r))
  BY DEF Reply, CommandError
<1>3. r \in Socket /\ Alike(sock[s], r)
  BY <1>1, CloseRecord DEF Alike
<1>4. PICK t : t = Tail(r.queue)
  OBVIOUS
<1>5. Alike(sock[s], Done(r))
  <2>1. Done(r) = [r EXCEPT !.queue = t, !.step = "idle", !.who = None, !.wait = 0]
    BY <1>4 DEF Done
  <2> QED
    BY <1>3, <2>1 DEF Alike, Socket
<1> QED
  BY <1>2, <1>5, SetAlike

\* Frames, timers and peers.
LEMMA FrameAlike ==
    ASSUME IInv, NEW s \in Sockets,
           \/ AuthenticationTimeout(s) \/ Leave(s) \/ Refuse(s) \/ Cleanup(s)
           \/ \E c \in Commands : Enqueue(s, c)
    PROVE  \A q \in Sockets : Alike(sock[q], sock'[q])
<1>1. sock[s] \in Socket
  BY DEF IInv, TypeOK
<1>2. Alike(sock[s], Close(sock[s]))
  BY <1>1, CloseRecord DEF Alike
<1>3. CASE AuthenticationTimeout(s)
  <2> DEFINE n == [sock[s] EXCEPT !.timer = FALSE]
  <2>1. n \in Socket /\ Alike(sock[s], n) /\ Set(s, Close(n))
    BY <1>1, <1>3 DEF Socket, AuthenticationTimeout, Alike
  <2> HIDE DEF n
  <2>2. Alike(sock[s], Close(n))
    BY <2>1, CloseRecord DEF Alike
  <2> QED
    BY <2>1, <2>2, SetAlike
<1>4. CASE Leave(s) \/ Refuse(s)
  BY <1>2, <1>4, SetAlike DEF Leave, Refuse
<1>5. CASE Cleanup(s)
  <2> DEFINE n == [sock[s] EXCEPT !.conn = "closed", !.timer = FALSE]
  <2>1. Alike(sock[s], n) /\ Set(s, n)
    BY <1>1, <1>5 DEF Socket, Cleanup, Alike
  <2> HIDE DEF n
  <2> QED
    BY <2>1, SetAlike
<1>6. ASSUME NEW c \in Commands, Enqueue(s, c)
      PROVE  \A q \in Sockets : Alike(sock[q], sock'[q])
  <2> DEFINE n == [sock[s] EXCEPT !.queue = Append(@, c)]
  <2>1. Alike(sock[s], n)
    BY <1>1 DEF Socket, Alike
  <2>2. Set(s, Close(sock[s])) \/ Set(s, n)
    BY <1>6 DEF Enqueue
  <2> HIDE DEF n
  <2> QED
    BY <1>2, <2>1, <2>2, SetAlike
<1> QED
  BY <1>3, <1>4, <1>5, <1>6

\* The steps of a command that do not bind the socket to a session.
LEMMA CommandAlike ==
    ASSUME IInv, NEW s \in Sockets,
           \/ Process(s) \/ Revalidation(s)
           \/ Answer(s) /\ ~(Authenticated(s) /\ RegistryAccepts(s))
    PROVE  \A q \in Sockets : Alike(sock[q], sock'[q])
<1>1. sock[s] \in Socket
  BY DEF IInv, TypeOK
<1>2. ASSUME NEW t, Set(s, [sock[s] EXCEPT !.step = t])
      PROVE  \A q \in Sockets : Alike(sock[q], sock'[q])
  <2>1. Alike(sock[s], [sock[s] EXCEPT !.step = t])
    BY <1>1 DEF Socket, Alike
  <2> QED
    BY <1>2, <2>1, SetAlike
<1>3. CASE Process(s)
  <2>1. Authenticate(s) => \A q \in Sockets : Alike(sock[q], sock'[q])
    BY <1>2, EndAlike DEF Authenticate, Kinds
  <2>2. RequireFreshPrincipal(s) => \A q \in Sockets : Alike(sock[q], sock'[q])
    BY <1>2, EndAlike DEF RequireFreshPrincipal, Kinds
  <2>3. CommandError(s, "validation") => \A q \in Sockets : Alike(sock[q], sock'[q])
    BY EndAlike DEF Kinds
  <2>4. Head(sock[s].queue) \in Commands
    <3>1. sock[s].queue \in Seq(Commands) /\ sock[s].queue # <<>>
      BY <1>1, <1>3 DEF Socket, Process
    <3> QED
      BY <3>1, HeadTailProperties
  <2>5. CASE Head(sock[s].queue) = "authenticate"
    BY <1>3, <2>1, <2>5 DEF Process
  <2>6. CASE Head(sock[s].queue) = "command"
    BY <1>3, <2>2, <2>6 DEF Process
  <2>7. CASE Head(sock[s].queue) = "malformed"
    BY <1>3, <2>3, <2>7 DEF Process
  <2> QED
    BY <2>4, <2>5, <2>6, <2>7 DEF Commands
<1>4. CASE Revalidation(s)
  BY <1>2, <1>4, EndAlike DEF Revalidation, Kinds
<1>5. ASSUME NEW p \in Sessions, Consume(s, p)
      PROVE  \A q \in Sockets : Alike(sock[q], sock'[q])
  <2> DEFINE n == [sock[s] EXCEPT !.step = "consumed", !.who = p]
  <2>1. Alike(sock[s], n) /\ Set(s, n)
    BY <1>1, <1>5 DEF Socket, Consume, Alike
  <2> HIDE DEF n
  <2> QED
    BY <2>1, SetAlike
<1>6. CASE ConsumeFail(s) \/ Opened(s) \/ RevalidationFail(s) \/ Executed(s)
  BY <1>6, EndAlike DEF ConsumeFail, Opened, RevalidationFail, Executed, Kinds, Tolerated
<1>7. CASE Revalidated(s)
  <2> DEFINE n == [sock[s] EXCEPT !.step = "executing", !.age = 0, !.wait = 0]
  <2>1. Alike(sock[s], n) /\ Set(s, n)
    BY <1>1, <1>7 DEF Socket, Revalidated, Alike
  <2> HIDE DEF n
  <2> QED
    BY <2>1, SetAlike
<1>8. CASE Authenticated(s) /\ ~RegistryAccepts(s)
  BY <1>8, EndAlike DEF Authenticated, Kinds
<1> QED
  BY <1>3, <1>4, <1>5, <1>6, <1>7, <1>8 DEF Answer

\* Time passes for every socket.
LEMMA TickAlike ==
    ASSUME IInv, Tick
    PROVE  \A q \in Sockets : Alike(sock[q], sock'[q])
<1> SUFFICES ASSUME NEW q \in Sockets PROVE Alike(sock[q], sock'[q])
  OBVIOUS
<1>1. sock[q] \in Socket
  BY DEF IInv, TypeOK
<1> DEFINE a == IF sock[q].principal = None THEN sock[q].age ELSE Older(sock[q].age, Revalidate)
           w == IF sock[q].step \in {"consumed", "validated"} THEN sock[q].wait + 1
                ELSE sock[q].wait
<1>2. sock'[q] = [sock[q] EXCEPT !.age = a, !.wait = w]
  BY DEF Tick
<1> HIDE DEF a, w
<1> QED
  BY <1>1, <1>2 DEF Alike, Socket
-----------------------------------------------------------------------------
\* The instance counts as this module does.
LEMMA SameCardinality == \A S : Quota!Cardinality(S) = Cardinality(S)
  BY DEF Quota!Cardinality, Cardinality, Quota!IsFiniteSet, IsFiniteSet

\* What the counters say is what the abstract limits look at.
LEMMA CountersAreCounts ==
    ASSUME IInv
    PROVE  /\ \A k \in Sources : Cardinality(Quota!From(k)) = sourceCounts[k]
           /\ \A p \in Sessions : Quota!Of(p) = sessionSockets[p]
<1>1. contexts \subseteq Sockets
  BY DEF IInv, TypeOK
<1>2. \A k \in Sources : Quota!From(k) = {s \in contexts : sock[s].source = k}
  BY <1>1 DEF Quota!From, Homes
<1>3. \A p \in Sessions : Quota!Of(p) = {s \in contexts : sock[s].principal = p}
  BY <1>1 DEF Quota!Of, Holders
<1> QED
  BY <1>2, <1>3 DEF IInv, RegistryExact

\* handleConnection is an entry or a refusal.
LEMMA ConnectSimulates ==
    ASSUME IInv, NEW s \in Sockets, NEW k \in Sources, Connect(s, k)
    PROVE  Quota!Enter(s, k) \/ Quota!TurnAway(s, k)
<1>1. /\ sock \in [Sockets -> Socket] /\ sock[s] \in Socket /\ sock[s].conn = "new"
      /\ phase = "ready" /\ phase' = phase /\ s \notin Met
  BY DEF IInv, TypeOK, Connect, VerifyClient, Met
<1>2. Cardinality(Quota!From(k)) = sourceCounts[k] /\ sourceCounts[k] \in Int /\ SourceLimit \in Int
  BY CountersAreCounts, GatewayAssumption DEF IInv, TypeOK
<1>3. CASE sourceCounts[k] >= SourceLimit
  <2> DEFINE n == [sock[s] EXCEPT !.conn = "closing"]
  <2>1. n.source = sock[s].source /\ n.principal = sock[s].principal /\ n.conn # "new"
    BY <1>1 DEF Socket
  <2>2. Set(s, n) /\ contexts' = contexts
    BY <1>3 DEF Connect, registry
  <2> HIDE DEF n
  <2>3. \A q \in Sockets : sock'[q] = IF q = s THEN n ELSE sock[q]
    BY <1>1, <2>2 DEF Set
  <2>4. Homes' = Homes
    BY <2>1, <2>3 DEF Homes
  <2>5. Holders' = Holders
    BY <2>1, <2>3 DEF Holders
  <2>6. Met' = Met \cup {s}
    BY <2>1, <2>3 DEF Met
  <2> QED
    BY <1>1, <1>2, <1>3, <2>2, <2>4, <2>5, <2>6, SameCardinality
       DEF Quota!TurnAway, Quota!Meet
<1>4. CASE ~(sourceCounts[k] >= SourceLimit)
  <2> DEFINE n == [sock[s] EXCEPT !.conn = "open", !.source = k, !.timer = TRUE]
  <2>1. n.source = k /\ n.principal = sock[s].principal /\ n.conn # "new"
    BY <1>1 DEF Socket
  <2>2. Set(s, n) /\ contexts' = contexts \cup {s}
    BY <1>4 DEF Connect
  <2> HIDE DEF n
  <2>3. \A q \in Sockets : sock'[q] = IF q = s THEN n ELSE sock[q]
    BY <1>1, <2>2 DEF Set
  <2>4. Homes' = [Homes EXCEPT ![s] = k]
    BY <2>1, <2>3 DEF Homes
  <2>5. Holders' = Holders
    BY <2>1, <2>3 DEF Holders
  <2>6. Met' = Met \cup {s}
    BY <2>1, <2>3 DEF Met
  <2> QED
    BY <1>1, <1>2, <1>4, <2>2, <2>4, <2>5, <2>6, SameCardinality
       DEF Quota!Enter, Quota!Meet
<1> QED
  BY <1>3, <1>4

\* registry.authenticate binds a socket that is still registered.
LEMMA AuthenticatedSimulates ==
    ASSUME IInv, NEW s \in Sockets, Authenticated(s), RegistryAccepts(s)
    PROVE  \E p \in Sessions : Quota!Bind(s, p)
<1>1. /\ sock \in [Sockets -> Socket] /\ sock[s] \in Socket /\ sock[s].who \in Sessions
      /\ contexts' = contexts /\ phase' = phase
  BY DEF IInv, TypeOK, Authenticated, SocketInv
<1> DEFINE p == sock[s].who
           n == [sock[s] EXCEPT !.step = "opening", !.principal = p,
                                !.age = 0, !.wait = 0, !.who = None, !.timer = FALSE]
<1>2. n.source = sock[s].source /\ n.principal = p /\ n.conn = sock[s].conn
  BY <1>1 DEF Socket
<1>3. Set(s, n)
  BY DEF Authenticated
<1>4. s \in contexts /\ Holders[s] = None /\ Cardinality(Quota!Of(p)) < SessionLimit
  BY <1>1, CountersAreCounts DEF RegistryAccepts, Holders
<1> HIDE DEF n, p
<1>5. \A q \in Sockets : sock'[q] = IF q = s THEN n ELSE sock[q]
  BY <1>1, <1>3 DEF Set
<1>6. Homes' = Homes
  BY <1>2, <1>5 DEF Homes
<1>7. Holders' = [Holders EXCEPT ![s] = p]
  BY <1>2, <1>5 DEF Holders
<1>8. Met' = Met
  BY <1>2, <1>5 DEF Met
<1>9. Quota!Bind(s, p)
  BY <1>1, <1>4, <1>6, <1>7, <1>8, SameCardinality DEF Quota!Bind
<1>10. p \in Sessions
  BY <1>1 DEF p
<1> QED
  BY <1>9, <1>10

\* The close event, and the drain, take sockets away.
LEMMA CleanupSimulates ==
    ASSUME IInv, NEW s \in Sockets, Cleanup(s)
    PROVE  Quota!Leave(s) \/ UNCHANGED Quota!qvars
<1>1. Homes' = Homes /\ Holders' = Holders /\ Met' = Met
  BY FrameAlike, AlikeSockets
<1>2. contexts' = contexts \ ({s} \cap contexts) /\ phase' = phase
  BY DEF Cleanup, RemoveAll
<1>3. CASE s \in contexts
  <2>1. contexts' = contexts \ {s}
    BY <1>2
  <2> QED
    BY <1>1, <1>2, <1>3, <2>1 DEF Quota!Leave
<1>4. CASE s \notin contexts
  <2>1. contexts' = contexts
    BY <1>2, <1>4
  <2> QED
    BY <1>1, <1>2, <2>1 DEF Quota!qvars
<1> QED
  BY <1>3, <1>4

LEMMA DestroySimulates ==
    ASSUME IInv, Destroy
    PROVE  Quota!Drain
<1>1. ASSUME NEW q \in Sockets PROVE Alike(sock[q], sock'[q])
  <2> DEFINE n == [sock[q] EXCEPT !.timer = FALSE]
  <2>1. n \in Socket /\ Alike(sock[q], n)
    BY DEF IInv, TypeOK, Socket, Alike
  <2>2. sock'[q] = Close(n) \/ sock'[q] = sock[q]
    BY DEF Destroy
  <2> HIDE DEF n
  <2> QED
    BY <2>1, <2>2, CloseRecord DEF Alike
<1>2. Homes' = Homes /\ Holders' = Holders /\ Met' = Met
  BY <1>1, AlikeSockets
<1>3. contexts' = {} /\ phase = "draining" /\ phase' = "destroyed"
  BY DEF Destroy, RemoveAll
<1> QED
  BY <1>2, <1>3 DEF Quota!Drain

\* Every step of the gateway is a step of the promise or none.
LEMMA NextSimulates ==
    ASSUME IInv, [Next]_vars
    PROVE  [Quota!QNext]_(Quota!qvars)
<1>1. ASSUME \A q \in Sockets : Alike(sock[q], sock'[q]), contexts' = contexts, phase' = phase
      PROVE  UNCHANGED Quota!qvars
  BY <1>1, AlikeSockets DEF Quota!qvars
<1>2. ASSUME NEW s \in Sockets, NEW k \in Sources, Connect(s, k)
      PROVE  [Quota!QNext]_(Quota!qvars)
  BY <1>2, ConnectSimulates DEF Quota!QNext
<1>3. ASSUME NEW s \in Sockets, Cleanup(s)
      PROVE  [Quota!QNext]_(Quota!qvars)
  BY <1>3, CleanupSimulates DEF Quota!QNext
<1>4. ASSUME NEW s \in Sockets,
             \/ AuthenticationTimeout(s) \/ Leave(s) \/ Refuse(s)
             \/ \E c \in Commands : Enqueue(s, c)
      PROVE  UNCHANGED Quota!qvars
  <2>1. contexts' = contexts /\ phase' = phase
    BY <1>4 DEF AuthenticationTimeout, Leave, Refuse, Enqueue, registry
  <2> QED
    BY <1>1, <1>4, <2>1, FrameAlike
<1>5. ASSUME NEW s \in Sockets, Authenticated(s), RegistryAccepts(s)
      PROVE  [Quota!QNext]_(Quota!qvars)
  BY <1>5, AuthenticatedSimulates DEF Quota!QNext
<1>6. ASSUME NEW s \in Sockets,
             \/ Process(s) \/ Revalidation(s)
             \/ Answer(s) /\ ~(Authenticated(s) /\ RegistryAccepts(s))
      PROVE  UNCHANGED Quota!qvars
  <2>1. contexts' = contexts /\ phase' = phase
    <3>1. CASE Process(s) \/ Revalidation(s)
      BY <3>1 DEF Process, Revalidation, registry
    <3>2. CASE Answer(s)
      BY <3>2 DEF Answer, Consume, ConsumeFail, Authenticated, Opened, RevalidationFail,
         Revalidated, Executed, registry
    <3> QED
      BY <1>6, <3>1, <3>2
  <2> QED
    BY <1>1, <1>6, <2>1, CommandAlike
<1>7. CASE Tick
  <2>1. contexts' = contexts /\ phase' = phase
    BY <1>7 DEF Tick, registry
  <2> QED
    BY <1>1, <1>7, <2>1, TickAlike
<1>8. CASE BeginDrain
  <2>1. contexts' = contexts /\ \A q \in Sockets : Alike(sock[q], sock'[q])
    BY <1>8 DEF BeginDrain, registry, Alike
  <2> QED
    BY <1>8, <2>1, AlikeSockets DEF BeginDrain, Quota!QNext, Quota!Shut
<1>9. CASE Destroy
  BY <1>9, DestroySimulates DEF Quota!QNext
<1>10. CASE UNCHANGED vars \/ \E p \in Sessions : Revoke(p)
  <2>1. contexts' = contexts /\ phase' = phase /\ \A q \in Sockets : Alike(sock[q], sock'[q])
    BY <1>10 DEF Revoke, vars, registry, Alike
  <2> QED
    BY <1>1, <2>1
<1> QED
  BY <1>2, <1>3, <1>4, <1>5, <1>6, <1>7, <1>8, <1>9, <1>10 DEF Next, Answer

LEMMA InitSimulates == Init => Quota!QInit
<1> SUFFICES ASSUME Init PROVE Quota!QInit
  OBVIOUS
<1>1. \A s \in Sockets : sock[s].source = None /\ sock[s].principal = None /\ sock[s].conn = "new"
  BY DEF Init, NewSocket
<1>2. Homes = [s \in Sockets |-> None] /\ Holders = [s \in Sockets |-> None] /\ Met = {}
  BY <1>1 DEF Homes, Holders, Met
<1> QED
  BY <1>2 DEF Init, Quota!QInit

(***************************************************************************)
(* The registry keeps the quotas of its connections, with counters and an  *)
(* index it updates across awaits: a socket that closed while its ticket   *)
(* was consumed is never bound or back, none counts twice, and none enters *)
(* once the drain has begun.                                               *)
(***************************************************************************)
THEOREM ImplementsQuota == Spec => Quota!QSpec
<1>1. IInv /\ [Next]_vars => [Quota!QNext]_(Quota!qvars)
  BY NextSimulates
<1> QED
  BY <1>1, InitSimulates, Invariance, PTL DEF Spec, Quota!QSpec
=============================================================================
