--------------------------- MODULE RealtimeGateway ---------------------------
(***************************************************************************)
(* The realtime gateway of one process: its registry of connections, the   *)
(* authentication deadline, the serial command queue of each socket, the   *)
(* revalidation of principals against revocations, and the drain.  What    *)
(* commands do to presence and chat is in Presence and ChatDelivery.       *)
(*                                                                         *)
(* The event loop runs one callback at a time; an await ends an action.    *)
(* Time passes in Tick, one unit for every age.                            *)
(***************************************************************************)
EXTENDS Integers, FiniteSets, Sequences

CONSTANTS Sockets,       \* WebSocket objects, each used once
          Sources,       \* sourceKey
          Sessions,      \* sessionId
          None,          \* undefined
          SourceLimit,   \* realtime.maxConnectionsPerSource
          SessionLimit,  \* realtime.maxConnectionsPerSession
          MaxPending,    \* realtime.maxPendingCommands
          Revalidate,    \* realtime.sessionRevalidateSeconds
          AnswerTime     \* bound: from the durable read to its use

ASSUME GatewayAssumption ==
    /\ {SourceLimit, SessionLimit, MaxPending, Revalidate} \subseteq Nat \ {0}
    /\ AnswerTime \in Nat
    /\ None \notin Sources \cup Sessions

VARIABLES contexts,        \* registered sockets
          sourceCounts,
          sessionSockets,
          sock,            \* each socket, its context and its running command
          revoked,         \* time since a session was revoked; -1: active
          phase            \* ApplicationLifecycleState, and "destroyed" after the drain

registry == <<contexts, sourceCounts, sessionSockets>>
vars == <<registry, sock, revoked, phase>>

Commands == {"authenticate", "command", "malformed"}
Steps == {"idle", "consuming", "consumed", "opening", "revalidating", "validated", "executing"}
Socket == [conn : {"new", "open", "closing", "closed"},  \* readyState
           source : Sources \cup {None},
           principal : Sessions \cup {None},
           age : 0..Revalidate,                 \* of lastValidatedAtMs
           timer : BOOLEAN,                     \* authenticationTimer
           queue : Seq(Commands),               \* the running command first
           step : Steps,                        \* the await it is suspended in
           who : Sessions \cup {None},          \* the session its ticket names
           wait : 0..AnswerTime]                \* time since its durable read

\* Types; pendingCommands stays within its bound.
TypeOK ==
    /\ contexts \subseteq Sockets
    /\ sourceCounts \in [Sources -> 0..SourceLimit]
    /\ sessionSockets \in [Sessions -> SUBSET Sockets]
    /\ sock \in [Sockets -> Socket]
    /\ \A s \in Sockets : Len(sock[s].queue) <= MaxPending
    /\ revoked \in [Sessions -> -1..(Revalidate + AnswerTime)]
    /\ phase \in {"ready", "draining", "destroyed"}

NewSocket == [conn |-> "new", source |-> None, principal |-> None, age |-> 0,
              timer |-> FALSE, queue |-> <<>>, step |-> "idle", who |-> None, wait |-> 0]

Init ==
    /\ contexts = {}
    /\ sourceCounts = [k \in Sources |-> 0]
    /\ sessionSockets = [p \in Sessions |-> {}]
    /\ sock = [s \in Sockets |-> NewSocket]
    /\ revoked = [p \in Sessions |-> -1]
    /\ phase = "ready"

Set(s, r) == sock' = [sock EXCEPT ![s] = r]
-----------------------------------------------------------------------------
\* closeSocket: frames of the peer still arrive until the close event.
Close(r) == IF r.conn = "open" THEN [r EXCEPT !.conn = "closing"] ELSE r

\* remove, for each socket of S that is registered.
RemoveAll(S) ==
    LET gone == S \cap contexts
    IN  /\ contexts' = contexts \ gone
        /\ sourceCounts' = [k \in Sources |->
              sourceCounts[k] - Cardinality({s \in gone : sock[s].source = k})]
        /\ sessionSockets' = [p \in Sessions |->
              sessionSockets[p] \ {s \in gone : sock[s].principal = p}]

\* Faulty variant: an upgrade is accepted whatever the phase.
VerifyAnything == TRUE

\* verifyClient; path, origin and protocol are those of a legitimate client.
VerifyClient == phase = "ready"

\* handleConnection: register, and the authentication timer.
Connect(s, k) ==
    /\ sock[s].conn = "new"
    /\ VerifyClient
    /\ IF sourceCounts[k] >= SourceLimit
       THEN /\ Set(s, [sock[s] EXCEPT !.conn = "closing"])
            /\ UNCHANGED registry
       ELSE /\ contexts' = contexts \cup {s}
            /\ sourceCounts' = [sourceCounts EXCEPT ![k] = @ + 1]
            /\ Set(s, [sock[s] EXCEPT !.conn = "open", !.source = k, !.timer = TRUE])
            /\ UNCHANGED sessionSockets
    /\ UNCHANGED <<revoked, phase>>

\* The timer of handleConnection.
AuthenticationTimeout(s) ==
    /\ sock[s].timer
    /\ Set(s, Close([sock[s] EXCEPT !.timer = FALSE]))
    /\ UNCHANGED <<registry, revoked, phase>>

\* The peer leaves, or the sweep terminates a socket without pong.
Leave(s) ==
    /\ sock[s].conn = "open"
    /\ Set(s, Close(sock[s]))
    /\ UNCHANGED <<registry, revoked, phase>>

\* The close event and cleanup; commands already queued go on.
Cleanup(s) ==
    /\ sock[s].conn = "closing"
    /\ RemoveAll({s})
    /\ Set(s, [sock[s] EXCEPT !.conn = "closed", !.timer = FALSE])
    /\ UNCHANGED <<revoked, phase>>
-----------------------------------------------------------------------------
\* enqueue, of a message that passes.
Enqueue(s, c) ==
    /\ s \in contexts
    /\ IF Len(sock[s].queue) >= MaxPending
       THEN Set(s, Close(sock[s]))
       ELSE Set(s, [sock[s] EXCEPT !.queue = Append(@, c)])
    /\ UNCHANGED <<registry, revoked, phase>>

\* enqueue, of one that is binary, too large or too frequent.
Refuse(s) ==
    /\ s \in contexts
    /\ Set(s, Close(sock[s]))
    /\ UNCHANGED <<registry, revoked, phase>>

\* The end of the running command: the next of commandTail may start.
Done(r) == [r EXCEPT !.queue = Tail(@), !.step = "idle", !.who = None, !.wait = 0]

\* send fails on a slow consumer, and on a socket that is no longer open.
Reply(s) == \E r \in {sock[s], Close(sock[s])} : Set(s, Done(r))

\* The errors after which handleCommandError leaves the socket open.
Tolerated == {"dependency", "authorization", "chat"}
Kinds == Tolerated \cup {"authentication", "validation", "conflict", "rate_limited", "internal"}

\* handleCommandError.
CommandError(s, kind) ==
    IF kind \in Tolerated THEN Reply(s) ELSE Set(s, Done(Close(sock[s])))
-----------------------------------------------------------------------------
\* Faulty variant: the deadline is lifted before the ticket is consumed.
AuthenticateUntimed(s) ==
    IF sock[s].principal # None THEN CommandError(s, "conflict")
    ELSE Set(s, [sock[s] EXCEPT !.step = "consuming", !.timer = FALSE])

\* authenticate, up to its first await.
Authenticate(s) ==
    IF sock[s].principal # None THEN CommandError(s, "conflict")
    ELSE Set(s, [sock[s] EXCEPT !.step = "consuming"])

\* requireFreshPrincipal, up to its await.
RequireFreshPrincipal(s) ==
    IF sock[s].principal = None THEN CommandError(s, "authentication")
    ELSE Set(s, [sock[s] EXCEPT !.step = IF sock[s].age < Revalidate THEN "executing"
                                         ELSE "revalidating"])

\* The next command of commandTail.
Process(s) ==
    /\ sock[s].step = "idle"
    /\ sock[s].queue # <<>>
    /\ CASE Head(sock[s].queue) = "authenticate" -> Authenticate(s)
         [] Head(sock[s].queue) = "command" -> RequireFreshPrincipal(s)
         [] Head(sock[s].queue) = "malformed" -> CommandError(s, "validation")
    /\ UNCHANGED <<registry, revoked, phase>>

\* tickets.consume: the session of the ticket is active in PostgreSQL ...
Consume(s, p) ==
    /\ sock[s].step = "consuming"
    /\ revoked[p] = -1
    /\ Set(s, [sock[s] EXCEPT !.step = "consumed", !.who = p])
    /\ UNCHANGED <<registry, revoked, phase>>

\* ... or ticket, session or store refuse, before or after it was read.
ConsumeFail(s) ==
    /\ sock[s].step \in {"consuming", "consumed"}
    /\ \E kind \in {"authentication", "dependency"} : CommandError(s, kind)
    /\ UNCHANGED <<registry, revoked, phase>>

\* Faulty variant: the socket is not looked up again after the await.
RegistryAcceptsClosed(s) == Cardinality(sessionSockets[sock[s].who]) < SessionLimit

\* The conditions of registry.authenticate.
RegistryAccepts(s) ==
    /\ s \in contexts
    /\ sock[s].principal = None
    /\ Cardinality(sessionSockets[sock[s].who]) < SessionLimit

\* registry.authenticate and clearTimeout, when consume returns.
Authenticated(s) ==
    /\ sock[s].step = "consumed"
    /\ IF RegistryAccepts(s)
       THEN /\ sessionSockets' = [sessionSockets EXCEPT ![sock[s].who] = @ \cup {s}]
            /\ Set(s, [sock[s] EXCEPT !.step = "opening", !.principal = sock[s].who,
                                      !.age = 0, !.wait = 0, !.who = None, !.timer = FALSE])
       ELSE CommandError(s, "rate_limited") /\ UNCHANGED sessionSockets
    /\ UNCHANGED <<contexts, sourceCounts, revoked, phase>>

\* presence.watch and presence.open have answered; they never reject.
Opened(s) ==
    /\ sock[s].step = "opening"
    /\ Reply(s)
    /\ UNCHANGED <<registry, revoked, phase>>

\* sessions.revalidate reads the session.
Revalidation(s) ==
    /\ sock[s].step = "revalidating"
    /\ IF revoked[sock[s].principal] = -1
       THEN Set(s, [sock[s] EXCEPT !.step = "validated"])
       ELSE CommandError(s, "authentication")
    /\ UNCHANGED <<registry, revoked, phase>>

RevalidationFail(s) ==
    /\ sock[s].step \in {"revalidating", "validated"}
    /\ CommandError(s, "dependency")
    /\ UNCHANGED <<registry, revoked, phase>>

\* Its answer: the principal counts as validated from now on.
Revalidated(s) ==
    /\ sock[s].step = "validated"
    /\ Set(s, [sock[s] EXCEPT !.step = "executing", !.age = 0, !.wait = 0])
    /\ UNCHANGED <<registry, revoked, phase>>

\* Faulty variant: every command that succeeds renews the validation.
ExecutedRenewing(s) ==
    /\ sock[s].step = "executing"
    /\ \/ Set(s, Done([sock[s] EXCEPT !.age = 0]))
       \/ \E kind \in Kinds : CommandError(s, kind)
    /\ UNCHANGED <<registry, revoked, phase>>

\* The handler of process ends.
Executed(s) ==
    /\ sock[s].step = "executing"
    /\ \/ Reply(s)
       \/ \E kind \in Kinds : CommandError(s, kind)
    /\ UNCHANGED <<registry, revoked, phase>>
-----------------------------------------------------------------------------
\* External: a session is revoked, expires, or its meeting ends.
Revoke(p) ==
    /\ revoked[p] = -1
    /\ revoked' = [revoked EXCEPT ![p] = 0]
    /\ UNCHANGED <<registry, sock, phase>>

Older(n, bound) == IF n < bound THEN n + 1 ELSE n

\* External: time passes; queries are cut off at their time limit.
Tick ==
    /\ \A s \in Sockets : sock[s].step \in {"consumed", "validated"} => sock[s].wait < AnswerTime
    /\ sock' = [s \in Sockets |->
          [sock[s] EXCEPT
             !.age = IF sock[s].principal = None THEN @ ELSE Older(@, Revalidate),
             !.wait = IF sock[s].step \in {"consumed", "validated"} THEN @ + 1 ELSE @]]
    /\ revoked' = [p \in Sessions |->
          IF revoked[p] = -1 THEN -1 ELSE Older(revoked[p], Revalidate + AnswerTime)]
    /\ UNCHANGED <<registry, phase>>

BeginDrain ==
    /\ phase = "ready"
    /\ phase' = "draining"
    /\ UNCHANGED <<registry, sock, revoked>>

\* onModuleDestroy: every registered socket is closed and cleaned up.
Destroy ==
    /\ phase = "draining"
    /\ phase' = "destroyed"
    /\ RemoveAll(contexts)
    /\ sock' = [s \in Sockets |-> IF s \in contexts
                                  THEN Close([sock[s] EXCEPT !.timer = FALSE])
                                  ELSE sock[s]]
    /\ UNCHANGED revoked

\* The awaits of a running command that must end.
Answer(s) ==
    \/ \E p \in Sessions : Consume(s, p)
    \/ ConsumeFail(s)
    \/ Authenticated(s)
    \/ Opened(s)
    \/ RevalidationFail(s)
    \/ Revalidated(s)
    \/ Executed(s)

Next ==
    \/ \E s \in Sockets :
          \/ \E k \in Sources : Connect(s, k)
          \/ AuthenticationTimeout(s) \/ Leave(s) \/ Cleanup(s)
          \/ \E c \in Commands : Enqueue(s, c)
          \/ Refuse(s) \/ Process(s) \/ Answer(s) \/ Revalidation(s)
    \/ \E p \in Sessions : Revoke(p)
    \/ Tick
    \/ BeginDrain
    \/ Destroy

Spec == Init /\ [][Next]_vars

(***************************************************************************)
(* The authentication timer fires, and ws ends a close handshake after 30  *)
(* seconds at the latest.  Nothing is assumed of clients, nor of answers.  *)
(***************************************************************************)
FairSpec ==
    /\ Spec
    /\ \A s \in Sockets : WF_vars(AuthenticationTimeout(s)) /\ WF_vars(Cleanup(s))
-----------------------------------------------------------------------------
(***************************************************************************)
(* The indexes of the registry count exactly the registered sockets and    *)
(* stay within the limits, although a socket may close, time out or be     *)
(* drained while its ticket is being consumed.                             *)
(***************************************************************************)
RegistryExact ==
    /\ \A k \in Sources :
          sourceCounts[k] = Cardinality({s \in contexts : sock[s].source = k})
    /\ \A p \in Sessions :
          /\ sessionSockets[p] = {s \in contexts : sock[s].principal = p}
          /\ Cardinality(sessionSockets[p]) <= SessionLimit

(***************************************************************************)
(* 04-specification-fonctionnelle-modulaire.md:286: PostgreSQL revalidates *)
(* a principal at most every Revalidate.  No command starts to execute for *)
(* a session revoked longer ago than that and the time of one answer.      *)
(***************************************************************************)
RevocationTakesEffect ==
    [][\A s \in Sockets :
          sock[s].step # "executing" /\ sock'[s].step = "executing" =>
             revoked[sock[s].principal] < Revalidate + AnswerTime]_vars

(***************************************************************************)
(* After onModuleDestroy nothing is registered, and nothing comes back: no *)
(* upgrade, and no authentication that was under way.                      *)
(***************************************************************************)
DrainedStaysEmpty ==
    phase = "destroyed" =>
       /\ contexts = {}
       /\ \A k \in Sources : sourceCounts[k] = 0
       /\ \A p \in Sessions : sessionSockets[p] = {}

(***************************************************************************)
(* Nobody stays connected without authentication: a socket gets its        *)
(* principal or leaves the registry, whatever its commands come to.        *)
(***************************************************************************)
UnauthenticatedLeave ==
    \A s \in Sockets :
       s \in contexts /\ sock[s].principal = None ~>
          s \notin contexts \/ sock[s].principal # None
=============================================================================
