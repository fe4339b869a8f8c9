------------------------------ MODULE ApiProcess ------------------------------
(***************************************************************************)
(* One backend process from start-up to shutdown: its connections and      *)
(* their health indicators, the readiness probe, the ordered close under a *)
(* deadline, and the signer whose callers the close must not forget.       *)
(*                                                                         *)
(* Nest runs the onModuleDestroy hooks before it closes the HTTP server,   *)
(* so requests go on arriving while connections are closed.                *)
(***************************************************************************)
EXTENDS SignerExecutor

CONSTANTS Postgres,  \* PostgresConnection
          Redis,     \* RedisConnections
          Signer     \* SfuAdmissionKeyService

ASSUME ProcessAssumption == Signer \notin {Postgres, Redis}

VARIABLES phase,       \* ApplicationLifecycleState
          boot,        \* runHttpProcess
          http,        \* the HTTP server
          conn,        \* each dependency
          indicators,  \* DependencyHealthRegistry
          probe,       \* a readiness request that is being answered
          report,      \* the last readiness report, and the probes it rests on
          shutdown,    \* performShutdown
          exitCode

lifecycle == <<phase, boot, http>>
health == <<probe, report>>
closing == <<shutdown, exitCode>>
vars == <<executor, lifecycle, conn, indicators, health, closing>>

Deps == {Postgres, Redis, Signer}
NoProbe == [busy |-> FALSE, todo |-> {}, started |-> {}, healthy |-> TRUE]

TypeOK ==
    /\ phase \in {"starting", "ready", "draining"}
    /\ boot \in {"init", "listening", "up", "failed"}
    /\ http \in {"down", "open", "closing", "closed"}
    /\ conn \in [Deps -> {"down", "up", "closing", "closed"}]
    /\ indicators \subseteq Deps
    /\ probe \in [busy : BOOLEAN, todo : SUBSET Deps, started : SUBSET Deps, healthy : BOOLEAN]
    /\ report \in [status : {"none", "ok", "unavailable"}, probed : SUBSET Deps]
    /\ shutdown \in {"none", "closing", "stopped"}
    /\ exitCode \in {0, 1}
    /\ call \in [Calls -> Places]
    /\ closed \in BOOLEAN

Init ==
    /\ ExecutorInit
    /\ phase = "starting"
    /\ boot = "init"
    /\ http = "down"
    /\ conn = [d \in Deps |-> "down"]
    /\ indicators = {}
    /\ probe = NoProbe
    /\ report = [status |-> "none", probed |-> {}]
    /\ shutdown = "none"
    /\ exitCode = 0
-----------------------------------------------------------------------------
\* A dependency is connected and verified; its indicator comes last.
Register(d) ==
    /\ boot = "init"
    /\ conn[d] = "down"
    /\ conn' = [conn EXCEPT ![d] = "up"]
    /\ indicators' = indicators \cup {d}
    /\ UNCHANGED <<executor, lifecycle, health, closing>>

\* The three onModuleInit, in any order.
InitPostgres == Register(Postgres)
InitRedis == Register(Redis)
InitSigner == Register(Signer)

\* A dependency or the port is not available: runHttpProcess gives up.
StartFail ==
    /\ boot = "init"
    /\ boot' = "failed"
    /\ exitCode' = 1
    /\ UNCHANGED <<executor, phase, http, conn, indicators, health, shutdown>>

Listen ==
    /\ boot = "init"
    /\ \A d \in Deps : conn[d] = "up"
    /\ boot' = "listening"
    /\ http' = "open"
    /\ UNCHANGED <<executor, phase, conn, indicators, health, closing>>

\* listen has returned: markReady and registerGracefulShutdown.
MarkReady ==
    /\ boot = "listening"
    /\ boot' = "up"
    /\ phase' = "ready"
    /\ UNCHANGED <<executor, http, conn, indicators, health, closing>>
-----------------------------------------------------------------------------
Answered(status, probed) ==
    /\ probe' = NoProbe
    /\ report' = [status |-> status, probed |-> probed]

Probing == probe' = [busy |-> TRUE, todo |-> indicators, started |-> indicators, healthy |-> TRUE]

\* Faulty variant: readiness asks the dependencies whatever the phase.
ReadinessUnguarded ==
    /\ http = "open"
    /\ ~probe.busy
    /\ Probing /\ UNCHANGED report
    /\ UNCHANGED <<executor, lifecycle, conn, indicators, closing>>

\* readiness up to its await: checkAll starts the probes of the moment.
Readiness ==
    /\ http = "open"
    /\ ~probe.busy
    /\ IF phase = "ready" THEN Probing /\ UNCHANGED report
       ELSE Answered("unavailable", {})
    /\ UNCHANGED <<executor, lifecycle, conn, indicators, closing>>

\* checkOne: healthy, or failed or too late, whatever became of the connection.
CheckOne(d, ok) ==
    /\ d \in probe.todo
    /\ probe' = [probe EXCEPT !.todo = @ \ {d}, !.healthy = @ /\ ok]
    /\ UNCHANGED <<executor, lifecycle, conn, indicators, report, closing>>

\* buildReport.
Report ==
    /\ probe.busy
    /\ probe.todo = {}
    /\ Answered(IF probe.healthy THEN "ok" ELSE "unavailable", probe.started)
    /\ UNCHANGED <<executor, lifecycle, conn, indicators, closing>>
-----------------------------------------------------------------------------
\* SIGTERM or SIGINT; once it has begun, shutdownPromise answers the others.
Signal ==
    /\ boot = "up"
    /\ shutdown = "none"
    /\ shutdown' = "closing"
    /\ phase' = "draining"
    /\ UNCHANGED <<executor, boot, http, conn, indicators, health, exitCode>>

\* app.close runs one hook after the other, also past the deadline.
HookTurn == shutdown # "none" /\ \A d \in Deps : conn[d] # "closing"

\* onModuleDestroy, up to its await.
Destroy(d) ==
    /\ HookTurn
    /\ conn[d] = "up"
    /\ indicators' = indicators \ {d}
    /\ conn' = [conn EXCEPT ![d] = "closing"]
    /\ UNCHANGED <<executor, lifecycle, health, closing>>

Closed(d) ==
    /\ conn[d] = "closing"
    /\ conn' = [conn EXCEPT ![d] = "closed"]
    /\ UNCHANGED <<executor, lifecycle, indicators, health, closing>>

\* pool.end waits for the clients that are in use, close for pending replies.
DestroyPostgres == Destroy(Postgres) \/ Closed(Postgres)
DestroyRedis == Destroy(Redis) \/ Closed(Redis)

\* SfuAdmissionKeyService.onModuleDestroy.
DestroySigner ==
    /\ HookTurn
    /\ conn[Signer] = "up"
    /\ indicators' = indicators \ {Signer}
    /\ CloseExecutor
    /\ conn' = [conn EXCEPT ![Signer] = "closed"]
    /\ UNCHANGED <<lifecycle, health, closing>>

\* External: after the hooks the server stops listening ...
Dispose ==
    /\ http = "open"
    /\ \A d \in Deps : conn[d] = "closed"
    /\ http' = "closing"
    /\ UNCHANGED <<executor, phase, boot, conn, indicators, health, closing>>

\* ... and is closed when the requests under way have been answered.
ServerClosed ==
    /\ http = "closing"
    /\ \A c \in Calls : call[c] \in {"new", "done"}
    /\ ~probe.busy
    /\ http' = "closed"
    /\ UNCHANGED <<executor, phase, boot, conn, indicators, health, closing>>

\* close and telemetry have ended in time.
Stopped ==
    /\ shutdown = "closing"
    /\ http = "closed"
    /\ shutdown' = "stopped"
    /\ UNCHANGED <<executor, lifecycle, conn, indicators, health, exitCode>>

\* withDeadline: the timer comes first, or a hook rejects.
Deadline ==
    /\ shutdown = "closing"
    /\ shutdown' = "stopped"
    /\ exitCode' = 1
    /\ UNCHANGED <<executor, lifecycle, conn, indicators, health>>
-----------------------------------------------------------------------------
\* A request reaches its signature.
Sign(c) ==
    /\ http = "open"
    /\ Execute(c)
    /\ UNCHANGED <<lifecycle, conn, indicators, health, closing>>

SignerStep(c) ==
    /\ Settle(c) \/ Release(c)
    /\ UNCHANGED <<lifecycle, conn, indicators, health, closing>>

Next ==
    \/ InitPostgres \/ InitRedis \/ InitSigner
    \/ StartFail \/ Listen \/ MarkReady
    \/ Readiness \/ Report
    \/ \E d \in Deps, ok \in BOOLEAN : CheckOne(d, ok)
    \/ Signal \/ DestroyPostgres \/ DestroyRedis \/ DestroySigner
    \/ Dispose \/ ServerClosed \/ Stopped \/ Deadline
    \/ \E c \in Calls : Sign(c) \/ SignerStep(c)

Spec == Init /\ [][Next]_vars

(***************************************************************************)
(* The time limit of a signature fires and callbacks that are due run.     *)
(* No dependency has to answer and no shutdown has to end.                 *)
(***************************************************************************)
FairSpec == Spec /\ \A c \in Calls : WF_vars(SignerStep(c))
-----------------------------------------------------------------------------
(***************************************************************************)
(* health/README.md: /ready requires every mandatory dependency.  A report *)
(* that says ok rests on a probe of each, although the shutdown empties    *)
(* the registry while reports are being built.                             *)
(***************************************************************************)
OkMeansProbed == report.status = "ok" => report.probed = Deps
=============================================================================
