--------------------------- MODULE MigrationRunner ---------------------------
(***************************************************************************)
(* MigrationRunner: processes of one or several releases bring the schema  *)
(* up to date under an advisory lock, one transaction per file.            *)
(*                                                                         *)
(* The client and its PostgreSQL session fail separately: a dead client's  *)
(* session goes on with the statement it was sent and keeps its lock until *)
(* the server notices; a session that is lost rolls back and frees it.     *)
(***************************************************************************)
EXTENDS Naturals, FiniteSets

CONSTANTS Runners,    \* processes; a retry of the job is another one
          Versions,   \* the numbers of migration files, in order
          Checksums,
          None

ASSUME MigrationAssumption ==
    /\ Versions \subseteq Nat
    /\ None \notin Checksums \cup Runners

VARIABLES files,    \* what each process found in its directory
          history,  \* schema_migrations
          schema,   \* how often the SQL of each version took effect
          lock,     \* the session that holds the advisory lock
          runner

migrationVars == <<files, history, schema, lock, runner>>

Row == Checksums \cup {None}
Phases == {"start", "locking", "verify", "load", "apply", "insert", "commit", "committed",
           "unlock", "closing", "ended"}
Runner == [phase : Phases,
           alive : BOOLEAN,          \* the process
           todo : SUBSET Versions,   \* files that are not applied
           tx : SUBSET Versions,     \* executed in the open transaction
           outcome : {"none", "ok", "error"}]

MigrationTypeOK ==
    /\ files \in [Runners -> [Versions -> Row]]
    /\ history \in [Versions -> Row]
    /\ schema \in [Versions -> Nat]
    /\ lock \in Runners \cup {None}
    /\ runner \in [Runners -> Runner]

\* readMigrationFiles: no directory without files, no version twice.
MigrationInit ==
    /\ files \in [Runners -> [Versions -> Row]]
    /\ \A r \in Runners : \E v \in Versions : files[r][v] # None
    /\ history = [v \in Versions |-> None]
    /\ schema = [v \in Versions |-> 0]
    /\ lock = None
    /\ runner = [r \in Runners |-> [phase |-> "start", alive |-> TRUE, todo |-> {},
                                    tx |-> {}, outcome |-> "none"]]

Applied == {v \in Versions : history[v] # None}
At(r, p) == runner[r].phase = p
Client(r, p) == runner[r].alive /\ At(r, p)
Go(r, p) == runner' = [runner EXCEPT ![r].phase = p]

\* The error is on its way out: the transaction is rolled back, then finally.
Raise(r) ==
    runner' = [runner EXCEPT ![r].phase = "unlock", ![r].tx = {}, ![r].outcome = "error"]
-----------------------------------------------------------------------------
\* run: the client is acquired and asks for the lock.
Start(r) ==
    /\ Client(r, "start")
    /\ Go(r, "locking")
    /\ UNCHANGED <<files, history, schema, lock>>

\* The server grants pg_advisory_lock.
Lock(r) ==
    /\ At(r, "locking")
    /\ lock = None
    /\ lock' = r
    /\ Go(r, "verify")
    /\ UNCHANGED <<files, history, schema>>

\* Faulty variant: a changed file is not noticed.
MatchesByVersion(r) == \A v \in Applied : files[r][v] # None

\* Every applied version has its file, unchanged.
Matches(r) == \A v \in Applied : files[r][v] = history[v]

\* ensureMigrationTable and verifyAppliedMigrations.
Verify(r) ==
    /\ Client(r, "verify")
    /\ IF Matches(r) THEN Go(r, "load") ELSE Raise(r)
    /\ UNCHANGED <<files, history, schema, lock>>

\* loadAppliedMigrations.
Load(r) ==
    /\ Client(r, "load")
    /\ runner' = [runner EXCEPT ![r].phase = "apply",
                                ![r].todo = {v \in Versions \ Applied : files[r][v] # None}]
    /\ UNCHANGED <<files, history, schema, lock>>

\* Faulty variant: no transaction around the file.
ApplyUnprotected(r, v) ==
    /\ Client(r, "apply")
    /\ v \in runner[r].todo
    /\ \A w \in runner[r].todo : v <= w
    /\ runner' = [runner EXCEPT ![r].phase = "insert"]
    /\ schema' = [schema EXCEPT ![v] = @ + 1]
    /\ UNCHANGED <<files, history, lock>>

\* applyMigration: BEGIN and the SQL of the next file.
Apply(r, v) ==
    /\ Client(r, "apply")
    /\ v \in runner[r].todo
    /\ \A w \in runner[r].todo : v <= w
    /\ runner' = [runner EXCEPT ![r].phase = "insert", ![r].tx = {v}]
    /\ UNCHANGED <<files, history, schema, lock>>

\* Its row of schema_migrations, whose version is a primary key, and COMMIT.
Insert(r) ==
    /\ Client(r, "insert")
    /\ IF runner[r].tx \cap Applied = {} THEN Go(r, "commit") ELSE Raise(r)
    /\ UNCHANGED <<files, history, schema, lock>>

\* The server commits, even if nobody waits for the answer.
Commit(r) ==
    /\ At(r, "commit")
    /\ history' = [v \in Versions |-> IF v \in runner[r].tx THEN files[r][v] ELSE history[v]]
    /\ schema' = [v \in Versions |-> IF v \in runner[r].tx THEN schema[v] + 1 ELSE schema[v]]
    /\ runner' = [runner EXCEPT ![r].phase = "committed", ![r].tx = {},
                                ![r].todo = @ \ runner[r].tx]
    /\ UNCHANGED <<files, lock>>

Committed(r) ==
    /\ Client(r, "committed")
    /\ Go(r, "apply")
    /\ UNCHANGED <<files, history, schema, lock>>

\* Nothing is left to apply.
Complete(r) ==
    /\ Client(r, "apply")
    /\ runner[r].todo = {}
    /\ runner' = [runner EXCEPT ![r].phase = "unlock", ![r].outcome = "ok"]
    /\ UNCHANGED <<files, history, schema, lock>>

\* A statement fails or exceeds its time limit, COMMIT's answer included.
Fail(r) ==
    /\ runner[r].alive
    /\ runner[r].phase \notin {"unlock", "closing", "ended"}
    /\ Raise(r)
    /\ UNCHANGED <<files, history, schema, lock>>

\* finally: pg_advisory_unlock, whose error is ignored.
Unlock(r) ==
    /\ Client(r, "unlock")
    /\ lock' \in {lock, IF lock = r THEN None ELSE lock}
    /\ Go(r, "closing")
    /\ UNCHANGED <<files, history, schema>>
-----------------------------------------------------------------------------
\* The connection breaks: the server rolls back, the client gets an error.
Disconnect(r) ==
    /\ runner[r].alive
    /\ runner[r].phase \notin {"start", "unlock", "closing", "ended"}
    /\ Raise(r)
    /\ lock' = IF lock = r THEN None ELSE lock
    /\ UNCHANGED <<files, history, schema>>

\* The process dies, or gives up on a statement that the server goes on with.
Crash(r) ==
    /\ runner[r].alive
    /\ ~At(r, "ended")
    /\ runner' = [runner EXCEPT ![r].alive = FALSE]
    /\ UNCHANGED <<files, history, schema, lock>>

\* Faulty variant: the pool is left open when the runner has returned.
SessionEndOnCrash(r) ==
    /\ ~runner[r].alive
    /\ ~At(r, "ended")
    /\ runner' = [runner EXCEPT ![r].phase = "ended", ![r].tx = {}]
    /\ lock' = IF lock = r THEN None ELSE lock
    /\ UNCHANGED <<files, history, schema>>

\* app.close ends the pool, or the server notices that the client is gone.
SessionEnd(r) ==
    /\ ~runner[r].alive \/ At(r, "closing")
    /\ ~At(r, "ended")
    /\ runner' = [runner EXCEPT ![r].phase = "ended", ![r].tx = {}]
    /\ lock' = IF lock = r THEN None ELSE lock
    /\ UNCHANGED <<files, history, schema>>

Progress(r) ==
    \/ Start(r) \/ Lock(r) \/ Verify(r) \/ Load(r)
    \/ \E v \in Versions : Apply(r, v)
    \/ Insert(r) \/ Commit(r) \/ Committed(r) \/ Complete(r) \/ Unlock(r)

MigrationNext == \E r \in Runners :
    Progress(r) \/ Fail(r) \/ Disconnect(r) \/ Crash(r) \/ SessionEnd(r)

MigrationSpec == MigrationInit /\ [][MigrationNext]_migrationVars

\* Statements and locks end at their time limits, sessions of dead clients too.
MigrationFairSpec ==
    /\ MigrationSpec
    /\ \A r \in Runners : WF_migrationVars(Progress(r)) /\ WF_migrationVars(SessionEnd(r))
-----------------------------------------------------------------------------
(***************************************************************************)
(* The SQL of a version takes effect at most once, and exactly when its    *)
(* row says so, wherever a client, a session or an answer is lost.         *)
(***************************************************************************)
AppliedOnce == \A v \in Versions : schema[v] = IF history[v] = None THEN 0 ELSE 1

(***************************************************************************)
(* A run that succeeds leaves every one of its files in the history with   *)
(* its own checksum, and no run of another release changes that later.     *)
(***************************************************************************)
SuccessIsComplete ==
    \A r \in Runners : runner[r].outcome = "ok" =>
       \A v \in Versions : files[r][v] # None => history[v] = files[r][v]

\* Every process ends and gives the lock back, so that the next one gets its turn.
RunnersEnd == \A r \in Runners : <>(runner[r].phase = "ended" /\ lock # r)
=============================================================================
