----------------------------- MODULE SchemaHistory -----------------------------
(***************************************************************************)
(* What the migration runner promises the database: the SQL of a file and  *)
(* its row appear in one step, never a second time, only on top of a       *)
(* history that the release itself contains unchanged, and after the       *)
(* lower-numbered files of that release.                                   *)
(***************************************************************************)
EXTENDS Naturals

CONSTANTS Runners, Versions, None

VARIABLES files,    \* the files of each release
          history,  \* checksum of each installed version
          schema    \* how often its SQL took effect

hvars == <<files, history, schema>>

HInit ==
    /\ history = [v \in Versions |-> None]
    /\ schema = [v \in Versions |-> 0]

\* The release contains what is installed.
Descends(r) == \A v \in Versions : history[v] # None => files[r][v] = history[v]

Install(r, v) ==
    /\ files[r][v] # None
    /\ history[v] = None
    /\ schema[v] = 0
    /\ Descends(r)
    /\ \A w \in Versions : w < v /\ files[r][w] # None => history[w] = files[r][w]
    /\ history' = [history EXCEPT ![v] = files[r][v]]
    /\ schema' = [schema EXCEPT ![v] = 1]
    /\ UNCHANGED files

HNext == \E r \in Runners, v \in Versions : Install(r, v)

HSpec == HInit /\ [][HNext]_hvars
=============================================================================
