-------------------------- MODULE MCMigrationRunner --------------------------
(* MigrationRunner on a small instance. *)
EXTENDS MigrationRunner

CONSTANTS r1, r2, a, b

MCRunners == {r1, r2}
MCVersions == 1..2
MCChecksums == {a, b}
=============================================================================
