----------------------------- MODULE MCPresence -----------------------------
(* Presence on a small instance. *)
EXTENDS Presence

CONSTANTS k1, k2, p1, p2

MCSockets == {k1, k2}

\* Two participants, of whom a snapshot has room for one.
MCOwner == [s \in MCSockets |-> IF s = k1 THEN p1 ELSE p2]
=============================================================================
