-------------------------- MODULE MCMeetingCommands --------------------------
(* MeetingCommands on small instances. *)
EXTENDS MeetingCommands, TLC

CONSTANTS c1, c2, c3, k1, k2, b1

MCCalls == {c1, c2, c3}
MCCommands == {k1, k2}
MCBodies == {b1}
\* During a rotation some processes know the new key and sign with it.
MCRings == {[current |-> 1, keys |-> {1}], [current |-> 2, keys |-> {1, 2}]}

Symmetry == Permutations(MCCalls) \cup Permutations(MCCommands)
=============================================================================
