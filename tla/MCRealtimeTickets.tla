-------------------------- MODULE MCRealtimeTickets --------------------------
(* RealtimeTickets on small instances. *)
EXTENDS RealtimeTickets

CONSTANTS r1, c1, c2

MCReqs == {r1}
MCConns == {c1, c2}
==============================================================================
