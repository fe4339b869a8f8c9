-------------------------- MODULE MCRealtimeGateway --------------------------
(* RealtimeGateway on a small instance. *)
EXTENDS RealtimeGateway

CONSTANTS s1, s2, k1, k2, p1

MCSockets == {s1, s2}
MCSources == {k1, k2}
MCSessions == {p1}
=============================================================================
