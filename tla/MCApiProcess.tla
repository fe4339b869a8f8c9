----------------------------- MODULE MCApiProcess -----------------------------
(* ApiProcess on a small instance. *)
EXTENDS ApiProcess

CONSTANTS c1, c2, c3

MCCalls == {c1, c2, c3}
=============================================================================
