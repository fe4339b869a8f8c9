------------------------------ MODULE MCOutbox -------------------------------
(* Outbox on small instances. *)
EXTENDS Outbox

CONSTANTS d1, d2, w1, w2, r1

MCDeliveries == {d1, d2}
MCWorkers == {w1, w2}
MCRealtimes == {r1}
=============================================================================
