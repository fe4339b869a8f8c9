---------------------------- MODULE MCChatStream -----------------------------
(* ChatStream on small instances. *)
EXTENDS ChatStream

CONSTANTS t1, t2, s1, i1, i2, b1, b2, u1

MCTxns == {t1, t2}
MCSenders == {s1}
MCIds == {i1, i2}
MCBodies == {b1, b2}
MCReaders == {u1}
=============================================================================
