---------------------------- MODULE MCChatDelivery ----------------------------
(* ChatDelivery on small instances. *)
EXTENDS ChatDelivery, SequencesExt

CONSTANTS s1, s2

MCSockets == {s1, s2}
MCOneSocket == {s1}

Symmetry == Permutations(MCSockets)
-----------------------------------------------------------------------------
\* for (const notification of pending) cursor.accept(notification)
ReplayInOrder(r) == FoldLeft(Accept, [r EXCEPT !.active = TRUE, !.buffer = <<>>], r.buffer)

(***************************************************************************)
(* activate's loop over the buffered notifications is what Replay says,    *)
(* whatever arrived while the snapshot was read.                           *)
(***************************************************************************)
ReplayIsInOrder ==
    \A s \in Sockets :
       sock[s].phase = "read" /\ ~sock[s].lost =>
          LET r == SendPage([sock[s] EXCEPT !.pend = {}, !.pos = sock[s].page.mark])
          IN  Replay(r) = ReplayInOrder(r)
=============================================================================
