------------------------------ MODULE StreamHead ------------------------------
(***************************************************************************)
(* What the repository and the live delivery of a meeting's chat share:    *)
(* the head of the stream, which T3 advances and the delivery reads and    *)
(* polls, and the limit of the pages both serve.                           *)
(***************************************************************************)
CONSTANT PageLimit  \* payload.limit, the page limit of synchronize

VARIABLE head       \* meeting_stream_heads.last_position
=============================================================================
