------------------------------ MODULE MessageLog ------------------------------
(***************************************************************************)
(* What the chat of a meeting promises its clients, with no session, lock  *)
(* or lookup in sight: one log that only grows, to which a message is      *)
(* appended in a single step and at most once while it is kept; an answer  *)
(* names the place of a kept message; the slow mode and the retention.     *)
(***************************************************************************)
EXTENDS Naturals, Sequences

CONSTANTS Senders, Ids, SlowMode, Retention

VARIABLES log,   \* the accepted messages, in the order of their positions
          kept,  \* positions whose content is still stored
          told,  \* the answers clients have received
          now

lvars == <<log, kept, told, now>>

LInit ==
    /\ log = <<>>
    /\ kept = {}
    /\ told = {}
    /\ now = 0

Answer(from, id, pos) == [from |-> from, id |-> id, pos |-> pos]

\* The message takes the next position; its sender may not hear of it.
Accept(from, id, at) ==
    /\ \A p \in kept : ~(log[p].from = from /\ log[p].id = id)
    /\ \A p \in 1..Len(log) : log[p].from = from => log[p].at + SlowMode <= at
    /\ at <= now
    /\ log' = Append(log, [from |-> from, id |-> id, at |-> at])
    /\ kept' = kept \cup {Len(log) + 1}
    /\ told' \in {told, told \cup {Answer(from, id, Len(log) + 1)}}
    /\ UNCHANGED now

\* A retry learns the position of the message it repeats.
Repeat(p) ==
    /\ p \in kept
    /\ told' = told \cup {Answer(log[p].from, log[p].id, p)}
    /\ UNCHANGED <<log, kept, now>>

\* Retention ends for some messages; the log keeps their places.
Forget(S) ==
    /\ S # {}
    /\ \A p \in S : log[p].at + Retention <= now
    /\ kept' = kept \ S
    /\ UNCHANGED <<log, told, now>>

Pass ==
    /\ now' = now + 1
    /\ UNCHANGED <<log, kept, told>>

LNext ==
    \/ \E from \in Senders, id \in Ids, at \in 0..now : Accept(from, id, at)
    \/ \E p \in kept : Repeat(p)
    \/ \E S \in SUBSET kept : Forget(S)
    \/ Pass

LSpec == LInit /\ [][LNext]_lvars
=============================================================================
