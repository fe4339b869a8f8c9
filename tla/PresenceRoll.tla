----------------------------- MODULE PresenceRoll -----------------------------
(***************************************************************************)
(* What presence promises its readers: a connection is present for one     *)
(* uninterrupted time of its life, the revision rises whenever the roll    *)
(* changes, and only a lapse of the keys, which empties the roll, does     *)
(* without and may take the revision with it.                              *)
(***************************************************************************)
EXTENDS Naturals

CONSTANT Sockets

VARIABLES life,   \* of each connection: before, present, gone
          rev     \* the revision of the roll; 0 when there is none

rvars == <<life, rev>>

Present == {s \in Sockets : life[s] = "present"}

RInit ==
    /\ life = [s \in Sockets |-> "before"]
    /\ rev = 0

\* No life goes back, and none skips to a presence it has had.
Later == {<<"before", "before">>, <<"before", "present">>, <<"before", "gone">>,
          <<"present", "present">>, <<"present", "gone">>, <<"gone", "gone">>}

Grow == life' \in [Sockets -> {"before", "present", "gone"}]
        /\ \A s \in Sockets : <<life[s], life'[s]>> \in Later

\* Connections open, close and are purged.
Change ==
    /\ Grow
    /\ rev' >= rev
    /\ rev' = rev => Present' = Present

\* The keys expire: nobody is left.
Lapse ==
    /\ Grow
    /\ Present' = {}
    /\ rev' \in {rev, 0}

RNext == Change \/ Lapse

RSpec == RInit /\ [][RNext]_rvars
=============================================================================
