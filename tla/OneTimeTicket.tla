---------------------------- MODULE OneTimeTicket ----------------------------
(***************************************************************************)
(* What a realtime ticket promises: its life goes one way.  It is on       *)
(* record before it can be used, it is live at most once, it is used at    *)
(* most once, and only a use that is on record admits anybody.             *)
(***************************************************************************)
CONSTANT Ids

VARIABLES life,   \* where each ticket is in its life
          used    \* tickets whose use is on record

tvars == <<life, used>>

TInit ==
    /\ life = [i \in Ids |-> "unknown"]
    /\ used = {}

Becomes(i, where) ==
    /\ life' = [life EXCEPT ![i] = where]
    /\ UNCHANGED used

\* The ticket goes on record; its secret may still be lost before it is stored.
Reserve(i) ==
    /\ life[i] = "unknown"
    /\ Becomes(i, "reserved") \/ Becomes(i, "spent")

Activate(i) ==
    /\ life[i] = "reserved"
    /\ Becomes(i, "live")

\* The secret is taken, removed or given up.
Spend(i) ==
    /\ life[i] \in {"reserved", "live"}
    /\ Becomes(i, "spent")

\* The use of a spent ticket is recorded, and at most then it admits.
Use(i) ==
    /\ life[i] = "spent"
    /\ i \notin used
    /\ used' = used \cup {i}
    /\ life' \in {life, [life EXCEPT ![i] = "admitted"]}

TNext == \E i \in Ids : Reserve(i) \/ Activate(i) \/ Spend(i) \/ Use(i)

TSpec == TInit /\ [][TNext]_tvars
=============================================================================
