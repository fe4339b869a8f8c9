--------------------------- MODULE ConnectionQuota ---------------------------
(***************************************************************************)
(* What the registry of connections promises, with sets where it has       *)
(* counters: a socket enters once, while the process is ready and its      *)
(* source is below its limit; it is bound to one session, once, while it   *)
(* is a member and the session is below its limit; and it leaves for good. *)
(***************************************************************************)
EXTENDS Integers, FiniteSets

CONSTANTS Sockets, Sources, Sessions, None, SourceLimit, SessionLimit

VARIABLES members,   \* the connections that count
          home,      \* the source of each
          holder,    \* the session each is bound to
          met,       \* sockets that have had their answer
          phase      \* of the process

qvars == <<members, home, holder, met, phase>>

QInit ==
    /\ members = {}
    /\ home = [s \in Sockets |-> None]
    /\ holder = [s \in Sockets |-> None]
    /\ met = {}
    /\ phase = "ready"

From(k) == {s \in members : home[s] = k}
Of(p) == {s \in members : holder[s] = p}

\* A new socket of source k gets its answer.
Meet(s) ==
    /\ phase = "ready"
    /\ s \notin met
    /\ met' = met \cup {s}
    /\ UNCHANGED <<holder, phase>>

Enter(s, k) ==
    /\ Meet(s)
    /\ Cardinality(From(k)) < SourceLimit
    /\ members' = members \cup {s}
    /\ home' = [home EXCEPT ![s] = k]

TurnAway(s, k) ==
    /\ Meet(s)
    /\ Cardinality(From(k)) >= SourceLimit
    /\ UNCHANGED <<members, home>>

Bind(s, p) ==
    /\ s \in members
    /\ holder[s] = None
    /\ Cardinality(Of(p)) < SessionLimit
    /\ holder' = [holder EXCEPT ![s] = p]
    /\ UNCHANGED <<members, home, met, phase>>

Leave(s) ==
    /\ s \in members
    /\ members' = members \ {s}
    /\ UNCHANGED <<home, holder, met, phase>>

Shut ==
    /\ phase = "ready"
    /\ phase' = "draining"
    /\ UNCHANGED <<members, home, holder, met>>

Drain ==
    /\ phase = "draining"
    /\ phase' = "destroyed"
    /\ members' = {}
    /\ UNCHANGED <<home, holder, met>>

QNext ==
    \/ \E s \in Sockets :
          \/ \E k \in Sources : Enter(s, k) \/ TurnAway(s, k)
          \/ \E p \in Sessions : Bind(s, p)
          \/ Leave(s)
    \/ Shut
    \/ Drain

QSpec == QInit /\ [][QNext]_qvars
=============================================================================
