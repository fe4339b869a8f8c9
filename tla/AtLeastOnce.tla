----------------------------- MODULE AtLeastOnce -----------------------------
(***************************************************************************)
(* What the transactional outbox promises its callers, with no lease,      *)
(* worker or retry in sight: a recorded delivery is settled once, it is    *)
(* only reported published after a copy of it reached the broker, and a    *)
(* copy may reach the broker any number of times.                          *)
(***************************************************************************)
CONSTANT Deliveries

VARIABLES state,    \* durable outcome of each delivery
          reached   \* deliveries the broker has seen at least once

avars == <<state, reached>>

AInit == /\ state = [d \in Deliveries |-> "absent"]
         /\ reached = {}

\* The business transaction commits and the delivery becomes durable with it.
Record(d) == /\ state[d] = "absent"
             /\ state' = [state EXCEPT ![d] = "pending"]
             /\ UNCHANGED reached

\* A copy reaches the broker; late duplicates of a settled delivery included.
Reach(d) == /\ state[d] # "absent"
            /\ reached' = reached \cup {d}
            /\ UNCHANGED state

Confirm(d) == /\ state[d] = "pending"
              /\ d \in reached
              /\ state' = [state EXCEPT ![d] = "published"]
              /\ UNCHANGED reached

GiveUp(d) == /\ state[d] = "pending"
             /\ state' = [state EXCEPT ![d] = "dead"]
             /\ UNCHANGED reached

ANext == \E d \in Deliveries : Record(d) \/ Reach(d) \/ Confirm(d) \/ GiveUp(d)

ASpec == AInit /\ [][ANext]_avars

\* Every recorded delivery is eventually settled one way or the other.
Settles ==
    \A d \in Deliveries : state[d] = "pending" ~> state[d] \in {"published", "dead"}
=============================================================================
