---------------------------- MODULE CommandLedger ----------------------------
(***************************************************************************)
(* What creating and joining meetings promises a client that may repeat a  *)
(* command at any time and through any process: a command takes effect in  *)
(* one step and once, a repetition of the same request gets a new session  *)
(* for the same participant, and a join takes effect only while the        *)
(* meeting and its invitation are open.  No transaction, lock, snapshot or *)
(* retry appears.                                                          *)
(***************************************************************************)
EXTENDS Naturals

CONSTANTS Names,       \* identifiers a first execution or a session is given
          CreateKeys,  \* commands that create a meeting
          JoinKeys,    \* commands that join one
          Prints       \* requests, as far as a command tells them apart

VARIABLES effect,      \* what each command has done: nothing, or one thing
          meetings,
          uses,        \* how often each invitation has been used
          shut,        \* meetings ended and invitations revoked
          sessions,
          told         \* the answers clients have received

lvars == <<effect, meetings, uses, shut, sessions, told>>

LInit ==
    /\ effect = [k \in CreateKeys \cup JoinKeys |-> {}]
    /\ meetings = {}
    /\ uses = [m \in Names |-> 0]
    /\ shut = {}
    /\ sessions = {}
    /\ told = {}

\* A session for the participant; the client may not hear of it.
Admit(n, k, e) ==
    /\ sessions' = sessions \cup {[token |-> n, participant |-> e.participant]}
    /\ told' \in {told, told \cup {[key |-> k, print |-> e.print, meeting |-> e.meeting,
                                    participant |-> e.participant, token |-> n]}}

\* A command that has had no effect takes it for the participant n.
Execute(n, k, print, m) ==
    LET e == [print |-> print, meeting |-> m, participant |-> n]
    IN  /\ effect[k] = {}
        /\ \A j \in CreateKeys \cup JoinKeys : \A done \in effect[j] : done.participant # n
        /\ effect' = [effect EXCEPT ![k] = {e}]
        /\ Admit(n, k, e)

Create(n, k, print) ==
    /\ n \notin meetings
    /\ Execute(n, k, print, n)
    /\ meetings' = meetings \cup {n}
    /\ uses' = [uses EXCEPT ![n] = 0]
    /\ UNCHANGED shut

Join(n, k, print, m) ==
    /\ m \in meetings
    /\ <<"meeting", m>> \notin shut /\ <<"capability", m>> \notin shut
    /\ Execute(n, k, print, m)
    /\ uses' = [uses EXCEPT ![m] = @ + 1]
    /\ UNCHANGED <<meetings, shut>>

\* The same request again: the same participant, another session.
Repeat(n, k, print) ==
    /\ \E e \in effect[k] : e.print = print /\ Admit(n, k, e)
    /\ UNCHANGED <<effect, meetings, uses, shut>>

Shut(x) ==
    /\ x[2] \in meetings
    /\ shut' = shut \cup {x}
    /\ UNCHANGED <<effect, meetings, uses, sessions, told>>

LNext ==
    \/ \E n \in Names, print \in Prints :
          \/ \E k \in CreateKeys : Create(n, k, print)
          \/ \E k \in JoinKeys, m \in meetings : Join(n, k, print, m)
          \/ \E k \in CreateKeys \cup JoinKeys : Repeat(n, k, print)
    \/ \E x \in {"meeting", "capability"} \X Names : Shut(x)

LSpec == LInit /\ [][LNext]_lvars
=============================================================================
