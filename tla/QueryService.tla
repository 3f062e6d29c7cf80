---------------------------- MODULE QueryService ----------------------------
(***************************************************************************)
(* What a client of the server is promised: it connects, names a group,     *)
(* and gets an answer computed from the data of that group and of no other. *)
(* An answer is the set of things it was computed from.                     *)
(***************************************************************************)
CONSTANTS Session, Group, NoGroup

VARIABLES
    status,     \* "off", "ready" to be asked, or "asked"
    asked_for,  \* the group of the question being answered
    answer      \* what the last answer was computed from

svars == <<status, asked_for, answer>>

Init ==
    /\ status = [s \in Session |-> "off"]
    /\ asked_for = [s \in Session |-> NoGroup]
    /\ answer = [s \in Session |-> {}]

Connect(s) ==
    /\ status[s] = "off"
    /\ status' = [status EXCEPT ![s] = "ready"]
    /\ UNCHANGED <<asked_for, answer>>

Ask(s, g) ==
    /\ status[s] = "ready"
    /\ status' = [status EXCEPT ![s] = "asked"]
    /\ asked_for' = [asked_for EXCEPT ![s] = g]
    /\ UNCHANGED answer

Answer(s) ==
    /\ status[s] = "asked"
    /\ status' = [status EXCEPT ![s] = "ready"]
    /\ asked_for' = [asked_for EXCEPT ![s] = NoGroup]
    /\ answer' = [answer EXCEPT ![s] = {asked_for[s]}]

Disconnect(s) ==
    /\ status[s] = "ready"
    /\ status' = [status EXCEPT ![s] = "off"]
    /\ answer' = [answer EXCEPT ![s] = {}]
    /\ UNCHANGED asked_for

Next ==
    \E s \in Session :
        \/ Connect(s)
        \/ \E g \in Group : Ask(s, g)
        \/ Answer(s)
        \/ Disconnect(s)

Spec == Init /\ [][Next]_svars

\* A question that was received whole is answered.
FairSpec == Spec /\ \A s \in Session : WF_svars(Answer(s))

=============================================================================
