----------------------------- MODULE AccessGate -----------------------------
(***************************************************************************)
(* What a route is promised of the requests that reach it: it sees an      *)
(* identity only when the request presented exactly one credential and     *)
(* that credential was proved, and nobody only when it presented none and  *)
(* the route allows that. Everything else is refused, and an answer is     *)
(* final.                                                                  *)
(***************************************************************************)
CONSTANTS
  Request,         \* the requests
  AllowsAnonymous  \* those whose route declares nothing but optional_session

VARIABLES
  presented, \* what each request is seen to present
  proved,    \* whether its one credential was proved
  outcome    \* what the route gets

gate == <<presented, proved, outcome>>

Sightings == {"none", "one", "several"}

Init ==
  /\ presented = [r \in Request |-> "unseen"]
  /\ proved = [r \in Request |-> FALSE]
  /\ outcome = [r \in Request |-> "undecided"]

Undecided(r) == outcome[r] = "undecided"

Look(r) ==
  /\ Undecided(r) /\ presented[r] = "unseen"
  /\ \E s \in Sightings : presented' = [presented EXCEPT ![r] = s]
  /\ UNCHANGED <<proved, outcome>>

Prove(r) ==
  /\ Undecided(r) /\ presented[r] = "one"
  /\ proved' = [proved EXCEPT ![r] = TRUE]
  /\ UNCHANGED <<presented, outcome>>

Serve(r) ==
  /\ Undecided(r) /\ proved[r]
  /\ outcome' = [outcome EXCEPT ![r] = "served"]
  /\ UNCHANGED <<presented, proved>>

Pass(r) ==
  /\ Undecided(r) /\ presented[r] = "none" /\ r \in AllowsAnonymous
  /\ outcome' = [outcome EXCEPT ![r] = "anonymous"]
  /\ UNCHANGED <<presented, proved>>

\* Seeing what is presented and refusing it may be one step.
Refuse(r) ==
  /\ Undecided(r)
  /\ outcome' = [outcome EXCEPT ![r] = "refused"]
  /\ \/ UNCHANGED presented
     \/ /\ presented[r] = "unseen"
        /\ \E s \in Sightings : presented' = [presented EXCEPT ![r] = s]
  /\ UNCHANGED proved

Next == \E r \in Request : Look(r) \/ Prove(r) \/ Serve(r) \/ Pass(r) \/ Refuse(r)

Spec == Init /\ [][Next]_gate
=============================================================================
