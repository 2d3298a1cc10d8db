--------------------------- MODULE ReliableChannel ---------------------------
(***************************************************************************)
(* What two sessions may expect of the control channel between them: a     *)
(* session gets the messages its peer composed, from the first on, in      *)
(* their order, each once and none left out.  Nothing says that all of     *)
(* them arrive.  SecureChannel shows how src/main/connectivity keeps this. *)
(***************************************************************************)
EXTENDS Integers, Sequences

CONSTANTS Sides, Messages

VARIABLES
  sent,      \* sent[p]: what p composed, oldest first
  received   \* received[p]: what of it the session of its peer was given

Init ==
  /\ sent = [p \in Sides |-> <<>>]
  /\ received = [p \in Sides |-> <<>>]

Sends(p, m) == sent' = [sent EXCEPT ![p] = Append(@, m)]

Delivers(p) ==
  /\ Len(received[p]) < Len(sent[p])
  /\ received' = [received EXCEPT ![p] = Append(@, sent[p][Len(@) + 1])]

\* A session that is given a message may answer in the same step.
Next ==
  \E p \in Sides :
    \/ UNCHANGED received /\ \E m \in Messages : Sends(p, m)
    \/ Delivers(p) /\ UNCHANGED sent
    \/ Delivers(p) /\ \E q \in Sides \ {p}, m \in Messages : Sends(q, m)

Spec == Init /\ [][Next]_<<sent, received>>
=============================================================================
