------------------------------- MODULE LoadRun -------------------------------
(***************************************************************************)
(* What a run of a load generator promises to the program that starts it,  *)
(* whatever loops, limiters and goroutines it is made of: it sends         *)
(* requests, each of which is answered (or fails) at some time; it may be  *)
(* asked to close; and once it is closed, nothing is outstanding and       *)
(* nothing is sent any more.                                               *)
(***************************************************************************)
EXTENDS Naturals

VARIABLES
  status,    \* "open", "closing", "closed" or "broken"
  sent,      \* requests sent
  answered   \* requests that have ended, well or not

vars == <<status, sent, answered>>

TypeOK ==
  /\ status \in {"open", "closing", "closed", "broken"}
  /\ sent \in Nat /\ answered \in Nat

Init == status = "open" /\ sent = 0 /\ answered = 0

(* A round that has begun when the run is asked to close is sent all the same. *)
Send ==
  /\ status \in {"open", "closing"}
  /\ sent' = sent + 1
  /\ UNCHANGED <<status, answered>>

Answer ==
  /\ answered < sent /\ status \in {"open", "closing"}
  /\ answered' = answered + 1
  /\ UNCHANGED <<status, sent>>

RequestClose ==
  /\ status = "open" /\ status' = "closing"
  /\ UNCHANGED <<sent, answered>>

(* Closed means drained. *)
Close ==
  /\ status = "closing" /\ answered = sent
  /\ status' = "closed"
  /\ UNCHANGED <<sent, answered>>

Break ==
  /\ status \in {"open", "closing"} /\ status' = "broken"
  /\ UNCHANGED <<sent, answered>>

Next == Send \/ Answer \/ RequestClose \/ Close \/ Break

Spec == Init /\ [][Next]_vars

(* A closed run has no request outstanding. *)
Drained == status = "closed" => answered = sent
=============================================================================
