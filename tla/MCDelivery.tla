----------------------------- MODULE MCDelivery -----------------------------
(* Instances of Delivery for TLC. *)
EXTENDS Delivery, TLC

CONSTANTS e1, e2, a1, a2, b1

(* Two attempts for the first event, one for the second. *)
TwoEvents == a1 :> e1 @@ a2 :> e1 @@ b1 :> e2

(* One event, three attempts. *)
ThreeAttempts == a1 :> e1 @@ a2 :> e1 @@ b1 :> e1
=============================================================================
