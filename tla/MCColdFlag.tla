----------------------------- MODULE MCColdFlag -----------------------------
(* Instances are interchangeable, and so are requests. *)
EXTENDS ColdFlag, TLC

Symmetry == Permutations(Instances) \cup Permutations(Requests)
=============================================================================
