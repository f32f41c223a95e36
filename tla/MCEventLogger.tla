--------------------------- MODULE MCEventLogger ---------------------------
(* Instances of EventLogger for TLC. *)
EXTENDS EventLogger, TLC

(* Requests differ in nothing but their name (sound for the safety runs). *)
RequestSymmetry == Permutations(Requests)
=============================================================================
