----------------------------- MODULE MCGenerator -----------------------------
(* Instances of Generator for TLC. *)
EXTENDS Generator

(* What cmd/workload-generator does: it calls Stop only after Start. *)
ProgramConfigs == {c \in Config : c.bounded /\ ~c.stopper}

(* What the Generator interface allows: Stop from another goroutine. The duration need
   not elapse, so that runs without one are among those with one; those of a low rate
   are the loops that follow a high one's ramp-up. *)
ApiConfigs == {c \in Config : c.stopper /\ c.bounded /\ c.rps # "low"}

(* Requests end in the same ways with and without a timeout, which only closes bodies
   in the end. *)
SafeConfigs == {c \in ProgramConfigs \cup ApiConfigs : ~c.timeout}

(* Every request can time out. *)
TimedConfigs == {c \in Config : c.timeout /\ (c.bounded \/ c.stopper)}

(* No timeout in the configuration file. *)
UntimedConfigs == {c \in ProgramConfigs : ~c.timeout}
=============================================================================
