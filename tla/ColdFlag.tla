------------------------------ MODULE ColdFlag ------------------------------
(***************************************************************************)
(* The flag the benchmarked functions answer their requests with: "true",  *)
(* a cold start, to the first request of an instance, "false" from then    *)
(* on. Each instance, the process of one pod, has its own.                 *)
(*                                                                         *)
(* An instance takes any number of requests at a time. What that means     *)
(* depends on the language: Rust reads and resets the flag under a mutex,  *)
(* the event loop of TypeScript runs the handler without interruption      *)
(* (exclusive); Go, Python and Java read it and reset it in two steps with *)
(* nothing around them (free).                                             *)
(***************************************************************************)

CONSTANTS
  Instances,  \* the instances of one function
  Requests,   \* BOUND: the requests of one execution
  Handlers    \* the kinds of handlers considered

ASSUME HandlersAssumption == Handlers \subseteq {"exclusive", "free"}

VARIABLES
  handler,  \* the kind of this execution's handler
  isCold,   \* the flag of each instance
  inside,   \* the requests between taking the mutex, or the loop, and leaving it
  at,       \* where each request is
  inst,     \* the instance that serves it
  response, \* what it has read of the flag
  before    \* the requests its instance had answered when it was sent

vars == <<handler, isCold, inside, at, inst, response, before>>

(* The type invariant: those inside an instance are the requests that have entered
   its handler and not left it. *)
TypeOK ==
  /\ handler \in Handlers
  /\ isCold \in [Instances -> BOOLEAN]
  /\ at \in [Requests -> {"idle", "sent", "read", "reset", "answered"}]
  /\ inst \in [Requests -> Instances]
  /\ inside = [i \in Instances |->
                 {r \in Requests : inst[r] = i /\ at[r] \in {"read", "reset"}}]
  /\ response \in [Requests -> {"none", "true", "false"}]
  /\ before \in [Requests -> SUBSET Requests]

Init ==
  /\ handler \in Handlers
  /\ isCold = [i \in Instances |-> TRUE]
  /\ inside = [i \in Instances |-> {}]
  /\ at = [r \in Requests |-> "idle"]
  /\ inst \in [Requests -> Instances]
  /\ response = [r \in Requests |-> "none"]
  /\ before = [r \in Requests |-> {}]

(* A client sends a request, and the service routes it to an instance. *)
Send(r) ==
  /\ at[r] = "idle"
  /\ at' = [at EXCEPT ![r] = "sent"]
  /\ before' = [before EXCEPT ![r] = {q \in Requests : inst[q] = inst[r] /\ at[q] = "answered"}]
  /\ UNCHANGED <<handler, isCold, inside, inst, response>>

(* Mutant: the flag is read before the mutex is taken. *)
EnterWithoutLock(r) ==
  /\ at[r] = "sent"
  /\ inside' = [inside EXCEPT ![inst[r]] = @ \cup {r}]
  /\ at' = [at EXCEPT ![r] = "read"]
  /\ UNCHANGED <<handler, isCold, inst, response, before>>

(* The handler takes the mutex, or its turn in the event loop, if it has one. *)
Enter(r) ==
  /\ at[r] = "sent"
  /\ handler = "exclusive" => inside[inst[r]] = {}
  /\ inside' = [inside EXCEPT ![inst[r]] = @ \cup {r}]
  /\ at' = [at EXCEPT ![r] = "read"]
  /\ UNCHANGED <<handler, isCold, inst, response, before>>

(* The flag becomes the response. *)
Read(r) ==
  /\ at[r] = "read"
  /\ response' = [response EXCEPT ![r] = IF isCold[inst[r]] THEN "true" ELSE "false"]
  /\ at' = [at EXCEPT ![r] = "reset"]
  /\ UNCHANGED <<handler, isCold, inside, inst, before>>

(* Mutant: the flag is not reset. *)
ResetForgotten(r) ==
  /\ at[r] = "reset"
  /\ inside' = [inside EXCEPT ![inst[r]] = @ \ {r}]
  /\ at' = [at EXCEPT ![r] = "answered"]
  /\ UNCHANGED <<handler, isCold, inst, response, before>>

(* isCold = false; the response leaves when the handler has returned. *)
Reset(r) ==
  /\ at[r] = "reset"
  /\ isCold' = [isCold EXCEPT ![inst[r]] = FALSE]
  /\ inside' = [inside EXCEPT ![inst[r]] = @ \ {r}]
  /\ at' = [at EXCEPT ![r] = "answered"]
  /\ UNCHANGED <<handler, inst, response, before>>

(* Every request has been answered. *)
Finished == (\A r \in Requests : at[r] = "answered") /\ UNCHANGED vars

Next ==
  \/ \E r \in Requests : Send(r) \/ Enter(r) \/ Read(r) \/ Reset(r)
  \/ Finished

Spec == Init /\ [][Next]_vars

-----------------------------------------------------------------------------
(* A warm answer is never the first: some request of the same instance has been
   told that it was a cold start. *)
FirstIsCold ==
  \A r \in Requests : response[r] = "false" =>
    \E q \in Requests : inst[q] = inst[r] /\ response[q] = "true"

(* Where a lock or an event loop surrounds the flag (handler.rs 17-23), an instance
   reports one cold start, however many requests it started with. *)
OneCold ==
  handler = "exclusive" =>
    \A q, r \in Requests :
      inst[q] = inst[r] /\ response[q] = "true" /\ response[r] = "true" => q = r

(* In every language a request that was sent after its instance had answered
   another is warm, so the cold starts an instance reports beyond its first are
   those of requests that ran together with it. *)
SequentialWarm ==
  \A r \in Requests : before[r] # {} => response[r] # "true"
=============================================================================
