------------------------------ MODULE Delivery ------------------------------
(***************************************************************************)
(* The eventing benchmark from end to end: the generator sends an event to *)
(* a Knative broker, the broker delivers it to the receiver                *)
(* (cmd/reciever/main.go), as often as it takes, and the receiver posts it *)
(* to the event logger (EventLogger), whose rows are the benchmark's       *)
(* result.                                                                 *)
(*                                                                         *)
(* A request of EventLogger is here an attempt to deliver an event. The    *)
(* broker is external: it keeps what it has accepted, delivers an event    *)
(* again as long as no delivery of it was acknowledged, and gives up (dead *)
(* letters) when the attempts are used up. An event that several triggers  *)
(* select is, to the receiver, as many events.                             *)
(*                                                                         *)
(* Abstracted: the event's id and the timestamp; the receiver's pods (any  *)
(* of its handlers may lose its connections, on either side).              *)
(***************************************************************************)
EXTENDS EventLogger

CONSTANTS
  Events,   \* the events of one execution
  EventOf   \* the event each attempt would deliver; BOUND on the attempts

ASSUME EventOfAssumption == EventOf \in [Requests -> Events]

VARIABLES
  sent,      \* what the generator has logged about each event
  broker,    \* what the broker knows of it
  delivery,  \* where the receiver's handler of each attempt is
  posted     \* the attempts whose POST to the event logger is on its way

deliveryVars == <<sent, broker, delivery, posted>>
allVars == <<vars, deliveryVars>>

DeliveryTypeOK ==
  /\ TypeOK
  /\ sent \in [Events -> {"none", "Success", "Failed"}]
  /\ broker \in [Events -> {"none", "pending", "acked", "dead"}]
  /\ delivery \in [Requests -> {"none", "handling", "posted", "ack", "nack"}]
  /\ posted \in SUBSET Requests

DeliveryInit ==
  /\ Init
  /\ sent = [e \in Events |-> "none"]
  /\ broker = [e \in Events |-> "none"]
  /\ delivery = [q \in Requests |-> "none"]
  /\ posted = {}

-----------------------------------------------------------------------------
(* The generator and the broker. *)

(* Pool.GenerateCloudEvent: the broker accepts the event; its answer arrives or
   not. The generator does not try again. *)
Send(e) ==
  /\ sent[e] = "none"
  /\ \E line \in {"Success", "Failed"} : sent' = [sent EXCEPT ![e] = line]
  /\ broker' = [broker EXCEPT ![e] = "pending"]
  /\ UNCHANGED <<vars, delivery, posted>>

SendFails(e) ==
  /\ sent[e] = "none"
  /\ sent' = [sent EXCEPT ![e] = "Failed"]
  /\ UNCHANGED <<vars, broker, delivery, posted>>

Attempts(e) == {q \in Requests : EventOf[q] = e}
Outstanding == {q \in Requests : delivery[q] \in {"handling", "posted", "ack"}}

Deliver(q) ==
  LET e == EventOf[q] IN
  /\ broker[e] = "pending" /\ Attempts(e) \cap Outstanding = {}
  /\ delivery[q] = "none"
  /\ delivery' = [delivery EXCEPT ![q] = "handling"]
  /\ UNCHANGED <<vars, sent, broker, posted>>

Acknowledge(q) ==
  /\ delivery[q] = "ack" /\ broker[EventOf[q]] = "pending"
  /\ broker' = [broker EXCEPT ![EventOf[q]] = "acked"]
  /\ UNCHANGED <<vars, sent, delivery, posted>>

GiveUp(e) ==
  /\ broker[e] = "pending"
  /\ \A q \in Attempts(e) : delivery[q] = "nack"
  /\ broker' = [broker EXCEPT ![e] = "dead"]
  /\ UNCHANGED <<vars, sent, delivery, posted>>

(* The broker loses the handler of an attempt, or its answer. *)
ConnectionLost(q) ==
  /\ q \in Outstanding /\ broker[EventOf[q]] = "pending"
  /\ delivery' = [delivery EXCEPT ![q] = "nack"]
  /\ UNCHANGED <<vars, sent, broker, posted>>

-----------------------------------------------------------------------------
(* The receiver's handler: one POST to the event logger, without a timeout. *)

Post(q) ==
  /\ delivery[q] = "handling"
  /\ delivery' = [delivery EXCEPT ![q] = "posted"]
  /\ posted' = posted \cup {q}
  /\ UNCHANGED <<vars, sent, broker>>

(* The handler's return value. *)
Return(q, verdict) ==
  /\ delivery' = [delivery EXCEPT ![q] = verdict]
  /\ UNCHANGED <<vars, sent, broker>>

(* Mutant: the error of http.Post is logged and forgotten. *)
PostFailsQuietly(q) ==
  /\ delivery[q] = "posted"
  /\ \/ at[q] = "idle" /\ ~up[inst[q]]
     \/ at[q] = "done" /\ reply[q] = "lost"
  /\ posted' = posted \ {q}
  /\ Return(q, "ack")

(* http.Post fails: nobody listens, or the connection broke. *)
PostFails(q) ==
  /\ delivery[q] = "posted"
  /\ \/ at[q] = "idle" /\ ~up[inst[q]]
     \/ at[q] = "done" /\ reply[q] = "lost"
  /\ posted' = posted \ {q}
  /\ Return(q, "nack")

Logged(q) ==
  /\ delivery[q] = "posted" /\ at[q] = "done" /\ reply[q] = "200"
  /\ posted' = posted
  /\ Return(q, "ack")

(* A status other than 200: `return err` returns the err of http.Post, which is
   nil, and the event is acknowledged. *)
NotLogged(q) ==
  /\ delivery[q] = "posted" /\ at[q] = "done" /\ reply[q] \notin {"200", "lost"}
  /\ posted' = posted
  /\ Return(q, "ack")

Receiver(q) == Post(q) \/ PostFails(q) \/ Logged(q) \/ NotLogged(q)

-----------------------------------------------------------------------------
(* The event logger, with the requests the receiver posts. *)

Logger ==
  /\ \/ \E i \in Instances : Start(i) \/ Crash(i)
     \/ \E q \in posted : Accept(q)
     \/ \E q \in Requests : Handle(q)
     \/ DiskChanges
  /\ UNCHANGED deliveryVars

DeliveryNext ==
  \/ \E e \in Events : Send(e) \/ SendFails(e) \/ GiveUp(e)
  \/ \E q \in Requests : Deliver(q) \/ Acknowledge(q) \/ ConnectionLost(q) \/ Receiver(q)
  \/ Logger

(* The broker goes on delivering, the handlers of receiver and logger run, a
   running logger accepts connections. Whether it is restarted is open. *)
DeliveryFairness ==
  /\ \A e \in Events : WF_allVars(GiveUp(e))
  /\ \A q \in Requests :
       /\ WF_allVars(Deliver(q)) /\ WF_allVars(Acknowledge(q))
       /\ WF_allVars(Receiver(q))
       /\ WF_allVars(q \in posted /\ Accept(q) /\ UNCHANGED deliveryVars)
       /\ WF_allVars(Handle(q) /\ UNCHANGED deliveryVars)

DeliverySpec == DeliveryInit /\ [][DeliveryNext]_allVars
DeliveryFairSpec == DeliverySpec /\ DeliveryFairness

-----------------------------------------------------------------------------
(* What must hold. *)

RowsOf(e) == {k \in DOMAIN file : file[k] \in Attempts(e)}

(* As long as no write to the log has failed, an event the broker has done with
   as delivered has a row, whichever pods crashed and connections broke. *)
AckedIsLogged ==
  failures = 0 => \A e \in Events : broker[e] = "acked" => RowsOf(e) # {}

(* An event has more than one row only if the broker lost the answer of an
   attempt that had been logged: the benchmark must expect duplicates, one per
   connection lost. *)
DuplicatesExplained ==
  \A e \in Events :
    Cardinality(RowsOf(e)) <= 1 + Cardinality({q \in Attempts(e) : delivery[q] = "nack"})

(* Every event the broker has accepted is acknowledged or given up, as long as
   no write to the log has failed (a failed one may lock the logger for ever,
   and the receiver's handlers with it). *)
EventSettled ==
  \A e \in Events :
    broker[e] = "pending" ~> broker[e] \in {"acked", "dead"} \/ failures > 0

(* cmd/reciever/main.go:60, "Failed to log event": an event the receiver reports
   so is not acknowledged. *)
FailedIsNotAcked ==
  \A q \in Requests : delivery[q] = "ack" => reply[q] = "200"
=============================================================================
