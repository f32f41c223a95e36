--------------------------- MODULE DeliveryProofs ---------------------------
(***************************************************************************)
(* The delivery of events for every number of events, attempts, instances, *)
(* crashes and lost connections. Delivery takes only steps that the event  *)
(* logger can take on its own, so the invariant of EventLogger holds in it *)
(* too; on top of it, a row that was answered for is in the file unless a  *)
(* write has failed (KeptInv), and an acknowledgement needs an answer      *)
(* (BrokerInv).                                                            *)
(***************************************************************************)
EXTENDS Delivery, EventLoggerProofs

(* A request is answered once, and never refused for its form: the receiver posts
   what the logger can decode. *)
AnswerInv ==
  \A q \in Requests :
    /\ at[q] = "done" <=> reply[q] # "none"
    /\ reply[q] \notin {"400", "405"}

(* While no Flush has failed, a row that was flushed is in the file. *)
KeptInv ==
  failures = 0 =>
    /\ \A i \in Instances : ~failed[i]
    /\ \A k \in DOMAIN file : file[k] # Torn
    /\ \A q \in Requests :
         /\ reply[q] # "500"
         /\ at[q] = "unlock" \/ reply[q] = "200" => \E k \in DOMAIN file : file[k] = q

(* What the receiver or the broker takes for delivered has been answered. *)
BrokerInv ==
  /\ \A q \in Requests : delivery[q] = "ack" => reply[q] \in {"200", "500"}
  /\ \A e \in Events : broker[e] = "acked" =>
       \E q \in Attempts(e) : reply[q] \in {"200", "500"}

DeliveryInv == IInv /\ DeliveryTypeOK /\ AnswerInv /\ KeptInv /\ BrokerInv

-----------------------------------------------------------------------------
(* The event logger's steps. *)

LoggerStep ==
  \/ \E i \in Instances : Start(i) \/ Crash(i)
  \/ \E q \in Requests : Accept(q) \/ Handle(q)
  \/ DiskChanges

(* A Flush that succeeds adds the row of its request to the file, and cuts off
   nothing. *)
LEMMA FlushAdds ==
  ASSUME IInv, NEW q \in Requests, Flush(q), \A k \in DOMAIN file : file[k] # Torn
  PROVE  /\ \A k \in DOMAIN file' : file'[k] # Torn
         /\ \A k \in DOMAIN file : k \in DOMAIN file' /\ file'[k] = file[k]
         /\ \E k \in DOMAIN file' : file'[k] = q
<1> DEFINE ls == buf[inst[q]]
<1>1. ls = <<Header, q>> \/ ls = <<q>>
  BY DEF Flush, IInv, TypeOK, BufferInv, MutexInv, MutualExclusion, Critical, FailedInv
<1>2. /\ ls \in Seq(Line) /\ ls # <<>> /\ Len(ls) \in DOMAIN ls /\ ls[Len(ls)] = q
      /\ \A k \in DOMAIN ls : ls[k] # Torn
  <2>1. q \in Line /\ Header \in Line /\ q # Torn /\ Header # Torn
    BY NamesAssumption DEF Line
  <2> HIDE DEF ls
  <2>2. CASE ls = <<Header, q>>
    <3>1. ls \in Seq(Line) /\ Len(ls) = 2 /\ ls[1] = Header /\ ls[2] = q
      BY <2>1, <2>2
    <3>2. \A k \in DOMAIN ls : k = 1 \/ k = 2
      BY <2>2
    <3> QED BY <2>1, <3>1, <3>2
  <2>3. CASE ls = <<q>>
    <3>1. ls \in Seq(Line) /\ ls # <<>> /\ Len(ls) = 1 /\ ls[1] = q
      BY <2>1, <2>3
    <3>2. 1 \in DOMAIN ls /\ \A k \in DOMAIN ls : k = 1
      BY <2>3
    <3> QED BY <2>1, <3>1, <3>2
  <2> QED BY <1>1, <2>2, <2>3
<1>3. file \in Seq(Line)
  BY DEF IInv, TypeOK
<1>4. file' = file \o ls
  BY <1>3 DEF Flush, AppendLines
<1> HIDE DEF ls
<1>5. /\ \A k \in DOMAIN file : k \in DOMAIN file' /\ file'[k] = file[k]
      /\ \A k \in DOMAIN file' : k \in DOMAIN file \/
           (k - Len(file) \in DOMAIN ls /\ file'[k] = ls[k - Len(file)])
      /\ Len(file) + Len(ls) \in DOMAIN file'
      /\ file'[Len(file) + Len(ls)] = ls[Len(ls)]
  BY <1>2, <1>3, <1>4
<1> QED BY <1>2, <1>5

(* Nothing a request was answered changes, and answers are as AnswerInv says. *)
LEMMA AnswerStep ==
  ASSUME IInv, AnswerInv, LoggerStep
  PROVE  /\ AnswerInv'
         /\ \A q \in Requests : reply[q] # "none" => reply'[q] = reply[q]
<1> USE DEF AnswerInv, IInv, TypeOK, Critical
<1>1. ASSUME NEW i \in Instances, Start(i)
      PROVE  UNCHANGED <<at, reply>>
  BY <1>1 DEF Start
<1>2. ASSUME NEW i \in Instances, Crash(i)
      PROVE  AnswerInv' /\ \A q \in Requests : reply[q] # "none" => reply'[q] = reply[q]
  BY <1>2 DEF Crash
<1>3. ASSUME NEW q \in Requests, Accept(q)
      PROVE  AnswerInv' /\ UNCHANGED reply
  BY <1>3 DEF Accept
<1>4. ASSUME NEW q \in Requests, Lock(q) \/ Write(q) \/ Flush(q) \/ FlushFails(q)
      PROVE  AnswerInv' /\ UNCHANGED reply
  BY <1>4 DEF Lock, Write, Flush, FlushFails
<1>5. ASSUME NEW q \in Requests, WriteFails(q) \/ Unlock(q)
      PROVE  AnswerInv' /\ \A p \in Requests : reply[p] # "none" => reply'[p] = reply[p]
  <2>1. at[q] # "done" /\ \E status \in {"200", "500"} : Answer(q, status)
    BY <1>5 DEF WriteFails, Unlock
  <2> QED BY <2>1 DEF Answer
<1>6. CASE DiskChanges
  BY <1>6 DEF DiskChanges
<1> QED BY <1>1, <1>2, <1>3, <1>4, <1>5, <1>6 DEF LoggerStep, Handle

LEMMA KeptStep ==
  ASSUME IInv, AnswerInv, KeptInv, LoggerStep
  PROVE  KeptInv'
<1> USE DEF serverVars
<1>1. ASSUME NEW i \in Instances, Start(i)
      PROVE  KeptInv'
  <2>1. /\ failed' = [failed EXCEPT ![i] = FALSE]
        /\ UNCHANGED <<file, at, reply, failures>>
    BY <1>1 DEF Start
  <2> QED BY <2>1 DEF KeptInv, IInv, TypeOK
<1>2. ASSUME NEW i \in Instances, Crash(i)
      PROVE  KeptInv'
  BY <1>2 DEF Crash, KeptInv, IInv, TypeOK
<1>3. ASSUME NEW q \in Requests, Accept(q)
      PROVE  KeptInv'
  BY <1>3 DEF Accept, RequestOnly, KeptInv, IInv, TypeOK
<1>4. ASSUME NEW q \in Requests, Lock(q)
      PROVE  KeptInv'
  BY <1>4 DEF Lock, KeptInv, IInv, TypeOK
<1>5. ASSUME NEW q \in Requests, Write(q)
      PROVE  KeptInv'
  BY <1>5 DEF Write, KeptInv, IInv, TypeOK
<1>6. ASSUME NEW q \in Requests, WriteFails(q)
      PROVE  KeptInv'
  BY <1>6 DEF WriteFails, Answer, RequestOnly, KeptInv, IInv, TypeOK
<1>7. ASSUME NEW q \in Requests, Flush(q)
      PROVE  KeptInv'
  <2>1. /\ at' = [at EXCEPT ![q] = "unlock"]
        /\ UNCHANGED <<failed, reply, failures>>
    BY <1>7 DEF Flush
  <2>2. CASE failures = 0
    BY <1>7, <2>1, <2>2, FlushAdds DEF KeptInv, IInv, TypeOK
  <2>3. CASE failures # 0
    BY <2>1, <2>3 DEF KeptInv
  <2> QED BY <2>2, <2>3
<1>8. ASSUME NEW q \in Requests, FlushFails(q)
      PROVE  KeptInv'
  BY <1>8 DEF FlushFails, KeptInv, IInv, TypeOK
<1>9. ASSUME NEW q \in Requests, Unlock(q)
      PROVE  KeptInv'
  BY <1>9 DEF Unlock, Answer, KeptInv, IInv, TypeOK
<1>10. CASE DiskChanges
  BY <1>10 DEF DiskChanges, KeptInv
<1> QED BY <1>1, <1>2, <1>3, <1>4, <1>5, <1>6, <1>7, <1>8, <1>9, <1>10 DEF LoggerStep, Handle

-----------------------------------------------------------------------------
(* Every step of the delivery is a step of the logger, or leaves it alone. *)
LEMMA LoggerOrNot ==
  ASSUME posted \in SUBSET Requests, [DeliveryNext]_allVars
  PROVE  \/ LoggerStep /\ UNCHANGED deliveryVars
         \/ UNCHANGED vars
<1>1. CASE Logger
  BY <1>1 DEF Logger, LoggerStep
<1>2. ASSUME NEW e \in Events, Send(e) \/ SendFails(e) \/ GiveUp(e)
      PROVE  UNCHANGED vars
  BY <1>2 DEF Send, SendFails, GiveUp
<1>3. ASSUME NEW q \in Requests, Deliver(q) \/ Acknowledge(q) \/ ConnectionLost(q)
      PROVE  UNCHANGED vars
  BY <1>3 DEF Deliver, Acknowledge, ConnectionLost
<1>4. ASSUME NEW q \in Requests, Receiver(q)
      PROVE  UNCHANGED vars
  BY <1>4 DEF Receiver, Post, PostFails, Logged, NotLogged, Return
<1>5. CASE UNCHANGED allVars
  BY <1>5 DEF allVars
<1> QED BY <1>1, <1>2, <1>3, <1>4, <1>5 DEF DeliveryNext

LEMMA DeliveryInvStep ==
  ASSUME DeliveryInv, [DeliveryNext]_allVars
  PROVE  DeliveryInv'
<1> USE DEF DeliveryInv, deliveryVars
<1>1. CASE LoggerStep /\ UNCHANGED deliveryVars
  <2>1. [Next]_vars
    BY <1>1 DEF LoggerStep, Next
  <2>2. IInv' /\ AnswerInv' /\ KeptInv'
    BY <1>1, <2>1, NextInv, AnswerStep, KeptStep
  <2>3. DeliveryTypeOK'
    BY <1>1, <2>2 DEF DeliveryTypeOK, IInv
  <2>4. \A q \in Requests : reply[q] # "none" => reply'[q] = reply[q]
    BY <1>1, AnswerStep
  <2>5. BrokerInv'
    BY <1>1, <2>4 DEF BrokerInv, Attempts
  <2> QED BY <2>2, <2>3, <2>5
<1>2. CASE UNCHANGED vars
  <2>1. UNCHANGED <<file, diskFull, up, buf, failed, mu, at, inst, reply, starts, failures>>
    BY <1>2 DEF vars, serverVars
  <2>2. AnswerInv' /\ KeptInv'
    BY <2>1 DEF AnswerInv, KeptInv
  <2>3. IInv' /\ TypeOK'
    <3>1. IInv'
      BY <1>2, QuietInv
    <3> QED BY <3>1 DEF IInv
  <2>4. ASSUME NEW e \in Events, Send(e) \/ SendFails(e) \/ GiveUp(e)
        PROVE  DeliveryTypeOK' /\ BrokerInv'
    BY <2>1, <2>3, <2>4 DEF Send, SendFails, GiveUp, DeliveryTypeOK, BrokerInv, Attempts
  <2>5. ASSUME NEW q \in Requests, Deliver(q) \/ ConnectionLost(q) \/ Post(q) \/ PostFails(q)
        PROVE  DeliveryTypeOK' /\ BrokerInv'
    BY <2>1, <2>3, <2>5 DEF Deliver, ConnectionLost, Post, PostFails, Return,
       DeliveryTypeOK, BrokerInv, Attempts
  <2>6. ASSUME NEW q \in Requests, Logged(q) \/ NotLogged(q)
        PROVE  DeliveryTypeOK' /\ BrokerInv'
    <3>1. reply[q] \in {"200", "500"}
      BY <2>6 DEF Logged, NotLogged, AnswerInv, IInv, TypeOK
    <3> QED BY <2>1, <2>3, <2>6, <3>1 DEF Logged, NotLogged, Return, DeliveryTypeOK,
           BrokerInv, Attempts
  <2>7. ASSUME NEW q \in Requests, Acknowledge(q)
        PROVE  DeliveryTypeOK' /\ BrokerInv'
    <3>1. reply[q] \in {"200", "500"} /\ q \in Attempts(EventOf[q])
      BY <2>7 DEF Acknowledge, BrokerInv, Attempts
    <3> QED BY <2>1, <2>3, <2>7, <3>1 DEF Acknowledge, DeliveryTypeOK, BrokerInv, Attempts
  <2>8. ASSUME UNCHANGED deliveryVars
        PROVE  DeliveryTypeOK' /\ BrokerInv'
    BY <2>1, <2>3, <2>8 DEF DeliveryTypeOK, BrokerInv, Attempts
  <2>9. DeliveryTypeOK' /\ BrokerInv'
    <3> HIDE DEF DeliveryInv, deliveryVars
    <3> QED BY <2>4, <2>5, <2>6, <2>7, <2>8 DEF DeliveryNext, Receiver, Logger, allVars
  <2> QED BY <2>2, <2>3, <2>9
<1>3. posted \in SUBSET Requests
  BY DEF DeliveryTypeOK
<1> QED BY <1>1, <1>2, <1>3, LoggerOrNot

LEMMA DeliveryInvInit == DeliveryInit => DeliveryInv
<1> SUFFICES ASSUME DeliveryInit PROVE DeliveryInv
  OBVIOUS
<1>1. Init
  BY DEF DeliveryInit
<1>2. IInv
  BY <1>1, InitInv
<1>3. AnswerInv /\ KeptInv
  BY <1>1 DEF Init, AnswerInv, KeptInv
<1>4. DeliveryTypeOK /\ BrokerInv
  BY <1>2 DEF DeliveryInit, DeliveryTypeOK, BrokerInv, IInv
<1> QED BY <1>2, <1>3, <1>4 DEF DeliveryInv

LEMMA DeliveryInvariant == DeliverySpec => []DeliveryInv
BY DeliveryInvInit, DeliveryInvStep, PTL DEF DeliverySpec

(* The types of the whole delivery. *)
THEOREM DeliveryTypeCorrect == DeliverySpec => []DeliveryTypeOK
<1>1. DeliveryInv => DeliveryTypeOK
  BY DEF DeliveryInv
<1> QED BY DeliveryInvariant, <1>1, PTL

(* As long as no write has failed, an event the broker has done with as delivered
   has its row, whatever crashed and whichever connection was lost. *)
THEOREM AcknowledgedEventsAreLogged == DeliverySpec => []AckedIsLogged
<1>1. DeliveryInv => AckedIsLogged
  BY DEF DeliveryInv, AckedIsLogged, BrokerInv, KeptInv, RowsOf, Attempts
<1> QED BY DeliveryInvariant, <1>1, PTL

(* The event logger inside the delivery behaves as the event logger alone. *)
THEOREM DeliveryUsesEventLogger == DeliverySpec => Spec
<1>1. DeliveryInit => Init
  BY DEF DeliveryInit
<1>2. DeliveryInv /\ [DeliveryNext]_allVars => [Next]_vars
  <2> SUFFICES ASSUME DeliveryInv, [DeliveryNext]_allVars PROVE [Next]_vars
    OBVIOUS
  <2>1. posted \in SUBSET Requests
    BY DEF DeliveryInv, DeliveryTypeOK
  <2>2. LoggerStep => Next
    BY DEF LoggerStep, Next
  <2> QED BY <2>1, <2>2, LoggerOrNot
<1> QED BY DeliveryInvariant, <1>1, <1>2, PTL DEF DeliverySpec, Spec

-----------------------------------------------------------------------------
(* Duplicate rows. *)

Live == {"handling", "posted", "ack"}

(* The broker has one attempt of an event under way or answered for, and the
   others are lost; the logger has only seen attempts the receiver has posted. *)
AttemptInv ==
  /\ \A p, q \in Requests :
       EventOf[p] = EventOf[q] /\ delivery[p] \in Live /\ delivery[q] \in Live => p = q
  /\ \A q \in Requests :
       q \in posted \/ at[q] # "idle" => delivery[q] \in {"posted", "ack", "nack"}
  /\ IsFiniteSet({q \in Requests : delivery[q] # "none"})

(* It holds initially: no attempt has been made. *)
LEMMA AttemptInvInit == DeliveryInit => AttemptInv
<1> SUFFICES ASSUME DeliveryInit PROVE AttemptInv
  OBVIOUS
<1>1. {q \in Requests : delivery[q] # "none"} = {}
  BY DEF DeliveryInit
<1>2. QED
  BY <1>1, FS_EmptySet DEF DeliveryInit, Init, AttemptInv, Live

(* An attempt becomes live only when no other of its event is, and is posted only
   when it is live. *)
LEMMA AttemptInvStep ==
  ASSUME DeliveryInv, AttemptInv, [DeliveryNext]_allVars
  PROVE  AttemptInv'
<1> DEFINE Tried == {q \in Requests : delivery[q] # "none"}
<1> USE DEF Live
<1>0. DeliveryTypeOK /\ TypeOK
  BY DEF DeliveryInv, DeliveryTypeOK
<1>1. ASSUME Logger PROVE AttemptInv'
  <2>1. UNCHANGED <<delivery, posted>>
    BY <1>1 DEF Logger, deliveryVars
  <2>2. \A q \in Requests : at'[q] # "idle" => at[q] # "idle" \/ q \in posted
    <3>1. ASSUME NEW i \in Instances, Start(i) \/ Crash(i)
          PROVE  \A q \in Requests : at'[q] # "idle" => at[q] # "idle"
      BY <1>0, <3>1 DEF Start, Crash, TypeOK
    <3>2. ASSUME NEW p \in posted, Accept(p)
          PROVE  \A q \in Requests : at'[q] # "idle" => at[q] # "idle" \/ q = p
      BY <1>0, <3>2 DEF Accept, TypeOK
    <3>3. ASSUME NEW p \in Requests, Handle(p)
          PROVE  \A q \in Requests : at'[q] # "idle" => at[q] # "idle"
      BY <1>0, <3>3 DEF Handle, Lock, Write, WriteFails, Flush, FlushFails, Unlock, Answer, TypeOK
    <3>4. CASE DiskChanges
      BY <3>4 DEF DiskChanges
    <3>5. QED
      BY <1>1, <3>1, <3>2, <3>3, <3>4 DEF Logger
  <2>3. QED
    BY <2>1, <2>2 DEF AttemptInv
<1>2. ASSUME NEW q \in Requests, Deliver(q) PROVE AttemptInv'
  <2>1. /\ UNCHANGED <<at, posted>> /\ delivery' = [delivery EXCEPT ![q] = "handling"]
        /\ \A p \in Requests : EventOf[p] = EventOf[q] => delivery[p] \notin Live
        /\ delivery[q] = "none"
    BY <1>2 DEF Deliver, Attempts, Outstanding, vars
  <2>2. /\ delivery'[q] = "handling"
        /\ \A p \in Requests \ {q} : delivery'[p] = delivery[p]
    BY <1>0, <2>1 DEF DeliveryTypeOK
  <2>3. IsFiniteSet(Tried')
    <3>1. Tried' \subseteq Tried \cup {q}
      BY <2>2
    <3>2. QED
      BY <3>1, OneMore DEF AttemptInv
  <2>4. QED
    BY <2>1, <2>2, <2>3 DEF AttemptInv
<1>3. ASSUME NEW q \in Requests, ConnectionLost(q) \/ Receiver(q) PROVE AttemptInv'
  <2>1. /\ UNCHANGED at /\ delivery[q] \in Live /\ delivery'[q] \in {"posted", "ack", "nack"}
        /\ \A p \in Requests \ {q} : delivery'[p] = delivery[p]
        /\ posted' \subseteq posted \cup {q}
    BY <1>0, <1>3 DEF ConnectionLost, Outstanding, Receiver, Post, PostFails, Logged, NotLogged,
       Return, vars, DeliveryTypeOK
  <2>2. IsFiniteSet(Tried')
    <3>1. Tried' = Tried
      BY <2>1
    <3>2. QED
      BY <3>1 DEF AttemptInv
  <2>3. QED
    BY <2>1, <2>2 DEF AttemptInv
<1>4. ASSUME UNCHANGED <<vars, delivery, posted>> PROVE AttemptInv'
  BY <1>4 DEF AttemptInv, vars
<1>5. ASSUME NEW e \in Events, Send(e) \/ SendFails(e) \/ GiveUp(e) PROVE AttemptInv'
  BY <1>4, <1>5 DEF Send, SendFails, GiveUp
<1>6. ASSUME NEW q \in Requests, Acknowledge(q) PROVE AttemptInv'
  BY <1>4, <1>6 DEF Acknowledge
<1>7. CASE UNCHANGED allVars
  BY <1>4, <1>7 DEF allVars, deliveryVars
<1>8. QED
  BY <1>1, <1>2, <1>3, <1>5, <1>6, <1>7 DEF DeliveryNext

(* The rows of an event are those of distinct attempts, all but one of them lost. *)
LEMMA RowsAreAttempts ==
  ASSUME DeliveryInv, AttemptInv, NEW e \in Events
  PROVE  Cardinality(RowsOf(e)) <= 1 + Cardinality({q \in Attempts(e) : delivery[q] = "nack"})
<1> DEFINE Lost == {q \in Attempts(e) : delivery[q] = "nack"}
           Seen == {q \in Attempts(e) : delivery[q] \in {"posted", "ack", "nack"}}
           row == [k \in RowsOf(e) |-> file[k]]
<1>1. IsFiniteSet(Lost) /\ IsFiniteSet(Seen)
  <2>1. Lost \in SUBSET {q \in Requests : delivery[q] # "none"}
        /\ Seen \in SUBSET {q \in Requests : delivery[q] # "none"}
    BY DEF Attempts
  <2>2. QED
    BY <2>1, FS_Subset DEF AttemptInv
<1>2. \E x : Seen \subseteq Lost \cup {x}
  BY DEF AttemptInv, Live, Attempts
<1>3. /\ Cardinality(Seen) <= Cardinality(Lost) + 1
      /\ Cardinality(Seen) \in Nat /\ Cardinality(Lost) \in Nat
  <2> HIDE DEF Lost, Seen
  <2>1. QED
    BY <1>1, <1>2, OneMore
<1>4. row \in Injection(RowsOf(e), Seen)
  <2>1. \A k \in RowsOf(e) : file[k] \in Seen
    BY DEF RowsOf, Attempts, DeliveryInv, IInv, FileInv, AttemptInv
  <2>2. \A j, k \in RowsOf(e) : file[j] = file[k] => j = k
    BY DEF RowsOf, Attempts, DeliveryInv, IInv, FileInv, RowOnce
  <2> HIDE DEF Seen
  <2>3. QED
    BY <2>1, <2>2 DEF Injection, IsInjective
<1>5. Cardinality(RowsOf(e)) <= Cardinality(Seen) /\ Cardinality(RowsOf(e)) \in Nat
  <2> HIDE DEF Seen, row
  <2>1. IsFiniteSet(RowsOf(e)) /\ Cardinality(RowsOf(e)) <= Cardinality(Seen)
    BY <1>1, <1>4, FS_Injection
  <2>2. QED
    BY <2>1, FS_CardinalityType
<1> HIDE DEF Seen, Lost
<1>6. Cardinality(RowsOf(e)) <= 1 + Cardinality(Lost)
  BY <1>3, <1>5
<1>7. QED
  BY <1>6 DEF Lost

(* An event has at most one row more than the broker has lost attempts of it,
   whatever crashes, fails to write, and breaks. *)
THEOREM DuplicatesAreExplained == DeliverySpec => []DuplicatesExplained
<1>1. DeliveryInv /\ AttemptInv => DuplicatesExplained
  BY RowsAreAttempts DEF DuplicatesExplained
<1>2. QED
  BY <1>1, DeliveryInvariant, AttemptInvInit, AttemptInvStep, PTL DEF DeliverySpec
=============================================================================
