--------------------------- MODULE ColdFlagProofs ---------------------------
(***************************************************************************)
(* Proofs that the flag reports cold starts as ColdFlag says, for every    *)
(* number of instances and requests.                                       *)
(*                                                                         *)
(* What makes the properties inductive is how the flag and the answers of  *)
(* an instance are related while requests are still inside (FlagInv).      *)
(***************************************************************************)
EXTENDS ColdFlag, TLAPS

FlagInv ==
  \* A request has its response from Read on.
  /\ \A r \in Requests : response[r] = "none" <=> at[r] \in {"idle", "sent", "read"}
  \* An instance that has answered is warm, also for those sent after the answer.
  /\ \A r \in Requests : at[r] = "answered" => ~isCold[inst[r]]
  /\ \A r \in Requests : before[r] # {} => ~isCold[inst[r]]
  \* A warm instance has told some request that it was cold.
  /\ \A r \in Requests :
       ~isCold[inst[r]] => \E q \in Requests : inst[q] = inst[r] /\ response[q] = "true"

(* With a lock one request is inside at a time, and it is the only one that can
   have been told of a cold start while the flag is still set. *)
ExclusiveInv ==
  handler = "exclusive" =>
    /\ \A q, r \in Requests :
         inst[q] = inst[r] /\ at[q] \in {"read", "reset"} /\ at[r] \in {"read", "reset"}
           => q = r
    /\ \A r \in Requests :
         response[r] = "true" /\ isCold[inst[r]] => at[r] = "reset"

IInv == TypeOK /\ FlagInv /\ ExclusiveInv /\ FirstIsCold /\ OneCold /\ SequentialWarm

-----------------------------------------------------------------------------
LEMMA InitInv == Init => IInv
BY DEF Init, IInv, TypeOK, FlagInv, ExclusiveInv, FirstIsCold, OneCold, SequentialWarm

LEMMA TypeStep ==
  ASSUME TypeOK, [Next]_vars
  PROVE  TypeOK'
<1>1. ASSUME NEW r \in Requests, Send(r)
      PROVE  TypeOK'
  BY <1>1 DEF Send, TypeOK
<1>2. ASSUME NEW r \in Requests, Enter(r)
      PROVE  TypeOK'
  <2>1. inside' = [i \in Instances |->
                     IF i = inst[r] THEN inside[i] \cup {r} ELSE inside[i]]
    BY <1>2 DEF Enter, TypeOK
  <2>2. at' = [at EXCEPT ![r] = "read"] /\ inst' = inst
    BY <1>2 DEF Enter
  <2>3. \A i \in Instances :
          inside'[i] = {q \in Requests : inst'[q] = i /\ at'[q] \in {"read", "reset"}}
    BY <2>1, <2>2 DEF TypeOK
  <2>4. inside' = [i \in Instances |->
                     {q \in Requests : inst'[q] = i /\ at'[q] \in {"read", "reset"}}]
    BY <2>1, <2>3
  <2>5. UNCHANGED <<handler, isCold, inst, response, before>>
    BY <1>2 DEF Enter
  <2>6. at' \in [Requests -> {"idle", "sent", "read", "reset", "answered"}]
    BY <2>2 DEF TypeOK
  <2> QED BY <2>4, <2>5, <2>6 DEF TypeOK
<1>3. ASSUME NEW r \in Requests, Read(r)
      PROVE  TypeOK'
  BY <1>3 DEF Read, TypeOK
<1>4. ASSUME NEW r \in Requests, Reset(r)
      PROVE  TypeOK'
  <2>1. inside' = [i \in Instances |->
                     IF i = inst[r] THEN inside[i] \ {r} ELSE inside[i]]
    BY <1>4 DEF Reset, TypeOK
  <2>2. at' = [at EXCEPT ![r] = "answered"] /\ inst' = inst
    BY <1>4 DEF Reset
  <2>3. \A i \in Instances :
          inside'[i] = {q \in Requests : inst'[q] = i /\ at'[q] \in {"read", "reset"}}
    BY <2>1, <2>2 DEF TypeOK
  <2>4. inside' = [i \in Instances |->
                     {q \in Requests : inst'[q] = i /\ at'[q] \in {"read", "reset"}}]
    BY <2>1, <2>3
  <2>5. UNCHANGED <<handler, inst, response, before>>
    BY <1>4 DEF Reset
  <2>6. /\ at' \in [Requests -> {"idle", "sent", "read", "reset", "answered"}]
        /\ isCold' \in [Instances -> BOOLEAN]
    BY <1>4, <2>2 DEF TypeOK, Reset
  <2> QED BY <2>4, <2>5, <2>6 DEF TypeOK
<1>5. CASE Finished \/ UNCHANGED vars
  BY <1>5 DEF Finished, vars, TypeOK
<1> QED BY <1>1, <1>2, <1>3, <1>4, <1>5 DEF Next

LEMMA FlagStep ==
  ASSUME TypeOK, FlagInv, FirstIsCold, [Next]_vars
  PROVE  FlagInv'
<1>1. ASSUME NEW r \in Requests, Send(r)
      PROVE  FlagInv'
  BY <1>1 DEF Send, TypeOK, FlagInv
<1>2. ASSUME NEW r \in Requests, Enter(r)
      PROVE  FlagInv'
  BY <1>2 DEF Enter, TypeOK, FlagInv
<1>3. ASSUME NEW r \in Requests, Read(r)
      PROVE  FlagInv'
  BY <1>3 DEF Read, TypeOK, FlagInv
<1>4. ASSUME NEW r \in Requests, Reset(r)
      PROVE  FlagInv'
  <2>1. response[r] \in {"true", "false"}
    BY <1>4 DEF Reset, TypeOK, FlagInv
  <2>2. \E q \in Requests : inst[q] = inst[r] /\ response[q] = "true"
    BY <2>1 DEF FirstIsCold
  <2> QED BY <1>4, <2>2 DEF Reset, TypeOK, FlagInv
<1>5. CASE Finished \/ UNCHANGED vars
  BY <1>5 DEF Finished, vars, FlagInv
<1> QED BY <1>1, <1>2, <1>3, <1>4, <1>5 DEF Next

LEMMA ExclusiveStep ==
  ASSUME TypeOK, FlagInv, ExclusiveInv, [Next]_vars
  PROVE  ExclusiveInv'
<1>1. ASSUME NEW r \in Requests, Send(r)
      PROVE  ExclusiveInv'
  BY <1>1 DEF Send, TypeOK, ExclusiveInv
<1>2. ASSUME NEW r \in Requests, Enter(r)
      PROVE  ExclusiveInv'
  BY <1>2 DEF Enter, TypeOK, ExclusiveInv
<1>3. ASSUME NEW r \in Requests, Read(r)
      PROVE  ExclusiveInv'
  BY <1>3 DEF Read, TypeOK, ExclusiveInv
<1>4. ASSUME NEW r \in Requests, Reset(r)
      PROVE  ExclusiveInv'
  BY <1>4 DEF Reset, TypeOK, ExclusiveInv
<1>5. CASE Finished \/ UNCHANGED vars
  BY <1>5 DEF Finished, vars, ExclusiveInv
<1> QED BY <1>1, <1>2, <1>3, <1>4, <1>5 DEF Next

(* Only Read gives a request its response. *)
LEMMA AnswersStep ==
  ASSUME TypeOK, FlagInv, ExclusiveInv, FirstIsCold, OneCold, SequentialWarm, [Next]_vars
  PROVE  FirstIsCold' /\ OneCold' /\ SequentialWarm'
<1>1. ASSUME NEW r \in Requests, Send(r)
      PROVE  FirstIsCold' /\ OneCold' /\ SequentialWarm'
  BY <1>1 DEF Send, TypeOK, FlagInv, FirstIsCold, OneCold, SequentialWarm
<1>2. ASSUME NEW r \in Requests, Read(r)
      PROVE  FirstIsCold' /\ OneCold' /\ SequentialWarm'
  <2>1. FirstIsCold'
    BY <1>2 DEF Read, TypeOK, FlagInv, FirstIsCold
  <2>2. OneCold'
    BY <1>2 DEF Read, TypeOK, FlagInv, ExclusiveInv, OneCold
  <2>3. SequentialWarm'
    BY <1>2 DEF Read, TypeOK, FlagInv, SequentialWarm
  <2> QED BY <2>1, <2>2, <2>3
<1>3. CASE UNCHANGED <<handler, inst, response, before>>
  BY <1>3 DEF FirstIsCold, OneCold, SequentialWarm
<1> QED BY <1>1, <1>2, <1>3 DEF Next, Enter, Reset, Finished, vars

-----------------------------------------------------------------------------
LEMMA Invariant == Spec => []IInv
<1>1. IInv /\ [Next]_vars => IInv'
  BY TypeStep, FlagStep, ExclusiveStep, AnswersStep DEF IInv
<1> QED BY InitInv, <1>1, PTL DEF Spec

(* Those inside an instance are the requests between entering and leaving. *)
THEOREM TypeCorrect == Spec => []TypeOK
<1>1. IInv => TypeOK
  BY DEF IInv
<1> QED BY Invariant, <1>1, PTL

(* No instance answers "false" before it has answered somebody "true". *)
THEOREM ColdComesFirst == Spec => []FirstIsCold
<1>1. IInv => FirstIsCold
  BY DEF IInv
<1> QED BY Invariant, <1>1, PTL

(* With a mutex or an event loop an instance reports one cold start. *)
THEOREM OneColdStart == Spec => []OneCold
<1>1. IInv => OneCold
  BY DEF IInv
<1> QED BY Invariant, <1>1, PTL

(* A request sent after an answer of its instance is not told of a cold start. *)
THEOREM WarmAfterAnswer == Spec => []SequentialWarm
<1>1. IInv => SequentialWarm
  BY DEF IInv
<1> QED BY Invariant, <1>1, PTL
=============================================================================
