--------------------------- MODULE GeneratorProofs ---------------------------
(***************************************************************************)
(* The safety of Generator for every number of targets, ramp-up steps,     *)
(* requests and every set of configurations.                               *)
(*                                                                         *)
(* IInv is the inductive invariant. TypeOK needs WgCounts (a counter that  *)
(* counts live goroutines cannot be decremented below zero by one of them) *)
(* and WgCounts needs TypeOK, hence one invariant for both.                *)
(***************************************************************************)
EXTENDS Generator, FiniteSetTheorems, TLAPS

(* Which loop main can be in at which of its control points. *)
ControlInv ==
  /\ phase = "none" <=> pc = "begin"
  /\ pc = "begin" => launched = 0 /\ ~elapsed
  /\ pc = "waiting" => phase \in {"ramp", "run"}
  /\ pc = "launch" => phase \in Loops \ {"cold"}
  /\ pc \in {"send", "sending", "sleep"} => phase = "cold"
  /\ pc = "top" => phase \in {"ramp", "max"}
  /\ pc = "check" => phase # "ramp"
  /\ phase = "ramp" /\ pc \in {"select", "waiting", "launch"} => step < RampSteps
  /\ phase \in {"events", "cold"} => cfg.entry # "Start"

(* Requests are numbered in the order they start; runColdStart has at most one
   under way, and waits for it; a request that is about to end has logged. *)
RequestInv ==
  /\ \A r \in Requests : at[r] = "none" <=> r > launched
  /\ \A r \in Requests : at[r] \in Live /\ kind[r] = "cold" =>
                           pc \in {"sending", "panicked"} /\ r = launched
  /\ \A r \in Requests : at[r] \in {"load", "store", "ended", "done"} => lines[r] # {}
  /\ \A r \in Requests : at[r] \in {"none", "get"} => lines[r] = {} /\ body[r] = "none"
  /\ \A r \in Requests : at[r] = "read" => lines[r] = {}
  /\ \A r \in Requests : body[r] = "open" =>
        at[r] = "read" \/ (at[r] \in {"ended", "done"} /\ kind[r] = "max" /\ lines[r] = {"Failed"})

(* Once Start has returned, nothing is in flight. *)
DrainedInv == pc \in Returned => \A r \in Requests : at[r] \in {"none", "done"}

(* Who has cancelled the context, and where that leaves everybody. *)
CancelInv ==
  /\ pc \in {"stopWait", "drain", "lastWait", "exited"} => cancelled
  /\ stopper # "idle" => cancelled
  /\ ~cancelled => afterCancel = 0
  /\ cancelled /\ stopper = "idle" => pc \in {"stopWait", "drain", "panicked"} \cup Returned
  /\ result = "err" => stopper # "idle"
  /\ stopper = "releasing" => wg = 0
  /\ stopper \in {"woken", "returned"} => wg <= afterCancel
  /\ pc = "panicked" /\ Tickable => stopper \in {"releasing", "woken"} /\ afterCancel > 0

(* Once the counter has reached zero under a waiting Stop, no goroutine that g.wg
   counts is older than the cancellation. *)
OlderInv ==
  stopper \in {"releasing", "woken", "returned"} =>
    \A r \in Requests : r <= launched - afterCancel => r \notin Counted

(* What a round has added to the requests sent after the context was cancelled,
   and after the duration elapsed, together with what it has still to send. *)
OvershootInv ==
  /\ cfg.entry = "Start" =>
       /\ afterCancel <= Targets
       /\ pc = "waiting" => afterCancel = 0
       /\ pc = "launch" => afterCancel + todo <= Targets
  /\ phase = "ramp" => ~elapsed
  /\ elapsed => cfg.bounded
  /\ ~elapsed => afterElapsed = 0
  /\ afterElapsed <= Targets
  /\ pc \in {"top", "select", "waiting"} => afterElapsed = 0
  /\ pc \in {"launch", "send", "sending", "sleep"} => afterElapsed + todo <= Targets

IInv == TypeOK /\ WgCounts /\ ControlInv /\ RequestInv /\ DrainedInv /\ CancelInv /\ OlderInv
          /\ OvershootInv

-----------------------------------------------------------------------------
(* Counting. *)

(* The counted goroutines are finitely many, so wg is a natural number. *)
LEMMA CountedFinite == IsFiniteSet(Counted) /\ Cardinality(Counted) \in Nat
<1>1. IsFiniteSet(Requests)
  BY FS_Interval, MaxRequestsAssumption DEF Requests
<1>2. QED
  BY <1>1, FS_Subset, FS_CardinalityType DEF Counted

(* The counter is zero only when no goroutine is counted. *)
LEMMA ZeroMeansNone ==
  ASSUME WgCounts, wg = 0
  PROVE  Counted = {}
  BY CountedFinite, FS_EmptySet DEF WgCounts

(* One more goroutine is one more in the count. *)
LEMMA CountOneMore ==
  ASSUME NEW r \in Requests, r \notin Counted, Counted' = Counted \cup {r}
  PROVE  Cardinality(Counted') = Cardinality(Counted) + 1
  BY CountedFinite, FS_AddElement

(* A goroutine that ends is one fewer in the count, which was not zero. *)
LEMMA CountOneLess ==
  ASSUME NEW r \in Requests, r \in Counted, Counted' = Counted \ {r}
  PROVE  /\ Cardinality(Counted') = Cardinality(Counted) - 1
         /\ Cardinality(Counted) > 0
<1>1. Cardinality(Counted') = Cardinality(Counted) - 1
  BY CountedFinite, FS_RemoveElement
<1>2. Cardinality(Counted) # 0
  BY CountedFinite, FS_EmptySet
<1>3. QED
  BY <1>1, <1>2, CountedFinite

(* A step of main alone leaves the count as it is. *)
LEMMA SameCount ==
  ASSUME UNCHANGED <<wg, at, kind>>, WgCounts
  PROVE  WgCounts'
<1>1. Counted' = Counted
  BY DEF Counted
<1>2. QED
  BY <1>1 DEF WgCounts

(* Requests that end are counted no more, so what is drained stays so. *)
LEMMA OlderKept ==
  ASSUME IInv, Counted' \subseteq Counted, UNCHANGED <<launched, afterCancel>>,
         stopper' \in {"releasing", "woken", "returned"} =>
           stopper \in {"releasing", "woken", "returned"} \/ Counted' = {}
  PROVE  OlderInv'
  BY DEF IInv, OlderInv, Requests

-----------------------------------------------------------------------------
(* The initial states. *)
LEMMA InitInv == Init => IInv
<1> SUFFICES ASSUME Init PROVE IInv
  OBVIOUS
<1> USE TargetsAssumption, RampStepsAssumption, MaxRequestsAssumption, ConfigsAssumption
<1>1. TypeOK
  <2>1. lines \in [Requests -> SUBSET Outcome]
    BY DEF Init
  <2>2. /\ at \in [Requests -> {"none", "done"} \cup Live]
        /\ kind \in [Requests -> {"none"} \cup Loops]
        /\ body \in [Requests -> {"none", "open", "released"}]
        /\ tmp \in [Requests -> Nat]
    BY DEF Init
  <2>3. /\ cfg \in Configs /\ step \in 0..RampSteps /\ todo \in 0..Targets
        /\ launched \in 0..MaxRequests /\ wg \in Nat /\ requestCount \in Nat
        /\ afterCancel \in Nat /\ afterElapsed \in Nat
    BY DEF Init
  <2>4. QED
    BY <2>1, <2>2, <2>3 DEF Init, TypeOK
<1>2. WgCounts
  <2>1. Counted = {}
    BY DEF Init, Counted, Live
  <2>2. QED
    BY <2>1, FS_EmptySet DEF Init, WgCounts
<1>3. ControlInv /\ RequestInv /\ DrainedInv
  BY DEF Init, ControlInv, RequestInv, DrainedInv, Loops, Live, Returned, Requests
<1>4. CancelInv /\ OlderInv /\ OvershootInv
  BY DEF Init, CancelInv, OlderInv, OvershootInv, Returned
<1>5. QED
  BY <1>1, <1>2, <1>3, <1>4 DEF IInv

-----------------------------------------------------------------------------
(* Steps of main. *)

(* The steps that move main and nothing else. *)
LEMMA MainOnlyInv ==
  ASSUME IInv,
         Begin \/ RampTop \/ RampStepEnds \/ SelectDone \/ SelectTick \/ EventTick
           \/ LimiterGrants \/ LimiterFails \/ MaxTop \/ ColdTick \/ RoundLaunched
           \/ ColdSent \/ ColdSlept \/ CheckDuration \/ WgWait
  PROVE  IInv'
<1> DEFINE Rest == TypeOK /\ ControlInv /\ RequestInv /\ DrainedInv /\ CancelInv /\ OvershootInv
<1>1. WgCounts'
  BY SameCount DEF IInv, MainOnly, reqVars, Begin, RampTop, RampStepEnds, SelectDone,
         SelectTick, EventTick, LimiterGrants, LimiterFails, MaxTop, ColdTick,
         RoundLaunched, ColdSent, ColdSlept, CheckDuration, WgWait
<1>2. OlderInv'
  <2>1. Counted' = Counted /\ UNCHANGED <<launched, afterCancel, stopper>>
    BY DEF Counted, MainOnly, reqVars, ghostVars, Begin, RampTop, RampStepEnds, SelectDone,
           SelectTick, EventTick, LimiterGrants, LimiterFails, MaxTop, ColdTick,
           RoundLaunched, ColdSent, ColdSlept, CheckDuration, WgWait
  <2>2. QED
    BY <2>1, OlderKept
<1>3. Rest'
  <2> USE TargetsAssumption, RampStepsAssumption, MaxRequestsAssumption
      DEF MainOnly, reqVars, ghostVars, IInv, TypeOK, ControlInv, RequestInv, DrainedInv,
          CancelInv, OvershootInv, Returned, Loops, Tickable
  <2>1. CASE Begin
    <3>1. Tickable' => pc' # "panicked"
      BY <2>1 DEF Begin, FirstLoop, SteadyLoop
    <3>2. QED
      BY <2>1, <3>1 DEF Begin, FirstLoop, SteadyLoop
  <2>2. CASE RampTop  BY <2>2 DEF RampTop, LeaveRamp, NextRampStep, SteadyLoop
  <2>3. CASE RampStepEnds  BY <2>3 DEF RampStepEnds
  <2>4. CASE SelectDone  BY <2>4 DEF SelectDone, LeaveRamp, SteadyLoop
  <2>5. CASE SelectTick  BY <2>5 DEF SelectTick
  <2>6. CASE EventTick  BY <2>6 DEF EventTick
  <2>7. CASE LimiterGrants  BY <2>7 DEF LimiterGrants
  <2>8. CASE LimiterFails  BY <2>8 DEF LimiterFails
  <2>9. CASE MaxTop  BY <2>9 DEF MaxTop
  <2>10. CASE ColdTick  BY <2>10 DEF ColdTick
  <2>11. CASE RoundLaunched  BY <2>11 DEF RoundLaunched
  <2>12. CASE ColdSent
    \* the request main waited for has ended, so no cold-start request is under way
    <3>1. \A r \in Requests : ~(at[r] \in Live /\ kind[r] = "cold")
      BY <2>12 DEF ColdSent, Live
    <3>2. QED
      BY <2>12, <3>1 DEF ColdSent
  <2>13. CASE ColdSlept  BY <2>13 DEF ColdSlept
  <2>14. CASE CheckDuration  BY <2>14 DEF CheckDuration
  <2>15. CASE WgWait
    <3>1. \A r \in Requests : at[r] \in {"none", "done"}
      <4>1. Counted = {}
        BY <2>15, ZeroMeansNone DEF WgWait
      <4>2. pc \notin {"sending", "panicked"}
        BY <2>15 DEF WgWait
      <4>3. QED
        BY <4>1, <4>2 DEF Counted
    <3>2. QED
      BY <2>15, <3>1 DEF WgWait
  <2>16. QED
    BY <2>1, <2>2, <2>3, <2>4, <2>5, <2>6, <2>7, <2>8, <2>9, <2>10, <2>11, <2>12,
       <2>13, <2>14, <2>15
<1>4. QED
  BY <1>1, <1>2, <1>3 DEF IInv

(* g.cancel() by main: at the end of the duration, or after Start. *)
LEMMA CancelStepInv ==
  ASSUME IInv, Cancel
  PROVE  IInv'
<1>1. WgCounts'
  BY SameCount DEF IInv, Cancel, reqVars
<1>2. (TypeOK /\ ControlInv /\ RequestInv /\ DrainedInv /\ CancelInv /\ OvershootInv)'
  BY DEF Cancel, reqVars, ghostVars, IInv, TypeOK, ControlInv, RequestInv, DrainedInv,
         CancelInv, OvershootInv, Returned, Loops, Tickable
<1>3. OlderInv'
  <2>1. Counted' = Counted
    BY DEF Cancel, reqVars, Counted
  <2>2. QED
    BY <2>1, OlderKept DEF Cancel, ghostVars
<1>4. QED
  BY <1>1, <1>2, <1>3 DEF IInv

(* wg.Add panics: main does not get to the request. *)
LEMMA LaunchPanicsInv ==
  ASSUME IInv, LaunchPanics
  PROVE  IInv'
<1>1. WgCounts'
  BY SameCount DEF IInv, LaunchPanics, reqVars
<1>2. (TypeOK /\ ControlInv /\ RequestInv /\ DrainedInv /\ CancelInv /\ OvershootInv)'
  BY TargetsAssumption, RampStepsAssumption, MaxRequestsAssumption
     DEF LaunchPanics, reqVars, ghostVars, IInv, TypeOK, ControlInv, RequestInv, DrainedInv,
         CancelInv, OvershootInv, Returned, Loops, Tickable
<1>3. OlderInv'
  <2>1. Counted' = Counted
    BY DEF LaunchPanics, reqVars, Counted
  <2>2. QED
    BY <2>1, MaxRequestsAssumption
       DEF LaunchPanics, IInv, TypeOK, OlderInv, Requests
<1>4. QED
  BY <1>1, <1>2, <1>3 DEF IInv

(* A request starts: main numbers it launched + 1. *)
LEMMA SpawnInv ==
  ASSUME IInv, Launch \/ ColdSend
  PROVE  IInv'
<1> USE TargetsAssumption, RampStepsAssumption, MaxRequestsAssumption
<1> DEFINE r == launched + 1
<1>1. /\ r \in Requests /\ launched' = r
      /\ at[r] = "none" /\ at' = [at EXCEPT ![r] = "get"]
      /\ kind' = [kind EXCEPT ![r] = phase]
      /\ launched \in Nat
  BY DEF IInv, TypeOK, RequestInv, Requests, Launch, ColdSend, Spawn
<1>2. TypeOK'
  <2>1. at' \in [Requests -> {"none", "done"} \cup Live]
    BY <1>1 DEF IInv, TypeOK, Live
  <2>2. kind' \in [Requests -> {"none"} \cup Loops]
    BY <1>1 DEF IInv, TypeOK
  <2>3. launched' \in 0..MaxRequests
    BY <1>1 DEF Requests
  <2>4. UNCHANGED <<cfg, phase, step, result, cancelled, elapsed, lines, body, tmp,
                    requestCount, stopper>>
    BY DEF Launch, ColdSend, Spawn
  <2>5. /\ todo' \in 0..Targets /\ wg' \in Nat
        /\ afterCancel' \in Nat /\ afterElapsed' \in Nat
        /\ pc' \in {"launch", "sending"}
    BY DEF IInv, TypeOK, Launch, ColdSend, Spawn
  <2>6. QED
    BY <2>1, <2>2, <2>3, <2>4, <2>5 DEF IInv, TypeOK
<1>3. WgCounts'
  <2>1. CASE Launch
    <3>1. r \notin Counted /\ Counted' = Counted \cup {r}
      BY <1>1, <2>1 DEF Counted, Live, IInv, TypeOK, ControlInv, Launch, Requests
    <3>2. Cardinality(Counted') = Cardinality(Counted) + 1
      BY <1>1, <3>1, CountOneMore
    <3>3. QED
      BY <2>1, <3>2 DEF Launch, IInv, WgCounts
  <2>2. CASE ColdSend
    <3>1. Counted' = Counted
      BY <1>1, <2>2 DEF Counted, Live, IInv, TypeOK, ControlInv, ColdSend, Requests
    <3>2. QED
      BY <2>2, <3>1 DEF ColdSend, IInv, WgCounts
  <2>3. QED
    BY <2>1, <2>2
<1>4. RequestInv'
  <2>1. lines' = lines /\ body' = body
    BY DEF Launch, ColdSend, Spawn
  <2>2. phase = "cold" => pc' = "sending"
    BY DEF IInv, ControlInv, Launch, ColdSend
  <2>3. /\ at'[r] = "get" /\ kind'[r] = phase
        /\ lines[r] = {} /\ body[r] = "none"
    BY <1>1 DEF IInv, TypeOK, RequestInv
  <2>4. \A q \in Requests \ {r} : at'[q] = at[q] /\ kind'[q] = kind[q]
    BY <1>1 DEF IInv, TypeOK
  <2>5. \A q \in Requests : ~(at[q] \in Live /\ kind[q] = "cold")
    BY DEF IInv, RequestInv, Launch, ColdSend
  <2>6. \A q \in Requests \ {r} : q > launched <=> q > r
    BY <1>1 DEF Requests
  <2>7. QED
    BY <1>1, <2>1, <2>2, <2>3, <2>4, <2>5, <2>6 DEF IInv, RequestInv, Live
<1>5. ControlInv' /\ DrainedInv'
  BY <1>1 DEF IInv, TypeOK, ControlInv, DrainedInv, Launch, ColdSend, Spawn, Loops, Returned
<1>6. CancelInv' /\ OvershootInv'
  BY <1>1 DEF IInv, TypeOK, ControlInv, CancelInv, OvershootInv, Launch, ColdSend, Spawn,
              Loops, Returned, Tickable
<1>7. OlderInv'
  \* a request that starts now is not older than the cancellation
  <2> SUFFICES ASSUME stopper' \in {"releasing", "woken", "returned"},
                      NEW q \in Requests, q <= launched' - afterCancel'
               PROVE  q \notin Counted'
    BY DEF OlderInv, Requests
  <2>1. stopper' = stopper /\ afterCancel' = afterCancel + 1
    BY DEF Launch, ColdSend, Spawn, IInv, CancelInv
  <2>2. q <= launched - afterCancel /\ q # r
    BY <1>1, <2>1 DEF IInv, TypeOK, Requests
  <2>3. q \notin Counted
    BY <2>1, <2>2 DEF IInv, OlderInv
  <2>4. QED
    BY <1>1, <2>2, <2>3 DEF Counted, IInv, TypeOK
<1>8. QED
  BY <1>2, <1>3, <1>4, <1>5, <1>6, <1>7 DEF IInv

-----------------------------------------------------------------------------
(* Steps of requests. *)

(* The steps of a request before its end: it stays counted or uncounted. *)
LEMMA RequestStepInv ==
  ASSUME IInv, NEW r \in Requests,
         Network(r) \/ Report(r) \/ CountLoad(r) \/ CountStore(r) \/ TimeoutReclaims(r)
  PROVE  IInv'
<1>1. UNCHANGED <<cfg, pc, phase, step, todo, result, cancelled, elapsed, wg, launched,
                  kind, stopper, afterCancel, afterElapsed>>
  BY DEF Network, GetFails, GetAnswers, GetAnswersNot200, ReadSucceeds, ReadFails, Report,
         CountLoad, CountStore, TimeoutReclaims, RequestOnly, mainVars, ghostVars
<1>2. /\ at[r] \in Live \/ (at[r] = "done" /\ at' = at)
      /\ at' = at \/ \E v \in Live : at' = [at EXCEPT ![r] = v]
  BY DEF Live, Network, GetFails, GetAnswers, GetAnswersNot200, ReadSucceeds, ReadFails, Report,
         CountLoad, CountStore, TimeoutReclaims
<1>3. WgCounts' /\ OlderInv'
  <2>1. Counted' = Counted
    BY <1>1, <1>2 DEF Counted, IInv, TypeOK, Live
  <2>2. QED
    BY <1>1, <2>1, OlderKept DEF IInv, WgCounts
<1>4. TypeOK'
  <2>1. at' \in [Requests -> {"none", "done"} \cup Live]
    BY <1>2 DEF IInv, TypeOK
  <2>2. lines' \in [Requests -> SUBSET Outcome]
    <3>1. lines' = lines \/ \E l \in Outcome : lines' = [lines EXCEPT ![r] = @ \cup {l}]
      BY DEF Network, GetFails, GetAnswers, GetAnswersNot200, ReadSucceeds, ReadFails, Report,
         CountLoad, CountStore, TimeoutReclaims, Log, Outcome
    <3>2. lines \in [Requests -> SUBSET Outcome]
      BY DEF IInv, TypeOK
    <3>3. QED
      BY <3>1, <3>2
  <2>3. body' \in [Requests -> {"none", "open", "released"}]
    <3>1. body' = body \/ \E v \in {"open", "released"} : body' = [body EXCEPT ![r] = v]
      BY DEF Network, GetFails, GetAnswers, GetAnswersNot200, ReadSucceeds, ReadFails, Report,
         CountLoad, CountStore, TimeoutReclaims
    <3>2. QED
      BY <3>1 DEF IInv, TypeOK
  <2>4. tmp' \in [Requests -> Nat] /\ requestCount' \in Nat
    <3>1. \/ tmp' = tmp /\ requestCount' = requestCount
          \/ tmp' = [tmp EXCEPT ![r] = requestCount] /\ requestCount' = requestCount
          \/ tmp' = tmp /\ requestCount' = tmp[r] + 1
      BY DEF Network, GetFails, GetAnswers, GetAnswersNot200, ReadSucceeds, ReadFails, Report,
         CountLoad, CountStore, TimeoutReclaims
    <3>2. QED
      BY <3>1 DEF IInv, TypeOK
  <2>5. QED
    BY <1>1, <2>1, <2>2, <2>3, <2>4 DEF IInv, TypeOK
<1>5. RequestInv'
  <2> USE DEF IInv, TypeOK, RequestInv, Live
  <2>1. CASE GetFails(r)
    <3>1. at[r] = "get" /\ at'[r] = "ended" /\ lines'[r] # {} /\ body'[r] = "none"
      BY <2>1 DEF GetFails, Log
    <3>2. \A q \in Requests \ {r} : at'[q] = at[q] /\ lines'[q] = lines[q] /\ body'[q] = body[q]
      BY <2>1 DEF GetFails, Log
    <3>3. QED
      BY <1>1, <3>1, <3>2
  <2>2. CASE GetAnswers(r)  BY <1>1, <2>2 DEF GetAnswers
  <2>3. CASE GetAnswersNot200(r)
    <3>1. /\ at[r] = "get" /\ at'[r] = "ended" /\ kind[r] = "max"
          /\ lines'[r] = lines[r] \cup {"Failed"} /\ body'[r] = "open"
      BY <2>3 DEF GetAnswersNot200, Log
    <3>2. lines'[r] = {"Failed"}
      BY <3>1
    <3>3. \A q \in Requests \ {r} : at'[q] = at[q] /\ lines'[q] = lines[q] /\ body'[q] = body[q]
      BY <2>3 DEF GetAnswersNot200, Log
    <3>4. QED
      BY <1>1, <3>1, <3>2, <3>3
  <2>4. CASE ReadSucceeds(r)  BY <1>1, <2>4 DEF ReadSucceeds
  <2>5. CASE ReadFails(r)
    <3>1. /\ at[r] = "read" /\ at'[r] \in {"report", "ended"}
          /\ lines'[r] # {} /\ body'[r] = "released"
      BY <2>5 DEF ReadFails, Log
    <3>2. \A q \in Requests \ {r} : at'[q] = at[q] /\ lines'[q] = lines[q] /\ body'[q] = body[q]
      BY <2>5 DEF ReadFails, Log
    <3>3. QED
      BY <1>1, <3>1, <3>2
  <2>6. CASE Report(r)  BY <1>1, <2>6 DEF Report, Log
  <2>7. CASE CountLoad(r) \/ CountStore(r)  BY <1>1, <2>7 DEF CountLoad, CountStore
  <2>8. CASE TimeoutReclaims(r)  BY <1>1, <2>8 DEF TimeoutReclaims
  <2>9. QED
    BY <2>1, <2>2, <2>3, <2>4, <2>5, <2>6, <2>7, <2>8 DEF Network
<1>6. DrainedInv'
  BY <1>1, <1>2 DEF IInv, TypeOK, DrainedInv, Live
<1>7. ControlInv' /\ CancelInv' /\ OvershootInv'
  BY <1>1 DEF IInv, ControlInv, CancelInv, OvershootInv, Tickable
<1>8. QED
  BY <1>3, <1>4, <1>5, <1>6, <1>7 DEF IInv

(* A request ends; one that g.wg counts is taken off the count. *)
LEMMA EndInv ==
  ASSUME IInv, NEW r \in Requests, End(r)
  PROVE  IInv'
<1> USE DEF RequestOnly, mainVars, ghostVars, IInv
<1>1. CASE kind[r] = "cold"
  <2>1. wg' = wg /\ Counted' = Counted
    BY <1>1 DEF End, Counted, TypeOK, Live
  <2>2. stopper' = stopper \/ (stopper' = "releasing" /\ wg' = 0 /\ Counted' = {})
    BY <2>1, ZeroMeansNone DEF End
  <2>3. OlderInv'
    BY <2>1, <2>2, OlderKept DEF End
  <2>4. QED
    BY <1>1, <2>1, <2>3 DEF End, WgCounts, TypeOK, Live, ControlInv, RequestInv, DrainedInv,
                            CancelInv, OvershootInv, Running, Tickable
<1>2. CASE kind[r] # "cold"
  <2>1. r \in Counted /\ Counted' = Counted \ {r}
    BY <1>2 DEF End, Counted, TypeOK, Live
  <2>2. Cardinality(Counted') = Cardinality(Counted) - 1 /\ Cardinality(Counted) > 0
    BY <2>1, CountOneLess
  <2>3. wg' = wg - 1 /\ wg > 0 /\ wg' = Cardinality(Counted')
    BY <1>2, <2>2 DEF End, WgCounts
  <2>4. TypeOK' /\ WgCounts'
    BY <2>3 DEF End, TypeOK, WgCounts, Live
  <2>5. RequestInv' /\ DrainedInv'
    BY DEF End, TypeOK, RequestInv, DrainedInv, Live
  <2>6. ControlInv' /\ CancelInv' /\ OvershootInv'
    BY <2>3 DEF End, TypeOK, ControlInv, CancelInv, OvershootInv, Running, Tickable
  <2>7. stopper' = stopper \/ (stopper' = "releasing" /\ Counted' = {})
    <3>1. wg' = 0 => Counted' = {}
      BY <2>1, <2>2, <2>3, CountedFinite, FS_RemoveElement, FS_EmptySet
    <3>2. QED
      BY <3>1 DEF End
  <2>8. OlderInv'
    BY <2>1, <2>7, OlderKept DEF End
  <2>9. QED
    BY <2>4, <2>5, <2>6, <2>8
<1>3. QED
  BY <1>1, <1>2

-----------------------------------------------------------------------------
(* Time and the second caller of Stop. *)

(* Before main has begun no request exists. *)
LEMMA BeginHasNone ==
  ASSUME IInv, pc = "begin"
  PROVE  wg = 0
<1>1. Counted = {}
  BY DEF IInv, TypeOK, ControlInv, RequestInv, Counted, Requests, Live
<1>2. wg = Cardinality(Counted)
  BY DEF IInv, WgCounts
<1>3. QED
  BY <1>1, <1>2, FS_EmptySet

(* The steps of the clock and of a second caller of Stop, and stuttering. *)
LEMMA OthersInv ==
  ASSUME IInv, DurationElapses \/ Stopper \/ UNCHANGED vars
  PROVE  IInv'
<1>1. WgCounts'
  BY SameCount DEF IInv, DurationElapses, Stopper, StopperCancels, StopperWaits, Release,
                   StopperWakes, reqVars, vars
<1>2. (TypeOK /\ ControlInv /\ RequestInv /\ DrainedInv /\ CancelInv /\ OvershootInv)'
  <2> USE DEF IInv, TypeOK, ControlInv, RequestInv, DrainedInv, CancelInv, OvershootInv,
              mainVars, reqVars, ghostVars, Loops, Returned, Running, Tickable
  <2>1. CASE DurationElapses  BY <2>1 DEF DurationElapses
  <2>2. CASE StopperCancels  BY <2>2 DEF StopperCancels
  <2>3. CASE StopperWaits  BY <2>3 DEF StopperWaits
  <2>4. CASE StopperWakes
    \* a counter above zero means requests, and main past its beginning
    <3>1. pc = "begin" => wg = 0
      BY BeginHasNone
    <3>2. QED
      BY <2>4, <3>1 DEF StopperWakes
  <2>5. CASE Release  BY <2>5 DEF Release
  <2>6. CASE UNCHANGED vars  BY <2>6 DEF vars
  <2>7. QED
    BY <2>1, <2>2, <2>3, <2>4, <2>5, <2>6 DEF Stopper
<1>3. OlderInv'
  <2>1. Counted' = Counted /\ UNCHANGED <<launched, afterCancel>>
    BY DEF DurationElapses, Stopper, StopperCancels, StopperWaits, Release, StopperWakes,
           Counted, reqVars, ghostVars, vars
  <2>2. stopper' \in {"releasing", "woken", "returned"} =>
          stopper \in {"releasing", "woken", "returned"} \/ Counted = {}
    BY ZeroMeansNone DEF IInv, DurationElapses, Stopper, StopperCancels, StopperWaits, Release,
           StopperWakes, vars
  <2>3. QED
    BY <2>1, <2>2, OlderKept
<1>4. QED
  BY <1>1, <1>2, <1>3 DEF IInv

(* Every step of the generator keeps the invariant. *)
LEMMA NextInv == IInv /\ [Next]_vars => IInv'
<1> SUFFICES ASSUME IInv, [Next]_vars PROVE IInv'
  OBVIOUS
<1>1. CASE Main
  BY <1>1, MainOnlyInv, CancelStepInv, SpawnInv, LaunchPanicsInv DEF Main
<1>2. CASE \E r \in Requests : Request(r)
  <2>1. PICK r \in Requests : Request(r)
    BY <1>2
  <2>2. QED
    BY <2>1, RequestStepInv, EndInv DEF Request
<1>3. CASE DurationElapses \/ Stopper \/ Finished \/ UNCHANGED vars
  BY <1>3, OthersInv DEF Finished
<1>4. QED
  BY <1>1, <1>2, <1>3 DEF Next

(* The inductive invariant holds throughout. *)
THEOREM Invariance == Spec => []IInv
  BY InitInv, NextInv, PTL DEF Spec

-----------------------------------------------------------------------------
(* What follows from it. *)

(* The type invariant; among others, g.wg never goes below zero. *)
THEOREM TypeCorrect == Spec => []TypeOK
<1>1. IInv => TypeOK
  BY DEF IInv
<1>2. QED
  BY <1>1, Invariance, PTL

(* The WaitGroup counts the goroutines under way. *)
THEOREM WgCountsGoroutines == Spec => []WgCounts
<1>1. IInv => WgCounts
  BY DEF IInv
<1>2. QED
  BY <1>1, Invariance, PTL

(* When Start has returned, every request sent has ended and is in the log,
   whoever called Stop and whenever. *)
THEOREM StartReturnsDrained == Spec => []NothingInFlightAfterStart
<1>1. IInv => NothingInFlightAfterStart
  <2> SUFFICES ASSUME IInv, pc \in Returned, NEW r \in 1..launched
               PROVE  at[r] = "done" /\ lines[r] # {}
    BY DEF NothingInFlightAfterStart
  <2>1. r \in Requests /\ at[r] # "none"
    BY MaxRequestsAssumption DEF IInv, TypeOK, RequestInv, Requests
  <2>2. at[r] = "done"
    BY <2>1 DEF IInv, DrainedInv
  <2>3. QED
    BY <2>1, <2>2 DEF IInv, RequestInv
<1>2. QED
  BY <1>1, Invariance, PTL

(* Stop returns to a second caller only when the requests older than the
   cancellation have ended, but for the one that runColdStart, which does not add
   it to the WaitGroup, is waiting for. *)
THEOREM StopReturnsDrained == Spec => []StopDrains
<1>1. IInv => StopDrains
  <2> SUFFICES ASSUME IInv, stopper = "returned", NEW r \in 1..(launched - afterCancel)
               PROVE  at[r] = "done" \/ (kind[r] = "cold" /\ r = launched)
    BY DEF StopDrains
  <2>1. r \in Requests /\ r <= launched - afterCancel /\ r <= launched
    BY MaxRequestsAssumption DEF IInv, TypeOK, Requests
  <2>2. r \notin Counted /\ at[r] # "none"
    BY <2>1, MaxRequestsAssumption DEF IInv, TypeOK, OlderInv, RequestInv, Requests
  <2>3. QED
    BY <2>1, <2>2 DEF IInv, TypeOK, RequestInv, Counted
<1>2. QED
  BY <1>1, Invariance, PTL

(* A cancelled run sends at most one more round. *)
THEOREM CancelOvershootBounded == Spec => []CancelOvershoot
<1>1. IInv => CancelOvershoot
  BY DEF IInv, TypeOK, Config, OvershootInv, CancelOvershoot
<1>2. QED
  BY <1>1, Invariance, PTL

(* At most one round is sent after the duration. *)
THEOREM DurationOvershootBounded == Spec => []DurationOvershoot
<1>1. IInv => DurationOvershoot
  BY DEF IInv, OvershootInv, DurationOvershoot
<1>2. QED
  BY <1>1, Invariance, PTL

(* The generator's own Stop does not make Start fail. *)
THEOREM OwnStopSucceeds == Spec => []OwnStopIsNoError
<1>1. IInv => OwnStopIsNoError
  BY DEF IInv, CancelInv, OwnStopIsNoError
<1>2. QED
  BY <1>1, Invariance, PTL

(* With a rate a ticker can have, a panic is one of the WaitGroup's, and needs both
   a second caller inside its Wait and a request added after the cancellation. *)
THEOREM PanicExplained == Spec => []PanicNeedsLateRequest
<1>1. IInv => PanicNeedsLateRequest
  BY DEF IInv, CancelInv, PanicNeedsLateRequest
<1>2. QED
  BY <1>1, Invariance, PTL

(* Only runMaxThroughput leaves connections behind. *)
THEOREM LeaksExplained == Spec => []LeaksOnlyNot200
<1>1. IInv => LeaksOnlyNot200
  BY DEF IInv, RequestInv, LeaksOnlyNot200
<1>2. QED
  BY <1>1, Invariance, PTL

-----------------------------------------------------------------------------
(* requestCount. *)

(* The requests of run that have finished requestCount++. *)
Stored ==
  {r \in Requests : kind[r] = "run" /\ "Success" \in lines[r] /\ at[r] \in {"ended", "done"}}

(* Neither the counter nor a value of it that a request still holds exceeds the
   number of requests that have finished counting. *)
StoredInv ==
  /\ \A r \in Requests : at[r] \in {"load", "store"} => kind[r] = "run" /\ "Success" \in lines[r]
  /\ requestCount <= Cardinality(Stored)
  /\ \A r \in Requests : at[r] = "store" => tmp[r] <= Cardinality(Stored)

(* The requests that have counted are finitely many. *)
LEMMA StoredFinite == IsFiniteSet(Stored) /\ Cardinality(Stored) \in Nat
<1>1. IsFiniteSet(Requests)
  BY FS_Interval, MaxRequestsAssumption DEF Requests
<1>2. Stored \in SUBSET Requests
  BY DEF Stored
<1>3. QED
  BY <1>1, <1>2, FS_Subset, FS_CardinalityType

(* While the requests that have counted only become more, what was at most their
   number stays so. *)
LEMMA StoredGrows ==
  ASSUME IInv, StoredInv, Stored \subseteq Stored', requestCount' = requestCount,
         \A r \in Requests : at'[r] \in {"load", "store"} => kind'[r] = "run" /\ "Success" \in lines'[r],
         \A r \in Requests : at'[r] = "store" =>
           (at[r] = "store" /\ tmp'[r] = tmp[r]) \/ tmp'[r] = requestCount
  PROVE  StoredInv'
<1>1. IsFiniteSet(Stored') /\ Cardinality(Stored') \in Nat
  <2>1. IsFiniteSet(Requests') /\ Stored' \in SUBSET Requests'
    BY FS_Interval, MaxRequestsAssumption DEF Requests, Stored
  <2>2. QED
    BY <2>1, FS_Subset, FS_CardinalityType
<1>2. Cardinality(Stored) <= Cardinality(Stored')
  BY <1>1, FS_Subset
<1>3. requestCount \in Nat /\ \A r \in Requests : tmp[r] \in Nat
  BY DEF IInv, TypeOK
<1>4. QED
  BY <1>1, <1>2, <1>3, StoredFinite DEF StoredInv

(* A store writes one more than a number of requests that had counted, and adds
   the request to them: what other requests stored in between is only lost. *)
LEMMA StoredInvStep ==
  ASSUME IInv, StoredInv, [Next]_vars
  PROVE  StoredInv'
<1>1. CASE UNCHANGED <<reqVars, requestCount>>
  BY <1>1 DEF reqVars, StoredInv, Stored
<1>2. CASE Launch \/ ColdSend
  <2> DEFINE r == launched + 1
  <2>1. /\ r \in Requests /\ at[r] = "none" /\ at' = [at EXCEPT ![r] = "get"]
        /\ kind' = [kind EXCEPT ![r] = phase] /\ UNCHANGED <<lines, tmp, requestCount>>
    BY <1>2, MaxRequestsAssumption
       DEF IInv, TypeOK, RequestInv, Requests, Launch, ColdSend, Spawn
  <2> HIDE DEF r
  <2>2. \A q \in Requests \ {r} : at'[q] = at[q] /\ kind'[q] = kind[q]
    BY <2>1 DEF IInv, TypeOK
  <2>3. at'[r] = "get"
    BY <2>1 DEF IInv, TypeOK
  <2>4. Stored \subseteq Stored'
    BY <2>1, <2>2 DEF Stored
  <2>5. QED
    BY <2>1, <2>2, <2>3, <2>4, StoredGrows DEF StoredInv
<1>3. ASSUME NEW r \in Requests, CountStore(r) PROVE StoredInv'
  <2>1. /\ at[r] = "store" /\ at' = [at EXCEPT ![r] = "ended"]
        /\ requestCount' = tmp[r] + 1 /\ UNCHANGED <<kind, lines, tmp>>
    BY <1>3 DEF CountStore
  <2>2. kind[r] = "run" /\ "Success" \in lines[r] /\ r \notin Stored
    BY <2>1 DEF StoredInv, Stored
  <2>3. Stored' = Stored \cup {r}
    BY <2>1, <2>2 DEF Stored, IInv, TypeOK
  <2>4. Cardinality(Stored') = Cardinality(Stored) + 1
    BY <2>2, <2>3, StoredFinite, FS_AddElement
  <2>5. \A q \in Requests : at'[q] \in {"load", "store"} => at[q] = at'[q]
    BY <2>1 DEF IInv, TypeOK
  <2>6. tmp[r] <= Cardinality(Stored) /\ \A q \in Requests : tmp[q] \in Nat
    BY <2>1 DEF StoredInv, IInv, TypeOK
  <2>7. requestCount' <= Cardinality(Stored')
    BY <2>1, <2>4, <2>6, StoredFinite
  <2>8. \A q \in Requests : at'[q] = "store" => tmp'[q] <= Cardinality(Stored')
    BY <2>1, <2>4, <2>5, <2>6, StoredFinite DEF StoredInv
  <2>9. QED
    BY <2>1, <2>5, <2>7, <2>8 DEF StoredInv
<1>4. ASSUME NEW r \in Requests,
             Network(r) \/ Report(r) \/ CountLoad(r) \/ End(r) \/ TimeoutReclaims(r)
      PROVE  StoredInv'
  <2>1. kind' = kind /\ requestCount' = requestCount
    BY <1>4 DEF Network, GetFails, GetAnswers, GetAnswersNot200, ReadSucceeds, ReadFails, Report,
         CountLoad, End, TimeoutReclaims
  <2>2. \A q \in Requests \ {r} : at'[q] = at[q] /\ lines'[q] = lines[q] /\ tmp'[q] = tmp[q]
    BY <1>4 DEF Network, GetFails, GetAnswers, GetAnswersNot200, ReadSucceeds, ReadFails, Report,
         CountLoad, End, TimeoutReclaims, Log, IInv, TypeOK
  <2>3. lines[r] \subseteq lines'[r]
    <3>1. lines' = lines \/ \E l \in Outcome : lines' = [lines EXCEPT ![r] = @ \cup {l}]
      BY <1>4 DEF Network, GetFails, GetAnswers, GetAnswersNot200, ReadSucceeds, ReadFails,
         Report, CountLoad, End, TimeoutReclaims, Log, Outcome
    <3>2. lines \in [Requests -> SUBSET Outcome]
      BY DEF IInv, TypeOK
    <3>3. QED
      BY <3>1, <3>2
  <2>4. at[r] \in {"ended", "done"} => at'[r] \in {"ended", "done"}
    BY <1>4 DEF Network, GetFails, GetAnswers, GetAnswersNot200, ReadSucceeds, ReadFails, Report,
         CountLoad, End, TimeoutReclaims, IInv, TypeOK
  <2>5. at'[r] \in {"load", "store"} =>
          /\ kind[r] = "run" /\ "Success" \in lines'[r]
          /\ at'[r] = "store" => tmp'[r] = requestCount
    <3>1. CASE Report(r)
      <4>1. lines'[r] = lines[r] \cup {"Success"}
        BY <3>1 DEF Report, Log, IInv, TypeOK
      <4>2. at'[r] = IF kind[r] = "run" THEN "load" ELSE "ended"
        BY <3>1 DEF Report, IInv, TypeOK
      <4>3. QED
        BY <4>1, <4>2
    <3>2. CASE CountLoad(r)
      <4>1. at[r] = "load" /\ lines' = lines /\ tmp' = [tmp EXCEPT ![r] = requestCount]
        BY <3>2 DEF CountLoad
      <4>2. tmp'[r] = requestCount
        BY <4>1 DEF IInv, TypeOK
      <4>3. QED
        BY <4>1, <4>2 DEF StoredInv
    <3>3. CASE Network(r) \/ End(r) \/ TimeoutReclaims(r)
      <4>1. at'[r] \notin {"load", "store"}
        BY <3>3 DEF Network, GetFails, GetAnswers, GetAnswersNot200, ReadSucceeds, ReadFails,
           End, TimeoutReclaims, IInv, TypeOK
      <4>2. QED
        BY <4>1
    <3>4. QED
      BY <1>4, <3>1, <3>2, <3>3
  <2>6. Stored \subseteq Stored'
    BY <2>1, <2>2, <2>3, <2>4 DEF Stored
  <2>7. \A q \in Requests : at'[q] \in {"load", "store"} => kind'[q] = "run" /\ "Success" \in lines'[q]
    BY <2>1, <2>2, <2>5 DEF StoredInv
  <2>8. QED
    BY <2>1, <2>2, <2>5, <2>6, <2>7, StoredGrows
<1>5. CASE Main /\ ~Launch /\ ~ColdSend
  BY <1>1, <1>5 DEF Main, MainOnly, Begin, RampTop, RampStepEnds, SelectDone, SelectTick,
     EventTick, LimiterGrants, LimiterFails, MaxTop, ColdTick, LaunchPanics, RoundLaunched,
     ColdSent, ColdSlept, CheckDuration, Cancel, WgWait
<1>6. CASE DurationElapses \/ Stopper \/ Finished \/ UNCHANGED vars
  BY <1>1, <1>6 DEF DurationElapses, Stopper, StopperCancels, StopperWaits, Release,
     StopperWakes, Finished, vars
<1>7. QED
  BY <1>2, <1>3, <1>4, <1>5, <1>6 DEF Next, Request

(* The counter never exceeds the successes run has logged, however its
   unsynchronised increments interleave. *)
THEOREM CountIsLowerBound == Spec => []CountNeverExceeds
<1>1. Init => StoredInv
  <2> SUFFICES ASSUME Init PROVE StoredInv
    OBVIOUS
  <2>1. Stored = {}
    BY DEF Init, Stored
  <2>2. QED
    BY <2>1, FS_EmptySet DEF Init, StoredInv
<1>2. IInv /\ StoredInv => CountNeverExceeds
  <2> SUFFICES ASSUME IInv, StoredInv PROVE CountNeverExceeds
    OBVIOUS
  <2> DEFINE Logged == {r \in Requests : kind[r] = "run" /\ "Success" \in lines[r]}
  <2>1. IsFiniteSet(Logged) /\ Cardinality(Logged) \in Nat /\ Stored \in SUBSET Logged
    <3>1. IsFiniteSet(Requests) /\ Logged \in SUBSET Requests
      BY FS_Interval, MaxRequestsAssumption DEF Requests
    <3>2. QED
      BY <3>1, FS_Subset, FS_CardinalityType DEF Stored
  <2> HIDE DEF Logged
  <2>2. Cardinality(Stored) <= Cardinality(Logged)
    BY <2>1, FS_Subset
  <2>3. requestCount <= Cardinality(Logged)
    BY <2>1, <2>2, StoredFinite DEF StoredInv, IInv, TypeOK
  <2>4. QED
    BY <2>3 DEF CountNeverExceeds, Logged
<1>3. QED
  BY <1>1, <1>2, Invariance, StoredInvStep, PTL DEF Spec

-----------------------------------------------------------------------------
(* The generator keeps the promise of LoadRun. *)

(* The requests answered are among those launched; while one of these is not
   answered, the two numbers differ. *)
LEMMA AnsweredCount ==
  ASSUME IInv
  PROVE  /\ IsFiniteSet(Answered) /\ Answered \subseteq 1..launched
         /\ Cardinality(Answered) \in Nat
         /\ Cardinality(Answered) <= launched
         /\ Cardinality(Answered) = launched <=> Answered = 1..launched
<1>1. launched \in Nat /\ Answered \subseteq 1..launched
  BY MaxRequestsAssumption DEF IInv, TypeOK, RequestInv, Answered, Requests
<1>2. IsFiniteSet(1..launched) /\ Cardinality(1..launched) = launched
  BY <1>1, FS_Interval
<1>3. QED
  BY <1>1, <1>2, FS_Subset, FS_CardinalityType

(* The number of requests answered stays the same unless one ends. *)
LEMMA SameAnswered ==
  ASSUME Answered' = Answered
  PROVE  Cardinality(Answered)' = Cardinality(Answered)
  OBVIOUS

(* A request that ends is one more answered. *)
LEMMA AnsweredOneMore ==
  ASSUME IInv, NEW r \in Requests, End(r)
  PROVE  /\ Cardinality(Answered)' = Cardinality(Answered) + 1
         /\ Cardinality(Answered) < launched
<1>1. r \notin Answered /\ Answered' = Answered \cup {r}
  BY DEF IInv, TypeOK, End, Answered
<1>2. Cardinality(Answered') = Cardinality(Answered) + 1
  BY <1>1, AnsweredCount, FS_AddElement
<1>3. r \in 1..launched
  BY MaxRequestsAssumption DEF IInv, TypeOK, RequestInv, End, Requests
<1>4. Cardinality(Answered) # launched
  BY <1>1, <1>3, AnsweredCount
<1>5. QED
  BY <1>2, <1>4, AnsweredCount DEF IInv, TypeOK

(* A round, a cancellation, the end of a request and the return of Start are
   steps of the promise; every other step changes nothing its caller sees. *)
LEMMA StepsKeepPromise ==
  ASSUME IInv, [Next]_vars
  PROVE  [Promise!Next]_(Promise!vars)
<1> DEFINE Seen == UNCHANGED <<launched, at>>
<1>1. ASSUME Seen PROVE Cardinality(Answered)' = Cardinality(Answered)
  BY <1>1 DEF Answered
<1>2. CASE Begin \/ RampTop \/ SelectDone \/ LaunchPanics
  <2>1. /\ Seen /\ cancelled' = cancelled
        /\ pc \in {"begin", "top", "select", "launch"}
        /\ pc' \in {"panicked", "top", "select", "drain"}
    BY <1>2 DEF Begin, RampTop, SelectDone, LaunchPanics, LeaveRamp, NextRampStep, MainOnly,
                reqVars
  <2>2. RunStatus' = RunStatus \/ (RunStatus \in {"open", "closing"} /\ RunStatus' = "broken")
    BY <2>1 DEF RunStatus, Returned
  <2>3. QED
    BY <1>1, <2>1, <2>2 DEF Promise!Next, Promise!Break, Promise!vars
<1>3. CASE WgWait
  <2>1. Seen /\ cancelled' = cancelled
    BY <1>3 DEF WgWait, MainOnly, reqVars
  <2>2. CASE pc = "drain"
    <3>1. RunStatus = "closing" /\ RunStatus' = "closed"
      BY <1>3, <2>2 DEF WgWait, IInv, CancelInv, RunStatus, Returned
    <3>2. Answered = 1..launched
      <4>1. Counted = {}
        BY <1>3, ZeroMeansNone DEF WgWait, IInv
      <4>2. \A r \in Requests : at[r] \in {"none", "done"}
        BY <2>2, <4>1 DEF IInv, TypeOK, RequestInv, Counted
      <4>3. launched \in 0..MaxRequests
        BY DEF IInv, TypeOK
      <4>4. \A r \in Requests : at[r] = "none" <=> r > launched
        BY DEF IInv, RequestInv
      <4>5. QED
        BY <4>2, <4>3, <4>4, MaxRequestsAssumption DEF Requests, Answered
    <3>3. QED
      BY <1>1, <2>1, <3>1, <3>2, AnsweredCount DEF Promise!Next, Promise!Close
  <2>3. CASE pc # "drain"
    <3>1. RunStatus' = RunStatus
      BY <1>3, <2>1, <2>3 DEF WgWait, RunStatus, Returned
    <3>2. QED
      BY <1>1, <2>1, <3>1 DEF Promise!vars
  <2>4. QED
    BY <2>2, <2>3
<1>4. CASE Cancel \/ StopperCancels
  <2>1. Seen
    BY <1>4 DEF Cancel, StopperCancels, reqVars
  <2>2. RunStatus' = RunStatus \/ (RunStatus = "open" /\ RunStatus' = "closing")
    BY <1>4 DEF Cancel, StopperCancels, Running, mainVars, RunStatus, Returned
  <2>3. QED
    BY <1>1, <2>1, <2>2 DEF Promise!Next, Promise!RequestClose, Promise!vars
<1>5. CASE Launch \/ ColdSend
  <2>1. RunStatus' = RunStatus /\ RunStatus \in {"open", "closing"}
    BY <1>5 DEF Launch, ColdSend, Spawn, RunStatus, Returned
  <2>2. launched' = launched + 1
    BY <1>5 DEF Launch, ColdSend, Spawn
  <2>3. Answered' = Answered
    <3>1. at[launched + 1] = "none" /\ at' = [at EXCEPT ![launched + 1] = "get"]
      BY <1>5, MaxRequestsAssumption
         DEF Launch, ColdSend, Spawn, IInv, TypeOK, RequestInv, Requests
    <3>2. QED
      BY <3>1 DEF Answered, IInv, TypeOK
  <2>4. QED
    BY <2>1, <2>2, <2>3 DEF Promise!Next, Promise!Send
<1>6. CASE \E r \in Requests : Request(r)
  <2>1. PICK r \in Requests : Request(r)
    BY <1>6
  <2>2. UNCHANGED <<pc, cancelled, launched>> /\ RunStatus' = RunStatus
    <3>1. RequestOnly
      BY <2>1 DEF Request, Network, GetFails, GetAnswers, GetAnswersNot200, ReadSucceeds,
           ReadFails, Report, CountLoad, CountStore, End, TimeoutReclaims
    <3>2. QED
      BY <3>1 DEF RequestOnly, mainVars, RunStatus
  <2>3. CASE End(r)
    <3>1. pc \notin Returned /\ pc # "panicked"
      BY <2>3 DEF End, Running, IInv, DrainedInv
    <3>2. RunStatus \in {"open", "closing"}
      BY <3>1 DEF RunStatus
    <3>3. QED
      BY <2>2, <2>3, <3>2, AnsweredOneMore DEF Promise!Next, Promise!Answer
  <2>4. CASE ~End(r)
    <3>1. at' = at \/ (at[r] # "done" /\ \E v \in Live : at' = [at EXCEPT ![r] = v])
      BY <2>1, <2>4 DEF Request, Network, GetFails, GetAnswers, GetAnswersNot200,
         ReadSucceeds, ReadFails, Report, CountLoad, CountStore, TimeoutReclaims, Live
    <3>2. Answered' = Answered
      BY <3>1 DEF Answered, IInv, TypeOK, Live
    <3>3. QED
      BY <2>2, <3>2 DEF Promise!vars
  <2>5. QED
    BY <2>3, <2>4
<1>7. CASE StopperWakes
  <2>1. Seen /\ cancelled' = cancelled
    BY <1>7 DEF StopperWakes, reqVars
  <2>2. pc' = pc \/ (wg > 0 /\ Running /\ pc' = "panicked")
    BY <1>7 DEF StopperWakes
  <2>3. wg > 0 => pc \notin Returned
    <3>1. pc \in Returned => Counted = {}
      BY DEF IInv, DrainedInv, Counted, Live
    <3>2. QED
      BY <3>1, FS_EmptySet DEF IInv, WgCounts
  <2>4. RunStatus' = RunStatus \/ (RunStatus \in {"open", "closing"} /\ RunStatus' = "broken")
    BY <2>1, <2>2, <2>3 DEF RunStatus, Running, Returned
  <2>5. QED
    BY <1>1, <2>1, <2>4 DEF Promise!Next, Promise!Break, Promise!vars
<1>8. CASE \/ RampStepEnds \/ SelectTick \/ EventTick
           \/ LimiterGrants \/ LimiterFails \/ MaxTop \/ ColdTick \/ RoundLaunched
           \/ ColdSent \/ ColdSlept \/ CheckDuration
  <2>1. Seen /\ cancelled' = cancelled
    BY <1>8 DEF RampStepEnds, SelectTick, EventTick, LimiterGrants,
         LimiterFails, MaxTop, ColdTick, RoundLaunched, ColdSent, ColdSlept,
         CheckDuration, MainOnly, reqVars
  <2>2. {pc, pc'} \cap (Returned \cup {"panicked"}) = {}
    BY <1>8 DEF RampStepEnds, SelectTick, EventTick, LimiterGrants,
         LimiterFails, MaxTop, ColdTick, RoundLaunched, ColdSent, ColdSlept,
         CheckDuration, Returned
  <2>3. QED
    BY <1>1, <2>1, <2>2 DEF RunStatus, Promise!vars
<1>9. CASE DurationElapses \/ StopperWaits \/ Release \/ Finished \/ UNCHANGED vars
  <2>1. Seen /\ cancelled' = cancelled /\ pc' = pc
    BY <1>9 DEF DurationElapses, StopperWaits, Release, Finished, vars, mainVars, reqVars
  <2>2. QED
    BY <1>1, <2>1 DEF RunStatus, Promise!vars
<1>10. QED
  BY <1>2, <1>3, <1>4, <1>5, <1>6, <1>7, <1>8, <1>9 DEF Next, Main, Stopper

(* The generator implements LoadRun. *)
THEOREM KeepsPromise == Spec => PromiseKept
<1>1. Init => Promise!Init
  <2> SUFFICES ASSUME Init PROVE Promise!Init
    OBVIOUS
  <2>1. Answered = {}
    BY DEF Init, Answered
  <2>2. QED
    BY <2>1, FS_EmptySet DEF Init, Promise!Init, RunStatus, Returned
<1>2. QED
  BY <1>1, Invariance, StepsKeepPromise, PTL DEF Spec, PromiseKept, Promise!Spec
=============================================================================
