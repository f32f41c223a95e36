--------------------------- MODULE DeployerProofs ---------------------------
(* Theorems about Deployer, for any shells, objects, values and calls. *)
EXTENDS Deployer, SequenceTheorems, TLAPS

Targeted(s) == call[s].verb # "none" => call[s].keys # <<>> /\ Current(s) \in Keys

LEMMA CurrentIsKey == TypeOK => \A s \in Shells : Targeted(s)
  BY HeadTailProperties DEF TypeOK, Call, Current, Targeted

LEMMA UnsetIsSettings == Unset \in Settings /\ NoCall \in Call
  BY ValuesAssumption, EmptySeq DEF Unset, Settings, NoCall, Call

LEMMA ShorterTail ==
  ASSUME NEW S, NEW q \in Seq(S), q # <<>>, Len(q) # 1
  PROVE  Tail(q) # <<>>
<1>1. Len(Tail(q)) = Len(q) - 1 /\ Len(q) \in Nat
  BY HeadTailProperties, LenProperties
<1>2. Len(Tail(q)) # 0
  BY <1>1
<1> QED
  BY <1>2, EmptySeq

(* What is left of a call after one of its objects. *)
LEMMA ProceedTypes ==
  ASSUME TypeOK, NEW s \in Shells, call[s].verb # "none", Proceed(s)
  PROVE  /\ call' \in [Shells -> Call]
         /\ \A t \in Shells : call'[t].verb # "none" => call'[t].keys # <<>>
         /\ got' = got
<1>1. call[s] \in Call /\ call[s].keys \in Seq(Keys) /\ call[s].keys # <<>>
  BY DEF TypeOK, Call
<1>2. Tail(call[s].keys) \in Seq(Keys)
  BY <1>1, HeadTailProperties
<1>3. Len(call[s].keys) # 1 => Tail(call[s].keys) # <<>>
  BY <1>1, ShorterTail
<1>4. [call[s] EXCEPT !.keys = Tail(@)] \in Call
  BY <1>1, <1>2 DEF Call
<1>5. /\ [call[s] EXCEPT !.keys = Tail(@)].keys = Tail(call[s].keys)
      /\ NoCall.verb = "none"
  BY <1>1 DEF Call, NoCall
<1>6. Rest(call[s]) \in Call /\ (Rest(call[s]).verb # "none" => Rest(call[s]).keys # <<>>)
  <2>1. CASE Len(call[s].keys) = 1
    BY <2>1, <1>5, UnsetIsSettings DEF Rest
  <2>2. CASE Len(call[s].keys) # 1
    BY <2>2, <1>3, <1>4, <1>5 DEF Rest
  <2> QED
    BY <2>1, <2>2
<1> QED
  BY <1>6 DEF TypeOK, Proceed

LEMMA ReturnTypes ==
  ASSUME TypeOK, NEW s \in Shells, Return(s)
  PROVE  /\ call' \in [Shells -> Call]
         /\ \A t \in Shells : call'[t].verb # "none" => call'[t].keys # <<>>
         /\ got' \in [Shells -> Settings]
<1>1. NoCall.verb = "none"
  BY DEF NoCall
<1> QED
  BY <1>1, UnsetIsSettings DEF TypeOK, Return

LEMMA SkipTypes ==
  ASSUME TypeOK, NEW s \in Shells, call[s].verb # "none", Skip(s)
  PROVE  /\ call' \in [Shells -> Call]
         /\ \A t \in Shells : call'[t].verb # "none" => call'[t].keys # <<>>
         /\ got' \in [Shells -> Settings]
  BY ProceedTypes, ReturnTypes DEF Skip, TypeOK

LEMMA TroubleTypes ==
  ASSUME TypeOK, NEW k \in Keys, Trouble(k)
  PROVE  troubled' \subseteq Kinds \cup {"ConfigMap"}
  BY KeysAssumption DEF TypeOK, Trouble

LEMMA MergeTypes ==
  ASSUME NEW sets \in Settings, NEW old \in Settings
  PROVE  Merge(sets, old) \in Settings
  BY DEF Merge, Settings

LEMMA OutdatesTypes == TypeOK => \A k : Outdates(k) => stale' \in [Shells -> BOOLEAN]
  BY DEF TypeOK, Outdates

LEMMA RequestsKeepTypes ==
  ASSUME TypeOK, NEW s \in Shells, Requests(s) PROVE TypeOK'
<1> DEFINE k == Current(s)
<1>1. call[s].verb # "none" => k \in Keys
  BY CurrentIsKey DEF Targeted
<1>2. call[s].sets \in Settings
  BY DEF TypeOK, Call
<1>3. CASE Create(s)
  BY <1>1, <1>2, <1>3, ProceedTypes, OutdatesTypes DEF Create, TypeOK, objects
<1>4. CASE CreateRefused(s)
  BY <1>1, <1>4, SkipTypes, TroubleTypes DEF CreateRefused, TypeOK, objects
<1>5. CASE Delete(s)
  BY <1>1, <1>5, ProceedTypes, OutdatesTypes DEF Delete, TypeOK, objects
<1>6. CASE Get(s)
  <2>1. [call[s] EXCEPT !.verb = "update"] \in Call
    BY DEF TypeOK, Call
  <2>2. call' \in [Shells -> Call] /\ \A t \in Shells : call'[t].keys = call[t].keys
    BY <1>6, <2>1 DEF Get, TypeOK, Call
  <2>3. \A t \in Shells : call'[t].verb # "none" => call[t].verb # "none"
    BY <1>6, <2>1 DEF Get, TypeOK, Call
  <2> QED
    BY <1>1, <1>6, <2>2, <2>3 DEF Get, TypeOK, objects
<1>7. CASE NotFound(s)
  BY <1>1, <1>7, SkipTypes, TroubleTypes DEF NotFound, TypeOK, objects
<1>8. CASE Update(s)
  <2>1. Merge(call[s].sets, got[s]) \in Settings /\ Merge(call[s].sets, asked[k]) \in Settings
    BY <1>1, <1>2, <1>8, MergeTypes DEF TypeOK, Update
  <2> QED
    BY <1>1, <1>8, <2>1, ReturnTypes, OutdatesTypes DEF Update, TypeOK
<1>9. CASE Conflict(s)
  BY <1>1, <1>9, ReturnTypes, TroubleTypes DEF Conflict, TypeOK, objects
<1>10. CASE RequestFails(s)
  <2>1. failures' \in 0..MaxFailures
    BY <1>10, MaxFailuresAssumption DEF RequestFails, TypeOK
  <2> QED
    BY <1>1, <1>10, <2>1, SkipTypes, TroubleTypes DEF RequestFails, TypeOK, objects
<1> QED
  BY <1>3, <1>4, <1>5, <1>6, <1>7, <1>8, <1>9, <1>10 DEF Requests

LEMMA OthersKeepTypes ==
  ASSUME TypeOK, NEW k \in Keys,
         Touched(k) \/ Removed(k)
           \/ \E f \in Fields, v \in Values : KubectlPatch(k, f, v)
  PROVE  TypeOK'
<1>1. CASE Touched(k)
  BY <1>1, OutdatesTypes DEF Touched, Others, TypeOK, objects
<1>2. CASE Removed(k)
  BY <1>2, OutdatesTypes DEF Removed, Others, TypeOK
<1>3. ASSUME NEW f \in Fields, NEW v \in Values, KubectlPatch(k, f, v) PROVE TypeOK'
  BY <1>3, OutdatesTypes DEF KubectlPatch, Others, TypeOK, Settings
<1> QED
  BY <1>1, <1>2, <1>3

LEMMA TypeOKNext == TypeOK /\ [Next]_vars => TypeOK'
<1> SUFFICES ASSUME TypeOK, [Next]_vars PROVE TypeOK'
  OBVIOUS
<1>1. ASSUME NEW s \in Shells, Requests(s) PROVE TypeOK'
  BY <1>1, RequestsKeepTypes
<1>2. CASE FailsElsewhere /\ Told
  BY <1>2, MaxFailuresAssumption DEF FailsElsewhere, Told, TypeOK, objects
<1>3. ASSUME NEW s \in Shells, Interrupted(s), Told PROVE TypeOK'
  BY <1>3, ReturnTypes DEF Interrupted, Told, TypeOK, objects
<1>4. ASSUME NEW s \in Shells, NEW c \in Calls, Start(s, c), Told PROVE TypeOK'
  BY <1>4 DEF Start, Told, Calls, TypeOK, objects
<1>5. CASE Controllers
  BY <1>5, OthersKeepTypes DEF Controllers
<1>6. CASE \E k \in Keys, f \in Fields, v \in Values : KubectlPatch(k, f, v)
  BY <1>6, OthersKeepTypes
<1>7. CASE UNCHANGED vars
  BY <1>7 DEF vars, TypeOK, objects
<1> QED
  BY <1>1, <1>2, <1>3, <1>4, <1>5, <1>6, <1>7 DEF Next

LEMMA TypeOKInit == Init => TypeOK
<1> SUFFICES ASSUME Init PROVE TypeOK
  OBVIOUS
<1>1. createKnativeService \in Settings
  BY UnsetIsSettings, ValuesAssumption DEF createKnativeService, Settings
<1>2. NoCall.verb = "none"
  BY DEF NoCall
<1> QED
  BY <1>1, <1>2, UnsetIsSettings, MaxFailuresAssumption DEF Init, TypeOK

(* The type invariant holds whatever calls are made and whoever else changes the
   cluster. *)
THEOREM TypeCorrect == Spec => []TypeOK
  BY TypeOKInit, TypeOKNext, PTL DEF Spec

-----------------------------------------------------------------------------
(* Copies and what they are written back over. *)

(* What a deployer has read is what there is, unless it will be refused. *)
FreshCopy ==
  \A s \in Shells :
    call[s].verb = "update" /\ ~stale[s] =>
      phase[Current(s)] # "absent" /\ got[s] = settings[Current(s)]

PatchInv == TypeOK /\ FreshCopy /\ PatchesHold

LEMMA StillFresh ==
  ASSUME NEW k, Outdates(k), NEW t \in Shells, ~stale'[t], call[t].verb = "update"
  PROVE  ~stale[t] /\ Current(t) # k
  BY DEF Outdates

LEMMA FreshCopyNext == PatchInv /\ [Next]_vars => FreshCopy'
<1> SUFFICES ASSUME PatchInv, [Next]_vars PROVE FreshCopy'
  OBVIOUS
<1> USE DEF PatchInv, FreshCopy, Current
<1>t. TypeOK /\ TypeOK'
  BY TypeOKNext
<1>n. NoCall.verb = "none" /\ \A c : Rest(c).verb = "none" \/ Rest(c).verb = c.verb
  BY DEF NoCall, Rest
<1>1. ASSUME NEW s \in Shells, Requests(s) PROVE FreshCopy'
  <2> SUFFICES ASSUME NEW t \in Shells, call'[t].verb = "update", ~stale'[t]
               PROVE  /\ phase'[Head(call'[t].keys)] # "absent"
                      /\ got'[t] = settings'[Head(call'[t].keys)]
    OBVIOUS
  <2>1. CASE Create(s) \/ Delete(s)
    <3>1. call[t].verb = "update" /\ call'[t] = call[t] /\ t # s
      BY <2>1, <1>t, <1>n DEF Create, Delete, Proceed, TypeOK
    <3>2. ~stale[t] /\ Current(t) # Current(s) /\ Current(t) \in Keys
      BY <2>1, <3>1, <1>t, StillFresh, CurrentIsKey DEF Create, Delete, Targeted
    <3> QED
      BY <2>1, <3>1, <3>2, <1>t DEF Create, Delete, Proceed, TypeOK
  <2>2. CASE CreateRefused(s) \/ NotFound(s) \/ RequestFails(s)
    BY <2>2, <1>t, <1>n DEF CreateRefused, NotFound, RequestFails, Skip, Proceed, Return,
       objects, TypeOK
  <2>3. CASE Get(s)
    BY <2>3, <1>t DEF Get, objects, TypeOK
  <2>4. CASE Update(s)
    <3>1. call[t].verb = "update" /\ call'[t] = call[t] /\ t # s
      BY <2>4, <1>t, <1>n DEF Update, Return, TypeOK
    <3>2. ~stale[t] /\ Current(t) # Current(s) /\ Current(t) \in Keys
      BY <2>4, <3>1, <1>t, StillFresh, CurrentIsKey DEF Update, Targeted
    <3> QED
      BY <2>4, <3>1, <3>2, <1>t DEF Update, Return, TypeOK
  <2>5. CASE Conflict(s)
    BY <2>5, <1>t, <1>n DEF Conflict, Return, objects, TypeOK
  <2> QED
    BY <1>1, <2>1, <2>2, <2>3, <2>4, <2>5 DEF Requests
<1>2. CASE FailsElsewhere \/ UNCHANGED vars
  BY <1>2 DEF FailsElsewhere, objects, vars
<1>3. ASSUME NEW s \in Shells, Interrupted(s) PROVE FreshCopy'
  BY <1>3, <1>t, <1>n DEF Interrupted, Return, objects, TypeOK
<1>4. ASSUME NEW s \in Shells, NEW c \in Calls, Start(s, c) PROVE FreshCopy'
  BY <1>4, <1>t DEF Start, Calls, objects, TypeOK
<1>5. ASSUME NEW k \in Keys, Touched(k) \/ Removed(k) PROVE FreshCopy'
  <2> SUFFICES ASSUME NEW t \in Shells, call[t].verb = "update", ~stale'[t]
               PROVE  phase'[Current(t)] # "absent" /\ got'[t] = settings'[Current(t)]
    BY <1>5 DEF Touched, Removed, Others
  <2>1. ~stale[t] /\ Current(t) # k /\ Current(t) \in Keys
    BY <1>5, <1>t, StillFresh, CurrentIsKey DEF Touched, Removed, Targeted
  <2> QED
    BY <1>5, <1>t, <2>1 DEF Touched, Removed, Others, objects, TypeOK
<1>6. ASSUME NEW k \in Keys, NEW f \in Fields, NEW v \in Values, KubectlPatch(k, f, v)
      PROVE  FreshCopy'
  <2> SUFFICES ASSUME NEW t \in Shells, call[t].verb = "update", ~stale'[t]
               PROVE  phase'[Current(t)] # "absent" /\ got'[t] = settings'[Current(t)]
    BY <1>6 DEF KubectlPatch, Others
  <2>1. ~stale[t] /\ Current(t) # k /\ Current(t) \in Keys
    BY <1>6, <1>t, StillFresh, CurrentIsKey DEF KubectlPatch, Targeted
  <2> QED
    BY <1>6, <1>t, <2>1 DEF KubectlPatch, Others, TypeOK
<1> QED
  BY <1>1, <1>2, <1>3, <1>4, <1>5, <1>6 DEF Next, Controllers

LEMMA PatchesHoldNext == PatchInv /\ [Next]_vars => PatchesHold'
<1> SUFFICES ASSUME PatchInv, [Next]_vars PROVE PatchesHold'
  OBVIOUS
<1> USE DEF PatchInv, PatchesHold
<1>1. ASSUME NEW s \in Shells, Update(s) PROVE PatchesHold'
  <2> DEFINE k == Current(s)
  <2>1. k \in Keys /\ phase[k] # "absent" /\ got[s] = settings[k] /\ settings[k] = asked[k]
    BY <1>1, CurrentIsKey DEF Update, FreshCopy, Targeted
  <2>2. settings'[k] = asked'[k]
    BY <1>1, <2>1 DEF Update, TypeOK
  <2> QED
    BY <1>1, <2>2 DEF Update, TypeOK
<1>2. ASSUME NEW s \in Shells, Create(s) PROVE PatchesHold'
  BY <1>2 DEF Create, TypeOK
<1>3. ASSUME NEW s \in Shells, Delete(s) PROVE PatchesHold'
  BY <1>3 DEF Delete, TypeOK
<1>4. ASSUME NEW k \in Keys, Removed(k) PROVE PatchesHold'
  BY <1>4 DEF Removed, TypeOK
<1>5. ASSUME NEW k \in Keys, NEW f \in Fields, NEW v \in Values, KubectlPatch(k, f, v)
      PROVE  PatchesHold'
  BY <1>5 DEF KubectlPatch, TypeOK
<1>6. CASE UNCHANGED objects
  BY <1>6 DEF objects
<1> QED
  BY <1>1, <1>2, <1>3, <1>4, <1>5, <1>6
  DEF Next, Requests, Controllers, CreateRefused, Get, NotFound, Conflict, RequestFails,
      FailsElsewhere, Interrupted, Start, Touched, vars

LEMMA PatchInvInit == Init => PatchInv
<1> SUFFICES ASSUME Init PROVE PatchInv
  OBVIOUS
<1>1. NoCall.verb = "none"
  BY DEF NoCall
<1> QED
  BY <1>1, TypeOKInit DEF Init, PatchInv, FreshCopy, PatchesHold

(* No patch that succeeded is undone by a patch of something else, for any number of
   deployers and of others who change the same objects at the same time. *)
THEOREM PatchesAreKept == Spec => []PatchesHold
<1>1. PatchInv /\ [Next]_vars => PatchInv'
  BY TypeOKNext, FreshCopyNext, PatchesHoldNext DEF PatchInv
<1>2. PatchInv => PatchesHold
  BY DEF PatchInv
<1> QED
  BY PatchInvInit, <1>1, <1>2, PTL DEF Spec
=============================================================================
