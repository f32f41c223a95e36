------------------------------ MODULE Deployer ------------------------------
(***************************************************************************)
(* The deployer of cmd/deployer/main.go: one execution makes one call,     *)
(* which creates or deletes numbered objects of the cluster one request at *)
(* a time, or reads one, changes it and writes it back. Several shells may *)
(* run it at once. The API server refuses to create what is there, to      *)
(* delete what is not, and to replace what has changed since it was read;  *)
(* what is deleted stays until its controller has finished with it.        *)
(*                                                                         *)
(* Abstracted: of an object, only the settings that a call changes later;  *)
(* a request that fails has no effect. Refusals and failures are printed   *)
(* and nothing else: the exit status is 0.                                 *)
(***************************************************************************)
EXTENDS Naturals, Sequences

CONSTANTS
  Shells,      \* the shells that may run a deployer, one at a time in each
  Keys,        \* kind, name prefix and number of the objects there may be
  Values,      \* what a setting may be
  MaxFailures  \* BOUND: requests that fail

Kinds == {"Service", "Sequence", "Broker",
          "Trigger",               \* of deployTrigger, in knative-eventing
          "functions Trigger"}     \* of deployBrokerScenario, in functions
Fields == {"parallelism", "metric", "target-utilization-percentage", "target", "class",
           "containerConcurrency"}
Settings == [Fields -> Values]

ASSUME KeysAssumption == \A k \in Keys : k.kind \in Kinds
ASSUME ValuesAssumption ==
  {"unset", "kept", "10", "concurrency", "70", "0", "hpa"} \subseteq Values
ASSUME MaxFailuresAssumption == MaxFailures \in Nat

VARIABLES
  phase,     \* of each object
  settings,  \* and what it is set to
  asked,     \* history: what the requests that succeeded have asked of it, field by field
  call,      \* what each shell's deployer is doing: its verb, the keys still to come
  got,       \* what it has read, between Get and Update
  stale,     \* the object has changed since
  failures,  \* requests that have failed
  troubled   \* history: the kinds a request about which was refused or failed

objects == <<phase, settings, asked>>
vars == <<objects, call, got, stale, failures, troubled>>

Call == [verb : {"none", "create", "delete", "get", "update"}, keys : Seq(Keys),
         sets : Settings]

TypeOK ==
  /\ phase \in [Keys -> {"absent", "live", "terminating"}]
  /\ settings \in [Keys -> Settings] /\ asked \in [Keys -> Settings]
  /\ call \in [Shells -> Call]
  /\ \A s \in Shells : call[s].verb # "none" => call[s].keys # <<>>
  /\ got \in [Shells -> Settings] /\ stale \in [Shells -> BOOLEAN]
  /\ failures \in 0..MaxFailures
  /\ troubled \subseteq Kinds \cup {"ConfigMap"}

-----------------------------------------------------------------------------
(* The calls, by the functions of main.go. *)

Unset == [f \in Fields |-> "unset"]
Kept == [f \in Fields |-> "kept"]
NoCall == [verb |-> "none", keys |-> <<>>, sets |-> Unset]

Numbered(kind, name, amount) ==
  [i \in 1..amount |-> [kind |-> kind, name |-> name, index |-> i - 1]]

createKnativeService ==
  [Unset EXCEPT !["metric"] = "concurrency", !["target-utilization-percentage"] = "70",
                !["containerConcurrency"] = "0"]

deploy(name, amount) ==
  [verb |-> "create", keys |-> Numbered("Service", name, amount),
   sets |-> createKnativeService]

delete(name, amount) ==
  [verb |-> "delete", keys |-> Numbered("Service", name, amount), sets |-> Unset]

deploySequence(name) ==
  [verb |-> "create", keys |-> Numbered("Sequence", name, 1), sets |-> Unset]

deployBrokerScenario(brokerName, name, amount) ==
  [verb |-> "create", sets |-> Unset,
   keys |-> Numbered("Broker", brokerName, 1) \o Numbered("functions Trigger", name, amount)]

deployTrigger(name, amount) ==
  [verb |-> "create", keys |-> Numbered("Trigger", name, amount),
   sets |-> [Unset EXCEPT !["parallelism"] = "10"]]

deleteTrigger(name, amount) ==
  [verb |-> "delete", keys |-> Numbered("Trigger", name, amount), sets |-> Unset]

patchTrigger(k, parallelism) ==
  [verb |-> "get", keys |-> <<k>>, sets |-> [Kept EXCEPT !["parallelism"] = parallelism]]

(* The annotations of another metric stay as they are. *)
patchFunctionService(k, metric, target) ==
  [verb |-> "get", keys |-> <<k>>, sets |->
     [Kept EXCEPT !["metric"] = metric,
        !["target-utilization-percentage"] = IF metric = "concurrency" THEN target ELSE @,
        !["target"] = IF metric \in {"rps", "cpu", "memory"} THEN target ELSE @,
        !["class"] = IF metric \in {"cpu", "memory"} THEN "hpa" ELSE @]]

Merge(sets, old) == [f \in Fields |-> IF sets[f] = "kept" THEN old[f] ELSE sets[f]]

-----------------------------------------------------------------------------
Init ==
  /\ phase \in [Keys -> {"absent", "live"}]
  /\ settings = [k \in Keys |-> IF k.kind = "Service" THEN createKnativeService ELSE Unset]
  /\ asked = settings
  /\ call = [s \in Shells |-> NoCall]
  /\ got = [s \in Shells |-> Unset] /\ stale = [s \in Shells |-> FALSE]
  /\ failures = 0 /\ troubled = {}

Current(s) == Head(call[s].keys)

Rest(c) == IF Len(c.keys) = 1 THEN NoCall ELSE [c EXCEPT !.keys = Tail(@)]

Proceed(s) ==
  /\ call' = [call EXCEPT ![s] = Rest(@)]
  /\ UNCHANGED got

Return(s) ==
  /\ call' = [call EXCEPT ![s] = NoCall]
  /\ got' = [got EXCEPT ![s] = Unset]

(* The object has another version now: copies of it can no longer be written back. *)
Outdates(k) ==
  stale' = [s \in Shells |-> stale[s] \/ (call[s].verb = "update" /\ Current(s) = k)]

Trouble(k) == troubled' = troubled \cup {k.kind}

Start(s, c) ==
  /\ call[s].verb = "none"
  /\ call' = [call EXCEPT ![s] = c]
  /\ UNCHANGED <<objects, got, stale, failures>>

Create(s) ==
  LET k == Current(s) IN
  /\ call[s].verb = "create" /\ phase[k] = "absent"
  /\ phase' = [phase EXCEPT ![k] = "live"]
  /\ settings' = [settings EXCEPT ![k] = call[s].sets]
  /\ asked' = [asked EXCEPT ![k] = call[s].sets]
  /\ Outdates(k) /\ Proceed(s)
  /\ UNCHANGED <<failures, troubled>>

(* Without its broker, deployBrokerScenario returns; every other loop goes on. *)
Skip(s) == IF call[s].verb \in {"create", "delete"} /\ Current(s).kind # "Broker"
           THEN Proceed(s) ELSE Return(s)

(* That what was to be created is there already is no trouble. *)
CreateRefused(s) ==
  LET k == Current(s) IN
  /\ call[s].verb = "create" /\ phase[k] # "absent"
  /\ IF phase[k] = "live" /\ settings[k] = call[s].sets
     THEN UNCHANGED troubled ELSE Trouble(k)
  /\ Skip(s)
  /\ UNCHANGED <<objects, stale, failures>>

Delete(s) ==
  LET k == Current(s) IN
  /\ call[s].verb = "delete" /\ phase[k] # "absent"
  /\ phase' = [phase EXCEPT ![k] = "terminating"]
  /\ Outdates(k) /\ Proceed(s)
  /\ UNCHANGED <<settings, asked, failures, troubled>>

Get(s) ==
  LET k == Current(s) IN
  /\ call[s].verb = "get" /\ phase[k] # "absent"
  /\ call' = [call EXCEPT ![s].verb = "update"]
  /\ got' = [got EXCEPT ![s] = settings[k]]
  /\ stale' = [stale EXCEPT ![s] = FALSE]
  /\ UNCHANGED <<objects, failures, troubled>>

NotFound(s) ==
  LET k == Current(s) IN
  /\ call[s].verb \in {"delete", "get"} /\ phase[k] = "absent"
  /\ Trouble(k) /\ Skip(s)
  /\ UNCHANGED <<objects, stale, failures>>

(* Mutant: the object is written without regard to its version. *)
UpdateForces(s) ==
  LET k == Current(s) IN
  /\ call[s].verb = "update" /\ phase[k] # "absent"
  /\ settings' = [settings EXCEPT ![k] = Merge(call[s].sets, got[s])]
  /\ asked' = [asked EXCEPT ![k] = Merge(call[s].sets, @)]
  /\ Outdates(k) /\ Return(s)
  /\ UNCHANGED <<phase, failures, troubled>>

Update(s) ==
  LET k == Current(s) IN
  /\ call[s].verb = "update" /\ ~stale[s]
  /\ settings' = [settings EXCEPT ![k] = Merge(call[s].sets, got[s])]
  /\ asked' = [asked EXCEPT ![k] = Merge(call[s].sets, @)]
  /\ Outdates(k) /\ Return(s)
  /\ UNCHANGED <<phase, failures, troubled>>

(* No retry on conflict. *)
Conflict(s) ==
  /\ call[s].verb = "update" /\ stale[s]
  /\ Trouble(Current(s)) /\ Return(s)
  /\ UNCHANGED <<objects, stale, failures>>

RequestFails(s) ==
  /\ call[s].verb # "none" /\ failures < MaxFailures
  /\ failures' = failures + 1
  /\ Trouble(Current(s)) /\ Skip(s)
  /\ UNCHANGED <<objects, stale>>

-----------------------------------------------------------------------------
(* The cluster, and whoever else changes it. *)

Others == UNCHANGED <<call, got, failures>>

(* A controller writes its status into the object. *)
Touched(k) ==
  /\ phase[k] # "absent"
  /\ Outdates(k) /\ stale' # stale
  /\ UNCHANGED <<objects, troubled>> /\ Others

Removed(k) ==
  /\ phase[k] = "terminating"
  /\ phase' = [phase EXCEPT ![k] = "absent"]
  /\ Outdates(k)
  /\ UNCHANGED <<settings, asked, troubled>> /\ Others

(* kubectl patch: the API server merges one field into the object it has. *)
KubectlPatch(k, f, v) ==
  /\ phase[k] # "absent"
  /\ settings' = [settings EXCEPT ![k][f] = v]
  /\ asked' = [asked EXCEPT ![k][f] = v]
  /\ Outdates(k)
  /\ UNCHANGED <<phase, troubled>> /\ Others

Requests(s) == \/ Create(s) \/ CreateRefused(s) \/ Delete(s) \/ Get(s) \/ NotFound(s)
               \/ Update(s) \/ Conflict(s) \/ RequestFails(s)

Controllers == \E k \in Keys : Touched(k) \/ Removed(k)

(* A shell interrupted: the rest of its deployer's call is not made. *)
Interrupted(s) == Return(s) /\ UNCHANGED <<objects, stale, failures>>

Calls == {c \in Call : c.verb \in {"create", "delete", "get"} /\ c.keys # <<>>}

(* Whoever starts a call or stops it decides what to take for trouble. *)
Told == troubled' \in SUBSET (Kinds \cup {"ConfigMap"})

(* A request of another program fails. *)
FailsElsewhere ==
  /\ failures' \in failures..MaxFailures
  /\ UNCHANGED <<objects, call, got, stale>>

Next ==
  \/ \E s \in Shells : Requests(s)
  \/ FailsElsewhere /\ Told
  \/ \E s \in Shells : Interrupted(s) /\ Told
  \/ \E s \in Shells, c \in Calls : Start(s, c) /\ Told
  \/ Controllers
  \/ \E k \in Keys, f \in Fields, v \in Values : KubectlPatch(k, f, v)

Spec == Init /\ [][Next]_vars

-----------------------------------------------------------------------------
(* Of every object that is there, each setting is what the last request that
   succeeded has asked of it: no patch takes back what another has done between its
   Get and its Update, not even that of another field, and none is half done. *)
PatchesHold == \A k \in Keys : phase[k] # "absent" => settings[k] = asked[k]
=============================================================================
