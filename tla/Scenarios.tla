----------------------------- MODULE Scenarios -----------------------------
(***************************************************************************)
(* The benchmark scenarios of infrastructure/justfile: bash scripts that   *)
(* prepare the cluster with the deployer and kubectl, run the workload     *)
(* generator once per combination of two loops, and undo what they have    *)
(* changed. No script stops at an error. Another terminal may run the      *)
(* deployer meanwhile.                                                     *)
(*                                                                         *)
(* Abstracted: the manifests applied before the loops, the pod the         *)
(* generator runs in, and what becomes of its run; the time slept.         *)
(***************************************************************************)
EXTENDS Deployer

CONSTANTS
  ManualCalls,  \* the deployer's calls that the other terminal may make
  MaxManual,    \* BOUND: how many
  MaxRuns,      \* BOUND: recipes started
  Recipes,      \* those that are considered
  Amounts,      \* trigger_amounts of eventing-scenario-2
  Workers,      \* workers of eventing-scenario-3
  Rates,        \* rps, of each scenario that has it
  Repetitions   \* {1..7} of serving-scenario-2, and the languages of scenario 1

ASSUME ShellsAssumption == {"script", "terminal"} \subseteq Shells
ASSUME ManualCallsAssumption == ManualCalls \subseteq Calls
ASSUME BoundsAssumption == MaxManual \in Nat /\ MaxRuns \in Nat

(* A list of words, none of them twice. *)
Words(S) == {w \in Seq(S) : w # <<>> /\ \A i, j \in 1..Len(w) : w[i] = w[j] => i = j}

ASSUME WordsAssumption ==
  /\ Amounts \in Words(Nat \ {0})
  /\ \A i, j \in 1..Len(Amounts) : i < j => Amounts[i] < Amounts[j]   \* (4 6 8 10)
  /\ Workers \in Words(Values \ {"kept"})  \* "kept" is a flag that is not given
  /\ Rates \in Words(Values) /\ Repetitions \in Words(Values)
ASSUME CommandValuesAssumption == {"1", "once"} \subseteq Values

VARIABLES
  recipe,      \* the recipe that was started last
  section,     \* where it is
  todo,        \* the commands left in this section
  outer,       \* words left in the outer loop, from the current one
  array,       \* the array rps
  inner,       \* words left in the inner loop
  measured,    \* the combinations it has run the generator with
  autoscaler,  \* the ConfigMap config-autoscaler
  inherited,   \* history: the triggers being deleted when the recipe began
  runs, manual

script == <<recipe, section, todo, outer, array, inner, measured, inherited, runs>>
allVars == <<vars, script, autoscaler, manual>>

-----------------------------------------------------------------------------
(* The recipes: commands before the loops, in the outer loop before and after the
   inner one, in the inner one, and after the loops. *)

Deployer(c) == [tool |-> "deployer", call |-> c]
PatchConfig(f, v) == [tool |-> "configmap", field |-> f, value |-> v]
PatchService(k, v) == [tool |-> "ksvc", key |-> k, value |-> v]

Service(name) == [kind |-> "Service", name |-> name, index |-> 0]
Trigger(i) == [kind |-> "Trigger", name |-> "trigger", index |-> i]

ASSUME RecipeKeysAssumption ==
  /\ {Service("reciever"), Service("sleep-go-http"), Service("empty-go-http")} \subseteq Keys
  /\ Trigger(0) \in Keys
  /\ \A n \in 1..Len(Amounts) : \A i \in 1..Amounts[n] : Trigger(i - 1) \in Keys

RecipeNames == {"eventing-scenario-1", "eventing-scenario-2", "eventing-scenario-3",
                "serving-scenario-1", "serving-scenario-2", "serving-scenario-3"}
ASSUME RecipesAssumption == Recipes \subseteq RecipeNames

Outer(r) == CASE r = "eventing-scenario-2" -> Amounts
              [] r = "eventing-scenario-3" -> Workers
              [] OTHER -> <<"once">>

Inner(r) == IF r \in {"serving-scenario-1", "serving-scenario-2"} THEN Repetitions ELSE Rates

(* for rps in "${rps[@]}": the loop's variable is the array's first element. *)
Overwrites(r) == r \notin {"serving-scenario-1", "serving-scenario-2"}

BeforeLoops(r) ==
  CASE r = "eventing-scenario-1" -> <<Deployer(deploy("reciever", 1)),
                                      Deployer(deployTrigger("trigger", 1))>>
    [] r = "eventing-scenario-3" -> <<Deployer(deployTrigger("trigger", 1))>>
    [] r = "serving-scenario-2"  -> <<PatchConfig("scale-to-zero-grace-period", "10s"),
                                      PatchConfig("stable-window", "10s")>>
    [] r = "serving-scenario-3"  -> <<Deployer(deploy("sleep-go-http", 1)),
                                      PatchConfig("max-scale", "400"),
                                      PatchService(Service("sleep-go-http"), "1")>>
    [] OTHER -> <<>>

AfterLoops(r) ==
  CASE r \in {"eventing-scenario-1", "eventing-scenario-3"} ->
         <<Deployer(deleteTrigger("trigger", 1))>>
    [] r = "serving-scenario-2"  -> <<PatchConfig("scale-to-zero-grace-period", "30s"),
                                      PatchConfig("stable-window", "60s")>>
    [] r = "serving-scenario-3"  -> <<PatchService(Service("empty-go-http"), "0")>>
    [] OTHER -> <<>>

OuterBefore(r, word) == IF r = "eventing-scenario-2"
                        THEN <<Deployer(deployTrigger("trigger", word))>> ELSE <<>>

(* Mutant: the triggers are left for the next number of them. *)
OuterAfterKeeps(r, word) == <<>>

OuterAfter(r, word) == IF r = "eventing-scenario-2"
                       THEN <<Deployer(deleteTrigger("trigger", word))>> ELSE <<>>

(* Mutant: patch-trigger is left to the default of its flag. *)
InnerBeforeDefaults(r, word) == IF r = "eventing-scenario-3"
                                THEN <<Deployer(patchTrigger(Trigger(0), "10"))>> ELSE <<>>

InnerBefore(r, word) == IF r = "eventing-scenario-3"
                        THEN <<Deployer(patchTrigger(Trigger(0), word))>> ELSE <<>>

(* What a recipe announces, or creates and never deletes. *)
TriggersOf(r, word) ==
  CASE r = "eventing-scenario-2" -> {Trigger(i) : i \in 0..(word - 1)}
    [] r \in {"eventing-scenario-1", "eventing-scenario-3"} -> {Trigger(0)}
    [] OTHER -> {}

ServicesOf(r) == CASE r = "eventing-scenario-1" -> {Service("reciever")}
                   [] r = "serving-scenario-3" -> {Service("sleep-go-http")}
                   [] OTHER -> {}

-----------------------------------------------------------------------------
(* As installed (justfile:155), and Knative's defaults. *)
AutoscalerDefaults ==
  [f \in {"scale-to-zero-grace-period", "stable-window", "max-scale"} |->
     CASE f = "scale-to-zero-grace-period" -> "30s"
       [] f = "stable-window" -> "60s"
       [] f = "max-scale" -> "100"]

ScenariosInit ==
  /\ phase \in [Keys -> {"absent", "live"}]
  /\ \A k \in Keys : phase[k] = "live" => k = Service("empty-go-http")
  /\ settings = [k \in Keys |-> IF k.kind = "Service" THEN createKnativeService ELSE Unset]
  /\ asked = settings
  /\ call = [s \in Shells |-> NoCall]
  /\ got = [s \in Shells |-> Unset] /\ stale = [s \in Shells |-> FALSE]
  /\ failures = 0 /\ troubled = {}
  /\ recipe = "none" /\ section = "stopped" /\ runs = 0 /\ manual = 0
  /\ todo = <<>> /\ outer = <<>> /\ array = <<>> /\ inner = <<>> /\ measured = {}
  /\ inherited = {}
  /\ autoscaler = AutoscalerDefaults

Triggers(p) == {k \in Keys : k.kind = "Trigger" /\ phase[k] = p}

Idle == section \in {"finished", "stopped"}

(* just <recipe> *)
Begin(r) ==
  /\ Idle /\ runs < MaxRuns /\ runs' = runs + 1
  /\ recipe' = r /\ section' = "before" /\ todo' = BeforeLoops(r)
  /\ outer' = Outer(r) /\ array' = Inner(r) /\ inner' = <<>> /\ measured' = {}
  /\ inherited' = Triggers("terminating")
  /\ UNCHANGED <<vars, autoscaler, manual>>

Command(tool) == /\ ~Idle /\ call["script"] = NoCall
                 /\ todo # <<>> /\ Head(todo).tool = tool
                 /\ todo' = Tail(todo)
                 /\ UNCHANGED <<recipe, section, outer, array, inner, measured, inherited,
                                runs, manual>>

RunDeployer ==
  /\ Command("deployer")
  /\ Start("script", Head(todo).call)
  /\ UNCHANGED <<troubled, autoscaler>>

(* Mutant: the whole ConfigMap is replaced. *)
PatchAutoscalerReplaces ==
  /\ Command("configmap")
  /\ autoscaler' = [AutoscalerDefaults EXCEPT ![Head(todo).field] = Head(todo).value]
  /\ UNCHANGED vars

(* --type merge: the other fields stay. *)
PatchAutoscaler ==
  /\ Command("configmap")
  /\ autoscaler' = [autoscaler EXCEPT ![Head(todo).field] = Head(todo).value]
  /\ UNCHANGED vars

PatchConcurrency ==
  /\ Command("ksvc")
  /\ KubectlPatch(Head(todo).key, "containerConcurrency", Head(todo).value)
  /\ UNCHANGED autoscaler

KubectlFails ==
  /\ \E tool \in {"configmap", "ksvc"} : Command(tool)
  /\ \/ failures < MaxFailures /\ failures' = failures + 1
     \/ Head(todo).tool = "ksvc" /\ phase[Head(todo).key] = "absent" /\ UNCHANGED failures
  /\ troubled' = troubled \cup
       {IF Head(todo).tool = "ksvc" THEN "Service" ELSE "ConfigMap"}
  /\ UNCHANGED <<objects, call, got, stale, autoscaler>>

Between == ~Idle /\ call["script"] = NoCall /\ todo = <<>>
SameRecipe == UNCHANGED <<vars, recipe, inherited, runs, manual, autoscaler>>

EnterOuter ==
  /\ Between /\ section = "before"
  /\ section' = "outer" /\ todo' = OuterBefore(recipe, Head(outer))
  /\ UNCHANGED <<outer, array, inner, measured>> /\ SameRecipe

(* The next word of the loop is given to its variable. *)
Assign(words) == array' = IF Overwrites(recipe) THEN [array EXCEPT ![1] = Head(words)] ELSE array

(* Mutant: "${rps}", which is only the first word. *)
EnterInnerFirstWord ==
  /\ Between /\ section = "outer"
  /\ section' = "inner" /\ todo' = InnerBefore(recipe, Head(outer))
  /\ inner' = <<Head(array)>> /\ Assign(array)
  /\ UNCHANGED <<outer, measured>> /\ SameRecipe

(* "${rps[@]}" is expanded once, when the loop begins. *)
EnterInner ==
  /\ Between /\ section = "outer"
  /\ section' = "inner" /\ todo' = InnerBefore(recipe, Head(outer))
  /\ inner' = array /\ Assign(array)
  /\ UNCHANGED <<outer, measured>> /\ SameRecipe

(* kubectl exec ... ./workload-generator, whatever becomes of it. *)
Measure ==
  /\ Between /\ section = "inner"
  /\ measured' = measured \cup {<<Head(outer), Head(inner)>>}
  /\ inner' = Tail(inner)
  /\ IF inner' # <<>>
     THEN todo' = InnerBefore(recipe, Head(outer)) /\ Assign(inner') /\ UNCHANGED section
     ELSE todo' = OuterAfter(recipe, Head(outer)) /\ section' = "next" /\ UNCHANGED array
  /\ UNCHANGED outer /\ SameRecipe

NextOuter ==
  /\ Between /\ section = "next"
  /\ outer' = Tail(outer)
  /\ IF outer' # <<>>
     THEN section' = "outer" /\ todo' = OuterBefore(recipe, Head(outer'))
     ELSE section' = "after" /\ todo' = AfterLoops(recipe)
  /\ UNCHANGED <<array, inner, measured>> /\ SameRecipe

Finish ==
  /\ Between /\ section = "after"
  /\ section' = "finished"
  /\ UNCHANGED <<todo, outer, array, inner, measured>> /\ SameRecipe

(* Ctrl-C, at any point: nothing is undone. *)
Interrupt ==
  /\ ~Idle
  /\ section' = "stopped" /\ todo' = <<>>
  /\ Interrupted("script")
  /\ troubled' = Kinds \cup {"ConfigMap"}
  /\ UNCHANGED <<recipe, outer, array, inner, measured, inherited, runs, autoscaler, manual>>

(* What the other terminal works on is no longer the scripts' alone. *)
Manual(c) ==
  /\ manual < MaxManual /\ manual' = manual + 1
  /\ Start("terminal", c)
  /\ troubled' = troubled \cup {k.kind : k \in {c.keys[i] : i \in 1..Len(c.keys)}}
  /\ UNCHANGED <<script, autoscaler>>

Stopped ==
  /\ Idle /\ runs = MaxRuns /\ call["terminal"] = NoCall
  /\ UNCHANGED allVars

-----------------------------------------------------------------------------
Script == \/ RunDeployer \/ PatchAutoscaler \/ PatchConcurrency \/ KubectlFails
          \/ EnterOuter \/ EnterInner \/ Measure \/ NextOuter \/ Finish \/ Interrupt

ScenariosNext ==
  \/ \E r \in Recipes : Begin(r)
  \/ Script
  \/ \E c \in ManualCalls : Manual(c)
  \/ (\E s \in Shells : Requests(s)) /\ UNCHANGED <<script, autoscaler, manual>>
  \/ Controllers /\ UNCHANGED <<script, autoscaler, manual>>
  \/ Stopped

ScenariosSpec == ScenariosInit /\ [][ScenariosNext]_allVars

-----------------------------------------------------------------------------
(* What must hold. *)

ScenariosTypeOK ==
  /\ TypeOK
  /\ runs \in 0..MaxRuns /\ manual \in 0..MaxManual
  /\ recipe \in Recipes \cup {"none"}
  /\ section \in {"stopped", "before", "outer", "inner", "next", "after",
                  "finished"}
  /\ ~Idle => recipe \in Recipes
  /\ \A i \in 1..Len(todo) :
       todo[i].tool = "deployer" => todo[i].call.verb # "none" /\ todo[i].call.keys # <<>>
  /\ section \in {"before", "outer", "inner", "next"} => outer # <<>>
  /\ section = "inner" => inner # <<>>
  /\ Idle => todo = <<>> /\ call["script"] = NoCall

AboutToMeasure == section = "inner" /\ Between
Untroubled(kind) == kind \notin troubled

(* If no request about triggers was refused or failed and nobody else works on them, each
   measurement is made with the triggers and the parallelism that the prefix of its log
   names. No other is live, and one that is still being deleted is not the recipe's own:
   it was being deleted when the recipe began (each amount is above the one before). *)
EventingAsLabelled ==
  AboutToMeasure /\ Untroubled("Trigger") /\ recipe \in
      {"eventing-scenario-1", "eventing-scenario-2", "eventing-scenario-3"} =>
    /\ Triggers("live") = TriggersOf(recipe, Head(outer))
    /\ Triggers("terminating") \subseteq inherited
    /\ \A k \in Triggers("live") : settings[k]["parallelism"] =
         IF recipe = "eventing-scenario-3" THEN Head(outer) ELSE "10"

(* The same for the autoscaler and the container concurrency of the serving scenarios. *)
ServingAsLabelled ==
  AboutToMeasure /\ Untroubled("ConfigMap") =>
    /\ recipe = "serving-scenario-2" =>
         autoscaler["scale-to-zero-grace-period"] = "10s" /\ autoscaler["stable-window"] = "10s"
    /\ recipe = "serving-scenario-3" =>
         /\ autoscaler["max-scale"] = "400"
         /\ Untroubled("Service") =>
              settings[Service("sleep-go-http")]["containerConcurrency"] = "1"

(* A recipe that ran to its end has measured all rates with the first word of the outer
   loop, and with the others all but the first rate, whatever failed on the way: no
   failure ends a loop early. The first rate is not among them because by then the loop
   has put its last word in the array's first place. *)
AllButFirstRateMeasured ==
  section = "finished" =>
    \A o \in 1..Len(Outer(recipe)), i \in 1..Len(Inner(recipe)) :
      o = 1 \/ i # 1 \/ ~Overwrites(recipe)
        => <<Outer(recipe)[o], Inner(recipe)[i]>> \in measured

(* All that recipes leave behind, if the last one ran to its end and nothing went wrong
   with objects of the kind: triggers that are being deleted, its own or those it has
   inherited; the limit on scale of serving-scenario-3; and the services that were created,
   live as createKnativeService makes them but for the concurrency of sleep-go-http. *)
LeftBehind ==
  section = "finished" =>
    /\ Untroubled("Trigger") =>
         /\ Triggers("live") = {}
         /\ Triggers("terminating") \subseteq
              inherited \cup UNION {TriggersOf(recipe, Outer(recipe)[o]) :
                                     o \in 1..Len(Outer(recipe))}
    /\ Untroubled("ConfigMap") =>
         \E limit \in IF recipe = "serving-scenario-3" THEN {"400"} ELSE {"100", "400"} :
           autoscaler = [AutoscalerDefaults EXCEPT !["max-scale"] = limit]
    /\ Untroubled("Service") =>
         /\ \A k \in ServicesOf(recipe) : phase[k] = "live"
         /\ \A k \in Keys : k.kind = "Service" /\ phase[k] # "absent" =>
              /\ phase[k] = "live"
              /\ k \in {Service("empty-go-http"), Service("reciever"), Service("sleep-go-http")}
              /\ \/ /\ settings[k] = createKnativeService
                    /\ ~(recipe = "serving-scenario-3" /\ k = Service("sleep-go-http"))
                 \/ /\ settings[k] = [createKnativeService EXCEPT !["containerConcurrency"] = "1"]
                    /\ k = Service("sleep-go-http")

(* justfile:451 "Running eventing scenario 2 with ${amount} triggers": with nobody else at
   work and no request that fails, each of its measurements is made with that many. *)
AmountAsAnnounced ==
  AboutToMeasure /\ recipe = "eventing-scenario-2" /\ failures = 0 /\ manual = 0 =>
    Triggers("live") = TriggersOf(recipe, Head(outer))
=============================================================================
