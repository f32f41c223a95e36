-------------------------- MODULE ScenariosProofs --------------------------
(* Theorems about Scenarios, for any words in the loops of the recipes, any calls in
   the other terminal and any number of failures. *)
EXTENDS Scenarios, DeployerProofs

Texts == {"scale-to-zero-grace-period", "stable-window", "max-scale",
          "10s", "30s", "60s", "400"}

Commands == [tool : {"deployer"}, call : Calls]
            \cup [tool : {"configmap"}, field : Texts, value : Texts]
            \cup [tool : {"ksvc"}, key : Keys, value : Values]

WordTypes == Values \cup Nat

-----------------------------------------------------------------------------
(* What the recipes are made of. *)

LEMMA NumberedKeys ==
  ASSUME NEW kind, NEW name, NEW n \in Nat \ {0},
         \A i \in 1..n : [kind |-> kind, name |-> name, index |-> i - 1] \in Keys
  PROVE  /\ Numbered(kind, name, n) \in Seq(Keys) /\ Numbered(kind, name, n) # <<>>
<1>1. Numbered(kind, name, n) \in [1..n -> Keys]
  BY DEF Numbered
<1>2. Numbered(kind, name, n) \in Seq(Keys)
  BY <1>1, SeqDef
<1>3. Len(Numbered(kind, name, n)) = n
  BY <1>1, <1>2, LenProperties
<1> QED
  BY <1>2, <1>3, EmptySeq

LEMMA SettingsOfCalls ==
  /\ createKnativeService \in Settings
  /\ Unset \in Settings
  /\ [Unset EXCEPT !["parallelism"] = "10"] \in Settings
  /\ \A v \in Values : [Kept EXCEPT !["parallelism"] = v] \in Settings
  BY ValuesAssumption DEF createKnativeService, Unset, Kept, Settings

LEMMA ListsOfWords ==
  \A r \in RecipeNames : Outer(r) \in Words(WordTypes) /\ Inner(r) \in Words(WordTypes)
<1>1. \A S : S \subseteq WordTypes => \A w \in Words(S) : w \in Words(WordTypes)
  BY DEF Words
<1>2. <<"once">> \in Words(WordTypes)
  BY CommandValuesAssumption DEF Words, WordTypes
<1>3. {Amounts, Workers, Rates, Repetitions} \subseteq Words(WordTypes)
  BY <1>1, WordsAssumption DEF WordTypes
<1> QED
  BY <1>2, <1>3 DEF Outer, Inner

LEMMA DeployerCommands ==
  /\ Deployer(deploy("reciever", 1)) \in Commands
  /\ Deployer(deploy("sleep-go-http", 1)) \in Commands
  /\ Deployer(deployTrigger("trigger", 1)) \in Commands
  /\ Deployer(deleteTrigger("trigger", 1)) \in Commands
  /\ \A n \in 1..Len(Amounts) : /\ Deployer(deployTrigger("trigger", Amounts[n])) \in Commands
                                /\ Deployer(deleteTrigger("trigger", Amounts[n])) \in Commands
  /\ \A v \in Values : Deployer(patchTrigger(Trigger(0), v)) \in Commands
<1> USE SettingsOfCalls DEF Deployer, Commands, Calls, Call
<1>1. ASSUME NEW n \in Nat \ {0}, \A i \in 1..n : Trigger(i - 1) \in Keys
      PROVE  /\ Deployer(deployTrigger("trigger", n)) \in Commands
             /\ Deployer(deleteTrigger("trigger", n)) \in Commands
  <2>1. Numbered("Trigger", "trigger", n) \in Seq(Keys) /\ Numbered("Trigger", "trigger", n) # <<>>
    BY <1>1, NumberedKeys DEF Trigger
  <2> QED
    BY <2>1 DEF deployTrigger, deleteTrigger
<1>2. ASSUME NEW name, Service(name) \in Keys PROVE Deployer(deploy(name, 1)) \in Commands
  <2>1. Numbered("Service", name, 1) \in Seq(Keys) /\ Numbered("Service", name, 1) # <<>>
    BY <1>2, NumberedKeys DEF Service
  <2> QED
    BY <2>1 DEF deploy
<1>3. \A i \in 1..1 : Trigger(i - 1) \in Keys
  BY RecipeKeysAssumption
<1>4. ASSUME NEW n \in 1..Len(Amounts)
      PROVE  Amounts[n] \in Nat \ {0} /\ \A i \in 1..Amounts[n] : Trigger(i - 1) \in Keys
  BY RecipeKeysAssumption, WordsAssumption, ElementOfSeq DEF Words
<1>5. ASSUME NEW v \in Values PROVE Deployer(patchTrigger(Trigger(0), v)) \in Commands
  <2>1. <<Trigger(0)>> \in Seq(Keys) /\ <<Trigger(0)>> # <<>>
    BY RecipeKeysAssumption
  <2>2. [Kept EXCEPT !["parallelism"] = v] \in Settings
    BY <1>5
  <2> QED
    BY <2>1, <2>2 DEF patchTrigger
<1>6. Deployer(deploy("reciever", 1)) \in Commands /\ Deployer(deploy("sleep-go-http", 1)) \in Commands
  <2>1. Service("reciever") \in Keys /\ Service("sleep-go-http") \in Keys
    BY RecipeKeysAssumption
  <2> HIDE DEF Deployer, Commands, Calls, Call
  <2> QED
    BY <1>2, <2>1
<1> HIDE DEF Deployer, Commands, Calls, Call
<1>7. /\ Deployer(deployTrigger("trigger", 1)) \in Commands
      /\ Deployer(deleteTrigger("trigger", 1)) \in Commands
  BY <1>1, <1>3
<1>8. \A n \in 1..Len(Amounts) : /\ Deployer(deployTrigger("trigger", Amounts[n])) \in Commands
                                 /\ Deployer(deleteTrigger("trigger", Amounts[n])) \in Commands
  BY <1>1, <1>4
<1> QED
  BY <1>5, <1>6, <1>7, <1>8

LEMMA KubectlCommands ==
  /\ \A f, v \in Texts : PatchConfig(f, v) \in Commands
  /\ PatchService(Service("sleep-go-http"), "1") \in Commands
  /\ PatchService(Service("empty-go-http"), "0") \in Commands
  BY RecipeKeysAssumption, ValuesAssumption, CommandValuesAssumption
  DEF PatchConfig, PatchService, Commands

LEMMA RecipeCommands ==
  ASSUME NEW r \in RecipeNames
  PROVE  /\ BeforeLoops(r) \in Seq(Commands) /\ AfterLoops(r) \in Seq(Commands)
         /\ \A k \in 1..Len(Outer(r)) :
              /\ OuterBefore(r, Outer(r)[k]) \in Seq(Commands)
              /\ OuterAfter(r, Outer(r)[k]) \in Seq(Commands)
              /\ InnerBefore(r, Outer(r)[k]) \in Seq(Commands)
<1> HIDE DEF Commands
<1>1. <<>> \in Seq(Commands) /\ \A c \in Commands : <<c>> \in Seq(Commands)
  OBVIOUS
<1>2. ASSUME NEW c \in Commands, NEW d \in Commands PROVE <<c, d>> \in Seq(Commands)
  OBVIOUS
<1>3. ASSUME NEW c \in Commands, NEW d \in Commands, NEW e \in Commands
      PROVE  <<c, d, e>> \in Seq(Commands)
  OBVIOUS
<1>4. BeforeLoops(r) \in Seq(Commands)
  <2>1. CASE r = "eventing-scenario-1"
    BY <1>2, <2>1, DeployerCommands DEF BeforeLoops
  <2>2. CASE r = "eventing-scenario-3"
    BY <1>1, <2>2, DeployerCommands DEF BeforeLoops
  <2>3. CASE r = "serving-scenario-2"
    BY <1>2, <2>3, KubectlCommands DEF BeforeLoops, Texts
  <2>4. CASE r = "serving-scenario-3"
    BY <1>3, <2>4, DeployerCommands, KubectlCommands DEF BeforeLoops, Texts
  <2>5. CASE r \in {"eventing-scenario-2", "serving-scenario-1"}
    BY <1>1, <2>5 DEF BeforeLoops
  <2> QED
    BY <2>1, <2>2, <2>3, <2>4, <2>5 DEF RecipeNames
<1>5. AfterLoops(r) \in Seq(Commands)
  <2>1. CASE r \in {"eventing-scenario-1", "eventing-scenario-3"}
    BY <1>1, <2>1, DeployerCommands DEF AfterLoops
  <2>2. CASE r = "serving-scenario-2"
    BY <1>2, <2>2, KubectlCommands DEF AfterLoops, Texts
  <2>3. CASE r = "serving-scenario-3"
    BY <1>1, <2>3, KubectlCommands DEF AfterLoops
  <2>4. CASE r \in {"eventing-scenario-2", "serving-scenario-1"}
    BY <1>1, <2>4 DEF AfterLoops
  <2> QED
    BY <2>1, <2>2, <2>3, <2>4 DEF RecipeNames
<1>6. ASSUME NEW k \in 1..Len(Outer(r))
      PROVE  /\ OuterBefore(r, Outer(r)[k]) \in Seq(Commands)
             /\ OuterAfter(r, Outer(r)[k]) \in Seq(Commands)
  BY <1>1, DeployerCommands DEF OuterBefore, OuterAfter, Outer
<1>7. ASSUME NEW k \in 1..Len(Outer(r)) PROVE InnerBefore(r, Outer(r)[k]) \in Seq(Commands)
  <2>1. \A i \in 1..Len(Workers) : Workers[i] \in Values
    BY WordsAssumption, ElementOfSeq DEF Words
  <2>2. CASE r = "eventing-scenario-3"
    <3>1. Outer(r) = Workers
      BY <2>2 DEF Outer
    <3>2. Outer(r)[k] \in Values
      BY <1>7, <2>1, <3>1
    <3>3. Deployer(patchTrigger(Trigger(0), Outer(r)[k])) \in Commands
      BY <3>2, DeployerCommands
    <3> QED
      BY <1>1, <2>2, <3>3 DEF InnerBefore
  <2>3. CASE r # "eventing-scenario-3"
    BY <1>1, <2>3 DEF InnerBefore
  <2> QED
    BY <2>2, <2>3
<1> QED
  BY <1>4, <1>5, <1>6, <1>7

-----------------------------------------------------------------------------
(* The loops. *)

LastPass == Len(Outer(recipe))
LastPlace == Len(Inner(recipe))
Passes == 1..LastPass
Places == 1..LastPlace
Pass == LastPass - Len(outer) + 1

(* The word in place i of the inner loop, in pass q of the outer one. *)
Word(q, i) == IF q > 1 /\ i = 1 /\ Overwrites(recipe)
              THEN Inner(recipe)[LastPlace] ELSE Inner(recipe)[i]

(* How many places of this pass are done. *)
PlacesDone == IF section \in {"inner", "next"} THEN LastPlace - Len(inner) ELSE 0

Reached(q, i) == q < Pass \/ (q = Pass /\ i <= PlacesDone)

(* What the array begins with. *)
FirstPlace == IF section = "inner" /\ Overwrites(recipe) THEN Head(inner)
              ELSE IF section = "inner" THEN Inner(recipe)[1]
              ELSE IF section = "next" THEN Word(Pass + 1, 1)
              ELSE Word(Pass, 1)

Started == section # "stopped"

ScriptTypes ==
  /\ section \in {"stopped", "before", "outer", "inner", "next", "after",
                  "finished"}
  /\ todo \in Seq(Commands)
  /\ {outer, array, inner} \subseteq Seq(WordTypes)
  /\ Idle => todo = <<>> /\ call["script"] = NoCall
  /\ recipe \in Recipes \cup {"none"} /\ (Started => recipe \in Recipes)

Sections ==
  Started =>
    /\ Len(outer) <= LastPass /\ Len(inner) <= LastPlace
    /\ section = "before" => Len(outer) = LastPass
    /\ section \in {"before", "outer", "inner", "next"} <=> outer # <<>>
    /\ section = "inner" <=> inner # <<>>

LoopWords ==
  Started =>
    /\ \A i \in 1..Len(outer) : outer[i] = Outer(recipe)[Pass - 1 + i]
    /\ \A i \in 1..Len(inner) : inner[i] = Word(Pass, LastPlace - Len(inner) + i)
    /\ Len(array) = LastPlace
    /\ outer # <<>> => array[1] = FirstPlace
    /\ \A i \in Places : i > 1 => array[i] = Inner(recipe)[i]

Measurements ==
  Started =>
    /\ \A q \in Passes, i \in Places :
         Reached(q, i) => <<Outer(recipe)[q], Word(q, i)>> \in measured
    /\ \A m \in measured : \E q \in Passes, i \in Places :
         Reached(q, i) /\ m = <<Outer(recipe)[q], Word(q, i)>>

-----------------------------------------------------------------------------
(* The scripts and the other terminal do what Deployer allows. *)

LEMMA HeadOfTodo ==
  ASSUME ScriptTypes, todo # <<>>
  PROVE  Head(todo) \in Commands /\ Tail(todo) \in Seq(Commands)
  BY HeadTailProperties DEF ScriptTypes

LEMMA ScenarioSteps == ScriptTypes /\ TypeOK /\ [ScenariosNext]_allVars => [Next]_vars
<1> SUFFICES ASSUME ScriptTypes, TypeOK, [ScenariosNext]_allVars PROVE [Next]_vars
  OBVIOUS
<1>1. CASE RunDeployer
  <2>1. Head(todo).call \in Calls
    BY <1>1, HeadOfTodo DEF RunDeployer, Command, Commands
  <2>2. Told
    BY <1>1 DEF RunDeployer, Told, TypeOK
  <2> QED
    BY <1>1, <2>1, <2>2, ShellsAssumption DEF RunDeployer, Next
<1>2. CASE PatchConcurrency
  <2>1. Head(todo).key \in Keys /\ Head(todo).value \in Values
    BY <1>2, HeadOfTodo DEF PatchConcurrency, Command, Commands
  <2> QED
    BY <1>2, <2>1 DEF PatchConcurrency, Next, Fields
<1>3. CASE KubectlFails
  <2>1. FailsElsewhere
    BY <1>3, MaxFailuresAssumption DEF KubectlFails, FailsElsewhere, TypeOK
  <2>2. Told
    BY <1>3 DEF KubectlFails, Told, TypeOK, Kinds
  <2> QED
    BY <2>1, <2>2 DEF Next
<1>4. CASE Interrupt
  BY <1>4, ShellsAssumption DEF Interrupt, Next, Told
<1>5. ASSUME NEW c \in ManualCalls, Manual(c) PROVE [Next]_vars
  <2>1. c \in Calls /\ c.keys \in Seq(Keys)
    BY <1>5, ManualCallsAssumption DEF Calls, Call
  <2>2. \A i \in 1..Len(c.keys) : c.keys[i].kind \in Kinds
    BY <2>1, ElementOfSeq, KeysAssumption
  <2>3. Told
    BY <1>5, <2>2 DEF Manual, Told, TypeOK
  <2> QED
    BY <1>5, <2>1, <2>3, ShellsAssumption DEF Manual, Next
<1>6. CASE (\E s \in Shells : Requests(s)) \/ Controllers
  BY <1>6 DEF Next
<1>7. CASE (\E r \in Recipes : Begin(r)) \/ PatchAutoscaler \/ Stopped \/ UNCHANGED allVars
  BY <1>7 DEF Begin, PatchAutoscaler, Stopped, allVars
<1>8. CASE EnterOuter \/ EnterInner \/ Measure \/ NextOuter \/ Finish
  BY <1>8 DEF EnterOuter, EnterInner, Measure, NextOuter, Finish, SameRecipe
<1> QED
  BY <1>1, <1>2, <1>3, <1>4, <1>5, <1>6, <1>7, <1>8 DEF ScenariosNext, Script

-----------------------------------------------------------------------------
(* Where the loops are. *)

Loops == ScriptTypes /\ Sections /\ LoopWords /\ Measurements
LoopInv == TypeOK /\ Loops

(* The lists of a recipe that was started. *)
LEMMA StartedRecipe ==
  ASSUME ScriptTypes, Started
  PROVE  /\ recipe \in RecipeNames
         /\ Outer(recipe) \in Seq(WordTypes) /\ LastPass \in Nat \ {0}
         /\ Inner(recipe) \in Seq(WordTypes) /\ LastPlace \in Nat \ {0}
         /\ outer \in Seq(WordTypes) /\ Len(outer) \in Nat
         /\ inner \in Seq(WordTypes) /\ Len(inner) \in Nat
         /\ array \in Seq(WordTypes) /\ Len(array) \in Nat
<1>1. recipe \in RecipeNames
  BY RecipesAssumption DEF ScriptTypes
<1>2. /\ Outer(recipe) \in Seq(WordTypes) /\ Outer(recipe) # <<>>
      /\ Inner(recipe) \in Seq(WordTypes) /\ Inner(recipe) # <<>>
  BY <1>1, ListsOfWords DEF Words
<1>3. \A q \in Seq(WordTypes) : Len(q) \in Nat /\ (q # <<>> => Len(q) # 0)
  BY LenProperties, EmptySeq
<1> QED
  BY <1>1, <1>2, <1>3 DEF ScriptTypes, LastPass, LastPlace

LEMMA CurrentPass ==
  ASSUME ScriptTypes, Started, Sections, LoopWords, outer # <<>>
  PROVE  /\ Pass \in Passes /\ Head(outer) = Outer(recipe)[Pass]
         /\ Tail(outer) \in Seq(WordTypes) /\ Len(Tail(outer)) = Len(outer) - 1
         /\ \A i \in 1..Len(Tail(outer)) : Tail(outer)[i] = outer[i + 1]
<1>1. outer \in Seq(WordTypes) /\ Len(outer) \in Nat \ {0}
  BY StartedRecipe, EmptySeq
<1>2. Len(outer) <= LastPass /\ LastPass \in Nat
  BY StartedRecipe DEF Sections
<1>3. Pass \in Passes
  BY <1>1, <1>2 DEF Pass, Passes
<1>4. outer[1] = Outer(recipe)[Pass]
  BY <1>1, <1>2 DEF LoopWords, Pass
<1> QED
  BY <1>1, <1>3, <1>4, HeadTailProperties

LEMMA SameLoops ==
  ASSUME LoopInv, UNCHANGED <<recipe, section, outer, array, inner, measured>>
  PROVE  Sections' /\ LoopWords' /\ Measurements'
<1>1. UNCHANGED <<Started, LastPass, LastPlace, Pass, Passes, Places, PlacesDone, FirstPlace>>
  BY DEF Started, LastPass, LastPlace, Pass, Passes, Places, PlacesDone, FirstPlace, Word
<1>2. \A q, i : /\ Word(q, i)' = Word(q, i) /\ (Reached(q, i)' <=> Reached(q, i))
  BY <1>1 DEF Word, Reached
<1> QED
  BY <1>1, <1>2 DEF LoopInv, Loops, Sections, LoopWords, Measurements

(* Commands leave the loops alone. *)
LEMMA CommandKeepsLoops ==
  ASSUME LoopInv, NEW tool, Command(tool) PROVE Loops'
<1>1. Sections' /\ LoopWords' /\ Measurements'
  BY SameLoops DEF Command
<1>2. ScriptTypes'
  BY HeadOfTodo DEF LoopInv, Loops, Command, ScriptTypes, Idle, Started
<1> QED
  BY <1>1, <1>2 DEF Loops

LEMMA BeginKeepsLoops ==
  ASSUME LoopInv, NEW r \in Recipes, Begin(r) PROVE Loops'
<1>1. /\ r \in RecipeNames /\ BeforeLoops(r) \in Seq(Commands)
      /\ Outer(r) \in Seq(WordTypes) /\ Inner(r) \in Seq(WordTypes)
      /\ Outer(r) # <<>> /\ Inner(r) # <<>>
  BY RecipesAssumption, RecipeCommands, ListsOfWords DEF Words
<1>2. Len(Outer(r)) \in Nat /\ Len(Inner(r)) \in Nat /\ Len(<<>>) = 0
  BY <1>1, LenProperties, EmptySeq
<1>3. /\ recipe' = r /\ section' = "before" /\ todo' = BeforeLoops(r)
      /\ outer' = Outer(r) /\ array' = Inner(r) /\ inner' = <<>> /\ measured' = {}
  BY DEF Begin
<1>4. ScriptTypes'
  <2>1. Started' /\ ~Idle'
    BY <1>3 DEF Idle, Started
  <2> QED
    BY <2>1, <1>1, <1>3, EmptySeq DEF ScriptTypes
<1> DEFINE N == Len(Outer(r))
           n == Len(Inner(r))
<1>5. /\ LastPass' = N /\ LastPlace' = n
      /\ Len(outer') = N /\ Len(array') = n /\ Len(inner') = 0
      /\ N \in Nat /\ n \in Nat
  BY <1>2, <1>3 DEF LastPass, LastPlace
<1>6. outer' # <<>> /\ inner' = <<>> /\ section' = "before" /\ measured' = {}
  BY <1>1, <1>3
<1> HIDE DEF N, n
<1>7. Sections'
  <2>1. Len(outer') <= LastPass' /\ Len(inner') <= LastPlace' /\ Len(outer') = LastPass'
    BY <1>5
  <2>2. /\ section' \in {"before", "outer", "inner", "next"} <=> outer' # <<>>
        /\ section' = "inner" <=> inner' # <<>>
    BY <1>6
  <2> QED
    BY <2>1, <2>2 DEF Sections
<1>8. Pass' = 1
  <2>1. Pass' = LastPass' - Len(outer') + 1
    BY DEF Pass
  <2>2. Pass' = N - N + 1
    BY <2>1, <1>5
  <2> QED
    BY <2>2, <1>5
<1>9. PlacesDone' = 0
  BY <1>6 DEF PlacesDone
<1>10. LoopWords'
  <2>1. FirstPlace' = Inner(r)[1]
    <3>1. Word(Pass, 1)' = Inner(r)[1]
      <4>1. ~(Pass' > 1)
        BY <1>8
      <4> QED
        BY <1>3, <4>1 DEF Word
    <3> QED
      BY <1>6, <3>1 DEF FirstPlace
  <2>2. \A i \in 1..N : outer'[i] = Outer(recipe')[1 - 1 + i]
    <3>1. \A i \in 1..N : 1 - 1 + i = i
      BY <1>5
    <3>2. \A i : outer'[i] = Outer(recipe')[i]
      BY <1>3
    <3> QED
      BY <3>1, <3>2
  <2>3. \A i : array'[i] = Inner(recipe')[i]
    BY <1>3
  <2>4. 1..Len(inner') = {}
    BY <1>5
  <2> QED
    BY <1>5, <1>8, <2>1, <2>2, <2>3, <2>4, <1>3 DEF LoopWords
<1>11. Measurements'
  <2>1. \A q \in 1..N, i \in 1..n : ~(q < 1 \/ (q = 1 /\ i <= 0))
    BY <1>5
  <2>2. Passes' = 1..N /\ Places' = 1..n
    BY <1>5 DEF Passes, Places
  <2> QED
    BY <1>6, <1>8, <1>9, <2>1, <2>2 DEF Measurements, Reached
<1> QED
  BY <1>4, <1>7, <1>10, <1>11 DEF Loops

(* In a step of a recipe its lists are the same. *)
LEMMA SameWords ==
  ASSUME recipe' = recipe
  PROVE  /\ LastPass' = LastPass /\ LastPlace' = LastPlace
         /\ Passes' = Passes /\ Places' = Places
         /\ \A q, i : Word(q, i)' = Word(q, i)
  BY DEF LastPass, LastPlace, Passes, Places, Word

LEMMA SameMeasurements ==
  ASSUME Measurements, Started, recipe' = recipe, measured' = measured,
         \A q \in Passes, i \in Places : Reached(q, i)' <=> Reached(q, i)
  PROVE  Measurements'
<1>1. Passes' = Passes /\ Places' = Places /\ \A q, i : Word(q, i)' = Word(q, i)
  BY SameWords
<1> QED
  BY <1>1 DEF Measurements

LEMMA AssignedArray ==
  ASSUME ScriptTypes, Started, LoopWords, NEW words \in Seq(WordTypes), words # <<>>, Assign(words)
  PROVE  /\ array' \in Seq(WordTypes) /\ Len(array') = LastPlace
         /\ array'[1] = IF Overwrites(recipe) THEN Head(words) ELSE array[1]
         /\ \A i \in Places : i > 1 => array'[i] = array[i]
<1>1. Head(words) \in WordTypes
  BY HeadTailProperties
<1>2. Len(array) = LastPlace /\ LastPlace \in Nat \ {0} /\ array \in Seq(WordTypes)
  BY StartedRecipe DEF LoopWords
<1>3. CASE Overwrites(recipe)
  BY <1>1, <1>2, <1>3, ExceptSeq DEF Assign, Places
<1>4. CASE ~Overwrites(recipe)
  BY <1>2, <1>4 DEF Assign
<1> QED
  BY <1>3, <1>4

LEMMA EnterOuterKeepsLoops ==
  ASSUME LoopInv, EnterOuter PROVE Loops'
<1>1. /\ Started /\ section = "before" /\ section' = "outer" /\ Started' /\ ~Idle'
      /\ UNCHANGED <<recipe, outer, array, inner, measured>>
      /\ todo' = OuterBefore(recipe, Head(outer))
  BY DEF EnterOuter, SameRecipe, Started, Idle
<1>2. outer # <<>> /\ inner = <<>>
  BY <1>1 DEF LoopInv, Loops, Sections
<1>3. todo' \in Seq(Commands)
  BY <1>1, <1>2, CurrentPass, StartedRecipe, RecipeCommands DEF LoopInv, Loops, Passes, LastPass
<1>4. ScriptTypes'
  BY <1>1, <1>3 DEF LoopInv, Loops, ScriptTypes
<1>5. Pass' = Pass /\ PlacesDone' = PlacesDone /\ FirstPlace' = FirstPlace
  BY <1>1, SameWords DEF Pass, PlacesDone, FirstPlace
<1>6. Sections'
  BY <1>1, <1>2, SameWords DEF LoopInv, Loops, Sections
<1>7. LoopWords'
  <2>1. LoopWords
    BY DEF LoopInv, Loops
  <2>2. LastPlace' = LastPlace /\ Places' = Places /\ \A q, i : Word(q, i)' = Word(q, i)
    BY <1>1, SameWords
  <2> QED
    BY <1>1, <1>5, <2>1, <2>2 DEF LoopWords
<1>8. Measurements'
  <2>1. \A q, i : Reached(q, i)' <=> Reached(q, i)
    BY <1>5 DEF Reached
  <2> QED
    BY <1>1, <2>1, SameMeasurements DEF LoopInv, Loops
<1> QED
  BY <1>4, <1>6, <1>7, <1>8 DEF Loops

LEMMA FinishKeepsLoops ==
  ASSUME LoopInv, Finish PROVE Loops'
<1>1. /\ Started /\ section = "after" /\ section' = "finished" /\ Started'
      /\ UNCHANGED <<recipe, outer, array, inner, measured, todo, call>>
      /\ todo = <<>> /\ call["script"] = NoCall
  BY DEF Finish, Between, SameRecipe, Started, vars
<1>2. outer = <<>> /\ inner = <<>>
  BY <1>1 DEF LoopInv, Loops, Sections
<1>3. ScriptTypes'
  BY <1>1 DEF LoopInv, Loops, ScriptTypes
<1>4. Pass' = Pass /\ PlacesDone' = PlacesDone
  BY <1>1, SameWords DEF Pass, PlacesDone
<1>5. Sections'
  BY <1>1, <1>2, SameWords DEF LoopInv, Loops, Sections
<1>6. LoopWords'
  <2>1. LastPlace' = LastPlace /\ Places' = Places /\ \A q, i : Word(q, i)' = Word(q, i)
    BY <1>1, SameWords
  <2> QED
    BY <1>1, <1>2, <1>4, <2>1 DEF LoopInv, Loops, LoopWords
<1>7. Measurements'
  <2>1. \A q, i : Reached(q, i)' <=> Reached(q, i)
    BY <1>4 DEF Reached
  <2> QED
    BY <1>1, <2>1, SameMeasurements DEF LoopInv, Loops
<1> QED
  BY <1>3, <1>5, <1>6, <1>7 DEF Loops

LEMMA InterruptKeepsLoops ==
  ASSUME LoopInv, Interrupt PROVE Loops'
<1>1. ~Started' /\ section' = "stopped" /\ todo' = <<>> /\ UNCHANGED <<recipe, outer, array, inner>>
  BY DEF Interrupt, Started
<1>2. call'["script"] = NoCall
  BY ShellsAssumption DEF Interrupt, Interrupted, Return, LoopInv, TypeOK
<1> QED
  BY <1>1, <1>2, EmptySeq DEF LoopInv, Loops, ScriptTypes, Sections, LoopWords, Measurements

(* The loop starts over the array as the pass before has left it. *)
LEMMA EnterInnerKeepsLoops ==
  ASSUME LoopInv, EnterInner PROVE Loops'
<1>1. /\ Started /\ section = "outer" /\ section' = "inner" /\ Started' /\ ~Idle'
      /\ UNCHANGED <<recipe, outer, measured>>
      /\ todo' = InnerBefore(recipe, Head(outer)) /\ inner' = array /\ Assign(array)
  BY DEF EnterInner, SameRecipe, Started, Idle
<1>2. /\ array \in Seq(WordTypes) /\ Len(array) = LastPlace /\ LastPlace \in Nat \ {0}
      /\ outer # <<>>
  BY <1>1, StartedRecipe DEF LoopInv, Loops, LoopWords, Sections
<1>3. array # <<>>
  BY <1>2, EmptySeq
<1>4. /\ array' \in Seq(WordTypes) /\ Len(array') = LastPlace
      /\ array'[1] = IF Overwrites(recipe) THEN Head(array) ELSE array[1]
      /\ \A i \in Places : i > 1 => array'[i] = array[i]
  BY <1>1, <1>2, <1>3, AssignedArray DEF LoopInv, Loops
<1>5. todo' \in Seq(Commands)
  BY <1>1, <1>2, CurrentPass, StartedRecipe, RecipeCommands DEF LoopInv, Loops, Passes, LastPass
<1>6. ScriptTypes'
  BY <1>1, <1>2, <1>4, <1>5 DEF LoopInv, Loops, ScriptTypes
<1>7. Pass' = Pass /\ PlacesDone = 0
  BY <1>1, SameWords DEF Pass, PlacesDone
<1>8. PlacesDone' = 0
  <2>1. PlacesDone' = LastPlace' - Len(inner')
    BY <1>1 DEF PlacesDone
  <2> QED
    BY <2>1, <1>1, <1>2, SameWords
<1>9. Sections'
  <2>1. Len(outer) <= LastPass
    BY <1>1 DEF LoopInv, Loops, Sections
  <2> QED
    BY <1>1, <1>2, <1>3, <2>1, SameWords DEF Sections
<1>10. array[1] = Word(Pass, 1)
  BY <1>1, <1>2 DEF LoopInv, Loops, LoopWords, FirstPlace
<1>11. LoopWords'
  <2>1. LastPlace' = LastPlace /\ Places' = Places /\ \A q, i : Word(q, i)' = Word(q, i)
    BY <1>1, SameWords
  <2>2. array'[1] = FirstPlace'
    BY <1>1, <1>4, <1>10 DEF FirstPlace, Word
  <2>3. \A i \in 1..Len(inner') : inner'[i] = Word(Pass, LastPlace - Len(inner') + i)
    <3>1. ASSUME NEW i \in 1..Len(inner')
          PROVE  i \in Places /\ LastPlace - Len(inner') + i = i
      BY <1>1, <1>2 DEF Places
    <3>2. ASSUME NEW i \in Places PROVE array[i] = Word(Pass, i)
      BY <1>1, <1>10, <3>2, <1>2 DEF LoopInv, Loops, LoopWords, Word, Places
    <3> QED
      BY <1>1, <3>1, <3>2
  <2>4. \A i \in Places : i > 1 => array'[i] = Inner(recipe)[i]
    BY <1>1, <1>4 DEF LoopInv, Loops, LoopWords
  <2>5. \A i \in 1..Len(outer) : outer[i] = Outer(recipe)[Pass - 1 + i]
    BY <1>1 DEF LoopInv, Loops, LoopWords
  <2> QED
    BY <1>1, <1>4, <1>7, <2>1, <2>2, <2>3, <2>4, <2>5 DEF LoopWords
<1>12. Measurements'
  <2>1. \A q, i : Reached(q, i)' <=> Reached(q, i)
    BY <1>7, <1>8 DEF Reached
  <2> QED
    BY <1>1, <2>1, SameMeasurements DEF LoopInv, Loops
<1> QED
  BY <1>6, <1>9, <1>11, <1>12 DEF Loops

(* The next place is done. *)
LEMMA MeasureKeepsLoops ==
  ASSUME LoopInv, Measure PROVE Loops'
<1> DEFINE done == LastPlace - Len(inner)
<1>1. /\ Started /\ section = "inner" /\ Started' /\ ~Idle'
      /\ UNCHANGED <<recipe, outer>> /\ inner' = Tail(inner)
      /\ measured' = measured \cup {<<Head(outer), Head(inner)>>}
  BY DEF Measure, SameRecipe, Started, Idle
<1>2. /\ inner' # <<>> => /\ section' = "inner" /\ Assign(inner')
                         /\ todo' = InnerBefore(recipe, Head(outer))
      /\ inner' = <<>> => /\ section' = "next" /\ array' = array
                         /\ todo' = OuterAfter(recipe, Head(outer))
  BY DEF Measure
<1>3. /\ outer # <<>> /\ inner # <<>> /\ Len(inner) \in Nat \ {0} /\ Len(inner) <= LastPlace
      /\ inner \in Seq(WordTypes) /\ LastPlace \in Nat \ {0} /\ Len(array) = LastPlace
      /\ array \in Seq(WordTypes) /\ done \in Nat
  BY <1>1, StartedRecipe, EmptySeq DEF LoopInv, Loops, Sections, LoopWords
<1>4. /\ inner' \in Seq(WordTypes) /\ Len(inner') = Len(inner) - 1
      /\ \A i \in 1..Len(inner') : inner'[i] = inner[i + 1]
  BY <1>1, <1>3, HeadTailProperties
<1>5. /\ Pass \in Passes /\ Head(outer) = Outer(recipe)[Pass]
      /\ Head(inner) = Word(Pass, done + 1)
  <2>1. inner[1] = Word(Pass, done + 1)
    BY <1>1, <1>3 DEF LoopInv, Loops, LoopWords
  <2> QED
    BY <1>1, <1>3, <2>1, CurrentPass DEF LoopInv, Loops
<1>6. /\ array' \in Seq(WordTypes) /\ Len(array') = LastPlace
      /\ \A i \in Places : i > 1 => array'[i] = array[i]
  BY <1>1, <1>2, <1>3, <1>4, AssignedArray DEF LoopInv, Loops
<1>7. todo' \in Seq(Commands)
  BY <1>1, <1>2, <1>5, StartedRecipe, RecipeCommands DEF LoopInv, Loops, Passes, LastPass
<1>8. ScriptTypes'
  BY <1>1, <1>2, <1>4, <1>6, <1>7 DEF LoopInv, Loops, ScriptTypes
<1>9. Pass' = Pass /\ PlacesDone = done
  BY <1>1, SameWords DEF Pass, PlacesDone
<1>10. PlacesDone' = done + 1
  <2>1. PlacesDone' = LastPlace' - Len(inner')
    BY <1>2 DEF PlacesDone
  <2> QED
    BY <2>1, <1>1, <1>3, <1>4, SameWords
<1>11. Sections'
  <2>1. Len(outer) <= LastPass
    BY <1>1 DEF LoopInv, Loops, Sections
  <2>2. LastPass' = LastPass /\ LastPlace' = LastPlace /\ Len(inner') <= LastPlace
    BY <1>1, <1>3, <1>4, SameWords
  <2> QED
    BY <1>1, <1>2, <1>3, <2>1, <2>2 DEF Sections
<1>12. array'[1] = FirstPlace'
  <2>1. CASE inner' # <<>>
    <3>1. array'[1] = IF Overwrites(recipe) THEN Head(inner') ELSE array[1]
      BY <1>1, <1>2, <1>4, <2>1, AssignedArray DEF LoopInv, Loops
    <3>2. ~Overwrites(recipe) => array[1] = Inner(recipe)[1]
      BY <1>1, <1>3 DEF LoopInv, Loops, LoopWords, FirstPlace
    <3> QED
      BY <1>1, <1>2, <2>1, <3>1, <3>2 DEF FirstPlace
  <2>2. CASE inner' = <<>>
    <3>1. Len(inner) = 1 /\ done + 1 = LastPlace
      <4>1. Len(inner') = 0
        BY <2>2
      <4>2. Len(inner) = 1
        BY <1>3, <1>4, <4>1
      <4> QED
        BY <1>3, <4>2
    <3>2. array[1] = IF Overwrites(recipe) THEN Word(Pass, LastPlace) ELSE Inner(recipe)[1]
      BY <1>1, <1>3, <1>5, <3>1 DEF LoopInv, Loops, LoopWords, FirstPlace
    <3>3. Word(Pass, LastPlace) = Inner(recipe)[LastPlace] \/ ~Overwrites(recipe)
      BY DEF Word
    <3>4. Pass + 1 > 1
      BY <1>1, <1>5, StartedRecipe DEF LoopInv, Loops, Passes
    <3>5. Word(Pass + 1, 1) = IF Overwrites(recipe) THEN Inner(recipe)[LastPlace]
                              ELSE Inner(recipe)[1]
      BY <3>4 DEF Word
    <3>6. Word(Pass + 1, 1)' = Word(Pass + 1, 1)
      BY <1>1, <1>9, SameWords
    <3>7. FirstPlace' = Word(Pass + 1, 1)
      BY <1>2, <2>2, <3>6 DEF FirstPlace
    <3> QED
      BY <1>2, <2>2, <3>2, <3>3, <3>5, <3>7
  <2> QED
    BY <2>1, <2>2
<1>13. LoopWords'
  <2>1. LastPlace' = LastPlace /\ Places' = Places /\ \A q, i : Word(q, i)' = Word(q, i)
    BY <1>1, SameWords
  <2>2. \A i \in 1..Len(inner') : inner'[i] = Word(Pass, LastPlace - Len(inner') + i)
    <3> SUFFICES ASSUME NEW i \in 1..Len(inner')
                 PROVE  inner'[i] = Word(Pass, LastPlace - Len(inner') + i)
      OBVIOUS
    <3>1. i + 1 \in 1..Len(inner) /\ done + (i + 1) = LastPlace - Len(inner') + i
      BY <1>3, <1>4
    <3>2. inner[i + 1] = Word(Pass, done + (i + 1))
      BY <1>1, <3>1 DEF LoopInv, Loops, LoopWords
    <3> QED
      BY <1>4, <3>1, <3>2
  <2>3. \A i \in Places : i > 1 => array'[i] = Inner(recipe)[i]
    BY <1>1, <1>6 DEF LoopInv, Loops, LoopWords
  <2>4. \A i \in 1..Len(outer) : outer[i] = Outer(recipe)[Pass - 1 + i]
    BY <1>1 DEF LoopInv, Loops, LoopWords
  <2> QED
    BY <1>1, <1>6, <1>9, <1>12, <2>1, <2>2, <2>3, <2>4 DEF LoopWords
<1>14. Measurements'
  <2>1. Passes' = Passes /\ Places' = Places /\ \A q, i : Word(q, i)' = Word(q, i)
    BY <1>1, SameWords
  <2>2. \A q \in Passes, i \in Places :
          Reached(q, i)' <=> Reached(q, i) \/ (q = Pass /\ i = done + 1)
    <3>1. Pass \in Nat /\ Passes \subseteq Nat /\ Places \subseteq Nat
      BY <1>1, <1>3, <1>5, StartedRecipe DEF LoopInv, Loops, Passes, Places
    <3>2. \A i \in Nat : i <= done + 1 <=> i <= done \/ i = done + 1
      BY <1>3
    <3> HIDE DEF done
    <3>3. ASSUME NEW q \in Passes, NEW i \in Places
          PROVE  Reached(q, i)' <=> Reached(q, i) \/ (q = Pass /\ i = done + 1)
      <4>1. i <= done + 1 <=> i <= done \/ i = done + 1
        BY <3>1, <3>2
      <4>2. Reached(q, i)' <=> q < Pass \/ (q = Pass /\ i <= done + 1)
        BY <1>9, <1>10 DEF Reached
      <4>3. Reached(q, i) <=> q < Pass \/ (q = Pass /\ i <= done)
        BY <1>9 DEF Reached
      <4> QED
        BY <4>1, <4>2, <4>3
    <3> QED
      BY <3>3
  <2>3. measured' = measured \cup {<<Outer(recipe)[Pass], Word(Pass, done + 1)>>}
    BY <1>1, <1>5
  <2>4. done + 1 \in Places
    BY <1>3 DEF Places
  <2>5. Measurements
    BY DEF LoopInv, Loops
  <2> HIDE DEF done
  <2>6. ASSUME NEW q \in Passes, NEW i \in Places, Reached(q, i)'
        PROVE  <<Outer(recipe)[q], Word(q, i)>> \in measured'
    BY <1>1, <2>2, <2>3, <2>5, <2>6 DEF Measurements
  <2>7. ASSUME NEW m \in measured'
        PROVE  \E q \in Passes, i \in Places :
                 Reached(q, i)' /\ m = <<Outer(recipe)[q], Word(q, i)>>
    BY <1>1, <1>5, <2>2, <2>3, <2>4, <2>5 DEF Measurements
  <2> QED
    BY <1>1, <2>1, <2>6, <2>7 DEF Measurements
<1> QED
  BY <1>8, <1>11, <1>13, <1>14 DEF Loops

LEMMA NextOuterKeepsLoops ==
  ASSUME LoopInv, NextOuter PROVE Loops'
<1>1. /\ Started /\ section = "next" /\ Started' /\ ~Idle'
      /\ UNCHANGED <<recipe, array, inner, measured>> /\ outer' = Tail(outer)
  BY DEF NextOuter, SameRecipe, Started, Idle
<1>2. /\ outer' # <<>> => section' = "outer" /\ todo' = OuterBefore(recipe, Head(outer'))
      /\ outer' = <<>> => section' = "after" /\ todo' = AfterLoops(recipe)
  BY DEF NextOuter
<1>3. /\ outer # <<>> /\ inner = <<>> /\ Len(inner) = 0 /\ Len(outer) \in Nat \ {0}
      /\ outer \in Seq(WordTypes) /\ LastPass \in Nat \ {0} /\ Len(outer) <= LastPass
      /\ LastPlace \in Nat \ {0}
  BY <1>1, StartedRecipe, EmptySeq DEF LoopInv, Loops, Sections
<1>4. /\ outer' \in Seq(WordTypes) /\ Len(outer') = Len(outer) - 1
      /\ \A i \in 1..Len(outer') : outer'[i] = outer[i + 1]
  BY <1>1, <1>3, HeadTailProperties
<1>5. Pass' = Pass + 1 /\ Pass \in Int
  <2>1. Pass' = LastPass' - Len(outer') + 1
    BY DEF Pass
  <2>2. LastPass' = LastPass
    BY <1>1, SameWords
  <2>3. Pass' = LastPass - (Len(outer) - 1) + 1
    BY <1>4, <2>1, <2>2
  <2> QED
    BY <1>3, <2>3 DEF Pass
<1>6. PlacesDone = LastPlace /\ PlacesDone' = 0
  <2>1. PlacesDone = LastPlace - Len(inner)
    BY <1>1 DEF PlacesDone
  <2>2. section' \notin {"inner", "next"}
    BY <1>2
  <2>3. PlacesDone' = 0
    BY <2>2 DEF PlacesDone
  <2> QED
    BY <1>3, <2>1, <2>3
<1>7. \A i \in 1..Len(outer') : outer'[i] = Outer(recipe)[Pass + i]
  <2> SUFFICES ASSUME NEW i \in 1..Len(outer') PROVE outer'[i] = Outer(recipe)[Pass + i]
    OBVIOUS
  <2>1. i + 1 \in 1..Len(outer) /\ Pass - 1 + (i + 1) = Pass + i
    BY <1>3, <1>4, <1>5
  <2>2. outer[i + 1] = Outer(recipe)[Pass - 1 + (i + 1)]
    BY <1>1, <2>1 DEF LoopInv, Loops, LoopWords
  <2> QED
    BY <1>4, <2>1, <2>2
<1>8. ScriptTypes'
  <2>1. CASE outer' # <<>>
    <3>1. outer'[1] = Outer(recipe)[Pass + 1] /\ Pass + 1 \in 1..LastPass
      <4>1. Len(outer') \in Nat \ {0}
        BY <1>4, <2>1, LenProperties, EmptySeq
      <4>2. 1 \in 1..Len(outer')
        BY <4>1
      <4>3. Pass + 1 \in 1..LastPass
        BY <1>3, <1>4, <4>1 DEF Pass
      <4> QED
        BY <1>7, <4>2, <4>3
    <3>2. todo' \in Seq(Commands)
      <4>1. Head(outer') = outer'[1]
        BY <1>4, <2>1, HeadTailProperties
      <4>2. todo' = OuterBefore(recipe, Outer(recipe)[Pass + 1])
        BY <1>2, <2>1, <3>1, <4>1
      <4>3. recipe \in RecipeNames
        BY <1>1, StartedRecipe DEF LoopInv, Loops
      <4> QED
        BY <3>1, <4>2, <4>3, RecipeCommands DEF LastPass
    <3> QED
      BY <1>1, <1>2, <1>4, <2>1, <3>2 DEF LoopInv, Loops, ScriptTypes
  <2>2. CASE outer' = <<>>
    <3>1. todo' \in Seq(Commands)
      BY <1>1, <1>2, <2>2, StartedRecipe, RecipeCommands DEF LoopInv, Loops
    <3> QED
      BY <1>1, <1>2, <1>4, <2>2, <3>1 DEF LoopInv, Loops, ScriptTypes
  <2> QED
    BY <2>1, <2>2
<1>9. Sections'
  <2>1. LastPass' = LastPass /\ LastPlace' = LastPlace /\ Len(outer') <= LastPass
    BY <1>1, <1>3, <1>4, SameWords
  <2>2. Len(inner) <= LastPlace
    BY <1>3
  <2> QED
    BY <1>1, <1>2, <1>3, <2>1, <2>2 DEF Sections
<1>10. outer' # <<>> => array'[1] = FirstPlace'
  <2>1. array[1] = Word(Pass + 1, 1)
    BY <1>1, <1>3 DEF LoopInv, Loops, LoopWords, FirstPlace
  <2>2. Word(Pass, 1)' = Word(Pass + 1, 1)
    BY <1>1, <1>5, SameWords
  <2> QED
    BY <1>1, <1>2, <2>1, <2>2 DEF FirstPlace
<1>11. LoopWords'
  <2>1. LastPlace' = LastPlace /\ Places' = Places /\ \A q, i : Word(q, i)' = Word(q, i)
    BY <1>1, SameWords
  <2>2. \A i \in 1..Len(outer') : outer'[i] = Outer(recipe)[Pass' - 1 + i]
    <3>1. ASSUME NEW i \in 1..Len(outer') PROVE Pass' - 1 + i = Pass + i
      BY <1>4, <1>3, <1>5
    <3> QED
      BY <1>7, <3>1
  <2>3. 1..Len(inner) = {}
    BY <1>3
  <2>4. Len(array) = LastPlace /\ \A i \in Places : i > 1 => array[i] = Inner(recipe)[i]
    BY <1>1 DEF LoopInv, Loops, LoopWords
  <2> QED
    BY <1>1, <1>10, <2>1, <2>2, <2>3, <2>4 DEF LoopWords
<1>12. Measurements'
  <2>1. \A q \in Passes, i \in Places : Reached(q, i)' <=> Reached(q, i)
    BY <1>3, <1>5, <1>6 DEF Reached, Passes, Places
  <2> QED
    BY <1>1, <2>1, SameMeasurements DEF LoopInv, Loops
<1> QED
  BY <1>8, <1>9, <1>11, <1>12 DEF Loops

-----------------------------------------------------------------------------
(* Every step keeps the place. *)

LEMMA RequestsOfOneShell ==
  ASSUME TypeOK, NEW s \in Shells, Requests(s)
  PROVE  call[s].verb # "none" /\ \A t \in Shells : t # s => call'[t] = call[t]
<1>1. call[s].verb # "none"
  BY DEF Requests, Create, CreateRefused, Delete, Get, NotFound, Update, Conflict, RequestFails
<1>2. \A t \in Shells : t # s => call'[t] = call[t]
  BY DEF TypeOK, Requests, Create, CreateRefused, Delete, Get, NotFound, Update, Conflict,
         RequestFails, Skip, Proceed, Return
<1> QED
  BY <1>1, <1>2

(* Steps of the other shells and of the cluster. *)
LEMMA OthersKeepLoops ==
  ASSUME LoopInv, UNCHANGED script, Idle => call'["script"] = call["script"]
  PROVE  Loops'
<1>1. UNCHANGED <<recipe, section, todo, outer, array, inner, measured>>
  BY DEF script
<1>2. Sections' /\ LoopWords' /\ Measurements'
  BY <1>1, SameLoops
<1>3. ScriptTypes'
  BY <1>1 DEF LoopInv, Loops, ScriptTypes, Idle, Started
<1> QED
  BY <1>2, <1>3 DEF Loops

LEMMA LoopInvNext == LoopInv /\ [ScenariosNext]_allVars => LoopInv'
<1> SUFFICES ASSUME LoopInv, [ScenariosNext]_allVars
             PROVE  TypeOK' /\ Loops'
  BY DEF LoopInv
<1>1. TypeOK'
  BY ScenarioSteps, TypeOKNext DEF LoopInv, Loops
<1> SUFFICES Loops'
  BY <1>1
<1>2. ASSUME NEW r \in Recipes, Begin(r) PROVE Loops'
  BY <1>2, BeginKeepsLoops
<1>3. CASE RunDeployer \/ PatchAutoscaler \/ PatchConcurrency \/ KubectlFails
  BY <1>3, CommandKeepsLoops DEF RunDeployer, PatchAutoscaler, PatchConcurrency, KubectlFails
<1>4. CASE EnterOuter \/ EnterInner \/ Measure \/ NextOuter \/ Finish \/ Interrupt
  BY <1>4, EnterOuterKeepsLoops, EnterInnerKeepsLoops, MeasureKeepsLoops, NextOuterKeepsLoops,
     FinishKeepsLoops, InterruptKeepsLoops
<1>5. ASSUME NEW c \in ManualCalls, Manual(c) PROVE Loops'
  <2>1. call'["script"] = call["script"]
    BY <1>5, ShellsAssumption DEF Manual, Start, LoopInv, TypeOK
  <2> QED
    BY <1>5, <2>1, OthersKeepLoops DEF Manual
<1>6. ASSUME NEW s \in Shells, Requests(s), UNCHANGED script PROVE Loops'
  <2>1. NoCall.verb = "none" /\ (Idle => call["script"] = NoCall)
    BY DEF LoopInv, Loops, ScriptTypes, NoCall
  <2>2. Idle => call'["script"] = call["script"]
    BY <1>6, <2>1, RequestsOfOneShell, ShellsAssumption DEF LoopInv, Loops
  <2> QED
    BY <1>6, <2>2, OthersKeepLoops
<1>7. CASE Controllers /\ UNCHANGED script
  <2>1. call' = call
    BY <1>7 DEF Controllers, Touched, Removed, Others
  <2> QED
    BY <1>7, <2>1, OthersKeepLoops
<1>8. CASE Stopped \/ UNCHANGED allVars
  <2>1. UNCHANGED script /\ call' = call
    BY <1>8 DEF Stopped, allVars, vars
  <2> QED
    BY <2>1, OthersKeepLoops
<1> QED
  BY <1>2, <1>3, <1>4, <1>5, <1>6, <1>7, <1>8 DEF ScenariosNext, Script

LEMMA ScenariosStart == ScenariosInit => Init
  BY DEF ScenariosInit, Init

LEMMA LoopInvInit == ScenariosInit => LoopInv
<1> SUFFICES ASSUME ScenariosInit PROVE LoopInv
  OBVIOUS
<1>1. TypeOK
  BY ScenariosStart, TypeOKInit
<1>2. ~Started /\ Idle
  BY DEF ScenariosInit, Started, Idle
<1>3. ScriptTypes
  BY <1>2, EmptySeq, ShellsAssumption DEF ScenariosInit, ScriptTypes
<1> QED
  BY <1>1, <1>2, <1>3 DEF LoopInv, Loops, Sections, LoopWords, Measurements

(* Whatever a recipe does to the objects of the cluster is something the deployers and
   kubectl of Deployer may do. *)
THEOREM ScenariosUseDeployer == ScenariosSpec => Spec
<1>1. LoopInv /\ [ScenariosNext]_allVars => [Next]_vars
  BY ScenarioSteps DEF LoopInv, Loops
<1> QED
  BY ScenariosStart, LoopInvInit, LoopInvNext, <1>1, PTL DEF ScenariosSpec, Spec

(* So no patch made by a recipe or beside it is undone by another. *)
THEOREM ScenariosKeepPatches == ScenariosSpec => []PatchesHold
  BY ScenariosUseDeployer, PatchesAreKept, PTL

-----------------------------------------------------------------------------
(* Types, and what was measured. *)

Counters == runs \in 0..MaxRuns /\ manual \in 0..MaxManual

LEMMA CountersNext == Counters /\ [ScenariosNext]_allVars => Counters'
<1> SUFFICES ASSUME Counters, [ScenariosNext]_allVars PROVE Counters'
  OBVIOUS
<1> USE BoundsAssumption DEF Counters
<1>1. ASSUME NEW r \in Recipes, Begin(r) PROVE Counters'
  <2>1. runs < MaxRuns /\ runs' = runs + 1 /\ manual' = manual
    BY <1>1 DEF Begin
  <2> QED
    BY <2>1
<1>2. ASSUME NEW c \in ManualCalls, Manual(c) PROVE Counters'
  BY <1>2 DEF Manual, script
<1>3. CASE UNCHANGED <<runs, manual>>
  BY <1>3
<1>4. Script => UNCHANGED <<runs, manual>>
  BY DEF Script, RunDeployer, PatchAutoscaler, PatchConcurrency, KubectlFails, Command,
     EnterOuter, EnterInner, Measure, NextOuter, Finish, SameRecipe, Interrupt
<1> QED
  BY <1>1, <1>2, <1>3, <1>4 DEF ScenariosNext, Stopped, allVars, script

(* A recipe only gives the deployer calls about some object, and has a word left in
   each of the loops it is in. *)
THEOREM ScenariosTypeCorrect == ScenariosSpec => []ScenariosTypeOK
<1>1. LoopInv /\ Counters => ScenariosTypeOK
  <2> SUFFICES ASSUME LoopInv, Counters PROVE ScenariosTypeOK
    OBVIOUS
  <2>1. ~Idle => Started
    BY DEF Idle, Started
  <2>2. /\ section \in {"before", "outer", "inner", "next"} => outer # <<>>
        /\ section = "inner" => inner # <<>>
    BY DEF LoopInv, Loops, Sections, Started
  <2>3. \A i \in 1..Len(todo) : todo[i] \in Commands
    BY ElementOfSeq DEF LoopInv, Loops, ScriptTypes
  <2>4. \A c \in Commands : c.tool = "deployer" => c.call.verb # "none" /\ c.call.keys # <<>>
    BY DEF Commands, Calls
  <2> HIDE DEF Commands
  <2> QED
    BY <2>1, <2>2, <2>3, <2>4 DEF LoopInv, Loops, ScriptTypes, Counters, ScenariosTypeOK
<1>2. ScenariosInit => Counters
  BY BoundsAssumption DEF ScenariosInit, Counters
<1> QED
  BY LoopInvInit, LoopInvNext, CountersNext, <1>1, <1>2, PTL DEF ScenariosSpec

(* For any words in the loops: a recipe that ran to its end has measured all its rates with
   the first word of the outer loop, and all but the first rate with the others, whatever
   failed on the way. *)
THEOREM RatesAreMeasured == ScenariosSpec => []AllButFirstRateMeasured
<1>1. LoopInv => AllButFirstRateMeasured
  <2> SUFFICES ASSUME LoopInv, section = "finished", NEW o \in Passes, NEW i \in Places,
                      o = 1 \/ i # 1 \/ ~Overwrites(recipe)
               PROVE  <<Outer(recipe)[o], Inner(recipe)[i]>> \in measured
    BY DEF AllButFirstRateMeasured, Passes, Places, LastPass, LastPlace
  <2>1. Started /\ outer = <<>>
    BY DEF Started, LoopInv, Loops, Sections
  <2>2. LastPass \in Nat
    BY <2>1, StartedRecipe DEF LoopInv, Loops
  <2>3. Pass = LastPass + 1
    BY <2>1, <2>2 DEF Pass
  <2>4. Reached(o, i)
    BY <2>2, <2>3 DEF Reached, Passes
  <2>5. Word(o, i) = Inner(recipe)[i]
    BY DEF Word
  <2> QED
    BY <2>1, <2>4, <2>5 DEF LoopInv, Loops, Measurements
<1> QED
  BY LoopInvInit, LoopInvNext, <1>1, PTL DEF ScenariosSpec

-----------------------------------------------------------------------------
(* Where a recipe is in its commands, and what the deployer it started is at. *)

IsTail(s, t) == /\ Len(s) <= Len(t)
                /\ \A i \in 1..Len(s) : s[i] = t[Len(t) - Len(s) + i]

(* The commands of the section. *)
Plan == CASE section = "before" -> BeforeLoops(recipe)
          [] section = "outer" -> OuterBefore(recipe, Head(outer))
          [] section = "inner" -> InnerBefore(recipe, Head(outer))
          [] section = "next" -> OuterAfter(recipe, Head(outer))
          [] section = "after" -> AfterLoops(recipe)
          [] OTHER -> <<>>

(* The command given last. *)
Given == Plan[Len(Plan) - Len(todo)]

OnPlan == IsTail(todo, Plan)

CallAsGiven ==
  call["script"] # NoCall =>
    /\ Len(todo) < Len(Plan) /\ Given.tool = "deployer"
    /\ call["script"].sets = Given.call.sets
    /\ \/ call["script"].verb = Given.call.verb
       \/ call["script"].verb = "update" /\ Given.call.verb = "get"
    /\ IsTail(call["script"].keys, Given.call.keys)

(* Calls that are not the script's are about kinds in trouble. *)
OthersAreTrouble ==
  \A s \in Shells \ {"script"} :
    \A i \in 1..Len(call[s].keys) : call[s].keys[i].kind \in troubled

PlanInv == LoopInv /\ OnPlan /\ CallAsGiven /\ OthersAreTrouble

LEMMA TailOfTail ==
  ASSUME NEW S, NEW s \in Seq(S), NEW t \in Seq(S), IsTail(s, t), s # <<>>
  PROVE  /\ Len(s) \in Nat \ {0} /\ Len(t) - Len(s) + 1 \in 1..Len(t)
         /\ Head(s) = t[Len(t) - Len(s) + 1]
         /\ Tail(s) \in Seq(S) /\ Len(Tail(s)) = Len(s) - 1 /\ IsTail(Tail(s), t)
<1>1. Len(s) \in Nat \ {0} /\ Len(t) \in Nat /\ Len(s) <= Len(t)
  BY EmptySeq, LenProperties DEF IsTail
<1>2. /\ Tail(s) \in Seq(S) /\ Len(Tail(s)) = Len(s) - 1 /\ Head(s) = s[1]
      /\ \A i \in 1..Len(Tail(s)) : Tail(s)[i] = s[i + 1]
  BY HeadTailProperties
<1>3. \A i \in 1..Len(s) : s[i] = t[Len(t) - Len(s) + i]
  BY DEF IsTail
<1>4. Head(s) = t[Len(t) - Len(s) + 1]
  BY <1>1, <1>2, <1>3
<1>5. ASSUME NEW i \in 1..Len(Tail(s)) PROVE Tail(s)[i] = t[Len(t) - Len(Tail(s)) + i]
  <2>1. i + 1 \in 1..Len(s) /\ Len(t) - Len(s) + (i + 1) = Len(t) - Len(Tail(s)) + i
    BY <1>1, <1>2
  <2> QED
    BY <1>2, <1>3, <2>1
<1> QED
  BY <1>1, <1>2, <1>4, <1>5 DEF IsTail

LEMMA WholeTail ==
  ASSUME NEW S, NEW s \in Seq(S) PROVE IsTail(s, s) /\ IsTail(<<>>, s)
<1>1. Len(s) \in Nat /\ Len(<<>>) = 0
  BY EmptySeq, LenProperties
<1> QED
  BY <1>1 DEF IsTail

LEMMA PlanIsCommands ==
  ASSUME LoopInv PROVE Plan \in Seq(Commands) /\ todo \in Seq(Commands)
<1>1. todo \in Seq(Commands)
  BY DEF LoopInv, Loops, ScriptTypes
<1>2. CASE section \in {"stopped", "finished"}
  BY <1>1, <1>2, EmptySeq DEF Plan
<1>3. CASE section \in {"before", "after"}
  <2>1. recipe \in RecipeNames
    BY <1>3, StartedRecipe DEF Started, LoopInv, Loops
  <2> QED
    BY <1>1, <1>3, <2>1, RecipeCommands DEF Plan
<1>4. CASE section \in {"outer", "inner", "next"}
  <2>1. Started /\ outer # <<>> /\ recipe \in RecipeNames
    BY <1>4, StartedRecipe DEF Started, LoopInv, Loops, Sections
  <2>2. Head(outer) = Outer(recipe)[Pass] /\ Pass \in 1..Len(Outer(recipe))
    BY <2>1, CurrentPass DEF LoopInv, Loops, Passes, LastPass
  <2> QED
    BY <1>1, <1>4, <2>1, <2>2, RecipeCommands DEF Plan
<1> QED
  BY <1>2, <1>3, <1>4 DEF LoopInv, Loops, ScriptTypes

LEMMA SamePlan == UNCHANGED <<recipe, section, outer>> => Plan' = Plan
  BY DEF Plan

(* A command of the recipe is given. *)
LEMMA CommandGiven ==
  ASSUME LoopInv, OnPlan, NEW tool, Command(tool)
  PROVE  /\ Plan' = Plan /\ OnPlan' /\ Given' = Head(todo) /\ Len(todo') < Len(Plan')
         /\ Len(todo) \in 1..Len(Plan) /\ Len(todo') = Len(todo) - 1
<1>1. Plan' = Plan /\ todo' = Tail(todo) /\ todo # <<>>
  BY SamePlan DEF Command
<1>2. /\ Len(todo) \in Nat \ {0} /\ Len(Plan) - Len(todo) + 1 \in 1..Len(Plan)
      /\ Head(todo) = Plan[Len(Plan) - Len(todo) + 1]
      /\ Len(Tail(todo)) = Len(todo) - 1 /\ IsTail(Tail(todo), Plan)
  BY <1>1, PlanIsCommands, TailOfTail DEF OnPlan
<1>3. Len(Plan) \in Nat
  BY PlanIsCommands, LenProperties
<1>4. Len(Plan) - (Len(todo) - 1) = Len(Plan) - Len(todo) + 1
  BY <1>2, <1>3
<1> QED
  BY <1>1, <1>2, <1>3, <1>4 DEF OnPlan, Given

-----------------------------------------------------------------------------
(* The command c when n are left, it among them, by what it is for. *)

Amount == IF recipe = "eventing-scenario-2" THEN Head(outer) ELSE 1

DeploysService(n, c) ==
  /\ section = "before"
  /\ \/ recipe = "eventing-scenario-1" /\ n = 2 /\ c = Deployer(deploy("reciever", 1))
     \/ recipe = "serving-scenario-3" /\ n = 3 /\ c = Deployer(deploy("sleep-go-http", 1))

DeploysTriggers(n, c) ==
  /\ n = 1 /\ c = Deployer(deployTrigger("trigger", Amount))
  /\ \/ recipe = "eventing-scenario-2" /\ section = "outer"
     \/ recipe \in {"eventing-scenario-1", "eventing-scenario-3"} /\ section = "before"

PatchesTrigger(n, c) ==
  /\ n = 1 /\ c = Deployer(patchTrigger(Trigger(0), Head(outer)))
  /\ recipe = "eventing-scenario-3" /\ section = "inner"

DeletesTriggers(n, c) ==
  /\ n = 1 /\ c = Deployer(deleteTrigger("trigger", Amount))
  /\ \/ recipe = "eventing-scenario-2" /\ section = "next"
     \/ recipe \in {"eventing-scenario-1", "eventing-scenario-3"} /\ section = "after"

PatchesAutoscaler(n, c) ==
  \/ /\ recipe = "serving-scenario-2"
     /\ \/ section = "before" /\ n = 2 /\ c = PatchConfig("scale-to-zero-grace-period", "10s")
        \/ section = "before" /\ n = 1 /\ c = PatchConfig("stable-window", "10s")
        \/ section = "after" /\ n = 2 /\ c = PatchConfig("scale-to-zero-grace-period", "30s")
        \/ section = "after" /\ n = 1 /\ c = PatchConfig("stable-window", "60s")
  \/ /\ recipe = "serving-scenario-3" /\ section = "before"
     /\ n = 2 /\ c = PatchConfig("max-scale", "400")

PatchesConcurrency(n, c) ==
  /\ recipe = "serving-scenario-3" /\ n = 1
  /\ \/ section = "before" /\ c = PatchService(Service("sleep-go-http"), "1")
     \/ section = "after" /\ c = PatchService(Service("empty-go-http"), "0")

Planned(n, c) == \/ DeploysService(n, c) \/ DeploysTriggers(n, c) \/ PatchesTrigger(n, c)
                 \/ DeletesTriggers(n, c) \/ PatchesAutoscaler(n, c) \/ PatchesConcurrency(n, c)

LEMMA PlanIsPlanned ==
  ASSUME LoopInv, NEW n \in 1..Len(Plan)
  PROVE  Planned(n, Plan[Len(Plan) - n + 1])
<1> DEFINE c == Plan[Len(Plan) - n + 1]
<1>1. Started => recipe \in RecipeNames
  BY StartedRecipe DEF LoopInv, Loops
<1>2. Plan # <<>>
  BY EmptySeq
<1>3. ASSUME NEW d, Plan = <<d>> PROVE n = 1 /\ c = d
  BY <1>3
<1>4. ASSUME NEW d, NEW e, Plan = <<d, e>> PROVE (n = 2 /\ c = d) \/ (n = 1 /\ c = e)
  BY <1>4
<1>5. ASSUME NEW d, NEW e, NEW f, Plan = <<d, e, f>>
      PROVE  (n = 3 /\ c = d) \/ (n = 2 /\ c = e) \/ (n = 1 /\ c = f)
  BY <1>5
<1> HIDE DEF c
<1>6. CASE section = "before"
  <2>1. Plan = BeforeLoops(recipe) /\ recipe \in RecipeNames
    BY <1>1, <1>6 DEF Plan, Started
  <2>2. CASE recipe = "eventing-scenario-1"
    <3>1. Plan = <<Deployer(deploy("reciever", 1)), Deployer(deployTrigger("trigger", 1))>>
      BY <2>1, <2>2 DEF BeforeLoops
    <3> QED
      BY <1>4, <1>6, <2>2, <3>1 DEF Planned, DeploysService, DeploysTriggers, Amount, c
  <2>3. CASE recipe = "eventing-scenario-3"
    <3>1. Plan = <<Deployer(deployTrigger("trigger", 1))>>
      BY <2>1, <2>3 DEF BeforeLoops
    <3> QED
      BY <1>3, <1>6, <2>3, <3>1 DEF Planned, DeploysTriggers, Amount, c
  <2>4. CASE recipe = "serving-scenario-2"
    <3>1. Plan = <<PatchConfig("scale-to-zero-grace-period", "10s"),
                   PatchConfig("stable-window", "10s")>>
      BY <2>1, <2>4 DEF BeforeLoops
    <3> QED
      BY <1>4, <1>6, <2>4, <3>1 DEF Planned, PatchesAutoscaler, c
  <2>5. CASE recipe = "serving-scenario-3"
    <3>1. Plan = <<Deployer(deploy("sleep-go-http", 1)), PatchConfig("max-scale", "400"),
                   PatchService(Service("sleep-go-http"), "1")>>
      BY <2>1, <2>5 DEF BeforeLoops
    <3> QED
      BY <1>5, <1>6, <2>5, <3>1
      DEF Planned, DeploysService, PatchesAutoscaler, PatchesConcurrency, c
  <2>6. recipe \notin {"eventing-scenario-2", "serving-scenario-1"}
    BY <1>2, <2>1 DEF BeforeLoops
  <2> QED
    BY <2>1, <2>2, <2>3, <2>4, <2>5, <2>6 DEF RecipeNames
<1>7. CASE section = "outer"
  <2>1. recipe = "eventing-scenario-2" /\ Plan = <<Deployer(deployTrigger("trigger", Head(outer)))>>
    BY <1>2, <1>7 DEF Plan, OuterBefore
  <2> QED
    BY <1>3, <1>7, <2>1 DEF Planned, DeploysTriggers, Amount, c
<1>8. CASE section = "inner"
  <2>1. recipe = "eventing-scenario-3" /\ Plan = <<Deployer(patchTrigger(Trigger(0), Head(outer)))>>
    BY <1>2, <1>8 DEF Plan, InnerBefore
  <2> QED
    BY <1>3, <1>8, <2>1 DEF Planned, PatchesTrigger, c
<1>9. CASE section = "next"
  <2>1. recipe = "eventing-scenario-2" /\ Plan = <<Deployer(deleteTrigger("trigger", Head(outer)))>>
    BY <1>2, <1>9 DEF Plan, OuterAfter
  <2> QED
    BY <1>3, <1>9, <2>1 DEF Planned, DeletesTriggers, Amount, c
<1>10. CASE section = "after"
  <2>1. Plan = AfterLoops(recipe)
    BY <1>10 DEF Plan
  <2>2. CASE recipe \in {"eventing-scenario-1", "eventing-scenario-3"}
    <3>1. Plan = <<Deployer(deleteTrigger("trigger", 1))>> /\ recipe # "eventing-scenario-2"
      BY <2>1, <2>2 DEF AfterLoops
    <3> QED
      BY <1>3, <1>10, <2>2, <3>1 DEF Planned, DeletesTriggers, Amount, c
  <2>3. CASE recipe = "serving-scenario-2"
    <3>1. Plan = <<PatchConfig("scale-to-zero-grace-period", "30s"),
                   PatchConfig("stable-window", "60s")>>
      BY <2>1, <2>3 DEF AfterLoops
    <3> QED
      BY <1>4, <1>10, <2>3, <3>1 DEF Planned, PatchesAutoscaler, c
  <2>4. CASE recipe = "serving-scenario-3"
    <3>1. Plan = <<PatchService(Service("empty-go-http"), "0")>>
      BY <2>1, <2>4 DEF AfterLoops
    <3> QED
      BY <1>3, <1>10, <2>4, <3>1 DEF Planned, PatchesConcurrency, c
  <2>5. recipe \in {"eventing-scenario-1", "eventing-scenario-3",
                    "serving-scenario-2", "serving-scenario-3"}
    BY <1>2, <2>1 DEF AfterLoops
  <2> QED
    BY <2>2, <2>3, <2>4, <2>5
<1>11. section \in {"before", "outer", "inner", "next", "after"}
  BY <1>2 DEF Plan
<1> QED
  BY <1>6, <1>7, <1>8, <1>9, <1>10, <1>11 DEF c

(* Of the command to come, and of the one given last. *)
LEMMA HeadIsPlanned ==
  ASSUME LoopInv, OnPlan, todo # <<>>
  PROVE  Len(todo) \in 1..Len(Plan) /\ Planned(Len(todo), Head(todo))
<1>1. /\ Len(todo) \in Nat \ {0} /\ Len(Plan) - Len(todo) + 1 \in 1..Len(Plan)
      /\ Head(todo) = Plan[Len(Plan) - Len(todo) + 1]
  BY PlanIsCommands, TailOfTail DEF OnPlan
<1>2. Len(todo) \in 1..Len(Plan)
  BY <1>1, PlanIsCommands, LenProperties DEF OnPlan, IsTail
<1> QED
  BY <1>1, <1>2, PlanIsPlanned

LEMMA GivenIsPlanned ==
  ASSUME LoopInv, OnPlan, Len(todo) < Len(Plan)
  PROVE  Planned(Len(todo) + 1, Given)
<1>1. Len(todo) \in Nat /\ Len(Plan) \in Nat
  BY PlanIsCommands, LenProperties
<1>2. Len(todo) + 1 \in 1..Len(Plan) /\ Len(Plan) - (Len(todo) + 1) + 1 = Len(Plan) - Len(todo)
  BY <1>1
<1> QED
  BY <1>2, PlanIsPlanned DEF Given

LEMMA AmountOfTriggers ==
  ASSUME LoopInv, Started, outer # <<>> \/ recipe # "eventing-scenario-2"
  PROVE  Amount \in Nat \ {0} /\ \A i \in 0..(Amount - 1) : Trigger(i) \in Keys
<1>1. CASE recipe = "eventing-scenario-2"
  <2>1. Outer(recipe) = Amounts
    BY <1>1 DEF Outer
  <2>2. Pass \in 1..Len(Amounts) /\ Head(outer) = Amounts[Pass]
    BY <1>1, <2>1, CurrentPass DEF LoopInv, Loops, Passes, LastPass
  <2>3. Amount = Amounts[Pass] /\ Amounts[Pass] \in Nat \ {0}
    BY <1>1, <2>2, WordsAssumption, ElementOfSeq DEF Words, Amount
  <2>4. \A i \in 0..(Amounts[Pass] - 1) : i + 1 \in 1..Amounts[Pass] /\ (i + 1) - 1 = i
    BY <2>3
  <2>5. \A i \in 1..Amounts[Pass] : Trigger(i - 1) \in Keys
    BY <2>2, RecipeKeysAssumption
  <2> HIDE DEF Trigger
  <2>6. ASSUME NEW i \in 0..(Amounts[Pass] - 1) PROVE Trigger(i) \in Keys
    <3>1. Trigger((i + 1) - 1) \in Keys
      BY <2>4, <2>5
    <3> QED
      BY <2>4, <3>1
  <2> QED
    BY <2>3, <2>6
<1>2. CASE recipe # "eventing-scenario-2"
  <2>1. Amount = 1
    BY <1>2 DEF Amount
  <2>2. \A i \in 0..(1 - 1) : i = 0
    OBVIOUS
  <2> QED
    BY <2>1, <2>2, RecipeKeysAssumption
<1> QED
  BY <1>1, <1>2

-----------------------------------------------------------------------------
(* Every step keeps to the plan. *)

LEMMA TroubleStays ==
  ASSUME TypeOK, [ScenariosNext]_allVars PROVE troubled \subseteq troubled'
<1>1. ASSUME NEW s \in Shells, Requests(s) PROVE troubled \subseteq troubled'
  BY <1>1 DEF Requests, Create, CreateRefused, Delete, Get, NotFound, Update, Conflict,
              RequestFails, Trouble
<1>2. Interrupt \/ KubectlFails => troubled \subseteq troubled'
  BY DEF Interrupt, KubectlFails, TypeOK
<1>3. ASSUME NEW c \in ManualCalls, Manual(c) PROVE troubled \subseteq troubled'
  BY <1>3 DEF Manual
<1>4. RunDeployer \/ PatchAutoscaler \/ PatchConcurrency => troubled' = troubled
  BY DEF RunDeployer, PatchAutoscaler, PatchConcurrency, KubectlPatch, vars
<1>5. EnterOuter \/ EnterInner \/ Measure \/ NextOuter \/ Finish => troubled' = troubled
  BY DEF EnterOuter, EnterInner, Measure, NextOuter, Finish, SameRecipe, vars
<1>6. Controllers \/ Stopped \/ UNCHANGED allVars => troubled' = troubled
  BY DEF Controllers, Touched, Removed, Stopped, allVars, vars
<1>7. (\E r \in Recipes : Begin(r)) => troubled' = troubled
  BY DEF Begin, vars
<1> QED
  BY <1>1, <1>2, <1>3, <1>4, <1>5, <1>6, <1>7 DEF ScenariosNext, Script

(* What a request leaves of its shell's call. *)
LEMMA RestOfCall ==
  ASSUME TypeOK, NEW s \in Shells, Requests(s)
  PROVE  /\ call[s] # NoCall /\ call[s].keys \in Seq(Keys) /\ call[s].keys # <<>>
         /\ \/ call'[s] = NoCall
            \/ call'[s] = [call[s] EXCEPT !.keys = Tail(@)]
            \/ call[s].verb = "get" /\ call'[s] = [call[s] EXCEPT !.verb = "update"]
<1>1. call[s].verb # "none"
  BY RequestsOfOneShell
<1>2. call[s] # NoCall /\ call[s].keys \in Seq(Keys) /\ call[s].keys # <<>>
  BY <1>1 DEF TypeOK, Call, NoCall
<1>3. Proceed(s) => call'[s] = NoCall \/ call'[s] = [call[s] EXCEPT !.keys = Tail(@)]
  BY DEF Proceed, Rest, TypeOK
<1>4. Return(s) => call'[s] = NoCall
  BY DEF Return, TypeOK
<1>5. Get(s) => call[s].verb = "get" /\ call'[s] = [call[s] EXCEPT !.verb = "update"]
  BY DEF Get, TypeOK
<1> QED
  BY <1>2, <1>3, <1>4, <1>5
  DEF Requests, Create, CreateRefused, Delete, NotFound, Update, Conflict, RequestFails, Skip

LEMMA GivenToDeployer ==
  ASSUME LoopInv, Len(todo) < Len(Plan), Given.tool = "deployer"
  PROVE  Given.call \in Calls /\ Given.call.keys \in Seq(Keys)
<1>1. Len(Plan) - Len(todo) \in 1..Len(Plan)
  BY PlanIsCommands, LenProperties
<1>2. Given \in Commands
  BY <1>1, PlanIsCommands, ElementOfSeq DEF Given
<1> QED
  BY <1>2 DEF Commands, Calls, Call

LEMMA RequestKeepsCall ==
  ASSUME PlanInv, Requests("script"), UNCHANGED script PROVE CallAsGiven'
<1>1. Given' = Given /\ Plan' = Plan /\ todo' = todo
  BY SamePlan DEF script, Given
<1>2. TypeOK /\ "script" \in Shells
  BY ShellsAssumption DEF PlanInv, LoopInv
<1>3. call["script"] # NoCall /\ call["script"].keys \in Seq(Keys) /\ call["script"].keys # <<>>
  BY <1>2, RestOfCall
<1>4. /\ Len(todo) < Len(Plan) /\ Given.tool = "deployer"
      /\ call["script"].sets = Given.call.sets
      /\ \/ call["script"].verb = Given.call.verb
         \/ call["script"].verb = "update" /\ Given.call.verb = "get"
      /\ IsTail(call["script"].keys, Given.call.keys)
  BY <1>3 DEF PlanInv, CallAsGiven
<1>5. Given.call.keys \in Seq(Keys)
  BY <1>4, GivenToDeployer DEF PlanInv
<1>6. call["script"] \in Call
  BY <1>2 DEF TypeOK
<1>7. CASE call'["script"] = NoCall
  BY <1>7 DEF CallAsGiven
<1>8. CASE call'["script"] = [call["script"] EXCEPT !.keys = Tail(@)]
  <2>1. IsTail(Tail(call["script"].keys), Given.call.keys)
    BY <1>3, <1>4, <1>5, TailOfTail
  <2>2. /\ call'["script"].sets = call["script"].sets /\ call'["script"].verb = call["script"].verb
        /\ call'["script"].keys = Tail(call["script"].keys)
    BY <1>6, <1>8 DEF Call
  <2> QED
    BY <1>1, <1>4, <2>1, <2>2 DEF CallAsGiven
<1>9. CASE call["script"].verb = "get" /\ call'["script"] = [call["script"] EXCEPT !.verb = "update"]
  <2>1. /\ call'["script"].sets = call["script"].sets /\ call'["script"].verb = "update"
        /\ call'["script"].keys = call["script"].keys
    BY <1>6, <1>9 DEF Call
  <2>2. Given.call.verb = "get"
    BY <1>4, <1>9
  <2> QED
    BY <1>1, <1>4, <2>1, <2>2 DEF CallAsGiven
<1> QED
  BY <1>2, <1>7, <1>8, <1>9, RestOfCall

(* The script's call and its place in the plan stay. *)
LEMMA SameCallAsGiven ==
  ASSUME PlanInv, UNCHANGED script, call'["script"] = call["script"]
  PROVE  OnPlan' /\ CallAsGiven'
<1>1. Given' = Given /\ Plan' = Plan /\ todo' = todo
  BY SamePlan DEF script, Given
<1> QED
  BY <1>1 DEF PlanInv, OnPlan, CallAsGiven

PlanTyped == Plan \in Seq(Commands)

LEMMA NextPlanIsCommands == LoopInv' => PlanTyped'
<1>1. LoopInv => PlanTyped
  BY PlanIsCommands DEF PlanTyped
<1> QED
  BY <1>1, PTL

(* A section is entered with all its commands to come. *)
LEMMA SectionIsEntered ==
  ASSUME LoopInv', todo' = Plan', call'["script"] = NoCall
  PROVE  OnPlan' /\ CallAsGiven'
<1>1. Plan' \in Seq(Commands)
  BY NextPlanIsCommands DEF PlanTyped
<1>2. IsTail(Plan', Plan')
  BY <1>1, WholeTail
<1> QED
  BY <1>2 DEF OnPlan, CallAsGiven, IsTail

LEMMA PlanNext ==
  ASSUME PlanInv, LoopInv', [ScenariosNext]_allVars PROVE OnPlan' /\ CallAsGiven'
<1> USE DEF PlanInv
<1>0. TypeOK /\ "script" \in Shells /\ "terminal" \in Shells
  BY ShellsAssumption DEF LoopInv
<1>1. ASSUME NEW r \in Recipes, Begin(r) PROVE OnPlan' /\ CallAsGiven'
  <2>1. todo' = Plan'
    BY <1>1 DEF Begin, Plan
  <2>2. call' = call /\ call["script"] = NoCall
    BY <1>1 DEF Begin, vars, LoopInv, Loops, ScriptTypes
  <2> QED
    BY <2>1, <2>2, SectionIsEntered
<1>2. CASE RunDeployer
  <2>1. OnPlan' /\ Given' = Head(todo) /\ Len(todo') < Len(Plan')
    BY <1>2, CommandGiven DEF RunDeployer
  <2>2. Head(todo).tool = "deployer" /\ call'["script"] = Head(todo).call
    BY <1>0, <1>2 DEF RunDeployer, Command, Start, TypeOK
  <2>3. Head(todo).call.keys \in Seq(Keys)
    BY <1>2, HeadOfTodo DEF RunDeployer, Command, Commands, Calls, Call, LoopInv, Loops
  <2>4. IsTail(Head(todo).call.keys, Head(todo).call.keys)
    BY <2>3, WholeTail
  <2> QED
    BY <2>1, <2>2, <2>4 DEF CallAsGiven
<1>3. CASE PatchAutoscaler \/ PatchConcurrency \/ KubectlFails
  <2>1. PICK tool : Command(tool)
    BY <1>3 DEF PatchAutoscaler, PatchConcurrency, KubectlFails
  <2>2. OnPlan'
    BY <2>1, CommandGiven
  <2>3. call' = call /\ call["script"] = NoCall
    BY <1>3 DEF PatchAutoscaler, PatchConcurrency, KubectlFails, Command, vars, KubectlPatch, Others
  <2> QED
    BY <2>2, <2>3 DEF CallAsGiven
<1>4. CASE EnterOuter \/ EnterInner \/ Measure \/ NextOuter \/ Finish
  <2>1. call' = call /\ call["script"] = NoCall /\ recipe' = recipe /\ todo = <<>>
    BY <1>4 DEF EnterOuter, EnterInner, Measure, NextOuter, Finish, SameRecipe, Between, vars
  <2>2. todo' = Plan'
    <3>1. CASE EnterOuter
      BY <3>1 DEF EnterOuter, SameRecipe, Plan
    <3>2. CASE EnterInner
      BY <3>2 DEF EnterInner, SameRecipe, Plan
    <3>3. CASE Measure
      BY <3>3 DEF Measure, SameRecipe, Plan
    <3>4. CASE NextOuter
      BY <3>4 DEF NextOuter, SameRecipe, Plan
    <3>5. CASE Finish
      BY <2>1, <3>5 DEF Finish, SameRecipe, Plan
    <3> QED
      BY <1>4, <3>1, <3>2, <3>3, <3>4, <3>5
  <2> QED
    BY <2>1, <2>2, SectionIsEntered
<1>5. CASE Interrupt
  <2>1. todo' = Plan'
    BY <1>5 DEF Interrupt, Plan
  <2>2. call'["script"] = NoCall
    BY <1>0, <1>5 DEF Interrupt, Interrupted, Return, TypeOK
  <2> QED
    BY <2>1, <2>2, SectionIsEntered
<1>6. ASSUME NEW c \in ManualCalls, Manual(c) PROVE OnPlan' /\ CallAsGiven'
  BY <1>0, <1>6, SameCallAsGiven DEF Manual, Start, TypeOK
<1>7. ASSUME NEW s \in Shells, Requests(s), UNCHANGED script PROVE OnPlan' /\ CallAsGiven'
  <2>1. CASE s = "script"
    <3>1. OnPlan'
      BY <1>7, SamePlan DEF script, OnPlan
    <3> QED
      BY <1>7, <2>1, <3>1, RequestKeepsCall
  <2>2. CASE s # "script"
    BY <1>0, <1>7, <2>2, RequestsOfOneShell, SameCallAsGiven
  <2> QED
    BY <2>1, <2>2
<1>8. CASE (Controllers /\ UNCHANGED script) \/ Stopped \/ UNCHANGED allVars
  <2>1. call' = call /\ UNCHANGED script
    BY <1>8 DEF Controllers, Touched, Removed, Others, Stopped, allVars, vars
  <2> QED
    BY <2>1, SameCallAsGiven
<1> QED
  BY <1>1, <1>2, <1>3, <1>4, <1>5, <1>6, <1>7, <1>8 DEF ScenariosNext, Script

LEMMA OthersNext ==
  ASSUME TypeOK, OthersAreTrouble, [ScenariosNext]_allVars PROVE OthersAreTrouble'
<1>1. troubled \subseteq troubled' /\ {"script", "terminal"} \subseteq Shells
  BY TroubleStays, ShellsAssumption
<1>2. ASSUME \A s \in Shells \ {"script"} : call'[s] = call[s] PROVE OthersAreTrouble'
  BY <1>1, <1>2 DEF OthersAreTrouble
<1>3. ASSUME NEW t \in Shells, Requests(t) PROVE OthersAreTrouble'
  <2> SUFFICES ASSUME NEW s \in Shells \ {"script"}, NEW i \in 1..Len(call'[s].keys)
               PROVE  call'[s].keys[i].kind \in troubled'
    BY DEF OthersAreTrouble
  <2>1. \A j \in 1..Len(call[s].keys) : call[s].keys[j].kind \in troubled
    BY DEF OthersAreTrouble
  <2>2. CASE s # t
    BY <1>1, <1>3, <2>1, <2>2, RequestsOfOneShell
  <2>3. CASE s = t
    <3>1. call[s].keys \in Seq(Keys) /\ call[s].keys # <<>> /\ call[s] \in Call
      BY <1>3, <2>3, RestOfCall DEF TypeOK
    <3>2. CASE call'[s] = NoCall
      <4>1. Len(call'[s].keys) = 0
        BY <3>2, EmptySeq DEF NoCall
      <4> QED
        BY <4>1
    <3>3. CASE call'[s] = [call[s] EXCEPT !.keys = Tail(@)]
      <4>1. call'[s].keys = Tail(call[s].keys)
        BY <3>1, <3>3 DEF Call
      <4>2. /\ Len(Tail(call[s].keys)) = Len(call[s].keys) - 1 /\ Len(call[s].keys) \in Nat
            /\ \A j \in 1..Len(Tail(call[s].keys)) : Tail(call[s].keys)[j] = call[s].keys[j + 1]
        BY <3>1, HeadTailProperties, LenProperties
      <4>3. i + 1 \in 1..Len(call[s].keys) /\ call'[s].keys[i] = call[s].keys[i + 1]
        BY <4>1, <4>2
      <4> QED
        BY <1>1, <2>1, <4>3
    <3>4. CASE call'[s] = [call[s] EXCEPT !.verb = "update"]
      BY <1>1, <2>1, <3>1, <3>4 DEF Call
    <3> QED
      BY <1>3, <2>3, <3>2, <3>3, <3>4, RestOfCall
  <2> QED
    BY <2>2, <2>3
<1>4. ASSUME NEW c \in ManualCalls, Manual(c) PROVE OthersAreTrouble'
  <2>1. \A s \in Shells : call'[s] = IF s = "terminal" THEN c ELSE call[s]
    BY <1>4 DEF Manual, Start, TypeOK
  <2>2. \A i \in 1..Len(c.keys) : c.keys[i].kind \in troubled'
    BY <1>4 DEF Manual
  <2> QED
    BY <1>1, <2>1, <2>2 DEF OthersAreTrouble
<1>5. CASE RunDeployer \/ Interrupt
  BY <1>2, <1>5 DEF RunDeployer, Start, Interrupt, Interrupted, Return, TypeOK
<1>6. CASE UNCHANGED call
  BY <1>2, <1>6
<1>7. PatchAutoscaler \/ PatchConcurrency \/ KubectlFails \/ EnterOuter \/ EnterInner \/ Measure
        \/ NextOuter \/ Finish \/ Controllers \/ Stopped \/ (UNCHANGED allVars)
        \/ (\E r \in Recipes : Begin(r)) => UNCHANGED call
  BY DEF PatchAutoscaler, PatchConcurrency, KubectlFails, EnterOuter, EnterInner, Measure,
         NextOuter, Finish, SameRecipe, Controllers, Touched, Removed, KubectlPatch, Others,
         Stopped, Begin, allVars, vars
<1> QED
  BY <1>3, <1>4, <1>5, <1>6, <1>7 DEF ScenariosNext, Script

LEMMA PlanInvNext == PlanInv /\ [ScenariosNext]_allVars => PlanInv'
<1> SUFFICES ASSUME PlanInv, [ScenariosNext]_allVars PROVE PlanInv'
  OBVIOUS
<1>1. LoopInv'
  BY LoopInvNext DEF PlanInv
<1>2. OnPlan' /\ CallAsGiven'
  BY <1>1, PlanNext
<1>3. OthersAreTrouble'
  BY OthersNext DEF PlanInv, LoopInv
<1> QED
  BY <1>1, <1>2, <1>3 DEF PlanInv

LEMMA PlanInvInit == ScenariosInit => PlanInv
<1> SUFFICES ASSUME ScenariosInit PROVE PlanInv
  OBVIOUS
<1>1. LoopInv
  BY LoopInvInit
<1>2. Plan = <<>> /\ todo = <<>> /\ \A s \in Shells : call[s] = NoCall
  BY DEF ScenariosInit, Plan
<1>3. IsTail(<<>>, <<>>) /\ Len(<<>>) = 0
  BY EmptySeq, WholeTail
<1>4. OthersAreTrouble
  BY <1>2, <1>3 DEF OthersAreTrouble, NoCall
<1> QED
  BY <1>1, <1>2, <1>3, <1>4, ShellsAssumption DEF PlanInv, OnPlan, CallAsGiven

-----------------------------------------------------------------------------
LEMMA CommandTools == /\ \A d : Deployer(d).tool = "deployer"
                      /\ \A f, v : PatchConfig(f, v).tool = "configmap"
                      /\ \A k, v : PatchService(k, v).tool = "ksvc"
  BY DEF Deployer, PatchConfig, PatchService

(* Each tool has its part of the plan. *)
LEMMA PlannedTools ==
  ASSUME NEW n, NEW c, Planned(n, c)
  PROVE  \/ c.tool = "deployer" /\ (\/ DeploysService(n, c) \/ DeploysTriggers(n, c)
                                     \/ PatchesTrigger(n, c) \/ DeletesTriggers(n, c))
         \/ c.tool = "configmap" /\ PatchesAutoscaler(n, c)
         \/ c.tool = "ksvc" /\ PatchesConcurrency(n, c)
<1>1. DeploysService(n, c) \/ DeploysTriggers(n, c) \/ PatchesTrigger(n, c) \/ DeletesTriggers(n, c)
        => c.tool = "deployer"
  BY CommandTools DEF DeploysService, DeploysTriggers, PatchesTrigger, DeletesTriggers
<1>2. PatchesAutoscaler(n, c) => c.tool = "configmap"
  BY CommandTools DEF PatchesAutoscaler
<1>3. PatchesConcurrency(n, c) => c.tool = "ksvc"
  BY CommandTools DEF PatchesConcurrency
<1> QED
  BY <1>1, <1>2, <1>3 DEF Planned

(* Commands to come in this section, and the first of them. *)
Left == Len(todo)
Due == Head(todo)

LEMMA DueCommand ==
  ASSUME PlanInv, NEW tool, Command(tool)
  PROVE  /\ Planned(Left, Due) /\ Due.tool = tool
         /\ (Left = 3 => Left' = 2) /\ (Left = 2 => Left' = 1) /\ (Left = 1 => Left' = 0)
<1>1. todo # <<>> /\ Head(todo).tool = tool
  BY DEF Command
<1>2. Planned(Len(todo), Head(todo)) /\ Len(todo) \in 1..Len(Plan)
  BY <1>1, HeadIsPlanned DEF PlanInv
<1>3. Len(todo') = Len(todo) - 1 /\ Len(Plan) \in Nat
  BY CommandGiven, PlanIsCommands, LenProperties DEF PlanInv
<1> QED
  BY <1>1, <1>2, <1>3 DEF Left, Due

-----------------------------------------------------------------------------
(* The autoscaler. *)

InLoops == section \in {"outer", "inner", "next"}

(* From one section to the next, or from one word of a loop to the next. *)
LEMMA MovesOfRecipe ==
  ASSUME EnterOuter \/ EnterInner \/ Measure \/ NextOuter \/ Finish
  PROVE  \/ section = "before" /\ section' = "outer"
         \/ InLoops /\ InLoops'
         \/ InLoops /\ section' = "after" /\ todo' = AfterLoops(recipe)
         \/ section = "after" /\ section' = "finished"
<1>1. EnterOuter => section = "before" /\ section' = "outer"
  BY DEF EnterOuter
<1>2. EnterInner => section = "outer" /\ section' = "inner"
  BY DEF EnterInner
<1>3. Measure => section = "inner" /\ section' \in {"inner", "next"}
  BY DEF Measure
<1>4. NextOuter => /\ section = "next"
                   /\ \/ section' = "outer"
                      \/ section' = "after" /\ todo' = AfterLoops(recipe)
  BY DEF NextOuter
<1>5. Finish => section = "after" /\ section' = "finished"
  BY DEF Finish
<1> QED
  BY <1>1, <1>2, <1>3, <1>4, <1>5 DEF InLoops

(* serving-scenario-2 shortens two settings before its loops and restores them after. *)
ShortGrace ==
  /\ recipe = "serving-scenario-2"
  /\ \/ section = "before" /\ Left \in {0, 1}
     \/ InLoops
     \/ section = "after" /\ Left = 2

ShortWindow ==
  /\ recipe = "serving-scenario-2"
  /\ \/ section = "before" /\ Left = 0
     \/ InLoops
     \/ section = "after" /\ Left \in {1, 2}

AutoscalerAsGiven ==
  Untroubled("ConfigMap") =>
    /\ autoscaler["scale-to-zero-grace-period"] = IF ShortGrace THEN "10s" ELSE "30s"
    /\ autoscaler["stable-window"] = IF ShortWindow THEN "10s" ELSE "60s"
    /\ recipe = "serving-scenario-3" /\ Started /\ (section = "before" => Left \in {0, 1})
         => autoscaler["max-scale"] = "400"
    /\ autoscaler["max-scale"] \in {"100", "400"}

AutoscalerTyped ==
  autoscaler \in [{"scale-to-zero-grace-period", "stable-window", "max-scale"} ->
                  {"10s", "30s", "60s", "100", "400"}]

LEMMA CommandKeepsAutoscaler ==
  ASSUME PlanInv, AutoscalerTyped, AutoscalerAsGiven,
         RunDeployer \/ PatchAutoscaler \/ PatchConcurrency \/ KubectlFails
  PROVE  AutoscalerTyped' /\ AutoscalerAsGiven'
<1>1. PICK tool : Command(tool)
  BY DEF RunDeployer, PatchAutoscaler, PatchConcurrency, KubectlFails
<1>2. /\ UNCHANGED <<recipe, section>> /\ Started' = Started /\ InLoops' = InLoops
      /\ todo # <<>> /\ troubled \subseteq troubled'
  BY <1>1 DEF Command, Started, InLoops, RunDeployer, PatchAutoscaler, PatchConcurrency,
              KubectlFails, KubectlPatch, vars
<1>3. /\ Planned(Left, Due)
      /\ (Left = 3 => Left' = 2) /\ (Left = 2 => Left' = 1) /\ (Left = 1 => Left' = 0)
  BY <1>1, DueCommand
<1>5. CASE Due.tool # "configmap"
  <2>1. autoscaler' = autoscaler
    BY <1>5 DEF RunDeployer, PatchAutoscaler, PatchConcurrency, KubectlFails, Command, Due
  <2>2. \/ DeploysService(Left, Due) \/ DeploysTriggers(Left, Due)
        \/ PatchesTrigger(Left, Due) \/ DeletesTriggers(Left, Due)
        \/ PatchesConcurrency(Left, Due)
    BY <1>3, <1>5, PlannedTools
  <2>3. recipe # "serving-scenario-2" /\ (recipe = "serving-scenario-3" =>
          (section = "before" /\ Left = 3) \/ Left = 1)
    BY <2>2 DEF DeploysService, DeploysTriggers, PatchesTrigger, DeletesTriggers,
                PatchesConcurrency
  <2> QED
    BY <1>2, <1>3, <2>1, <2>3
    DEF AutoscalerAsGiven, AutoscalerTyped, ShortGrace, ShortWindow, Untroubled
<1>6. CASE Due.tool = "configmap"
  <2>1. PatchesAutoscaler(Left, Due)
    BY <1>3, <1>6, PlannedTools
  <2>2. CASE PatchAutoscaler
    <3>1. autoscaler' = [autoscaler EXCEPT ![Due.field] = Due.value]
      BY <2>2 DEF PatchAutoscaler, Due
    <3>2. CASE /\ recipe = "serving-scenario-2" /\ section = "before" /\ Left = 2
               /\ Due = PatchConfig("scale-to-zero-grace-period", "10s")
      <4>1. autoscaler' = [autoscaler EXCEPT !["scale-to-zero-grace-period"] = "10s"]
        BY <3>1, <3>2 DEF PatchConfig
      <4> QED
        BY <1>2, <1>3, <3>2, <4>1
        DEF AutoscalerAsGiven, AutoscalerTyped, ShortGrace, ShortWindow, Untroubled
    <3>3. CASE /\ recipe = "serving-scenario-2" /\ section = "before" /\ Left = 1
               /\ Due = PatchConfig("stable-window", "10s")
      <4>1. autoscaler' = [autoscaler EXCEPT !["stable-window"] = "10s"]
        BY <3>1, <3>3 DEF PatchConfig
      <4> QED
        BY <1>2, <1>3, <3>3, <4>1
        DEF AutoscalerAsGiven, AutoscalerTyped, ShortGrace, ShortWindow, Untroubled
    <3>4. CASE /\ recipe = "serving-scenario-2" /\ section = "after" /\ Left = 2
               /\ Due = PatchConfig("scale-to-zero-grace-period", "30s")
      <4>1. autoscaler' = [autoscaler EXCEPT !["scale-to-zero-grace-period"] = "30s"]
        BY <3>1, <3>4 DEF PatchConfig
      <4> QED
        BY <1>2, <1>3, <3>4, <4>1
        DEF AutoscalerAsGiven, AutoscalerTyped, ShortGrace, ShortWindow, InLoops, Untroubled
    <3>5. CASE /\ recipe = "serving-scenario-2" /\ section = "after" /\ Left = 1
               /\ Due = PatchConfig("stable-window", "60s")
      <4>1. autoscaler' = [autoscaler EXCEPT !["stable-window"] = "60s"]
        BY <3>1, <3>5 DEF PatchConfig
      <4> QED
        BY <1>2, <1>3, <3>5, <4>1
        DEF AutoscalerAsGiven, AutoscalerTyped, ShortGrace, ShortWindow, InLoops, Untroubled
    <3>6. CASE /\ recipe = "serving-scenario-3" /\ section = "before" /\ Left = 2
               /\ Due = PatchConfig("max-scale", "400")
      <4>1. autoscaler' = [autoscaler EXCEPT !["max-scale"] = "400"]
        BY <3>1, <3>6 DEF PatchConfig
      <4> QED
        BY <1>2, <1>3, <3>6, <4>1
        DEF AutoscalerAsGiven, AutoscalerTyped, ShortGrace, ShortWindow, Untroubled
    <3> QED
      BY <2>1, <3>2, <3>3, <3>4, <3>5, <3>6 DEF PatchesAutoscaler
  <2>3. CASE KubectlFails
    BY <1>6, <2>3 DEF Due, KubectlFails, AutoscalerAsGiven, AutoscalerTyped, Untroubled
  <2> QED
    BY <1>6, <2>2, <2>3 DEF RunDeployer, PatchConcurrency, Command, Due
<1> QED
  BY <1>5, <1>6

LEMMA AutoscalerNext ==
  ASSUME PlanInv, AutoscalerTyped, AutoscalerAsGiven, [ScenariosNext]_allVars
  PROVE  AutoscalerTyped' /\ AutoscalerAsGiven'
<1> USE DEF AutoscalerTyped
<1>1. ASSUME NEW r \in Recipes, Begin(r) PROVE AutoscalerTyped' /\ AutoscalerAsGiven'
  <2>1. UNCHANGED <<autoscaler, troubled>> /\ Idle
    BY <1>1 DEF Begin, vars
  <2>2. ~ShortGrace /\ ~ShortWindow
    BY <2>1 DEF Idle, ShortGrace, ShortWindow, InLoops
  <2>3. section' = "before" /\ recipe' = r /\ todo' = BeforeLoops(r)
    BY <1>1 DEF Begin
  <2>4. /\ r = "serving-scenario-2" => Left' = 2
        /\ r = "serving-scenario-3" => Left' = 3
    BY <2>3 DEF BeforeLoops, Left
  <2>5. /\ ~ShortGrace' /\ ~ShortWindow'
        /\ recipe' = "serving-scenario-3" => ~(Left' \in {0, 1})
    BY <2>3, <2>4 DEF ShortGrace, ShortWindow, InLoops
  <2> QED
    BY <2>1, <2>2, <2>3, <2>5 DEF AutoscalerAsGiven, Untroubled
<1>2. CASE RunDeployer \/ PatchAutoscaler \/ PatchConcurrency \/ KubectlFails
  BY <1>2, CommandKeepsAutoscaler
<1>3. CASE EnterOuter \/ EnterInner \/ Measure \/ NextOuter \/ Finish
  <2>1. UNCHANGED <<autoscaler, troubled, recipe>> /\ todo = <<>> /\ Started' = Started
    BY <1>3 DEF EnterOuter, EnterInner, Measure, NextOuter, Finish, SameRecipe, Between, vars,
                Started
  <2>2. Left = 0
    BY <2>1, EmptySeq DEF Left
  <2>3. \/ section = "before" /\ section' = "outer"
        \/ InLoops /\ InLoops'
        \/ InLoops /\ section' = "after" /\ todo' = AfterLoops(recipe)
        \/ section = "after" /\ section' = "finished"
    BY <1>3, MovesOfRecipe
  <2>4. recipe = "serving-scenario-2" /\ todo' = AfterLoops(recipe) => Left' = 2
    BY DEF Left, AfterLoops
  <2>5. ShortGrace' = ShortGrace /\ ShortWindow' = ShortWindow
    BY <2>1, <2>2, <2>3, <2>4 DEF ShortGrace, ShortWindow, InLoops
  <2>6. (section = "before" => Left \in {0, 1}) /\ section' # "before"
    BY <2>2, <2>3 DEF InLoops
  <2> QED
    BY <2>1, <2>5, <2>6 DEF AutoscalerAsGiven, Untroubled
<1>4. CASE Interrupt
  BY <1>4 DEF Interrupt, AutoscalerAsGiven, Untroubled
<1>5. CASE UNCHANGED <<script, autoscaler>>
  <2>1. troubled \subseteq troubled'
    BY TroubleStays DEF PlanInv, LoopInv
  <2> QED
    BY <1>5, <2>1
    DEF script, AutoscalerAsGiven, Untroubled, ShortGrace, ShortWindow, InLoops, Started, Left
<1>6. (\E c \in ManualCalls : Manual(c)) \/ Stopped \/ (UNCHANGED allVars)
        => UNCHANGED <<script, autoscaler>>
  BY DEF Manual, Stopped, allVars
<1> QED
  BY <1>1, <1>2, <1>3, <1>4, <1>5, <1>6 DEF ScenariosNext, Script

-----------------------------------------------------------------------------
(* What the deployer that the script waits for is doing. *)

ScriptCall == call["script"]
KeyLeft(i) == ScriptCall.keys[i]
KeysLeft == Len(ScriptCall.keys)

ServiceUnderway ==
  /\ DeploysService(Left + 1, Given)
  /\ ScriptCall.verb = "create" /\ ScriptCall.sets = createKnativeService
  /\ \A i \in 1..KeysLeft : KeyLeft(i).kind = "Service"
  /\ KeysLeft = 1 /\ ServicesOf(recipe) = {KeyLeft(1)}

(* A call about numbered triggers takes them in the order of their numbers. *)
InOrder == /\ KeysLeft \in 1..Amount
           /\ \A i \in 1..KeysLeft : KeyLeft(i) = Trigger(Amount - KeysLeft + i - 1)

TriggersUnderway ==
  /\ DeploysTriggers(Left + 1, Given) /\ InOrder
  /\ ScriptCall.verb = "create" /\ ScriptCall.sets = [Unset EXCEPT !["parallelism"] = "10"]

DeletionUnderway ==
  /\ DeletesTriggers(Left + 1, Given) /\ InOrder
  /\ ScriptCall.verb = "delete"

PatchUnderway ==
  /\ PatchesTrigger(Left + 1, Given)
  /\ ScriptCall.verb \in {"get", "update"} /\ ScriptCall.keys = <<Trigger(0)>>
  /\ ScriptCall.sets = [Kept EXCEPT !["parallelism"] = Head(outer)]

LEMMA NumberedElements ==
  ASSUME NEW S, NEW kind, NEW name, NEW n \in Nat, Numbered(kind, name, n) \in Seq(S)
  PROVE  /\ Len(Numbered(kind, name, n)) = n
         /\ \A i \in 1..n : Numbered(kind, name, n)[i] =
              [kind |-> kind, name |-> name, index |-> i - 1]
<1>1. DOMAIN Numbered(kind, name, n) = 1..n
  BY DEF Numbered
<1>2. /\ DOMAIN Numbered(kind, name, n) = 1..Len(Numbered(kind, name, n))
      /\ Len(Numbered(kind, name, n)) \in Nat
  BY LenProperties
<1>3. Len(Numbered(kind, name, n)) = n
  <2> HIDE DEF Numbered
  <2>1. \A m \in Nat : 1..m = 1..n => m = n
    OBVIOUS
  <2> QED
    BY <1>1, <1>2, <2>1
<1> QED
  BY <1>3 DEF Numbered

LEMMA CallUnderway ==
  ASSUME PlanInv, ScriptCall # NoCall
  PROVE  ServiceUnderway \/ TriggersUnderway \/ DeletionUnderway \/ PatchUnderway
<1>1. /\ Len(todo) < Len(Plan) /\ Given.tool = "deployer"
      /\ ScriptCall.sets = Given.call.sets
      /\ \/ ScriptCall.verb = Given.call.verb
         \/ ScriptCall.verb = "update" /\ Given.call.verb = "get"
      /\ IsTail(ScriptCall.keys, Given.call.keys)
  BY DEF PlanInv, CallAsGiven, ScriptCall
<1>2. \/ DeploysService(Left + 1, Given) \/ DeploysTriggers(Left + 1, Given)
      \/ PatchesTrigger(Left + 1, Given) \/ DeletesTriggers(Left + 1, Given)
  <2>1. Planned(Left + 1, Given)
    BY <1>1, GivenIsPlanned DEF PlanInv, Left
  <2> QED
    BY <1>1, <2>1, PlannedTools
<1>3. Given.call \in Calls /\ Given.call.keys \in Seq(Keys)
  BY <1>1, GivenToDeployer DEF PlanInv
<1>4. ScriptCall.keys \in Seq(Keys) /\ ScriptCall.keys # <<>> /\ KeysLeft \in Nat \ {0}
  <2>1. ScriptCall \in Call /\ (ScriptCall.verb # "none" => ScriptCall.keys # <<>>)
    BY ShellsAssumption DEF PlanInv, LoopInv, TypeOK, ScriptCall
  <2>2. ScriptCall.verb # "none"
    BY <1>1, <1>3 DEF Calls
  <2>3. ScriptCall.keys \in Seq(Keys) /\ ScriptCall.keys # <<>>
    BY <2>1, <2>2 DEF Call
  <2> QED
    BY <2>3, EmptySeq DEF KeysLeft
<1>5. ASSUME NEW kind, NEW name, NEW n \in Nat, Given.call.keys = Numbered(kind, name, n)
      PROVE  /\ KeysLeft \in 1..n
             /\ \A i \in 1..KeysLeft :
                  KeyLeft(i) = [kind |-> kind, name |-> name, index |-> n - KeysLeft + i - 1]
  <2>1. /\ Len(Given.call.keys) = n
        /\ \A i \in 1..n : Given.call.keys[i] = [kind |-> kind, name |-> name, index |-> i - 1]
    BY <1>3, <1>5, NumberedElements
  <2>2. KeysLeft \in 1..n
    BY <1>1, <1>4, <2>1 DEF IsTail, KeysLeft
  <2>3. ASSUME NEW i \in 1..KeysLeft
        PROVE  KeyLeft(i) = [kind |-> kind, name |-> name, index |-> n - KeysLeft + i - 1]
    <3> DEFINE place == n - KeysLeft + i
    <3>1. place \in 1..n
      BY <2>2
    <3>2. KeyLeft(i) = Given.call.keys[place]
      BY <1>1, <2>1 DEF IsTail, KeysLeft, KeyLeft
    <3>3. place - 1 = n - KeysLeft + i - 1
      BY <2>2
    <3> HIDE DEF place
    <3>4. KeyLeft(i) = [kind |-> kind, name |-> name, index |-> place - 1]
      BY <2>1, <3>1, <3>2
    <3> QED
      BY <3>3, <3>4
  <2> QED
    BY <2>2, <2>3
<1>6. CASE DeploysService(Left + 1, Given)
  <2>1. PICK name : Given = Deployer(deploy(name, 1)) /\ ServicesOf(recipe) = {Service(name)}
    BY <1>6 DEF DeploysService, ServicesOf
  <2>2. /\ Given.call.keys = Numbered("Service", name, 1) /\ Given.call.verb = "create"
        /\ Given.call.sets = createKnativeService
    BY <2>1 DEF Deployer, deploy
  <2>3. \A i \in 1..KeysLeft : KeyLeft(i).kind = "Service"
    BY <1>5, <2>2
  <2>4. KeysLeft = 1 /\ KeyLeft(1) = Service(name)
    <3>1. KeysLeft \in 1..1
      BY <1>5, <2>2
    <3>2. KeysLeft = 1 /\ 1 \in 1..KeysLeft /\ 1 - KeysLeft + 1 - 1 = 0
      BY <3>1
    <3>3. KeyLeft(1) = [kind |-> "Service", name |-> name, index |-> 1 - KeysLeft + 1 - 1]
      BY <1>5, <2>2, <3>2
    <3> QED
      BY <3>2, <3>3 DEF Service
  <2> QED
    BY <1>1, <1>6, <2>1, <2>2, <2>3, <2>4 DEF ServiceUnderway
<1>7. CASE DeploysTriggers(Left + 1, Given) \/ DeletesTriggers(Left + 1, Given)
  <2>1. Amount \in Nat
    <3>1. recipe = "eventing-scenario-2" => outer # <<>> /\ Started
      BY <1>7 DEF DeploysTriggers, DeletesTriggers, PlanInv, LoopInv, Loops, Sections, Started
    <3> QED
      BY <3>1, AmountOfTriggers DEF PlanInv, Amount
  <2>2. Given.call.keys = Numbered("Trigger", "trigger", Amount)
    BY <1>7 DEF DeploysTriggers, DeletesTriggers, Deployer, deployTrigger, deleteTrigger
  <2>3. InOrder
    BY <1>5, <2>1, <2>2 DEF InOrder, Trigger
  <2>4. CASE DeploysTriggers(Left + 1, Given)
    <3>1. /\ Given.call.verb = "create"
          /\ Given.call.sets = [Unset EXCEPT !["parallelism"] = "10"]
      BY <2>4 DEF DeploysTriggers, Deployer, deployTrigger
    <3> QED
      BY <1>1, <2>3, <2>4, <3>1 DEF TriggersUnderway
  <2>5. CASE DeletesTriggers(Left + 1, Given)
    <3>1. Given.call.verb = "delete"
      BY <2>5 DEF DeletesTriggers, Deployer, deleteTrigger
    <3> QED
      BY <1>1, <2>3, <2>5, <3>1 DEF DeletionUnderway
  <2> QED
    BY <1>7, <2>4, <2>5
<1>8. CASE PatchesTrigger(Left + 1, Given)
  <2>1. /\ Given.call.verb = "get" /\ Given.call.keys = <<Trigger(0)>>
        /\ Given.call.sets = [Kept EXCEPT !["parallelism"] = Head(outer)]
    BY <1>8 DEF PatchesTrigger, Deployer, patchTrigger
  <2>2. ScriptCall.keys = <<Trigger(0)>>
    <3>1. Len(<<Trigger(0)>>) = 1 /\ <<Trigger(0)>>[1] = Trigger(0)
      OBVIOUS
    <3>2. KeysLeft = 1
      BY <1>1, <1>4, <2>1, <3>1 DEF IsTail, KeysLeft
    <3>3. ScriptCall.keys[1] = Trigger(0)
      BY <1>1, <2>1, <3>1, <3>2 DEF IsTail, KeysLeft
    <3> QED
      BY <1>3, <1>4, <2>1, <3>1, <3>2, <3>3, SeqEqual DEF KeysLeft
  <2> QED
    BY <1>1, <1>8, <2>1, <2>2 DEF PatchUnderway
<1> QED
  BY <1>2, <1>6, <1>7, <1>8

(* The other shells' requests are about kinds in trouble. *)
LEMMA RequestOfOthers ==
  ASSUME PlanInv, NEW s \in Shells, Requests(s), s # "script"
  PROVE  Current(s) \in Keys /\ ~Untroubled(Current(s).kind)
<1>1. call[s].keys \in Seq(Keys) /\ call[s].keys # <<>>
  BY RestOfCall DEF PlanInv, LoopInv
<1>2. /\ 1 \in 1..Len(call[s].keys)
      /\ Head(call[s].keys) = call[s].keys[1] /\ Head(call[s].keys) \in Keys
  BY <1>1, EmptySeq, HeadTailProperties
<1> QED
  BY <1>2 DEF PlanInv, OthersAreTrouble, Untroubled, Current

-----------------------------------------------------------------------------
(* The services. *)

Limited == [createKnativeService EXCEPT !["containerConcurrency"] = "1"]

(* The recipe's service is not there yet. *)
Deploying ==
  /\ section = "before"
  /\ \/ recipe = "eventing-scenario-1" /\ (Left = 2 \/ (Left = 1 /\ ScriptCall # NoCall))
     \/ recipe = "serving-scenario-3" /\ (Left = 3 \/ (Left = 2 /\ ScriptCall # NoCall))

ServiceAsMade(k) ==
  /\ settings[k] = createKnativeService \/ (k = Service("sleep-go-http") /\ settings[k] = Limited)
  /\ phase[k] # "absent" =>
       /\ phase[k] = "live"
       /\ k \in {Service("empty-go-http"), Service("reciever"), Service("sleep-go-http")}

ServicesAsGiven ==
  Untroubled("Service") =>
    /\ \A k \in Keys : k.kind = "Service" => ServiceAsMade(k)
    /\ Started /\ ~Deploying => \A k \in ServicesOf(recipe) : phase[k] = "live"
    /\ recipe = "serving-scenario-3" /\ Started /\ (section = "before" => Left = 0)
         => settings[Service("sleep-go-http")] = Limited

LEMMA RecipeServices ==
  \A r : \A k \in ServicesOf(r) :
    /\ k \in Keys /\ k.kind = "Service"
    /\ k \in {Service("reciever"), Service("sleep-go-http")}
  BY RecipeKeysAssumption DEF ServicesOf, Service

LEMMA FirstKey ==
  ASSUME TypeOK, NEW s \in Shells, Requests(s)
  PROVE  call[s] # NoCall /\ Current(s) = call[s].keys[1] /\ 1 \in 1..Len(call[s].keys)
<1>1. call[s] # NoCall /\ call[s].keys \in Seq(Keys) /\ call[s].keys # <<>>
  BY RestOfCall
<1>2. 1 \in 1..Len(call[s].keys) /\ Head(call[s].keys) = call[s].keys[1]
  BY <1>1, EmptySeq, HeadTailProperties
<1> QED
  BY <1>1, <1>2 DEF Current

(* A request is about one object. *)
LEMMA RequestOfOneObject ==
  ASSUME TypeOK, NEW s \in Shells, Requests(s)
  PROVE  /\ Current(s) \in Keys
         /\ \A k \in Keys : k # Current(s) => settings'[k] = settings[k] /\ phase'[k] = phase[k]
         /\ \/ Create(s) \/ Update(s)
            \/ settings' = settings
<1>1. Current(s) \in Keys
  BY CurrentIsKey, RequestsOfOneShell DEF Targeted
<1>2. Create(s) => \A k \in Keys : k # Current(s) =>
                                 settings'[k] = settings[k] /\ phase'[k] = phase[k]
  BY <1>1 DEF Create, TypeOK
<1>3. Update(s) => \A k \in Keys : k # Current(s) =>
                                 settings'[k] = settings[k] /\ phase'[k] = phase[k]
  BY <1>1 DEF Update, TypeOK
<1>4. Delete(s) => /\ settings' = settings
                   /\ \A k \in Keys : k # Current(s) => phase'[k] = phase[k]
  BY <1>1 DEF Delete, TypeOK
<1>5. CreateRefused(s) \/ Get(s) \/ NotFound(s) \/ Conflict(s) \/ RequestFails(s)
        => settings' = settings /\ phase' = phase
  BY DEF CreateRefused, Get, NotFound, Conflict, RequestFails, objects
<1> QED
  BY <1>1, <1>2, <1>3, <1>4, <1>5 DEF Requests

LEMMA SameServices ==
  ASSUME ServicesAsGiven, Untroubled("Service"), UNCHANGED <<script, settings>>,
         \A k \in Keys : k.kind = "Service" => phase'[k] = phase[k],
         ScriptCall' = ScriptCall
  PROVE  ServicesAsGiven'
<1>1. UNCHANGED <<recipe, section, Left, Started, Deploying>>
  BY DEF script, Left, Started, Deploying
<1> QED
  BY <1>1, RecipeServices DEF ServicesAsGiven, ServiceAsMade

(* What a command makes of Deploying. *)
LEMMA CommandDeploys ==
  ASSUME PlanInv, RunDeployer \/ PatchAutoscaler \/ PatchConcurrency \/ KubectlFails
  PROVE  /\ Deploying' \/ ~Deploying
         /\ UNCHANGED <<phase, recipe, section, Started>> /\ ScriptCall = NoCall
         /\ Planned(Left, Due)
         /\ (Left = 3 => Left' = 2) /\ (Left = 2 => Left' = 1) /\ (Left = 1 => Left' = 0)
<1>1. PICK tool : Command(tool)
  BY DEF RunDeployer, PatchAutoscaler, PatchConcurrency, KubectlFails
<1>2. /\ UNCHANGED <<phase, recipe, section, Started>> /\ ScriptCall = NoCall
  BY <1>1 DEF Command, Started, RunDeployer, Start, PatchAutoscaler, PatchConcurrency,
              KubectlFails, KubectlPatch, vars, objects, ScriptCall
<1>3. /\ Planned(Left, Due) /\ Due.tool = tool
      /\ (Left = 3 => Left' = 2) /\ (Left = 2 => Left' = 1) /\ (Left = 1 => Left' = 0)
  BY <1>1, DueCommand
<1>4. CASE RunDeployer
  <2>1. Due.call \in Calls /\ ScriptCall' = Due.call
    BY <1>4, HeadOfTodo, ShellsAssumption
    DEF RunDeployer, Command, Start, Commands, PlanInv, LoopInv, Loops, TypeOK, Due, ScriptCall
  <2>2. ScriptCall' # NoCall
    BY <2>1 DEF Calls, NoCall
  <2> QED
    BY <1>2, <1>3, <2>2 DEF Deploying
<1>5. CASE ~RunDeployer
  <2>1. tool # "deployer"
    BY <1>1, <1>5 DEF RunDeployer, PatchAutoscaler, PatchConcurrency, KubectlFails, Command
  <2>2. PatchesAutoscaler(Left, Due) \/ PatchesConcurrency(Left, Due)
    BY <1>3, <2>1, PlannedTools
  <2>3. ~Deploying
    BY <1>2, <2>2 DEF PatchesAutoscaler, PatchesConcurrency, Deploying
  <2> QED
    BY <1>2, <1>3, <2>3
<1> QED
  BY <1>4, <1>5

LEMMA CommandKeepsServices ==
  ASSUME PlanInv, ServicesAsGiven, Untroubled("Service")',
         RunDeployer \/ PatchAutoscaler \/ PatchConcurrency \/ KubectlFails
  PROVE  ServicesAsGiven'
<1>1. PICK tool : Command(tool)
  BY DEF RunDeployer, PatchAutoscaler, PatchConcurrency, KubectlFails
<1>2. troubled \subseteq troubled' /\ Untroubled("Service")
  BY <1>1 DEF RunDeployer, PatchAutoscaler, PatchConcurrency, KubectlFails, KubectlPatch, vars,
              Untroubled
<1>3. /\ Deploying' \/ ~Deploying
      /\ UNCHANGED <<phase, recipe, section, Started>>
      /\ Planned(Left, Due)
      /\ (Left = 3 => Left' = 2) /\ (Left = 2 => Left' = 1) /\ (Left = 1 => Left' = 0)
  BY CommandDeploys
<1>4. CASE Due.tool # "ksvc"
  <2>1. settings' = settings
    BY <1>4 DEF RunDeployer, Start, objects, PatchAutoscaler, vars, PatchConcurrency,
                KubectlFails, Command, Due
  <2>2. \/ DeploysService(Left, Due) \/ DeploysTriggers(Left, Due)
        \/ PatchesTrigger(Left, Due) \/ DeletesTriggers(Left, Due) \/ PatchesAutoscaler(Left, Due)
    BY <1>3, <1>4, PlannedTools
  <2>3. recipe = "serving-scenario-3" => section = "before" /\ Left \in {2, 3}
    BY <2>2 DEF DeploysService, DeploysTriggers, PatchesTrigger, DeletesTriggers,
                PatchesAutoscaler
  <2>4. \A k : ServiceAsMade(k)' <=> ServiceAsMade(k)
    BY <1>3, <2>1 DEF ServiceAsMade
  <2> QED
    BY <1>2, <1>3, <2>1, <2>3, <2>4 DEF ServicesAsGiven
<1>5. CASE Due.tool = "ksvc"
  <2>1. PatchesConcurrency(Left, Due)
    BY <1>3, <1>5, PlannedTools
  <2>2. PatchConcurrency
    BY <1>5 DEF RunDeployer, PatchAutoscaler, KubectlFails, Command, Due, Untroubled
  <2>3. settings' = [settings EXCEPT ![Due.key]["containerConcurrency"] = Due.value]
    BY <2>2 DEF PatchConcurrency, KubectlPatch, Due
  <2>4. TypeOK /\ Service("sleep-go-http") \in Keys /\ Service("empty-go-http") \in Keys
        /\ Service("sleep-go-http") # Service("empty-go-http")
        /\ Service("sleep-go-http").kind = "Service" /\ Service("empty-go-http").kind = "Service"
    BY RecipeKeysAssumption DEF PlanInv, LoopInv, Service
  <2>5. \A k \in Keys : k.kind = "Service" => ServiceAsMade(k)
    BY <1>2 DEF ServicesAsGiven
  <2>6. /\ [createKnativeService EXCEPT !["containerConcurrency"] = "0"] = createKnativeService
        /\ [Limited EXCEPT !["containerConcurrency"] = "1"] = Limited
    BY DEF Limited, createKnativeService, Unset, Fields
  <2>7. CASE section = "before" /\ Due = PatchService(Service("sleep-go-http"), "1")
    <3>1. /\ settings' = [settings EXCEPT ![Service("sleep-go-http")]["containerConcurrency"] = "1"]
          /\ settings[Service("sleep-go-http")] \in {createKnativeService, Limited}
      BY <2>3, <2>4, <2>5, <2>7 DEF PatchService, ServiceAsMade
    <3>2. /\ settings'[Service("sleep-go-http")] = Limited
          /\ \A k \in Keys : k # Service("sleep-go-http") => settings'[k] = settings[k]
      BY <2>4, <2>6, <3>1 DEF TypeOK, Limited
    <3>3. \A k \in Keys : k.kind = "Service" => ServiceAsMade(k)'
      BY <1>3, <2>5, <3>2 DEF ServiceAsMade
    <3> QED
      BY <1>2, <1>3, <3>2, <3>3 DEF ServicesAsGiven
  <2>8. CASE section = "after" /\ Due = PatchService(Service("empty-go-http"), "0")
    <3>1. /\ settings' = [settings EXCEPT ![Service("empty-go-http")]["containerConcurrency"] = "0"]
          /\ settings[Service("empty-go-http")] = createKnativeService
      BY <2>3, <2>4, <2>5, <2>8 DEF PatchService, ServiceAsMade
    <3>2. \A k \in Keys : settings'[k] = settings[k]
      BY <2>4, <2>6, <3>1 DEF TypeOK
    <3>3. \A k \in Keys : k.kind = "Service" => ServiceAsMade(k)'
      BY <1>3, <2>5, <3>2 DEF ServiceAsMade
    <3> QED
      BY <1>2, <1>3, <2>4, <2>8, <3>2, <3>3 DEF ServicesAsGiven
  <2> QED
    BY <2>1, <2>7, <2>8 DEF PatchesConcurrency
<1> QED
  BY <1>4, <1>5

(* The only request about services that is not trouble: the recipe's service is created, or
   found as it would have been. *)
LEMMA ServiceRequest ==
  ASSUME PlanInv, ServicesAsGiven, Untroubled("Service"), Untroubled("Service")',
         NEW s \in Shells, Requests(s), Current(s).kind = "Service"
  PROVE  /\ s = "script" /\ Deploying /\ ServicesOf(recipe) = {Current(s)}
         /\ recipe = "serving-scenario-3" => section = "before" /\ Left = 2
         /\ ScriptCall' = NoCall /\ phase'[Current(s)] = "live"
         /\ settings'[Current(s)] = createKnativeService \/ settings' = settings
<1>1. TypeOK
  BY DEF PlanInv, LoopInv
<1>2. s = "script"
  BY RequestOfOthers
<1>3. /\ Current(s) = KeyLeft(1) /\ 1 \in 1..KeysLeft /\ ScriptCall # NoCall
  BY <1>1, <1>2, FirstKey DEF KeyLeft, KeysLeft, ScriptCall
<1>4. ServiceUnderway
  <2>1. \A i : Trigger(i).kind = "Trigger"
    BY DEF Trigger
  <2>2. ~TriggersUnderway /\ ~DeletionUnderway
    BY <1>3, <2>1 DEF TriggersUnderway, DeletionUnderway, InOrder
  <2>3. ~PatchUnderway
    BY <1>3, <2>1 DEF PatchUnderway, KeyLeft
  <2> QED
    BY <1>3, <2>2, <2>3, CallUnderway
<1>5. Left \in Nat
  BY PlanIsCommands, LenProperties DEF PlanInv, Left
<1>6. /\ section = "before"
      /\ \/ recipe = "eventing-scenario-1" /\ Left = 1
         \/ recipe = "serving-scenario-3" /\ Left = 2
  BY <1>4, <1>5 DEF ServiceUnderway, DeploysService
<1>7. Create(s) \/ (CreateRefused(s) /\ phase[Current(s)] = "live")
  <2>1. ~NotFound(s) /\ ~Conflict(s) /\ ~RequestFails(s)
    BY DEF NotFound, Conflict, RequestFails, Trouble, Untroubled
  <2>2. ~Delete(s) /\ ~Get(s) /\ ~Update(s)
    BY <1>2, <1>4 DEF Delete, Get, Update, ServiceUnderway, ScriptCall
  <2>3. CreateRefused(s) => phase[Current(s)] = "live"
    BY DEF CreateRefused, Trouble, Untroubled
  <2> QED
    BY <2>1, <2>2, <2>3 DEF Requests
<1>8. Current(s) \in Keys
  BY <1>1, RequestOfOneObject
<1>9. ScriptCall' = NoCall
  <2>1. Proceed(s)
    BY <1>7 DEF Create, CreateRefused, Skip
  <2>2. Rest(ScriptCall) = NoCall
    BY <1>4 DEF Rest, ServiceUnderway, KeysLeft
  <2> QED
    BY <1>1, <1>2, <2>1, <2>2 DEF Proceed, TypeOK, ScriptCall
<1>10. CASE Create(s)
  <2>1. phase'[Current(s)] = "live" /\ settings'[Current(s)] = createKnativeService
    BY <1>1, <1>2, <1>4, <1>8, <1>10 DEF Create, TypeOK, ServiceUnderway, ScriptCall
  <2> QED
    BY <1>2, <1>3, <1>4, <1>6, <1>9, <2>1 DEF ServiceUnderway, Deploying
<1>11. CASE CreateRefused(s) /\ phase[Current(s)] = "live"
  <2>1. UNCHANGED <<phase, settings>>
    BY <1>11 DEF CreateRefused, objects
  <2> QED
    BY <1>2, <1>3, <1>4, <1>6, <1>9, <1>11, <2>1 DEF ServiceUnderway, Deploying
<1> QED
  BY <1>7, <1>10, <1>11

LEMMA RequestKeepsServices ==
  ASSUME PlanInv, ServicesAsGiven, Untroubled("Service"), Untroubled("Service")',
         NEW s \in Shells, Requests(s), UNCHANGED script
  PROVE  ServicesAsGiven'
<1>1. TypeOK /\ UNCHANGED <<recipe, section, Left, Started>>
  BY DEF PlanInv, LoopInv, script, Left, Started
<1>2. /\ Current(s) \in Keys
      /\ \A k \in Keys : k # Current(s) => settings'[k] = settings[k] /\ phase'[k] = phase[k]
  BY <1>1, RequestOfOneObject
<1>3. Service("sleep-go-http") \in Keys /\ Service("sleep-go-http").kind = "Service"
  BY RecipeKeysAssumption DEF Service
<1>4. CASE Current(s).kind # "Service"
  <2>1. \A k \in Keys : k.kind = "Service" => settings'[k] = settings[k] /\ phase'[k] = phase[k]
    BY <1>2, <1>4
  <2>2. \A k \in Keys : k.kind = "Service" => (ServiceAsMade(k)' <=> ServiceAsMade(k))
    BY <2>1 DEF ServiceAsMade
  <2>3. Deploying' \/ ~Deploying
    <3>1. CASE s # "script"
      <4>1. ScriptCall' = ScriptCall
        BY <1>1, <3>1, RequestsOfOneShell, ShellsAssumption DEF ScriptCall
      <4> QED
        BY <1>1, <4>1 DEF Deploying
    <3>2. CASE s = "script"
      <4>1. /\ Current(s) = KeyLeft(1) /\ 1 \in 1..KeysLeft /\ ScriptCall # NoCall
        BY <1>1, <3>2, FirstKey DEF KeyLeft, KeysLeft, ScriptCall
      <4>2. ~ServiceUnderway
        BY <1>4, <4>1 DEF ServiceUnderway
      <4>3. TriggersUnderway \/ DeletionUnderway \/ PatchUnderway
        BY <4>1, <4>2, CallUnderway
      <4>4. Left + 1 = 1 /\ Left \in Nat
        BY <4>3, PlanIsCommands, LenProperties
        DEF TriggersUnderway, DeletionUnderway, PatchUnderway, DeploysTriggers, DeletesTriggers,
            PatchesTrigger, PlanInv, Left
      <4> QED
        BY <4>4 DEF Deploying
    <3> QED
      BY <3>1, <3>2
  <2> QED
    BY <1>1, <1>3, <2>1, <2>2, <2>3, RecipeServices DEF ServicesAsGiven
<1>5. CASE Current(s).kind = "Service"
  <2>1. /\ ServicesOf(recipe) = {Current(s)}
        /\ recipe = "serving-scenario-3" => section = "before" /\ Left = 2
        /\ phase'[Current(s)] = "live"
        /\ settings'[Current(s)] = createKnativeService \/ settings' = settings
    BY <1>5, ServiceRequest
  <2>2. Current(s) \in {Service("reciever"), Service("sleep-go-http")}
    BY <2>1, RecipeServices
  <2>3. \A k \in Keys : k.kind = "Service" => ServiceAsMade(k)
    BY DEF ServicesAsGiven
  <2>4. \A k \in Keys : k = Current(s) => ServiceAsMade(k)'
    BY <1>5, <2>1, <2>2, <2>3 DEF ServiceAsMade
  <2>5. \A k \in Keys : k.kind = "Service" => ServiceAsMade(k)'
    BY <1>2, <2>3, <2>4 DEF ServiceAsMade
  <2>6. \A k \in ServicesOf(recipe) : phase'[k] = "live"
    BY <2>1
  <2> QED
    BY <1>1, <2>1, <2>5, <2>6 DEF ServicesAsGiven
<1> QED
  BY <1>4, <1>5

LEMMA ServicesNext ==
  ASSUME PlanInv, ServicesAsGiven, [ScenariosNext]_allVars PROVE ServicesAsGiven'
<1> SUFFICES ASSUME Untroubled("Service")' PROVE ServicesAsGiven'
  BY DEF ServicesAsGiven
<1>1. Untroubled("Service")
  BY TroubleStays DEF PlanInv, LoopInv, Untroubled
<1>2. ASSUME NEW r \in Recipes, Begin(r) PROVE ServicesAsGiven'
  <2>1. /\ UNCHANGED <<settings, phase>> /\ section' = "before" /\ recipe' = r
        /\ todo' = BeforeLoops(r)
    BY <1>2 DEF Begin, vars, objects
  <2>2. /\ r = "serving-scenario-3" => Left' = 3
        /\ r = "eventing-scenario-1" => Left' = 2
    BY <2>1 DEF BeforeLoops, Left
  <2>3. Deploying' \/ ServicesOf(r) = {}
    BY <2>1, <2>2 DEF Deploying, ServicesOf
  <2>4. \A k : ServiceAsMade(k)' <=> ServiceAsMade(k)
    BY <2>1 DEF ServiceAsMade
  <2> QED
    BY <1>1, <2>1, <2>2, <2>3, <2>4 DEF ServicesAsGiven
<1>3. CASE RunDeployer \/ PatchAutoscaler \/ PatchConcurrency \/ KubectlFails
  BY <1>3, CommandKeepsServices
<1>4. CASE EnterOuter \/ EnterInner \/ Measure \/ NextOuter \/ Finish
  <2>1. /\ UNCHANGED <<settings, phase, recipe>> /\ todo = <<>> /\ Started' = Started
        /\ section' # "before"
    BY <1>4 DEF EnterOuter, EnterInner, Measure, NextOuter, Finish, SameRecipe, Between, vars,
                objects, Started
  <2>2. Left = 0 /\ ~Deploying
    BY <2>1, EmptySeq DEF Left, Deploying
  <2>3. \A k : ServiceAsMade(k)' <=> ServiceAsMade(k)
    BY <2>1 DEF ServiceAsMade
  <2> QED
    BY <1>1, <2>1, <2>2, <2>3 DEF ServicesAsGiven
<1>5. CASE Interrupt
  BY <1>5 DEF Interrupt, Untroubled, Kinds
<1>6. ASSUME NEW s \in Shells, Requests(s), UNCHANGED script PROVE ServicesAsGiven'
  BY <1>1, <1>6, RequestKeepsServices
<1>7. ASSUME NEW c \in ManualCalls, Manual(c) PROVE ServicesAsGiven'
  <2>1. UNCHANGED <<script, settings, phase>> /\ ScriptCall' = ScriptCall
    BY <1>7, ShellsAssumption DEF Manual, Start, objects, ScriptCall, PlanInv, LoopInv, TypeOK
  <2> QED
    BY <1>1, <2>1, SameServices
<1>8. CASE Controllers /\ UNCHANGED script
  <2>1. UNCHANGED <<settings, call>>
    BY <1>8 DEF Controllers, Touched, Removed, Others, objects
  <2>2. \A k \in Keys : k.kind = "Service" => phase[k] # "terminating"
    BY <1>1 DEF ServicesAsGiven, ServiceAsMade
  <2>3. \A k \in Keys : k.kind = "Service" => phase'[k] = phase[k]
    BY <1>8, <2>2 DEF Controllers, Touched, Removed, objects, PlanInv, LoopInv, TypeOK
  <2> QED
    BY <1>1, <1>8, <2>1, <2>3, SameServices DEF ScriptCall
<1>9. CASE Stopped \/ UNCHANGED allVars
  <2>1. UNCHANGED <<script, settings, phase, call>>
    BY <1>9 DEF Stopped, allVars, vars, objects
  <2> QED
    BY <1>1, <2>1, SameServices DEF ScriptCall
<1> QED
  BY <1>2, <1>3, <1>4, <1>5, <1>6, <1>7, <1>8, <1>9 DEF ScenariosNext, Script

-----------------------------------------------------------------------------
(* The triggers. *)

(* The command to create the triggers has been given, that to delete them not yet. *)
Deployed ==
  \/ /\ recipe = "eventing-scenario-2"
     /\ \/ section = "outer" /\ Left = 0
        \/ section = "inner"
        \/ section = "next" /\ Left # 0
  \/ /\ recipe \in {"eventing-scenario-1", "eventing-scenario-3"}
     /\ \/ section = "before" /\ Left = 0
        \/ InLoops
        \/ section = "after" /\ Left # 0

Wanted == {Trigger(i) : i \in 0..(Amount - 1)}

(* Those that the script's deployer has still to create or to delete. *)
Pending == IF ScriptCall.verb \in {"create", "delete"}
           THEN {k \in {KeyLeft(i) : i \in 1..KeysLeft} : k.kind = "Trigger"} ELSE {}

Patched == /\ recipe = "eventing-scenario-3" /\ section = "inner"
           /\ Left = 0 /\ ScriptCall = NoCall

TriggersAsGiven ==
  Untroubled("Trigger") =>
    /\ Triggers("live") = IF Deployed THEN Wanted \ Pending ELSE Pending
    /\ recipe # "eventing-scenario-3" =>
         \A k \in Triggers("live") : settings[k]["parallelism"] = "10"
    /\ Patched => settings[Trigger(0)]["parallelism"] = Head(outer)

LEMMA NothingPending == ScriptCall = NoCall => Pending = {}
  BY DEF Pending, NoCall

(* Steps that are not the script's, nor about triggers. *)
LEMMA SameTriggers ==
  ASSUME TriggersAsGiven, Untroubled("Trigger"), UNCHANGED script, ScriptCall' = ScriptCall,
         Triggers("live")' = Triggers("live"),
         \A k \in Keys : k.kind = "Trigger" => settings'[k] = settings[k]
  PROVE  TriggersAsGiven'
<1>1. /\ UNCHANGED <<recipe, section, outer, Left, InLoops>> /\ KeysLeft' = KeysLeft
      /\ \A i : KeyLeft(i)' = KeyLeft(i)
  BY DEF script, Left, InLoops, KeysLeft, KeyLeft
<1>2. Deployed' = Deployed /\ Wanted' = Wanted /\ Patched' = Patched
  BY <1>1 DEF Deployed, Wanted, Amount, Patched
<1>3. Pending' = Pending
  BY <1>1 DEF Pending
<1>4. Trigger(0) \in Keys /\ Trigger(0).kind = "Trigger"
  BY RecipeKeysAssumption DEF Trigger
<1>5. \A k \in Triggers("live") : k \in Keys /\ k.kind = "Trigger"
  BY DEF Triggers
<1> HIDE DEF Trigger
<1> QED
  BY <1>1, <1>2, <1>3, <1>4, <1>5 DEF TriggersAsGiven

LEMMA MoveKeepsTriggers ==
  ASSUME TriggersAsGiven, Untroubled("Trigger"),
         EnterOuter \/ EnterInner \/ Measure \/ NextOuter \/ Finish
  PROVE  TriggersAsGiven'
<1>1. /\ UNCHANGED <<phase, settings, call, recipe>> /\ todo = <<>> /\ ScriptCall = NoCall
  BY DEF EnterOuter, EnterInner, Measure, NextOuter, Finish, SameRecipe, Between, vars, objects,
         ScriptCall
<1>2. Left = 0
  BY <1>1, EmptySeq DEF Left
<1>3. Pending = {} /\ Pending' = {} /\ ScriptCall' = NoCall
  BY <1>1 DEF Pending, NoCall, ScriptCall
<1>4. Triggers("live")' = Triggers("live")
  BY <1>1 DEF Triggers
<1>5. /\ Deployed' = Deployed /\ (Deployed => Wanted' = Wanted) /\ ~Patched'
  <2>1. CASE EnterOuter
    <3>1. section = "before" /\ section' = "outer" /\ outer' = outer
          /\ todo' = OuterBefore(recipe, Head(outer))
      BY <2>1 DEF EnterOuter
    <3>2. recipe = "eventing-scenario-2" => Left' = 1
      BY <3>1 DEF OuterBefore, Left
    <3> QED
      BY <1>1, <1>2, <3>1, <3>2 DEF Deployed, Wanted, Amount, Patched, InLoops
  <2>2. CASE EnterInner
    <3>1. section = "outer" /\ section' = "inner" /\ outer' = outer
          /\ todo' = InnerBefore(recipe, Head(outer))
      BY <2>2 DEF EnterInner
    <3>2. recipe = "eventing-scenario-3" => Left' = 1
      BY <3>1 DEF InnerBefore, Left
    <3> QED
      BY <1>1, <1>2, <3>1, <3>2 DEF Deployed, Wanted, Amount, Patched, InLoops
  <2>3. CASE Measure
    <3>1. /\ section = "inner" /\ outer' = outer
          /\ \/ section' = "inner" /\ todo' = InnerBefore(recipe, Head(outer))
             \/ section' = "next" /\ todo' = OuterAfter(recipe, Head(outer))
      BY <2>3 DEF Measure
    <3>2. /\ recipe = "eventing-scenario-3" /\ section' = "inner" => Left' = 1
          /\ recipe = "eventing-scenario-2" /\ section' = "next" => Left' = 1
      BY <3>1 DEF InnerBefore, OuterAfter, Left
    <3> QED
      BY <1>1, <1>2, <3>1, <3>2 DEF Deployed, Wanted, Amount, Patched, InLoops
  <2>4. CASE NextOuter
    <3>1. /\ section = "next"
          /\ \/ section' = "outer" /\ todo' = OuterBefore(recipe, Head(outer'))
             \/ section' = "after" /\ todo' = AfterLoops(recipe)
      BY <2>4 DEF NextOuter
    <3>2. /\ recipe = "eventing-scenario-2" /\ section' = "outer" => Left' = 1
          /\ recipe \in {"eventing-scenario-1", "eventing-scenario-3"} /\ section' = "after"
               => Left' = 1
      BY <3>1 DEF OuterBefore, AfterLoops, Left
    <3> QED
      BY <1>1, <1>2, <3>1, <3>2 DEF Deployed, Wanted, Amount, Patched, InLoops
  <2>5. CASE Finish
    <3>1. section = "after" /\ section' = "finished"
      BY <2>5 DEF Finish
    <3> QED
      BY <1>1, <1>2, <3>1 DEF Deployed, Patched, InLoops
  <2> QED
    BY <2>1, <2>2, <2>3, <2>4, <2>5
<1> QED
  BY <1>1, <1>3, <1>4, <1>5 DEF TriggersAsGiven

Underway == ScriptCall # NoCall =>
              ServiceUnderway \/ TriggersUnderway \/ DeletionUnderway \/ PatchUnderway

LEMMA UnderwayNext == PlanInv' => Underway'
<1>1. PlanInv => Underway
  BY CallUnderway DEF Underway
<1> QED
  BY <1>1, PTL

LEMMA PendingOfCalls ==
  /\ ServiceUnderway \/ PatchUnderway => Pending = {}
  /\ TriggersUnderway \/ DeletionUnderway =>
       /\ Pending = {KeyLeft(i) : i \in 1..KeysLeft}
       /\ Pending = {Trigger(Amount - KeysLeft + i - 1) : i \in 1..KeysLeft}
<1>1. \A i : Trigger(i).kind = "Trigger"
  BY DEF Trigger
<1>2. ServiceUnderway => Pending = {}
  BY DEF ServiceUnderway, Pending
<1>3. PatchUnderway => Pending = {}
  BY DEF PatchUnderway, Pending
<1>4. ASSUME InOrder, ScriptCall.verb \in {"create", "delete"}
      PROVE  /\ Pending = {KeyLeft(i) : i \in 1..KeysLeft}
             /\ Pending = {Trigger(Amount - KeysLeft + i - 1) : i \in 1..KeysLeft}
  <2>1. \A i \in 1..KeysLeft : KeyLeft(i) = Trigger(Amount - KeysLeft + i - 1)
    BY <1>4 DEF InOrder
  <2>2. \A i \in 1..KeysLeft : KeyLeft(i).kind = "Trigger"
    BY <1>1, <2>1
  <2>3. Pending = {KeyLeft(i) : i \in 1..KeysLeft}
    BY <1>4, <2>2 DEF Pending
  <2> QED
    BY <2>1, <2>3
<1> QED
  BY <1>2, <1>3, <1>4 DEF TriggersUnderway, DeletionUnderway

LEMMA TriggersDiffer == \A i, j : Trigger(i) = Trigger(j) => i = j
  BY DEF Trigger

(* The key in hand is pending, and wanted. *)
LEMMA KeyInHand ==
  ASSUME PlanInv, TriggersUnderway \/ DeletionUnderway, Amount \in Nat
  PROVE  /\ 1 \in 1..KeysLeft /\ KeyLeft(1) \in Pending /\ Pending \subseteq Wanted
         /\ \A i \in 1..KeysLeft : KeyLeft(i) = KeyLeft(1) => i = 1
<1>1. /\ KeysLeft \in 1..Amount
      /\ \A i \in 1..KeysLeft : KeyLeft(i) = Trigger(Amount - KeysLeft + i - 1)
  BY DEF TriggersUnderway, DeletionUnderway, InOrder
<1>2. \A i \in 1..KeysLeft : Amount - KeysLeft + i - 1 \in 0..(Amount - 1)
  BY <1>1
<1>3. \A i \in 1..KeysLeft : Amount - KeysLeft + i - 1 = Amount - KeysLeft + 1 - 1 => i = 1
  BY <1>1
<1>4. 1 \in 1..KeysLeft
  BY <1>1
<1>5. Pending = {KeyLeft(i) : i \in 1..KeysLeft}
  BY PendingOfCalls
<1> QED
  BY <1>1, <1>2, <1>3, <1>4, <1>5, TriggersDiffer DEF Wanted

(* After one of its keys. *)
LEMMA PendingAfterOne ==
  ASSUME PlanInv, TriggersUnderway \/ DeletionUnderway, Amount \in Nat, Requests("script"),
         Proceed("script")
  PROVE  Pending' = Pending \ {KeyLeft(1)}
<1>1. TypeOK /\ "script" \in Shells /\ ScriptCall \in Call
  BY ShellsAssumption DEF PlanInv, LoopInv, TypeOK, ScriptCall
<1>2. ScriptCall.keys \in Seq(Keys) /\ ScriptCall.keys # <<>>
  BY <1>1, RestOfCall DEF ScriptCall
<1>3. ScriptCall' = Rest(ScriptCall)
  BY <1>1 DEF Proceed, TypeOK, ScriptCall
<1>4. /\ 1 \in 1..KeysLeft /\ Pending = {KeyLeft(i) : i \in 1..KeysLeft}
      /\ \A i \in 1..KeysLeft : KeyLeft(i) = KeyLeft(1) => i = 1
      /\ KeysLeft \in Nat
  BY KeyInHand, PendingOfCalls, <1>2, LenProperties DEF KeysLeft
<1>5. CASE KeysLeft = 1
  <2>1. ScriptCall' = NoCall
    BY <1>3, <1>5 DEF Rest, KeysLeft
  <2>2. Pending' = {}
    BY <2>1 DEF Pending, NoCall
  <2> QED
    BY <1>4, <1>5, <2>2
<1>6. CASE KeysLeft # 1
  <2>1. ScriptCall' = [ScriptCall EXCEPT !.keys = Tail(@)]
    BY <1>3, <1>6 DEF Rest, KeysLeft
  <2>2. ScriptCall'.keys = Tail(ScriptCall.keys) /\ ScriptCall'.verb = ScriptCall.verb
    BY <1>1, <2>1 DEF Call
  <2>3. KeysLeft' = KeysLeft - 1 /\ \A i \in 1..(KeysLeft - 1) : KeyLeft(i)' = KeyLeft(i + 1)
    BY <1>2, <2>2, HeadTailProperties DEF KeysLeft, KeyLeft
  <2>4. /\ ScriptCall.verb \in {"create", "delete"}
        /\ \A i \in 1..KeysLeft : KeyLeft(i).kind = "Trigger"
    BY DEF TriggersUnderway, DeletionUnderway, InOrder, Trigger
  <2>5. Pending' = {KeyLeft(i)' : i \in 1..(KeysLeft - 1)}
    <3>1. \A i \in 1..(KeysLeft - 1) : KeyLeft(i)'.kind = "Trigger"
      BY <1>4, <2>3, <2>4
    <3> QED
      BY <2>2, <2>3, <2>4, <3>1 DEF Pending
  <2>6. Pending' = {KeyLeft(i + 1) : i \in 1..(KeysLeft - 1)}
    BY <2>3, <2>5
  <2>7. \A i \in 1..KeysLeft : i # 1 => i - 1 \in 1..(KeysLeft - 1) /\ (i - 1) + 1 = i
    BY <1>4
  <2>8. \A i \in 1..(KeysLeft - 1) : i + 1 \in 1..KeysLeft /\ i + 1 # 1
    BY <1>4
  <2>9. ASSUME NEW k \in Pending, k # KeyLeft(1) PROVE k \in Pending'
    <3>1. PICK i \in 1..KeysLeft : k = KeyLeft(i)
      BY <1>4
    <3>2. i # 1
      BY <2>9, <3>1
    <3>3. k = KeyLeft((i - 1) + 1) /\ i - 1 \in 1..(KeysLeft - 1)
      BY <2>7, <3>1, <3>2
    <3> QED
      BY <2>6, <3>3
  <2>10. ASSUME NEW k \in Pending' PROVE k \in Pending /\ k # KeyLeft(1)
    <3>1. PICK i \in 1..(KeysLeft - 1) : k = KeyLeft(i + 1)
      BY <2>6
    <3> QED
      BY <1>4, <2>8, <3>1
  <2> QED
    BY <2>9, <2>10
<1> QED
  BY <1>5, <1>6

LEMMA BeginKeepsTriggers ==
  ASSUME PlanInv, TriggersAsGiven, Untroubled("Trigger"), NEW r \in Recipes, Begin(r)
  PROVE  TriggersAsGiven'
<1>1. /\ UNCHANGED <<phase, call>> /\ Idle
      /\ section' = "before" /\ recipe' = r /\ todo' = BeforeLoops(r)
  BY DEF Begin, vars, objects
<1>2. ScriptCall = NoCall /\ ScriptCall' = NoCall
  BY <1>1 DEF PlanInv, LoopInv, Loops, ScriptTypes, ScriptCall
<1>3. Pending = {} /\ Pending' = {} /\ ~Deployed
  BY <1>1, <1>2 DEF Pending, NoCall, Deployed, Idle, InLoops
<1>4. /\ r = "eventing-scenario-1" => Left' = 2
      /\ r = "eventing-scenario-3" => Left' = 1
  BY <1>1 DEF BeforeLoops, Left
<1>5. ~Deployed' /\ ~Patched'
  BY <1>1, <1>4 DEF Deployed, Patched, InLoops
<1>6. Triggers("live") = {} /\ Triggers("live")' = {}
  <2>1. Triggers("live") = {}
    BY <1>3 DEF TriggersAsGiven
  <2> QED
    BY <1>1, <2>1 DEF Triggers
<1> QED
  BY <1>3, <1>5, <1>6 DEF TriggersAsGiven

LEMMA KubectlKeepsTriggers ==
  ASSUME PlanInv, TriggersAsGiven, Untroubled("Trigger"),
         PatchAutoscaler \/ PatchConcurrency \/ KubectlFails
  PROVE  TriggersAsGiven'
<1>1. PICK tool \in {"configmap", "ksvc"} : Command(tool)
  BY DEF PatchAutoscaler, PatchConcurrency, KubectlFails
<1>2. UNCHANGED <<phase, call, recipe, section>>
  BY <1>1 DEF PatchAutoscaler, PatchConcurrency, KubectlFails, KubectlPatch, Others, Command,
              vars, objects
<1>3. ScriptCall = NoCall /\ ScriptCall' = NoCall
  BY <1>1, <1>2 DEF Command, ScriptCall
<1>4. PatchesAutoscaler(Left, Due) \/ PatchesConcurrency(Left, Due)
  BY <1>1, DueCommand, PlannedTools
<1>5. recipe \in {"serving-scenario-2", "serving-scenario-3"}
  BY <1>4 DEF PatchesAutoscaler, PatchesConcurrency
<1>6. ~Deployed /\ ~Deployed' /\ ~Patched'
  BY <1>2, <1>5 DEF Deployed, Patched
<1>7. Pending = {} /\ Pending' = {}
  BY <1>3 DEF Pending, NoCall
<1>8. Triggers("live") = {} /\ Triggers("live")' = {}
  <2>1. Triggers("live") = {}
    BY <1>6, <1>7 DEF TriggersAsGiven
  <2> QED
    BY <1>2, <2>1 DEF Triggers
<1> QED
  BY <1>6, <1>7, <1>8 DEF TriggersAsGiven

LEMMA AmountWhileAtIt ==
  ASSUME PlanInv, TriggersUnderway \/ DeletionUnderway PROVE Amount \in Nat
<1>1. /\ recipe = "eventing-scenario-2" => section \in {"outer", "next"}
      /\ recipe \in {"eventing-scenario-1", "eventing-scenario-2", "eventing-scenario-3"}
  BY DEF TriggersUnderway, DeletionUnderway, DeploysTriggers, DeletesTriggers
<1>2. recipe = "eventing-scenario-2" => outer # <<>> /\ Started
  BY <1>1 DEF PlanInv, LoopInv, Loops, Sections, Started
<1> QED
  BY <1>2, AmountOfTriggers DEF PlanInv, Amount

(* The script's deployer begins with all the keys to come. *)
LEMMA DeployerKeepsTriggers ==
  ASSUME PlanInv, PlanInv', TriggersAsGiven, Untroubled("Trigger"), RunDeployer
  PROVE  TriggersAsGiven'
<1>1. /\ UNCHANGED <<objects, recipe, section, outer>> /\ Command("deployer")
      /\ ScriptCall = NoCall /\ ScriptCall' = Due.call
  BY ShellsAssumption
  DEF RunDeployer, Command, Start, PlanInv, LoopInv, TypeOK, ScriptCall, Due
<1>2. /\ Planned(Left, Due) /\ Due.tool = "deployer"
      /\ (Left = 3 => Left' = 2) /\ (Left = 2 => Left' = 1) /\ (Left = 1 => Left' = 0)
  BY <1>1, DueCommand
<1>3. Due.call \in Calls
  BY <1>1, HeadOfTodo DEF Command, Commands, PlanInv, LoopInv, Loops, Due
<1>4. ScriptCall' # NoCall /\ ScriptCall'.keys \in Seq(Keys)
  BY <1>1, <1>3 DEF Calls, Call, NoCall
<1>5. Pending = {} /\ Triggers("live")' = Triggers("live")
      /\ Amount' = Amount /\ Wanted' = Wanted /\ InLoops' = InLoops
      /\ settings' = settings /\ ~Patched'
  BY <1>1, <1>4 DEF Pending, NoCall, Triggers, objects, Amount, Wanted, InLoops, Patched
<1>6. CASE DeploysService(Left, Due) \/ PatchesTrigger(Left, Due)
  <2>1. Deployed' = Deployed
    BY <1>1, <1>2, <1>5, <1>6 DEF DeploysService, PatchesTrigger, Deployed, InLoops
  <2>2. Pending' = {}
    <3>1. CASE DeploysService(Left, Due)
      <4>1. PICK name : ScriptCall'.keys = Numbered("Service", name, 1)
        BY <1>1, <3>1 DEF DeploysService, Deployer, deploy
      <4>2. PICK n \in Nat : n = 1
        OBVIOUS
      <4>3. /\ Len(Numbered("Service", name, n)) = n
            /\ \A i \in 1..n : Numbered("Service", name, n)[i] =
                 [kind |-> "Service", name |-> name, index |-> i - 1]
        <5>1. Numbered("Service", name, n) \in Seq(Keys)
          BY <1>4, <4>1, <4>2
        <5> QED
          BY <5>1, NumberedElements
      <4>4. KeysLeft' = 1 /\ KeyLeft(1)'.kind = "Service"
        BY <4>1, <4>2, <4>3 DEF KeysLeft, KeyLeft
      <4>5. \A i \in 1..1 : i = 1
        OBVIOUS
      <4> QED
        BY <4>4, <4>5 DEF Pending
    <3>2. CASE PatchesTrigger(Left, Due)
      <4>1. ScriptCall'.verb = "get"
        BY <1>1, <3>2 DEF PatchesTrigger, Deployer, patchTrigger
      <4> QED
        BY <4>1 DEF Pending
    <3> QED
      BY <1>6, <3>1, <3>2
  <2> QED
    BY <1>1, <1>5, <2>1, <2>2 DEF TriggersAsGiven
<1>7. CASE DeploysTriggers(Left, Due) \/ DeletesTriggers(Left, Due)
  <2>1. /\ ScriptCall'.keys = Numbered("Trigger", "trigger", Amount)
        /\ ScriptCall'.verb \in {"create", "delete"}
    BY <1>1, <1>7 DEF DeploysTriggers, DeletesTriggers, Deployer, deployTrigger, deleteTrigger
  <2>2. Amount \in Nat
    <3>1. recipe = "eventing-scenario-2" => outer # <<>> /\ Started
      BY <1>7 DEF DeploysTriggers, DeletesTriggers, PlanInv, LoopInv, Loops, Sections, Started
    <3> QED
      BY <3>1, AmountOfTriggers DEF PlanInv, Amount
  <2>3. KeysLeft' = Amount /\ \A i \in 1..Amount : KeyLeft(i)' = Trigger(i - 1)
    <3>1. Numbered("Trigger", "trigger", Amount) \in Seq(Keys)
      BY <1>4, <2>1
    <3>2. /\ Len(Numbered("Trigger", "trigger", Amount)) = Amount
          /\ \A i \in 1..Amount : Numbered("Trigger", "trigger", Amount)[i] = Trigger(i - 1)
      BY <2>2, <3>1, NumberedElements DEF Trigger
    <3> QED
      BY <2>1, <3>2 DEF KeysLeft, KeyLeft
  <2>4. Pending' = {Trigger(i - 1) : i \in 1..Amount}
    <3>1. \A i : Trigger(i).kind = "Trigger"
      BY DEF Trigger
    <3>2. Pending' = {KeyLeft(i)' : i \in 1..Amount}
      BY <2>1, <2>3, <3>1 DEF Pending
    <3> QED
      BY <2>3, <3>2
  <2>5. Pending' = Wanted
    <3>1. \A i \in 1..Amount : i - 1 \in 0..(Amount - 1)
      BY <2>2
    <3>2. \A i \in 0..(Amount - 1) : i + 1 \in 1..Amount /\ (i + 1) - 1 = i
      BY <2>2
    <3>3. ASSUME NEW k \in Wanted PROVE k \in Pending'
      <4>1. PICK i \in 0..(Amount - 1) : k = Trigger(i)
        BY DEF Wanted
      <4>2. i + 1 \in 1..Amount /\ k = Trigger((i + 1) - 1)
        BY <3>2, <4>1
      <4> QED
        BY <2>4, <4>2
    <3>4. Pending' \subseteq Wanted
      BY <2>4, <3>1 DEF Wanted
    <3> QED
      BY <3>3, <3>4
  <2>6. (Deployed' <=> ~Deployed) /\ (Deployed <=> DeletesTriggers(Left, Due))
    BY <1>1, <1>2, <1>5, <1>7 DEF DeploysTriggers, DeletesTriggers, Deployed, InLoops
  <2>7. Triggers("live") = IF Deployed THEN Wanted ELSE {}
    BY <1>5 DEF TriggersAsGiven
  <2>8. Triggers("live")' = IF Deployed' THEN Wanted' \ Pending' ELSE Pending'
    BY <1>5, <2>5, <2>6, <2>7
  <2> QED
    BY <1>1, <1>5, <2>8 DEF TriggersAsGiven
<1> QED
  BY <1>2, <1>6, <1>7, PlannedTools

(* While the script waits, its plan stays. *)
LEMMA SameUnderway ==
  ASSUME UNCHANGED script
  PROVE  /\ UNCHANGED <<recipe, section, outer, Left, InLoops, Deployed, Amount, Wanted>>
         /\ \A n, c : DeploysService(n, c)' <=> DeploysService(n, c)
         /\ \A n, c : PatchesTrigger(n, c)' <=> PatchesTrigger(n, c)
<1>1. UNCHANGED <<recipe, section, outer, todo, Left, InLoops>>
  BY DEF script, Left, InLoops
<1> QED
  BY <1>1 DEF Deployed, Amount, Wanted, DeploysService, PatchesTrigger

(* A request about a trigger that was refused or failed is trouble. *)
LEMMA RefusedIsTrouble ==
  ASSUME NEW s \in Shells, Current(s).kind = "Trigger", Untroubled("Trigger")'
  PROVE  /\ ~NotFound(s) /\ ~Conflict(s) /\ ~RequestFails(s)
         /\ CreateRefused(s) => phase[Current(s)] = "live"
  BY DEF NotFound, Conflict, RequestFails, CreateRefused, Trouble, Untroubled

LEMMA OtherRequestKeepsTriggers ==
  ASSUME PlanInv, TriggersAsGiven, Untroubled("Trigger")', Untroubled("Trigger"),
         NEW s \in Shells, Requests(s), s # "script", UNCHANGED script
  PROVE  TriggersAsGiven'
<1>1. TypeOK /\ Current(s).kind # "Trigger"
  BY RequestOfOthers DEF PlanInv, LoopInv
<1>2. \A k \in Keys : k.kind = "Trigger" => settings'[k] = settings[k] /\ phase'[k] = phase[k]
  BY <1>1, RequestOfOneObject
<1>3. Triggers("live")' = Triggers("live")
  BY <1>2 DEF Triggers
<1>4. ScriptCall' = ScriptCall
  BY <1>1, RequestsOfOneShell, ShellsAssumption DEF ScriptCall
<1> QED
  BY <1>2, <1>3, <1>4, SameTriggers

LEMMA ScriptRequestKeepsTriggers ==
  ASSUME PlanInv, PlanInv', TriggersAsGiven, Untroubled("Trigger")', Untroubled("Trigger"),
         Requests("script"), UNCHANGED script
  PROVE  TriggersAsGiven'
<1>1. TypeOK /\ "script" \in Shells
  BY ShellsAssumption DEF PlanInv, LoopInv
<1>2. /\ ScriptCall # NoCall /\ Current("script") = KeyLeft(1) /\ 1 \in 1..KeysLeft
      /\ Current("script") \in Keys
      /\ \A k \in Keys : k # Current("script") => settings'[k] = settings[k] /\ phase'[k] = phase[k]
  BY <1>1, FirstKey, RequestOfOneObject DEF ScriptCall, KeyLeft, KeysLeft
<1>3. /\ UNCHANGED <<recipe, section, outer, Left, Deployed, Amount, Wanted>>
      /\ Given' = Given
  BY SameUnderway, SamePlan DEF script, Given
<1>4. \A k \in Triggers("live") : k \in Keys /\ k.kind = "Trigger" /\ phase[k] = "live"
  BY DEF Triggers
<1>5. \A i : Trigger(i).kind = "Trigger"
  BY DEF Trigger
<1>6. Requests("script") => \/ Create("script") \/ CreateRefused("script") \/ Delete("script")
                           \/ Get("script") \/ NotFound("script") \/ Update("script")
                           \/ Conflict("script") \/ RequestFails("script")
  BY DEF Requests
<1>7. CASE ServiceUnderway
  <2>1. Current("script").kind = "Service"
    BY <1>2, <1>7 DEF ServiceUnderway
  <2>2. \A k \in Keys : k.kind = "Trigger" => settings'[k] = settings[k] /\ phase'[k] = phase[k]
    BY <1>2, <2>1
  <2>3. Triggers("live")' = Triggers("live")
    BY <2>2 DEF Triggers
  <2>4. Pending = {} /\ section = "before" /\ Left + 1 \in {2, 3}
    BY <1>7, PendingOfCalls DEF ServiceUnderway, DeploysService
  <2>5. Pending' = {}
    <3>1. CASE ScriptCall' = NoCall
      BY <3>1 DEF Pending, NoCall
    <3>2. CASE ScriptCall' # NoCall
      <4>1. \A i \in 1..KeysLeft' : KeyLeft(i)'.kind = "Service"
        <5>1. Underway'
          BY UnderwayNext
        <5>2. ~TriggersUnderway' /\ ~DeletionUnderway' /\ ~PatchUnderway'
          BY <1>3, <2>4
          DEF TriggersUnderway, DeletionUnderway, PatchUnderway, DeploysTriggers, DeletesTriggers,
              PatchesTrigger
        <5> QED
          BY <3>2, <5>1, <5>2 DEF Underway, ServiceUnderway
      <4> QED
        BY <4>1 DEF Pending
    <3> QED
      BY <3>1, <3>2
  <2> QED
    BY <1>3, <1>4, <2>2, <2>3, <2>4, <2>5 DEF TriggersAsGiven, Patched
<1>8. CASE TriggersUnderway
  <2>1. /\ Current("script").kind = "Trigger" /\ ScriptCall.verb = "create" /\ Deployed
        /\ section # "inner" /\ ScriptCall.sets["parallelism"] = "10"
    <3>1. Current("script").kind = "Trigger"
      BY <1>2, <1>5, <1>8 DEF TriggersUnderway, InOrder
    <3>2. Left + 1 = 1 /\ Left \in Nat
      BY <1>8, PlanIsCommands, LenProperties DEF TriggersUnderway, DeploysTriggers, PlanInv, Left
    <3>3. [Unset EXCEPT !["parallelism"] = "10"]["parallelism"] = "10"
      BY DEF Unset, Fields
    <3> QED
      BY <1>8, <3>1, <3>2, <3>3 DEF TriggersUnderway, DeploysTriggers, Deployed
  <2>2. KeyLeft(1) \in Pending /\ Pending \subseteq Wanted
    BY <1>8, AmountWhileAtIt, KeyInHand
  <2>3. Triggers("live") = Wanted \ Pending
    BY <2>1 DEF TriggersAsGiven
  <2>4. Create("script")
    <3>1. KeyLeft(1) \notin Triggers("live")
      BY <2>2, <2>3
    <3>2. phase[Current("script")] # "live"
      BY <1>2, <2>1, <3>1 DEF Triggers
    <3> QED
      BY <1>1, <1>6, <2>1, <3>2, RefusedIsTrouble DEF Delete, Get, Update, ScriptCall
  <2>5. /\ phase' = [phase EXCEPT ![KeyLeft(1)] = "live"] /\ Proceed("script")
        /\ settings' = [settings EXCEPT ![KeyLeft(1)] = ScriptCall.sets]
    BY <1>2, <2>4 DEF Create, ScriptCall
  <2>6. Pending' = Pending \ {KeyLeft(1)}
    BY <1>8, <2>5, AmountWhileAtIt, PendingAfterOne
  <2>7. Triggers("live")' = Triggers("live") \cup {KeyLeft(1)}
    BY <1>1, <1>2, <2>1, <2>5 DEF Triggers, TypeOK
  <2>8. Triggers("live")' = Wanted \ Pending'
    BY <2>2, <2>3, <2>6, <2>7
  <2>9. settings'[KeyLeft(1)]["parallelism"] = "10"
    BY <1>1, <1>2, <2>1, <2>5 DEF TypeOK
  <2> QED
    BY <1>2, <1>3, <1>4, <2>1, <2>7, <2>8, <2>9 DEF TriggersAsGiven, Patched
<1>9. CASE DeletionUnderway
  <2>1. /\ Current("script").kind = "Trigger" /\ ScriptCall.verb = "delete" /\ ~Deployed
        /\ section # "inner"
    <3>1. Current("script").kind = "Trigger"
      BY <1>2, <1>5, <1>9 DEF DeletionUnderway, InOrder
    <3>2. Left + 1 = 1 /\ Left \in Nat
      BY <1>9, PlanIsCommands, LenProperties DEF DeletionUnderway, DeletesTriggers, PlanInv, Left
    <3> QED
      BY <1>9, <3>1, <3>2 DEF DeletionUnderway, DeletesTriggers, Deployed, InLoops
  <2>2. KeyLeft(1) \in Pending
    BY <1>9, AmountWhileAtIt, KeyInHand
  <2>3. Triggers("live") = Pending
    BY <2>1 DEF TriggersAsGiven
  <2>4. Delete("script")
    BY <1>1, <1>6, <2>1, RefusedIsTrouble DEF Create, CreateRefused, Get, Update, ScriptCall
  <2>5. /\ phase' = [phase EXCEPT ![KeyLeft(1)] = "terminating"] /\ Proceed("script")
        /\ settings' = settings
    BY <1>2, <2>4 DEF Delete, ScriptCall
  <2>6. Pending' = Pending \ {KeyLeft(1)}
    BY <1>9, <2>5, AmountWhileAtIt, PendingAfterOne
  <2>7. Triggers("live")' = Triggers("live") \ {KeyLeft(1)}
    BY <1>1, <1>2, <2>5 DEF Triggers, TypeOK
  <2> QED
    BY <1>3, <2>1, <2>3, <2>5, <2>6, <2>7 DEF TriggersAsGiven, Patched
<1>10. CASE PatchUnderway
  <2>1. /\ Current("script") = Trigger(0) /\ ScriptCall.verb \in {"get", "update"}
        /\ recipe = "eventing-scenario-3" /\ section = "inner" /\ Deployed /\ Pending = {}
    BY <1>2, <1>10, PendingOfCalls
    DEF PatchUnderway, PatchesTrigger, KeyLeft, Deployed, InLoops
  <2>2. Triggers("live") = Wanted
    BY <2>1 DEF TriggersAsGiven
  <2>3. Get("script") \/ Update("script")
    BY <1>1, <1>5, <1>6, <2>1, RefusedIsTrouble DEF Create, CreateRefused, Delete, ScriptCall
  <2>4. phase' = phase /\ Triggers("live")' = Triggers("live")
    BY <2>3 DEF Get, Update, objects, Triggers
  <2>5. CASE Get("script")
    <3>1. ScriptCall'.verb = "update"
      BY <1>1, <2>5 DEF Get, ScriptCall, TypeOK, Call
    <3>2. Pending' = {} /\ ~Patched'
      BY <3>1 DEF Pending, Patched, NoCall
    <3> QED
      BY <1>3, <2>1, <2>2, <2>4, <3>2 DEF TriggersAsGiven
  <2>6. CASE Update("script")
    <3>1. ScriptCall' = NoCall
      BY <1>1, <2>6 DEF Update, Return, ScriptCall, TypeOK
    <3>2. Pending' = {}
      BY <3>1 DEF Pending, NoCall
    <3>3. settings' = [settings EXCEPT ![Trigger(0)] = Merge(ScriptCall.sets, got["script"])]
      BY <2>1, <2>6 DEF Update, ScriptCall
    <3>4. ScriptCall.sets = [Kept EXCEPT !["parallelism"] = Head(outer)]
      BY <1>10 DEF PatchUnderway
    <3>5. Head(outer) # "kept"
      <4>1. Outer(recipe) = Workers /\ outer # <<>> /\ Started
        BY <2>1 DEF Outer, PlanInv, LoopInv, Loops, Sections, Started
      <4>2. Pass \in 1..Len(Workers) /\ Head(outer) = Workers[Pass]
        BY <4>1, CurrentPass DEF PlanInv, LoopInv, Loops, Passes, LastPass
      <4> QED
        BY <4>2, WordsAssumption, ElementOfSeq DEF Words
    <3>6. Merge(ScriptCall.sets, got["script"])["parallelism"] = Head(outer)
      BY <3>4, <3>5 DEF Merge, Kept, Fields
    <3>7. settings'[Trigger(0)]["parallelism"] = Head(outer)
      BY <1>1, <3>3, <3>6, RecipeKeysAssumption DEF TypeOK
    <3> QED
      BY <1>3, <2>1, <2>2, <2>4, <3>2, <3>7 DEF TriggersAsGiven
  <2> QED
    BY <2>3, <2>5, <2>6
<1> QED
  BY <1>2, <1>7, <1>8, <1>9, <1>10, CallUnderway

LEMMA TriggersNext ==
  ASSUME PlanInv, PlanInv', TriggersAsGiven, [ScenariosNext]_allVars PROVE TriggersAsGiven'
<1> SUFFICES ASSUME Untroubled("Trigger")' PROVE TriggersAsGiven'
  BY DEF TriggersAsGiven
<1>1. Untroubled("Trigger")
  BY TroubleStays DEF PlanInv, LoopInv, Untroubled
<1>2. ASSUME NEW r \in Recipes, Begin(r) PROVE TriggersAsGiven'
  BY <1>1, <1>2, BeginKeepsTriggers
<1>3. CASE RunDeployer
  BY <1>1, <1>3, DeployerKeepsTriggers
<1>4. CASE PatchAutoscaler \/ PatchConcurrency \/ KubectlFails
  BY <1>1, <1>4, KubectlKeepsTriggers
<1>5. CASE EnterOuter \/ EnterInner \/ Measure \/ NextOuter \/ Finish
  BY <1>1, <1>5, MoveKeepsTriggers
<1>6. CASE Interrupt
  BY <1>6 DEF Interrupt, Untroubled, Kinds
<1>7. ASSUME NEW s \in Shells, Requests(s), UNCHANGED script PROVE TriggersAsGiven'
  BY <1>1, <1>7, OtherRequestKeepsTriggers, ScriptRequestKeepsTriggers
<1>8. ASSUME UNCHANGED <<script, settings>>, ScriptCall' = ScriptCall,
             Triggers("live")' = Triggers("live")
      PROVE  TriggersAsGiven'
  BY <1>1, <1>8, SameTriggers
<1>9. ASSUME NEW c \in ManualCalls, Manual(c) PROVE TriggersAsGiven'
  <2>1. UNCHANGED <<script, settings, phase>> /\ ScriptCall' = ScriptCall
    BY <1>9, ShellsAssumption DEF Manual, Start, objects, ScriptCall, PlanInv, LoopInv, TypeOK
  <2> QED
    BY <1>8, <2>1 DEF Triggers
<1>10. CASE Controllers /\ UNCHANGED script
  <2>1. UNCHANGED <<settings, call>>
    BY <1>10 DEF Controllers, Touched, Removed, Others, objects
  <2>2. Triggers("live")' = Triggers("live")
    BY <1>10 DEF Controllers, Touched, Removed, objects, Triggers, PlanInv, LoopInv, TypeOK
  <2> QED
    BY <1>8, <1>10, <2>1, <2>2 DEF ScriptCall
<1>11. CASE Stopped \/ UNCHANGED allVars
  <2>1. UNCHANGED <<script, settings, phase, call>>
    BY <1>11 DEF Stopped, allVars, vars, objects
  <2> QED
    BY <1>8, <2>1 DEF ScriptCall, Triggers
<1> QED
  BY <1>2, <1>3, <1>4, <1>5, <1>6, <1>7, <1>9, <1>10, <1>11 DEF ScenariosNext, Script

-----------------------------------------------------------------------------
(* The triggers that are being deleted. *)

AllTriggersOf(r) == UNION {TriggersOf(r, Outer(r)[o]) : o \in 1..Len(Outer(r))}

(* Those that the recipe may have deleted so far. The amounts ascend, so that no pass of
   the outer loop creates fewer triggers than the passes before it. *)
Own == IF section \in {"before", "outer", "inner", "next"}
       THEN TriggersOf(recipe, Head(outer)) ELSE AllTriggersOf(recipe)

TerminatingAsGiven ==
  Untroubled("Trigger") /\ Started => Triggers("terminating") \subseteq inherited \cup Own

LEMMA WantedByRecipe ==
  ASSUME recipe \in {"eventing-scenario-1", "eventing-scenario-2", "eventing-scenario-3"}
  PROVE  TriggersOf(recipe, Head(outer)) = Wanted
<1>1. CASE recipe = "eventing-scenario-2"
  BY <1>1 DEF TriggersOf, Wanted, Amount
<1>2. CASE recipe \in {"eventing-scenario-1", "eventing-scenario-3"}
  <2>1. Amount = 1 /\ \A i : i \in 0..(1 - 1) <=> i = 0
    BY <1>2 DEF Amount
  <2>2. Wanted = {Trigger(0)}
    BY <2>1 DEF Wanted
  <2> QED
    BY <1>2, <2>2 DEF TriggersOf
<1> QED
  BY <1>1, <1>2

(* Each pass has the triggers of the one before, and all has those of each. *)
LEMMA TriggersOfPasses ==
  ASSUME NEW r \in RecipeNames, NEW p \in 1..Len(Outer(r))
  PROVE  /\ TriggersOf(r, Outer(r)[p]) \subseteq AllTriggersOf(r)
         /\ \A q \in 1..Len(Outer(r)) :
              q = p + 1 => TriggersOf(r, Outer(r)[p]) \subseteq TriggersOf(r, Outer(r)[q])
<1>1. TriggersOf(r, Outer(r)[p]) \subseteq AllTriggersOf(r)
  BY DEF AllTriggersOf
<1>2. ASSUME NEW q \in 1..Len(Outer(r)), q = p + 1
      PROVE  TriggersOf(r, Outer(r)[p]) \subseteq TriggersOf(r, Outer(r)[q])
  <2>1. CASE r = "eventing-scenario-2"
    <3>1. Outer(r) = Amounts
      BY <2>1 DEF Outer
    <3>2. \A i \in 1..Len(Amounts) : Amounts[i] \in Nat
      BY WordsAssumption, ElementOfSeq DEF Words
    <3>3. Amounts[p] < Amounts[q] /\ Amounts[p] \in Nat /\ Amounts[q] \in Nat
      BY <1>2, <3>1, <3>2, WordsAssumption
    <3>4. \A m, n \in Nat : m < n => 0..(m - 1) \subseteq 0..(n - 1)
      OBVIOUS
    <3>5. 0..(Amounts[p] - 1) \subseteq 0..(Amounts[q] - 1)
      BY <3>3, <3>4
    <3> QED
      BY <2>1, <3>1, <3>5 DEF TriggersOf
  <2>2. CASE r # "eventing-scenario-2"
    BY <2>2 DEF TriggersOf
  <2> QED
    BY <2>1, <2>2
<1> QED
  BY <1>1, <1>2

LEMMA FewerTerminating ==
  ASSUME TerminatingAsGiven, Untroubled("Trigger"), UNCHANGED script,
         Triggers("terminating")' \subseteq Triggers("terminating")
  PROVE  TerminatingAsGiven'
<1>1. UNCHANGED <<recipe, section, outer, inherited>> /\ Started' = Started
  BY DEF script, Started
<1>2. Own' = Own
  BY <1>1 DEF Own
<1> QED
  BY <1>1, <1>2 DEF TerminatingAsGiven

LEMMA CommandKeepsTerminating ==
  ASSUME TerminatingAsGiven, Untroubled("Trigger"),
         RunDeployer \/ PatchAutoscaler \/ PatchConcurrency \/ KubectlFails
  PROVE  TerminatingAsGiven'
<1>1. UNCHANGED <<recipe, section, outer, inherited, phase>> /\ Started' = Started
  BY DEF RunDeployer, PatchAutoscaler, PatchConcurrency, KubectlFails, Command, Start,
         KubectlPatch, vars, objects, Started
<1>2. Own' = Own /\ Triggers("terminating")' = Triggers("terminating")
  BY <1>1 DEF Own, Triggers
<1> QED
  BY <1>1, <1>2 DEF TerminatingAsGiven

LEMMA MoveKeepsTerminating ==
  ASSUME PlanInv, TerminatingAsGiven, Untroubled("Trigger"),
         EnterOuter \/ EnterInner \/ Measure \/ NextOuter \/ Finish
  PROVE  TerminatingAsGiven'
<1>1. UNCHANGED <<recipe, inherited, phase>> /\ Started
  BY DEF EnterOuter, EnterInner, Measure, NextOuter, Finish, SameRecipe, vars, objects, Started
<1>2. Triggers("terminating")' = Triggers("terminating")
  BY <1>1 DEF Triggers
<1>3. Own \subseteq Own'
  <2>1. CASE EnterOuter \/ EnterInner \/ Measure
    <3>1. /\ section \in {"before", "outer", "inner"} /\ outer' = outer
          /\ section' \in {"outer", "inner", "next"}
      BY <2>1 DEF EnterOuter, EnterInner, Measure
    <3> QED
      BY <1>1, <3>1 DEF Own
  <2>2. CASE NextOuter
    <3>1. /\ section = "next" /\ outer' = Tail(outer)
          /\ outer' # <<>> => section' = "outer"
          /\ outer' = <<>> => section' = "after"
      BY <2>2 DEF NextOuter
    <3>2. /\ recipe \in RecipeNames /\ outer # <<>> /\ LastPass \in Nat
          /\ Pass \in Passes /\ Head(outer) = Outer(recipe)[Pass]
          /\ Tail(outer) \in Seq(WordTypes) /\ Len(Tail(outer)) = Len(outer) - 1
          /\ \A i \in 1..Len(Tail(outer)) : Tail(outer)[i] = outer[i + 1]
          /\ Len(outer) \in Nat
      BY <1>1, <3>1, StartedRecipe, CurrentPass DEF PlanInv, LoopInv, Loops, Sections
    <3>3. Own = TriggersOf(recipe, Outer(recipe)[Pass])
      BY <3>1, <3>2 DEF Own
    <3>4. CASE outer' = <<>>
      <4>1. Own' = AllTriggersOf(recipe)
        BY <1>1, <3>1, <3>4 DEF Own, AllTriggersOf
      <4> QED
        BY <3>2, <3>3, <4>1, TriggersOfPasses DEF Passes, LastPass
    <3>5. CASE outer' # <<>>
      <4>1. Len(outer') \in Nat \ {0} /\ Head(outer') = outer'[1]
        BY <3>1, <3>2, <3>5, LenProperties, EmptySeq, HeadTailProperties
      <4>2. 1 \in 1..Len(outer') /\ 2 \in 1..Len(outer)
        BY <3>1, <3>2, <4>1
      <4>3. outer[2] = Outer(recipe)[Pass - 1 + 2]
        BY <1>1, <4>2 DEF PlanInv, LoopInv, Loops, LoopWords
      <4>4. Pass + 1 \in 1..LastPass /\ Pass - 1 + 2 = Pass + 1
        BY <3>2, <4>2 DEF Pass, Passes
      <4>5. outer'[1] = outer[2]
        <5>1. 1 \in 1..Len(Tail(outer)) /\ 1 + 1 = 2
          BY <3>1, <4>2
        <5>2. Tail(outer)[1] = outer[1 + 1]
          BY <3>2, <5>1
        <5> QED
          BY <3>1, <5>1, <5>2
      <4>6. Head(outer') = Outer(recipe)[Pass + 1]
        BY <4>1, <4>3, <4>4, <4>5
      <4>7. Own' = TriggersOf(recipe, Outer(recipe)[Pass + 1])
        BY <1>1, <3>1, <3>5, <4>6 DEF Own
      <4> QED
        BY <3>2, <3>3, <4>4, <4>7, TriggersOfPasses DEF Passes, LastPass
    <3> QED
      BY <3>4, <3>5
  <2>3. CASE Finish
    <3>1. section = "after" /\ section' = "finished"
      BY <2>3 DEF Finish
    <3> QED
      BY <1>1, <3>1 DEF Own, AllTriggersOf
  <2> QED
    BY <2>1, <2>2, <2>3
<1> QED
  BY <1>1, <1>2, <1>3 DEF TerminatingAsGiven

LEMMA DeletionIsOwn == PlanInv /\ DeletionUnderway => KeyLeft(1) \in Own
<1> SUFFICES ASSUME PlanInv, DeletionUnderway PROVE KeyLeft(1) \in Own
  OBVIOUS
<1>1. /\ \/ recipe = "eventing-scenario-2" /\ section = "next"
         \/ recipe \in {"eventing-scenario-1", "eventing-scenario-3"} /\ section = "after"
  BY DEF DeletionUnderway, DeletesTriggers
<1>2. KeyLeft(1) \in Wanted
  BY AmountWhileAtIt, KeyInHand
<1>3. Wanted = TriggersOf(recipe, Head(outer))
  BY <1>1, WantedByRecipe
<1>4. CASE section = "next"
  BY <1>2, <1>3, <1>4 DEF Own
<1>5. CASE section = "after"
  <2>1. recipe \in {"eventing-scenario-1", "eventing-scenario-3"}
    BY <1>1, <1>5
  <2>2. LastPass \in Nat \ {0}
    BY <1>5, StartedRecipe DEF PlanInv, LoopInv, Loops, Started
  <2>3. 1 \in 1..Len(Outer(recipe))
    BY <2>2 DEF LastPass
  <2>4. TriggersOf(recipe, Outer(recipe)[1]) = Wanted
    BY <1>3, <2>1 DEF TriggersOf
  <2> QED
    BY <1>2, <1>5, <2>3, <2>4 DEF Own, AllTriggersOf
<1> QED
  BY <1>1, <1>4, <1>5

LEMMA RequestKeepsTerminating ==
  ASSUME PlanInv, TerminatingAsGiven, Untroubled("Trigger"), NEW s \in Shells, Requests(s),
         UNCHANGED script
  PROVE  TerminatingAsGiven'
<1>1. TypeOK /\ UNCHANGED <<recipe, section, outer, inherited>> /\ Started' = Started
  BY DEF PlanInv, LoopInv, script, Started
<1>2. /\ Current(s) \in Keys
      /\ \A k \in Keys : k # Current(s) => phase'[k] = phase[k]
  BY <1>1, RequestOfOneObject
<1>3. CASE Current(s).kind # "Trigger"
  BY <1>2, <1>3, FewerTerminating DEF Triggers
<1>4. CASE ~Delete(s)
  <2>1. phase' = phase \/ phase'[Current(s)] = "live"
    BY <1>1, <1>2, <1>4 DEF Requests, Create, CreateRefused, Get, NotFound, Update, Conflict,
                            RequestFails, objects, TypeOK
  <2> QED
    BY <1>2, <2>1, FewerTerminating DEF Triggers
<1>5. CASE Current(s).kind = "Trigger" /\ Delete(s)
  <2>1. s = "script"
    BY <1>5, RequestOfOthers
  <2>2. Current(s) = KeyLeft(1) /\ ScriptCall # NoCall /\ ScriptCall.verb = "delete"
    BY <1>1, <1>5, <2>1, FirstKey DEF Delete, KeyLeft, ScriptCall
  <2>3. DeletionUnderway
    BY <2>2, CallUnderway DEF ServiceUnderway, TriggersUnderway, PatchUnderway
  <2>4. Current(s) \in Own
    BY <2>2, <2>3, DeletionIsOwn
  <2>5. Triggers("terminating")' \subseteq Triggers("terminating") \cup {Current(s)}
    BY <1>2 DEF Triggers
  <2>6. Own' = Own
    BY <1>1 DEF Own
  <2>7. \A k \in Triggers("terminating")' :
          k \in Triggers("terminating") \/ k \in Own
    BY <2>4, <2>5
  <2> QED
    BY <1>1, <2>6, <2>7 DEF TerminatingAsGiven
<1> QED
  BY <1>3, <1>4, <1>5

LEMMA TerminatingNext ==
  ASSUME PlanInv, TerminatingAsGiven, [ScenariosNext]_allVars PROVE TerminatingAsGiven'
<1> SUFFICES ASSUME Untroubled("Trigger")' PROVE TerminatingAsGiven'
  BY DEF TerminatingAsGiven
<1>1. Untroubled("Trigger")
  BY TroubleStays DEF PlanInv, LoopInv, Untroubled
<1>2. ASSUME NEW r \in Recipes, Begin(r) PROVE TerminatingAsGiven'
  <2>1. inherited' = Triggers("terminating") /\ phase' = phase
    BY <1>2 DEF Begin, vars, objects
  <2>2. Triggers("terminating")' = Triggers("terminating")
    BY <2>1 DEF Triggers
  <2> QED
    BY <2>1, <2>2 DEF TerminatingAsGiven
<1>3. CASE RunDeployer \/ PatchAutoscaler \/ PatchConcurrency \/ KubectlFails
  BY <1>1, <1>3, CommandKeepsTerminating
<1>4. CASE EnterOuter \/ EnterInner \/ Measure \/ NextOuter \/ Finish
  BY <1>1, <1>4, MoveKeepsTerminating
<1>5. CASE Interrupt
  BY <1>5 DEF Interrupt, Untroubled, Kinds
<1>6. ASSUME NEW s \in Shells, Requests(s), UNCHANGED script PROVE TerminatingAsGiven'
  BY <1>1, <1>6, RequestKeepsTerminating
<1>7. CASE UNCHANGED <<script, phase>>
  BY <1>1, <1>7, FewerTerminating DEF Triggers
<1>8. CASE Controllers /\ UNCHANGED script
  <2>1. Triggers("terminating")' \subseteq Triggers("terminating")
    BY <1>8 DEF Controllers, Touched, Removed, objects, Triggers, PlanInv, LoopInv, TypeOK
  <2> QED
    BY <1>1, <1>8, <2>1, FewerTerminating
<1>9. (\E c \in ManualCalls : Manual(c)) \/ Stopped \/ (UNCHANGED allVars)
        => UNCHANGED <<script, phase>>
  BY DEF Manual, Start, Stopped, allVars, vars, objects
<1> QED
  BY <1>2, <1>3, <1>4, <1>5, <1>6, <1>7, <1>8, <1>9 DEF ScenariosNext, Script

-----------------------------------------------------------------------------
(* What is measured, and what is left behind. *)

LabelInv == /\ PlanInv /\ AutoscalerTyped
            /\ AutoscalerAsGiven /\ ServicesAsGiven /\ TriggersAsGiven /\ TerminatingAsGiven

LEMMA LabelInvInit == ScenariosInit => LabelInv
<1> SUFFICES ASSUME ScenariosInit PROVE LabelInv
  OBVIOUS
<1>1. PlanInv /\ ~Started /\ section = "stopped"
  BY PlanInvInit DEF ScenariosInit, Started
<1>2. ScriptCall = NoCall /\ autoscaler = AutoscalerDefaults
  BY ShellsAssumption DEF ScenariosInit, ScriptCall
<1>3. AutoscalerTyped /\ AutoscalerAsGiven
  BY <1>1, <1>2
  DEF AutoscalerTyped, AutoscalerAsGiven, AutoscalerDefaults, ShortGrace, ShortWindow, InLoops
<1>4. ServicesAsGiven
  <2>1. \A k \in Keys : k.kind = "Service" => settings[k] = createKnativeService
    BY DEF ScenariosInit
  <2>2. \A k \in Keys : phase[k] # "absent" => phase[k] = "live" /\ k = Service("empty-go-http")
    BY DEF ScenariosInit
  <2> QED
    BY <1>1, <2>1, <2>2 DEF ServicesAsGiven, ServiceAsMade
<1>5. TriggersAsGiven
  <2>1. Pending = {} /\ ~Deployed /\ ~Patched
    BY <1>1, <1>2, NothingPending DEF Deployed, InLoops, Patched
  <2>2. Triggers("live") = {}
    <3>1. \A k \in Keys : phase[k] = "live" => k.kind = "Service"
      BY DEF ScenariosInit, Service
    <3> QED
      BY <3>1 DEF Triggers
  <2> QED
    BY <2>1, <2>2 DEF TriggersAsGiven
<1>6. TerminatingAsGiven
  BY <1>1 DEF TerminatingAsGiven
<1> QED
  BY <1>1, <1>3, <1>4, <1>5, <1>6 DEF LabelInv

LEMMA LabelInvNext == LabelInv /\ [ScenariosNext]_allVars => LabelInv'
<1> SUFFICES ASSUME LabelInv, [ScenariosNext]_allVars PROVE LabelInv'
  OBVIOUS
<1>1. PlanInv /\ PlanInv'
  BY PlanInvNext DEF LabelInv
<1>2. AutoscalerTyped' /\ AutoscalerAsGiven'
  BY <1>1, AutoscalerNext DEF LabelInv
<1>3. ServicesAsGiven'
  BY <1>1, ServicesNext DEF LabelInv
<1>4. TriggersAsGiven'
  BY <1>1, TriggersNext DEF LabelInv
<1>5. TerminatingAsGiven'
  BY <1>1, TerminatingNext DEF LabelInv
<1> QED
  BY <1>1, <1>2, <1>3, <1>4, <1>5 DEF LabelInv

LEMMA LabelInvHolds == ScenariosSpec => []LabelInv
  BY LabelInvInit, LabelInvNext, PTL DEF ScenariosSpec

(* For any words in the loops and any number of failures and calls in the other terminal:
   a measurement that no trouble with triggers came before is made with exactly as many
   live triggers, and with the parallelism, as the prefix of its log says, and what is still
   being deleted is left from before the recipe. *)
THEOREM EventingIsAsLabelled == ScenariosSpec => []EventingAsLabelled
<1>1. LabelInv => EventingAsLabelled
  <2> SUFFICES ASSUME LabelInv, AboutToMeasure, Untroubled("Trigger"),
                      recipe \in {"eventing-scenario-1", "eventing-scenario-2",
                                  "eventing-scenario-3"}
               PROVE  /\ Triggers("live") = Wanted
                      /\ Triggers("terminating") \subseteq inherited
                      /\ \A k \in Triggers("live") : settings[k]["parallelism"] =
                           IF recipe = "eventing-scenario-3" THEN Head(outer) ELSE "10"
    BY WantedByRecipe DEF EventingAsLabelled
  <2>1. section = "inner" /\ Left = 0 /\ ScriptCall = NoCall
    BY EmptySeq DEF AboutToMeasure, Between, Left, ScriptCall
  <2>2. Deployed /\ Pending = {}
    BY <2>1, NothingPending DEF Deployed, InLoops
  <2>3. Triggers("live") = Wanted
    BY <2>2 DEF LabelInv, TriggersAsGiven
  <2>4. Triggers("terminating") \subseteq inherited
    <3>1. Own = Wanted /\ Started
      BY <2>1, WantedByRecipe DEF Own, Started
    <3>2. Triggers("terminating") \subseteq inherited \cup Wanted
      BY <3>1 DEF LabelInv, TerminatingAsGiven
    <3>3. \A k \in Triggers("terminating") : k \notin Triggers("live")
      BY DEF Triggers
    <3> QED
      BY <2>3, <3>2, <3>3
  <2>5. CASE recipe = "eventing-scenario-3"
    <3>1. settings[Trigger(0)]["parallelism"] = Head(outer)
      BY <2>1, <2>5 DEF LabelInv, TriggersAsGiven, Patched
    <3>2. Amount = 1 /\ \A i \in 0..(1 - 1) : i = 0
      BY <2>5 DEF Amount
    <3>3. \A k \in Wanted : k = Trigger(0)
      BY <3>2 DEF Wanted
    <3> QED
      BY <2>3, <2>4, <2>5, <3>1, <3>3
  <2>6. CASE recipe # "eventing-scenario-3"
    BY <2>3, <2>4, <2>6 DEF LabelInv, TriggersAsGiven
  <2> QED
    BY <2>5, <2>6
<1> QED
  BY LabelInvHolds, <1>1, PTL

(* The same for the autoscaler and the container concurrency of the serving scenarios. *)
THEOREM ServingIsAsLabelled == ScenariosSpec => []ServingAsLabelled
<1>1. LabelInv => ServingAsLabelled
  <2> SUFFICES ASSUME LabelInv, AboutToMeasure, Untroubled("ConfigMap")
               PROVE  ServingAsLabelled
    BY DEF ServingAsLabelled
  <2>1. section = "inner" /\ Started /\ InLoops
    BY DEF AboutToMeasure, Started, InLoops
  <2>2. recipe = "serving-scenario-2" =>
          autoscaler["scale-to-zero-grace-period"] = "10s" /\ autoscaler["stable-window"] = "10s"
    BY <2>1 DEF LabelInv, AutoscalerAsGiven, ShortGrace, ShortWindow
  <2>3. recipe = "serving-scenario-3" => autoscaler["max-scale"] = "400"
    BY <2>1 DEF LabelInv, AutoscalerAsGiven
  <2>4. recipe = "serving-scenario-3" /\ Untroubled("Service") =>
          settings[Service("sleep-go-http")]["containerConcurrency"] = "1"
    <3>1. Limited["containerConcurrency"] = "1"
      BY DEF Limited, createKnativeService, Unset, Fields
    <3> QED
      BY <2>1, <3>1 DEF LabelInv, ServicesAsGiven
  <2> QED
    BY <2>2, <2>3, <2>4 DEF ServingAsLabelled
<1> QED
  BY LabelInvHolds, <1>1, PTL

(* A recipe that ran to its end without trouble has deleted its triggers, if they are not
   gone yet, and restored the autoscaler but for max-scale; of the services, only those that
   the recipes deploy are there, its own among them, and each as it was created but for the
   concurrency of sleep-go-http. *)
THEOREM LeftBehindIsAll == ScenariosSpec => []LeftBehind
<1>1. LabelInv => LeftBehind
  <2> SUFFICES ASSUME LabelInv, section = "finished" PROVE LeftBehind
    BY DEF LeftBehind
  <2>1. ScriptCall = NoCall /\ Started
    BY DEF LabelInv, PlanInv, LoopInv, Loops, ScriptTypes, Idle, ScriptCall, Started
  <2>2. ~Deployed /\ Pending = {} /\ ~ShortGrace /\ ~ShortWindow /\ ~Deploying
    BY <2>1, NothingPending DEF Deployed, ShortGrace, ShortWindow, InLoops, Deploying
  <2>3. ASSUME Untroubled("Trigger")
        PROVE  /\ Triggers("live") = {}
               /\ Triggers("terminating") \subseteq inherited \cup AllTriggersOf(recipe)
    <3>1. Own = AllTriggersOf(recipe)
      BY DEF Own
    <3> QED
      BY <2>1, <2>2, <2>3, <3>1 DEF LabelInv, TriggersAsGiven, TerminatingAsGiven
  <2>4. ASSUME Untroubled("ConfigMap")
        PROVE  \E limit \in IF recipe = "serving-scenario-3" THEN {"400"} ELSE {"100", "400"} :
                 autoscaler = [AutoscalerDefaults EXCEPT !["max-scale"] = limit]
    <3>1. /\ autoscaler["scale-to-zero-grace-period"] = "30s"
          /\ autoscaler["stable-window"] = "60s"
          /\ autoscaler["max-scale"] \in {"100", "400"}
          /\ recipe = "serving-scenario-3" => autoscaler["max-scale"] = "400"
      BY <2>1, <2>2, <2>4 DEF LabelInv, AutoscalerAsGiven
    <3>2. autoscaler = [AutoscalerDefaults EXCEPT !["max-scale"] = autoscaler["max-scale"]]
      BY <3>1 DEF LabelInv, AutoscalerTyped, AutoscalerDefaults
    <3> QED
      BY <3>1, <3>2
  <2>5. ASSUME Untroubled("Service")
        PROVE  /\ \A k \in ServicesOf(recipe) : phase[k] = "live"
               /\ \A k \in Keys : k.kind = "Service" => ServiceAsMade(k)
               /\ recipe = "serving-scenario-3" => settings[Service("sleep-go-http")] = Limited
    BY <2>1, <2>2, <2>5 DEF LabelInv, ServicesAsGiven
  <2> QED
    BY <2>3, <2>4, <2>5 DEF LeftBehind, AllTriggersOf, ServiceAsMade, Limited
<1> QED
  BY LabelInvHolds, <1>1, PTL
=============================================================================
