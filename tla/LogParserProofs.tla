--------------------------- MODULE LogParserProofs ---------------------------
(***************************************************************************)
(* Proofs that LogParser keeps the invariants its runs check, for every    *)
(* directory and every number of runs.                                     *)
(*                                                                         *)
(* The invariants are not inductive: that a run stores a file once needs   *)
(* that the loop only goes forward (Forward), that a file is stored whole  *)
(* needs what the locals of the loop stand for (Locals), and that a run    *)
(* without failure is complete needs what it has done so far (Progress).   *)
(***************************************************************************)
EXTENDS LogParser, FiniteSetTheorems, TLAPS

Usable(f) == ~Skipped(files[f]) /\ ~Unreadable(files[f])

(* The locals of the loop are those of the file it is at, and between the
   insertion of the experiment and the commit the last experiment is its own. *)
Locals ==
  /\ pc \in {"experiment", "rows"} => Usable(next) /\ requests = RequestsOf(files[next])
  /\ pc = "rows" =>
       LET last == Len(experiments)
       IN  /\ requests # {}
           /\ last # 0
           /\ experiments[last].file = next
           /\ experiments[last].run = runs
           /\ rows[last] = {}
  /\ pc # "rows" => tx = {}
  /\ pc = "idle" => runs = 0
  /\ pc = "done" => next \notin Files
  /\ pc = "killed" => runs \in failed

(* The files the current run has stored are behind the loop. *)
Forward ==
  \A e \in DOMAIN experiments :
    /\ experiments[e].run <= runs
    /\ Usable(experiments[e].file)
    /\ experiments[e].run = runs =>
         \/ experiments[e].file < next
         \/ experiments[e].file = next /\ pc \in {"rows", "killed"}

(* A run without failure has stored every usable file behind it. *)
Stored(r, f) ==
  \E e \in DOMAIN experiments :
    /\ experiments[e].run = r
    /\ experiments[e].file = f
    /\ rows[e] = RequestsOf(files[f])

Progress ==
  \A r \in 1..runs : r \notin failed =>
    \A f \in Files : Usable(f) /\ (r < runs \/ f < next) => Stored(r, f)

(* What has been counted is what the run has stored. *)
Counted ==
  /\ \A p \in stats : \E e \in DOMAIN experiments :
       /\ p = <<e, rows[e]>>
       /\ experiments[e].run = runs
       /\ rows[e] = RequestsOf(files[experiments[e].file])
  /\ \A e \in DOMAIN experiments :
       experiments[e].run = runs /\ rows[e] = RequestsOf(files[experiments[e].file])
         => <<e, rows[e]>> \in stats

IInv == TypeOK /\ Locals /\ Forward /\ WholeFiles /\ OncePerRun /\ Progress /\ Counted

-----------------------------------------------------------------------------
(* The lines of the requests of a file are numbers. *)
LEMMA RequestsAreLines ==
  ASSUME NEW entry
  PROVE  RequestsOf(entry) \in SUBSET Nat
<1>1. \A n \in 3..Len(entry.lines) : n \in Nat
  OBVIOUS
<1> QED BY <1>1 DEF RequestsOf

(* What parseConfig returns has a value, or none, for every column. *)
LEMMA ConfigType ==
  ASSUME NEW line
  PROVE  parseConfig(line) \in [Columns -> Columns \cup {"NULL"}]
<1>1. ASSUME NEW c \in Columns
      PROVE  addConfigValue(c) \in Columns
  <2> DEFINE P(i) == /\ EndsWith(Fields[i], c)
                     /\ \A j \in 1..(i - 1) : ~EndsWith(Fields[j], c)
  <2>1. DOMAIN Fields = 1..6
    BY DEF Fields
  <2>2. \E i \in DOMAIN Fields : P(i)
    <3>1. c = Fields[1] => P(1)
      BY DEF EndsWith, Fields
    <3>2. c = Fields[2] => P(2)
      BY DEF EndsWith, Fields
    <3>3. c = Fields[3] => P(3)
      BY DEF EndsWith, Fields
    <3>4. c = Fields[4] => P(4)
      BY DEF EndsWith, Fields
    <3>5. c = Fields[5] => P(5)
      BY DEF EndsWith, Fields
    <3>6. c = Fields[6] => P(5)
      BY DEF EndsWith, Fields
    <3> QED BY <2>1, <3>1, <3>2, <3>3, <3>4, <3>5, <3>6 DEF Columns
  <2>3. (CHOOSE i \in DOMAIN Fields : P(i)) \in DOMAIN Fields
    BY <2>2
  <2> QED BY <2>3 DEF addConfigValue, Columns
<1> QED BY <1>1 DEF parseConfig

-----------------------------------------------------------------------------
LEMMA Pair ==
  ASSUME NEW A, NEW B, NEW a \in A, NEW b \in B
  PROVE  <<a, b>> \in A \X B
OBVIOUS

LEMMA InitInv == Init => IInv
<1> SUFFICES ASSUME Init PROVE IInv
  OBVIOUS
<1> USE DEF Init
<1>1. TypeOK
  <2>1. NoConfig \in [Columns -> Columns \cup {"NULL"}]
    BY DEF NoConfig
  <2> QED BY <2>1, NFilesAssumption, MaxRunsAssumption DEF TypeOK
<1>2. Locals /\ Forward /\ WholeFiles /\ OncePerRun /\ Counted
  BY DEF Locals, Forward, WholeFiles, OncePerRun, Counted
<1>3. Progress
  BY DEF Progress
<1> QED BY <1>1, <1>2, <1>3 DEF IInv

(* InsertExperiment adds one row to the table of experiments, with no requests. *)
LEMMA Inserted ==
  ASSUME TypeOK, InsertExperiment, NEW new, new = Len(experiments) + 1
  PROVE  /\ new \in Nat \ {0}
         /\ experiments' \in Seq(Experiments) /\ rows' \in Seq(SUBSET Nat)
         /\ Len(experiments') = new /\ Len(rows') = new
         /\ DOMAIN experiments' = DOMAIN experiments \cup {new}
         /\ new \notin DOMAIN experiments
         /\ experiments'[new] = [file |-> next, run |-> runs, config |-> config]
         /\ rows'[new] = {}
         /\ \A e \in DOMAIN experiments :
              experiments'[e] = experiments[e] /\ rows'[e] = rows[e]
<1> DEFINE x == [file |-> next, run |-> runs, config |-> config]
<1>1. x \in Experiments
  BY DEF TypeOK, InsertExperiment, Experiments
<1>2. experiments' = Append(experiments, x) /\ rows' = Append(rows, {})
  BY DEF InsertExperiment
<1>3. experiments \in Seq(Experiments) /\ rows \in Seq(SUBSET Nat)
        /\ Len(rows) = Len(experiments)
  BY DEF TypeOK
<1> HIDE DEF x
<1>4. experiments' \in Seq(Experiments) /\ Len(experiments') = new
        /\ experiments'[new] = x
        /\ \A e \in 1..Len(experiments) : experiments'[e] = experiments[e]
  BY <1>1, <1>2, <1>3
<1>5. {} \in SUBSET Nat
  OBVIOUS
<1>6. rows' \in Seq(SUBSET Nat) /\ Len(rows') = new /\ rows'[new] = {}
        /\ \A e \in 1..Len(rows) : rows'[e] = rows[e]
  BY <1>2, <1>3, <1>5
<1>7. DOMAIN experiments = 1..Len(experiments) /\ DOMAIN experiments' = 1..new
  BY <1>3, <1>4
<1>8. new \in Nat \ {0}
  BY <1>3
<1>9. DOMAIN experiments' = DOMAIN experiments \cup {new} /\ new \notin DOMAIN experiments
  BY <1>3, <1>7, <1>8
<1> QED BY <1>3, <1>4, <1>6, <1>7, <1>8, <1>9 DEF x

(* Commit gives the last experiment its rows, and changes no other. *)
LEMMA Committed ==
  ASSUME TypeOK, Locals, Commit
  PROVE  /\ Len(rows) \in DOMAIN experiments
         /\ rows' \in Seq(SUBSET Nat) /\ Len(rows') = Len(rows)
         /\ rows'[Len(rows)] = requests
         /\ \A e \in DOMAIN experiments \ {Len(rows)} : rows'[e] = rows[e]
<1>1. rows \in Seq(SUBSET Nat) /\ experiments \in Seq(Experiments)
        /\ Len(rows) = Len(experiments) /\ requests \in SUBSET Nat
  BY DEF TypeOK
<1>2. Len(experiments) # 0
  BY DEF Locals, Commit
<1>3. rows' = [rows EXCEPT ![Len(rows)] = requests]
  BY DEF Commit
<1>4. DOMAIN experiments = 1..Len(rows) /\ DOMAIN rows = 1..Len(rows)
        /\ Len(rows) \in 1..Len(rows)
  BY <1>1, <1>2
<1>5. rows' \in [1..Len(rows) -> SUBSET Nat]
  BY <1>1, <1>3, <1>4
<1>6. Len(rows) \in Nat
  BY <1>1
<1>7. rows' \in Seq(SUBSET Nat) /\ Len(rows') = Len(rows)
  BY <1>5, <1>6
<1> QED BY <1>3, <1>4, <1>7

LEMMA ExperimentType ==
  ASSUME TypeOK, NEW e \in DOMAIN experiments
  PROVE  /\ experiments[e].file \in Files /\ experiments[e].file \in Nat
         /\ experiments[e].run \in Runs /\ experiments[e].run \in Nat
         /\ e \in Nat /\ rows[e] \in SUBSET Nat
<1>1. experiments \in Seq(Experiments) /\ rows \in Seq(SUBSET Nat)
        /\ Len(rows) = Len(experiments)
  BY DEF TypeOK
<1>2. experiments[e] \in Experiments /\ rows[e] \in SUBSET Nat /\ e \in Nat
  BY <1>1
<1>3. experiments[e].file \in Files /\ experiments[e].run \in Runs
  BY <1>2 DEF Experiments
<1> QED BY <1>2, <1>3, NFilesAssumption, MaxRunsAssumption DEF Files, Runs

LEMMA TypeStep ==
  ASSUME TypeOK, Locals, [Next]_vars
  PROVE  TypeOK'
<1> USE NFilesAssumption, MaxRunsAssumption DEF Files, Runs, tables
<1>1. CASE Start
  <2>1. NoConfig \in [Columns -> Columns \cup {"NULL"}]
    BY DEF NoConfig
  <2> QED BY <1>1, <2>1 DEF Start, TypeOK
<1>2. CASE NextEntry
  BY <1>2 DEF NextEntry, TypeOK
<1>3. CASE ProcessFile
  <2>1. tx = {}
    BY <1>3 DEF ProcessFile, Locals
  <2> QED BY <1>3, <2>1, RequestsAreLines, ConfigType DEF ProcessFile, TypeOK
<1>4. CASE InsertExperiment
  <2>1. Len(experiments) + 1 \in Nat
    BY DEF TypeOK
  <2>2. stats' \in SUBSET (Nat \X SUBSET Nat)
    BY <1>4, <2>1 DEF InsertExperiment, TypeOK, Count
  <2>3. /\ experiments' \in Seq(Experiments) /\ rows' \in Seq(SUBSET Nat)
        /\ Len(rows') = Len(experiments')
    BY <1>4, Inserted
  <2> QED BY <1>4, <2>2, <2>3 DEF InsertExperiment, TypeOK
<1>5. CASE InsertExperimentFails
  <2>1. pc = "experiment"
    BY <1>5 DEF InsertExperimentFails
  <2>2. next \in 1..NFiles /\ runs \in Runs /\ failed \in SUBSET Runs
    BY <2>1 DEF TypeOK
  <2>3. next + 1 \in 1..(NFiles + 1) /\ failed \cup {runs} \in SUBSET Runs
    BY <2>2
  <2> QED BY <1>5, <2>2, <2>3 DEF InsertExperimentFails, TypeOK
<1>6. CASE InsertRequest
  BY <1>6 DEF InsertRequest, TypeOK
<1>7. CASE Commit
  <2>1. rows' \in Seq(SUBSET Nat) /\ Len(rows') = Len(rows)
    BY <1>7, Committed
  <2>2. Len(rows) \in Nat /\ requests \in SUBSET Nat
    BY DEF TypeOK
  <2>3. stats' \in SUBSET (Nat \X SUBSET Nat)
    <3>1. stats' = stats \cup {<<Len(rows), requests>>}
      BY <1>7 DEF Commit, Count
    <3>2. stats \in SUBSET (Nat \X SUBSET Nat)
      BY DEF TypeOK
    <3>3. <<Len(rows), requests>> \in Nat \X SUBSET Nat
      BY <2>2, Pair
    <3> QED BY <3>1, <3>2, <3>3
  <2> QED BY <1>7, <2>1, <2>3 DEF Commit, TypeOK
<1>8. CASE InsertRequestsFails
  BY <1>8 DEF InsertRequestsFails, TypeOK
<1>9. CASE Killed
  BY <1>9 DEF Killed, TypeOK
<1>10. CASE Report
  BY <1>10 DEF Report, TypeOK
<1>11. CASE Finished \/ UNCHANGED vars
  BY <1>11 DEF Finished, vars, TypeOK
<1> QED BY <1>1, <1>2, <1>3, <1>4, <1>5, <1>6, <1>7, <1>8, <1>9, <1>10, <1>11 DEF Next

LEMMA LocalsStep ==
  ASSUME TypeOK, Locals, [Next]_vars
  PROVE  Locals'
<1> USE DEF tables, Usable
<1>1. CASE Start
  BY <1>1 DEF Start, Locals
<1>2. CASE NextEntry
  BY <1>2 DEF NextEntry, Locals
<1>3. CASE ProcessFile
  BY <1>3 DEF ProcessFile, Locals
<1>4. CASE InsertExperiment
  <2>1. PICK new \in Nat \ {0} :
          /\ Len(experiments') = new
          /\ experiments'[new] = [file |-> next, run |-> runs, config |-> config]
          /\ rows'[new] = {}
    <3>1. Len(experiments) + 1 \in Nat \ {0}
      BY DEF TypeOK
    <3> QED BY <1>4, <3>1, Inserted
  <2>2. requests = RequestsOf(files[next]) /\ Usable(next) /\ tx = {}
    BY <1>4 DEF InsertExperiment, Locals
  <2>3. /\ files' = files /\ requests' = requests /\ tx' = tx /\ runs' = runs
        /\ pc' = IF requests = {} THEN "loop" ELSE "rows"
        /\ requests # {} => next' = next
    BY <1>4 DEF InsertExperiment
  <2> QED BY <2>1, <2>2, <2>3 DEF Locals
<1>5. CASE InsertExperimentFails
  BY <1>5 DEF InsertExperimentFails, Locals
<1>6. CASE InsertRequest
  BY <1>6 DEF InsertRequest, Locals
<1>7. CASE Commit
  BY <1>7 DEF Commit, Locals
<1>8. CASE InsertRequestsFails
  BY <1>8 DEF InsertRequestsFails, Locals
<1>9. CASE Killed
  BY <1>9 DEF Killed, Locals
<1>10. CASE Report
  BY <1>10 DEF Report, Locals
<1>11. CASE Finished \/ UNCHANGED vars
  BY <1>11 DEF Finished, vars, Locals
<1> QED BY <1>1, <1>2, <1>3, <1>4, <1>5, <1>6, <1>7, <1>8, <1>9, <1>10, <1>11 DEF Next

(* Every step but these two leaves the tables alone, and no step a file. *)
LEMMA TablesKept ==
  ASSUME [Next]_vars
  PROVE  /\ files' = files
         /\ InsertExperiment \/ Commit \/ UNCHANGED <<experiments, rows>>
         /\ InsertExperiment \/ experiments' = experiments
BY DEF Next, vars, tables, Start, NextEntry, ProcessFile, InsertExperiment,
  InsertExperimentFails, InsertRequest, Commit, InsertRequestsFails, Killed, Report, Finished

LEMMA WholeFilesStep ==
  ASSUME TypeOK, Locals, Forward, WholeFiles, [Next]_vars
  PROVE  WholeFiles'
<1>1. CASE InsertExperiment
  <2>1. PICK new :
          /\ DOMAIN experiments' = DOMAIN experiments \cup {new}
          /\ experiments'[new] = [file |-> next, run |-> runs, config |-> config]
          /\ rows'[new] = {}
          /\ \A e \in DOMAIN experiments :
               experiments'[e] = experiments[e] /\ rows'[e] = rows[e]
    BY <1>1, Inserted
  <2> QED BY <2>1, TablesKept DEF WholeFiles
<1>2. CASE Commit
  <2>1. requests = RequestsOf(files[next]) /\ experiments[Len(rows)].file = next
    BY <1>2 DEF Commit, Locals, TypeOK
  <2>2. experiments' = experiments
    BY <1>2 DEF Commit
  <2> QED BY <1>2, <2>1, <2>2, Committed, TablesKept DEF WholeFiles
<1>3. CASE UNCHANGED <<experiments, rows>>
  BY <1>3, TablesKept DEF WholeFiles
<1> QED BY <1>1, <1>2, <1>3, TablesKept

LEMMA ForwardStep ==
  ASSUME TypeOK, Locals, Forward, [Next]_vars
  PROVE  Forward'
<1> USE DEF tables, Usable
<1> DEFINE Behind(e) ==
      /\ experiments[e].run <= runs
      /\ Usable(experiments[e].file)
      /\ experiments[e].run = runs =>
           \/ experiments[e].file < next
           \/ experiments[e].file = next /\ pc \in {"rows", "killed"}
<1>a. runs \in Nat /\ next \in Nat
  BY NFilesAssumption, MaxRunsAssumption DEF TypeOK
<1>b. \A e \in DOMAIN experiments :
        experiments[e].run \in Nat /\ experiments[e].file \in Nat
  BY ExperimentType
<1>1. CASE InsertExperiment
  <2>1. PICK new :
          /\ DOMAIN experiments' = DOMAIN experiments \cup {new}
          /\ experiments'[new] = [file |-> next, run |-> runs, config |-> config]
          /\ rows'[new] = {}
          /\ \A e \in DOMAIN experiments :
               experiments'[e] = experiments[e] /\ rows'[e] = rows[e]
    BY <1>1, Inserted
  <2>2. ASSUME NEW e \in DOMAIN experiments
        PROVE  Behind(e)'
    <3>1. CASE requests = {}
      BY <1>1, <1>a, <1>b, <2>1, <3>1 DEF InsertExperiment, Forward
    <3>2. CASE requests # {}
      BY <1>1, <1>a, <1>b, <2>1, <3>2 DEF InsertExperiment, Forward
    <3> QED BY <3>1, <3>2
  <2>3. Behind(new)'
    BY <1>1, <1>a, <2>1 DEF InsertExperiment, Locals
  <2> QED BY <2>1, <2>2, <2>3 DEF Forward
<1>2. CASE ~InsertExperiment
  <2>1. experiments' = experiments /\ files' = files
    BY <1>2, TablesKept
  <2>2. ASSUME NEW e \in DOMAIN experiments
        PROVE  Behind(e)'
    <3>1. Behind(e)
      BY DEF Forward
    <3>2. CASE Start
      BY <1>a, <1>b, <2>1, <3>1, <3>2 DEF Start
    <3>3. CASE NextEntry
      BY <1>a, <1>b, <2>1, <3>1, <3>3 DEF NextEntry
    <3>4. CASE ProcessFile \/ Report
      BY <1>a, <1>b, <2>1, <3>1, <3>4 DEF ProcessFile, Report
    <3>5. CASE InsertExperimentFails
      BY <1>a, <1>b, <2>1, <3>1, <3>5 DEF InsertExperimentFails
    <3>6. CASE InsertRequest
      BY <1>a, <1>b, <2>1, <3>1, <3>6 DEF InsertRequest
    <3>7. CASE Commit
      BY <1>a, <1>b, <2>1, <3>1, <3>7 DEF Commit
    <3>8. CASE InsertRequestsFails
      BY <1>a, <1>b, <2>1, <3>1, <3>8 DEF InsertRequestsFails
    <3>9. CASE Killed
      BY <1>a, <1>b, <2>1, <3>1, <3>9 DEF Killed
    <3>10. CASE Finished \/ UNCHANGED vars
      BY <2>1, <3>1, <3>10 DEF Finished, vars
    <3> QED BY <1>2, <3>2, <3>3, <3>4, <3>5, <3>6, <3>7, <3>8, <3>9, <3>10 DEF Next
  <2> QED BY <2>1, <2>2 DEF Forward
<1> QED BY <1>1, <1>2

LEMMA OncePerRunStep ==
  ASSUME TypeOK, Forward, OncePerRun, [Next]_vars
  PROVE  OncePerRun'
<1>1. CASE InsertExperiment
  <2>1. PICK new :
          /\ DOMAIN experiments' = DOMAIN experiments \cup {new}
          /\ experiments'[new] = [file |-> next, run |-> runs, config |-> config]
          /\ \A e \in DOMAIN experiments : experiments'[e] = experiments[e]
    BY <1>1, Inserted
  <2>2. next \in Nat
    BY NFilesAssumption DEF TypeOK
  <2>3. ASSUME NEW e \in DOMAIN experiments
        PROVE  experiments[e].file # next \/ experiments[e].run # runs
    BY <1>1, <2>2, ExperimentType DEF Forward, InsertExperiment
  <2>4. \A e \in DOMAIN experiments :
          experiments'[e].file # experiments'[new].file
            \/ experiments'[e].run # experiments'[new].run
    BY <2>1, <2>3
  <2> QED BY <2>1, <2>4 DEF OncePerRun
<1>2. CASE ~InsertExperiment
  BY <1>2, TablesKept DEF OncePerRun
<1> QED BY <1>1, <1>2

(* A file that is stored stays stored. *)
LEMMA StoredKept ==
  ASSUME TypeOK, Locals, [Next]_vars, NEW r, NEW f, Stored(r, f)
  PROVE  Stored(r, f)'
<1>1. PICK e \in DOMAIN experiments :
        /\ experiments[e].run = r
        /\ experiments[e].file = f
        /\ rows[e] = RequestsOf(files[f])
  BY DEF Stored
<1>2. CASE InsertExperiment
  <2>1. PICK new :
          /\ DOMAIN experiments' = DOMAIN experiments \cup {new}
          /\ \A d \in DOMAIN experiments :
               experiments'[d] = experiments[d] /\ rows'[d] = rows[d]
    BY <1>2, Inserted
  <2> QED BY <1>1, <2>1, TablesKept DEF Stored
<1>3. CASE Commit
  <2>1. requests = RequestsOf(files[next]) /\ experiments[Len(rows)].file = next
    BY <1>3 DEF Commit, Locals, TypeOK
  <2>2. experiments' = experiments
    BY <1>3 DEF Commit
  <2>3. rows'[e] = rows[e] \/ (e = Len(rows) /\ rows'[e] = requests)
    BY <1>1, <1>3, Committed
  <2> QED BY <1>1, <2>1, <2>2, <2>3, TablesKept DEF Stored
<1>4. CASE UNCHANGED <<experiments, rows>>
  BY <1>1, <1>4, TablesKept DEF Stored
<1> QED BY <1>2, <1>3, <1>4, TablesKept

LEMMA ProgressStep ==
  ASSUME TypeOK, Locals, Forward, Progress, [Next]_vars
  PROVE  Progress'
<1> USE DEF tables
<1>a. runs \in Nat /\ next \in Nat
  BY NFilesAssumption, MaxRunsAssumption DEF TypeOK
<1>b. files' = files
  BY TablesKept
<1> SUFFICES ASSUME NEW r \in 1..runs', r \notin failed',
                    NEW f \in Files, Usable(f)', r < runs' \/ f < next'
             PROVE  Stored(r, f)'
  BY DEF Progress
<1>c. Usable(f) /\ f \in Nat /\ r \in Nat
  BY <1>b, <1>a, NFilesAssumption DEF Usable, Files
<1>d. ASSUME r \in 1..runs, r \notin failed, r < runs \/ f < next
      PROVE  Stored(r, f)'
  BY <1>c, <1>d, StoredKept DEF Progress
<1>1. CASE Start
  <2>1. r # runs'
    BY <1>1, <1>c DEF Start, Files
  <2>2. r \in 1..runs /\ runs # 0 /\ r \notin failed
    BY <1>1, <1>a, <1>c, <2>1 DEF Start
  <2>3. CASE r < runs
    BY <1>d, <2>2, <2>3
  <2>4. CASE r = runs
    <3>1. pc = "done"
      <4>1. pc = "idle" => runs = 0
        BY DEF Locals
      <4> QED BY <1>1, <2>2, <2>4, <4>1 DEF Start, Locals
    <3>2. f < next
      BY <1>a, <1>c, <3>1, NFilesAssumption DEF Locals, TypeOK, Files
    <3> QED BY <1>d, <2>2, <3>2
  <2> QED BY <1>a, <2>2, <2>3, <2>4
<1>2. CASE NextEntry
  <2>1. f # next
    BY <1>2, <1>c DEF NextEntry, Usable
  <2> QED BY <1>2, <1>a, <1>c, <1>d, <2>1 DEF NextEntry
<1>3. CASE ProcessFile \/ Report \/ InsertRequest \/ Finished \/ UNCHANGED vars
  BY <1>3, <1>d DEF ProcessFile, Report, InsertRequest, Finished, vars
<1>4. CASE InsertExperiment
  <2>1. PICK new :
          /\ DOMAIN experiments' = DOMAIN experiments \cup {new}
          /\ experiments'[new] = [file |-> next, run |-> runs, config |-> config]
          /\ rows'[new] = {}
    BY <1>4, Inserted
  <2>2. r \in 1..runs /\ r \notin failed
    BY <1>4 DEF InsertExperiment
  <2>3. CASE r < runs \/ f < next
    BY <1>d, <2>2, <2>3
  <2>4. CASE ~(r < runs \/ f < next)
    <3>1. requests = {} /\ f = next /\ r = runs
      BY <1>4, <1>a, <1>c, <2>2, <2>4 DEF InsertExperiment
    <3>2. requests = RequestsOf(files[next])
      BY <1>4 DEF InsertExperiment, Locals
    <3>3. experiments'[new].file = f /\ experiments'[new].run = r
      BY <2>1, <3>1
    <3>4. new \in DOMAIN experiments' /\ rows'[new] = RequestsOf(files'[f])
      BY <1>b, <2>1, <3>1, <3>2
    <3> QED BY <3>3, <3>4 DEF Stored
  <2> QED BY <2>3, <2>4
<1>5. CASE Commit
  <2>1. r \in 1..runs /\ r \notin failed
    BY <1>5 DEF Commit
  <2>2. CASE r < runs \/ f < next
    BY <1>d, <2>1, <2>2
  <2>3. CASE ~(r < runs \/ f < next)
    <3>1. f = next /\ r = runs
      BY <1>5, <1>a, <1>c, <2>1, <2>3 DEF Commit
    <3>2. /\ requests = RequestsOf(files[next])
          /\ experiments[Len(rows)].file = next /\ experiments[Len(rows)].run = runs
      BY <1>5 DEF Commit, Locals, TypeOK
    <3>3. experiments' = experiments
      BY <1>5 DEF Commit
    <3> QED BY <1>5, <1>b, <3>1, <3>2, <3>3, Committed DEF Stored
  <2> QED BY <2>2, <2>3
<1>6. CASE InsertExperimentFails \/ InsertRequestsFails \/ Killed
  <2>1. r \in 1..runs /\ r \notin failed /\ r # runs
    BY <1>6 DEF InsertExperimentFails, InsertRequestsFails, Killed
  <2> QED BY <1>a, <1>d, <2>1
<1> QED BY <1>1, <1>2, <1>3, <1>4, <1>5, <1>6 DEF Next

LEMMA CountedStep ==
  ASSUME TypeOK, Locals, Forward, Counted, [Next]_vars
  PROVE  Counted'
<1> USE DEF tables
<1> DEFINE OwnStored(e) ==
      experiments[e].run = runs /\ rows[e] = RequestsOf(files[experiments[e].file])
<1>a. files' = files
  BY TablesKept
<1>1. CASE Start
  <2>1. \A e \in DOMAIN experiments : experiments[e].run # runs + 1
    <3>1. runs \in Nat
      BY MaxRunsAssumption DEF TypeOK
    <3> QED BY <3>1, ExperimentType DEF Forward
  <2> QED BY <1>1, <2>1 DEF Start, Counted
<1>2. CASE InsertExperiment
  <2>1. PICK new :
          /\ new = Len(experiments) + 1
          /\ new \notin DOMAIN experiments
          /\ DOMAIN experiments' = DOMAIN experiments \cup {new}
          /\ experiments'[new] = [file |-> next, run |-> runs, config |-> config]
          /\ rows'[new] = {}
          /\ \A e \in DOMAIN experiments :
               experiments'[e] = experiments[e] /\ rows'[e] = rows[e]
    BY <1>2, Inserted
  <2>2. requests = RequestsOf(files[next]) /\ runs' = runs
    BY <1>2 DEF InsertExperiment, Locals
  <2>3. stats' = IF requests = {} THEN stats \cup {<<new, {}>>} ELSE stats
    BY <1>2, <2>1 DEF InsertExperiment, Count
  <2>4. OwnStored(new)' <=> requests = {}
    BY <1>a, <2>1, <2>2
  <2>5. ASSUME NEW p \in stats'
        PROVE  \E e \in DOMAIN experiments' : p = <<e, rows'[e]>> /\ OwnStored(e)'
    <3>1. CASE p \in stats
      BY <1>a, <2>1, <2>2, <3>1 DEF Counted
    <3>2. CASE p \notin stats
      <4>1. p = <<new, rows'[new]>> /\ requests = {}
        BY <2>1, <2>3, <2>5, <3>2
      <4> QED BY <2>1, <2>4, <4>1
    <3> QED BY <3>1, <3>2
  <2>6. ASSUME NEW e \in DOMAIN experiments', OwnStored(e)'
        PROVE  <<e, rows'[e]>> \in stats'
    <3>1. CASE e = new
      BY <2>1, <2>3, <2>4, <2>6, <3>1
    <3>2. CASE e # new
      BY <1>a, <2>1, <2>2, <2>3, <2>6, <3>2 DEF Counted
    <3> QED BY <3>1, <3>2
  <2> QED BY <2>5, <2>6 DEF Counted
<1>3. CASE Commit
  <2> DEFINE last == Len(rows)
  <2>1. /\ last \in DOMAIN experiments
        /\ rows'[last] = requests
        /\ \A e \in DOMAIN experiments \ {last} : rows'[e] = rows[e]
    BY <1>3, Committed
  <2>2. /\ requests = RequestsOf(files[next]) /\ requests # {}
        /\ experiments[last].file = next /\ experiments[last].run = runs
        /\ rows[last] = {}
    BY <1>3 DEF Commit, Locals, TypeOK
  <2>3. /\ experiments' = experiments /\ runs' = runs
        /\ stats' = stats \cup {<<last, requests>>}
    BY <1>3 DEF Commit, Count
  <2>4. ASSUME NEW p \in stats
        PROVE  \E e \in DOMAIN experiments : p = <<e, rows'[e]>> /\ OwnStored(e)'
    <3>1. PICK e \in DOMAIN experiments : p = <<e, rows[e]>> /\ OwnStored(e)
      BY DEF Counted
    <3>2. e # last
      BY <2>2, <3>1
    <3> HIDE DEF last
    <3> QED BY <1>a, <2>1, <2>3, <3>1, <3>2
  <2>5. ASSUME NEW p \in stats'
        PROVE  \E e \in DOMAIN experiments : p = <<e, rows'[e]>> /\ OwnStored(e)'
    <3>1. CASE p \in stats
      BY <2>4, <3>1
    <3>2. CASE p = <<last, requests>>
      <4> HIDE DEF last
      <4> QED BY <1>a, <2>1, <2>2, <2>3, <3>2
    <3> QED BY <2>3, <2>5, <3>1, <3>2
  <2>6. ASSUME NEW e \in DOMAIN experiments, OwnStored(e)'
        PROVE  <<e, rows'[e]>> \in stats'
    <3> HIDE DEF last
    <3>1. CASE e = last
      BY <2>1, <2>3, <3>1
    <3>2. CASE e # last
      BY <1>a, <2>1, <2>3, <2>6, <3>2 DEF Counted
    <3> QED BY <3>1, <3>2
  <2> QED BY <2>3, <2>5, <2>6 DEF Counted
<1>4. CASE ~Start /\ ~InsertExperiment /\ ~Commit
  <2>1. UNCHANGED <<runs, stats, experiments, rows>>
    BY <1>4 DEF Next, vars, NextEntry, ProcessFile, InsertExperimentFails, InsertRequest,
      InsertRequestsFails, Killed, Report, Finished
  <2> QED BY <1>a, <2>1 DEF Counted
<1> QED BY <1>1, <1>2, <1>3, <1>4

-----------------------------------------------------------------------------
LEMMA Invariant == Spec => []IInv
<1>1. IInv /\ [Next]_vars => IInv'
  BY TypeStep, LocalsStep, ForwardStep, WholeFilesStep, OncePerRunStep, ProgressStep,
     CountedStep DEF IInv
<1> QED BY InitInv, <1>1, PTL DEF Spec

(* The parser's variables keep their types. *)
THEOREM TypeCorrect == Spec => []TypeOK
<1>1. IInv => TypeOK
  BY DEF IInv
<1> QED BY Invariant, <1>1, PTL

(* insertRequests stores the requests of a file all together or not at all. *)
THEOREM FilesAreWhole == Spec => []WholeFiles
<1>1. IInv => WholeFiles
  BY DEF IInv
<1> QED BY Invariant, <1>1, PTL

(* processLogs stores no file twice in a run. *)
THEOREM StoredOncePerRun == Spec => []OncePerRun
<1>1. IInv => OncePerRun
  BY DEF IInv
<1> QED BY Invariant, <1>1, PTL

(* A run of processLogs in which nothing failed has stored every usable file, and
   no other. *)
THEOREM CleanRunsAreComplete == Spec => []CleanRunIsComplete
<1>1. IInv => CleanRunIsComplete
  <2> SUFFICES ASSUME IInv, NEW r \in 1..runs, r < runs \/ pc = "done", r \notin failed,
                      NEW f \in Files
               PROVE  IF Skipped(files[f]) \/ Unreadable(files[f])
                        THEN StoredBy(r, f) = {}
                        ELSE \E e \in StoredBy(r, f) : rows[e] = RequestsOf(files[f])
    BY DEF CleanRunIsComplete
  <2>1. CASE ~Usable(f)
    BY <2>1 DEF IInv, Forward, StoredBy, Usable
  <2>2. CASE Usable(f)
    <3>1. r < runs \/ f < next
      BY NFilesAssumption DEF IInv, Locals, TypeOK, Files
    <3>2. Stored(r, f)
      BY <2>2, <3>1 DEF IInv, Progress
    <3> QED BY <2>2, <3>2 DEF Stored, StoredBy, Usable
  <2> QED BY <2>1, <2>2 DEF Usable
<1> QED BY Invariant, <1>1, PTL

(* The counters main reports are those of what the run has stored. *)
THEOREM StatsAreTruthful == Spec => []StatsTruthful
<1>1. IInv => StatsTruthful
  <2> SUFFICES ASSUME IInv
               PROVE  StatsTruthful
    OBVIOUS
  <2> DEFINE own == {e \in DOMAIN experiments : experiments[e].run = runs}
             stored == {e \in own : rows[e] = RequestsOf(files[experiments[e].file])}
  <2>1. \A p \in stats : p \in {<<e, rows[e]>> : e \in stored}
    BY DEF IInv, Counted
  <2>2. \A e \in stored : <<e, rows[e]>> \in stats
    BY DEF IInv, Counted
  <2>3. stats = {<<e, rows[e]>> : e \in stored}
    BY <2>1, <2>2
  <2>4. \A e \in own \ stored : rows[e] = {}
    BY DEF IInv, WholeFiles
  <2> QED BY <2>3, <2>4 DEF StatsTruthful
<1> QED BY Invariant, <1>1, PTL

-----------------------------------------------------------------------------
(* A goroutine reports its request at most once, and main reports none. *)
LEMMA OneReport ==
  ASSUME NEW outcome \in Outcomes, NEW j \in DOMAIN RequestLines(outcome),
         NEW k \in DOMAIN RequestLines(outcome),
         IsRequest(RequestLines(outcome)[j]), IsRequest(RequestLines(outcome)[k])
  PROVE  j = k
<1>1. CASE outcome \in {"answered", "not200", "unanswered", "cutOffInRun"}
  <2>1. DOMAIN RequestLines(outcome) = {1}
    BY <1>1 DEF RequestLines
  <2> QED BY <2>1
<1>2. CASE outcome = "cutOff"
  <2>1. RequestLines(outcome) = <<"BodyError", "Success">>
    BY <1>2 DEF RequestLines
  <2>2. DOMAIN RequestLines(outcome) = {1, 2} /\ ~IsRequest(RequestLines(outcome)[1])
    BY <2>1 DEF IsRequest
  <2> QED BY <2>2
<1>3. CASE outcome = "cutOffInSendRequest"
  <2>1. RequestLines(outcome) = <<"BodyError", "RequestFailed">>
    BY <1>3 DEF RequestLines
  <2> QED BY <2>1 DEF IsRequest
<1>4. CASE outcome = "unansweredInSendRequest"
  <2>1. RequestLines(outcome) = <<"RequestError", "RequestFailed">>
    BY <1>4 DEF RequestLines
  <2> QED BY <2>1 DEF IsRequest
<1> QED BY <1>1, <1>2, <1>3, <1>4 DEF Outcomes

LEMMA MainReportsNone ==
  ASSUME NEW override, NEW k \in DOMAIN HeaderLines(override)
  PROVE  ~IsRequest(HeaderLines(override)[k])
BY DEF HeaderLines, IsRequest

LEMMA FirstNumbers ==
  ASSUME NEW n \in Nat
  PROVE  IsFiniteSet(1..n) /\ Cardinality(1..n) = n
BY FS_Interval

(* The rows the parser finds in the log of a run belong to different requests: the
   request that wrote a line maps them one to one into those that were sent. *)
LEMMA ReportsAreRequests ==
  ASSUME NEW entry \in Entries, RunLines(entry)
  PROVE  /\ IsFiniteSet(RequestsOf(entry))
         /\ Cardinality(RequestsOf(entry)) <= Len(entry.outcomes)
<1> DEFINE Sent == 1..Len(entry.outcomes)
           writer == [n \in RequestsOf(entry) |-> entry.by[n][1]]
<1>1. /\ entry.lines \in Seq(STRING) /\ entry.outcomes \in Seq(Outcomes)
      /\ Len(entry.lines) \in Nat /\ DOMAIN entry.lines = 1..Len(entry.lines)
      /\ Len(entry.outcomes) \in Nat /\ \A q \in Sent : entry.outcomes[q] \in Outcomes
  BY EntriesAssumption
<1>2. ASSUME NEW n \in RequestsOf(entry)
      PROVE  \E q \in Sent : \E k \in DOMAIN RequestLines(entry.outcomes[q]) :
               /\ entry.by[n] = <<q, k>>
               /\ IsRequest(RequestLines(entry.outcomes[q])[k])
  <2>1. n \in DOMAIN entry.by /\ IsRequest(entry.lines[n])
    BY <1>1 DEF RequestsOf, RunLines
  <2>2. PICK q \in 0..Len(entry.outcomes) : \E k \in DOMAIN LinesOf(entry, q) :
               entry.by[n] = <<q, k>> /\ entry.lines[n] = LinesOf(entry, q)[k]
    BY <2>1 DEF RunLines
  <2>3. q # 0
    BY <2>1, <2>2, MainReportsNone DEF LinesOf
  <2>4. q \in Sent
    BY <1>1, <2>3
  <2> QED BY <2>1, <2>2, <2>3, <2>4 DEF LinesOf
<1>3. writer \in Injection(RequestsOf(entry), Sent)
  <2>1. ASSUME NEW n \in RequestsOf(entry)
        PROVE  writer[n] \in Sent
    BY <1>2
  <2>2. ASSUME NEW m \in RequestsOf(entry), NEW n \in RequestsOf(entry), writer[m] = writer[n]
        PROVE  m = n
    <3>1. PICK p \in Sent : \E j \in DOMAIN RequestLines(entry.outcomes[p]) :
                 entry.by[m] = <<p, j>> /\ IsRequest(RequestLines(entry.outcomes[p])[j])
      BY <1>2
    <3>1a. PICK j \in DOMAIN RequestLines(entry.outcomes[p]) :
                 entry.by[m] = <<p, j>> /\ IsRequest(RequestLines(entry.outcomes[p])[j])
      BY <3>1
    <3>2. PICK q \in Sent : \E k \in DOMAIN RequestLines(entry.outcomes[q]) :
                 entry.by[n] = <<q, k>> /\ IsRequest(RequestLines(entry.outcomes[q])[k])
      BY <1>2
    <3>2a. PICK k \in DOMAIN RequestLines(entry.outcomes[q]) :
                 entry.by[n] = <<q, k>> /\ IsRequest(RequestLines(entry.outcomes[q])[k])
      BY <3>2
    <3>3. p = q
      BY <2>2, <3>1a, <3>2a
    <3>4. j = k
      BY <1>1, <3>1a, <3>2a, <3>3, OneReport
    <3>5. entry.by[m] = entry.by[n]
      BY <3>1a, <3>2a, <3>3, <3>4
    <3>6. m \in DOMAIN entry.by /\ n \in DOMAIN entry.by
      BY <1>1 DEF RequestsOf, RunLines
    <3> QED BY <3>5, <3>6 DEF RunLines
  <2> QED BY <2>1, <2>2 DEF Injection, IsInjective
<1>4. IsFiniteSet(Sent) /\ Cardinality(Sent) = Len(entry.outcomes)
  BY <1>1, FirstNumbers
<1> QED BY <1>3, <1>4, FS_Injection

(* No request is counted twice, in the log of any run of the generator: rows are
   stored whole or not at all, and those of a log belong to different requests. *)
THEOREM RequestsCountOnce == Spec => []RowPerRequest
<1>1. IInv => RowPerRequest
  <2> SUFFICES ASSUME IInv, NEW e \in DOMAIN experiments,
                      RunLines(files[experiments[e].file])
               PROVE  Cardinality(rows[e]) <= Len(files[experiments[e].file].outcomes)
    BY DEF RowPerRequest
  <2> DEFINE entry == files[experiments[e].file]
  <2>1. experiments[e] \in Experiments /\ files \in [Files -> Entries]
    BY DEF IInv, TypeOK
  <2>2. entry \in Entries
    BY <2>1 DEF Experiments
  <2>3. entry.outcomes \in Seq(Outcomes)
    BY <2>2, EntriesAssumption
  <2>4. Len(entry.outcomes) \in Nat
    BY <2>3
  <2>5. rows[e] = {} \/ rows[e] = RequestsOf(entry)
    BY DEF IInv, WholeFiles
  <2>6. CASE rows[e] = {}
    <3>1. Cardinality(rows[e]) = 0
      BY <2>6, FS_EmptySet
    <3> QED BY <2>4, <3>1
  <2>7. CASE rows[e] = RequestsOf(entry)
    BY <2>2, <2>7, ReportsAreRequests
  <2> QED BY <2>5, <2>6, <2>7
<1> QED BY Invariant, <1>1, PTL
=============================================================================
