------------------------------ MODULE LogParser ------------------------------
(***************************************************************************)
(* cmd/logparser: reads the log files of the workload generator and stores *)
(* an experiment per file, and a row per line that reports a request, in   *)
(* SQLite. The experiment is inserted on its own, the rows of a file in    *)
(* one transaction. The tool is run again and again over the same          *)
(* directory; the database may refuse any statement and the process may be *)
(* killed between any two.                                                 *)
(*                                                                         *)
(* A line is named by the first words of its message. A row is named by    *)
(* the number of its line. What a run of the generator makes a file say is *)
(* RunLines.                                                               *)
(***************************************************************************)
EXTENDS Naturals, Sequences, FiniteSets

CONSTANTS
  NFiles,   \* BOUND: the entries of the directory, in the order of ReadDir
  Entries,  \* the entries considered, records as in TypeOK
  MaxRuns   \* BOUND: how often the parser is started

ASSUME NFilesAssumption == NFiles \in Nat
ASSUME MaxRunsAssumption == MaxRuns \in Nat

Files == 1..NFiles
Runs == 1..MaxRuns

Units == {"rps", "triggers", "workers", "language"}
VARIABLES
  files,       \* the entries of the directory
  pc,          \* where the parser is
  runs,        \* the runs started so far
  next,        \* the entry the loop is at
  config,      \* what processFile has found in the second line
  requests,    \* the lines processFile has found a request in
  tx,          \* the rows of the open transaction
  experiments, \* the table of experiments
  rows,        \* the table of requests: the rows of each experiment
  stats,       \* what the run will report
  failed       \* the runs in which a statement failed or the process was killed

vars == <<files, pc, runs, next, config, requests, tx, experiments, rows, stats, failed>>
tables == <<experiments, rows>>

-----------------------------------------------------------------------------
(* What the generator writes. *)

(* The lines the generator's main writes before anything is sent. *)
HeaderLines(override) ==
  IF override THEN <<"Loading", "Overriding", "Loaded">> ELSE <<"Loading", "Loaded">>

Outcomes == {"answered", "not200", "cutOff", "unanswered", "cutOffInRun",
             "cutOffInSendRequest", "unansweredInSendRequest"}

(* The lines one request leaves. The callers of sendRequest report its error once
   more. After a body that cannot be read the goroutines of runMaxThroughput and of
   the cloud-event loop go on to report success; those of run's own loop end there,
   as sendRequest does. A status that is not 200 is only looked at without a rate. *)
RequestLines(outcome) ==
  CASE outcome = "answered"   -> <<"Success">>
    [] outcome = "not200"     -> <<"Failed">>
    [] outcome = "cutOff"     -> <<"BodyError", "Success">>
    [] outcome = "unanswered" -> <<"RequestError">>
    [] outcome = "cutOffInRun" -> <<"BodyError">>
    [] outcome = "cutOffInSendRequest"     -> <<"BodyError", "RequestFailed">>
    [] outcome = "unansweredInSendRequest" -> <<"RequestError", "RequestFailed">>

LinesOf(entry, q) ==
  IF q = 0 THEN HeaderLines(entry.override) ELSE RequestLines(entry.outcomes[q])

(* The entry is the log of one run, as far as it was written when the generator was
   stopped: by[n] says who has written line n, main (0) or the goroutine of a request,
   and the how many eth of his lines it is. Each writes his lines once and in order,
   main before there are requests; those of different requests come in any order. *)
RunLines(entry) ==
  /\ DOMAIN entry.by = DOMAIN entry.lines
  /\ \A m, n \in DOMAIN entry.by : entry.by[m] = entry.by[n] => m = n
  /\ \A n \in DOMAIN entry.by :
       \E q \in 0..Len(entry.outcomes) : \E k \in DOMAIN LinesOf(entry, q) :
         LET earlier == {entry.by[m] : m \in 1..(n - 1)}
         IN  /\ entry.by[n] = <<q, k>>
             /\ entry.lines[n] = LinesOf(entry, q)[k]
             /\ {<<q, j>> : j \in 1..(k - 1)} \subseteq earlier
             /\ q # 0 => {<<0, j>> : j \in DOMAIN LinesOf(entry, 0)} \subseteq earlier

ASSUME EntriesAssumption ==
  \A entry \in Entries : /\ entry.lines \in Seq(STRING)
                        /\ entry.outcomes \in Seq(Outcomes)

-----------------------------------------------------------------------------
(* What the parser makes of it. *)

(* parseFilename: a name is <scenario>_<param>_..._<date>_<time>, a param a
   number and a unit, or a language. Only the units of the scenario are read. *)
UnitsOf(scenario) ==
  CASE scenario = "eventing" -> {"rps", "triggers", "workers"}
    [] scenario = "serving"  -> {"rps"}
    [] OTHER                 -> {}

parseFilename(name) ==
  /\ name.timestamp
  /\ name.scenario \in {"eventing", "serving"}
  /\ \A p \in name.params : p.unit \in UnitsOf(name.scenario) => p.number

(* The entries the loop goes past before it opens them. *)
Skipped(entry) == ~entry.log \/ ~parseFilename(entry.name) \/ entry.old

(* processFile gives up on a file it cannot open, one with a line longer than
   the scanner takes, and one without a second line. *)
Unreadable(entry) == ~entry.readable \/ Len(entry.lines) < 2

(* Mutant: "Failed" is looked for without the "msg=" before it and the space
   after it. *)
IsRequestLoosely(line) == line \in {"Success", "Failed", "BodyError"}

(* The lines the rows are made from, from the third line on. *)
IsRequest(line) == line \in {"Success", "Failed"}

RequestsOf(entry) == {n \in 3..Len(entry.lines) : IsRequest(entry.lines[n])}

(* The fields as the second line shows them, and the columns. A regular
   expression matches the first field whose name ends with its own. *)
Fields == <<"RequestsPerSecond", "Duration", "MaxIdleConns", "MaxIdleConnsPerHost",
            "IdleConnTimeout", "Timeout">>
Columns == {Fields[i] : i \in DOMAIN Fields}
EndsWith(field, column) ==
  field = column \/ (field = "IdleConnTimeout" /\ column = "Timeout")

addConfigValue(column) ==
  LET i == CHOOSE i \in DOMAIN Fields :
             /\ EndsWith(Fields[i], column)
             /\ \A j \in 1..(i - 1) : ~EndsWith(Fields[j], column)
  IN  Fields[i]

parseConfig(line) ==
  [c \in Columns |-> IF line = "Loaded" THEN addConfigValue(c) ELSE "NULL"]

NoConfig == [c \in Columns |-> "NULL"]

-----------------------------------------------------------------------------
Experiments == [file : Files, run : Runs, config : [Columns -> Columns \cup {"NULL"}]]

(* The type invariant of the parser: rows is a table per experiment, and the
   lines of a row are lines of a file. *)
TypeOK ==
  /\ files \in [Files -> Entries]
  /\ pc \in {"idle", "loop", "experiment", "rows", "done", "killed"}
  /\ runs \in 0..MaxRuns
  /\ pc # "idle" => runs \in Runs
  /\ next \in 1..(NFiles + 1)
  /\ pc \in {"experiment", "rows"} => next \in Files
  /\ config \in [Columns -> Columns \cup {"NULL"}]
  /\ requests \in SUBSET Nat
  /\ tx \in SUBSET requests
  /\ experiments \in Seq(Experiments)
  /\ rows \in Seq(SUBSET Nat)
  /\ Len(rows) = Len(experiments)
  /\ stats \in SUBSET (Nat \X SUBSET Nat)
  /\ failed \in SUBSET Runs

Init ==
  /\ files \in [Files -> Entries]
  /\ pc = "idle"
  /\ runs = 0
  /\ next = 1
  /\ config = NoConfig
  /\ requests = {}
  /\ tx = {}
  /\ experiments = <<>>
  /\ rows = <<>>
  /\ stats = {}
  /\ failed = {}

(* stats.filesProcessed and experimentsInserted go up by one, requestsInserted by
   the number of lines. What was counted is kept instead of how much it was. *)
Count(e, lines) == stats \cup {<<e, lines>>}

(* main is called; the tables are created unless they exist. *)
Start ==
  /\ pc \in {"idle", "done", "killed"}
  /\ runs < MaxRuns
  /\ runs' = runs + 1
  /\ pc' = "loop"
  /\ next' = 1
  /\ config' = NoConfig
  /\ requests' = {}
  /\ tx' = {}
  /\ stats' = {}
  /\ UNCHANGED <<files, tables, failed>>

(* Mutant: one file that cannot be used ends the run, return for continue. *)
NextEntryEnds ==
  /\ pc = "loop"
  /\ next \in Files
  /\ Skipped(files[next]) \/ Unreadable(files[next])
  /\ pc' = "done"
  /\ UNCHANGED <<files, runs, next, config, requests, tx, tables, stats, failed>>

(* continue: an entry that is skipped, or a file that is given up. *)
NextEntry ==
  /\ pc = "loop"
  /\ next \in Files
  /\ Skipped(files[next]) \/ Unreadable(files[next])
  /\ next' = next + 1
  /\ UNCHANGED <<files, pc, runs, config, requests, tx, tables, stats, failed>>

ProcessFile ==
  /\ pc = "loop"
  /\ next \in Files
  /\ ~Skipped(files[next]) /\ ~Unreadable(files[next])
  /\ config' = parseConfig(files[next].lines[2])
  /\ requests' = RequestsOf(files[next])
  /\ pc' = "experiment"
  /\ UNCHANGED <<files, runs, next, tx, tables, stats, failed>>

(* Mutant: the experiment is counted before its rows are in. *)
InsertExperimentCounts ==
  /\ pc = "experiment"
  /\ experiments' = Append(experiments, [file |-> next, run |-> runs, config |-> config])
  /\ rows' = Append(rows, {})
  /\ stats' = Count(Len(experiments) + 1, requests)
  /\ IF requests = {}
       THEN pc' = "loop" /\ next' = next + 1
       ELSE pc' = "rows" /\ UNCHANGED next
  /\ UNCHANGED <<files, runs, config, requests, tx, failed>>

(* The INSERT commits at once. A file without requests is finished with it. *)
InsertExperiment ==
  /\ pc = "experiment"
  /\ experiments' = Append(experiments, [file |-> next, run |-> runs, config |-> config])
  /\ rows' = Append(rows, {})
  /\ IF requests = {}
       THEN /\ stats' = Count(Len(experiments) + 1, {})
            /\ pc' = "loop"
            /\ next' = next + 1
       ELSE /\ pc' = "rows"
            /\ UNCHANGED <<stats, next>>
  /\ UNCHANGED <<files, runs, config, requests, tx, failed>>

InsertExperimentFails ==
  /\ pc = "experiment"
  /\ pc' = "loop"
  /\ next' = next + 1
  /\ failed' = failed \cup {runs}
  /\ UNCHANGED <<files, runs, config, requests, tx, tables, stats>>

(* Mutant: the rows are inserted outside of the transaction. *)
InsertRequestAtOnce ==
  /\ pc = "rows"
  /\ \E n \in requests \ tx :
       /\ \A m \in requests \ tx : n <= m
       /\ tx' = tx \cup {n}
       /\ rows' = [rows EXCEPT ![Len(rows)] = @ \cup {n}]
  /\ UNCHANGED <<files, pc, runs, next, config, requests, experiments, stats, failed>>

(* One INSERT of the transaction, in the order of the lines. *)
InsertRequest ==
  /\ pc = "rows"
  /\ \E n \in requests \ tx :
       /\ \A m \in requests \ tx : n <= m
       /\ tx' = tx \cup {n}
  /\ UNCHANGED <<files, pc, runs, next, config, requests, tables, stats, failed>>

Commit ==
  /\ pc = "rows"
  /\ tx = requests
  /\ rows' = [rows EXCEPT ![Len(rows)] = tx]
  /\ tx' = {}
  /\ stats' = Count(Len(rows), requests)
  /\ pc' = "loop"
  /\ next' = next + 1
  /\ UNCHANGED <<files, runs, config, requests, experiments, failed>>

(* Mutant: the rollback is forgotten, and the statements of the next file run in
   the same transaction. *)
InsertRequestsKeepsTx ==
  /\ pc = "rows"
  /\ pc' = "loop"
  /\ next' = next + 1
  /\ failed' = failed \cup {runs}
  /\ UNCHANGED <<files, runs, config, requests, tx, tables, stats>>

(* Mutant: the file is tried again. *)
InsertRequestsRetried ==
  /\ pc = "rows"
  /\ tx' = {}
  /\ pc' = "loop"
  /\ failed' = failed \cup {runs}
  /\ UNCHANGED <<files, runs, next, config, requests, tables, stats>>

(* Begin, Prepare, an Exec or Commit has failed: Rollback, and on to the next
   file. The experiment stays. *)
InsertRequestsFails ==
  /\ pc = "rows"
  /\ tx' = {}
  /\ pc' = "loop"
  /\ next' = next + 1
  /\ failed' = failed \cup {runs}
  /\ UNCHANGED <<files, runs, config, requests, tables, stats>>

(* The process is killed, or main gives up before the loop: the directory cannot
   be read or the database not be opened. SQLite drops the open transaction. *)
Killed ==
  /\ pc \in {"loop", "experiment", "rows"}
  /\ pc' = "killed"
  /\ tx' = {}
  /\ failed' = failed \cup {runs}
  /\ UNCHANGED <<files, runs, next, config, requests, tables, stats>>

(* The loop has ended and main reports the counters. *)
Report ==
  /\ pc = "loop"
  /\ next \notin Files
  /\ pc' = "done"
  /\ UNCHANGED <<files, runs, next, config, requests, tx, tables, stats, failed>>

(* Nobody calls the parser again. *)
Finished == pc \in {"done", "killed"} /\ runs = MaxRuns /\ UNCHANGED vars

Next ==
  \/ Start
  \/ NextEntry
  \/ ProcessFile
  \/ InsertExperiment
  \/ InsertExperimentFails
  \/ InsertRequest
  \/ Commit
  \/ InsertRequestsFails
  \/ Killed
  \/ Report
  \/ Finished

Spec == Init /\ [][Next]_vars

-----------------------------------------------------------------------------
(* An experiment has all the requests of its file or none of them, whatever
   failed: insertRequests stores the rows of a file in one transaction. *)
WholeFiles ==
  \A e \in DOMAIN experiments :
    rows[e] \in {{}, RequestsOf(files[experiments[e].file])}

(* No run stores a file twice, not even if storing it failed half way
   (processLogs goes on with the next file). Only another run does. *)
OncePerRun ==
  \A d, e \in DOMAIN experiments :
    /\ experiments[d].file = experiments[e].file
    /\ experiments[d].run = experiments[e].run
    => d = e

(* A run that has ended and met no failure has stored every file it can use, with
   all its requests, and nothing of any other: what is wrong with one entry of
   the directory costs only that entry. *)
StoredBy(r, f) ==
  {e \in DOMAIN experiments : experiments[e].run = r /\ experiments[e].file = f}

CleanRunIsComplete ==
  \A r \in 1..runs : (r < runs \/ pc = "done") /\ r \notin failed =>
    \A f \in Files :
      IF Skipped(files[f]) \/ Unreadable(files[f])
        THEN StoredBy(r, f) = {}
        ELSE \E e \in StoredBy(r, f) : rows[e] = RequestsOf(files[f])

(* What the run reports is what it has stored: the requests exactly, and every
   experiment but those whose requests it failed to store. *)
StatsTruthful ==
  pc = "done" =>
    LET own == {e \in DOMAIN experiments : experiments[e].run = runs}
        stored == {e \in own : rows[e] = RequestsOf(files[experiments[e].file])}
    IN  /\ stats = {<<e, rows[e]>> : e \in stored}
        /\ \A e \in own \ stored : rows[e] = {}

(* No request of the generator is counted twice: an experiment has at most one row
   per request that was sent, in whatever order the goroutines wrote their lines, also
   for the loops that leave two lines for a body they could not read (generator.go
   283-286, 395-399). Two runs that share a file are two files' worth of requests. *)
RowPerRequest ==
  \A e \in DOMAIN experiments :
    LET entry == files[experiments[e].file]
    IN  RunLines(entry) => Cardinality(rows[e]) <= Len(entry.outcomes)

(* The comment of processFile: "Read config from second line". An experiment
   has the configuration its file shows, each field in the column named after it. *)
ConfigKept ==
  \A e \in DOMAIN experiments :
    (\E n \in DOMAIN files[experiments[e].file].lines :
       files[experiments[e].file].lines[n] = "Loaded")
    => \A c \in Columns : experiments[e].config[c] = c
=============================================================================
