---------------------------- MODULE EventLogger ----------------------------
(***************************************************************************)
(* The event logger of cmd/eventlogger/main.go: an HTTP server that writes *)
(* one CSV row per event it is told of, through one csv.Writer guarded by  *)
(* one mutex, to a file on a persistent volume.                            *)
(*                                                                         *)
(* Processes: one goroutine per request, on an instance (pod) of the       *)
(* server; instances start, crash and start again, and the Deployment's    *)
(* rolling update lets two of them overlap on the same file. The disk may  *)
(* fill up and be emptied.                                                 *)
(*                                                                         *)
(* Abstracted: the columns of a row (a row is the request that wrote it),  *)
(* the JSON of a request (it decodes or not). Rows are far shorter than    *)
(* csv.Writer's buffer, so only Flush reaches the disk.                    *)
(***************************************************************************)
EXTENDS Naturals, Sequences, FiniteSets

CONSTANTS
  Instances,  \* the pods of the Deployment that can exist at the same time
  Requests,   \* BOUND: the requests of one execution
  MaxStarts,  \* BOUND: how often instances start
  Header,     \* the CSV header line
  Torn,       \* a last line that a partial write has cut off
  Garbled,    \* a cut-off line that another one was appended to
  None        \* no request

ASSUME NamesAssumption ==
  /\ None \notin Requests
  /\ {Header, Torn, Garbled} \cap Requests = {}
  /\ Header \notin {Torn, Garbled} /\ Torn # Garbled
ASSUME MaxStartsAssumption == MaxStarts \in Nat
ASSUME InstancesAssumption == IsFiniteSet(Instances)

VARIABLES
  file,      \* /data/events.csv, line by line
  diskFull,  \* a write to the file fails
  up,        \* which instances run
  buf,       \* what each instance's csv.Writer has buffered
  failed,    \* its sticky error: a Flush has failed
  mu,        \* who holds its mutex
  at,        \* where each request is
  inst,      \* the instance that serves it
  reply,     \* the status its client got; "lost" if the connection broke
  starts,    \* how many times an instance has started
  failures   \* how many Flushes have failed

serverVars == <<up, buf, failed, mu>>
vars == <<file, diskFull, serverVars, at, inst, reply, starts, failures>>

Line == Requests \cup {Header, Torn, Garbled}
Critical == {"write", "flush", "unlock"}

TypeOK ==
  /\ file \in Seq(Line)
  /\ diskFull \in BOOLEAN
  /\ up \in [Instances -> BOOLEAN]
  /\ buf \in [Instances -> Seq(Requests \cup {Header})]
  /\ failed \in [Instances -> BOOLEAN]
  /\ mu \in [Instances -> Requests \cup {None}]
  /\ at \in [Requests -> {"idle", "lock", "done"} \cup Critical]
  /\ inst \in [Requests -> Instances]
  /\ reply \in [Requests -> {"none", "200", "400", "405", "500", "lost"}]
  /\ starts \in Nat
  /\ failures \in Nat

Init ==
  /\ file = <<>> /\ diskFull = FALSE
  /\ up = [i \in Instances |-> FALSE]
  /\ buf = [i \in Instances |-> <<>>]
  /\ failed = [i \in Instances |-> FALSE]
  /\ mu = [i \in Instances |-> None]
  /\ at = [q \in Requests |-> "idle"]
  /\ inst \in [Requests -> Instances]
  /\ reply = [q \in Requests |-> "none"]
  /\ starts = 0 /\ failures = 0

-----------------------------------------------------------------------------
(* Instances and the disk. *)

(* Mutant: the header is written whenever an instance starts. *)
StartAlwaysHeader(i) ==
  /\ ~up[i] /\ starts < MaxStarts
  /\ up' = [up EXCEPT ![i] = TRUE]
  /\ buf' = [buf EXCEPT ![i] = <<Header>>]
  /\ failed' = [failed EXCEPT ![i] = FALSE]
  /\ mu' = [mu EXCEPT ![i] = None]
  /\ starts' = starts + 1
  /\ UNCHANGED <<file, diskFull, at, inst, reply, failures>>

(* Mutant: an empty file is never given a header. *)
StartWithoutHeader(i) ==
  /\ ~up[i] /\ starts < MaxStarts
  /\ up' = [up EXCEPT ![i] = TRUE]
  /\ buf' = [buf EXCEPT ![i] = <<>>]
  /\ failed' = [failed EXCEPT ![i] = FALSE]
  /\ mu' = [mu EXCEPT ![i] = None]
  /\ starts' = starts + 1
  /\ UNCHANGED <<file, diskFull, at, inst, reply, failures>>

(* main opens the file for appending and, if it is empty, buffers the header:
   no Flush before the first row's. *)
Start(i) ==
  /\ ~up[i] /\ starts < MaxStarts
  /\ up' = [up EXCEPT ![i] = TRUE]
  /\ buf' = [buf EXCEPT ![i] = IF file = <<>> THEN <<Header>> ELSE <<>>]
  /\ failed' = [failed EXCEPT ![i] = FALSE]
  /\ mu' = [mu EXCEPT ![i] = None]
  /\ starts' = starts + 1
  /\ UNCHANGED <<file, diskFull, at, inst, reply, failures>>

(* A killed pod loses its buffer; its requests lose their connection. *)
Crash(i) ==
  LET cut == {q \in Requests : inst[q] = i /\ at[q] \notin {"idle", "done"}} IN
  /\ up[i]
  /\ up' = [up EXCEPT ![i] = FALSE]
  /\ buf' = [buf EXCEPT ![i] = <<>>]
  /\ failed' = [failed EXCEPT ![i] = FALSE]
  /\ mu' = [mu EXCEPT ![i] = None]
  /\ at' = [q \in Requests |-> IF q \in cut THEN "done" ELSE at[q]]
  /\ reply' = [q \in Requests |-> IF q \in cut THEN "lost" ELSE reply[q]]
  /\ UNCHANGED <<file, diskFull, inst, starts, failures>>

DiskChanges ==
  /\ diskFull' = ~diskFull
  /\ UNCHANGED <<file, serverVars, at, inst, reply, starts, failures>>

-----------------------------------------------------------------------------
(* The handler of /log. *)

RequestOnly == UNCHANGED <<file, diskFull, serverVars, inst, starts, failures>>

Answer(q, status) ==
  /\ at' = [at EXCEPT ![q] = "done"]
  /\ reply' = [reply EXCEPT ![q] = status]

(* Not a POST, or a body that does not decode. *)
Reject(q) ==
  /\ at[q] = "idle" /\ up[inst[q]]
  /\ \E status \in {"405", "400"} : Answer(q, status)
  /\ RequestOnly

Accept(q) ==
  /\ at[q] = "idle" /\ up[inst[q]]
  /\ at' = [at EXCEPT ![q] = "lock"]
  /\ reply' = reply /\ RequestOnly

Lock(q) ==
  LET i == inst[q] IN
  /\ at[q] = "lock" /\ mu[i] = None
  /\ at' = [at EXCEPT ![q] = "write"]
  /\ mu' = [mu EXCEPT ![i] = q]
  /\ UNCHANGED <<file, diskFull, up, buf, failed, inst, reply, starts, failures>>

(* The row joins the buffer. *)
Write(q) ==
  LET i == inst[q] IN
  /\ at[q] = "write" /\ ~failed[i]
  /\ buf' = [buf EXCEPT ![i] = Append(@, q)]
  /\ at' = [at EXCEPT ![q] = "flush"]
  /\ UNCHANGED <<file, diskFull, up, failed, mu, inst, reply, starts, failures>>

(* After a failed Flush every Write returns its error; the handler answers 500
   and returns with the mutex locked. *)
WriteFails(q) ==
  /\ at[q] = "write" /\ failed[inst[q]]
  /\ Answer(q, "500")
  /\ RequestOnly

(* Lines appended to the file. The first one continues a cut-off last line. *)
AppendLines(f, lines) ==
  IF f = <<>> \/ f[Len(f)] # Torn THEN f \o lines
  ELSE [f EXCEPT ![Len(f)] = IF Head(lines) = Torn THEN Torn ELSE Garbled] \o Tail(lines)

(* Mutant: the buffer is not emptied. *)
FlushKeepsBuffer(q) ==
  LET i == inst[q] IN
  /\ at[q] = "flush" /\ ~diskFull
  /\ file' = AppendLines(file, buf[i])
  /\ buf' = buf
  /\ at' = [at EXCEPT ![q] = "unlock"]
  /\ UNCHANGED <<diskFull, up, failed, mu, inst, reply, starts, failures>>

(* Mutant: no writer.Flush(). *)
FlushForgotten(q) ==
  /\ at[q] = "flush"
  /\ at' = [at EXCEPT ![q] = "unlock"]
  /\ UNCHANGED <<file, diskFull, serverVars, inst, reply, starts, failures>>

(* One write of the whole buffer. *)
Flush(q) ==
  LET i == inst[q] IN
  /\ at[q] = "flush" /\ ~diskFull
  /\ file' = AppendLines(file, buf[i])
  /\ buf' = [buf EXCEPT ![i] = <<>>]
  /\ at' = [at EXCEPT ![q] = "unlock"]
  /\ UNCHANGED <<diskFull, up, failed, mu, inst, reply, starts, failures>>

(* The disk takes nothing of the buffer, or some of its lines, with or without a
   part of the next.
   Nobody looks at writer.Error(): the handler goes on as if all were well. *)
FlushFails(q) ==
  LET i == inst[q] IN
  /\ at[q] = "flush" /\ diskFull
  /\ \/ file' = file
     \/ \E k \in 0..Len(buf[i]) - 1 :
          file' = AppendLines(file, SubSeq(buf[i], 1, k) \o <<Torn>>)
     \/ \E k \in 1..Len(buf[i]) - 1 : file' = AppendLines(file, SubSeq(buf[i], 1, k))
  /\ failed' = [failed EXCEPT ![i] = TRUE]
  /\ failures' = failures + 1
  /\ at' = [at EXCEPT ![q] = "unlock"]
  /\ UNCHANGED <<diskFull, up, buf, mu, inst, reply, starts>>

(* Mutant: the mutex stays locked after every request. *)
UnlockForgotten(q) ==
  /\ at[q] = "unlock"
  /\ Answer(q, "200")
  /\ UNCHANGED <<file, diskFull, up, buf, failed, mu, inst, starts, failures>>

Unlock(q) ==
  LET i == inst[q] IN
  /\ at[q] = "unlock"
  /\ mu' = [mu EXCEPT ![i] = None]
  /\ Answer(q, "200")
  /\ UNCHANGED <<file, diskFull, up, buf, failed, inst, starts, failures>>

Handle(q) == Lock(q) \/ Write(q) \/ WriteFails(q) \/ Flush(q) \/ FlushFails(q) \/ Unlock(q)

Next ==
  \/ \E i \in Instances : Start(i) \/ Crash(i)
  \/ \E q \in Requests : Reject(q) \/ Accept(q) \/ Handle(q)
  \/ DiskChanges

(* A goroutine that can run does; sync.Mutex does not starve a waiter. Requests,
   crashes and the disk are free to come or not. *)
Fairness == \A q \in Requests : WF_vars(Handle(q))

Spec == Init /\ [][Next]_vars
FairSpec == Spec /\ Fairness

-----------------------------------------------------------------------------
(* What must hold. *)

Count(x) == Cardinality({k \in DOMAIN file : file[k] = x})
Rows == {file[k] : k \in DOMAIN file}

(* The lines between Lock and Unlock run for one request at a time on each
   instance, the one that holds the mutex. *)
MutualExclusion ==
  \A q \in Requests : at[q] \in Critical => up[inst[q]] /\ mu[inst[q]] = q

(* Each request leaves at most one row, whatever crashed or failed. *)
RowOnce ==
  \A j, k \in DOMAIN file : file[j] = file[k] /\ file[j] \in Requests => j = k

(* A non-empty file begins with the header, or with what a partial write left
   of it, never with a row: also after crashes between header and first row. *)
HeaderFirst == file # <<>> => file[1] \notin Requests

(* A file gets one header per instance that saw it empty: more than one only if
   two instances overlapped. *)
HeadersBounded == Count(Header) <= Cardinality(Instances)

(* Every failed Flush costs at most two rows whose clients were told 200: its
   own, and the one that is appended to the line it cut off. *)
AckedLossBounded ==
  Cardinality({q \in Requests : reply[q] = "200" /\ q \notin Rows}) <= 2 * failures

(* The mutex is left locked only by a handler that has answered 500. *)
LeakExplained ==
  \A i \in Instances : mu[i] # None /\ at[mu[i]] = "done" =>
                         failed[i] /\ reply[mu[i]] = "500"

(* A request waiting for the mutex is answered (or loses its connection), as
   long as no Flush of its instance has failed. *)
AnsweredUnlessFailed ==
  \A q \in Requests : at[q] = "lock" ~> at[q] = "done" \/ failed[inst[q]]
=============================================================================
