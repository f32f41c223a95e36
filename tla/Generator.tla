------------------------------ MODULE Generator ------------------------------
(***************************************************************************)
(* The two load generators of pkg/generator/generator.go, the HTTP one and *)
(* the cloud-event one, with the calls cmd/workload-generator/main.go      *)
(* makes to them.                                                          *)
(*                                                                         *)
(* Processes: the goroutine of main (Start or StartColdStart, then Stop),  *)
(* one goroutine per request, optionally a second caller of Stop (the      *)
(* Generator interface exports it), time, and the HTTP client of           *)
(* pkg/connection/pool.go, whose answers and timeouts decide how a request *)
(* ends.                                                                   *)
(*                                                                         *)
(* Abstracted: rates and intervals (a tick, a limiter grant and the end of *)
(* a ramp-up step may come at any time), durations (the run's duration has *)
(* or has not elapsed), the contents of responses, the diagnostic          *)
(* "Request failed" line the callers of sendRequest add to its own line.   *)
(* The messages the log parser ignores when there are no metrics, "Request *)
(* error" and "Failed with no metrics", are one.                           *)
(***************************************************************************)
EXTENDS Naturals, FiniteSets

CONSTANTS
  Targets,      \* how many entries cfg.Targets has
  RampSteps,    \* rampUp's `steps` (15 in the code)
  MaxRequests,  \* BOUND: requests one execution may send
  Configs       \* the configurations and ways of starting that are considered

(* entry   : what main starts: the HTTP generator with Start, or with      *)
(*           StartColdStart (--cold-start), the cloud-event one (--event)  *)
(* rps     : Rate.RequestsPerSecond: 0; "low", in (0,1]; "high", above 1;  *)
(*           or one whose interval 1s/rps is not positive: "improper", not  *)
(*           above 1 (negative, not a number, so small that the interval    *)
(*           overflows), "excessive", above 10^9 (an interval of 0)         *)
(* bounded : Rate.Duration > 0                                             *)
(* timeout : Rate.Timeout > 0; 0 makes http.Client wait for ever           *)
(* stopper : a second goroutine calls Stop at some time                    *)
Config == [entry : {"Start", "StartColdStart", "StartEvents"},
           rps : {"improper", "zero", "low", "high", "excessive"},
           bounded : BOOLEAN, timeout : BOOLEAN, stopper : BOOLEAN]

ASSUME TargetsAssumption == Targets \in Nat \ {0}
ASSUME RampStepsAssumption == RampSteps \in Nat
ASSUME MaxRequestsAssumption == MaxRequests \in Nat
ASSUME ConfigsAssumption == Configs \subseteq Config

VARIABLES
  cfg,          \* the configuration of this execution
  pc,           \* where main's goroutine is
  phase,        \* which loop it is in
  step,         \* rampUp's i
  todo,         \* targets the current round has still to start
  result,       \* what Start returns
  cancelled,    \* g.ctx is done
  elapsed,      \* time.Since(startTime) > Duration
  wg,           \* the counter of g.wg
  launched,     \* requests started so far; request r is the r-th of them
  at,           \* where each request is
  kind,         \* the loop that started it, hence the code it runs
  lines,        \* the log lines it has written
  body,         \* its response body: "none", "open", "released"
  requestCount, \* run's unsynchronised counter
  tmp,          \* the value requestCount++ has read, per request
  stopper,      \* where the second caller of Stop is
  afterCancel,  \* requests the loops have set about starting since the
                \* context was cancelled
  afterElapsed  \* requests started since the duration elapsed

mainVars  == <<pc, phase, step, todo, result>>
reqVars   == <<at, kind, lines, body, tmp>>
ghostVars == <<afterCancel, afterElapsed>>
vars == <<cfg, mainVars, cancelled, elapsed, wg, launched, reqVars,
          requestCount, stopper, ghostVars>>

Requests == 1..MaxRequests
Live     == {"get", "read", "report", "load", "store", "ended"}
Loops    == {"ramp", "run", "max", "cold", "events"}
Returned == {"returned", "lastWait", "exited"}
Outcome  == {"Request error", "Failed to read response body", "Failed", "Success"}

(* The process is there: it has neither exited nor panicked. *)
Running == pc \notin {"exited", "panicked"}

(* The requests g.wg counts: sendRequest called by runColdStart is synchronous. *)
Counted == {r \in Requests : at[r] \in Live /\ kind[r] # "cold"}

TypeOK ==
  /\ cfg \in Configs
  /\ pc \in {"begin", "top", "select", "waiting", "launch", "check", "stop",
             "stopWait", "send", "sending", "sleep", "drain", "panicked"} \cup Returned
  /\ phase \in {"none"} \cup Loops
  /\ step \in 0..RampSteps
  /\ todo \in 0..Targets
  /\ result \in {"nil", "err"}
  /\ cancelled \in BOOLEAN
  /\ elapsed \in BOOLEAN
  /\ wg \in Nat
  /\ launched \in 0..MaxRequests
  /\ at \in [Requests -> {"none", "done"} \cup Live]
  /\ kind \in [Requests -> {"none"} \cup Loops]
  /\ lines \in [Requests -> SUBSET Outcome]
  /\ body \in [Requests -> {"none", "open", "released"}]
  /\ tmp \in [Requests -> Nat]
  /\ requestCount \in Nat
  /\ stopper \in {"idle", "cancelled", "waiting", "releasing", "woken", "returned"}
  /\ afterCancel \in Nat
  /\ afterElapsed \in Nat

Init ==
  /\ cfg \in Configs
  /\ pc = "begin" /\ phase = "none" /\ step = 0 /\ todo = 0 /\ result = "nil"
  /\ cancelled = FALSE /\ elapsed = FALSE
  /\ wg = 0 /\ launched = 0
  /\ at    = [r \in Requests |-> "none"]
  /\ kind  = [r \in Requests |-> "none"]
  /\ lines = [r \in Requests |-> {}]
  /\ body  = [r \in Requests |-> "none"]
  /\ tmp   = [r \in Requests |-> 0]
  /\ requestCount = 0
  /\ stopper = "idle"
  /\ afterCancel = 0 /\ afterElapsed = 0

-----------------------------------------------------------------------------
(* Main: the loops of both run, both rampUp, runMaxThroughput, runColdStart. *)

(* Steps that move main and touch nothing else. *)
MainOnly == UNCHANGED <<cfg, cancelled, elapsed, wg, launched, reqVars,
                        requestCount, stopper, ghostVars>>

(* BOUND: a round starts only if the requests left suffice for it and, while
   the duration has not elapsed, for the round that will notice that it has. *)
RoomForRound ==
  IF elapsed THEN launched + Targets <= MaxRequests
             ELSE launched + Targets + Targets <= MaxRequests

(* The loop that follows the ramp-up *)
SteadyLoop == IF cfg.entry = "StartEvents" THEN "events" ELSE "run"

FirstLoop ==
  CASE cfg.entry = "StartColdStart" -> "cold"
    [] cfg.rps \in {"high", "excessive"} -> "ramp"
    [] cfg.entry = "Start" /\ cfg.rps = "zero" -> "max"
    [] OTHER -> SteadyLoop

(* A loop with a ticker panics in NewTicker if the interval is not positive: at
   rate 0, where only Start does without a ticker, it is 1s / 0 = +Inf, on amd64
   the smallest int64. The ramp-up has intervals of its own. *)
Begin ==
  /\ pc = "begin"
  /\ phase' = FirstLoop
  /\ pc' = CASE cfg.rps \in {"improper", "zero", "excessive"} /\ FirstLoop \notin {"ramp", "max"}
                -> "panicked"
             [] FirstLoop \in {"ramp", "max"} -> "top"
             [] OTHER -> "select"
  /\ UNCHANGED <<step, todo, result>> /\ MainOnly

(* Back in run, which makes the ticker of its own loop. *)
LeaveRamp ==
  /\ phase' = SteadyLoop
  /\ pc' = IF cfg.rps = "excessive" THEN "panicked" ELSE "select"

(* The ticker of the ramp-up's next step; steps below the rate aimed at may have
   a positive interval where that rate has none. *)
NextRampStep ==
  /\ phase' = phase
  /\ \/ pc' = "select"
     \/ cfg.rps = "excessive" /\ pc' = "panicked"

(* Mutant: i <= steps in rampUp's `for`. *)
RampTopOffByOne ==
  /\ pc = "top" /\ phase = "ramp"
  /\ IF step > RampSteps \/ cancelled THEN LeaveRamp ELSE NextRampStep
  /\ UNCHANGED <<step, todo, result>> /\ MainOnly

(* The head of rampUp's `for`: when it ends or finds the context done, rampUp
   returns nil and run goes on to its own loop. *)
RampTop ==
  /\ pc = "top" /\ phase = "ramp"
  /\ IF step = RampSteps \/ cancelled THEN LeaveRamp ELSE NextRampStep
  /\ UNCHANGED <<step, todo, result>> /\ MainOnly

RampStepEnds ==
  /\ pc = "select" /\ phase = "ramp"
  /\ pc' = "top" /\ step' = step + 1
  /\ UNCHANGED <<phase, todo, result>> /\ MainOnly

(* Mutant: runColdStart without the case for a done context. *)
SelectDoneNotInCold ==
  /\ pc = "select" /\ cancelled /\ phase # "cold"
  /\ IF phase = "ramp" THEN LeaveRamp ELSE phase' = phase /\ pc' = "drain"
  /\ UNCHANGED <<step, todo, result>> /\ MainOnly

(* case <-g.ctx.Done(): rampUp returns to run, the other loops to Start. *)
SelectDone ==
  /\ pc = "select" /\ cancelled
  /\ IF phase = "ramp" THEN LeaveRamp ELSE phase' = phase /\ pc' = "drain"
  /\ UNCHANGED <<step, todo, result>> /\ MainOnly

(* Mutant: limiter.Wait(context.Background()). *)
SelectTickIgnoresContext ==
  /\ pc = "select" /\ phase \in {"ramp", "run"}
  /\ RoomForRound
  /\ pc' = "waiting" /\ result' = result
  /\ UNCHANGED <<phase, step, todo>> /\ MainOnly

(* case <-ticker.C, which select may take although the context is done;
   limiter.Wait then fails at once and its error is returned. *)
SelectTick ==
  /\ pc = "select" /\ phase \in {"ramp", "run"}
  /\ RoomForRound
  /\ IF cancelled THEN pc' = "drain" /\ result' = "err"
                  ELSE pc' = "waiting" /\ result' = result
  /\ UNCHANGED <<phase, step, todo>> /\ MainOnly

(* The cloud-event loop has no limiter, so it starts a request even then, to
   its first target only. *)
EventTick ==
  /\ pc = "select" /\ phase = "events"
  /\ RoomForRound
  /\ pc' = "launch" /\ todo' = 1
  /\ UNCHANGED <<phase, step, result>> /\ MainOnly

(* limiter.Wait grants the token; if the context is done as well by the time
   its timer fires, it may do either. *)
LimiterGrants ==
  /\ pc = "waiting"
  /\ pc' = "launch" /\ todo' = Targets
  /\ UNCHANGED <<phase, step, result>> /\ MainOnly

LimiterFails ==
  /\ pc = "waiting" /\ cancelled
  /\ pc' = "drain" /\ result' = "err"
  /\ UNCHANGED <<phase, step, todo>> /\ MainOnly

(* runMaxThroughput's select has a default: done or another round. *)
MaxTop ==
  /\ pc = "top" /\ phase = "max"
  /\ \/ cancelled /\ pc' = "drain" /\ todo' = todo
     \/ ~cancelled /\ RoomForRound /\ pc' = "launch" /\ todo' = Targets
  /\ UNCHANGED <<phase, step, result>> /\ MainOnly

ColdTick ==
  /\ pc = "select" /\ phase = "cold"
  /\ RoomForRound
  /\ pc' = "send" /\ todo' = Targets
  /\ UNCHANGED <<phase, step, result>> /\ MainOnly

(* One more request of the current round exists. *)
Spawn ==
  LET r == launched + 1 IN
  /\ todo > 0 /\ launched < MaxRequests
  /\ todo' = todo - 1
  /\ launched' = r
  /\ at' = [at EXCEPT ![r] = "get"]
  /\ kind' = [kind EXCEPT ![r] = phase]
  /\ afterCancel' = IF cancelled THEN afterCancel + 1 ELSE afterCancel
  /\ afterElapsed' = IF elapsed THEN afterElapsed + 1 ELSE afterElapsed
  /\ UNCHANGED <<cfg, phase, step, result, cancelled, elapsed, lines, body, tmp,
                 requestCount, stopper>>

(* Mutant: one Add per round. *)
LaunchAddsOnce ==
  pc = "launch" /\ Spawn /\ wg' = (IF todo = Targets THEN wg + 1 ELSE wg) /\ pc' = pc

(* g.wg.Add(1); go func... *)
Launch ==
  /\ pc = "launch" /\ stopper # "releasing"
  /\ Spawn /\ wg' = wg + 1 /\ pc' = pc

(* Add itself panics when it finds a waiter that the goroutine which brought the
   counter to zero has not released yet: "Add called concurrently with Wait". *)
LaunchPanics ==
  /\ pc = "launch" /\ todo > 0 /\ stopper = "releasing"
  /\ pc' = "panicked"
  /\ afterCancel' = afterCancel + 1
  /\ UNCHANGED <<cfg, phase, step, todo, result, cancelled, elapsed, wg, launched,
                 reqVars, requestCount, stopper, afterElapsed>>

(* sendRequest called in the loop itself *)
ColdSend == pc = "send" /\ Spawn /\ wg' = wg /\ pc' = "sending"

RoundLaunched ==
  /\ pc = "launch" /\ todo = 0
  /\ pc' = IF phase = "ramp" THEN "select" ELSE "check"
  /\ UNCHANGED <<phase, step, todo, result>> /\ MainOnly

(* time.Sleep(7s) follows each request, whatever the context says *)
ColdSent ==
  /\ pc = "sending" /\ launched > 0 /\ at[launched] = "done"
  /\ pc' = "sleep"
  /\ UNCHANGED <<phase, step, todo, result>> /\ MainOnly

ColdSlept ==
  /\ \/ pc = "sleep" /\ todo > 0 /\ pc' = "send"
     \/ pc \in {"sleep", "send"} /\ todo = 0 /\ pc' = "check"
  /\ UNCHANGED <<phase, step, todo, result>> /\ MainOnly

(* Mutant: runMaxThroughput does not look at the duration. *)
CheckDurationNotInMax ==
  /\ pc = "check"
  /\ pc' = IF phase = "max" THEN "top"
           ELSE IF cfg.bounded /\ elapsed THEN "stop" ELSE "select"
  /\ UNCHANGED <<phase, step, todo, result>> /\ MainOnly

(* The duration is looked at only after a round. *)
CheckDuration ==
  /\ pc = "check"
  /\ pc' = IF cfg.bounded /\ elapsed THEN "stop"
           ELSE IF phase = "max" THEN "top" ELSE "select"
  /\ UNCHANGED <<phase, step, todo, result>> /\ MainOnly

(* g.cancel(): first line of Stop, called by the loop and by main *)
Cancel ==
  /\ \/ pc = "stop" /\ pc' = "stopWait"
     \/ pc = "returned" /\ pc' = "lastWait"
  /\ cancelled' = TRUE
  /\ UNCHANGED <<cfg, phase, step, todo, result, elapsed, wg, launched, reqVars,
                 requestCount, stopper, ghostVars>>

(* Mutant: neither Stop nor Start waits. *)
WgWaitSkipped ==
  /\ \/ pc = "stopWait" /\ pc' = "drain"
     \/ pc = "drain" /\ pc' = "returned"
     \/ pc = "lastWait" /\ pc' = "exited"
  /\ UNCHANGED <<phase, step, todo, result>> /\ MainOnly

(* Mutant: no `return nil` after the loop's own g.Stop(). *)
WgWaitGoesOn ==
  /\ wg = 0
  /\ \/ pc = "stopWait" /\ pc' = "select"
     \/ pc = "drain" /\ pc' = "returned"
     \/ pc = "lastWait" /\ pc' = "exited"
  /\ UNCHANGED <<phase, step, todo, result>> /\ MainOnly

(* g.wg.Wait(), of the loop's Stop, of Start, and of main's Stop *)
WgWait ==
  /\ wg = 0
  /\ \/ pc = "stopWait" /\ pc' = "drain"
     \/ pc = "drain" /\ pc' = "returned"
     \/ pc = "lastWait" /\ pc' = "exited"
  /\ UNCHANGED <<phase, step, todo, result>> /\ MainOnly

Main ==
  \/ Begin \/ RampTop \/ RampStepEnds \/ SelectDone \/ SelectTick
  \/ EventTick \/ LimiterGrants \/ LimiterFails \/ MaxTop \/ ColdTick
  \/ Launch \/ LaunchPanics \/ ColdSend \/ RoundLaunched \/ ColdSent \/ ColdSlept
  \/ CheckDuration \/ Cancel \/ WgWait

-----------------------------------------------------------------------------
(* A request: Pool.Get, io.ReadAll, the log line, requestCount++, wg.Done. *)

RequestOnly == UNCHANGED <<cfg, mainVars, cancelled, elapsed, launched, ghostVars>>

Log(r, line) == lines' = [lines EXCEPT ![r] = @ \cup {line}]

(* The client's error or timeout: executeWithMetrics returns no metrics. *)
GetFails(r) ==
  /\ Running /\ at[r] = "get"
  /\ at' = [at EXCEPT ![r] = "ended"]
  /\ Log(r, "Request error")
  /\ UNCHANGED <<kind, body, tmp, wg, requestCount, stopper>> /\ RequestOnly

GetAnswers(r) ==
  /\ Running /\ at[r] = "get"
  /\ at' = [at EXCEPT ![r] = "read"]
  /\ body' = [body EXCEPT ![r] = "open"]
  /\ UNCHANGED <<kind, lines, tmp, wg, requestCount, stopper>> /\ RequestOnly

(* runMaxThroughput alone looks at the status, and leaves the body as it is. *)
GetAnswersNot200(r) ==
  /\ Running /\ at[r] = "get" /\ kind[r] = "max"
  /\ at' = [at EXCEPT ![r] = "ended"]
  /\ body' = [body EXCEPT ![r] = "open"]
  /\ Log(r, "Failed")
  /\ UNCHANGED <<kind, tmp, wg, requestCount, stopper>> /\ RequestOnly

(* Reading to the end or to an error gives the connection back. *)
ReadSucceeds(r) ==
  /\ Running /\ at[r] = "read"
  /\ at' = [at EXCEPT ![r] = "report"]
  /\ body' = [body EXCEPT ![r] = "released"]
  /\ UNCHANGED <<kind, lines, tmp, wg, requestCount, stopper>> /\ RequestOnly

(* Mutant: requestCount++ before the error of io.ReadAll is looked at. *)
ReadFailsButCounts(r) ==
  /\ Running /\ at[r] = "read"
  /\ at' = [at EXCEPT ![r] = IF kind[r] \in {"max", "events"} THEN "report"
                             ELSE IF kind[r] = "run" THEN "load" ELSE "ended"]
  /\ body' = [body EXCEPT ![r] = "released"]
  /\ Log(r, "Failed to read response body")
  /\ UNCHANGED <<kind, tmp, wg, requestCount, stopper>> /\ RequestOnly

(* sendRequest and run's goroutine end here; those of runMaxThroughput and of
   the cloud-event loop go on to report success. *)
ReadFails(r) ==
  /\ Running /\ at[r] = "read"
  /\ at' = [at EXCEPT ![r] = IF kind[r] \in {"max", "events"} THEN "report" ELSE "ended"]
  /\ body' = [body EXCEPT ![r] = "released"]
  /\ Log(r, "Failed to read response body")
  /\ UNCHANGED <<kind, tmp, wg, requestCount, stopper>> /\ RequestOnly

(* Only the goroutines of run's own loop go on to requestCount++. *)
Report(r) ==
  /\ Running /\ at[r] = "report"
  /\ at' = [at EXCEPT ![r] = IF kind[r] = "run" THEN "load" ELSE "ended"]
  /\ Log(r, "Success")
  /\ UNCHANGED <<kind, body, tmp, wg, requestCount, stopper>> /\ RequestOnly

(* requestCount++ is a read and a write no lock covers. *)
CountLoad(r) ==
  /\ Running /\ at[r] = "load"
  /\ at' = [at EXCEPT ![r] = "store"]
  /\ tmp' = [tmp EXCEPT ![r] = requestCount]
  /\ UNCHANGED <<kind, lines, body, wg, requestCount, stopper>> /\ RequestOnly

CountStore(r) ==
  /\ Running /\ at[r] = "store"
  /\ at' = [at EXCEPT ![r] = "ended"]
  /\ requestCount' = tmp[r] + 1
  /\ UNCHANGED <<kind, lines, body, tmp, wg, stopper>> /\ RequestOnly

(* Mutant: `defer wg.Done()` after the return for a failed Get. *)
EndWithoutDone(r) ==
  /\ Running /\ at[r] = "ended"
  /\ at' = [at EXCEPT ![r] = "done"]
  /\ wg' = IF kind[r] = "cold" \/ "Request error" \in lines[r] THEN wg ELSE wg - 1
  /\ stopper' = IF wg' = 0 /\ stopper = "waiting" THEN "releasing" ELSE stopper
  /\ UNCHANGED <<kind, lines, body, tmp, requestCount>> /\ RequestOnly

(* The deferred wg.Done, which sets about releasing a waiting Stop at zero; a
   cold-start request just returns to its caller. *)
End(r) ==
  /\ Running /\ at[r] = "ended"
  /\ at' = [at EXCEPT ![r] = "done"]
  /\ wg' = IF kind[r] = "cold" THEN wg ELSE wg - 1
  /\ stopper' = IF wg' = 0 /\ stopper = "waiting" THEN "releasing" ELSE stopper
  /\ UNCHANGED <<kind, lines, body, tmp, requestCount>> /\ RequestOnly

(* Mutant: a client that does not time the body. *)
TimeoutSparesBodies(r) == FALSE

(* http.Client.Timeout also covers the body: it closes one left open. *)
TimeoutReclaims(r) ==
  /\ Running /\ at[r] = "done" /\ body[r] = "open" /\ cfg.timeout
  /\ body' = [body EXCEPT ![r] = "released"]
  /\ UNCHANGED <<at, kind, lines, tmp, wg, requestCount, stopper>> /\ RequestOnly

(* What needs the server, or the client's timeout in its place. *)
Network(r) ==
  GetFails(r) \/ GetAnswers(r) \/ GetAnswersNot200(r) \/ ReadSucceeds(r) \/ ReadFails(r)

Request(r) ==
  Network(r) \/ Report(r) \/ CountLoad(r) \/ CountStore(r) \/ End(r) \/ TimeoutReclaims(r)

-----------------------------------------------------------------------------
(* Time, and the second caller of Stop. *)

(* startTime is taken after the ramp-up *)
DurationElapses ==
  /\ Running /\ ~elapsed /\ cfg.bounded /\ phase \in Loops \ {"ramp"}
  /\ elapsed' = TRUE
  /\ UNCHANGED <<cfg, mainVars, cancelled, wg, launched, reqVars, requestCount,
                 stopper, ghostVars>>

(* Mutant: Stop waits without cancelling. *)
StopperDoesNotCancel ==
  /\ Running /\ cfg.stopper /\ stopper = "idle"
  /\ stopper' = "cancelled" /\ cancelled' = cancelled
  /\ UNCHANGED <<cfg, mainVars, elapsed, wg, launched, reqVars, requestCount, ghostVars>>

StopperCancels ==
  /\ Running /\ cfg.stopper /\ stopper = "idle"
  /\ stopper' = "cancelled" /\ cancelled' = TRUE
  /\ UNCHANGED <<cfg, mainVars, elapsed, wg, launched, reqVars, requestCount, ghostVars>>

(* Mutant: Stop does not wait. *)
StopperDoesNotWait ==
  /\ Running /\ stopper = "cancelled"
  /\ stopper' = "returned"
  /\ UNCHANGED <<cfg, mainVars, cancelled, elapsed, wg, launched, reqVars,
                 requestCount, ghostVars>>

StopperWaits ==
  /\ Running /\ stopper = "cancelled"
  /\ stopper' = IF wg = 0 THEN "returned" ELSE "waiting"
  /\ UNCHANGED <<cfg, mainVars, cancelled, elapsed, wg, launched, reqVars,
                 requestCount, ghostVars>>

(* The goroutine whose Done brought the counter to zero resets the waiters and
   wakes them. *)
Release ==
  /\ Running /\ stopper = "releasing"
  /\ stopper' = "woken"
  /\ UNCHANGED <<cfg, mainVars, cancelled, elapsed, wg, launched, reqVars,
                 requestCount, ghostVars>>

(* A woken Wait that finds the counter raised again panics: "WaitGroup is
   reused before previous Wait has returned". *)
StopperWakes ==
  /\ Running /\ stopper = "woken"
  /\ \/ wg = 0 /\ stopper' = "returned" /\ pc' = pc
     \/ wg > 0 /\ stopper' = stopper /\ pc' = "panicked"
  /\ UNCHANGED <<cfg, phase, step, todo, result, cancelled, elapsed, wg, launched,
                 reqVars, requestCount, ghostVars>>

Stopper == StopperCancels \/ StopperWaits \/ Release \/ StopperWakes

Finished == ~Running /\ UNCHANGED vars

Next ==
  \/ Main
  \/ \E r \in Requests : Request(r)
  \/ DurationElapses
  \/ Stopper
  \/ Finished

(* The Go scheduler runs every goroutine that can run; tickers, timers and the
   clock go on; the client's timeout answers for a server that does not. Without
   that timeout nothing obliges a request to end. *)
Fairness ==
  /\ WF_vars(Main)
  /\ WF_vars(DurationElapses)
  /\ WF_vars(StopperWaits \/ Release \/ StopperWakes)
  /\ \A r \in Requests :
       /\ WF_vars(cfg.timeout /\ Network(r))
       /\ WF_vars(Report(r) \/ CountLoad(r) \/ CountStore(r) \/ End(r))
       /\ WF_vars(TimeoutReclaims(r))

Spec == Init /\ [][Next]_vars
FairSpec == Spec /\ Fairness
-----------------------------------------------------------------------------
(* What must hold. *)

(* The WaitGroup counts exactly the goroutines that have not called Done, so a
   Wait that returns has waited for all of them. *)
WgCounts == wg = Cardinality(Counted)

(* Once Start has returned (run is over, its wg.Wait too), every request that
   was sent has ended and has left its line in the log: main may exit. *)
NothingInFlightAfterStart ==
  pc \in Returned =>
    \A r \in 1..launched : at[r] = "done" /\ lines[r] # {}

(* When Stop has returned to its second caller, every request started before the
   context was cancelled has ended: requests are numbered as they start. The one
   exception is the request runColdStart makes in its own loop, for which it does
   not call wg.Add: at most one, the last, and only with StartColdStart. *)
StopDrains ==
  stopper = "returned" =>
    \A r \in 1..(launched - afterCancel) :
      at[r] = "done" \/ (kind[r] = "cold" /\ r = launched)

(* After Stop has cancelled the context, the loops of Start send at most the
   round they are in or the one a limiter grant lets through. (The cold-start
   and cloud-event loops have no limiter, and go on for as long as select
   prefers the ticker to the context.) *)
CancelOvershoot == cfg.entry = "Start" => afterCancel <= Targets

(* The duration is looked at only after a round, so at most one round's worth of
   requests is sent after it has elapsed. *)
DurationOvershoot == afterElapsed <= Targets

(* The generator's own Stop at the end of the duration is not an error: Start
   fails only if somebody else has called Stop. *)
OwnStopIsNoError == result = "err" => stopper # "idle"

(* The rate has a positive interval, or none is computed from it. *)
Tickable ==
  /\ cfg.rps \notin {"improper", "excessive"}
  /\ cfg.rps = "zero" => cfg.entry = "Start"

(* Apart from rates no ticker can have, the process panics only while a second
   caller is inside Stop's wg.Wait, its waiting over but not yet returned from,
   and a loop of Start, which the cancellation has not stopped yet, adds a
   request to the WaitGroup. Without a second caller it does not panic. *)
PanicNeedsLateRequest ==
  pc = "panicked" /\ Tickable =>
    stopper \in {"releasing", "woken"} /\ afterCancel > 0

(* Lost updates only ever lower requestCount: "totalRequests" never exceeds the
   successes run's goroutines have logged. *)
CountNeverExceeds ==
  requestCount <= Cardinality({r \in Requests : kind[r] = "run" /\ "Success" \in lines[r]})

(* A connection is left behind only by runMaxThroughput, for a response that
   was not 200. *)
LeaksOnlyNot200 ==
  \A r \in Requests : at[r] = "done" /\ body[r] = "open" =>
                      kind[r] = "max" /\ lines[r] = {"Failed"}

(* With a duration and a client timeout, the program comes to its end. *)
ProgramEnds == cfg.bounded /\ cfg.timeout => <>~Running

(* With a client timeout, a cancelled context brings Start back even if no
   duration was set. *)
CancelEndsProgram == cancelled /\ cfg.timeout ~> ~Running

(* With a client timeout, a body nobody closes is closed in the end. *)
LeakReclaimed ==
  \A r \in Requests : cfg.timeout /\ body[r] = "open" ~> body[r] = "released" \/ ~Running

(* README.md:158, "The default timeout for http requests is 30 seconds": also a
   request of a configuration that sets no timeout ends. *)
DefaultTimeout == \A r \in Requests : at[r] = "get" ~> at[r] # "get"

(* How far the run is, as its caller sees it. *)
RunStatus ==
  IF pc \in Returned THEN "closed"
  ELSE IF pc = "panicked" THEN "broken"
  ELSE IF cancelled THEN "closing" ELSE "open"

Answered == {r \in Requests : at[r] = "done"}

(* The promise of LoadRun: requests are sent and answered, and when the run is
   closed none is outstanding and none follows. *)
Promise == INSTANCE LoadRun WITH
  status <- RunStatus, sent <- launched, answered <- Cardinality(Answered)

PromiseKept == Promise!Spec
=============================================================================
