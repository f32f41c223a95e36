# Verification of knativeBenchmark

TLA+ models of the programs of this repository, model-checked with TLC, and
proofs about them checked with TLAPS. The code is the reference: every
definition that stands for code is listed in `PROJECT.json` under `map` with the
lines it was translated from.

## The system

knativeBenchmark measures Knative Serving (HTTP functions in several languages)
and Knative Eventing (brokers, triggers). Shell recipes in
`infrastructure/justfile` deploy functions, brokers and triggers, run the
workload generator in a pod, and collect its logs; two programs turn logs and
metrics into SQLite databases.

| Component | State | Operations | Talks to |
|---|---|---|---|
| workload generator, HTTP (`pkg/generator`, `cmd/workload-generator`) | context, WaitGroup, limiter, ticker, `requestCount` | `Start` (ramp-up, steady loop, or maximum throughput), `StartColdStart`, `Stop`, one goroutine per request | functions through the pool; log file |
| workload generator, cloud events (`pkg/generator`) | context, WaitGroup | `Start`, `Stop` | broker through the pool; log file |
| connection pool (`pkg/connection`) | one `http.Client` with a timeout | `Get`, `GenerateCloudEvent` | network |
| configuration, log files (`pkg/config`, `pkg/store`) | - | `Load`, `GetLogFileWriter` | file system |
| event receiver (`cmd/reciever`) | - | one callback per delivered event: POST to the logger | broker; event logger |
| event logger (`cmd/eventlogger`) | CSV file, buffered writer, mutex | `POST /log` | persistent volume |
| log parser (`cmd/logparser`) | SQLite database | scan log directory, insert experiments and requests | log files |
| metrics collector (`cmd/top`) | SQLite database or CSV | a tick collects nodes and pods | API server |
| deployer (`cmd/deployer`) | - | create, patch, delete services, triggers, brokers, sequences | API server |
| scenarios (`infrastructure/justfile`) | shell variables; cluster settings | recipes | everything |
| functions (`functions/`) | a flag `isCold` | answer it | generator |

What is hard in it:

* *Concurrency.* The generator's loop, its request goroutines, and a caller of
  `Stop` share a context, a WaitGroup and an unprotected counter; `select` may
  prefer the ticker to a cancelled context. The event logger's handlers share
  one buffered writer.
* *Failure.* Requests without a timeout; bodies nobody closes; a disk that fills
  up in the middle of a write; pods that die between the POST and the row.
* *Delivery.* The broker delivers at least once; the receiver decides by its
  return value whether an event is done with.
* *A cluster that moves.* The metrics collector asks for lists and then for what
  is in them, call by call; pods, nodes and samples change in between. The deployer
  reads an object and writes it back. Deletion takes time.
* *Scripts that do not stop.* No recipe looks at an exit status, and the deployer
  reports failures by printing them: a measurement can be made with other settings
  than the prefix of its log says.
* *Boundaries.* Rates no ticker can have, the round that starts after the duration has elapsed, the
  header that is written for an empty file only.

What makes the components correct:

* Generator: when `Start` has returned, every request has ended and left its
  line in the log; `Stop` drains what was sent before it, except a request of
  `runColdStart`, which no WaitGroup counts; what is sent after a
  cancellation or after the duration is bounded; the program ends.
* Event logger: one row per request, the header first, a bounded number of
  acknowledged rows lost per failed write, a mutex that is not left locked.
* Receiver and broker: an acknowledged event has its row; duplicates have an
  explanation; every event is settled.
* Log parser: what is in the database is what the generator logged, once.
* Metrics collector: an undisturbed tick stores one row per node and per container;
  a disturbed one loses at most itself; a pod that stays is sampled again.
* Deployer: no patch takes back what somebody else has done.
* Scenarios: a measurement is made with what its name says, unless a request about it
  failed; no failure keeps a combination from being measured; what is left behind is known.
* Functions: exactly one request per instance sees a cold start; where nothing
  locks the flag, at least none that was sent after an answer.

## Modules

| Module | Models | Composes |
|---|---|---|
| `LoadRun` | abstract: what a run of a load generator promises its caller | |
| `Generator` | `pkg/generator/generator.go` with its use in `cmd/workload-generator/main.go` and the client of `pkg/connection/pool.go` | refines `LoadRun` |
| `GeneratorProofs` | theorems about `Generator` | |
| `EventLogger` | `cmd/eventlogger/main.go` | |
| `EventLoggerProofs` | theorems about `EventLogger` | |
| `Delivery` | generator, broker (external), `cmd/reciever/main.go` | extends `EventLogger` |
| `DeliveryProofs` | theorems about `Delivery`, from those about `EventLogger` | |
| `LogParser` | `cmd/logparser/main.go`, on files written as `cmd/workload-generator/main.go` and the generator write them | |
| `LogParserProofs` | theorems about `LogParser` | |
| `ColdFlag` | the flag `isCold` of the functions under `functions/` | |
| `ColdFlagProofs` | theorems about `ColdFlag` | |
| `Top` | `cmd/top/main.go` | |
| `TopProofs` | theorems about `Top` | |
| `Deployer` | `cmd/deployer/main.go`, and the API server as far as it answers it | |
| `DeployerProofs` | theorems about `Deployer` | |
| `Scenarios` | the six scenario recipes of `infrastructure/justfile` | extends `Deployer` |
| `ScenariosProofs` | theorems about `Scenarios`, from those about `Deployer` | |
| `MC*` | instances for TLC | |

Definitions called `Mutant: ...` in a comment are wrong variants of the action
that follows them (a dropped guard, a missing wait). They are in no
specification; putting one in the place of the action makes TLC find the
property it is meant for violated.

### Generator

`pc` is where main's goroutine is, `phase` which of the loops it is in; `at[r]`
is where the goroutine of the r-th request is. Each `select` is as many actions
as it has cases, so a tick may be taken although the context is done, as in Go.
`Begin` chooses the loop, `RampTop` and `RampStepEnds` are `rampUp`, which
`LeaveRamp` returns from to `run`; each of them makes a ticker (`NextRampStep` the one of
a step) and panics if its interval is not positive; `SelectTick`, `LimiterGrants` and `LimiterFails` the
ticker and the limiter; `EventTick`, `MaxTop`, `ColdTick` the loops without one;
`Launch` and `ColdSend` start a request; `CheckDuration`, `Cancel` and `WgWait`
end the run. A request is `GetFails` or `GetAnswers`, then `ReadSucceeds` or
`ReadFails`, `Report`, `requestCount++` as the two steps `CountLoad` and
`CountStore`, and `End` with its `wg.Done`. `wg` is the counter of the WaitGroup.
A `Done` that brings it to zero under a waiting `Stop` still has to release the waiter
(`Release`): a `wg.Add` before that panics (`LaunchPanics`, "Add called concurrently with
Wait"), and one after it, before the woken `Stop` has looked, makes the `Wait` panic
(`StopperWakes`, "WaitGroup is reused before previous Wait has returned").

Of a rate the model keeps what the code tells apart: 0, up to 1 ("low"), above 1 ("high"),
and the two kinds whose interval is not positive, "improper" (below 0, not a number, or so
small that 1s/rate overflows) and "excessive" (so high that it is 0). `config.Load` refuses
none. `PanicNeedsLateRequest` sets these aside (`Tickable`) and says when the process
panics with a rate that a ticker can have: only while a second caller of `Stop` is being
released from `wg.Wait` and a loop adds one more request. `StopDrains` compares requests
by their numbers, in the order they start: when `Stop` has returned to the second caller,
those from before the cancellation have ended, but for the last one if it is
`runColdStart`'s, which calls `sendRequest` in its own loop without `wg.Add`
(`pkg/generator/generator.go:218`).

Time is abstract: a tick, a limiter grant and the end of a ramp-up step come at
any time, and the duration has or has not elapsed. So nothing is checked about
rates. The contents of answers are not modelled but for "status 200 or not".

The configuration is a variable that never changes: all configurations named by
the constant `Configs` are checked in one run.

### EventLogger

The handler of `/log` is the chain `Accept`, `Lock`, `Write`, `Flush`, `Unlock`;
`WriteFails` returns without unlocking, as the code does. A row is the request
that wrote it. `csv.Writer` buffers; its error is sticky, `failed`; a Flush on a
full disk writes any prefix of its lines, with a cut-off one (`Torn`) or without. The next
line appended makes it `Garbled`. Instances start and crash, and two of them may
run on the same file, as in a rolling update of the Deployment with its volume
on the host.

### Delivery

A request of `EventLogger` is one attempt to deliver an event. The receiver's
callback is `Post`, then `PostFails` (not acknowledged), `Logged` or `NotLogged`
(both acknowledged: the second is the finding below). The broker is not in this
repository; it is modelled as the code relies on it: it keeps an accepted event,
has one delivery of it under way at a time, delivers it again when a delivery was
not acknowledged or its connection was lost, and gives up after the attempts.

### LogParser

`Start` is a call of `main`; `NextEntry` is a `continue` of the loop of
`processLogs` before anything is inserted, `ProcessFile` what it reads of a file.
`InsertExperiment` commits at once, as the code's `db.Exec` does;
`InsertRequest`, `Commit` and `InsertRequestsFails` are the transaction of
`insertRequests` and its deferred rollback. `Killed` may happen between any two
steps. The directory does not change while it is read.

A line is named by the first words of its message. `RunLines` says that a file is the
log of one run of the generator: with or without `--rps`, a number of requests with their
outcomes; main and each goroutine write their lines in order, different goroutines in
any order, and the log ends where the generator was stopped. The lines of a request depend
on which code has sent it: a body that cannot be read ends the goroutine of `run`'s own
loop ("cutOffInRun") and `sendRequest`, and not those of `runMaxThroughput` and of the
cloud-event loop, which go on to report success. `parseFilename` keeps which parts of a name
are looked at and which make the file be refused. `parseConfig` keeps which field
of the second line ends up in which column: a regular expression takes the first
field whose name ends with its own. Values are not modelled.

### ColdFlag

`Enter`, `Read` and `Reset` are the three things a handler does: take its mutex
(Rust) or its turn in the event loop (TypeScript), if it has one; make the
flag the response; set it to false. Go, Python, Spring Boot and Quarkus have
nothing to take. `before` remembers what a client could know when it sent its
request. Whether Quarkus gives all requests the same object is decided by the
framework; the model says it does, as `FunctionTest.java` expects.

### Top

A tick is `BeginTick`, then `collectNodeMetrics`: `ListNodeMetrics`, `ListNodes`, a
`StoreNode` per sample, `NodesStored`; then `collectPodMetrics`: `ListNamespaces`,
and per namespace `ListPodMetrics`, per sample `GetPod` (or `PodUnscheduled`,
`PodGone`), `GetNode` (or `NodeGone`), a `StoreContainer` per container. Every
`return` of an error is `GiveUp`: the tick ends there, what it has stored stays. Between any two
calls the cluster may change and the metrics server may scrape. The order of the
lists is not the code's to decide: the model takes their elements in any order.
With SQLite a share that is not a number is refused (`StoreNodeRefused`); with CSV a
row may be lost, as nobody looks at the error of `Flush` (`StoreNodeLost`,
`StoreContainerLost`). Only the rows of the last tick are kept. `quiet` is history:
the samples were fresh when the tick began, and nothing has changed or failed since.

`named` is the slice of `--namespace`, and a visit is of its nth entry or, as number 0, of
a namespace of the API's list: what is named twice is visited twice. `nodesDue` is history:
the nodes whose rows the tick owes, those the metrics server has listed less those whose
row a CSV file did not take. `PodsNeedNodes` looks at the rows: with `--nodes`, a tick that
has rows about pods has one for each node that is due.

Remark: `--namespace` (`cmd/top/main.go:76`, "Specific namespaces to collect metrics
from") selects nothing while `--all-namespaces` has its default, true: the named
namespaces are visited in addition, so their pods have two rows per tick; and so have those
of a namespace that is named twice. `RowOnce` says exactly when.

### Deployer

A call of the deployer is a verb and the objects it goes through, `keys`, with what
it asks of each, `sets`. `Create`, `Delete` and `Get` with `Update` are its
requests; `CreateRefused`, `NotFound`, `Conflict` and `RequestFails` how they can go
wrong. All are printed and the loop goes on (`Skip`), except that a broker that
cannot be created ends its call; the exit status is 0 in any case. An object is its
phase and the settings some call changes. `stale` stands for the version the API
server compares at an `Update`; `Outdates` makes copies stale. A request that fails
has had no effect. Deleted objects are `terminating` until their controllers have
finished. `asked` is history: what requests that succeeded have asked of an object.

### Scenarios

A recipe is four lists of commands around and inside two loops (`BeforeLoops`,
`OuterBefore`, `InnerBefore`, `OuterAfter`, `AfterLoops`); a recipe with one loop has
an outer one of one word. `EnterInner` expands `"${rps[@]}"` once, and `Assign` gives
each word to the loop's variable, which for four recipes is the array itself: bash
stores it in the array's first element. A deployer command waits for the deployer of
its shell, which works through its requests as in `Deployer`; `PatchAutoscaler` and
`PatchConcurrency` are `kubectl patch`. `Measure` is the workload generator, run with
the words of both loops. `Interrupt` is a recipe that is stopped, at any point;
`Manual` a call of the deployer in another terminal. `troubled` is history: the kinds
of objects about which a request was refused or failed, or which somebody else has
worked on.

`TriggersOf` and `ServicesOf` are what a recipe announces or leaves. A trigger that is
being deleted is still there until its controllers are done with it: `inherited` is
history, the triggers being deleted when the recipe began. `EventingAsLabelled` is about
both kinds: the live triggers are exactly those of the label, and one that is still being
deleted was left by an earlier recipe, so that `eventing-scenario-1` run right after
`eventing-scenario-2` may measure beside a trigger that is about to go.

Remark: from the second number of triggers on, `eventing-scenario-2` measures the last
rate twice and the first not at all (`infrastructure/justfile:454`);
`eventing-scenario-3` does the same from the second number of workers on (line 477).
Nothing in the repository but the loops themselves says which combinations are meant, so
there is no statement to find violated; `AllButFirstRateMeasured` says, for loops of any
length, what is measured all the same.

Remark: `serving-scenario-3` leaves `max-scale` at 400 (line 348), and the container
concurrency of `sleep-go-http-0` at 1 (line 351): under "Patch it back to 0" (line 362) it
patches `empty-go-http-0`. `eventing-scenario-1` leaves `reciever-0` deployed (line 417),
`serving-scenario-3` `sleep-go-http-0` (line 343). `LeftBehind` says that this and the
triggers that are still being deleted are all that is left: the live triggers, the
ConfigMap, and the services with their settings.

## Runs

| Run | Instance | Shows |
|---|---|---|
| `generator_safe` | 2 targets, 2 ramp-up steps, 5 requests; every entry and rate, with a duration, alone and with a second goroutine that calls `Stop` | the WaitGroup counts the goroutines; nothing is in flight once `Start` has returned; at most a round after the duration or after a cancellation; `Stop` drains what is older than the cancellation, a cold-start request excepted; when `Start` fails and when the process panics; lost updates never make `requestCount` too large |
| `generator_live` | 1 target, 2 requests, fairness | the program ends after its duration, or after a cancellation; bodies are reclaimed by the timeout; refinement of `LoadRun` |
| `generator_untimed` | no client timeout | *finding*: there is no default timeout |
| `event_logger_safe` | 2 instances, 3 requests, 3 starts, symmetric requests | rows, header, mutex left locked, losses |
| `delivery` | 1 event, 3 attempts, 1 instance, 2 starts, fairness | acknowledged events are logged unless a write failed; duplicates are explained by lost answers; every accepted event is settled, and a request waiting for the logger's mutex is answered, unless a write failed |
| `delivery_refused` | 2 events, 3 attempts | *finding*: an event the logger refused is acknowledged |
| `log_parser_safe` | 3 entries out of 12, 2 runs, every failure | an experiment is stored whole or without requests, once per run; one bad entry costs itself only; the reported counters are what was stored; no request has two rows |
| `log_parser_config` | 1 file | *findings*: with `--rps` the configuration is lost; without, the column `timeout` holds another field |
| `cold_flag_safe` | 2 instances, 4 requests, symmetric | one cold start per instance with a lock; without one, only among requests that ran together |
| `top` | 2 nodes, 2 pods in two namespaces, 2 containers, 6 combinations of flags, 2 disturbances, fairness | one row per container unless its namespace is asked for twice; rows about pods need those of the nodes; a quiet tick is complete; a pod that stays is sampled again and again |
| `scenarios` | every pair of recipes, 2 words per loop, up to 2 triggers, 1 failure, 1 call in another terminal | no patch is lost; measurements are made with what they are named after; which ones are made; what is left behind |
| `scenarios_amount` | `eventing-scenario-2` among all recipes, 1 run, nothing fails and nobody else is at work | *finding*: it measures with fewer triggers than it has announced |

Bounds. Two targets make a round of two requests, so that a round can be cut in
two by a cancellation; five requests are two rounds and one of a ramp-up. A round
starts only if the bound leaves room for the round that will notice the end of the
duration, so the bound never stops the loop in the middle of one. A duration may elapse at any time or
never, so runs without one are among those with one; with a second caller of `Stop` low rates
are left out, whose loop is the one after a ramp-up. No configuration of the run has a client
timeout, which only adds that bodies are closed in the end (`generator_live`). Two ramp-up steps are enough for
"first" and "last". In the event logger three requests are one that fails to
flush, one that fails to write and one that waits; three starts are two
overlapping instances and a restart. In the delivery three attempts are one that is
lost, one that meets a restarted logger, and one more; what different events do to
each other goes through the logger's file, where any two of its requests already meet.

Three entries are one before, one at and one after the one that cannot be used; among
them are logs whose goroutines wrote in turn and mixed, and logs cut off at the start;
two runs are one that fails and its repetition. Two instances and four requests
give three concurrent requests on one instance and one elsewhere.

In `top` two disturbances are a change and its consequence (a node that goes while
its pod is deleted), and the tick after; two pods in two namespaces are what a
namespace named and not named needs, two containers a row lost and one kept. The six
combinations of flags are the justfile's, one namespace named twice and without nodes, one
named with `--all-namespaces` left on, one both named and ignored, one ignored, and nodes only; a
flag only selects what is visited, and the proofs hold for every combination. In
`scenarios` two words are the first and the last of a loop, two runs a recipe and what
it leaves to the next; one call in the other terminal is enough to come between a
`Get` and an `Update`. The numbers in the justfile are longer lists of the same; of
the safety properties the theorems cover any length.

The bound on requests also bounds how often `select` may prefer the ticker to
a done context in the loops without a limiter: Go chooses at random, so it does
not do so for ever, which is what `CancelEndsProgram` relies on.

Fairness. Weak fairness on the loop, on each request goroutine and on the clock:
the Go scheduler runs what can run, timers go off. A request's network step is
fair only with a client timeout; without one nothing makes a server answer. In
the event logger, handlers are fair; `sync.Mutex` is not unfair to a waiter for
ever (its starvation mode). In the delivery the broker and the handlers are
fair; crashes, restarts and the disk are not constrained. In `Top` the ticker ticks,
the API server answers sooner or later (its calls have no deadline and the collector
makes one at a time), and the metrics server scrapes; changes of the cluster and
failures are bounded, so that "again and again" is asked of a cluster that has come
to rest.

## Findings

* `generator_untimed`: `README.md:158` of the repository promises a default
  timeout of 30 seconds. `config.Load` sets none, and `NewPool` passes 0 on,
  which waits for ever.
* `delivery_refused`: `cmd/reciever/main.go:61` returns the nil error of a POST
  that was answered with a status other than 200, so an event it reports as
  "Failed to log event" is acknowledged.

* `log_parser_config`: `processFile` takes the second line for the
  configuration (`cmd/logparser/main.go:300`). Started with `--rps`, as by four of
  the justfile's scenarios, the generator writes "Overriding RPS" there, and the
  experiment is stored without its configuration.
  In every other file the expression `Timeout:` first matches the end of
  `IdleConnTimeout:` (line 70), so the column `timeout` is a copy of
  `idle_conn_timeout`. The property fails for each of the two reasons.
* `scenarios_amount`: `eventing-scenario-2` announces "Running eventing scenario 2 with
  ${amount} triggers" (`infrastructure/justfile:451`). It deletes the triggers of one amount
  (line 459) and at once creates those of the next (line 452) under the same names. Deleted
  objects go when their finalizers are done, and nothing waits for that; a create that is
  refused because the old one is still there is printed
  (`cmd/deployer/main.go:124-127`) and the call goes on. The old trigger then disappears,
  and the measurement, named after the amount, is made with fewer.

Not a run, but worth a fix: the tests `get` and `post` of the Rust function
(`handler.rs:43`, `:54`) share its flag and run in two threads; they pass only if
`get` comes first.

## Proofs

`GeneratorProofs` (any number of targets, ramp-up steps, requests, any set of
configurations). The inductive invariant `IInv` is the type invariant with:
the WaitGroup counts the live goroutines; where main can be in which loop
(`ControlInv`); which requests exist and what a request has logged when it has
ended (`RequestInv`); nothing runs once main is past its Wait (`DrainedInv`);
how many rounds a cancellation or the end of the duration lets through
(`CancelInv`, `OvershootInv`); and that a WaitGroup that has come to zero under a waiting
`Stop` counts no request older than the cancellation any more (`OlderInv`), since it counts
at most the `afterCancel` youngest. `CancelInv` and `OvershootInv` are needed because the bound "at most
one round" holds by where main is: a round that is being launched counts with
what it has still to launch. From it follow the type invariant, six safety
properties and the refinement of `LoadRun`, where the count of answered requests
equals the count of launched ones exactly because the WaitGroup is zero.
`CountIsLowerBound` has an invariant of its own, `StoredInv`: not only `requestCount` but
also every copy of it that a goroutine has read and not yet written back is at most the
number of requests that have counted, so writing an old copy cannot push it above.

`EventLoggerProofs` (any number of instances, requests, starts, failures). The
inductive invariant says who may hold the mutex (`MutexInv`), that an instance
whose disk has not failed it buffers the header, the row of the request about to
flush, or both in that order (`BufferInv`), and that a row in the file belongs to
a request past its Flush (`FileInv`). `BufferInv` is what makes the file begin
with the header after any crash: a row is never buffered without the header
while the file is empty. Lemmas about appending to a possibly cut-off file carry
it over the Flush. Two bounds need what is still to come: `HeadersInv` counts the headers
in the file together with the instances that have one in their buffer, since each of them
may write it; `LossInv` counts the rows owed to clients together with a cut-off last line,
which will cost one row more. That the rows owed are finitely many is part of `LossInv`:
only requests that have been answered are, so there may be any number of requests.

`DeliveryProofs` (any number of events, attempts, instances, crashes and lost
connections). Every step of `Delivery` is a step of `EventLogger` or leaves it
alone, so `EventLogger`'s invariant carries over and `Delivery` implements
`EventLogger`. `BrokerInv` says that an acknowledgement needs an answer of the
logger, `KeptInv` that while no Flush has failed no line is cut off and an answered
row stays in the file. The second needs `BufferInv`: a Flush writes the row of its
own request, whatever else is in the buffer. Together they give `AckedIsLogged`.
For `DuplicatesExplained`, `AttemptInv` says that at most one attempt of an event is
under way or acknowledged, and that the logger has seen no attempt that was not posted:
every other attempt with a row is then one the broker took for failed.

`LogParserProofs` (any directory, any number of runs). The invariant says what the
locals of the loop stand for (`Locals`), that what the current run has stored is
behind the loop (`Forward`, which makes a second experiment for a file
impossible), what a run without failures has done so far (`Progress`) and that
the counters are what it has stored (`Counted`). `RequestsCountOnce` is about the logs of
runs (`RunLines`): the goroutine that wrote a line maps the lines the parser takes for
requests one to one into the requests that were sent (`ReportsAreRequests`). It covers
every order in which goroutines can write and every place where a log can end. The other
theorems hold for files with any lines.

`TopProofs` (any nodes, pods, containers, flags, number of disturbances). `NodesFirst`
says that until the nodes are stored there is nothing about pods and that a node that is
due is still in the list or has its row, which gives `PodsNeedNodes`. For `RowOnce` the invariant `RowsInv` says that a row belongs to
a visit that is over or under way (`VisitInv`) and that within a visit a sample is
left in the list or has its rows (`RowPerVisit`): a second row needs a second visit.
For `QuietTickIsComplete`, `QuietInv` says of a tick in which nothing happened what is
stored and what is still to be stored, at every call (`QuietNodes`, `QuietPods`);
together they are always everything that is wanted.

`DeployerProofs` (any shells, objects, values and calls). `PatchesHold` follows from
`FreshCopy`: a copy that is not stale is what its object is. An `Update` then merges
into the object what it would have merged into the copy.

`ScenariosProofs` (loops of any length without repeated words, any recipes one after
the other, interrupted anywhere, any calls in the other terminal). Every step is one of `Deployer`'s or leaves it alone, so `Scenarios`
implements `Deployer` and inherits `PatchesHold`. For `AllButFirstRateMeasured`
the invariant `LoopInv` relates the words left to the pass and the place the loops are in
(`Sections`, `LoopWords`): in the first pass the array is the recipe's, in every later one its
first place holds the last word, and the words of a pass in which the first was
overwritten are `Word(q, i)`. `Measurements` says that what has been measured is
exactly what the loops have reached. It needs no assumption about failures: a
script does not notice them.

`EventingIsAsLabelled`, `ServingIsAsLabelled` and `LeftBehindIsAll` rest on
`LabelInv`, which says of every place in every recipe what the cluster is like there.
`PlanInv` knows the command that is due: what is left of a section is a tail of its
commands (`Plan`), the deployer's call is the one the last command has made, and a call of
anybody else has marked its kinds of objects as `troubled`. On it stand one invariant per
kind of object, each saying nothing once there has been trouble with it:
`AutoscalerAsGiven` and `ServicesAsGiven` name the stretch of a recipe in which a setting
is changed; `TriggersAsGiven` says that the triggers there are those `Wanted` between a
deployment and its deletion (`Deployed`) except those that the call under way has still
to create, and none otherwise except those it has still to delete (`Pending`);
`TerminatingAsGiven` that a trigger being deleted is inherited or one of those the recipe
has deleted so far (`Own`). As the amounts ascend, every one of these is wanted again, and
when a measurement is made a trigger that is wanted is live: what is still being deleted
then is inherited.
`LeftBehind` and the labels need each other: a recipe starts from what the one before it
has left, so what a measurement is made with depends on how all recipes before it ended.

`ColdFlagProofs` (any number of instances and requests). `FlagInv` relates the
flag to the answers given: an instance that has answered is warm, and a warm one
has told somebody that it was cold. `ExclusiveInv` is what the lock adds.

Assumptions: the named `ASSUME`s of the modules only: there is a target; the
instances of the logger, pods of one Deployment, are finitely many; the
marks of the file (`Header`, `Torn`, `Garbled`, `None`) are distinct from the
requests; each attempt delivers one event; the words of a loop are not repeated, the
numbers of triggers ascend, as in the justfile, a number
of workers is a value and not the model's mark for a flag that is not given, and
the objects that the recipes name are among `Keys`.

Proved and not run: the type invariants of `EventLogger`, `Delivery`, `ColdFlag`,
`Deployer` and `Scenarios`; `MutualExclusion` of the logger's handlers;
`LeaksOnlyNot200`; `FirstIsCold`. TLC was used to find them and
adds nothing to a theorem for every value of the constants.

Only model-checked: the liveness properties, which are out of the prover's reach:
`ProgramEnds`, `CancelEndsProgram` and `LeakReclaimed` of the generator, `EventSettled`
and `AnsweredUnlessFailed` of the delivery, `SettledPodsSampled` of the collector. Every
safety property a passing run checks is also a theorem.

## Plan

1. `LogParser` on the files two generators share within a second: `RunLines` for the
   lines of two runs, and what `RowPerRequest` becomes for them.
2. Abstract specifications of the log parser and of the collector, and their refinement.

Not modelled, and not planned: headers, TLS and DNS times of the pool; YAML; the
manifests, Dockerfiles and terraform (declarative); the contents of experiments; the
recipes of the justfile that install the cluster, apply manifests or copy files
(sequences of commands without state of their own); which pod `.items[0]` is. What
the echo and event functions do has no state.
