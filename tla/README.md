# Treadmill: TLA+ specifications and proofs

This directory models Treadmill, a load generator: one scheduler thread decides
*when* a request is sent, worker threads send the requests over their
connections and measure them, a runner starts and ends the whole, and a Thrift
service lets a controller pause, resume and configure a run. The modules are
translated from the C++ sources; `PROJECT.json` maps each definition to the lines
it stands for.

## 1. Inventory

| component | state | operations | interacts with |
|---|---|---|---|
| **Scheduler** (`Scheduler.h/.cpp`) | `state_` (RUNNING, PAUSED, STOPPING; atomic), `rps_`, `max_outstanding_requests_` (plain), `next_`, one notification queue per worker, `promise_` | `run`, `loop`, `pause`, `resume`, `setPhase`, `setMaxOutstandingRequests`, `setRps`, `stop`, `join` | puts events on the workers' queues; called by the fb303 handlers, the runner, and a worker without work |
| **Worker** (`Worker.h`) | `running_`, `outstanding_requests_` (atomic), limit, next connection, buffered exceptions, throughput count, the workload's position and phase | `run`, `messageAvailable`, `sendRequest`, the completion callback, `hasMoreWork`, `stop`, `join` | consumes its queue; hands requests to connections; reports to the statistics; calls `terminate_early_fn` |
| **TreadmillRunner** (`Treadmill.h`) | seconds left to drain, the workers, the scheduler | `run`: read the configuration, start the server, make the workers and start them, wait, stop, join, drain, print, stop and join the workers, save the configuration | owns all the others |
| **TreadmillFB303** (`TreadmillFB303.h/.cpp`, `if/treadmill.thrift`) | `configuration_` under a reader-writer lock; `watchdogDurationSec_`, `lastHeartbeat_` without one | `pause`, `resume`, `resume2`, `setRps`, `setMaxOutstanding`, `getRate`, `get/set/clearConfiguration`, `watchdogUpdate`, `watchdogTimeoutCheck`, `make_fb303` | calls the scheduler from server threads |
| **Memcached service** (`services/memcached/`) | WARMUP or GET, next key; requests in flight per connection | `reset`, `getNextRequest`, `sendRequest` | drawn from and sent by a worker |
| **Statistics** (`StatisticsManager`, `CounterStatistic`) | maps of histograms and counters under locks; a counter's plain total and atomic counts per subkey | `getContinuousStat`, `getCounterStat`, `addValue`, `increase`, `print` | looked up and written by all workers, printed by the runner |
| **Connection template, Util** (`Connection.h`, `Util.cpp`) | the attempts of a lookup | `isReady`, `nsLookUp`, `nowNs`, reading and writing the configuration | used while a run starts and ends |
| Sleep service, RandomEngine, scripts | none | sleeping, random numbers | not modelled, see section 7 |

What is hard here: the scheduler is driven by atomics and spin loops rather
than locks, so each decision is made on a state another thread may change before
it is acted on; control messages are put queue by queue while requests are
generated; a run can be ended by the timer, by a worker, or by nobody; requests
may fail, be answered late, or never; handlers of the control service overlap.
`PROJECT.json` lists these hazards with the line at which each one bites and the
properties that cover it.

What makes each component correct:

* Scheduler: requests are spread evenly; every worker gets the same resets and
  exactly one STOP, after which it gets no more requests; pause, stop and
  setRps take effect after a bounded number of requests; stop ends it at every
  positive rate; requests are neither early nor do timing errors build up.
* Worker: slots in use equal requests in flight; nothing is sent above the limit
  in force; every
  completion is counted once; nothing behind STOP is handled; stop ends it.
* Runner: `join`'s CHECK cannot fail; a worker without work brings the whole run
  down; the drain loop is right although it is not atomic; a limit set during the run
  reaches the workers; the run completes. No worker runs half connected.
* Statistics: all workers add to the objects that are printed; a total loses
  only additions that overlap; what is printed fits together.
* Control service: resume acts on a configuration that is still there; the
  watchdog fires only after real silence.
* Memcached: the measured phase finds its keys; the warm-up ends.

## 2. Modules

| module | models | used by |
|---|---|---|
| `TreadmillEvent` | `Event.h` | all modules with queues |
| `RequestStream` | what the scheduler promises its workers (abstract) | `Scheduler` (refinement) |
| `Scheduler` | `Scheduler.cpp`: state, broadcasts, loop | `MCScheduler`, `Treadmill` |
| `Pacing` | `Scheduler.cpp`: the sleep budget of the loop | `MCPacing` |
| `Worker` | `Worker.h` | `MCWorker`, `Treadmill` |
| `Startup` | `Treadmill.h`, `Worker.h`, `TreadmillFB303.cpp`, `Util.cpp`: the start of a run | `MCStartup` |
| `Treadmill` | `Treadmill.h`: the rest of a run; composes `Scheduler` and `Worker` | `MCTreadmill` |
| `Statistics` | `StatisticsManager.cpp`, `CounterStatistic.h/.cpp` | `MCStatistics` |
| `TreadmillFB303` | `TreadmillFB303.cpp` | `MCTreadmillFB303` |
| `MemcachedWorkload` | `services/memcached/` | `MCMemcachedWorkload` |
| `SchedulerProofs`, `WorkerProofs`, `PacingProofs`, `StatisticsProofs`, `StartupProofs`, `TreadmillFB303Proofs`, `MemcachedWorkloadProofs` | theorems about one component each | `TreadmillProofs` uses the first two |
| `TreadmillProofs` | theorems about the composition | |

**TreadmillEvent** has the messages of `Event.h`. A phase is a model value and a
limit a small integer.

**Scheduler.** A step is one access to shared state. `pc` holds the position of
the loop thread and of each caller; `frame` the index and event of a thread
inside `messageAllWorkers`, so that a broadcast is interleaved with everything
else. `loop` is split as the C++ loop is: `loopReset`, `loopStart`, `loopRunning`
(the read of `state_`), `loopSend` (wait, draw the next interval, put, advance
`next_`), `loopRate`, `loopPaused`, `loopWhile`, `loopStop`, `loopExit`. `pause`
and `resume` are compare-and-swaps, `stop` a store. A failed CHECK sets
`aborted`, after which nothing happens. `setMaxOutstandingRequests` stores a
member that is not atomic and then builds the event from it: the compiler may
use the value it stored or read it again, and the model allows both. The queues
are kept as the sequence of *all* messages ever put, and consumers keep a
position, so the properties can speak about the stream. `late`, `stale`,
`resumed` and `alone` are history variables and no action reads them to decide
anything; `alone` says that the last `setMaxOutstandingRequests` call overlapped no
other. `endlessWait` is the one place where time matters here: an interval drawn
from a rate of 0 is infinite, and what becomes of it may be a wait of centuries.

**RequestStream** says what the workers see, in terms of the queues alone: a
sequence of runs, each begun by a RESET to every worker in turn and followed by
requests dealt in turn, and one STOP to every worker in turn at the end; control
messages anywhere. It has no thread, no `state_` and no `next_`. `Scheduler`
implements it (`ImplementsStream`) with `queues <- queues_`.

**Pacing** has the timing that `Scheduler` leaves out, and leaves out the queues.
The clock may advance between any two steps, so waits overshoot and sending
takes time. A `double` is a whole number of half nanoseconds, so that its
conversion to `int64_t` rounds; a conversion that is out of range or comes from
`1.0 / 0` is undefined and gives either end of the range. The width of `int64_t`
is a constant. The random factor of an interval is any member of a set. `origin`,
`due`, `pending`, `sent` and `sane` are history variables: `sane` says that the rates
used in this run were positive.

**Worker.** One record per worker. A worker's thread handles messages and
completions one at a time; `stop()` and `hasMoreWork()` come from the main
thread at any moment, so `sendRequest` is split into `check`, `exhausted` /
`issue`, `terminateEarly` and `flush`. A connection may complete the request it
has just been given inside `sendRequest`. `InFlight` turns the requests in flight
per connection into a set of places, so that their sum is a cardinality, about
which the prover knows something. `dropped`, which only the properties read,
counts the requests met at the limit. The two maps of exceptions are one
count, because a failed request enters both and both are emptied together.

**Treadmill** composes the main thread, one action per statement of
`TreadmillRunner::run` that touches another thread's state, with the scheduler
and the workers. They share `queues_`; `terminate_early_fn` is a joint step of a
worker and the scheduler.

**Startup** is the part of `run` before that, in one thread: the configuration,
the affinity list, the server, the connections with their lookups, and the wait
for the target, worker by worker. The flags are chosen in the initial state.
Lookups fail at any moment, and a failure the code does not survive leads to
"dead". `isReady()` belongs to the service: a connection is ready, is not, or
throws, each time it is asked (`Answers`). The two services of the repository are
always ready, and the sample in the template of `Connection.h`, which compares a
counter of the target, is instantiated by neither.

**Statistics** has one name of each kind, because names do not interact. Adding
to the plain `count_` is a load and a store; a lookup or creation is one critical
section; printing a counter holds the map's lock over several steps, while the
workers, which have their pointers already, go on adding. `stored`, `added`,
`bySubkey` and `values` are history variables: what the workers have added so
far. What `print` shows in
`Treadmill` is the totals; here it is how they come about.

**TreadmillFB303** has several server threads. A handler is split at every
access to shared state; `resume` holds the read lock over two steps, and
writers wait for it (`NoReader`). `watchdogTimeoutCheck` runs on a thread of its
own and is split likewise: the first read of the duration, the clock, then the
duration again and the heartbeat in either order (C++ does not say which operand
of `>` comes first), then the verdict. `changed` records that the duration was stored
while a check was under way. Of the scheduler only `state_` is kept.

**MemcachedWorkload** has the workload of one worker with its connections, each
of which answers in order. The server is external: a set of stored keys.

Operators whose comment begins with "Bug:" are variants of the definition that
follows them, with a mistake one could make in the code. No specification uses
them; they document what the properties detect.

## 3. Runs

| run | configuration | checks |
|---|---|---|
| `scheduler` | started PAUSED, 2 workers, 2 callers with 3 calls between them, 2 limits, rates 0 and 10, up to 4 messages before requests stop | `TypeOK`, `Balanced`, `StopIsLast`, `AtMostOneLate`, `AtMostTwoStale`, `LimitAgreement`, `PromiseMeansStopSent`, the refinement `ImplementsStream`, `StopTerminates` |
| `pacing` | a second of 7 ns, rates 0, 2 and 3, 2 random factors, 6 ns, 3 requests in a run | `TypeOK`, `BudgetExact`, `NeverEarly`, `WaitBounded` |
| `worker` | 1 worker, 2 connections, any stream of 5 messages, limits 0, 1 and 2, failures, exhaustion | `TypeOK`, `SlotsExact`, `NothingAfterStop`, `CountedOnce`, `DrawsInStep`, `SendsBelowLimit`, `WorkerExits` |
| `startup` | 2 workers with 2 connections, every combination of the flags in `MCFlags`, every answer of `isReady()`, an exception included | `TypeOK`, `StartedWhole`, `GivesUpOnlyAfterThree` |
| `treadmill` | started RUNNING, 2 workers that may run out of work, a caller with 1 call, rates 0 and 10, limit 3, delay of 2 seconds | `TypeOK`, `NoOrphanedWorker`, `DrainedAtPrint`, `LimitInForce`, `StaysStopping`, `RunCompletes` |
| `statistics` | 2 workers with 2 additions each, 2 subkeys | `TypeOK`, `NothingAside`, `LostOnlyByOverlap`, `PrintExplained` |
| `fb303` | 2 threads with 3 calls between them, a check whose reads are spread out, 2 seconds | `TypeOK`, `ResumeIsConfigured`, `TimeoutMeansSilence` |
| `memcached` | 3 keys, 2 connections, 3 requests in flight, 2 resets | `TypeOK`, `MissExplained`, `WarmupEnds` |

Every one of these passes. Four more runs check what a comment or a flag's text
says, and TLC finds the behaviour of the code that contradicts it:

| run | the text | the code |
|---|---|---|
| `scheduler_reset` | `Workload.h:40`: reset is used to re-synchronize after pausing | a pause and resume within one iteration of the loop are not noticed, no RESET is sent |
| `treadmill_stats` | `Treadmill.h:204`: "We already stored stats"; `Worker.h:241` | latencies of requests answered in the shutdown delay are dropped, because STOP has cleared `running_` |
| `fb303_watchdog` | `TreadmillFB303.cpp:215`: "no contact since" | arming the timer stores no heartbeat, and the next check may abort |
| `fb303_resume2` | `treadmill.thrift:44`: a renaming of resume | it aborts when not PAUSED and ignores the required configuration |

Three more disagreements need no model to see. The text of
`--max_outstanding_requests` (`Treadmill.cpp:69`) and the comment at `Treadmill.h:66`
say "per worker", but the constructor divides the flag among the workers
(`Treadmill.h:108`), and with more workers than its value each gets 0 and sends
nothing. A `setMaxOutstanding` call, on the other hand, gives every worker the whole
limit (`LimitInForce`), so repeating the flag's value in a call multiplies the load.
And the text of `--counter_threshold` (`Treadmill.cpp:40`) says ">", while the sample
`isReady` accepts equality (`Connection.h:46`); no service of the repository uses
that sample, so it is not modelled.

The cfg files give constants values and replace nothing.

**Bounds.** `MaxCalls` (calls of all callers together), `MaxQueue` (`loopRunning` starts no
request for a queue that long; control messages are not limited by it),
`MaxTime`, `MaxSent`, `MaxAdds`, `MaxResets`. Two workers are the least that make round robin, broadcasts
and partial shutdown interesting. Three calls contain pause, resume and a third
call, so a second run with its RESET happens, and two overlapping changes of the
limit with a third one after them; a queue of four messages contains
RESET, requests and a second RESET. Two server threads are enough for every
race of two handlers, two seconds for a timer of one second to expire and for a
heartbeat to be stored late. Six nanoseconds hold a run of
three requests at the higher rate, or a run, a pause and another run; intervals
of seven thirds and seven halves nanoseconds are cut, so rounding happens. The
composed run starts RUNNING and has one control call at any moment, a pause, a
limit or a rate of 0 among them, and two messages to a queue before requests stop;
the interplay of several calls with the loop is in the scheduler's run. Where no property needs more than one failure,
phase or outcome of the throughput timer (`Samples`), the sets have one element. No symmetry is used: workers are numbered in
the code, and liveness is checked.

**Deadlock** is checked for `Treadmill` (whose end is an explicit stutter) and for
`MemcachedWorkload`. The scheduler, the workers alone, the statistics, the
start and the control service may come to rest when the bounded environment has nothing more to ask.

**LimitAgreement** speaks of the time from the end of a `setMaxOutstandingRequests`
call that overlapped no other until the next one begins. Calls of two server
threads that overlap put their messages on the queues in different orders and may
read each other's store, so they can leave the workers with different limits, and
in the run they do: nothing in the code promises otherwise, so this is listed among
the hazards and not as a finding. What the property says is that the next call
repairs it.

**A rate of 0** is accepted by `setRps` without a check. `Pacing` has what follows:
the interval is infinite, its conversion undefined, and the wait may be endless. The
loop does not look at `state_` while it waits, so `stop()` has no effect and
`scheduler->join()` hangs. `StopTerminates` and `RunCompletes` therefore have the
alternative `<>[]endlessWait`. Without it both fail in the runs, at the rate 0, and
with it they say that nothing else keeps the loop, or the run, from ending.

**TimeoutMeansSilence** holds for checks during which no handler stored the duration.
A `pause()` between the two reads of it (`TreadmillFB303.cpp:212` and `214`) makes the
second one 0, and the check aborts the process right after a contact; this is one of
the ways `NoFalseTimeout` fails.

## 4. Fairness

Weak fairness is given to threads that the operating system schedules: the
scheduler's thread, the workers' threads, the main thread and a caller *inside*
a call; and, in `Treadmill`, to the timer `futures::sleep(FLAGS_runtime)`. Nobody
has to call a control method and the target never has to answer a worker.
`loopPaused` spins with a wait, so weak fairness is enough for it: once `state_`
is STOPPING it stays so. The scheduler's thread is not fair while it is in an
`endlessWait`: waits end only when they were drawn from a positive rate. `MemcachedWorkload` assumes that requests keep coming
and are answered, which is the scheduler's and the server's part, and that
resets stop coming; only `WarmupEnds` uses it. `Pacing`, `Statistics`, `Startup` and
`TreadmillFB303` have no fairness, since only safety is stated of them: whether a
target becomes ready is not in the program's hands.

## 5. Proofs

Every invariant, action property and refinement that a passing run checks is
also a theorem, for every value of the constants that meets the assumptions of
its module (TLC evaluates those on the runs). The runs show that the statements
are not empty and that a plausible mistake breaks them; the theorems that the
small numbers of workers, keys or threads in the runs hide nothing.

| theorem | property | argument |
|---|---|---|
| `SchedulerProofs` | | |
| `TypeSafe` | `TypeOK` | with `FrameOK`: a thread inside a broadcast has an event of its own kind in its frame. Without it the type of the extra data of SET_MAX_OUTSTANDING is lost. |
| `PauseEffective` | `AtMostOneLate` | `LateInv`: one late request only after the loop has passed its read of `state_` and left "send"; at "send" with `state_` not RUNNING none has been sent since. |
| `SetRpsEffective` | `AtMostTwoStale` | `StaleInv` bounds `stale` by the loop's position and by whether `paced` and the local `rps` are already the current rate: each stale request makes one of them current. |
| `StopEndsStream` | `StopIsLast` | `StopInv`: no queue has a STOP before the loop is at "stop"; during the broadcast exactly the queues below the index have one. |
| `PromiseAfterStop` | `PromiseMeansStopSent` | `StopInv` at "exit" and "done". |
| `RoundRobin` | `Balanced` | `BalanceInv`: after the RESETs, queues below `next_` have one request more than the others, and during the broadcast the queues already reset have none. |
| `StreamImplemented` | `ImplementsStream` | `RunsInv` adds the number of RESETs: equal on all queues, or one more on those a broadcast has passed. With `BalanceInv` and `StopInv` each step of the loop is the abstract step of the same name, a step of a caller is `Control` or a stutter. |
| `LimitsAgree` | `LimitAgreement` | for any number of callers. `LimitInv`: while the last call is alone it is the only one inside, the member and its event have its limit, and during its broadcast the queues below the index have that limit last. Nothing is said of the other queues, so it does not matter what overlapping calls left there. |
| `WorkerProofs` | | |
| `TypeSafe`, `SlotsAreExact` | `TypeOK`, `SlotsExact` | proved together: that `outstanding_requests_` is not decreased below zero follows from its being the number of requests in flight. |
| `LimitRespected` | `SendsBelowLimit` | `LimitInv`: the member is the last limit among the messages consumed (`LastGiven`), and at "issue" the worker is below it, since only its own thread adds. |
| `StopIsFinal` | `NothingAfterStop` | `StopInv`: a worker that consumes has met no STOP. |
| `RepliesCounted` | `CountedOnce` | `CountInv`: the pending and the reported numbers add up after each flush and reply. |
| `WorkloadInStep` | `DrawsInStep` | `DrawInv`: a request being handled is neither drawn nor dropped yet; the rest add up. |
| `TreadmillProofs` | | |
| `TypeSafe` | `TypeOK` | `PartsInv`, `MainInv`: see below. |
| `JoinFindsStopping` | `StaysStopping` | STOPPING is final: pause and resume compare before they swap. |
| `NobodyOrphaned` | `NoOrphanedWorker` | a STOP on a queue means STOPPING (`StopInv`, `StoppingInv` of the scheduler); the runner stops workers only after it has stopped the scheduler (`StaysStopping`); a worker leaves "early" only by stopping the scheduler. |
| `DrainIsSound` | `DrainedAtPrint` | `DrainInv` says it of the workers a pass has left behind. It needs `RunningInv`: until the runner stops the workers, one at "issue" is running, so a worker that is seen idle issues nothing. |
| `LimitArrives` | `LimitInForce` | the scheduler's `LimitInv` says what the last limit on each queue is, the worker's that a worker holds the last one it has consumed (`LimitReaches`). |
| `PacingProofs` | | |
| `TypeSafe`, `BudgetIsExact`, `RequestsNotEarly`, `WaitIsBounded` | `TypeOK`, `BudgetExact`, `NeverEarly`, `WaitBounded` | `PacingInv`, with `ExactInv`: at each position of a run the budget is the sum of the intervals less the time used, up to half a nanosecond per request. |
| `StatisticsProofs` | | |
| `TypeSafe` | `TypeOK` | |
| `NothingIsAside` | `NothingAside` | `PtrInv`, `ObjInv`: every pointer is the map's entry, so there is one object of each kind. |
| `LossNeedsOverlap` | `LostOnlyByOverlap` | `LostInv`: without overlap the value a worker loaded is still the total. |
| `PrintIsExplained` | `PrintExplained` | `SumInv`: what was added to the subkeys is their sum; `PrintInv`: there is a snapshot, the subkeys at the moment the total was read, and each subkey printed since is at least that. |
| `StartupProofs` | | |
| `TypeSafe`, `StartsWhole` | `TypeOK`, `StartedWhole` | `EarlyInv`, `ConstructInv`, `LateInv`: the connections made, polled and running are those before the one the main thread is at. |
| `GivesUpLate` | `GivesUpOnlyAfterThree` | `ConstructInv`: the attempts counted are the failures of the connection being made. |
| `TreadmillFB303Proofs` | | |
| `TypeSafe` | `TypeOK` | |
| `ResumeConfigured` | `ResumeIsConfigured` | `ReaderInv`: a thread at "resume" holds the read lock, and writers wait, so the configuration it has seen is there. |
| `TimeoutSound` | `TimeoutMeansSilence` | `CheckInv`: unless the duration was stored during the check, its second read is positive as the first one was, and the heartbeat it read is no older than `burst`. `BurstInv`: every heartbeat still to be stored, and the stored one when none is pending, is of the last burst of overlapping calls. |
| `MemcachedWorkloadProofs` | | |
| `TypeSafe` | `TypeOK` | |
| `MissIsExplained` | `MissExplained` | `WarmInv`: a key passed in the warm-up is stored, lost or in flight, and in GET every key has been passed; `OrderInv`: on one connection SETs come before GETs. |

**Composition.** `TreadmillProofs` takes the theorems of `SchedulerProofs` and
`WorkerProofs` through INSTANCE. `StepParts` shows that every step of the composed
program is a step of the scheduler, or an abort, and a step of one worker or of
none; so `PartsInv`, the conjunction of the components' inductive invariants, is
inductive here too. The workers alone receive arbitrary messages and may be
stopped at any moment, so nothing they need is owed by the scheduler. Two copies
of the same definitions (`Sch` and `SP`, `W` and `WP`) are related by
`SameScheduler` and `SameWorker`.

**Assumptions.** They restrict constants to what the program takes, with these
to note. `Pacing`: an `int64_t` holds every interval that can be drawn and the time
of a run. `Statistics`: the subkeys are a finite, non-empty set, and neither a worker nor
the content of a frame is the null pointer. `Scheduler`: "loop" is not a
caller's name. `Treadmill`: what its components assume.

The bounds (`MaxCalls`, `MaxQueue`, `MaxTime` and so on) are constants too, and the
theorems hold for all their values, so the bounds of the runs lose no safety.

**Only model-checked**: liveness, that is `StopTerminates`, `WorkerExits`,
`RunCompletes` and `WarmupEnds`. The prover has no rules for
fairness and ENABLED. The four runs that end in a violation have no theorem. None
of the modules declares a RECURSIVE operator.

## 6. Plan

Done: the modules and runs above, and a theorem for every safety property of the
passing runs. Left:

1. The components' own properties as theorems of the composition: `SlotsExact`,
   `CountedOnce`, `NothingAfterStop`, `StopIsLast` and the refinement of
   `RequestStream` follow from `PartsInv` (the last with the scheduler's
   `StreamInv` added to it).
2. Safety parts of the liveness arguments: while the scheduler is STOPPING, each
   step of the loop moves it towards "done" (a decreasing rank); the same for the
   drain loop and for the warm-up.

## 7. Not modelled

* The sleep service has no state of its own: an arbitrary completion in `Worker`
  covers it.
* `RandomEngine` only draws from the standard library's engines. (The shared one is seeded
  when the program is loaded, before the flags are parsed, so the flag for the
  seed has no effect on it.)
* `readLine`, `readBlock`, `writeBlock` and `time_s` of `Util`, the status and the
  in-process getters of `TreadmillFB303`, and `StatisticsManager::toJson` have no
  callers in the repository.
* What callbacks do while workers are destroyed depends on the client libraries.
* Quantile estimates are floating-point arithmetic outside TLC's reach; the
  number of values is kept.
* Log lines, thread names, setting the CPU affinity, the set-up of the Thrift
  server and of the flag library.
