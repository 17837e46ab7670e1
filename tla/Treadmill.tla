------------------------------ MODULE Treadmill ------------------------------
(***************************************************************************)
(* TreadmillRunner::run (Treadmill.h): the main thread starts the workers  *)
(* and the scheduler, waits until the scheduler's promise is fulfilled or  *)
(* the runtime is over, stops and joins the scheduler, gives the workers a *)
(* number of seconds to finish their requests, prints the statistics and   *)
(* stops and joins the workers.                                            *)
(*                                                                         *)
(* The module composes the main thread with the scheduler (Scheduler) and  *)
(* the workers (Worker).  They share the notification queues queues_, and  *)
(* a worker without work stops the scheduler through terminate_early_fn.   *)
(* The control threads that call the scheduler's public methods are those  *)
(* of Scheduler; they may start to call before the scheduler runs, because *)
(* the fb303 server is started first.                                      *)
(*                                                                         *)
(* What run() does before the workers run is in Startup.  Left out: log    *)
(* lines.  A CHECK that fails sets aborted, and nothing happens after it.  *)
(***************************************************************************)
EXTENDS TreadmillEvent, Integers, Sequences, FiniteSets

CONSTANTS
  NumWorkers, Callers, Rates, InitRps, InitMaxOutstanding, WaitForRunnerReady,
  NumConnections, FiniteWorkload, Failures, Samples,
  ShutdownDelay,   \* FLAGS_worker_shutdown_delay
  MaxCalls, MaxQueue

ASSUME TreadmillAssumption ==
  /\ NumWorkers \in Nat \ {0}
  /\ "loop" \notin Callers
  /\ InitRps \in Rates
  /\ InitMaxOutstanding \in Limits
  /\ Limits \subseteq Int
  /\ WaitForRunnerReady \in BOOLEAN
  /\ NumConnections \in Nat \ {0}
  /\ FiniteWorkload \in BOOLEAN
  /\ {Failures, Samples} \subseteq SUBSET BOOLEAN
  /\ ShutdownDelay \in Nat
  /\ MaxCalls \in Nat
  /\ MaxQueue \in Nat

VARIABLES
  state_, next_, rps_, max_outstanding_requests_, queues_, promise_,
  pc, frame, rps, paced, calls, aborted, late, stale, resumed, alone,   \* Scheduler
  workers,                                                              \* Worker
  main,      \* position of the main thread
  i,         \* the index of the loop over workers it is in
  secondsToWait,
  remaining, \* workers with more work found in this pass of the drain loop
  expired,   \* futures::sleep(FLAGS_runtime) is over
  printed    \* what print() showed: statistics totals, empty before

Sch == INSTANCE Scheduler

\* max_outstanding_requests_per_worker: the flag's value is shared out, rounded
\* down, although the flag and Treadmill.h:66 call it the limit of a worker.
PerWorker == InitMaxOutstanding \div NumWorkers

W == INSTANCE Worker WITH WorkerLimit <- PerWorker

Workers == 0 .. NumWorkers - 1

mainVars == <<main, i, secondsToWait, remaining, expired, printed>>
schedulerVars ==
  <<state_, next_, rps_, max_outstanding_requests_, queues_, promise_,
    pc, frame, rps, paced, calls, aborted, late, stale, resumed, alone>>
vars == <<schedulerVars, workers, mainVars>>

MainPc == {"start", "run", "wait", "stop", "check", "join", "drain", "sleep",
           "print", "stopWorkers", "joinWorkers", "save", "return", "complete"}

Init ==
  /\ Sch!Init
  /\ W!Init
  /\ main = "start"
  /\ i = 0
  /\ secondsToWait = ShutdownDelay
  /\ remaining = 0
  /\ expired = FALSE
  /\ printed = << >>

-----------------------------------------------------------------------------
(* TreadmillRunner::run *)

\* Bug: the loop over the workers runs one past the end.
PastTheEnd(label) ==
  IF i < NumWorkers THEN i' = i + 1 /\ UNCHANGED main
                    ELSE i' = 0 /\ main' = label

\* A step of a loop over the workers: on to the next one, or to label.
NextWorker(label) ==
  IF i + 1 < NumWorkers THEN i' = i + 1 /\ UNCHANGED main
                        ELSE i' = 0 /\ main' = label

\* workers[i]->run()
runWorkers ==
  /\ main = "start"
  /\ W!run(i)
  /\ NextWorker("run")
  /\ UNCHANGED <<schedulerVars, secondsToWait, remaining, expired, printed>>

\* scheduler->run()
runScheduler ==
  /\ main = "run"
  /\ Sch!run
  /\ main' = "wait"
  /\ UNCHANGED <<workers, i, secondsToWait, remaining, expired, printed>>

\* collectAny(futs).wait()
wait ==
  /\ main = "wait"
  /\ promise_ \/ expired
  /\ main' = "stop"
  /\ UNCHANGED <<schedulerVars, workers, i, secondsToWait, remaining, expired, printed>>

\* scheduler->stop()
stopScheduler ==
  /\ main = "stop"
  /\ Sch!stop
  /\ main' = "check"
  /\ UNCHANGED <<workers, i, secondsToWait, remaining, expired, printed>>

\* scheduler->join(): CHECK(state_ == STOPPING) ...
checkStopping ==
  /\ main = "check"
  /\ IF state_ = "STOPPING"
       THEN main' = "join" /\ UNCHANGED aborted
       ELSE aborted' = TRUE /\ UNCHANGED main
  /\ UNCHANGED <<state_, next_, rps_, max_outstanding_requests_, queues_, promise_,
                 pc, frame, rps, paced, calls, late, stale, resumed, alone,
                 workers, i, secondsToWait, remaining, expired, printed>>

\* ... and the thread's join.
joinScheduler ==
  /\ main = "join"
  /\ pc["loop"] = "done"
  /\ main' = IF ShutdownDelay > 0 THEN "drain" ELSE "print"
  /\ UNCHANGED <<schedulerVars, workers, i, secondsToWait, remaining, expired, printed>>

\* Bug: the drain loop counts only the workers that have not seen STOP.
IgnoresOutstanding(w) == workers[w].running_

\* it->hasMoreWork()
busy(w) == W!hasMoreWork(w)

\* One worker of one pass of the drain loop.
drain ==
  /\ main = "drain"
  /\ remaining' = IF busy(i) THEN remaining + 1 ELSE remaining
  /\ NextWorker(IF remaining' > 0 THEN "sleep" ELSE "print")
  /\ UNCHANGED <<schedulerVars, workers, secondsToWait, expired, printed>>

\* Bug: the seconds are not counted down.
WaitsForever == secondsToWait

\* --secondsToWait
countedDown == secondsToWait - 1

\* The end of a pass that found work: sleep(1), one second less, and another
\* pass unless the seconds are used up.
sleepSecond ==
  /\ main = "sleep"
  /\ secondsToWait' = countedDown
  /\ IF secondsToWait' > 0 THEN main' = "drain" /\ remaining' = 0
                           ELSE main' = "print" /\ UNCHANGED remaining
  /\ UNCHANGED <<schedulerVars, workers, i, expired, printed>>

\* StatisticsManager::get()->print(): what the statistics hold now.
print ==
  /\ main = "print"
  /\ printed' = [w \in Workers |-> [latency |-> workers[w].latency,
                                    exceptions |-> workers[w].exceptions]]
  /\ main' = "stopWorkers"
  /\ UNCHANGED <<schedulerVars, workers, i, secondsToWait, remaining, expired>>

\* workers[i]->stop()
stopWorkers ==
  /\ main = "stopWorkers"
  /\ W!stop(i)
  /\ NextWorker("joinWorkers")
  /\ UNCHANGED <<schedulerVars, secondsToWait, remaining, expired, printed>>

\* workers[i]->join()
joinWorkers ==
  /\ main = "joinWorkers"
  /\ workers[i].pc = "exited"
  /\ NextWorker("save")
  /\ UNCHANGED <<schedulerVars, workers, secondsToWait, remaining, expired, printed>>

\* A file that cannot be written ends the process.
writeDynamicToFile ==
  \/ main' = "return" /\ UNCHANGED aborted
  \/ aborted' = TRUE /\ UNCHANGED main

\* --config_out_file: makeConfigOutputs() on the workloads, whose threads have
\* ended.
saveConfig ==
  /\ main = "save"
  /\ writeDynamicToFile
  /\ UNCHANGED <<state_, next_, rps_, max_outstanding_requests_, queues_, promise_,
                 pc, frame, rps, paced, calls, late, stale, resumed, alone,
                 workers, i, secondsToWait, remaining, expired, printed>>

\* run() returns: server_thread stops the server and waits for its handlers.
stopServer ==
  /\ main = "return"
  /\ \A c \in Callers : pc[c] = "idle"
  /\ main' = "complete"
  /\ UNCHANGED <<schedulerVars, workers, i, secondsToWait, remaining, expired, printed>>

mainThread ==
  \/ runWorkers \/ runScheduler \/ wait \/ stopScheduler \/ checkStopping
  \/ joinScheduler \/ drain \/ sleepSecond \/ print \/ stopWorkers \/ joinWorkers
  \/ saveConfig \/ stopServer

-----------------------------------------------------------------------------
(* The other threads *)

\* futures::sleep(FLAGS_runtime) runs out.
expire ==
  /\ main = "wait" /\ ~expired
  /\ expired' = TRUE
  /\ UNCHANGED <<schedulerVars, workers, main, i, secondsToWait, remaining, printed>>

\* The scheduler's thread and the control threads.
schedulerThread == UNCHANGED <<workers, mainVars>> /\ Sch!loop
controlThread(c) == UNCHANGED <<workers, mainVars>> /\ (Sch!Controls(c) \/ Sch!Continues(c))
inControlCall(c) == UNCHANGED <<workers, mainVars>> /\ Sch!Continues(c)

\* Bug: a worker without work does not tell the scheduler.
TellsNobody == UNCHANGED schedulerVars

\* What terminate_early_fn does: scheduler->stop().
stopsScheduler == Sch!stop

\* terminate_early_fn: the worker's thread stores STOPPING.
terminate_early_fn(w) ==
  /\ W!terminateEarly(w)
  /\ stopsScheduler
  /\ UNCHANGED mainVars

workerThread(w) ==
  \/ UNCHANGED <<schedulerVars, mainVars>> /\ W!senderLoop(w)
  \/ terminate_early_fn(w)

reply(w) == UNCHANGED <<schedulerVars, mainVars>> /\ W!target(w)

\* run() has returned: the process ends.
Terminated == (main = "complete" \/ aborted) /\ UNCHANGED vars

Next ==
  \/ /\ ~aborted /\ main # "complete"
     /\ \/ mainThread
        \/ expire
        \/ schedulerThread
        \/ \E c \in Callers : controlThread(c)
        \/ \E w \in Workers : workerThread(w) \/ reply(w)
  \/ Terminated

Alive == ~aborted /\ main # "complete"

\* Every thread is scheduled and the runtime ends; nobody has to call the
\* control methods, the target never has to answer, and a wait for an interval
\* drawn from a rate of 0 need not end.
Fairness ==
  /\ WF_vars(Alive /\ mainThread)
  /\ WF_vars(Alive /\ expire)
  /\ WF_vars(Alive /\ ~Sch!endlessWait /\ schedulerThread)
  /\ \A c \in Callers : WF_vars(Alive /\ inControlCall(c))
  /\ \A w \in Workers : WF_vars(Alive /\ workerThread(w))

Spec == Init /\ [][Next]_vars /\ Fairness

-----------------------------------------------------------------------------
(* Properties *)

TypeOK ==
  /\ Sch!TypeOK
  /\ W!TypeOK
  /\ main \in MainPc
  /\ i \in Workers
  /\ secondsToWait \in 0 .. ShutdownDelay
  /\ remaining \in 0 .. NumWorkers
  /\ expired \in BOOLEAN
  /\ main \in {"stopWorkers", "joinWorkers", "save", "return", "complete"} <=> printed # << >>

\* When the main thread joins the scheduler, no racing pause or resume has
\* moved it out of STOPPING: the CHECK in join() cannot fail (Scheduler.h:64).
StaysStopping ==
  main \notin {"start", "run", "wait", "stop"} => state_ = "STOPPING"

\* No worker stops consuming while the scheduler still generates requests
\* for it: a worker that is down has brought the scheduler down, or is
\* about to.
NoOrphanedWorker ==
  \A w \in Workers :
    (workers[w].pc # "none" /\ ~workers[w].running_)
      => state_ = "STOPPING" \/ workers[w].pc = "early"

\* If the shutdown delay was long enough, no request is in flight when the
\* statistics are printed, although the pass over the workers is not atomic.
DrainedAtPrint ==
  (main = "print" /\ ShutdownDelay > 0 /\ remaining = 0)
    => \A w \in Workers : ~W!hasMoreWork(w)

\* A worker that has consumed its messages holds the limit that
\* getMaxOutstandingRequests() reports, once a setMaxOutstandingRequests call that
\* overlapped no other is over: all of it, where the workers were built with a share
\* of the flag ("Sets the max outstanding requests in the Worker", Event.h:25).
LimitInForce ==
  (alone /\ \A c \in Callers : ~Sch!setsLimit(c)) =>
    \A w \in Workers :
      (/\ workers[w].running_
       /\ workers[w].taken = Len(queues_[w])
       /\ \E k \in DOMAIN queues_[w] : queues_[w][k].type = "SET_MAX_OUTSTANDING")
        => workers[w].max_outstanding_requests_ = max_outstanding_requests_

\* The run ends when its time is over, whatever the control threads do and
\* even if the target never answers: no join waits for ever, except scheduler->join()
\* when setRps(0) has left the scheduler thread in a wait without end.
RunCompletes == <>(main = "complete" \/ aborted) \/ <>[]Sch!endlessWait

\* If all requests were answered before the statistics are printed, they
\* are all in the printed latencies, and the failed ones in the printed
\* exceptions ("We already stored stats, so just drop all remaining scheduled
\* request", Treadmill.h:204).
StatsStored ==
  (printed # << >> /\ remaining = 0)
    => \A w \in Workers : /\ printed[w].latency = workers[w].replies
                          /\ printed[w].exceptions = workers[w].failures

=============================================================================
