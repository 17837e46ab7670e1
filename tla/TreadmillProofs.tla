-------------------------- MODULE TreadmillProofs --------------------------
(***************************************************************************)
(* Theorems about Treadmill, for any number of workers, connections and    *)
(* control threads and any shutdown delay.                                 *)
(*                                                                         *)
(* The scheduler and the workers keep the invariants that SchedulerProofs  *)
(* and WorkerProofs prove of them alone, because every step of the         *)
(* composition is a step of theirs or leaves them as they are.  What is    *)
(* new is about the main thread and about what the parts know of each      *)
(* other.                                                                  *)
(***************************************************************************)
EXTENDS Treadmill, TLAPS

SP == INSTANCE SchedulerProofs
WP == INSTANCE WorkerProofs WITH WorkerLimit <- PerWorker

\* The constants are as the components assume them.
LEMMA Assumptions == SP!SchedulerAssumption /\ WP!WorkerAssumption
  BY TreadmillAssumption DEF SP!SchedulerAssumption, WP!WorkerAssumption, PerWorker

-----------------------------------------------------------------------------
(* Steps of the composition are steps of the components *)

\* The scheduler's actions.
LEMMA SameScheduler ==
  /\ Sch!run => SP!run
  /\ Sch!stop => SP!stop
  /\ Sch!loop => SP!loop
  /\ \A c : (Sch!Controls(c) => SP!Controls(c)) /\ (Sch!Continues(c) => SP!Continues(c))
<1> USE DEF Sch!shared, SP!shared, Sch!loopVars, SP!loopVars, Sch!history, SP!history,
            Sch!Goto, SP!Goto, Sch!Enter, SP!Enter, Sch!Event, SP!Event
<1>1. Sch!run => SP!run
  BY Zenon DEF Sch!run, SP!run
<1>2. \A s : Sch!Become(s) <=> SP!Become(s)
  BY Zenon DEF Sch!Become, SP!Become, Sch!Workers, SP!Workers, Sch!SinceReset, SP!SinceReset
<1>3. Sch!stop => SP!stop
  BY Zenon, <1>2 DEF Sch!stop, SP!stop
<1>4. \A t, l : Sch!messageAllWorkers(t, l) <=> SP!messageAllWorkers(t, l)
  BY Zenon DEF Sch!messageAllWorkers, SP!messageAllWorkers, Sch!moreQueues, SP!moreQueues,
               Sch!NoFrame, SP!NoFrame
<1>5. Sch!loop => SP!loop
  <2>1. /\ Sch!loopReset => SP!loopReset
        /\ Sch!loopStop => SP!loopStop
    BY Zenon, <1>4 DEF Sch!loopReset, SP!loopReset, Sch!loopStop, SP!loopStop,
                Sch!afterStop, SP!afterStop
  <2>2. /\ Sch!loopStart => SP!loopStart
        /\ Sch!loopRunning => SP!loopRunning
        /\ Sch!loopSend => SP!loopSend
        /\ Sch!loopRate => SP!loopRate
    BY Zenon DEF Sch!loopStart, SP!loopStart, Sch!firstQueue, SP!firstQueue, Sch!loopRunning,
                 SP!loopRunning, Sch!keepsSending, SP!keepsSending, Sch!loopSend, SP!loopSend,
                 Sch!advance, SP!advance, Sch!loopRate, SP!loopRate, Sch!refreshedRate,
                 SP!refreshedRate
  <2>3. /\ Sch!loopPaused => SP!loopPaused
        /\ Sch!loopWhile => SP!loopWhile
        /\ Sch!loopExit => SP!loopExit
    BY Zenon DEF Sch!loopPaused, SP!loopPaused, Sch!loopWhile, SP!loopWhile, Sch!loopExit,
                 SP!loopExit
  <2> QED
    BY <2>1, <2>2, <2>3 DEF Sch!loop, SP!loop
<1>6. \A c : Sch!Controls(c) => SP!Controls(c)
  <2>1. \A c : (Sch!pause(c) => SP!pause(c)) /\ (Sch!resume(c) => SP!resume(c))
    BY Zenon, <1>2 DEF Sch!pause, SP!pause, Sch!pauseCas, SP!pauseCas, Sch!resume, SP!resume,
                Sch!resumeCas, SP!resumeCas, Sch!Call, SP!Call
  <2>2. \A c, p : Sch!setPhase(c, p) => SP!setPhase(c, p)
    BY Zenon DEF Sch!setPhase, SP!setPhase, Sch!Call, SP!Call
  <2>3. \A c, l : Sch!setMaxOutstandingRequests(c, l) => SP!setMaxOutstandingRequests(c, l)
    BY Zenon DEF Sch!setMaxOutstandingRequests, SP!setMaxOutstandingRequests, Sch!Call, SP!Call,
                 Sch!storedLimit, SP!storedLimit, Sch!setsLimit, SP!setsLimit
  <2>4. \A c, r : Sch!setRps(c, r) => SP!setRps(c, r)
    BY Zenon DEF Sch!setRps, SP!setRps, Sch!Call, SP!Call
  <2> QED
    BY Zenon, <2>1, <2>2, <2>3, <2>4 DEF Sch!Controls, SP!Controls
<1>7. \A c : Sch!Continues(c) => SP!Continues(c)
  BY Zenon, <1>4 DEF Sch!Continues, SP!Continues, Sch!maxOutstandingEvent, SP!maxOutstandingEvent,
              Sch!callerPuts, SP!callerPuts
<1> QED
  BY <1>1, <1>3, <1>5, <1>6, <1>7

\* The workers' actions.
LEMMA SameWorker ==
  ASSUME NEW w
  PROVE  /\ W!run(w) => WP!run(w)
         /\ W!stop(w) => WP!stop(w)
         /\ W!senderLoop(w) => WP!senderLoop(w)
         /\ W!terminateEarly(w) <=> WP!terminateEarly(w)
         /\ W!target(w) => WP!target(w)
<1> USE DEF W!Becomes, WP!Becomes
<1>1. (W!run(w) => WP!run(w)) /\ (W!stop(w) => WP!stop(w))
  BY Zenon DEF W!run, WP!run, W!stop, WP!stop
<1>2. W!senderLoop(w) => WP!senderLoop(w)
  <2>1. W!messageAvailable(w) => WP!messageAvailable(w)
    BY Zenon DEF W!messageAvailable, WP!messageAvailable, W!Consumes, WP!Consumes, W!message, WP!message,
          W!stopConsuming, WP!stopConsuming, W!reset, WP!reset, W!sendRequest, WP!sendRequest,
          W!setMaxOutstanding, WP!setMaxOutstanding, W!setPhase, WP!setPhase,
          W!EventTypes, WP!EventTypes, W!attached, WP!attached, W!rewound, WP!rewound,
          W!newLimit, WP!newLimit
  <2>2. /\ W!check(w) => WP!check(w)
        /\ W!exhausted(w) => WP!exhausted(w)
        /\ W!exits(w) => WP!exits(w)
    BY Zenon DEF W!check, WP!check, W!maySend, WP!maySend, W!exhausted, WP!exhausted,
                 W!exits, WP!exits, W!mayExit, WP!mayExit
  <2>3. W!issue(w) => WP!issue(w)
    BY Zenon DEF W!issue, WP!issue, W!nextConnection, WP!nextConnection, W!sent, WP!sent
  <2>4. \A sample : W!flush(w, sample) => WP!flush(w, sample)
    BY Zenon DEF W!flush, WP!flush, W!cleared, WP!cleared
  <2> QED
    BY Zenon, <2>1, <2>2, <2>3, <2>4 DEF W!senderLoop, WP!senderLoop
<1>3. W!terminateEarly(w) <=> WP!terminateEarly(w)
  BY Zenon DEF W!terminateEarly, WP!terminateEarly
<1>4. W!target(w) => WP!target(w)
  <2>1. \A conn, failed : W!reply(w, conn, failed) => WP!reply(w, conn, failed)
    BY Zenon DEF W!reply, WP!reply, W!completes, WP!completes, W!answered, WP!answered,
                 W!slotBack, WP!slotBack
  <2> QED
    BY Zenon, <2>1 DEF W!target, WP!target, W!Connections, WP!Connections
<1> QED
  BY <1>1, <1>2, <1>3, <1>4

-----------------------------------------------------------------------------
(* The main thread *)

AfterPrint == {"stopWorkers", "joinWorkers", "save", "return", "complete"}
BeforeDrain == {"start", "run", "wait", "stop", "check", "join"}
InLoop == {"start", "drain", "stopWorkers", "joinWorkers"}

\* The positions and counters of the main thread: the loop index is 0 outside
\* the loops, the seconds are not used up while it drains, and a pass has
\* counted at most the workers it has passed.
MainInv ==
  /\ main \in MainPc
  /\ i \in Workers
  /\ secondsToWait \in 0 .. ShutdownDelay
  /\ remaining \in 0 .. NumWorkers
  /\ expired \in BOOLEAN
  /\ main \in AfterPrint <=> printed # << >>
  /\ main \notin InLoop => i = 0
  /\ main \in BeforeDrain => remaining = 0 /\ secondsToWait = ShutdownDelay
  /\ main \in {"drain", "sleep"} => secondsToWait > 0
  /\ main = "drain" => remaining <= i
  /\ main = "sleep" => remaining > 0

LEMMA InitMain == Init => MainInv
<1> SUFFICES ASSUME Init PROVE MainInv
  OBVIOUS
<1>1. /\ main = "start" /\ i = 0 /\ remaining = 0
      /\ secondsToWait = ShutdownDelay /\ printed = << >>
  BY DEF Init
<1>2. expired \in BOOLEAN
  BY DEF Init
<1>3. i \in Workers /\ secondsToWait \in 0 .. ShutdownDelay /\ remaining \in 0 .. NumWorkers
  BY <1>1, TreadmillAssumption DEF Workers
<1> QED
  BY <1>1, <1>2, <1>3 DEF MainInv, MainPc, AfterPrint, BeforeDrain, InLoop

\* A step of a loop over the workers.
LEMMA LoopStep ==
  ASSUME i \in Workers, NEW label, NextWorker(label)
  PROVE  /\ i' \in Workers
         /\ \/ i' = i + 1 /\ main' = main
            \/ i' = 0 /\ main' = label /\ i = NumWorkers - 1
  BY TreadmillAssumption DEF NextWorker, Workers

\* The other threads leave the main thread's variables alone.
LEMMA OthersLeaveMain ==
  ASSUME schedulerThread \/ (\E c \in Callers : controlThread(c))
           \/ (\E w \in Workers : workerThread(w) \/ reply(w)) \/ Terminated \/ UNCHANGED vars
  PROVE  UNCHANGED mainVars
  BY DEF schedulerThread, controlThread, workerThread, terminate_early_fn, reply, Terminated, vars

LEMMA NextMain == MainInv /\ [Next]_vars => MainInv'
<1> SUFFICES ASSUME MainInv, [Next]_vars PROVE MainInv'
  OBVIOUS
<1> USE TreadmillAssumption DEF MainInv, MainPc, AfterPrint, BeforeDrain, InLoop
<1>0. 0 \in Workers
  BY DEF Workers
<1>1. CASE UNCHANGED mainVars
  BY <1>1 DEF mainVars
<1>2. CASE expire
  BY <1>2 DEF expire
<1>3. CASE mainThread
  <2>1. CASE runWorkers
    BY <2>1, LoopStep DEF runWorkers
  <2>2. CASE runScheduler \/ wait \/ stopScheduler \/ checkStopping \/ joinScheduler
    BY <2>2 DEF runScheduler, wait, stopScheduler, checkStopping, joinScheduler
  <2>3. CASE drain
    <3>1. /\ remaining' \in 0 .. NumWorkers
          /\ remaining' <= i + 1
      BY <2>3 DEF drain, Workers
    <3>2. main = "drain" /\ UNCHANGED <<secondsToWait, expired, printed>>
          /\ NextWorker(IF remaining' > 0 THEN "sleep" ELSE "print")
      BY <2>3 DEF drain
    <3> HIDE DEF MainPc
    <3>3. CASE i' = i + 1 /\ main' = main
      BY <3>1, <3>2, <3>3, LoopStep
    <3>4. CASE i' = 0 /\ main' = IF remaining' > 0 THEN "sleep" ELSE "print"
      BY <1>0, <3>1, <3>2, <3>4 DEF MainPc
    <3> QED
      BY <3>2, <3>3, <3>4, LoopStep
  <2>4. CASE sleepSecond
    BY <2>4 DEF sleepSecond, countedDown
  <2>5. CASE print
    <3>1. printed' # << >>
      <4>1. DOMAIN printed' = Workers
        BY <2>5 DEF print
      <4> QED
        BY <1>0, <4>1
    <3> QED
      BY <2>5, <3>1 DEF print
  <2>6. CASE stopWorkers
    BY <2>6, LoopStep DEF stopWorkers
  <2>7. CASE joinWorkers
    BY <2>7, LoopStep DEF joinWorkers
  <2>8. CASE saveConfig \/ stopServer
    BY <2>8 DEF saveConfig, writeDynamicToFile, stopServer
  <2> QED
    BY <1>3, <2>1, <2>2, <2>3, <2>4, <2>5, <2>6, <2>7, <2>8 DEF mainThread
<1> QED
  BY <1>1, <1>2, <1>3, OthersLeaveMain DEF Next

-----------------------------------------------------------------------------
(* What a step is to the components *)

\* To the scheduler: a step of its own, or a failed CHECK or an unwritable file
\* that ends the process.
SchedulerStep ==
  \/ [SP!Next]_(SP!vars)
  \/ /\ aborted' = TRUE
     /\ UNCHANGED <<state_, next_, rps_, max_outstanding_requests_, queues_, promise_,
                    pc, frame, rps, paced, calls, late, stale, resumed, alone>>

\* To the workers: the runner starts or stops the worker it is at, a worker
\* takes a step of its own, or nothing happens to them.
WorkersStep ==
  \/ /\ main = "start" /\ WP!run(i)
     /\ UNCHANGED queues_
  \/ /\ main = "stopWorkers" /\ WP!stop(i)
     /\ UNCHANGED queues_
  \/ \E w \in Workers : /\ WP!OwnStep(w)
                        /\ WP!terminateEarly(w) => state_' = "STOPPING"
                        /\ UNCHANGED <<queues_, mainVars>>
  \/ UNCHANGED workers

LEMMA StepParts == [Next]_vars => SchedulerStep /\ WorkersStep
<1> SUFFICES ASSUME [Next]_vars PROVE SchedulerStep /\ WorkersStep
  OBVIOUS
<1>0. UNCHANGED schedulerVars => UNCHANGED SP!vars /\ UNCHANGED queues_
  BY Zenon DEF schedulerVars, SP!vars, SP!shared, SP!loopVars, SP!history
<1>1. CASE UNCHANGED <<schedulerVars, workers>>
  BY <1>0, <1>1 DEF SchedulerStep, WorkersStep
<1>2. ASSUME ~aborted, UNCHANGED workers,
             Sch!run \/ Sch!loop \/ Sch!stop \/ \E c \in Callers : Sch!Controls(c) \/ Sch!Continues(c)
      PROVE  SchedulerStep /\ WorkersStep
  BY <1>2, SameScheduler DEF SP!Next, SchedulerStep, WorkersStep
<1>3. CASE runWorkers \/ stopWorkers
  BY <1>0, <1>3, SameWorker DEF runWorkers, stopWorkers, SchedulerStep, WorkersStep
<1>4. CASE checkStopping \/ saveConfig
  <2>1. UNCHANGED workers /\ (aborted' = TRUE \/ UNCHANGED aborted)
        /\ UNCHANGED <<state_, next_, rps_, max_outstanding_requests_, queues_, promise_,
                       pc, frame, rps, paced, calls, late, stale, resumed, alone>>
    BY <1>4 DEF checkStopping, saveConfig, writeDynamicToFile
  <2>2. CASE UNCHANGED aborted
    BY <1>1, <2>1, <2>2 DEF schedulerVars
  <2> QED
    BY <2>1, <2>2 DEF SchedulerStep, WorkersStep
<1>5. ASSUME NEW w \in Workers, W!senderLoop(w) \/ W!target(w), UNCHANGED <<schedulerVars, mainVars>>
      PROVE  SchedulerStep /\ WorkersStep
  <2>1. WP!OwnStep(w)
    BY <1>5, SameWorker DEF WP!OwnStep
  <2>2. ~WP!terminateEarly(w)
    BY <1>5
       DEF WP!terminateEarly, W!senderLoop, W!target, W!messageAvailable, W!stopConsuming, W!reset,
           W!sendRequest, W!setMaxOutstanding, W!setPhase, W!Consumes, W!check, W!exhausted,
           W!issue, W!flush, W!exits, W!reply, W!completes
  <2> QED
    BY <1>0, <1>5, <2>1, <2>2 DEF SchedulerStep, WorkersStep
<1>6. ASSUME NEW w \in Workers, terminate_early_fn(w), ~aborted PROVE SchedulerStep /\ WorkersStep
  <2>1. WP!OwnStep(w)
    BY <1>6, SameWorker DEF terminate_early_fn, WP!OwnStep
  <2>2. SP!stop /\ state_' = "STOPPING" /\ UNCHANGED <<queues_, mainVars>>
    BY <1>6, SameScheduler
       DEF terminate_early_fn, stopsScheduler, Sch!stop, Sch!Become
  <2> QED
    BY <1>6, <2>1, <2>2 DEF SchedulerStep, WorkersStep, SP!Next
<1>7. CASE ~aborted /\ mainThread
  <2>1. CASE runScheduler \/ stopScheduler
    BY <1>2, <1>7, <2>1 DEF runScheduler, stopScheduler
  <2>2. CASE wait \/ joinScheduler \/ drain \/ sleepSecond \/ print \/ joinWorkers \/ stopServer
    BY <1>1, <2>2 DEF wait, joinScheduler, drain, sleepSecond, print, joinWorkers, stopServer
  <2> QED
    BY <1>3, <1>4, <1>7, <2>1, <2>2 DEF mainThread
<1>8. CASE expire \/ Terminated \/ UNCHANGED vars
  BY <1>1, <1>8 DEF expire, Terminated, vars
<1>9. CASE ~aborted /\ (schedulerThread \/ \E c \in Callers : controlThread(c))
  BY <1>2, <1>9 DEF schedulerThread, controlThread
<1>10. ASSUME NEW w \in Workers, ~aborted, workerThread(w) \/ reply(w)
       PROVE  SchedulerStep /\ WorkersStep
  BY <1>5, <1>6, <1>10 DEF workerThread, reply
<1> QED
  BY <1>7, <1>8, <1>9, <1>10 DEF Next

-----------------------------------------------------------------------------
(* The components' invariants *)

\* What is known of the scheduler and the workers by themselves.
PartsInv ==
  SP!TypeInv /\ SP!StopInv /\ SP!StoppingInv /\ SP!LimitInv /\ WP!WorkersInv

LEMMA InitParts == Init => PartsInv
<1> SUFFICES ASSUME Init PROVE PartsInv
  OBVIOUS
<1>1. SP!Init
  BY Zenon DEF Init, Sch!Init, SP!Init, Sch!Workers, SP!Workers, Sch!Threads, SP!Threads,
               Sch!NoFrame, SP!NoFrame, Sch!Event, SP!Event
<1>2. WP!Init
  BY Zenon DEF Init, W!Init, WP!Init, W!Workers, WP!Workers, W!NewWorker, WP!NewWorker,
               W!Connections, WP!Connections
<1>3. SP!TypeInv /\ WP!WorkersInv
  BY <1>1, <1>2, Assumptions, SP!InitType, WP!InitWorkers
<1>4. SP!StopInv
  BY <1>1, SP!InitStop, Assumptions
<1>5. SP!StoppingInv
  BY <1>1 DEF SP!Init, SP!StoppingInv, SP!Threads
<1>6. SP!LimitInv
  BY <1>1, SP!InitLimit, Assumptions
<1> QED
  BY <1>3, <1>4, <1>5, <1>6 DEF PartsInv

\* An ended process changes nothing of what the scheduler has.
LEMMA AbortKeeps ==
  ASSUME SP!TypeInv, SP!StopInv, SP!StoppingInv, SP!LimitInv, aborted' = TRUE,
         UNCHANGED <<state_, next_, rps_, max_outstanding_requests_, queues_, promise_,
                     pc, frame, rps, paced, calls, late, stale, resumed, alone>>
  PROVE  SP!TypeInv' /\ SP!StopInv' /\ SP!StoppingInv' /\ SP!LimitInv'
<1>1. SP!TypeInv'
  BY DEF SP!TypeInv, SP!TypeOK, SP!FrameOK
<1> QED
  BY <1>1 DEF SP!StopInv, SP!StoppingInv, SP!LimitInv, SP!setsLimit

\* Every step keeps them.
LEMMA NextParts == PartsInv /\ MainInv /\ [Next]_vars => PartsInv'
<1> SUFFICES ASSUME PartsInv, MainInv, [Next]_vars PROVE PartsInv'
  OBVIOUS
<1> USE Assumptions DEF PartsInv
<1>1. SP!TypeInv' /\ SP!StopInv' /\ SP!StoppingInv' /\ SP!LimitInv'
  <2>1. CASE [SP!Next]_(SP!vars)
    BY <2>1, SP!NextType, SP!NextStop, SP!NextStopping, SP!NextLimit
  <2>2. CASE ~[SP!Next]_(SP!vars)
    BY <2>2, StepParts, AbortKeeps DEF SchedulerStep
  <2> QED
    BY <2>1, <2>2
<1>2. WP!WorkersInv'
  <2>0. WP!Workers = Workers /\ SP!Workers = Workers /\ WP!Events = SP!Events
    BY Zenon DEF WP!Workers, SP!Workers, Workers, WP!Events, SP!Events
  <2>1. ASSUME NEW w \in Workers, WP!WorkerStep(w), UNCHANGED queues_ PROVE WP!WorkersInv'
    BY <2>0, <2>1, WP!WorkerKeeps
  <2>2. CASE UNCHANGED workers
    <3>1. queues_' \in [WP!Workers -> Seq(WP!Events)]
      BY <1>1, <2>0 DEF SP!TypeInv, SP!TypeOK
    <3>2. \A w \in WP!Workers : \/ queues_'[w] = queues_[w]
                                \/ \E e \in WP!Events : queues_'[w] = Append(queues_[w], e)
      BY <2>0, StepParts, SP!StepQueues DEF SchedulerStep
    <3> QED
      BY <2>2, <3>1, <3>2, WP!PutKeeps
  <2> QED
    BY <2>1, <2>2, StepParts DEF WorkersStep, WP!WorkerStep, MainInv
<1> QED
  BY <1>1, <1>2

-----------------------------------------------------------------------------
(* What the parts know of each other *)

\* STOPPING is final in the composition, too.
LEMMA StoppingFinal == ASSUME [Next]_vars, state_ = "STOPPING" PROVE state_' = "STOPPING"
<1>1. CASE [SP!Next]_(SP!vars)
  BY <1>1, Assumptions, SP!StoppingStays
<1> QED
  BY <1>1, StepParts DEF SchedulerStep

LEMMA NextStays == MainInv /\ StaysStopping /\ [Next]_vars => StaysStopping'
<1> SUFFICES ASSUME MainInv, StaysStopping, [Next]_vars, ~(state_' = "STOPPING")
             PROVE  main' \in {"start", "run", "wait", "stop"}
  BY DEF StaysStopping
<1>1. main \in {"start", "run", "wait", "stop"}
  BY StoppingFinal DEF StaysStopping
<1>2. CASE mainThread
  <2>1. CASE runWorkers
    BY <1>1, <2>1, LoopStep DEF runWorkers, MainInv
  <2>2. CASE stopScheduler
    BY <2>2 DEF stopScheduler, Sch!stop, Sch!Become
  <2>3. CASE runScheduler \/ wait
    BY <2>3 DEF runScheduler, wait
  <2> QED
    BY <1>1, <1>2, <2>1, <2>2, <2>3
       DEF mainThread, checkStopping, joinScheduler, drain, sleepSecond, print, stopWorkers,
           joinWorkers, saveConfig, stopServer
<1>3. CASE expire
  BY <1>1, <1>3 DEF expire
<1> QED
  BY <1>1, <1>2, <1>3, OthersLeaveMain DEF Next, mainVars

\* The workers run once the main thread is past their start, and until it
\* stops them only a running worker is about to issue a request.
RunningInv ==
  \A w \in Workers :
    /\ main # "start" \/ w < i => workers[w].pc # "none"
    /\ main \notin AfterPrint /\ workers[w].pc = "issue" => workers[w].running_

\* What the main thread does to a worker.
LEMMA RunnerStep ==
  ASSUME PartsInv, MainInv
  PROVE  /\ WP!run(i) => /\ \A v \in Workers : v # i => workers'[v] = workers[v]
                         /\ workers[i].pc = "none"
                         /\ workers'[i].pc = "loop"
                         /\ workers'[i].running_
         /\ WP!stop(i) => /\ \A v \in Workers : v # i => workers'[v] = workers[v]
                          /\ workers'[i].pc = workers[i].pc
<1>1. workers \in [Workers -> WP!Worker] /\ i \in Workers
  BY DEF PartsInv, WP!WorkersInv, WP!TypeOK, WP!Workers, Workers, MainInv
<1>2. workers[i] \in WP!Worker
  BY <1>1
<1>3. ASSUME WP!run(i)
      PROVE  /\ \A v \in Workers : v # i => workers'[v] = workers[v]
             /\ workers[i].pc = "none"
             /\ workers'[i].pc = "loop"
             /\ workers'[i].running_ = TRUE
  BY <1>1, <1>2, <1>3 DEF WP!run, WP!Becomes, WP!Worker
<1>4. ASSUME WP!stop(i)
      PROVE  /\ \A v \in Workers : v # i => workers'[v] = workers[v]
             /\ workers'[i].pc = workers[i].pc
  BY <1>1, <1>2, <1>4 DEF WP!stop, WP!Becomes, WP!Worker
<1> QED
  BY <1>3, <1>4

\* What a worker does by itself.
LEMMA OwnStepHere ==
  ASSUME PartsInv, NEW w \in Workers, WP!OwnStep(w)
  PROVE  /\ \A v \in Workers : v # w => workers'[v] = workers[v]
         /\ workers[w].pc # "none" /\ workers'[w].pc # "none"
         /\ workers'[w].running_ => workers[w].running_
         /\ workers'[w].pc = "issue" => workers'[w].running_
         /\ workers'[w].outstanding_requests_ <= workers[w].outstanding_requests_
              \/ workers[w].pc = "issue"
         /\ workers[w].pc = "early" => WP!terminateEarly(w)
         /\ \/ workers[w].running_ => workers'[w].running_
            \/ workers'[w].pc = "early"
            \/ \E k \in DOMAIN queues_[w] : queues_[w][k].type = "STOP"
<1>1. w \in WP!Workers /\ WP!Workers = Workers
  BY DEF WP!Workers, Workers
<1> QED
  BY <1>1, Assumptions, WP!OwnStepKeeps DEF PartsInv, WP!WorkersInv

\* The main thread leaves "start" only by starting workers and does not come
\* back to it, and the statistics stay printed.
LEMMA MainOrder ==
  ASSUME MainInv, [Next]_vars
  PROVE  /\ main = "start" => runWorkers \/ (main' = "start" /\ i' = i)
         /\ main # "start" => main' # "start"
         /\ main \in AfterPrint => main' \in AfterPrint
<1>1. CASE mainThread
  <2>1. CASE runWorkers
    BY <2>1 DEF runWorkers, AfterPrint
  <2>2. CASE drain
    BY <2>2, LoopStep DEF drain, AfterPrint, MainInv
  <2>3. CASE stopWorkers \/ joinWorkers
    BY <2>3, LoopStep DEF stopWorkers, joinWorkers, AfterPrint, MainInv
  <2> QED
    BY <1>1, <2>1, <2>2, <2>3
       DEF mainThread, runScheduler, wait, stopScheduler, checkStopping, joinScheduler,
           sleepSecond, print, saveConfig, writeDynamicToFile, stopServer, AfterPrint
<1>2. CASE expire
  BY <1>2 DEF expire
<1> QED
  BY <1>1, <1>2, OthersLeaveMain DEF Next, mainVars

LEMMA NextRunning == PartsInv /\ MainInv /\ RunningInv /\ [Next]_vars => RunningInv'
<1> SUFFICES ASSUME PartsInv, MainInv, RunningInv, [Next]_vars, NEW w \in Workers
             PROVE  /\ main' # "start" \/ w < i' => workers'[w].pc # "none"
                    /\ main' \notin AfterPrint /\ workers'[w].pc = "issue" => workers'[w].running_
  BY DEF RunningInv, Workers
<1>1. CASE runWorkers
  <2>1. main = "start" /\ WP!run(i) /\ NextWorker("run")
    BY <1>1, SameWorker DEF runWorkers
  <2>2. w = i \/ w < i \/ w > i
    BY DEF MainInv, Workers
  <2>3. w > i => main' = "start" /\ ~(w < i')
    BY <2>1, LoopStep, TreadmillAssumption DEF MainInv, Workers
  <2>4. main \notin AfterPrint
    BY <2>1 DEF AfterPrint
  <2> QED
    BY <2>1, <2>2, <2>3, <2>4, RunnerStep DEF RunningInv
<1>2. CASE ~runWorkers
  <2>1. /\ main' # "start" \/ w < i' => main # "start" \/ w < i
        /\ main' \notin AfterPrint => main \notin AfterPrint
    BY <1>2, MainOrder
  <2>2. CASE main = "start" /\ WP!run(i)
    BY <2>1, <2>2, RunnerStep DEF RunningInv
  <2>3. CASE main = "stopWorkers" /\ WP!stop(i)
    BY <2>1, <2>3, RunnerStep DEF RunningInv, AfterPrint
  <2>4. ASSUME NEW v \in Workers, WP!OwnStep(v)
        PROVE  /\ main' # "start" \/ w < i' => workers'[w].pc # "none"
               /\ main' \notin AfterPrint /\ workers'[w].pc = "issue" => workers'[w].running_
    BY <2>1, <2>4, OwnStepHere DEF RunningInv
  <2>5. CASE UNCHANGED workers
    BY <2>1, <2>5 DEF RunningInv
  <2> QED
    BY <2>2, <2>3, <2>4, <2>5, StepParts DEF WorkersStep
<1> QED
  BY <1>1, <1>2

\* A STOP on a queue means that the scheduler was told to stop.
LEMMA StopMeansStopping ==
  ASSUME PartsInv, NEW w \in Workers, NEW k \in DOMAIN queues_[w], queues_[w][k].type = "STOP"
  PROVE  state_ = "STOPPING"
  BY DEF PartsInv, SP!StopInv, SP!StoppingInv, SP!HasStop, SP!Workers, Workers

LEMMA NextOrphan ==
  PartsInv /\ MainInv /\ StaysStopping /\ NoOrphanedWorker /\ [Next]_vars => NoOrphanedWorker'
<1> SUFFICES ASSUME PartsInv, MainInv, StaysStopping, NoOrphanedWorker, [Next]_vars,
                    NEW w \in Workers, workers'[w].pc # "none", ~workers'[w].running_,
                    ~(state_' = "STOPPING")
             PROVE  workers'[w].pc = "early"
  BY DEF NoOrphanedWorker, Workers
<1>0. ~(state_ = "STOPPING")
  BY StoppingFinal
<1>1. (workers[w].pc # "none" /\ ~workers[w].running_) => workers[w].pc = "early"
  BY <1>0 DEF NoOrphanedWorker
<1>2. CASE main = "start" /\ WP!run(i)
  BY <1>1, <1>2, RunnerStep
<1>3. CASE main = "stopWorkers"
  BY <1>0, <1>3 DEF StaysStopping
<1>4. ASSUME NEW v \in Workers, WP!OwnStep(v), WP!terminateEarly(v) => state_' = "STOPPING"
      PROVE  workers'[w].pc = "early"
  <2>1. CASE v = w
    BY <1>0, <1>1, <1>4, <2>1, OwnStepHere, StopMeansStopping
  <2> QED
    BY <1>1, <1>4, <2>1, OwnStepHere
<1>5. CASE UNCHANGED workers
  BY <1>1, <1>5
<1> QED
  BY <1>2, <1>3, <1>4, <1>5, StepParts DEF WorkersStep

-----------------------------------------------------------------------------
(* The drain loop *)

\* While a pass has found no work, the workers it has passed have none; and
\* none has any when the statistics are printed after such a pass.
DrainInv ==
  /\ main = "drain" /\ remaining = 0
       => \A w \in Workers : w < i => ~W!hasMoreWork(w)
  /\ DrainedAtPrint

\* A worker without work gets none: it can issue a request only while it is
\* running, and nothing starts it again.
LEMMA QuietStays ==
  ASSUME PartsInv, PartsInv', MainInv, RunningInv, [Next]_vars, main \in {"drain", "print"},
         NEW w \in Workers, ~W!hasMoreWork(w)
  PROVE  ~W!hasMoreWork(w)'
<1>1. /\ workers[w].outstanding_requests_ \in Nat
      /\ workers'[w].outstanding_requests_ \in Nat
  BY DEF PartsInv, WP!WorkersInv, WP!TypeOK, WP!Workers, Workers, WP!Worker
<1>2. ~workers[w].running_ /\ ~(workers[w].outstanding_requests_ > 0)
  BY DEF W!hasMoreWork
<1>3. workers[w].pc # "issue"
  BY <1>2 DEF RunningInv, AfterPrint
<1>4. ASSUME NEW v \in Workers, WP!OwnStep(v) PROVE ~W!hasMoreWork(w)'
  <2>1. CASE v = w
    <3>1. workers'[w].outstanding_requests_ <= workers[w].outstanding_requests_
      BY <1>3, <1>4, <2>1, OwnStepHere
    <3>2. ~(workers'[w].outstanding_requests_ > 0)
      BY <1>1, <1>2, <3>1
    <3>3. ~workers'[w].running_
      BY <1>2, <1>4, <2>1, OwnStepHere
    <3> QED
      BY <3>2, <3>3 DEF W!hasMoreWork
  <2>2. CASE v # w
    BY <1>2, <1>4, <2>2, OwnStepHere DEF W!hasMoreWork
  <2> QED
    BY <2>1, <2>2
<1>5. CASE UNCHANGED workers
  BY <1>2, <1>5 DEF W!hasMoreWork
<1> QED
  BY <1>4, <1>5, StepParts DEF WorkersStep

LEMMA NextDrain ==
  PartsInv /\ PartsInv' /\ MainInv /\ RunningInv /\ DrainInv /\ [Next]_vars => DrainInv'
<1> SUFFICES ASSUME PartsInv, PartsInv', MainInv, RunningInv, DrainInv, [Next]_vars
             PROVE  DrainInv'
  OBVIOUS
<1> DEFINE Drained ==
             /\ main' = "drain" /\ remaining' = 0
                  => \A w \in Workers : w < i' => ~W!hasMoreWork(w)'
             /\ main' = "print" /\ ShutdownDelay > 0 /\ remaining' = 0
                  => \A w \in Workers : ~W!hasMoreWork(w)'
<1> SUFFICES Drained
  BY DEF DrainInv, DrainedAtPrint, Workers
<1>1. CASE mainThread
  <2>1. CASE drain
    <3>1. /\ main = "drain" /\ UNCHANGED workers
          /\ NextWorker(IF remaining' > 0 THEN "sleep" ELSE "print")
          /\ remaining' = IF W!hasMoreWork(i) THEN remaining + 1 ELSE remaining
      BY <2>1 DEF drain, busy
    <3>2. \A w : W!hasMoreWork(w)' <=> W!hasMoreWork(w)
      BY <3>1 DEF W!hasMoreWork
    <3>3. remaining' = 0 => remaining = 0 /\ ~W!hasMoreWork(i)
      BY <3>1 DEF MainInv
    <3>4. remaining' = 0 => \A w \in Workers : w <= i => ~W!hasMoreWork(w)'
      <4>1. \A w \in Workers : w <= i => w < i \/ w = i
        BY DEF MainInv, Workers
      <4> QED
        BY <3>1, <3>2, <3>3, <4>1 DEF DrainInv
    <3>5. \/ i' = i + 1 /\ main' = "drain"
          \/ i = NumWorkers - 1 /\ main' = IF remaining' > 0 THEN "sleep" ELSE "print"
      BY <3>1, LoopStep DEF MainInv
    <3>6. \A w \in Workers : (w < i + 1 => w <= i) /\ w <= NumWorkers - 1
      BY TreadmillAssumption DEF MainInv, Workers
    <3> QED
      BY <3>4, <3>5, <3>6
  <2>2. CASE sleepSecond
    <3>1. i' = 0 /\ (main' = "print" => remaining' > 0)
      BY <2>2 DEF sleepSecond, MainInv, InLoop
    <3> QED
      BY <3>1, TreadmillAssumption DEF Workers
  <2>3. CASE joinScheduler
    <3>1. i' = 0 /\ (main' = "print" => ~(ShutdownDelay > 0))
      BY <2>3 DEF joinScheduler, MainInv, InLoop
    <3> QED
      BY <3>1, TreadmillAssumption DEF Workers
  <2>4. main' \notin {"drain", "print"} \/ drain \/ sleepSecond \/ joinScheduler
    <3>1. CASE runWorkers
      BY <3>1, LoopStep DEF runWorkers, MainInv
    <3>2. CASE stopWorkers \/ joinWorkers
      BY <3>2, LoopStep DEF stopWorkers, joinWorkers, MainInv
    <3> QED
      BY <1>1, <3>1, <3>2
         DEF mainThread, runScheduler, wait, stopScheduler, checkStopping, print, saveConfig,
             writeDynamicToFile, stopServer
  <2> QED
    BY <2>1, <2>2, <2>3, <2>4
<1>2. CASE UNCHANGED <<main, i, remaining>>
  BY <1>2, QuietStays DEF DrainInv, DrainedAtPrint
<1>3. CASE expire
  BY <1>2, <1>3 DEF expire
<1> QED
  BY <1>1, <1>2, <1>3, OthersLeaveMain DEF Next, mainVars

-----------------------------------------------------------------------------
(* The limit *)

\* The last limit on a queue is both the one its worker has, when it has consumed
\* all of it, and the one the scheduler reports.
LEMMA LimitReaches == ASSUME PartsInv PROVE LimitInForce
<1> SUFFICES ASSUME alone, \A c \in Callers : ~Sch!setsLimit(c), NEW w \in Workers,
                    workers[w].running_, workers[w].taken = Len(queues_[w]),
                    NEW k \in DOMAIN queues_[w], queues_[w][k].type = "SET_MAX_OUTSTANDING"
             PROVE  workers[w].max_outstanding_requests_ = max_outstanding_requests_
  BY DEF LimitInForce
<1> DEFINE me == workers[w]
           q == queues_[w]
<1>1. q \in Seq(WP!Events) /\ k \in 1 .. Len(q)
  BY DEF PartsInv, WP!WorkersInv, WP!TypeOK, WP!Workers, Workers
<1>2. WP!LastGiven(q, Len(q), me.max_outstanding_requests_)
  BY DEF PartsInv, WP!WorkersInv, WP!OneInv, WP!LimitInv, WP!Workers, Workers
<1>3. PICK n \in 1 .. Len(q) :
        /\ q[n] = WP!Event("SET_MAX_OUTSTANDING", me.max_outstanding_requests_)
        /\ \A j \in n + 1 .. Len(q) : q[j].type # "SET_MAX_OUTSTANDING"
  BY <1>1, <1>2 DEF WP!LastGiven
<1>4. \A c \in Callers : ~SP!setsLimit(c)
  BY Zenon DEF Sch!setsLimit, SP!setsLimit
<1>5. SP!Agrees(q, max_outstanding_requests_)
  BY <1>4 DEF PartsInv, SP!LimitInv, SP!Workers, Workers
<1>6. /\ q[n].type = "SET_MAX_OUTSTANDING" /\ q[n].data = me.max_outstanding_requests_
      /\ n \in DOMAIN q
  BY <1>1, <1>3 DEF WP!Event
<1> QED
  BY <1>3, <1>5, <1>6 DEF SP!Agrees

-----------------------------------------------------------------------------
(* The theorems *)

TreadmillInv ==
  PartsInv /\ MainInv /\ StaysStopping /\ RunningInv /\ NoOrphanedWorker /\ DrainInv

LEMMA InitTreadmill == Init => TreadmillInv
<1> SUFFICES ASSUME Init PROVE TreadmillInv
  OBVIOUS
<1>1. main = "start" /\ i = 0
  BY DEF Init
<1>2. \A w \in Workers : workers[w].pc = "none" /\ ~(w < 0)
  BY TreadmillAssumption DEF Init, W!Init, W!Workers, W!NewWorker, Workers
<1>3. StaysStopping /\ RunningInv /\ NoOrphanedWorker /\ DrainInv
  BY <1>1, <1>2 DEF StaysStopping, RunningInv, NoOrphanedWorker, DrainInv, DrainedAtPrint
<1> QED
  BY <1>3, InitParts, InitMain DEF TreadmillInv

\* The invariant holds in every reachable state.
LEMMA TreadmillCorrect == Spec => []TreadmillInv
<1>1. TreadmillInv /\ [Next]_vars => TreadmillInv'
  BY NextParts, NextMain, NextStays, NextRunning, NextOrphan, NextDrain DEF TreadmillInv
<1> QED
  BY <1>1, InitTreadmill, PTL DEF Spec

\* Type correctness of the whole program: the parts keep their types when they
\* run together, and the main thread its counters and indices.
THEOREM TypeSafe == Spec => []TypeOK
<1>1. TreadmillInv => TypeOK
  <2> SUFFICES ASSUME TreadmillInv PROVE TypeOK
    OBVIOUS
  <2>1. Sch!TypeOK
    <3>1. SP!TypeOK
      BY DEF TreadmillInv, PartsInv, SP!TypeInv
    <3> QED
      BY Zenon, <3>1
         DEF SP!TypeOK, Sch!TypeOK, SP!RunState, Sch!RunState, SP!Workers, Sch!Workers, SP!Threads,
             Sch!Threads, SP!LoopPc, Sch!LoopPc, SP!CallerPc, Sch!CallerPc, SP!Events, Sch!Events
  <2>2. W!TypeOK
    <3>1. WP!TypeOK
      BY DEF TreadmillInv, PartsInv, WP!WorkersInv
    <3> QED
      BY Zenon, <3>1
         DEF WP!TypeOK, W!TypeOK, WP!Workers, W!Workers, WP!Worker, W!Worker, WP!Connections,
             W!Connections, WP!Events, W!Events
  <2> QED
    BY <2>1, <2>2 DEF TreadmillInv, MainInv, AfterPrint, TypeOK
<1> QED
  BY <1>1, TreadmillCorrect, PTL

\* The CHECK in Scheduler::join() cannot fail (StaysStopping): between stop()
\* and the join no pause, resume or worker moves the scheduler out of STOPPING.
THEOREM JoinFindsStopping == Spec => []StaysStopping
<1>1. TreadmillInv => StaysStopping
  BY DEF TreadmillInv
<1> QED
  BY <1>1, TreadmillCorrect, PTL

\* A worker that is down has brought the scheduler down or is about to
\* (NoOrphanedWorker), for any number of workers that may run out of work.
THEOREM NobodyOrphaned == Spec => []NoOrphanedWorker
<1>1. TreadmillInv => NoOrphanedWorker
  BY DEF TreadmillInv
<1> QED
  BY <1>1, TreadmillCorrect, PTL

\* A pass of the drain loop that finds no work means that there is none when
\* the statistics are printed (DrainedAtPrint), although it asks one worker
\* after the other.
THEOREM DrainIsSound == Spec => []DrainedAtPrint
<1>1. TreadmillInv => DrainedAtPrint
  BY DEF TreadmillInv, DrainInv
<1> QED
  BY <1>1, TreadmillCorrect, PTL

\* After a setMaxOutstandingRequests call that overlapped no other, the workers that
\* have consumed their messages hold the limit the scheduler reports (LimitInForce),
\* for any number of workers and control threads.
THEOREM LimitArrives == Spec => []LimitInForce
<1>1. TreadmillInv => LimitInForce
  BY LimitReaches DEF TreadmillInv
<1> QED
  BY <1>1, TreadmillCorrect, PTL

=============================================================================
