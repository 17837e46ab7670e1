------------------------------ MODULE Scheduler ------------------------------
(***************************************************************************)
(* The request scheduler of Treadmill (Scheduler.h, Scheduler.cpp).        *)
(*                                                                         *)
(* One thread runs Scheduler::loop: it sends RESET to every worker, then   *)
(* puts SEND_REQUEST events round-robin on the workers' notification       *)
(* queues while the scheduler is RUNNING, waits while it is PAUSED, and on *)
(* STOPPING sends STOP to every worker and fulfils its promise.  Other     *)
(* threads (the fb303 handlers, a worker that ran out of work, the runner) *)
(* call the public methods at any time.                                    *)
(*                                                                         *)
(* A step is one access to shared state: one read or compare-and-swap of   *)
(* state_, one read or write of rps_ or max_outstanding_requests_, or one  *)
(* putMessage.  queues_[w] is the sequence of ALL messages ever put on     *)
(* worker w's queue; the worker keeps its own read position (Worker.tla),  *)
(* so the queue's history stays visible to the properties.  Time, and the  *)
(* logged_ counters that only throttle a log line, are left out.           *)
(***************************************************************************)
EXTENDS TreadmillEvent, Integers, Sequences, FiniteSets

CONSTANTS
  NumWorkers,          \* number_of_workers, the size of queues_
  Callers,             \* threads that call the public methods
  Rates,               \* values passed to setRps
  InitRps,             \* FLAGS_request_per_second
  InitMaxOutstanding,  \* FLAGS_max_outstanding_requests
  WaitForRunnerReady,  \* FLAGS_wait_for_runner_ready
  MaxCalls,            \* bound: calls the callers make together
  MaxQueue             \* bound: requests stop when a queue holds this many messages

Workers == 0 .. NumWorkers - 1
Threads == Callers \cup {"loop"}

ASSUME SchedulerAssumption ==
  /\ NumWorkers \in Nat \ {0}
  /\ "loop" \notin Callers
  /\ InitRps \in Rates
  /\ InitMaxOutstanding \in Limits
  /\ WaitForRunnerReady \in BOOLEAN
  /\ MaxCalls \in Nat
  /\ MaxQueue \in Nat

VARIABLES
  state_,                     \* RunState, atomic
  next_,                      \* index of the queue that gets the next request
  rps_,                       \* the rate asked for
  max_outstanding_requests_,  \* the limit asked for
  queues_,                    \* messages put on each worker's queue so far
  promise_,                   \* the promise returned by run() is fulfilled
  pc,                         \* position of each thread
  frame,                      \* each thread's activation of messageAllWorkers
  rps,                        \* loop()'s local copy of rps_
  paced,                      \* rate the pending wait was drawn from
  calls,                      \* calls made so far
  aborted,                    \* a CHECK failed: the process is gone
  late,                       \* history: requests put since state_ left RUNNING
  stale,                      \* history: requests paced by an old rate since setRps
  resumed,                    \* history: workers in mid-run when a resume took effect
                              \* and not RESET since
  alone                       \* history: the last call of setMaxOutstandingRequests has
                              \* overlapped no other one

shared  == <<state_, rps_, max_outstanding_requests_, queues_, promise_>>
loopVars == <<next_, rps, paced>>
history == <<late, stale, resumed, alone>>
vars == <<shared, loopVars, history, pc, frame, calls, aborted>>

RunState == {"RUNNING", "PAUSED", "STOPPING"}
LoopPc   == {"new", "reset", "start", "running", "send", "rate",
             "paused", "while", "stop", "exit", "done"}
CallerPc == {"idle", "event", "put"}

NoFrame == [event |-> Event("STOP", NoData), i |-> 0]

-----------------------------------------------------------------------------
(* Scheduler::Scheduler *)

Init ==
  /\ state_ = IF WaitForRunnerReady THEN "PAUSED" ELSE "RUNNING"
  /\ next_ = 0
  /\ rps_ = InitRps
  /\ max_outstanding_requests_ = InitMaxOutstanding
  /\ queues_ = [w \in Workers |-> << >>]
  /\ promise_ = FALSE
  /\ pc = [t \in Threads |-> IF t = "loop" THEN "new" ELSE "idle"]
  /\ frame = [t \in Threads |-> NoFrame]
  /\ rps = InitRps
  /\ paced = InitRps
  /\ calls = 0
  /\ aborted = FALSE
  /\ late = 0
  /\ stale = 0
  /\ resumed = {}
  /\ alone = TRUE

-----------------------------------------------------------------------------
(* messageAllWorkers and the frames that call it *)

Goto(t, label) == pc' = [pc EXCEPT ![t] = label]

\* Thread t enters messageAllWorkers(e), at position label of its caller.
Enter(t, label, e) ==
  /\ Goto(t, label)
  /\ frame' = [frame EXCEPT ![t] = [event |-> e, i |-> 0]]

\* Bug: the loop bound is off by one and the last worker gets no message.
SkipsLastWorker(i) == i + 2 < NumWorkers

\* The loop condition, after ++i.
moreQueues(i) == i + 1 < NumWorkers

\* One iteration of the loop: put the event on queue i; after the last
\* queue the thread continues at position return.
messageAllWorkers(t, return) ==
  LET f == frame[t] IN
  /\ queues_' = [queues_ EXCEPT ![f.i] = Append(@, f.event)]
  /\ resumed' = IF f.event.type = "RESET" THEN resumed \ {f.i} ELSE resumed
  /\ IF moreQueues(f.i)
       THEN frame' = [frame EXCEPT ![t].i = @ + 1] /\ UNCHANGED pc
       ELSE frame' = [frame EXCEPT ![t] = NoFrame] /\ Goto(t, return)

-----------------------------------------------------------------------------
(* Public methods *)

\* state_ becomes s; late counts over one whole stay outside RUNNING, and a
\* resume leaves the workers that have run since their last RESET in mid-run.
Become(s) ==
  /\ state_' = s
  /\ late' = IF "RUNNING" \in {s, state_} THEN 0 ELSE late
  /\ resumed' = IF state_ = "PAUSED" /\ s = "RUNNING"
                  THEN {w \in Workers : SinceReset(queues_[w]) # {}}
                  ELSE resumed

\* run(): start the loop thread.
run ==
  /\ pc["loop"] = "new"
  /\ Enter("loop", "reset", Event("RESET", NoData))
  /\ UNCHANGED <<shared, loopVars, history, calls, aborted>>

\* Bug: pause() stores PAUSED unconditionally instead of compare-and-swap.
PauseStores == Become("PAUSED")

\* pause(): compare-and-swap RUNNING -> PAUSED.
pauseCas == Become(IF state_ = "RUNNING" THEN "PAUSED" ELSE state_)

\* resume(): compare-and-swap PAUSED -> RUNNING; the read of state_ that
\* follows only computes the return value.
resumeCas == Become(IF state_ = "PAUSED" THEN "RUNNING" ELSE state_)

\* stop(): unconditional store; it may be called any number of times, by
\* the runner or by a worker whose workload is exhausted.
stop ==
  /\ pc["loop"] # "new"
  /\ Become("STOPPING")
  /\ UNCHANGED <<rps_, max_outstanding_requests_, queues_, promise_, loopVars,
                 stale, alone, pc, frame, calls, aborted>>

\* A caller that is not inside a method makes one of its calls.
Call(c) ==
  /\ pc[c] = "idle"
  /\ calls < MaxCalls
  /\ calls' = calls + 1

pause(c) ==
  /\ Call(c)
  /\ pauseCas
  /\ UNCHANGED <<rps_, max_outstanding_requests_, queues_, promise_, loopVars,
                 stale, alone, pc, frame, aborted>>

resume(c) ==
  /\ Call(c)
  /\ resumeCas
  /\ UNCHANGED <<rps_, max_outstanding_requests_, queues_, promise_, loopVars,
                 stale, alone, pc, frame, aborted>>

\* setPhase(): with --wait_for_runner_ready a CHECK aborts the process
\* unless the scheduler is PAUSED.
setPhase(c, phase) ==
  /\ Call(c)
  /\ IF WaitForRunnerReady /\ state_ # "PAUSED"
       THEN aborted' = TRUE /\ UNCHANGED <<pc, frame>>
       ELSE Enter(c, "put", Event("SET_PHASE", phase)) /\ UNCHANGED aborted
  /\ UNCHANGED <<shared, loopVars, history>>

\* Bug: the workers are told but the member is not updated.
StoreForgotten(limit) == max_outstanding_requests_

storedLimit(limit) == limit

\* Caller c is inside setMaxOutstandingRequests.
setsLimit(c) ==
  pc[c] = "event" \/ (pc[c] = "put" /\ frame[c].event.type = "SET_MAX_OUTSTANDING")

\* setMaxOutstandingRequests(): first the store to the member ...
setMaxOutstandingRequests(c, limit) ==
  /\ Call(c)
  /\ max_outstanding_requests_' = storedLimit(limit)
  /\ Enter(c, "event", Event("SET_MAX_OUTSTANDING", limit))
  /\ alone' = ~\E d \in Callers : setsLimit(d)
  /\ UNCHANGED <<state_, rps_, queues_, promise_, loopVars, late, stale, resumed, aborted>>

\* ... then the event is built from the member, which is not atomic: the
\* compiler may reload it or reuse the value just stored.
maxOutstandingEvent(c) ==
  /\ pc[c] = "event"
  /\ \E limit \in {frame[c].event.data, max_outstanding_requests_} :
        Enter(c, "put", Event("SET_MAX_OUTSTANDING", limit))
  /\ UNCHANGED <<shared, loopVars, history, calls, aborted>>

\* The caller's messageAllWorkers.
callerPuts(c) ==
  /\ pc[c] = "put"
  /\ messageAllWorkers(c, "idle")
  /\ UNCHANGED <<state_, rps_, max_outstanding_requests_, promise_, loopVars,
                 late, stale, alone, calls, aborted>>

setRps(c, rate) ==
  /\ Call(c)
  /\ rps_' = rate
  /\ stale' = 0
  /\ UNCHANGED <<state_, max_outstanding_requests_, queues_, promise_, loopVars,
                 late, resumed, alone, pc, frame, aborted>>

-----------------------------------------------------------------------------
(* Scheduler::loop *)

\* messageAllWorkers(RESET).
loopReset ==
  /\ pc["loop"] = "reset"
  /\ messageAllWorkers("loop", "start")
  /\ UNCHANGED <<state_, rps_, max_outstanding_requests_, promise_, loopVars,
                 late, stale, alone, calls, aborted>>

\* Bug: a new run goes on with the queue the last one ended at.
KeepsQueue == next_

\* next_ = 0
firstQueue == 0

\* next_ = 0, the rate is read and the first interval drawn from it.
loopStart ==
  /\ pc["loop"] = "start"
  /\ next_' = firstQueue
  /\ rps' = rps_
  /\ paced' = rps_
  /\ Goto("loop", "running")
  /\ UNCHANGED <<shared, history, frame, calls, aborted>>

\* Bug: the request loop only ends on STOPPING, so a pause goes unnoticed.
RunsWhilePaused == state_ # "STOPPING"

\* The condition of the request loop.
keepsSending == state_ = "RUNNING"

\* while (state_ == RUNNING)
loopRunning ==
  /\ pc["loop"] = "running"
  /\ IF keepsSending
       THEN Len(queues_[next_]) < MaxQueue /\ Goto("loop", "send")
       ELSE Goto("loop", "paused")
  /\ UNCHANGED <<shared, loopVars, history, frame, calls, aborted>>

\* Bug: next_ wraps one queue too early.
WrapsEarly == IF next_ + 2 >= NumWorkers THEN 0 ELSE next_ + 1

\* Bug: next_ is compared with the wrong end and never wraps.
NeverWraps == next_ + 1

\* ++next_, wrapping at the number of queues.
advance == IF next_ + 1 = NumWorkers THEN 0 ELSE next_ + 1

\* The wait ends, the next interval is drawn from the local rate, and the
\* request is put on queue next_.
loopSend ==
  /\ pc["loop"] = "send"
  /\ paced' = rps
  /\ queues_' = [queues_ EXCEPT ![next_] = Append(@, Event("SEND_REQUEST", NoData))]
  /\ next_' = advance
  /\ late' = IF state_ = "RUNNING" THEN late ELSE late + 1
  /\ stale' = IF paced = rps_ THEN stale ELSE stale + 1
  /\ Goto("loop", "rate")
  /\ UNCHANGED <<state_, rps_, max_outstanding_requests_, promise_, rps,
                 resumed, alone, frame, calls, aborted>>

\* Bug: the new rate is noticed but the local copy is not refreshed.
RateIgnored == rps

\* if (rps != rps_) rps = rps_
refreshedRate == rps_

loopRate ==
  /\ pc["loop"] = "rate"
  /\ rps' = refreshedRate
  /\ Goto("loop", "running")
  /\ UNCHANGED <<shared, next_, paced, history, frame, calls, aborted>>

\* while (state_ == PAUSED) waitNs(1000): leaves when state_ is not PAUSED.
loopPaused ==
  /\ pc["loop"] = "paused"
  /\ state_ # "PAUSED"
  /\ Goto("loop", "while")
  /\ UNCHANGED <<shared, loopVars, history, frame, calls, aborted>>

\* while (state_ != STOPPING): another run, or STOP to every worker.
loopWhile ==
  /\ pc["loop"] = "while"
  /\ IF state_ # "STOPPING"
       THEN Enter("loop", "reset", Event("RESET", NoData))
       ELSE Enter("loop", "stop", Event("STOP", NoData))
  /\ UNCHANGED <<shared, loopVars, history, calls, aborted>>

\* Bug: STOP is sent inside the do-while loop instead of after it.
StopInsideLoop == "while"

\* Where the loop thread goes after STOP was sent.
afterStop == "exit"

\* messageAllWorkers(STOP).
loopStop ==
  /\ pc["loop"] = "stop"
  /\ messageAllWorkers("loop", afterStop)
  /\ UNCHANGED <<state_, rps_, max_outstanding_requests_, promise_, loopVars,
                 late, stale, alone, calls, aborted>>

\* promise_.setValue() and the thread ends.
loopExit ==
  /\ pc["loop"] = "exit"
  /\ promise_' = TRUE
  /\ Goto("loop", "done")
  /\ UNCHANGED <<state_, rps_, max_outstanding_requests_, queues_, loopVars,
                 history, frame, calls, aborted>>

loop ==
  \/ loopReset \/ loopStart \/ loopRunning \/ loopSend \/ loopRate
  \/ loopPaused \/ loopWhile \/ loopStop \/ loopExit

-----------------------------------------------------------------------------

\* The calls the fb303 handlers make.
Controls(c) ==
  \/ pause(c)
  \/ resume(c)
  \/ \E phase \in Phases : setPhase(c, phase)
  \/ \E limit \in Limits : setMaxOutstandingRequests(c, limit)
  \/ \E rate \in Rates : setRps(c, rate)

\* Steps inside a call.
Continues(c) == maxOutstandingEvent(c) \/ callerPuts(c)

Next ==
  /\ ~aborted
  /\ \/ run
     \/ loop
     \/ stop
     \/ \E c \in Callers : Controls(c) \/ Continues(c)

\* The scheduler thread is in waitNs() for an interval drawn from a rate of 0,
\* which is infinite: what its conversion to nanoseconds leaves in the budget is
\* either no wait at all or one of centuries (Pacing).
endlessWait == pc["loop"] = "send" /\ paced = 0

\* The scheduler thread and a thread inside a call are scheduled by the
\* operating system; nobody is obliged to call.
Fairness ==
  /\ WF_vars(~aborted /\ run)
  /\ WF_vars(~aborted /\ loop /\ ~endlessWait)
  /\ \A c \in Callers : WF_vars(~aborted /\ Continues(c))

Spec == Init /\ [][Next]_vars /\ Fairness

-----------------------------------------------------------------------------
(* Properties *)

TypeOK ==
  /\ state_ \in RunState
  /\ next_ \in Workers
  /\ rps_ \in Rates /\ rps \in Rates /\ paced \in Rates
  /\ max_outstanding_requests_ \in Limits
  /\ queues_ \in [Workers -> Seq(Events)]
  /\ promise_ \in BOOLEAN /\ aborted \in BOOLEAN
  /\ pc \in [Threads -> LoopPc \cup CallerPc]
  /\ pc["loop"] \in LoopPc /\ \A c \in Callers : pc[c] \in CallerPc
  /\ frame \in [Threads -> [event : Events, i : Workers]]
  /\ calls \in 0 .. MaxCalls
  /\ late \in Nat /\ stale \in Nat
  /\ resumed \subseteq Workers
  /\ alone \in BOOLEAN

\* Round robin: within a run the first workers are at most one request
\* ahead of the later ones, whatever control messages are put in between
\* ("selected in round-robin fashion", Scheduler.cpp:153).
Balanced ==
  pc["loop"] # "reset" =>
    \A u, v \in Workers : u < v =>
      LET m == Cardinality(SinceReset(queues_[u]))
          n == Cardinality(SinceReset(queues_[v]))
      IN  n <= m /\ m <= n + 1

Stream == INSTANCE RequestStream WITH queues <- queues_

\* The queues are filled as RequestStream says: every worker is sent the
\* RESET of a run before any worker is sent a request of it, so the workloads
\* start each run from the same point, requests are dealt in turn from the
\* first worker on, and STOP comes once to each, whatever pause, resume and
\* stop calls race with the loop and whatever control messages are put by
\* other threads in between.
ImplementsStream == Stream!Spec

\* STOP is put at most once on a queue and no RESET or request follows it:
\* only a late control call may (Scheduler::loop ends with STOP).
StopIsLast ==
  \A w \in Workers : \A i, j \in DOMAIN queues_[w] :
    queues_[w][i].type = "STOP" /\ i < j =>
      queues_[w][j].type \in {"SET_PHASE", "SET_MAX_OUTSTANDING"}

\* When the future of run() is ready, every worker has been sent STOP, so
\* the runner may start to wait for the workers.
PromiseMeansStopSent ==
  promise_ => \A w \in Workers : \E i \in DOMAIN queues_[w] :
                queues_[w][i].type = "STOP"

\* From the moment pause() or stop() takes effect until a resume, at most
\* one more request is generated: the one whose wait was under way.
AtMostOneLate == late <= 1

\* After setRps at most two requests are still paced by the old rate: the
\* one being waited for and the one whose interval was drawn before the
\* loop compared its copy with rps_.
AtMostTwoStale == stale <= 2

\* Once the scheduler is told to stop, the loop thread ends and fulfils the
\* promise, whatever pause, resume and setRps calls race with it.  One thing only
\* keeps it: setRps accepts a rate of 0 (Scheduler.cpp:120), and the loop does not
\* look at state_ while it waits for an interval drawn from it.
StopTerminates == (state_ = "STOPPING" ~> (promise_ \/ aborted)) \/ <>[]endlessWait

\* After a resume that took effect, no worker is sent a request before its
\* RESET: "Used via Scheduler::resume to re-synchronize A/B sides after
\* pausing" (Workload.h:40).
ResetAfterResume ==
  [][\A w \in Workers :
       (w \in resumed /\ Len(queues_'[w]) > Len(queues_[w]))
         => queues_'[w][Len(queues_'[w])].type # "SEND_REQUEST"]_vars

\* When no setMaxOutstandingRequests call is under way, and the last one
\* overlapped no other, the last limit sent to each worker is the one that
\* getMaxOutstandingRequests() reports, whatever earlier calls did to each other
\* and although the member is read again when the event is built ("set the
\* maximum outstanding requests for the Workers", Scheduler.h:58).  Calls that
\* overlap can leave the workers with different limits.
LimitAgreement ==
  (alone /\ \A c \in Callers : ~setsLimit(c)) =>
    \A w \in Workers : \A i \in DOMAIN queues_[w] :
      (/\ queues_[w][i].type = "SET_MAX_OUTSTANDING"
       /\ \A j \in i + 1 .. Len(queues_[w]) :
            queues_[w][j].type # "SET_MAX_OUTSTANDING")
        => queues_[w][i].data = max_outstanding_requests_

=============================================================================
