------------------------------- MODULE Worker -------------------------------
(***************************************************************************)
(* The workers of Treadmill (Worker.h).                                    *)
(*                                                                         *)
(* A worker is one thread that runs an event loop.  The loop delivers the  *)
(* messages of the worker's notification queue one by one and in order to  *)
(* messageAvailable, and runs the completion callbacks of the requests the *)
(* worker has in flight; the two never overlap, but the runner's thread    *)
(* calls stop() at any moment, and running_ may change under the worker    *)
(* between any two of its reads.  sendRequest is therefore split where it  *)
(* reads running_ and where a connection may complete a request at once.   *)
(*                                                                         *)
(* queues_[w] is the log of all messages put on queue w; taken is the      *)
(* worker's position in it.  The stand-alone specification puts arbitrary  *)
(* messages on the queues and calls stop() at arbitrary moments; Treadmill *)
(* composes the workers with the scheduler and the runner.                 *)
(*                                                                         *)
(* Left out: thread names, CPU affinity, log lines, the wait for a target  *)
(* that is not ready.  Time is abstract: a sample of the throughput may or *)
(* may not be due when sendRequest ends.  The two maps of exceptions by    *)
(* type are one count, because a failed request enters both and both are   *)
(* emptied together.                                                       *)
(***************************************************************************)
EXTENDS TreadmillEvent, Integers, Sequences, FiniteSets

CONSTANTS
  NumWorkers,           \* FLAGS_number_of_workers
  NumConnections,       \* number_of_connections_ of every worker
  WorkerLimit,          \* max_outstanding_requests_ a worker is built with
  FiniteWorkload,       \* TRUE: getNextRequest may return no request
  Failures,             \* how requests may end: TRUE with an exception
  Samples,              \* whether a throughput sample is due: TRUE that it is
  MaxQueue              \* bound: messages the environment puts on a queue

Workers == 0 .. NumWorkers - 1
Connections == 0 .. NumConnections - 1

ASSUME WorkerAssumption ==
  /\ NumWorkers \in Nat \ {0}
  /\ NumConnections \in Nat \ {0}
  /\ WorkerLimit \in Int
  /\ Limits \subseteq Int
  /\ FiniteWorkload \in BOOLEAN
  /\ {Failures, Samples} \subseteq SUBSET BOOLEAN
  /\ MaxQueue \in Nat

VARIABLES
  queues_,   \* messages put on each worker's queue so far
  workers    \* the Worker objects, one record each

workerVars == <<queues_, workers>>

\* The members of a Worker, the position of its thread and what it reported.
\*   pc        none: not run() yet; loop: in the event loop; send, issue, early,
\*             flush: inside sendRequest; exited: the thread has ended
\*   taken     messages consumed from the queue
\*   index     requests drawn from the workload since its last reset()
\*   dropped   history, SEND_REQUESTs met at the limit since the last RESET
\*   stopper   stop() has posted terminateLoopSoon to the event loop
\*   inflight  requests a connection has not completed
\*   counter   the fb303 counter of outstanding requests
\*   throughput, latency, exceptions: totals passed to the statistics
\*   replies, failures: history, requests completed and failed
Worker ==
  [ pc : {"none", "loop", "send", "issue", "early", "flush", "exited"},
    running_ : BOOLEAN, consuming : BOOLEAN, stopper : BOOLEAN,
    taken : Nat, index : Nat, dropped : Nat, phase_ : Phases \cup {NoData},
    max_outstanding_requests_ : Limits \cup {WorkerLimit},
    outstanding_requests_ : Nat, conn_idx_ : Connections, last : Connections,
    inflight : [Connections -> Nat], counter : Nat,
    n_throughput_requests_ : Nat, throughput : Nat, latency : Nat,
    n_exceptions : Nat, exceptions : Nat, replies : Nat, failures : Nat ]

-----------------------------------------------------------------------------
(* Worker::Worker *)

NewWorker ==
  [ pc |-> "none",
    running_ |-> FALSE, consuming |-> FALSE, stopper |-> FALSE,
    taken |-> 0, index |-> 0, dropped |-> 0, phase_ |-> NoData,
    max_outstanding_requests_ |-> WorkerLimit,
    outstanding_requests_ |-> 0, conn_idx_ |-> 0, last |-> 0,
    inflight |-> [c \in Connections |-> 0], counter |-> 0,
    n_throughput_requests_ |-> 0, throughput |-> 0, latency |-> 0,
    n_exceptions |-> 0, exceptions |-> 0, replies |-> 0, failures |-> 0 ]

Init ==
  /\ queues_ = [w \in Workers |-> << >>]
  /\ workers = [w \in Workers |-> NewWorker]

-----------------------------------------------------------------------------
(* Public methods, called by the runner *)

\* Worker w's object is now new.
Becomes(w, new) == workers' = [workers EXCEPT ![w] = new]

\* run(): the flag is set before the thread starts consuming.
run(w) ==
  /\ workers[w].pc = "none"
  /\ Becomes(w, [workers[w] EXCEPT !.pc = "loop", !.running_ = TRUE, !.consuming = TRUE])

\* stop(): may hit the worker inside sendRequest.
stop(w) == Becomes(w, [workers[w] EXCEPT !.running_ = FALSE, !.stopper = TRUE])

\* hasMoreWork()
hasMoreWork(w) ==
  workers[w].running_ \/ workers[w].outstanding_requests_ > 0

-----------------------------------------------------------------------------
(* messageAvailable *)

\* The event loop hands the worker its next message.
Consumes(w, types) ==
  /\ workers[w].pc = "loop"
  /\ workers[w].consuming
  /\ workers[w].taken < Len(queues_[w])
  /\ queues_[w][workers[w].taken + 1].type \in types

EventTypes == {"STOP", "RESET", "SEND_REQUEST", "SET_PHASE", "SET_MAX_OUTSTANDING"}

message(w) == queues_[w][workers[w].taken + 1]

\* Bug: the queue is not detached, so the messages behind STOP are delivered.
StaysAttached == TRUE

\* What stopConsuming() leaves.
attached == FALSE

\* STOP, or any message once running_ is FALSE: stopConsuming().
stopConsuming(w) ==
  /\ Consumes(w, EventTypes)
  /\ message(w).type = "STOP" \/ ~workers[w].running_
  /\ Becomes(w, [workers[w] EXCEPT !.taken = @ + 1, !.consuming = attached,
                                   !.running_ = FALSE])

\* Bug: the workload keeps its position on RESET.
ResetForgotten(index) == index

\* workload_.reset()
rewound(index) == 0

\* RESET: workload_.reset()
reset(w) ==
  /\ Consumes(w, {"RESET"}) /\ workers[w].running_
  /\ Becomes(w, [workers[w] EXCEPT !.taken = @ + 1, !.index = rewound(@),
                                   !.dropped = 0])

\* SEND_REQUEST: enter sendRequest.
sendRequest(w) ==
  /\ Consumes(w, {"SEND_REQUEST"}) /\ workers[w].running_
  /\ Becomes(w, [workers[w] EXCEPT !.taken = @ + 1, !.pc = "send"])

\* Bug: a limit is raised, but not lowered under requests in flight.
NeverLowered(old, new) == IF new < old THEN old ELSE new

\* Bug: the limit is taken for that of all workers and divided among them.
DividesAgain(old, new) == new \div NumWorkers

\* setMaxOutstanding()
newLimit(old, new) == new

\* SET_MAX_OUTSTANDING: requests in flight above a lower limit are kept.
setMaxOutstanding(w) ==
  /\ Consumes(w, {"SET_MAX_OUTSTANDING"}) /\ workers[w].running_
  /\ Becomes(w, [workers[w] EXCEPT !.taken = @ + 1,
                                   !.max_outstanding_requests_ = newLimit(@, message(w).data)])

\* SET_PHASE: workload_.setPhase()
setPhase(w) ==
  /\ Consumes(w, {"SET_PHASE"}) /\ workers[w].running_
  /\ Becomes(w, [workers[w] EXCEPT !.taken = @ + 1, !.phase_ = message(w).data])

messageAvailable(w) ==
  stopConsuming(w) \/ reset(w) \/ sendRequest(w) \/ setMaxOutstanding(w) \/ setPhase(w)

-----------------------------------------------------------------------------
(* sendRequest *)

\* Bug: the limit is compared with <=.
AllowsOneMore(me) ==
  me.outstanding_requests_ <= me.max_outstanding_requests_ /\ me.running_

\* outstanding_requests_ < max_outstanding_requests_ && running_
maySend(me) ==
  me.outstanding_requests_ < me.max_outstanding_requests_ /\ me.running_

\* A worker at its limit drops the request and only updates the statistics.
check(w) ==
  LET me == workers[w] IN
  /\ me.pc = "send"
  /\ Becomes(w, [me EXCEPT
       !.pc = IF maySend(me) THEN "issue" ELSE "flush",
       !.dropped = IF me.outstanding_requests_ < me.max_outstanding_requests_
                     THEN @ ELSE @ + 1])

\* getNextRequest() has no request: running_ becomes FALSE before
\* terminate_early_fn_ is called.
exhausted(w) ==
  /\ workers[w].pc = "issue"
  /\ FiniteWorkload
  /\ Becomes(w, [workers[w] EXCEPT !.pc = "early", !.running_ = FALSE])

\* terminate_early_fn_(), and return without touching the statistics.
terminateEarly(w) ==
  /\ workers[w].pc = "early"
  /\ Becomes(w, [workers[w] EXCEPT !.pc = "loop"])

\* Bug: the index of the next connection is not wrapped.
ConnectionOverrun(conn) == conn + 1

\* conn_idx_ = (conn_idx_ + 1) % number_of_connections_
nextConnection(conn) == (conn + 1) % NumConnections

\* Connection conn has one request more, or one less, to complete.
sent(inflight, conn) == [inflight EXCEPT ![conn] = @ + 1]
answered(inflight, conn) == [inflight EXCEPT ![conn] = @ - 1]

\* A request is drawn and handed to the next connection.
issue(w) ==
  LET me == workers[w] IN
  /\ me.pc = "issue"
  /\ Becomes(w, [me EXCEPT !.pc = "flush",
                           !.index = @ + 1,
                           !.outstanding_requests_ = @ + 1,
                           !.conn_idx_ = nextConnection(@),
                           !.last = me.conn_idx_,
                           !.inflight = sent(@, me.conn_idx_)])

\* Bug: the pending exceptions are added to the statistic and not cleared.
CountsTwice(pending) == pending

\* n_exceptions_by_type_.clear()
cleared(pending) == 0

\* The tail of sendRequest: a throughput sample if one is due, the pending
\* exceptions, the counter.
flush(w, sample) ==
  LET me == workers[w] IN
  /\ me.pc = "flush"
  /\ Becomes(w, [me EXCEPT
       !.pc = "loop",
       !.throughput = IF sample THEN @ + me.n_throughput_requests_ ELSE @,
       !.n_throughput_requests_ = IF sample THEN 0 ELSE @,
       !.exceptions = @ + me.n_exceptions,
       !.n_exceptions = cleared(@),
       !.counter = me.outstanding_requests_])

-----------------------------------------------------------------------------
(* The completion callback *)

\* Where callbacks run: in the event loop, or inside sendRequest when the
\* connection completes the request it was just given.
completes(w, conn) ==
  /\ workers[w].inflight[conn] > 0
  /\ \/ workers[w].pc = "loop"
     \/ workers[w].pc = "flush" /\ workers[w].last = conn

\* Bug: a failed request gives its slot back only if it has a value.
LeaksSlot(outstanding, failed) == IF failed THEN outstanding ELSE outstanding - 1

\* --outstanding_requests_, after the promise is fulfilled either way
slotBack(outstanding, failed) == outstanding - 1

\* Connection conn completes a request with a value or an exception.
reply(w, conn, failed) ==
  LET me == workers[w] IN
  /\ completes(w, conn)
  /\ Becomes(w, [me EXCEPT
       !.inflight = answered(@, conn),
       !.latency = IF me.running_ THEN @ + 1 ELSE @,
       !.n_throughput_requests_ = @ + 1,
       !.n_exceptions = IF failed THEN @ + 1 ELSE @,
       !.outstanding_requests_ = slotBack(@, failed),
       !.counter = slotBack(me.outstanding_requests_, failed),
       !.replies = @ + 1,
       !.failures = IF failed THEN @ + 1 ELSE @])

\* Bug: the event loop goes on until every request is answered.
WaitsForReplies(me) == me.stopper /\ me.outstanding_requests_ = 0

\* terminateLoopSoon() was posted
mayExit(me) == me.stopper

\* The stopper posted by stop() ends the event loop.
exits(w) ==
  /\ workers[w].pc = "loop"
  /\ mayExit(workers[w])
  /\ Becomes(w, [workers[w] EXCEPT !.pc = "exited"])

-----------------------------------------------------------------------------

\* The steps the worker's thread takes by itself.
senderLoop(w) ==
  \/ messageAvailable(w)
  \/ check(w)
  \/ exhausted(w)
  \/ issue(w)
  \/ \E sample \in Samples : flush(w, sample)
  \/ exits(w)

\* The target answers, when it likes or never.
target(w) == \E conn \in Connections, failed \in Failures : reply(w, conn, failed)

\* A message is put on the queue by another thread.
put(w) ==
  /\ Len(queues_[w]) < MaxQueue
  /\ \E e \in Events : queues_' = [queues_ EXCEPT ![w] = Append(@, e)]

\* run() is called before stop(), and stop() once.
runner(w) == run(w) \/ (workers[w].pc # "none" /\ ~workers[w].stopper /\ stop(w))

Next ==
  \E w \in Workers :
    \/ (runner(w) \/ senderLoop(w) \/ terminateEarly(w) \/ target(w)) /\ UNCHANGED queues_
    \/ put(w) /\ UNCHANGED workers

\* Only the worker's own thread is scheduled: the target need not answer.
Fairness == \A w \in Workers :
  WF_workerVars((senderLoop(w) \/ terminateEarly(w)) /\ UNCHANGED queues_)

Spec == Init /\ [][Next]_workerVars /\ Fairness

-----------------------------------------------------------------------------
(* Properties *)

TypeOK ==
  /\ queues_ \in [Workers -> Seq(Events)]
  /\ workers \in [Workers -> Worker]

Consumed(w) == 1 .. workers[w].taken

\* The requests in flight, as places on the connections: a set whose size is
\* the sum of inflight.
InFlight(inflight) == UNION {{c} \X (1 .. inflight[c]) : c \in Connections}

\* The slots in use are exactly the requests in flight, on any mix of
\* successes and failures, and whenever the worker is not in the middle of
\* sendRequest the exported counter says the same.
SlotsExact ==
  \A w \in Workers :
    LET me == workers[w] IN
    /\ me.outstanding_requests_ = Cardinality(InFlight(me.inflight))
    /\ me.pc # "flush" => me.counter = me.outstanding_requests_

\* The limit in force for worker w: the one it was built with, or the last one
\* among the messages it has consumed.
InForce(w, limit) ==
  \/ limit = WorkerLimit
     /\ \A i \in Consumed(w) : queues_[w][i].type # "SET_MAX_OUTSTANDING"
  \/ \E i \in Consumed(w) :
       /\ queues_[w][i] = Event("SET_MAX_OUTSTANDING", limit)
       /\ \A j \in i + 1 .. workers[w].taken : queues_[w][j].type # "SET_MAX_OUTSTANDING"

\* A request is only ever added under the limit in force: after a lower limit
\* arrives the worker sends nothing until replies have brought the requests in
\* flight below it, although none of them is dropped and although stop() may
\* come between the check and the send ("It will only send up to the
\* outstanding requests limit", Worker.h:158).
SendsBelowLimit ==
  [][\A w \in Workers :
       workers'[w].outstanding_requests_ > workers[w].outstanding_requests_ =>
         \E limit \in Limits \cup {WorkerLimit} :
           InForce(w, limit) /\ workers'[w].outstanding_requests_ <= limit]_workerVars

\* Nothing that was put behind STOP reaches the worker.
NothingAfterStop ==
  \A w \in Workers : \A i \in 1 .. workers[w].taken - 1 : queues_[w][i].type # "STOP"

\* Every completed request is counted once in the throughput, and every
\* failed one once in the exceptions, wherever the samples fall.
CountedOnce ==
  \A w \in Workers :
    LET me == workers[w] IN
    /\ me.throughput + me.n_throughput_requests_ = me.replies
    /\ me.exceptions + me.n_exceptions = me.failures
    /\ me.latency <= me.replies

\* Every SEND_REQUEST a running worker has consumed since its last RESET has
\* drawn exactly one request, is about to, or found the worker at its limit, so two
\* runs of the same schedule that never reach the limit draw the same requests
\* ("re-synchronize A/B sides after pausing", Workload.h:41).
DrawsInStep ==
  \A w \in Workers :
    LET me == workers[w] IN
    me.running_ =>
      me.index + me.dropped + (IF me.pc \in {"send", "issue"} THEN 1 ELSE 0) =
        Cardinality({i \in Consumed(w) :
          /\ queues_[w][i].type = "SEND_REQUEST"
          /\ \A j \in i .. me.taken : queues_[w][j].type # "RESET"})

\* Once stop() is called the worker's thread ends, also when its requests
\* are never answered and its queue is not empty.
WorkerExits == \A w \in Workers : workers[w].stopper ~> workers[w].pc = "exited"

=============================================================================
