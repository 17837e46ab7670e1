---------------------------- MODULE WorkerProofs ----------------------------
(***************************************************************************)
(* Theorems about Worker, for any number of workers and connections, any   *)
(* limits and phases, and any stream of messages.                          *)
(*                                                                         *)
(* A step of a worker changes its own object and nothing else, so every    *)
(* invariant is one about a single object and its queue.                   *)
(***************************************************************************)
EXTENDS Worker, FiniteSetTheorems, TLAPS

USE WorkerAssumption

\* A step of worker w's object by its own thread or the target, and by the
\* runner.
OwnStep(w) == senderLoop(w) \/ terminateEarly(w) \/ target(w)
WorkerStep(w) == run(w) \/ stop(w) \/ OwnStep(w)

\* The actions a step of worker w is made of.
LEMMA StepCases ==
  ASSUME NEW w, WorkerStep(w)
  PROVE  \/ run(w) \/ stop(w) \/ stopConsuming(w) \/ reset(w) \/ sendRequest(w)
         \/ setMaxOutstanding(w) \/ setPhase(w) \/ check(w) \/ exhausted(w)
         \/ terminateEarly(w) \/ issue(w) \/ exits(w)
         \/ \E sample \in Samples : flush(w, sample)
         \/ \E conn \in Connections, failed \in Failures : reply(w, conn, failed)
  BY DEF WorkerStep, OwnStep, senderLoop, messageAvailable, target

\* A worker's step leaves the other workers alone.
LEMMA BecomesOne ==
  ASSUME workers \in [Workers -> Worker], NEW w \in Workers, NEW new, Becomes(w, new)
  PROVE  /\ workers'[w] = new
         /\ \A v \in Workers : v # w => workers'[v] = workers[v]
         /\ new \in Worker => workers' \in [Workers -> Worker]
  BY DEF Becomes

\* A message on a queue carries what its type says.
LEMMA MessageTypes ==
  ASSUME TypeOK, NEW w \in Workers, Consumes(w, EventTypes)
  PROVE  /\ message(w) \in Events
         /\ message(w).type = "SET_MAX_OUTSTANDING" => message(w).data \in Limits
         /\ message(w).type = "SET_PHASE" => message(w).data \in Phases
<1>1. queues_[w] \in Seq(Events) /\ workers[w].taken + 1 \in 1 .. Len(queues_[w])
  BY DEF TypeOK, Worker, Consumes
<1>2. message(w) \in Events
  BY <1>1 DEF message
<1> QED
  BY <1>2 DEF Events, Event

\* The next connection is one of the connections.
LEMMA NextConnectionType == \A c \in Connections : nextConnection(c) \in Connections
<1>1. \A a \in Nat : \A n \in Nat \ {0} : a % n \in 0 .. n - 1
  BY SMT
<1> QED
  BY <1>1 DEF nextConnection, Connections

-----------------------------------------------------------------------------
(* Requests and slots *)

\* The requests in flight are finitely many, each holds a slot, and the
\* counter lags only inside sendRequest.
SlotsInv(me) ==
  /\ IsFiniteSet(InFlight(me.inflight))
  /\ me.outstanding_requests_ = Cardinality(InFlight(me.inflight))
  /\ me.pc # "flush" => me.counter = me.outstanding_requests_

\* A request handed to connection c adds one place, a reply of it takes one
\* away.
LEMMA InFlightChange ==
  ASSUME NEW inflight \in [Connections -> Nat], NEW c \in Connections,
         IsFiniteSet(InFlight(inflight))
  PROVE  LET more == sent(inflight, c)
             less == answered(inflight, c)
             n == Cardinality(InFlight(inflight))
         IN  /\ IsFiniteSet(InFlight(more)) /\ Cardinality(InFlight(more)) = n + 1
             /\ inflight[c] > 0 =>
                  /\ IsFiniteSet(InFlight(less)) /\ Cardinality(InFlight(less)) = n - 1
                  /\ n > 0
<1> DEFINE S == InFlight(inflight)
           more == sent(inflight, c)
           less == answered(inflight, c)
<1>0. \A f \in [Connections -> Nat] : \A p :
        p \in InFlight(f) <=> \E d \in Connections, k \in Nat :
                                /\ p = <<d, k>> /\ 1 <= k /\ k <= f[d]
  BY DEF InFlight
<1>1. ASSUME inflight[c] > 0
      PROVE  /\ IsFiniteSet(InFlight(less)) /\ Cardinality(InFlight(less)) = Cardinality(S) - 1
             /\ Cardinality(S) > 0
  <2> DEFINE x == <<c, inflight[c]>>
  <2>1. less \in [Connections -> Nat] /\ less[c] = inflight[c] - 1
        /\ \A d \in Connections : d # c => less[d] = inflight[d]
    BY <1>1 DEF answered
  <2>2. x \in S
    BY <1>0, <1>1
  <2>3. ASSUME NEW p PROVE p \in InFlight(less) <=> p \in S \ {x}
    <3> HIDE DEF less
    <3>1. ASSUME p \in InFlight(less) PROVE p \in S \ {x}
      BY <3>1, <2>1, <1>0
    <3>2. ASSUME p \in S \ {x} PROVE p \in InFlight(less)
      BY <3>2, <2>1, <1>0
    <3> QED
      BY <3>1, <3>2
  <2>4. InFlight(less) = S \ {x}
    BY <2>3
  <2>5. Cardinality(S) \in Nat /\ Cardinality(S) # 0
    BY <2>2, FS_CardinalityType, FS_EmptySet
  <2> QED
    BY <2>2, <2>4, <2>5, FS_RemoveElement
<1>2. IsFiniteSet(InFlight(more)) /\ Cardinality(InFlight(more)) = Cardinality(S) + 1
  <2> DEFINE x == <<c, inflight[c] + 1>>
  <2>1. more \in [Connections -> Nat] /\ more[c] = inflight[c] + 1
        /\ \A d \in Connections : d # c => more[d] = inflight[d]
    BY DEF sent
  <2>2. x \notin S
    BY <1>0
  <2>3. ASSUME NEW p PROVE p \in InFlight(more) <=> p \in S \cup {x}
    <3> HIDE DEF more
    <3>1. ASSUME p \in InFlight(more) PROVE p \in S \cup {x}
      BY <3>1, <2>1, <1>0
    <3>2. ASSUME p \in S PROVE p \in InFlight(more)
      BY <3>2, <2>1, <1>0
    <3>3. x \in InFlight(more)
      BY <2>1, <1>0
    <3> QED
      BY <3>1, <3>2, <3>3
  <2>4. InFlight(more) = S \cup {x}
    BY <2>3
  <2> QED
    <3> HIDE DEF x, S
    <3> QED
      BY <2>2, <2>4, FS_AddElement DEF S
<1> QED
  BY <1>1, <1>2

\* Every step keeps the slots exact.
LEMMA StepSlots ==
  ASSUME TypeOK, NEW w \in Workers, SlotsInv(workers[w]), WorkerStep(w)
  PROVE  SlotsInv(workers'[w])
<1> DEFINE me == workers[w]
<1>0. me \in Worker /\ workers \in [Workers -> Worker]
  BY DEF TypeOK
<1>1. CASE issue(w)
  <2>1. /\ workers'[w].pc = "flush"
        /\ workers'[w].outstanding_requests_ = me.outstanding_requests_ + 1
        /\ workers'[w].inflight = sent(me.inflight, me.conn_idx_)
    BY <1>0, <1>1 DEF Becomes, issue, Worker
  <2> QED
    BY <1>0, <2>1, InFlightChange DEF SlotsInv, Worker
<1>2. ASSUME NEW conn \in Connections, NEW failed \in Failures, reply(w, conn, failed)
      PROVE  SlotsInv(workers'[w])
  <2>1. /\ workers'[w].counter = me.outstanding_requests_ - 1
        /\ workers'[w].outstanding_requests_ = me.outstanding_requests_ - 1
        /\ workers'[w].inflight = answered(me.inflight, conn)
        /\ me.inflight[conn] > 0
    BY <1>0, <1>2 DEF Becomes, reply, completes, slotBack, Worker
  <2> QED
    BY <1>0, <2>1, InFlightChange DEF SlotsInv, Worker
<1>3. ASSUME NEW sample \in Samples, flush(w, sample) PROVE SlotsInv(workers'[w])
  BY <1>0, <1>3 DEF Becomes, flush, SlotsInv, Worker
<1>4. CASE check(w)
  BY <1>0, <1>4 DEF Becomes, check, SlotsInv, Worker
<1>5. CASE run(w)
  BY <1>0, <1>5 DEF Becomes, run, SlotsInv, Worker
<1>6. CASE stop(w)
  BY <1>0, <1>6 DEF Becomes, stop, SlotsInv, Worker
<1>7. CASE exhausted(w)
  BY <1>0, <1>7 DEF Becomes, exhausted, SlotsInv, Worker
<1>8. CASE terminateEarly(w)
  BY <1>0, <1>8 DEF Becomes, terminateEarly, SlotsInv, Worker
<1>9. CASE exits(w)
  BY <1>0, <1>9 DEF Becomes, exits, SlotsInv, Worker
<1>10. CASE stopConsuming(w)
  BY <1>0, <1>10 DEF Becomes, stopConsuming, Consumes, SlotsInv, Worker
<1>11. CASE reset(w)
  BY <1>0, <1>11 DEF Becomes, reset, Consumes, SlotsInv, Worker
<1>12. CASE sendRequest(w)
  BY <1>0, <1>12 DEF Becomes, sendRequest, Consumes, SlotsInv, Worker
<1>13. CASE setMaxOutstanding(w)
  BY <1>0, <1>13 DEF Becomes, setMaxOutstanding, Consumes, SlotsInv, Worker
<1>14. CASE setPhase(w)
  BY <1>0, <1>14 DEF Becomes, setPhase, Consumes, SlotsInv, Worker
<1> QED
  BY <1>1, <1>2, <1>3, <1>4, <1>5, <1>6, <1>7, <1>8, <1>9, <1>10, <1>11, <1>12, <1>13, <1>14, StepCases

-----------------------------------------------------------------------------
(* Type correctness *)

\* Every step keeps the object in its type; a reply finds its slot in use.
LEMMA StepType ==
  ASSUME TypeOK, NEW w \in Workers, SlotsInv(workers[w]), WorkerStep(w)
  PROVE  workers' \in [Workers -> Worker]
<1> DEFINE me == workers[w]
<1>0. me \in Worker /\ workers \in [Workers -> Worker]
  BY DEF TypeOK
<1> SUFFICES \E new \in Worker : Becomes(w, new)
  BY <1>0, BecomesOne
<1>00. /\ me.taken + 1 \in Nat /\ me.index + 1 \in Nat /\ me.outstanding_requests_ + 1 \in Nat
       /\ me.n_throughput_requests_ + 1 \in Nat /\ me.replies + 1 \in Nat
  BY <1>0 DEF Worker
<1>1. CASE run(w)
  BY <1>0, <1>1 DEF run, Worker
<1>2. CASE stop(w)
  BY <1>0, <1>2 DEF stop, Worker
<1>3. CASE exhausted(w)
  BY <1>0, <1>3 DEF exhausted, Worker
<1>4. CASE terminateEarly(w)
  BY <1>0, <1>4 DEF terminateEarly, Worker
<1>5. CASE exits(w)
  BY <1>0, <1>5 DEF exits, Worker
<1>6. CASE check(w)
  <2>1. (IF me.outstanding_requests_ < me.max_outstanding_requests_
           THEN me.dropped ELSE me.dropped + 1) \in Nat
    BY <1>0 DEF Worker
  <2> QED
    BY <1>0, <1>6, <2>1 DEF check, Worker
<1>7. CASE stopConsuming(w)
  <2>1. [me EXCEPT !.taken = @ + 1, !.consuming = attached, !.running_ = FALSE] \in Worker
    BY <1>0, <1>00 DEF attached, Worker
  <2> QED
    BY <1>7, <2>1 DEF stopConsuming
<1>8. CASE reset(w)
  <2>1. [me EXCEPT !.taken = @ + 1, !.index = rewound(@), !.dropped = 0] \in Worker
    BY <1>0, <1>00 DEF rewound, Worker
  <2> QED
    BY <1>8, <2>1 DEF reset
<1>9. CASE sendRequest(w)
  <2>1. [me EXCEPT !.taken = @ + 1, !.pc = "send"] \in Worker
    BY <1>0, <1>00 DEF Worker
  <2> QED
    BY <1>9, <2>1 DEF sendRequest
<1>10. CASE setMaxOutstanding(w)
  <2>1. Consumes(w, EventTypes) /\ message(w).type = "SET_MAX_OUTSTANDING"
    BY <1>10 DEF setMaxOutstanding, Consumes, EventTypes, message
  <2>2. message(w).data \in Limits
    BY <2>1, MessageTypes
  <2> DEFINE new == [me EXCEPT !.taken = @ + 1, !.max_outstanding_requests_ = newLimit(@, message(w).data)]
  <2>3. new \in Worker
    BY <1>0, <1>00, <2>2 DEF newLimit, Worker
  <2> QED
    BY <1>10, <2>3 DEF setMaxOutstanding
<1>11. CASE setPhase(w)
  <2>1. Consumes(w, EventTypes) /\ message(w).type = "SET_PHASE"
    BY <1>11 DEF setPhase, Consumes, EventTypes, message
  <2>2. message(w).data \in Phases
    BY <2>1, MessageTypes
  <2> DEFINE new == [me EXCEPT !.taken = @ + 1, !.phase_ = message(w).data]
  <2>3. new \in Worker
    BY <1>0, <1>00, <2>2 DEF Worker
  <2> QED
    BY <1>11, <2>3 DEF setPhase
<1>12. CASE issue(w)
  <2>1. nextConnection(me.conn_idx_) \in Connections
    BY <1>0, NextConnectionType DEF Worker
  <2>2. sent(me.inflight, me.conn_idx_) \in [Connections -> Nat]
    BY <1>0 DEF sent, Worker
  <2> DEFINE new == [me EXCEPT !.pc = "flush", !.index = @ + 1, !.outstanding_requests_ = @ + 1,
                               !.conn_idx_ = nextConnection(@), !.last = me.conn_idx_,
                               !.inflight = sent(@, me.conn_idx_)]
  <2>3. new \in Worker
    BY <1>0, <1>00, <2>1, <2>2 DEF Worker
  <2> QED
    BY <1>12, <2>3 DEF issue
<1>13. ASSUME NEW sample \in Samples, flush(w, sample) PROVE \E new \in Worker : Becomes(w, new)
  <2>1. /\ (IF sample THEN me.throughput + me.n_throughput_requests_ ELSE me.throughput) \in Nat
        /\ (IF sample THEN 0 ELSE me.n_throughput_requests_) \in Nat
        /\ me.exceptions + me.n_exceptions \in Nat
    BY <1>0 DEF Worker
  <2> QED
    BY <1>0, <1>13, <2>1 DEF flush, cleared, Worker
<1>14. ASSUME NEW conn \in Connections, NEW failed \in Failures, reply(w, conn, failed)
      PROVE  \E new \in Worker : Becomes(w, new)
  <2>1. me.inflight \in [Connections -> Nat] /\ me.inflight[conn] > 0
    BY <1>0, <1>14 DEF reply, completes, Worker
  <2>2. me.outstanding_requests_ - 1 \in Nat
    BY <1>0, <2>1, InFlightChange DEF SlotsInv, Worker
  <2>3. answered(me.inflight, conn) \in [Connections -> Nat]
    BY <2>1 DEF answered
  <2> DEFINE latency == IF me.running_ THEN me.latency + 1 ELSE me.latency
             exceptions == IF failed THEN me.n_exceptions + 1 ELSE me.n_exceptions
             failures == IF failed THEN me.failures + 1 ELSE me.failures
             slots == me.outstanding_requests_ - 1
             inflight == answered(me.inflight, conn)
             new == [me EXCEPT !.inflight = inflight, !.latency = latency,
                               !.n_throughput_requests_ = @ + 1, !.n_exceptions = exceptions,
                               !.outstanding_requests_ = slots, !.counter = slots,
                               !.replies = @ + 1, !.failures = failures]
  <2>4. /\ latency \in Nat /\ exceptions \in Nat /\ failures \in Nat
        /\ slots \in Nat /\ inflight \in [Connections -> Nat]
    BY <1>0, <2>2, <2>3 DEF Worker
  <2>5. Becomes(w, new)
    BY <1>14 DEF reply, slotBack
  <2> HIDE DEF latency, exceptions, failures, slots, inflight
  <2> DEFINE half == [me EXCEPT !.inflight = inflight, !.latency = latency,
                                !.n_throughput_requests_ = @ + 1, !.n_exceptions = exceptions]
  <2>6. half \in Worker /\ half.replies = me.replies
    BY <1>0, <1>00, <2>4 DEF Worker
  <2> HIDE DEF half
  <2>7. [half EXCEPT !.outstanding_requests_ = slots, !.counter = slots,
                     !.replies = @ + 1, !.failures = failures] \in Worker
    BY <1>00, <2>4, <2>6 DEF Worker
  <2>8. new \in Worker
    BY <2>6, <2>7 DEF half
  <2> QED
    BY <2>5, <2>8
<1> QED
  BY <1>1, <1>2, <1>3, <1>4, <1>5, <1>6, <1>7, <1>8, <1>9, <1>10, <1>11, <1>12, <1>13, <1>14, StepCases

-----------------------------------------------------------------------------
(* Consuming messages *)

\* The worker has taken no more messages than were put.
TakenInv(q, me) == me.taken <= Len(q)

\* No STOP is among the first n messages of q.
NoStop(q, n) == \A i \in 1 .. n : q[i].type # "STOP"

\* As long as a worker consumes it has not met STOP, and after that it has
\* consumed nothing.
StopInv(q, me) ==
  /\ me.consuming \/ me.pc = "none" => NoStop(q, me.taken)
  /\ NoStop(q, me.taken - 1)

\* A message that is not STOP extends a prefix without STOP.
LEMMA NoStopStep ==
  ASSUME NEW q, NEW n \in Nat, NoStop(q, n)
  PROVE  /\ NoStop(q, n + 1 - 1)
         /\ q[n + 1].type # "STOP" => NoStop(q, n + 1)
<1>1. \A i \in 1 .. n + 1 : i \in 1 .. n \/ i = n + 1
  OBVIOUS
<1> QED
  BY <1>1 DEF NoStop

\* A worker takes one message at a time, and only one that was put.
LEMMA StepTaken ==
  ASSUME TypeOK, NEW w \in Workers, TakenInv(queues_[w], workers[w]), WorkerStep(w)
  PROVE  TakenInv(queues_[w], workers'[w])
<1> DEFINE me == workers[w]
           q == queues_[w]
<1>0. me \in Worker /\ workers \in [Workers -> Worker] /\ me.taken \in Nat
  BY DEF TypeOK, Worker
<1>1. CASE run(w)
  BY <1>0, <1>1 DEF Becomes, run, TakenInv, Worker
<1>2. CASE stop(w)
  BY <1>0, <1>2 DEF Becomes, stop, TakenInv, Worker
<1>3. CASE exhausted(w)
  BY <1>0, <1>3 DEF Becomes, exhausted, TakenInv, Worker
<1>4. CASE terminateEarly(w)
  BY <1>0, <1>4 DEF Becomes, terminateEarly, TakenInv, Worker
<1>5. CASE exits(w)
  BY <1>0, <1>5 DEF Becomes, exits, TakenInv, Worker
<1>6. CASE check(w)
  BY <1>0, <1>6 DEF Becomes, check, TakenInv, Worker
<1>7. CASE stopConsuming(w)
  <2>1. workers'[w].taken = me.taken + 1 /\ me.taken < Len(q)
    BY <1>0, <1>7 DEF Becomes, stopConsuming, Consumes, Worker
  <2>2. Len(q) \in Nat
    BY DEF TypeOK
  <2> QED
    BY <1>0, <2>1, <2>2 DEF TakenInv
<1>8. CASE reset(w)
  <2>1. workers'[w].taken = me.taken + 1 /\ me.taken < Len(q)
    BY <1>0, <1>8 DEF Becomes, reset, Consumes, Worker
  <2>2. Len(q) \in Nat
    BY DEF TypeOK
  <2> QED
    BY <1>0, <2>1, <2>2 DEF TakenInv
<1>9. CASE sendRequest(w)
  <2>1. workers'[w].taken = me.taken + 1 /\ me.taken < Len(q)
    BY <1>0, <1>9 DEF Becomes, sendRequest, Consumes, Worker
  <2>2. Len(q) \in Nat
    BY DEF TypeOK
  <2> QED
    BY <1>0, <2>1, <2>2 DEF TakenInv
<1>10. CASE setMaxOutstanding(w)
  <2>1. workers'[w].taken = me.taken + 1 /\ me.taken < Len(q)
    BY <1>0, <1>10 DEF Becomes, setMaxOutstanding, Consumes, Worker
  <2>2. Len(q) \in Nat
    BY DEF TypeOK
  <2> QED
    BY <1>0, <2>1, <2>2 DEF TakenInv
<1>11. CASE setPhase(w)
  <2>1. workers'[w].taken = me.taken + 1 /\ me.taken < Len(q)
    BY <1>0, <1>11 DEF Becomes, setPhase, Consumes, Worker
  <2>2. Len(q) \in Nat
    BY DEF TypeOK
  <2> QED
    BY <1>0, <2>1, <2>2 DEF TakenInv
<1>12. CASE issue(w)
  BY <1>0, <1>12 DEF Becomes, issue, TakenInv, Worker
<1>13. ASSUME NEW sample \in Samples, flush(w, sample) PROVE TakenInv(queues_[w], workers'[w])
  BY <1>0, <1>13 DEF Becomes, flush, TakenInv, Worker
<1>14. ASSUME NEW conn \in Connections, NEW failed \in Failures, reply(w, conn, failed)
      PROVE  TakenInv(queues_[w], workers'[w])
  BY <1>0, <1>14 DEF Becomes, reply, TakenInv, Worker
<1> QED
  BY <1>1, <1>2, <1>3, <1>4, <1>5, <1>6, <1>7, <1>8, <1>9, <1>10, <1>11, <1>12, <1>13, <1>14, StepCases

\* The worker stops consuming when it meets STOP.
LEMMA StepStop ==
  ASSUME TypeOK, NEW w \in Workers, StopInv(queues_[w], workers[w]), WorkerStep(w)
  PROVE  StopInv(queues_[w], workers'[w])
<1> DEFINE me == workers[w]
           q == queues_[w]
<1>0. me \in Worker /\ workers \in [Workers -> Worker] /\ me.taken \in Nat
  BY DEF TypeOK, Worker
<1>1. CASE run(w)
  BY <1>0, <1>1 DEF Becomes, run, StopInv, Worker
<1>2. CASE stop(w)
  BY <1>0, <1>2 DEF Becomes, stop, StopInv, Worker
<1>3. CASE exhausted(w)
  BY <1>0, <1>3 DEF Becomes, exhausted, StopInv, Worker
<1>4. CASE terminateEarly(w)
  BY <1>0, <1>4 DEF Becomes, terminateEarly, StopInv, Worker
<1>5. CASE exits(w)
  BY <1>0, <1>5 DEF Becomes, exits, StopInv, Worker
<1>6. CASE check(w)
  BY <1>0, <1>6 DEF Becomes, check, StopInv, Worker
<1>7. CASE stopConsuming(w)
  <2>1. /\ workers'[w].taken = me.taken + 1 /\ ~workers'[w].consuming
        /\ workers'[w].pc = "loop" /\ me.consuming
    BY <1>0, <1>7 DEF Becomes, stopConsuming, attached, Consumes, Worker
  <2> QED
    BY <1>0, <2>1, NoStopStep DEF StopInv
<1>8. CASE reset(w)
  <2>1. /\ workers'[w].taken = me.taken + 1 /\ me.consuming /\ q[me.taken + 1].type = "RESET"
    BY <1>0, <1>8 DEF Becomes, reset, Consumes, Worker
  <2> QED
    BY <1>0, <2>1, NoStopStep DEF StopInv
<1>9. CASE sendRequest(w)
  <2>1. /\ workers'[w].taken = me.taken + 1 /\ me.consuming /\ q[me.taken + 1].type = "SEND_REQUEST"
    BY <1>0, <1>9 DEF Becomes, sendRequest, Consumes, Worker
  <2> QED
    BY <1>0, <2>1, NoStopStep DEF StopInv
<1>10. CASE setMaxOutstanding(w)
  <2>1. /\ workers'[w].taken = me.taken + 1 /\ me.consuming /\ q[me.taken + 1].type = "SET_MAX_OUTSTANDING"
    BY <1>0, <1>10 DEF Becomes, setMaxOutstanding, Consumes, Worker
  <2> QED
    BY <1>0, <2>1, NoStopStep DEF StopInv
<1>11. CASE setPhase(w)
  <2>1. /\ workers'[w].taken = me.taken + 1 /\ me.consuming /\ q[me.taken + 1].type = "SET_PHASE"
    BY <1>0, <1>11 DEF Becomes, setPhase, Consumes, Worker
  <2> QED
    BY <1>0, <2>1, NoStopStep DEF StopInv
<1>12. CASE issue(w)
  BY <1>0, <1>12 DEF Becomes, issue, StopInv, Worker
<1>13. ASSUME NEW sample \in Samples, flush(w, sample) PROVE StopInv(queues_[w], workers'[w])
  BY <1>0, <1>13 DEF Becomes, flush, StopInv, Worker
<1>14. ASSUME NEW conn \in Connections, NEW failed \in Failures, reply(w, conn, failed)
      PROVE  StopInv(queues_[w], workers'[w])
  BY <1>0, <1>14 DEF Becomes, reply, StopInv, Worker
<1> QED
  BY <1>1, <1>2, <1>3, <1>4, <1>5, <1>6, <1>7, <1>8, <1>9, <1>10, <1>11, <1>12, <1>13, <1>14, StepCases

-----------------------------------------------------------------------------
(* Limits *)

\* After the first n messages of q the limit is m.
LastGiven(q, n, m) ==
  \/ m = WorkerLimit /\ \A i \in 1 .. n : q[i].type # "SET_MAX_OUTSTANDING"
  \/ \E i \in 1 .. n :
       /\ q[i] = Event("SET_MAX_OUTSTANDING", m)
       /\ \A j \in i + 1 .. n : q[j].type # "SET_MAX_OUTSTANDING"

\* As long as the worker may send, its limit is the last one it was given; one
\* that is about to send is below it.
LimitInv(q, me) ==
  /\ me.running_ \/ me.pc \in {"none", "send", "issue"}
       => LastGiven(q, me.taken, me.max_outstanding_requests_)
  /\ me.pc = "issue" => me.outstanding_requests_ < me.max_outstanding_requests_

\* What one more message does to the limit.
LEMMA LastGivenStep ==
  ASSUME NEW q, NEW n \in Nat, NEW m
  PROVE  /\ q[n + 1] = Event("SET_MAX_OUTSTANDING", m) => LastGiven(q, n + 1, m)
         /\ q[n + 1].type # "SET_MAX_OUTSTANDING" /\ LastGiven(q, n, m)
              => LastGiven(q, n + 1, m)
<1>1. ASSUME q[n + 1] = Event("SET_MAX_OUTSTANDING", m) PROVE LastGiven(q, n + 1, m)
  <2>1. n + 1 \in 1 .. n + 1 /\ (n + 1) + 1 .. n + 1 = {}
    OBVIOUS
  <2> QED
    BY <1>1, <2>1 DEF LastGiven
<1>2. ASSUME q[n + 1].type # "SET_MAX_OUTSTANDING",
             m = WorkerLimit, \A i \in 1 .. n : q[i].type # "SET_MAX_OUTSTANDING"
      PROVE  LastGiven(q, n + 1, m)
  <2>1. \A i \in 1 .. n + 1 : i \in 1 .. n \/ i = n + 1
    OBVIOUS
  <2> QED
    BY <1>2, <2>1 DEF LastGiven
<1>3. ASSUME q[n + 1].type # "SET_MAX_OUTSTANDING",
             NEW i \in 1 .. n, q[i] = Event("SET_MAX_OUTSTANDING", m),
             \A j \in i + 1 .. n : q[j].type # "SET_MAX_OUTSTANDING"
      PROVE  LastGiven(q, n + 1, m)
  <2>1. i \in 1 .. n + 1 /\ \A j \in i + 1 .. n + 1 : j \in i + 1 .. n \/ j = n + 1
    OBVIOUS
  <2> QED
    BY <1>3, <2>1 DEF LastGiven
<1> QED
  BY <1>1, <1>2, <1>3 DEF LastGiven

\* A request is issued only below the limit in force.
LEMMA StepLimit ==
  ASSUME TypeOK, NEW w \in Workers, LimitInv(queues_[w], workers[w]), WorkerStep(w)
  PROVE  LimitInv(queues_[w], workers'[w])
<1> DEFINE me == workers[w]
           q == queues_[w]
<1>0. me \in Worker /\ workers \in [Workers -> Worker] /\ me.taken \in Nat
  BY DEF TypeOK, Worker
<1>1. CASE run(w)
  BY <1>0, <1>1 DEF Becomes, run, LimitInv, Worker
<1>2. CASE stop(w)
  BY <1>0, <1>2 DEF Becomes, stop, LimitInv, Worker
<1>3. CASE exhausted(w)
  BY <1>0, <1>3 DEF Becomes, exhausted, LimitInv, Worker
<1>4. CASE terminateEarly(w)
  BY <1>0, <1>4 DEF Becomes, terminateEarly, LimitInv, Worker
<1>5. CASE exits(w)
  BY <1>0, <1>5 DEF Becomes, exits, LimitInv, Worker
<1>6. CASE check(w)
  BY <1>0, <1>6 DEF Becomes, check, maySend, LimitInv, Worker
<1>7. CASE stopConsuming(w)
  <2>1. ~workers'[w].running_ /\ workers'[w].pc = "loop"
    BY <1>0, <1>7 DEF Becomes, stopConsuming, Consumes, Worker
  <2> QED
    BY <2>1 DEF LimitInv
<1>8. CASE reset(w)
  <2>1. /\ workers'[w].taken = me.taken + 1 /\ workers'[w].pc # "issue"
        /\ workers'[w].max_outstanding_requests_ = me.max_outstanding_requests_
        /\ me.running_ /\ q[me.taken + 1].type # "SET_MAX_OUTSTANDING"
    BY <1>0, <1>8 DEF Becomes, reset, Consumes, Worker
  <2> QED
    BY <1>0, <2>1, LastGivenStep DEF LimitInv
<1>9. CASE sendRequest(w)
  <2>1. /\ workers'[w].taken = me.taken + 1 /\ workers'[w].pc # "issue"
        /\ workers'[w].max_outstanding_requests_ = me.max_outstanding_requests_
        /\ me.running_ /\ q[me.taken + 1].type # "SET_MAX_OUTSTANDING"
    BY <1>0, <1>9 DEF Becomes, sendRequest, Consumes, Worker
  <2> QED
    BY <1>0, <2>1, LastGivenStep DEF LimitInv
<1>11. CASE setPhase(w)
  <2>1. /\ workers'[w].taken = me.taken + 1 /\ workers'[w].pc # "issue"
        /\ workers'[w].max_outstanding_requests_ = me.max_outstanding_requests_
        /\ me.running_ /\ q[me.taken + 1].type # "SET_MAX_OUTSTANDING"
    BY <1>0, <1>11 DEF Becomes, setPhase, Consumes, Worker
  <2> QED
    BY <1>0, <2>1, LastGivenStep DEF LimitInv
<1>10. CASE setMaxOutstanding(w)
  <2>1. Consumes(w, EventTypes) /\ message(w).type = "SET_MAX_OUTSTANDING"
    BY <1>10 DEF setMaxOutstanding, Consumes, EventTypes, message
  <2>2. q[me.taken + 1] = Event("SET_MAX_OUTSTANDING", message(w).data)
    BY <2>1, MessageTypes DEF message, Events, Event
  <2>3. /\ workers'[w].taken = me.taken + 1 /\ workers'[w].pc # "issue"
        /\ workers'[w].max_outstanding_requests_ = message(w).data
    BY <1>0, <1>10 DEF Becomes, setMaxOutstanding, newLimit, Consumes, Worker
  <2> QED
    BY <1>0, <2>2, <2>3, LastGivenStep DEF LimitInv
<1>12. CASE issue(w)
  BY <1>0, <1>12 DEF Becomes, issue, LimitInv, Worker
<1>13. ASSUME NEW sample \in Samples, flush(w, sample) PROVE LimitInv(queues_[w], workers'[w])
  BY <1>0, <1>13 DEF Becomes, flush, LimitInv, Worker
<1>14. ASSUME NEW conn \in Connections, NEW failed \in Failures, reply(w, conn, failed)
      PROVE  LimitInv(queues_[w], workers'[w])
  <2>1. /\ workers'[w].taken = me.taken /\ workers'[w].pc = me.pc /\ me.pc \in {"loop", "flush"}
        /\ workers'[w].running_ = me.running_
        /\ workers'[w].max_outstanding_requests_ = me.max_outstanding_requests_
    BY <1>0, <1>14 DEF Becomes, reply, completes, Worker
  <2> QED
    BY <2>1 DEF LimitInv
<1> QED
  BY <1>1, <1>2, <1>3, <1>4, <1>5, <1>6, <1>7, <1>8, <1>9, <1>10, <1>11, <1>12, <1>13, <1>14, StepCases

-----------------------------------------------------------------------------
(* Statistics *)

\* What was completed is either in the statistics or still pending.
CountInv(me) ==
  /\ me.throughput + me.n_throughput_requests_ = me.replies
  /\ me.exceptions + me.n_exceptions = me.failures
  /\ me.latency <= me.replies

\* Every step keeps the counts.
LEMMA StepCount ==
  ASSUME TypeOK, NEW w \in Workers, CountInv(workers[w]), WorkerStep(w)
  PROVE  CountInv(workers'[w])
<1> DEFINE me == workers[w]
           q == queues_[w]
<1>0. me \in Worker /\ workers \in [Workers -> Worker] /\ me.taken \in Nat
  BY DEF TypeOK, Worker
<1>1. CASE run(w)
  BY <1>0, <1>1 DEF Becomes, run, CountInv, Worker
<1>2. CASE stop(w)
  BY <1>0, <1>2 DEF Becomes, stop, CountInv, Worker
<1>3. CASE exhausted(w)
  BY <1>0, <1>3 DEF Becomes, exhausted, CountInv, Worker
<1>4. CASE terminateEarly(w)
  BY <1>0, <1>4 DEF Becomes, terminateEarly, CountInv, Worker
<1>5. CASE exits(w)
  BY <1>0, <1>5 DEF Becomes, exits, CountInv, Worker
<1>6. CASE check(w)
  BY <1>0, <1>6 DEF Becomes, check, CountInv, Worker
<1>7. CASE stopConsuming(w)
  BY <1>0, <1>7 DEF Becomes, stopConsuming, CountInv, Worker
<1>8. CASE reset(w)
  BY <1>0, <1>8 DEF Becomes, reset, CountInv, Worker
<1>9. CASE sendRequest(w)
  BY <1>0, <1>9 DEF Becomes, sendRequest, CountInv, Worker
<1>10. CASE setMaxOutstanding(w)
  BY <1>0, <1>10 DEF Becomes, setMaxOutstanding, CountInv, Worker
<1>11. CASE setPhase(w)
  BY <1>0, <1>11 DEF Becomes, setPhase, CountInv, Worker
<1>12. CASE issue(w)
  BY <1>0, <1>12 DEF Becomes, issue, CountInv, Worker
<1>13. ASSUME NEW sample \in Samples, flush(w, sample) PROVE CountInv(workers'[w])
  <2>1. /\ workers'[w].throughput =
             IF sample THEN me.throughput + me.n_throughput_requests_ ELSE me.throughput
        /\ workers'[w].n_throughput_requests_ = IF sample THEN 0 ELSE me.n_throughput_requests_
        /\ workers'[w].exceptions = me.exceptions + me.n_exceptions
        /\ workers'[w].n_exceptions = 0
        /\ workers'[w].latency = me.latency /\ workers'[w].replies = me.replies
        /\ workers'[w].failures = me.failures
    BY <1>0, <1>13 DEF Becomes, flush, cleared, Worker
  <2> QED
    BY <1>0, <2>1 DEF CountInv, Worker
<1>14. ASSUME NEW conn \in Connections, NEW failed \in Failures, reply(w, conn, failed)
      PROVE  CountInv(workers'[w])
  <2>1. /\ workers'[w].throughput = me.throughput
        /\ workers'[w].n_throughput_requests_ = me.n_throughput_requests_ + 1
        /\ workers'[w].exceptions = me.exceptions
        /\ workers'[w].n_exceptions = IF failed THEN me.n_exceptions + 1 ELSE me.n_exceptions
        /\ workers'[w].latency = IF me.running_ THEN me.latency + 1 ELSE me.latency
        /\ workers'[w].replies = me.replies + 1
        /\ workers'[w].failures = IF failed THEN me.failures + 1 ELSE me.failures
    BY <1>0, <1>14 DEF Becomes, reply, Worker
  <2> QED
    BY <1>0, <2>1 DEF CountInv, Worker
<1> QED
  BY <1>1, <1>2, <1>3, <1>4, <1>5, <1>6, <1>7, <1>8, <1>9, <1>10, <1>11, <1>12, <1>13, <1>14, StepCases

-----------------------------------------------------------------------------
(* The workload's position *)

\* The requests asked for by the first n messages of q since the last RESET.
Asked(q, n) ==
  {i \in 1 .. n : q[i].type = "SEND_REQUEST" /\ \A j \in i .. n : q[j].type # "RESET"}

Inside(me) == IF me.pc \in {"send", "issue"} THEN 1 ELSE 0

\* A running worker has drawn or dropped every request it was asked for; the one
\* it is about to draw counts.
DrawInv(q, me) ==
  /\ me.pc = "none" => me.index = 0 /\ me.dropped = 0 /\ me.taken = 0
  /\ me.running_ => me.index + me.dropped + Inside(me) = Cardinality(Asked(q, me.taken))

\* How one more message changes what was asked for.
LEMMA AskedStep ==
  ASSUME NEW q, NEW n \in Nat
  PROVE  /\ Cardinality(Asked(q, n)) \in Nat
         /\ q[n + 1].type = "SEND_REQUEST" =>
              Cardinality(Asked(q, n + 1)) = Cardinality(Asked(q, n)) + 1
         /\ q[n + 1].type \notin {"SEND_REQUEST", "RESET"} =>
              Cardinality(Asked(q, n + 1)) = Cardinality(Asked(q, n))
         /\ q[n + 1].type = "RESET" => Cardinality(Asked(q, n + 1)) = 0
         /\ Cardinality(Asked(q, 0)) = 0
<1>1. \A m \in Nat : IsFiniteSet(Asked(q, m)) /\ Cardinality(Asked(q, m)) \in Nat
  <2> TAKE m \in Nat
  <2>1. IsFiniteSet(1 .. m) /\ Asked(q, m) \in SUBSET (1 .. m)
    BY FS_Interval DEF Asked
  <2>2. IsFiniteSet(Asked(q, m))
    BY <2>1, FS_Subset
  <2> QED
    BY <2>2, FS_CardinalityType
<1>2. \A i \in 1 .. n : \A j : j \in i .. n + 1 <=> j \in i .. n \/ j = n + 1
  OBVIOUS
<1>3. \A i : i \in 1 .. n + 1 <=> i \in 1 .. n \/ i = n + 1
  OBVIOUS
<1>4. \A j : j \in n + 1 .. n + 1 <=> j = n + 1
  OBVIOUS
<1>5. ASSUME q[n + 1].type = "SEND_REQUEST"
      PROVE  Cardinality(Asked(q, n + 1)) = Cardinality(Asked(q, n)) + 1
  <2>1. n + 1 \notin Asked(q, n)
    BY DEF Asked
  <2>2. ASSUME NEW i PROVE i \in Asked(q, n + 1) <=> i \in Asked(q, n) \cup {n + 1}
    <3>1. CASE i \in 1 .. n
      BY <1>2, <1>3, <1>5, <3>1 DEF Asked
    <3>2. CASE i = n + 1
      BY <1>3, <1>4, <1>5, <3>2 DEF Asked
    <3>3. CASE i \notin 1 .. n + 1
      BY <1>3, <3>3 DEF Asked
    <3> QED
      BY <1>3, <3>1, <3>2, <3>3
  <2>3. Asked(q, n + 1) = Asked(q, n) \cup {n + 1}
    BY <2>2
  <2> QED
    BY <1>1, <2>1, <2>3, FS_AddElement
<1>6. ASSUME q[n + 1].type \notin {"SEND_REQUEST", "RESET"}
      PROVE  Cardinality(Asked(q, n + 1)) = Cardinality(Asked(q, n))
  <2>1. ASSUME NEW i PROVE i \in Asked(q, n + 1) <=> i \in Asked(q, n)
    <3>1. CASE i \in 1 .. n
      BY <1>2, <1>3, <1>6, <3>1 DEF Asked
    <3>2. CASE i \notin 1 .. n
      BY <1>3, <1>6, <3>2 DEF Asked
    <3> QED
      BY <3>1, <3>2
  <2>2. Asked(q, n + 1) = Asked(q, n)
    BY <2>1
  <2> QED
    BY <2>2
<1>7. ASSUME q[n + 1].type = "RESET" PROVE Cardinality(Asked(q, n + 1)) = 0
  <2>1. ASSUME NEW i \in 1 .. n + 1 PROVE n + 1 \in i .. n + 1
    OBVIOUS
  <2>2. Asked(q, n + 1) = {}
    BY <1>7, <2>1 DEF Asked
  <2> QED
    BY <2>2, FS_EmptySet
<1>8. Cardinality(Asked(q, 0)) = 0
  <2>1. Asked(q, 0) = {}
    BY DEF Asked
  <2> QED
    BY <2>1, FS_EmptySet
<1> QED
  BY <1>1, <1>5, <1>6, <1>7, <1>8

\* A worker draws or drops one request for each SEND_REQUEST, from the beginning
\* after a RESET.
LEMMA StepDraw ==
  ASSUME TypeOK, NEW w \in Workers, DrawInv(queues_[w], workers[w]), WorkerStep(w)
  PROVE  DrawInv(queues_[w], workers'[w])
<1> DEFINE me == workers[w]
           q == queues_[w]
<1>0. me \in Worker /\ workers \in [Workers -> Worker] /\ me.taken \in Nat
  BY DEF TypeOK, Worker
<1>00. Cardinality(Asked(q, me.taken)) \in Nat /\ me.index \in Nat /\ me.dropped \in Nat
  BY <1>0, AskedStep DEF Worker
<1>1. CASE run(w)
  <2>1. /\ me.pc = "none" /\ workers'[w].pc = "loop" /\ workers'[w].taken = me.taken
        /\ workers'[w].index = me.index /\ workers'[w].dropped = me.dropped
    BY <1>0, <1>1 DEF Becomes, run, Worker
  <2>2. me.index = 0 /\ me.dropped = 0 /\ me.taken = 0
    BY <2>1 DEF DrawInv
  <2>3. Cardinality(Asked(q, 0)) = 0
    BY AskedStep
  <2> QED
    BY <2>1, <2>2, <2>3 DEF Inside, DrawInv
<1>2. CASE stop(w)
  BY <1>0, <1>00, <1>2 DEF Becomes, stop, Inside, DrawInv, Worker
<1>3. CASE exhausted(w)
  BY <1>0, <1>00, <1>3 DEF Becomes, exhausted, Inside, DrawInv, Worker
<1>4. CASE terminateEarly(w)
  BY <1>0, <1>00, <1>4 DEF Becomes, terminateEarly, Inside, DrawInv, Worker
<1>5. CASE exits(w)
  BY <1>0, <1>00, <1>5 DEF Becomes, exits, Inside, DrawInv, Worker
<1>6. CASE check(w)
  <2>1. /\ me.pc = "send" /\ workers'[w].taken = me.taken /\ workers'[w].running_ = me.running_
        /\ workers'[w].index = me.index
        /\ workers'[w].pc = IF maySend(me) THEN "issue" ELSE "flush"
        /\ workers'[w].dropped = IF me.outstanding_requests_ < me.max_outstanding_requests_
                                   THEN me.dropped ELSE me.dropped + 1
    BY <1>0, <1>6 DEF Becomes, check, Worker
  <2>2. CASE me.running_ /\ me.outstanding_requests_ < me.max_outstanding_requests_
    <3>1. workers'[w].pc = "issue" /\ workers'[w].dropped = me.dropped
      BY <2>1, <2>2 DEF maySend
    <3> QED
      BY <1>00, <2>1, <3>1 DEF Inside, DrawInv
  <2>3. CASE me.running_ /\ ~(me.outstanding_requests_ < me.max_outstanding_requests_)
    <3>1. workers'[w].pc = "flush" /\ workers'[w].dropped = me.dropped + 1
      BY <2>1, <2>3 DEF maySend
    <3> QED
      BY <1>00, <2>1, <3>1 DEF Inside, DrawInv
  <2>4. CASE ~me.running_
    BY <2>1, <2>4 DEF DrawInv
  <2> QED
    BY <2>2, <2>3, <2>4
<1>7. CASE stopConsuming(w)
  <2>1. ~workers'[w].running_ /\ workers'[w].pc = "loop"
    BY <1>0, <1>7 DEF Becomes, stopConsuming, Consumes, Worker
  <2> QED
    BY <2>1 DEF DrawInv
<1>8. CASE reset(w)
  <2>1. /\ workers'[w].taken = me.taken + 1 /\ workers'[w].index = 0 /\ workers'[w].pc = "loop"
        /\ workers'[w].dropped = 0 /\ q[me.taken + 1].type = "RESET"
    BY <1>0, <1>8 DEF Becomes, reset, rewound, Consumes, Worker
  <2>2. Cardinality(Asked(q, me.taken + 1)) = 0
    BY <1>0, <2>1, AskedStep
  <2> QED
    BY <2>1, <2>2 DEF Inside, DrawInv
<1>9. CASE sendRequest(w)
  <2>1. /\ workers'[w].taken = me.taken + 1 /\ workers'[w].running_ = me.running_
        /\ me.pc = "loop" /\ workers'[w].pc = "send" /\ workers'[w].index = me.index
        /\ workers'[w].dropped = me.dropped
        /\ q[me.taken + 1].type = "SEND_REQUEST"
    BY <1>0, <1>9 DEF Becomes, sendRequest, Consumes, Worker
  <2> QED
    BY <1>0, <1>00, <2>1, AskedStep DEF Inside, DrawInv
<1>10. CASE setMaxOutstanding(w)
  <2>1. /\ workers'[w].taken = me.taken + 1 /\ workers'[w].running_ = me.running_
        /\ me.pc = "loop" /\ workers'[w].pc = "loop" /\ workers'[w].index = me.index
        /\ workers'[w].dropped = me.dropped
        /\ q[me.taken + 1].type = "SET_MAX_OUTSTANDING"
    BY <1>0, <1>10 DEF Becomes, setMaxOutstanding, Consumes, Worker
  <2> QED
    BY <1>0, <1>00, <2>1, AskedStep DEF Inside, DrawInv
<1>11. CASE setPhase(w)
  <2>1. /\ workers'[w].taken = me.taken + 1 /\ workers'[w].running_ = me.running_
        /\ me.pc = "loop" /\ workers'[w].pc = "loop" /\ workers'[w].index = me.index
        /\ workers'[w].dropped = me.dropped
        /\ q[me.taken + 1].type = "SET_PHASE"
    BY <1>0, <1>11 DEF Becomes, setPhase, Consumes, Worker
  <2> QED
    BY <1>0, <1>00, <2>1, AskedStep DEF Inside, DrawInv
<1>12. CASE issue(w)
  <2>1. /\ workers'[w].taken = me.taken /\ workers'[w].running_ = me.running_
        /\ me.pc = "issue" /\ workers'[w].pc = "flush" /\ workers'[w].index = me.index + 1
        /\ workers'[w].dropped = me.dropped
    BY <1>0, <1>12 DEF Becomes, issue, Worker
  <2> QED
    BY <1>00, <2>1 DEF Inside, DrawInv
<1>13. ASSUME NEW sample \in Samples, flush(w, sample) PROVE DrawInv(queues_[w], workers'[w])
  BY <1>0, <1>00, <1>13 DEF Becomes, flush, Inside, DrawInv, Worker
<1>14. ASSUME NEW conn \in Connections, NEW failed \in Failures, reply(w, conn, failed)
      PROVE  DrawInv(queues_[w], workers'[w])
  <2>1. /\ workers'[w].taken = me.taken /\ workers'[w].running_ = me.running_
        /\ workers'[w].pc = me.pc /\ workers'[w].index = me.index
        /\ workers'[w].dropped = me.dropped
    BY <1>0, <1>14 DEF Becomes, reply, Worker
  <2> QED
    BY <2>1 DEF Inside, DrawInv
<1> QED
  BY <1>1, <1>2, <1>3, <1>4, <1>5, <1>6, <1>7, <1>8, <1>9, <1>10, <1>11, <1>12, <1>13, <1>14, StepCases

-----------------------------------------------------------------------------
(* The specification *)

\* What holds of a worker and its queue.
OneInv(q, me) ==
  SlotsInv(me) /\ TakenInv(q, me) /\ StopInv(q, me) /\ LimitInv(q, me) /\ CountInv(me)
    /\ DrawInv(q, me)

WorkersInv == TypeOK /\ \A w \in Workers : OneInv(queues_[w], workers[w])

\* A message put behind those consumed changes nothing of what holds.
LEMMA PutOne ==
  ASSUME NEW q \in Seq(Events), NEW e \in Events, NEW me \in Worker, OneInv(q, me)
  PROVE  OneInv(Append(q, e), me)
<1> DEFINE r == Append(q, e)
<1>1. me.taken \in Nat /\ me.taken <= Len(q) /\ Len(q) \in Nat
  BY DEF OneInv, TakenInv, Worker
<1>2. Len(r) = Len(q) + 1 /\ \A i \in 1 .. Len(q) : r[i] = q[i]
  OBVIOUS
<1>3. \A i \in 1 .. me.taken : i \in 1 .. Len(q)
  BY <1>1
<1>4. TakenInv(r, me)
  BY <1>1, <1>2 DEF TakenInv
<1> HIDE DEF r
<1>5. StopInv(r, me)
  <2>1. \A i \in 1 .. me.taken - 1 : i \in 1 .. Len(q)
    BY <1>1
  <2> QED
    BY <1>2, <1>3, <2>1 DEF OneInv, StopInv, NoStop
<1>6. LimitInv(r, me)
  <2>1. \A i \in 1 .. me.taken : \A j \in i + 1 .. me.taken : j \in 1 .. Len(q)
    BY <1>1
  <2>2. LastGiven(q, me.taken, me.max_outstanding_requests_)
          => LastGiven(r, me.taken, me.max_outstanding_requests_)
    BY <1>2, <1>3, <2>1 DEF LastGiven
  <2> QED
    BY <2>2 DEF OneInv, LimitInv
<1>7. DrawInv(r, me)
  <2>1. \A i \in 1 .. me.taken : \A j \in i .. me.taken : j \in 1 .. Len(q)
    BY <1>1
  <2>2. Asked(r, me.taken) = Asked(q, me.taken)
    BY <1>2, <1>3, <2>1 DEF Asked
  <2> QED
    BY <2>2 DEF OneInv, DrawInv
<1> QED
  BY <1>4, <1>5, <1>6, <1>7 DEF OneInv, r

\* Init establishes the invariant.
LEMMA InitWorkers == Init => WorkersInv
<1> SUFFICES ASSUME Init PROVE WorkersInv
  OBVIOUS
<1>1. 0 \in Connections
  BY DEF Connections
<1>2. NewWorker \in Worker
  BY <1>1 DEF NewWorker, Worker
<1>3. TypeOK
  BY <1>2 DEF Init, TypeOK
<1>4. InFlight([c \in Connections |-> 0]) = {}
  BY DEF InFlight
<1>5. SlotsInv(NewWorker)
  BY <1>4, FS_EmptySet DEF SlotsInv, NewWorker
<1>6. /\ TakenInv(<< >>, NewWorker) /\ StopInv(<< >>, NewWorker)
      /\ LimitInv(<< >>, NewWorker) /\ CountInv(NewWorker)
  BY DEF TakenInv, StopInv, NoStop, LimitInv, LastGiven, CountInv, NewWorker
<1>7. DrawInv(<< >>, NewWorker)
  BY DEF DrawInv, NewWorker
<1> QED
  BY <1>3, <1>5, <1>6, <1>7 DEF Init, WorkersInv, OneInv

\* A step of a worker keeps it; stop() may come at any moment, and twice.
LEMMA WorkerKeeps ==
  ASSUME WorkersInv, NEW w \in Workers, WorkerStep(w), UNCHANGED queues_
  PROVE  WorkersInv'
<1> USE DEF WorkersInv
<1>1. TypeOK'
  BY StepType DEF OneInv, TypeOK
<1>2. \A v \in Workers : v # w => workers'[v] = workers[v]
  <2>1. \E new : Becomes(w, new)
    BY StepCases
       DEF run, stop, stopConsuming, reset, sendRequest, setMaxOutstanding, setPhase, check,
           exhausted, terminateEarly, issue, exits, flush, reply
  <2> QED
    BY <2>1, BecomesOne DEF TypeOK
<1>3. OneInv(queues_[w], workers'[w])
  BY StepSlots, StepTaken, StepStop, StepLimit, StepCount, StepDraw DEF OneInv
<1> QED
  BY <1>1, <1>2, <1>3

\* So does a message put on a queue, whoever puts it.
LEMMA PutKeeps ==
  ASSUME WorkersInv, UNCHANGED workers, queues_' \in [Workers -> Seq(Events)],
         \A w \in Workers : \/ queues_'[w] = queues_[w]
                            \/ \E e \in Events : queues_'[w] = Append(queues_[w], e)
  PROVE  WorkersInv'
<1> USE DEF WorkersInv
<1>1. TypeOK'
  BY DEF TypeOK
<1>2. ASSUME NEW w \in Workers PROVE OneInv(queues_'[w], workers[w])
  <2>1. CASE queues_'[w] = queues_[w]
    BY <2>1
  <2>2. ASSUME NEW e \in Events, queues_'[w] = Append(queues_[w], e)
        PROVE  OneInv(queues_'[w], workers[w])
    BY <2>2, PutOne DEF TypeOK
  <2> QED
    BY <2>1, <2>2
<1> QED
  BY <1>1, <1>2

\* Every step keeps it.
LEMMA NextWorkers == WorkersInv /\ [Next]_workerVars => WorkersInv'
<1> SUFFICES ASSUME WorkersInv, [Next]_workerVars PROVE WorkersInv'
  OBVIOUS
<1>1. ASSUME NEW w \in Workers, WorkerStep(w), UNCHANGED queues_ PROVE WorkersInv'
  BY <1>1, WorkerKeeps
<1>2. ASSUME NEW w \in Workers, put(w), UNCHANGED workers PROVE WorkersInv'
  <2>1. PICK e \in Events : queues_' = [queues_ EXCEPT ![w] = Append(@, e)]
    BY <1>2 DEF put
  <2>2. queues_ \in [Workers -> Seq(Events)]
    BY DEF WorkersInv, TypeOK
  <2>3. /\ queues_' \in [Workers -> Seq(Events)]
        /\ \A v \in Workers : \/ queues_'[v] = queues_[v]
                              \/ \E d \in Events : queues_'[v] = Append(queues_[v], d)
    BY <2>1, <2>2
  <2> QED
    BY <1>2, <2>3, PutKeeps
<1>3. CASE UNCHANGED workerVars
  BY <1>3 DEF workerVars, WorkersInv, TypeOK
<1> QED
  BY <1>1, <1>2, <1>3 DEF Next, WorkerStep, OwnStep, runner

\* The invariant holds in every reachable state.
LEMMA WorkersCorrect == Spec => []WorkersInv
  BY InitWorkers, NextWorkers, PTL DEF Spec

\* What the worker's own steps may do to its position, its flag and its slots:
\* nothing starts the thread or sets running_, only a running worker gets to
\* "issue" and only there a slot is taken, and running_ is cleared by STOP or
\* on the way to terminate_early_fn_.
LEMMA OwnStepKeeps ==
  ASSUME TypeOK, NEW w \in Workers, OwnStep(w)
  PROVE  /\ \A v \in Workers : v # w => workers'[v] = workers[v]
         /\ workers[w].pc # "none" /\ workers'[w].pc # "none"
         /\ workers'[w].running_ => workers[w].running_
         /\ workers'[w].pc = "issue" => workers'[w].running_
         /\ workers'[w].outstanding_requests_ <= workers[w].outstanding_requests_
              \/ workers[w].pc = "issue"
         /\ workers[w].pc = "early" => terminateEarly(w)
         /\ \/ workers[w].running_ => workers'[w].running_
            \/ workers'[w].pc = "early"
            \/ \E k \in DOMAIN queues_[w] : queues_[w][k].type = "STOP"
<1> DEFINE me == workers[w]
           q == queues_[w]
           Kept ==
             /\ \A v \in Workers : v # w => workers'[v] = workers[v]
             /\ workers[w].pc # "none" /\ workers'[w].pc # "none"
             /\ workers'[w].running_ => workers[w].running_
             /\ workers'[w].pc = "issue" => workers'[w].running_
             /\ workers'[w].outstanding_requests_ <= workers[w].outstanding_requests_
                  \/ workers[w].pc = "issue"
             /\ workers[w].pc = "early" => terminateEarly(w)
             /\ \/ workers[w].running_ => workers'[w].running_
                \/ workers'[w].pc = "early"
                \/ \E k \in DOMAIN queues_[w] : queues_[w][k].type = "STOP"
<1>0. /\ me \in Worker /\ workers \in [Workers -> Worker]
      /\ me.outstanding_requests_ \in Nat /\ me.taken \in Nat
      /\ q \in Seq(Events)
  BY DEF TypeOK, Worker
<1>1. CASE stopConsuming(w)
  <2>1. me.taken + 1 \in DOMAIN q
    BY <1>0, <1>1 DEF stopConsuming, Consumes
  <2>2. message(w).type = "STOP" => \E k \in DOMAIN q : q[k].type = "STOP"
    BY <2>1 DEF message
  <2>3. /\ \A v \in Workers : v # w => workers'[v] = workers[v]
        /\ me.pc = "loop" /\ workers'[w].pc = "loop"
        /\ workers'[w].running_ = FALSE
        /\ workers'[w].outstanding_requests_ = me.outstanding_requests_
        /\ message(w).type = "STOP" \/ ~me.running_
    BY <1>0, <1>1 DEF stopConsuming, Consumes, Becomes, Worker
  <2>4. me.running_ \in BOOLEAN
    BY <1>0 DEF Worker
  <2> QED
    BY <1>0, <2>2, <2>3, <2>4
<1>2. CASE reset(w)
  <2>1. /\ \A v \in Workers : v # w => workers'[v] = workers[v]
        /\ me.pc = "loop" /\ workers'[w].pc = "loop"
        /\ me.running_ /\ workers'[w].running_ = me.running_
        /\ workers'[w].outstanding_requests_ = me.outstanding_requests_
    BY <1>0, <1>2 DEF reset, Consumes, Becomes, Worker
  <2> QED
    BY <1>0, <2>1
<1>3. CASE sendRequest(w)
  <2>1. /\ \A v \in Workers : v # w => workers'[v] = workers[v]
        /\ me.pc = "loop" /\ workers'[w].pc = "send"
        /\ me.running_ /\ workers'[w].running_ = me.running_
        /\ workers'[w].outstanding_requests_ = me.outstanding_requests_
    BY <1>0, <1>3 DEF sendRequest, Consumes, Becomes, Worker
  <2> QED
    BY <1>0, <2>1
<1>4. CASE setMaxOutstanding(w)
  <2>1. /\ \A v \in Workers : v # w => workers'[v] = workers[v]
        /\ me.pc = "loop" /\ workers'[w].pc = "loop"
        /\ me.running_ /\ workers'[w].running_ = me.running_
        /\ workers'[w].outstanding_requests_ = me.outstanding_requests_
    BY <1>0, <1>4 DEF setMaxOutstanding, Consumes, Becomes, Worker
  <2> QED
    BY <1>0, <2>1
<1>5. CASE setPhase(w)
  <2>1. /\ \A v \in Workers : v # w => workers'[v] = workers[v]
        /\ me.pc = "loop" /\ workers'[w].pc = "loop"
        /\ me.running_ /\ workers'[w].running_ = me.running_
        /\ workers'[w].outstanding_requests_ = me.outstanding_requests_
    BY <1>0, <1>5 DEF setPhase, Consumes, Becomes, Worker
  <2> QED
    BY <1>0, <2>1
<1>6. CASE check(w)
  BY <1>0, <1>6 DEF check, maySend, Becomes, Worker
<1>7. CASE exhausted(w)
  BY <1>0, <1>7 DEF exhausted, Becomes, Worker
<1>8. CASE terminateEarly(w)
  BY <1>0, <1>8 DEF terminateEarly, Becomes, Worker
<1>9. CASE issue(w)
  BY <1>0, <1>9 DEF issue, Becomes, Worker
<1>10. CASE exits(w)
  BY <1>0, <1>10 DEF exits, Becomes, Worker
<1>11. ASSUME NEW sample \in Samples, flush(w, sample) PROVE Kept
  BY <1>0, <1>11 DEF flush, Becomes, Worker
<1>12. ASSUME NEW conn \in Connections, NEW failed \in Failures, reply(w, conn, failed)
       PROVE  Kept
  <2>1. /\ \A v \in Workers : v # w => workers'[v] = workers[v]
        /\ me.pc \in {"loop", "flush"}
        /\ workers'[w].pc = me.pc
        /\ workers'[w].running_ = me.running_
        /\ workers'[w].outstanding_requests_ = me.outstanding_requests_ - 1
    BY <1>0, <1>12 DEF reply, completes, slotBack, Becomes, Worker
  <2>2. me.outstanding_requests_ - 1 <= me.outstanding_requests_
    BY <1>0
  <2> QED
    BY <2>1, <2>2
<1> QED
  BY <1>1, <1>2, <1>3, <1>4, <1>5, <1>6, <1>7, <1>8, <1>9, <1>10, <1>11, <1>12
     DEF OwnStep, senderLoop, messageAvailable, target

-----------------------------------------------------------------------------
(* The properties *)

\* Type correctness: every message, reply and call keeps the workers in their
\* types; in particular outstanding_requests_ never goes below zero and
\* conn_idx_ stays an index of a connection.
THEOREM TypeSafe == Spec => []TypeOK
<1>1. WorkersInv => TypeOK
  BY DEF WorkersInv
<1> QED
  BY <1>1, WorkersCorrect, PTL

\* The slots in use are exactly the requests in flight, for any mix of
\* replies and failures and wherever stop() falls (SlotsExact).
THEOREM SlotsAreExact == Spec => []SlotsExact
<1>1. WorkersInv => SlotsExact
  BY DEF WorkersInv, OneInv, SlotsInv, SlotsExact
<1> QED
  BY <1>1, WorkersCorrect, PTL

\* A worker adds a request only under the limit in force (SendsBelowLimit),
\* however SET_MAX_OUTSTANDING, replies and stop() race with it.
THEOREM LimitRespected == Spec => SendsBelowLimit
<1> DEFINE Adds(w) ==
             workers'[w].outstanding_requests_ > workers[w].outstanding_requests_ =>
               \E limit \in Limits \cup {WorkerLimit} :
                 InForce(w, limit) /\ workers'[w].outstanding_requests_ <= limit
<1>1. ASSUME WorkersInv, [Next]_workerVars, NEW w \in Workers PROVE Adds(w)
  <2> DEFINE me == workers[w]
  <2>0. /\ me \in Worker /\ workers \in [Workers -> Worker] /\ TypeOK
        /\ me.outstanding_requests_ \in Nat /\ LimitInv(queues_[w], me)
    BY <1>1 DEF WorkersInv, OneInv, TypeOK, Worker
  <2> SUFFICES ASSUME workers'[w].outstanding_requests_ > me.outstanding_requests_
               PROVE  \E limit \in Limits \cup {WorkerLimit} :
                        InForce(w, limit) /\ workers'[w].outstanding_requests_ <= limit
    OBVIOUS
  <2>1. ~(me.outstanding_requests_ > me.outstanding_requests_)
    BY <2>0
  <2>2. workers' # workers
    BY <2>1
  <2>3. PICK v \in Workers : runner(v) \/ OwnStep(v)
    BY <1>1, <2>2 DEF Next, OwnStep, workerVars
  <2>4. WorkerStep(v)
    BY <2>3 DEF runner, WorkerStep
  <2>5. v = w
    <3>1. \E new : Becomes(v, new)
      BY <2>4, StepCases
         DEF run, stop, stopConsuming, reset, sendRequest, setMaxOutstanding, setPhase, check,
             exhausted, terminateEarly, issue, exits, flush, reply
    <3> QED
      BY <2>0, <2>1, <3>1, BecomesOne
  <2>6. OwnStep(w)
    <3>1. CASE run(w)
      BY <2>0, <2>1, <3>1 DEF run, Becomes, Worker
    <3>2. CASE stop(w)
      BY <2>0, <2>1, <3>2 DEF stop, Becomes, Worker
    <3> QED
      BY <2>3, <2>5, <3>1, <3>2 DEF runner
  <2>7. me.pc = "issue"
    <3>1. workers'[w].outstanding_requests_ <= me.outstanding_requests_ \/ me.pc = "issue"
      BY <2>0, <2>6, OwnStepKeeps
    <3>2. workers' \in [Workers -> Worker]
      BY <1>1, <2>4, StepType DEF WorkersInv, OneInv
    <3>3. workers'[w].outstanding_requests_ \in Nat
      BY <3>2 DEF Worker
    <3> QED
      BY <2>0, <3>1, <3>3
  <2>8. /\ workers'[w].outstanding_requests_ = me.outstanding_requests_ + 1
    <3>1. issue(w) \/ exhausted(w)
      BY <2>6, <2>7 DEF OwnStep, senderLoop, messageAvailable, stopConsuming, reset, sendRequest,
            setMaxOutstanding, setPhase, Consumes, check, flush, exits, terminateEarly, target,
            reply, completes
    <3>2. CASE exhausted(w)
      BY <2>0, <2>1, <3>2 DEF exhausted, Becomes, Worker
    <3>3. CASE issue(w)
      BY <2>0, <3>3 DEF issue, Becomes, Worker
    <3> QED
      BY <3>1, <3>2, <3>3
  <2>9. /\ me.outstanding_requests_ < me.max_outstanding_requests_
        /\ LastGiven(queues_[w], me.taken, me.max_outstanding_requests_)
    BY <2>0, <2>7 DEF LimitInv
  <2>10. InForce(w, me.max_outstanding_requests_)
    BY <2>9 DEF InForce, LastGiven, Consumed
  <2>11. me.max_outstanding_requests_ \in Limits \cup {WorkerLimit}
         /\ me.max_outstanding_requests_ \in Int
    BY <2>0 DEF Worker
  <2>12. workers'[w].outstanding_requests_ <= me.max_outstanding_requests_
    BY <2>0, <2>8, <2>9, <2>11
  <2> QED
    BY <2>10, <2>11, <2>12
<1>2. WorkersInv /\ [Next]_workerVars => [\A w \in Workers : Adds(w)]_workerVars
  BY <1>1
<1> QED
  BY <1>2, WorkersCorrect, PTL DEF Spec, SendsBelowLimit

\* The worker consumes nothing that was put behind STOP (NothingAfterStop).
THEOREM StopIsFinal == Spec => []NothingAfterStop
<1>1. WorkersInv => NothingAfterStop
  BY DEF WorkersInv, OneInv, StopInv, NoStop, NothingAfterStop
<1> QED
  BY <1>1, WorkersCorrect, PTL

\* Completed and failed requests enter the statistics once (CountedOnce).
THEOREM RepliesCounted == Spec => []CountedOnce
<1>1. WorkersInv => CountedOnce
  BY DEF WorkersInv, OneInv, CountInv, CountedOnce
<1> QED
  BY <1>1, WorkersCorrect, PTL

\* A running worker has drawn or, at its limit, dropped exactly one request per
\* SEND_REQUEST since the last RESET it consumed (DrawsInStep).
THEOREM WorkloadInStep == Spec => []DrawsInStep
<1>1. ASSUME WorkersInv PROVE DrawsInStep
  <2>1. \A w \in Workers : DrawInv(queues_[w], workers[w])
    BY <1>1 DEF WorkersInv, OneInv
  <2> QED
    BY <2>1 DEF DrawsInStep, DrawInv, Inside, Asked, Consumed
<1> QED
  BY <1>1, WorkersCorrect, PTL

=============================================================================
