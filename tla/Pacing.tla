------------------------------- MODULE Pacing -------------------------------
(***************************************************************************)
(* The timing of Scheduler::loop (Scheduler.cpp), which Scheduler.tla      *)
(* leaves out: how the sleep budget spaces the requests.  The queues and   *)
(* the messages are left out here, a request is only counted.              *)
(*                                                                         *)
(* The clock advances between any two steps, so a wait may overshoot and   *)
(* sending may take time.  A double is a whole number of half nanoseconds, *)
(* so that its conversion to int64_t loses something; a conversion out of  *)
(* range, and 1.0 / 0, are undefined and give the smallest or the largest  *)
(* int64_t.  The random factor of an interval is any member of Factors.    *)
(***************************************************************************)
EXTENDS Integers

CONSTANTS
  Rates,      \* values of rps_, as the int32_t that loop() reads
  InitRps,
  NsPerS,     \* k_ns_per_s
  Factors,    \* random factors of an interval, in halves
  Int64Max,
  MaxTime,    \* bound: the clock's last value
  MaxSent     \* bound: requests of one run

\* Of a whole number of nanoseconds.
InHalves(x) == 2 * x

Int64Min == -Int64Max - 1
Int64 == Int64Min .. Int64Max

ASSUME PacingAssumption ==
  /\ Rates \subseteq Int /\ InitRps \in Rates
  /\ Factors \subseteq Nat
  /\ {NsPerS, Int64Max, MaxTime, MaxSent} \subseteq Nat \ {0}
  /\ NsPerS <= Int64Max
  \* An int64_t holds any drawn interval and the nanoseconds of 292 years.
  /\ \A k \in Factors : k * NsPerS <= InHalves(Int64Max)
  /\ MaxTime + MaxSent <= Int64Max

VARIABLES
  now,          \* nowNs()
  state_, rps_, \* the scheduler's members
  pc,           \* position of the loop thread
  rps, interval_ns, a, b, budget,   \* locals of loop()
  start,        \* local of waitNs()
  origin,       \* history: the first b of this run
  due,          \* history: sum of the intervals of the requests sent in this run
  pending,      \* history: the interval of the next request
  sent,         \* history: requests sent in this run
  sane          \* history: the intervals of this run come from positive rates

locals == <<rps, interval_ns, a, b, budget, start>>
history == <<origin, due, pending, sent, sane>>
vars == <<now, state_, rps_, pc, locals, history>>

-----------------------------------------------------------------------------
(* Conversions *)

\* A double of h half nanoseconds, converted to int64_t: toward zero.
ToInt64(h) ==
  LET n == IF h >= 0 THEN h \div 2 ELSE -((-h) \div 2)
  IN  IF n \in Int64 THEN {n} ELSE {Int64Min, Int64Max}

\* Bug: as if int64_t had no end.
Unbounded(x) == x

\* An int64_t that wraps around.
Wrap64(x) == ((x - Int64Min) % (Int64Max - Int64Min + 1)) + Int64Min

\* 1.0 / rps * k_ns_per_s
intervalOf(rate) ==
  IF rate = 0 THEN {Int64Min, Int64Max}
  ELSE IF rate > 0 THEN {NsPerS \div rate} ELSE {-(NsPerS \div (-rate))}

\* -log(max(dist, 1e-9)) * mean, in half nanoseconds
randomExponentialInterval(mean) == {k * mean : k \in Factors}

-----------------------------------------------------------------------------

Init ==
  /\ now = 1
  /\ state_ \in {"RUNNING", "PAUSED"}   \* as --wait_for_runner_ready says
  /\ rps_ = InitRps
  /\ pc = "start"
  /\ rps = 0 /\ interval_ns = 0
  /\ a = 0 /\ b = 0 /\ budget = 0 /\ start = 0
  /\ origin = 0 /\ due = 0 /\ pending = 0 /\ sent = 0 /\ sane = TRUE

\* Bug: a run starts with the a of the last one.
ForgetsReset == a

\* a = 0
noSendYet == 0

\* The head of a run: the rate is read and the first interval drawn.
loopStart ==
  /\ pc = "start"
  /\ rps' = rps_
  /\ interval_ns' \in intervalOf(rps_)
  /\ a' = noSendYet /\ b' = 0
  /\ pending' \in randomExponentialInterval(interval_ns')
  /\ budget' \in ToInt64(pending')
  /\ origin' = 0 /\ due' = 0 /\ sent' = 0
  /\ sane' = (rps_ > 0)
  /\ pc' = "while"
  /\ UNCHANGED <<now, state_, rps_, start>>

\* Bug: the time spent on sending is not accounted for.
IgnoresSending == budget

\* if (a) budget -= (b - a), with b = nowNs()
lessSending == IF a # 0 THEN Wrap64(budget - (now - a)) ELSE budget

\* while (state_ == RUNNING), and b = nowNs() in it.
loopWhile ==
  /\ pc = "while"
  /\ IF state_ = "RUNNING"
       THEN /\ sent < MaxSent
            /\ b' = now
            /\ budget' = lessSending
            /\ origin' = IF sent = 0 THEN now ELSE origin
            /\ pc' = "wait"
       ELSE pc' = "paused" /\ UNCHANGED <<b, budget, origin>>
  /\ UNCHANGED <<now, state_, rps_, rps, interval_ns, a, start, due, pending, sent, sane>>

\* waitNs(max(budget, 0)) reads the clock once ...
waitNs ==
  /\ pc = "wait"
  /\ start' = now
  /\ pc' = "spin"
  /\ UNCHANGED <<now, state_, rps_, rps, interval_ns, a, b, budget, history>>

\* Bug: the time slept is not taken off the budget.
KeepsSlept(draw) == ToInt64(InHalves(budget) + draw)

\* budget += randomExponentialInterval(interval_ns) - (a - b), with a = nowNs()
nextBudget(draw) == ToInt64(InHalves(budget) + draw - InHalves(now - b))

\* ... and spins until that much time has passed.  Then the next interval
\* is drawn, the request is put, and the rate is refreshed, for the interval
\* after that.
loopSend ==
  /\ pc = "spin"
  /\ now - start >= budget
  /\ a' = now
  /\ \E draw \in randomExponentialInterval(interval_ns) :
       /\ budget' \in nextBudget(draw)
       /\ pending' = draw
  /\ due' = due + pending
  /\ sent' = sent + 1
  /\ rps' = rps_
  /\ IF rps # rps_ THEN interval_ns' \in intervalOf(rps_) ELSE UNCHANGED interval_ns
  /\ sane' = (sane /\ rps_ > 0)
  /\ pc' = "while"
  /\ start' = 0
  /\ UNCHANGED <<now, state_, rps_, b, origin>>

\* while (state_ == PAUSED) waitNs(1000), and the end of the outer loop.
loopPaused ==
  /\ pc = "paused"
  /\ state_ # "PAUSED"
  /\ pc' = IF state_ = "STOPPING" THEN "done" ELSE "start"
  /\ UNCHANGED <<now, state_, rps_, locals, history>>

loop == loopStart \/ loopWhile \/ waitNs \/ loopSend \/ loopPaused

\* The scheduler's public methods, on other threads.
pause == state_ = "RUNNING" /\ state_' = "PAUSED" /\ UNCHANGED rps_
resume == state_ = "PAUSED" /\ state_' = "RUNNING" /\ UNCHANGED rps_
stop == state_' = "STOPPING" /\ UNCHANGED rps_
setRps == rps_' \in Rates /\ UNCHANGED state_

control == (pause \/ resume \/ stop \/ setRps) /\ UNCHANGED <<now, pc, locals, history>>

tick ==
  /\ now < MaxTime
  /\ now' = now + 1
  /\ UNCHANGED <<state_, rps_, pc, locals, history>>

Next == loop \/ control \/ tick

Spec == Init /\ [][Next]_vars

-----------------------------------------------------------------------------
(* Properties *)

TypeOK ==
  /\ now \in 1 .. MaxTime
  /\ {a, b, start, origin} \subseteq 0 .. now
  /\ state_ \in {"RUNNING", "PAUSED", "STOPPING"}
  /\ pc \in {"start", "while", "wait", "spin", "paused", "done"}
  /\ rps_ \in Rates /\ rps \in Rates \cup {0}
  /\ {interval_ns, budget} \subseteq Int64
  /\ {due, pending} \subseteq Int
  /\ sent \in 0 .. MaxSent
  /\ sane \in BOOLEAN

\* The time up to which the budget is accounted for.
Accounted == IF pc \in {"wait", "spin"} THEN b ELSE a

\* At any rate that is positive the budget is what is left of the intervals
\* drawn since the run began, whatever time sending and oversleeping took; no
\* error builds up but the rounding of one nanosecond per request
\* ("Decrease the sleep budget by the exact time slept", Scheduler.cpp:172).
BudgetExact ==
  (sane /\ pc \in {"while", "wait", "spin"} /\ Accounted # 0) =>
    LET error == InHalves(budget) - (due + pending - InHalves(Accounted - origin))
    IN  error <= sent + 1 /\ -error <= sent + 1

\* The n-th request of a run is not sent before the sum of its n intervals has
\* passed, up to rounding: time lost is caught up, but within a run only, so
\* a pause is not followed by a burst.
NeverEarly ==
  (sane /\ pc = "while" /\ sent > 0) => InHalves(a - origin) >= due - sent

\* The wait for a request is never longer than its own interval, so the loop
\* looks at state_ again within one interval and notices a pause or a stop.
WaitBounded == sane => InHalves(budget) <= pending

=============================================================================
