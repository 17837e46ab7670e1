---------------------------- MODULE PacingProofs ----------------------------
(***************************************************************************)
(* Theorems about Pacing, for any rates, any length of a second and any    *)
(* random factors, as long as an interval and the time of a run fit into   *)
(* an int64_t.                                                             *)
(***************************************************************************)
EXTENDS Pacing, TLAPS

-----------------------------------------------------------------------------
(* Conversions and intervals *)

\* The constants are numbers.
LEMMA Numbers ==
  /\ NsPerS \in Nat /\ Int64Max \in Nat /\ MaxTime \in Nat /\ MaxSent \in Nat
  /\ NsPerS <= Int64Max /\ MaxTime + MaxSent <= Int64Max
  /\ MaxTime > 0 /\ Int64Max > 0
  /\ Int64Min = -Int64Max - 1
  /\ Rates \subseteq Int /\ InitRps \in Rates /\ Factors \subseteq Nat
  BY PacingAssumption DEF Int64Min

\* A sum that is in range does not wrap.
LEMMA WrapExact ==
  ASSUME NEW x \in Int
  PROVE  /\ Wrap64(x) \in Int64
         /\ x \in Int64 => Wrap64(x) = x
<1> DEFINE m == Int64Max - Int64Min + 1
           y == x - Int64Min
<1>1. m \in Nat /\ m > 0 /\ y \in Int
  BY Numbers
<1>2. \A u \in Int : \A n \in Nat : n > 0 =>
        /\ u % n \in 0 .. n - 1
        /\ u \in 0 .. n - 1 => u % n = u
  OBVIOUS
<1>3. y % m \in 0 .. m - 1 /\ (y \in 0 .. m - 1 => y % m = y)
  BY <1>1, <1>2
<1>4. Wrap64(x) = (y % m) + Int64Min
  BY DEF Wrap64
<1> HIDE DEF m
<1>5. Wrap64(x) \in Int64
  BY <1>3, <1>4, Numbers DEF Int64, m
<1>6. x \in Int64 => y \in 0 .. m - 1
  BY Numbers DEF Int64, m
<1>7. x \in Int64 => Wrap64(x) = x
  BY <1>3, <1>4, <1>6, Numbers
<1> QED
  BY <1>5, <1>7

\* A conversion yields an int64_t, and in range it is off by less than one
\* nanosecond, toward zero.
LEMMA ConversionExact ==
  ASSUME NEW h \in Int, NEW r \in ToInt64(h)
  PROVE  /\ r \in Int64
         /\ (InHalves(Int64Min) <= h /\ h <= InHalves(Int64Max)) =>
              /\ InHalves(r) - h <= 1 /\ h - InHalves(r) <= 1
              /\ h >= 0 => InHalves(r) <= h
              /\ h < 0 => r <= 0
<1> DEFINE n == IF h >= 0 THEN h \div 2 ELSE -((-h) \div 2)
<1>1. Int64Min \in Int64 /\ Int64Max \in Int64
  BY Numbers DEF Int64
<1>2. n \in Int /\ (h >= 0 => 2 * n <= h /\ h <= 2 * n + 1)
                /\ (h < 0 => n <= 0 /\ h <= 2 * n /\ 2 * n <= h + 1)
  OBVIOUS
<1>3. r \in (IF n \in Int64 THEN {n} ELSE {Int64Min, Int64Max})
  BY DEF ToInt64
<1> HIDE DEF n
<1>4. r \in Int64
  BY <1>1, <1>3
<1>5. ASSUME InHalves(Int64Min) <= h, h <= InHalves(Int64Max) PROVE r = n
  <2>1. n \in Int64
    BY <1>2, <1>5, Numbers DEF Int64, InHalves
  <2> QED
    BY <1>3, <2>1
<1> QED
  BY <1>2, <1>4, <1>5 DEF InHalves

\* An interval is an int64_t, and between 0 and a second at a positive rate.
LEMMA IntervalRange ==
  ASSUME NEW rate \in Int, NEW i \in intervalOf(rate)
  PROVE  /\ i \in Int64
         /\ rate > 0 => i \in 0 .. NsPerS
<1>1. \A m \in Nat : \A d \in Nat : d > 0 => m \div d \in Nat /\ m \div d <= m
  <2> SUFFICES ASSUME NEW m \in Nat, NEW d \in Nat, d > 0
               PROVE  m \div d \in Nat /\ m \div d <= m
    OBVIOUS
  <2>1. /\ m \div d \in Int /\ m % d \in 0 .. d - 1
        /\ m = d * (m \div d) + (m % d)
    OBVIOUS
  <2> DEFINE q == m \div d
             r == m % d
  <2>2. q \in Int /\ r \in Nat /\ r < d /\ m = d * q + r
    BY <2>1
  <2> HIDE DEF q, r
  <2>3. q >= 0
    BY <2>2
  <2>4. d * q >= q
    BY <2>2, <2>3
  <2> QED
    BY <2>2, <2>3, <2>4 DEF q
<1>2. CASE rate = 0
  BY <1>2, Numbers DEF intervalOf, Int64
<1>3. CASE rate > 0
  <2>1. i = NsPerS \div rate
    BY <1>3 DEF intervalOf
  <2>2. i \in Nat /\ i <= NsPerS
    BY <1>1, <1>3, <2>1, Numbers
  <2> QED
    BY <2>2, Numbers DEF Int64
<1>4. CASE rate < 0
  <2>1. i = -(NsPerS \div (-rate)) /\ -rate \in Nat /\ -rate > 0
    BY <1>4 DEF intervalOf
  <2>2. (NsPerS \div (-rate)) \in Nat /\ (NsPerS \div (-rate)) <= NsPerS
    BY <1>1, <2>1, Numbers
  <2> QED
    BY <1>4, <2>1, <2>2, Numbers DEF Int64
<1> QED
  BY <1>2, <1>3, <1>4

\* A drawn interval is a number, and fits if its mean is at most a second.
LEMMA DrawRange ==
  ASSUME NEW mean \in Int, NEW draw \in randomExponentialInterval(mean)
  PROVE  /\ draw \in Int
         /\ mean \in 0 .. NsPerS => draw \in 0 .. InHalves(Int64Max)
<1>1. PICK k \in Factors : draw = k * mean
  BY DEF randomExponentialInterval
<1>2. k \in Nat /\ k * NsPerS <= InHalves(Int64Max) /\ k * NsPerS \in Int
  BY PacingAssumption, Numbers
<1>3. draw \in Int
  BY <1>1, <1>2
<1>4. ASSUME mean \in 0 .. NsPerS PROVE draw \in 0 .. InHalves(Int64Max)
  <2>1. \A x, y, z \in Nat : y <= z => x * y \in Nat /\ x * y <= x * z
    OBVIOUS
  <2>2. draw \in Nat /\ draw <= k * NsPerS
    BY <1>1, <1>2, <1>4, <2>1, Numbers
  <2> QED
    BY <1>2, <2>2, Numbers DEF InHalves
<1> QED
  BY <1>3, <1>4

-----------------------------------------------------------------------------
(* The run *)

Running == {"while", "wait", "spin"}

\* The budget accounts for the time up to t, but for the rounding.
Near(t) ==
  LET error == InHalves(budget) - (due + pending - InHalves(t - origin))
  IN  error <= sent + 1 /\ -error <= sent + 1

\* Within a run whose rates are positive: what has been drawn fits an
\* int64_t, the budget is exact up to the last reading of the clock, and a
\* wait never starts before the reading the budget accounts for.
ExactInv ==
  sane /\ pc \in Running =>
    /\ interval_ns \in 0 .. NsPerS
    /\ due >= 0 /\ pending \in 0 .. InHalves(Int64Max)
    /\ pc = "while" /\ a = 0 =>
         sent = 0 /\ due = 0 /\ pending - InHalves(budget) <= 1
    /\ pc = "while" /\ a # 0 => sent > 0 /\ Near(a)
    /\ pc \in {"wait", "spin"} => b # 0 /\ Near(b)
    /\ pc = "spin" => b <= start

\* Another request is waited for only below the bound.
RoomInv == pc \in {"wait", "spin"} => sent < MaxSent

PacingInv == TypeOK /\ RoomInv /\ ExactInv /\ WaitBounded /\ NeverEarly

\* The clocks read and the counters, as numbers.
LEMMA TypeNumbers ==
  ASSUME TypeOK
  PROVE  /\ now \in Nat /\ now >= 1 /\ now <= MaxTime
         /\ a \in Nat /\ a <= now /\ b \in Nat /\ b <= now
         /\ start \in Nat /\ start <= now /\ origin \in Nat /\ origin <= now
         /\ interval_ns \in Int /\ budget \in Int /\ budget \in Int64
         /\ due \in Int /\ pending \in Int /\ sent \in Nat /\ sent <= MaxSent
         /\ rps_ \in Int
  BY Numbers DEF TypeOK, Int64

\* A run starts with nothing sent and one interval drawn.
LEMMA StartKeeps ==
  ASSUME PacingInv, loopStart
  PROVE  PacingInv'
<1>0. TypeOK /\ rps_ \in Int
  BY TypeNumbers DEF PacingInv
<1>1. /\ pc' = "while" /\ a' = 0 /\ b' = 0 /\ origin' = 0 /\ due' = 0 /\ sent' = 0
      /\ rps' = rps_ /\ UNCHANGED <<now, state_, rps_, start>> /\ sane' = (rps_ > 0)
  BY DEF loopStart, noSendYet
<1>2. interval_ns' \in Int64 /\ (rps_ > 0 => interval_ns' \in 0 .. NsPerS)
  BY <1>0, IntervalRange DEF loopStart
<1>3. interval_ns' \in Int
  BY <1>2, Numbers DEF Int64
<1>4. pending' \in Int /\ (rps_ > 0 => pending' \in 0 .. InHalves(Int64Max))
  BY <1>2, <1>3, DrawRange DEF loopStart
<1>5. budget' \in ToInt64(pending')
  BY DEF loopStart
<1>6. budget' \in Int64 /\ budget' \in Int
  BY <1>4, <1>5, ConversionExact, Numbers DEF Int64
<1>7. rps_ > 0 => InHalves(budget') <= pending' /\ pending' - InHalves(budget') <= 1
  BY <1>4, <1>5, ConversionExact, Numbers DEF InHalves
<1>8. TypeOK'
  <2>1. sane' \in BOOLEAN
    BY <1>1
  <2>2. 0 \in 0 .. now /\ 0 \in 0 .. MaxSent /\ 0 \in Int
    BY <1>0, TypeNumbers, Numbers
  <2> QED
    BY <1>0, <1>1, <1>2, <1>4, <1>6, <2>1, <2>2 DEF TypeOK
<1>9. sane' => rps_ > 0
  BY <1>1
<1>10. ExactInv'
  BY <1>1, <1>2, <1>4, <1>7, <1>9 DEF ExactInv, Running
<1>11. WaitBounded' /\ NeverEarly' /\ RoomInv'
  BY <1>1, <1>7, <1>9 DEF WaitBounded, NeverEarly, RoomInv
<1> QED
  BY <1>8, <1>10, <1>11 DEF PacingInv

\* Taking the time spent on sending off the budget keeps it exact.
LEMMA WhileKeeps ==
  ASSUME PacingInv, loopWhile
  PROVE  PacingInv'
<1>0. TypeOK /\ pc = "while"
  BY DEF PacingInv, loopWhile
<1> USE TypeNumbers, Numbers
<1>1. UNCHANGED <<now, state_, rps_, rps, interval_ns, a, start, due, pending, sent, sane>>
  BY DEF loopWhile
<1>2. CASE state_ = "RUNNING"
  <2>1. /\ sent < MaxSent /\ b' = now /\ budget' = lessSending /\ pc' = "wait"
        /\ origin' = IF sent = 0 THEN now ELSE origin
    BY <1>2 DEF loopWhile
  <2>2. budget' \in Int64
    <3>1. budget - (now - a) \in Int
      BY <1>0
    <3> QED
      BY <1>0, <2>1, <3>1, WrapExact DEF lessSending
  <2>3. TypeOK'
    <3>1. {a, b, start, origin}' \subseteq 0 .. now
      BY <1>0, <1>1, <2>1
    <3> QED
      BY <1>0, <1>1, <2>1, <2>2, <3>1 DEF TypeOK
  <2>4. ASSUME sane
        PROVE  /\ Near(b)' /\ InHalves(budget') <= pending
    <3>0. /\ interval_ns \in 0 .. NsPerS /\ due >= 0 /\ pending \in 0 .. InHalves(Int64Max)
          /\ a = 0 => sent = 0 /\ due = 0 /\ pending - InHalves(budget) <= 1
          /\ a # 0 => sent > 0 /\ Near(a)
          /\ InHalves(budget) <= pending
      BY <1>0, <2>4 DEF PacingInv, ExactInv, WaitBounded, Running
    <3>1. CASE a = 0
      <4>1. budget' = budget /\ origin' = now
        BY <2>1, <3>0, <3>1 DEF lessSending
      <4> QED
        BY <1>0, <1>1, <2>1, <3>0, <3>1, <4>1 DEF Near, InHalves
    <3>2. CASE a # 0
      <4>1. origin' = origin /\ sent > 0 /\ Near(a)
        BY <1>0, <2>1, <3>0, <3>2
      <4>2. budget - (now - a) \in Int64
        BY <1>0, <3>0, <4>1 DEF Near, InHalves, Int64
      <4>3. budget' = budget - (now - a)
        BY <1>0, <2>1, <3>2, <4>2, WrapExact DEF lessSending
      <4> QED
        BY <1>0, <1>1, <2>1, <3>0, <4>1, <4>3 DEF Near, InHalves
    <3> QED
      BY <3>1, <3>2
  <2>5. ExactInv' /\ WaitBounded'
    BY <1>0, <1>1, <2>1, <2>4 DEF PacingInv, ExactInv, WaitBounded, Running
  <2> QED
    BY <1>0, <1>1, <2>1, <2>3, <2>5 DEF PacingInv, RoomInv, NeverEarly
<1>3. CASE state_ # "RUNNING"
  <2>1. pc' = "paused" /\ UNCHANGED <<b, budget, origin>>
    BY <1>3 DEF loopWhile
  <2>2. TypeOK'
    BY <1>0, <1>1, <2>1 DEF TypeOK
  <2> QED
    BY <1>1, <2>1, <2>2 DEF PacingInv, RoomInv, ExactInv, WaitBounded, NeverEarly, Running
<1> QED
  BY <1>2, <1>3

\* The wait begins no earlier than b was read.
LEMMA WaitKeeps ==
  ASSUME PacingInv, waitNs
  PROVE  PacingInv'
<1>1. /\ pc = "wait" /\ pc' = "spin" /\ start' = now
      /\ UNCHANGED <<now, state_, rps_, rps, interval_ns, a, b, budget, history>>
  BY DEF waitNs
<1>2. b <= now /\ now \in Nat
  BY TypeNumbers DEF PacingInv
<1>3. TypeOK'
  BY <1>1, <1>2 DEF PacingInv, TypeOK, history
<1> QED
  BY <1>1, <1>2, <1>3
     DEF PacingInv, RoomInv, ExactInv, WaitBounded, NeverEarly, Near, Running, history

\* A request is sent: its interval is over, and the next one is drawn.
LEMMA SendKeeps ==
  ASSUME PacingInv, loopSend
  PROVE  PacingInv'
<1>0. TypeOK /\ pc = "spin" /\ sent < MaxSent
  BY DEF PacingInv, RoomInv, loopSend
<1> USE TypeNumbers, Numbers
<1>1. PICK draw \in randomExponentialInterval(interval_ns) :
        budget' \in nextBudget(draw) /\ pending' = draw
  BY DEF loopSend
<1>2. /\ now - start >= budget /\ a' = now /\ due' = due + pending /\ sent' = sent + 1
      /\ rps' = rps_ /\ sane' = (sane /\ rps_ > 0) /\ pc' = "while" /\ start' = 0
      /\ UNCHANGED <<now, state_, rps_, b, origin>>
      /\ IF rps # rps_ THEN interval_ns' \in intervalOf(rps_) ELSE interval_ns' = interval_ns
  BY DEF loopSend
<1> DEFINE h == InHalves(budget) + draw - InHalves(now - b)
<1>3. draw \in Int /\ h \in Int /\ budget' \in ToInt64(h)
  BY <1>0, <1>1, DrawRange DEF InHalves, nextBudget
<1> HIDE DEF h
<1>4. budget' \in Int64 /\ budget' \in Int
  BY <1>3, ConversionExact DEF Int64
<1>5. interval_ns' \in Int64 /\ (sane' /\ interval_ns \in 0 .. NsPerS => interval_ns' \in 0 .. NsPerS)
  BY <1>0, <1>2, IntervalRange DEF TypeOK
<1>6. TypeOK'
  <2>1. {a, b, start, origin}' \subseteq 0 .. now
    BY <1>0, <1>2
  <2>2. due' \in Int /\ pending' \in Int /\ sent' \in 0 .. MaxSent
    BY <1>0, <1>1, <1>2, <1>3
  <2>3. sane' \in BOOLEAN
    BY <1>2
  <2> QED
    BY <1>0, <1>2, <1>4, <1>5, <2>1, <2>2, <2>3 DEF TypeOK
<1>7. ASSUME sane
      PROVE  /\ draw \in 0 .. InHalves(Int64Max) /\ due' >= 0
             /\ InHalves(budget') <= draw
             /\ Near(a)'
             /\ InHalves(now - origin) >= due' - sent'
  <2>1. /\ interval_ns \in 0 .. NsPerS /\ due >= 0 /\ pending \in 0 .. InHalves(Int64Max)
        /\ Near(b) /\ b <= start
    BY <1>0, <1>7 DEF PacingInv, ExactInv, Running
  <2>2. draw \in 0 .. InHalves(Int64Max)
    BY <2>1, <1>0, <1>1, DrawRange
  <2>3. now - b >= budget
    BY <1>0, <1>2, <2>1
  <2>4. h <= draw /\ h <= InHalves(Int64Max) /\ h >= InHalves(Int64Min)
    BY <1>0, <2>1, <2>2, <2>3 DEF h, Near, InHalves
  <2>5. /\ InHalves(budget') - h <= 1 /\ h - InHalves(budget') <= 1
        /\ h >= 0 => InHalves(budget') <= h
        /\ h < 0 => budget' <= 0
    BY <1>3, <2>4, ConversionExact
  <2>6. InHalves(budget') <= draw
    <3>1. \A x, y, z \in Int :
            /\ y <= x /\ x >= 0 /\ (y >= 0 => 2 * z <= y) /\ (y < 0 => z <= 0)
            => 2 * z <= x
      OBVIOUS
    <3>2. draw \in Int /\ h \in Int /\ draw >= 0
      BY <1>3, <2>2
    <3> QED
      BY <1>4, <2>4, <2>5, <3>1, <3>2 DEF InHalves
  <2>7. Near(a)'
    BY <1>0, <1>1, <1>2, <1>3, <1>4, <2>1, <2>5 DEF h, Near, InHalves
  <2>8. InHalves(now - origin) >= due' - sent'
    BY <1>0, <1>2, <2>1, <2>3 DEF Near, InHalves
  <2>9. due' >= 0
    BY <1>0, <1>2, <2>1
  <2> QED
    BY <2>2, <2>6, <2>7, <2>8, <2>9
<1>8. ExactInv'
  <2>1. sane' => sane /\ interval_ns \in 0 .. NsPerS
    BY <1>0, <1>2 DEF PacingInv, ExactInv, Running
  <2>2. a' # 0 /\ sent' > 0
    BY <1>0, <1>2
  <2> QED
    BY <1>1, <1>2, <1>5, <1>7, <2>1, <2>2 DEF ExactInv, Running
<1>9. WaitBounded' /\ NeverEarly' /\ RoomInv'
  BY <1>1, <1>2, <1>7 DEF WaitBounded, NeverEarly, RoomInv
<1> QED
  BY <1>6, <1>8, <1>9 DEF PacingInv

\* Every step keeps the invariant.
LEMMA NextPacing == PacingInv /\ [Next]_vars => PacingInv'
<1> SUFFICES ASSUME PacingInv, [Next]_vars PROVE PacingInv'
  OBVIOUS
<1>1. CASE loopStart \/ loopWhile \/ waitNs \/ loopSend
  BY <1>1, StartKeeps, WhileKeeps, WaitKeeps, SendKeeps
<1>2. CASE loopPaused
  <2>1. /\ pc' \in {"done", "start"} /\ UNCHANGED <<now, state_, rps_, locals, history>>
    BY <1>2 DEF loopPaused
  <2>2. TypeOK'
    BY <2>1 DEF PacingInv, TypeOK, locals, history
  <2> QED
    BY <2>1, <2>2
       DEF PacingInv, RoomInv, ExactInv, WaitBounded, NeverEarly, Running, locals, history
<1>3. CASE control
  <2>1. /\ state_' \in {"RUNNING", "PAUSED", "STOPPING"} /\ rps_' \in Rates
        /\ UNCHANGED <<now, pc, locals, history>>
    BY <1>3 DEF control, pause, resume, stop, setRps, PacingInv, TypeOK
  <2>2. TypeOK'
    BY <2>1 DEF PacingInv, TypeOK, locals, history
  <2> QED
    BY <2>1, <2>2
       DEF PacingInv, RoomInv, ExactInv, WaitBounded, NeverEarly, Near, Running, locals, history
<1>4. CASE tick
  <2>1. /\ now < MaxTime /\ now' = now + 1
        /\ UNCHANGED <<state_, rps_, pc, locals, history>>
    BY <1>4 DEF tick
  <2>2. now' \in 1 .. MaxTime /\ 0 .. now \subseteq 0 .. now'
    BY <2>1, TypeNumbers, Numbers DEF PacingInv
  <2>3. TypeOK'
    BY <2>1, <2>2 DEF PacingInv, TypeOK, locals, history
  <2> QED
    BY <2>1, <2>3
       DEF PacingInv, RoomInv, ExactInv, WaitBounded, NeverEarly, Near, Running, locals, history
<1>5. CASE UNCHANGED vars
  BY <1>5 DEF vars, PacingInv, TypeOK, RoomInv, ExactInv, WaitBounded, NeverEarly, Near, Running,
              locals, history
<1> QED
  BY <1>1, <1>2, <1>3, <1>4, <1>5 DEF Next, loop

\* The invariant holds in every reachable state.
LEMMA PacingCorrect == Spec => []PacingInv
<1>1. ASSUME Init PROVE PacingInv
  <2>1. TypeOK
    <3>1. 1 \in 1 .. MaxTime /\ 0 \in 0 .. 1 /\ 0 \in Int64 /\ 0 \in 0 .. MaxSent
      BY Numbers DEF Int64
    <3> QED
      BY <1>1, <3>1, Numbers DEF Init, TypeOK
  <2> QED
    BY <1>1, <2>1
       DEF Init, PacingInv, RoomInv, ExactInv, WaitBounded, NeverEarly, Running, InHalves
<1> QED
  BY <1>1, NextPacing, PTL DEF Spec

\* Type correctness: the budget and the intervals are always values of an
\* int64_t, at any rate, and no stored time lies in the future.
THEOREM TypeSafe == Spec => []TypeOK
<1>1. PacingInv => TypeOK
  BY DEF PacingInv
<1> QED
  BY <1>1, PacingCorrect, PTL

\* At positive rates the sleep budget is exact up to one rounding per request
\* (BudgetExact).
THEOREM BudgetIsExact == Spec => []BudgetExact
<1>1. ASSUME PacingInv PROVE BudgetExact
  <2>1. TypeOK
    BY <1>1 DEF PacingInv
  <2> QED
    BY <1>1 DEF PacingInv, ExactInv, BudgetExact, Accounted, Near, Running
<1> QED
  BY <1>1, PacingCorrect, PTL

\* No request is sent before the sum of its intervals has passed, up to
\* rounding (NeverEarly).
THEOREM RequestsNotEarly == Spec => []NeverEarly
<1>1. PacingInv => NeverEarly
  BY DEF PacingInv
<1> QED
  BY <1>1, PacingCorrect, PTL

\* The wait for a request is never longer than its interval (WaitBounded).
THEOREM WaitIsBounded == Spec => []WaitBounded
<1>1. PacingInv => WaitBounded
  BY DEF PacingInv
<1> QED
  BY <1>1, PacingCorrect, PTL

=============================================================================
