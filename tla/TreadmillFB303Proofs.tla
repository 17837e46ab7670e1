------------------------ MODULE TreadmillFB303Proofs ------------------------
(***************************************************************************)
(* Theorems about TreadmillFB303, for any number of server threads, any    *)
(* configuration keys and watchdog durations, and any bounds.              *)
(***************************************************************************)
EXTENDS TreadmillFB303, TLAPS

USE FB303Assumption

-----------------------------------------------------------------------------
(* Type correctness *)

Labels == {"idle", "update", "clock", "heartbeat", "body", "disarm", "resume", "resume2"}

\* What a watchdog check holds at time t.
Checks(t) ==
  [at : {"idle", "clock", "compare"}, time : 0 .. t,
   duration : Durations \cup {0, Unread}, last : (0 .. t) \cup {Unread}]

\* What a call carries.
LEMMA CallTypes ==
  /\ \A k \in Calls : k.name # "none"
  /\ \A k \in Calls \cup {NoCall} : k.name = "setConfiguration" => k.key \in Keys
  /\ \A k \in Calls \cup {NoCall} :
       k.name = "setConfiguration" /\ k.key = "watchdog_sec" => k.value \in Durations
  BY DEF Calls, NoCall

\* A step that moves one thread keeps every thread at a known position and
\* with a known call.
LEMMA ThreadTypes ==
  ASSUME TypeOK, NEW c \in Clients, NEW label \in Labels
  PROVE  /\ Goto(c, label) => pc' \in [Clients -> Labels]
         /\ Return(c) => /\ pc' \in [Clients -> Labels]
                         /\ call' \in [Clients -> Calls \cup {NoCall}]
  BY DEF Goto, Return, TypeOK, Labels

\* The handlers' own steps change neither a clock nor what was read from it.
LEMMA HandlerType ==
  ASSUME TypeOK, NEW c \in Clients, handler(c)
  PROVE  TypeOK'
<1> DEFINE ThreadsOK == /\ pc' \in [Clients -> Labels]
                        /\ call' \in [Clients -> Calls \cup {NoCall}]
<1>0. \A label \in Labels : \A d \in Clients : Goto(d, label) => pc' \in [Clients -> Labels]
  BY ThreadTypes
<1>1. CASE receive(c) /\ UNCHANGED checker
  <2>1. ThreadsOK
    BY <1>1, <1>0 DEF receive, TypeOK, Labels
  <2>2. calls' \in 0 .. MaxCalls
    BY <1>1 DEF receive, TypeOK
  <2> QED
    BY <1>1, <2>1, <2>2 DEF receive, TypeOK, watchdog, checker, Labels
<1>2. CASE watchdogUpdate(c) /\ UNCHANGED checker
  <2>1. ThreadsOK
    BY <1>2, <1>0 DEF watchdogUpdate, TypeOK, Labels
  <2> QED
    BY <1>2, <2>1 DEF watchdogUpdate, TypeOK, watchdog, history, checker, Labels
<1>12. CASE readTime(c) /\ UNCHANGED checker
  <2>1. ThreadsOK
    BY <1>12, <1>0 DEF readTime, TypeOK, Labels
  <2>2. beat' \in [Clients -> 0 .. now] /\ since' \in 0 .. now
    BY <1>12 DEF readTime, TypeOK
  <2> QED
    BY <1>12, <2>1, <2>2 DEF readTime, TypeOK, watchdog, checker, Labels
<1>3. CASE heartbeat(c) /\ UNCHANGED checker
  <2>1. ThreadsOK
    BY <1>3, <1>0 DEF heartbeat, TypeOK, Labels
  <2>2. lastHeartbeat_' \in 0 .. now /\ beat' \in [Clients -> 0 .. now]
    BY <1>3 DEF heartbeat, heartbeatOf, TypeOK
  <2> QED
    BY <1>3, <2>1, <2>2 DEF heartbeat, TypeOK, history, checker, Labels
<1>4. CASE pause(c) /\ UNCHANGED checker
  <2>1. ThreadsOK
    BY <1>4, <1>0 DEF pause, TypeOK, Labels
  <2> QED
    BY <1>4, <2>1 DEF pause, PauseScheduler, TypeOK, watchdog, history, checker, Labels
<1>5. CASE disarm(c)
  <2>1. ThreadsOK
    BY <1>5, ThreadTypes DEF disarm, Labels
  <2> QED
    BY <1>5, <2>1 DEF disarm, storeDuration, TypeOK, history, Labels
<1>6. CASE checkConfiguration(c) /\ UNCHANGED checker
  <2>1. ThreadsOK
    BY <1>6, <1>0, ThreadTypes DEF checkConfiguration, TypeOK, Labels
  <2> QED
    BY <1>6, <2>1 DEF checkConfiguration, TypeOK, watchdog, history, checker, Labels
<1>7. CASE (resume(c) \/ resume2(c)) /\ UNCHANGED checker
  <2>1. ThreadsOK
    BY <1>7, ThreadTypes DEF resume, resume2, Labels
  <2> QED
    BY <1>7, <2>1 DEF resume, resume2, ResumeScheduler, TypeOK, watchdog, history, checker, Labels
<1>8. CASE setPhase(c) /\ UNCHANGED checker
  <2>1. ThreadsOK
    BY <1>8, <1>0 DEF setPhase, TypeOK, Labels
  <2> QED
    BY <1>8, <2>1 DEF setPhase, TypeOK, watchdog, history, checker, Labels
<1>9. CASE (setRate(c) \/ getRate(c) \/ getConfiguration(c)) /\ UNCHANGED checker
  <2>1. ThreadsOK
    BY <1>9, ThreadTypes DEF setRate, getRate, getConfiguration, Labels
  <2> QED
    BY <1>9, <2>1 DEF setRate, getRate, getConfiguration, TypeOK, watchdog, history, checker, Labels
<1>10. CASE setConfiguration(c)
  <2>1. ThreadsOK
    BY <1>10, ThreadTypes DEF setConfiguration, Labels
  <2>2. call[c] \in Calls \cup {NoCall} /\ call[c].name = "setConfiguration"
    BY <1>10 DEF setConfiguration, Serves, TypeOK
  <2>3. configuration_' \subseteq Keys /\ watchdogDurationSec_' \in Durations \cup {0}
    BY <1>10, <2>2, CallTypes DEF setConfiguration, storeDuration, TypeOK
  <2>4. check' = check /\ burst' = burst /\ changed' \in BOOLEAN
    BY <1>10 DEF setConfiguration, storeDuration, checker, TypeOK
  <2> QED
    BY <1>10, <2>1, <2>3, <2>4 DEF setConfiguration, TypeOK, history, Labels
<1>11. CASE clearConfiguration(c) /\ UNCHANGED checker
  <2>1. ThreadsOK
    BY <1>11, ThreadTypes DEF clearConfiguration, Labels
  <2> QED
    BY <1>11, <2>1 DEF clearConfiguration, TypeOK, watchdog, history, checker, Labels
<1> QED
  BY <1>1, <1>2, <1>3, <1>4, <1>5, <1>6, <1>7, <1>8, <1>9, <1>10, <1>11,
     <1>12 DEF handler, storesDuration

\* A step of the watchdog's check reads one more operand, or ends it.
LEMMA CheckType ==
  ASSUME TypeOK, watchdogTimeoutCheck
  PROVE  check' \in Checks(now) /\ burst' \in 0 .. now /\ changed' \in BOOLEAN /\ aborted' \in BOOLEAN
<1>0. check \in Checks(now) /\ now \in 0 .. now /\ NoCheck \in Checks(now)
  <2>1. now \in 0 .. now /\ 0 \in 0 .. now
    BY DEF TypeOK
  <2> QED
    BY <2>1 DEF TypeOK, Checks, NoCheck
<1>1. CASE startCheck
  BY <1>0, <1>1 DEF startCheck, TypeOK, Checks
<1>2. CASE readNow
  BY <1>0, <1>2 DEF readNow, TypeOK, Checks
<1>3. CASE readDuration
  BY <1>0, <1>3 DEF readDuration, TypeOK, Checks
<1>4. CASE readHeartbeat
  BY <1>0, <1>4 DEF readHeartbeat, TypeOK, Checks
<1>5. CASE endCheck
  <2>1. check' \in Checks(now) /\ burst' \in 0 .. now
    BY <1>0, <1>5 DEF endCheck, checker, TypeOK
  <2>2. changed' \in BOOLEAN /\ aborted' \in BOOLEAN
    BY <1>5, Zenon DEF endCheck, checker, TypeOK
  <2> QED
    BY <2>1, <2>2
<1> QED
  BY <1>1, <1>2, <1>3, <1>4, <1>5 DEF watchdogTimeoutCheck

\* Every step keeps the types; when the clock advances, so do the bounds of
\* what was read from it.
LEMMA NextType == TypeOK /\ [Next]_vars => TypeOK'
<1> SUFFICES ASSUME TypeOK, [Next]_vars PROVE TypeOK'
  OBVIOUS
<1>1. ASSUME NEW c \in Clients, handler(c) PROVE TypeOK'
  BY <1>1, HandlerType
<1>2. CASE stop
  BY <1>2 DEF stop, TypeOK, watchdog, threads, checker, history
<1>5. CASE watchdogTimeoutCheck
  BY <1>5, CheckType DEF watchdogTimeoutCheck, TypeOK, Checks, watchdog, threads, history
<1>3. CASE tick
  <2>1. now' \in StartTime .. StartTime + MaxTime /\ now' = now + 1
    BY <1>3 DEF tick, TypeOK
  <2>2. beat' \in [Clients -> 0 .. now']
    BY <1>3, <2>1 DEF tick, threads, TypeOK
  <2>3. check' \in Checks(now')
    BY <1>3, <2>1 DEF tick, checker, TypeOK, Checks
  <2> QED
    BY <1>3, <2>1, <2>2, <2>3 DEF tick, TypeOK, Checks, watchdog, threads, checker, history
<1>4. CASE UNCHANGED vars
  BY <1>4 DEF vars, TypeOK, watchdog, threads, checker, history
<1> QED
  BY <1>1, <1>2, <1>3, <1>4, <1>5 DEF Next

\* Type correctness: every handler keeps the configuration, the watchdog and
\* the threads in their types, and no time that the service has stored or
\* read lies in the future.
THEOREM TypeSafe == Spec => []TypeOK
<1>1. ASSUME Init PROVE TypeOK
  <2>1. /\ state_ \in {"RUNNING", "PAUSED", "STOPPING"} /\ configuration_ \subseteq Keys
        /\ watchdogDurationSec_ \in Durations \cup {0} /\ aborted \in BOOLEAN
    BY <1>1 DEF Init
  <2>2. /\ now \in StartTime .. StartTime + MaxTime /\ lastHeartbeat_ \in 0 .. now
        /\ contact \in 0 .. now /\ since \in 0 .. now /\ burst \in 0 .. now
    BY <1>1 DEF Init
  <2>6. check \in Checks(now) /\ changed \in BOOLEAN
    <3>1. 0 \in 0 .. now
      BY <2>2
    <3> QED
      BY <1>1, <3>1 DEF Init, Checks, NoCheck
  <2>3. beat \in [Clients -> 0 .. now] /\ calls \in 0 .. MaxCalls
    BY <1>1 DEF Init
  <2>4. call \in [Clients -> Calls \cup {NoCall}]
    BY <1>1 DEF Init
  <2>5. pc \in [Clients -> Labels]
    BY <1>1 DEF Init, Labels
  <2> QED
    BY <2>1, <2>2, <2>3, <2>4, <2>5, <2>6 DEF TypeOK, Checks, Labels
<1> QED
  BY <1>1, NextType, PTL DEF Spec

-----------------------------------------------------------------------------
(* resume() and the reader-writer lock *)

\* While a thread holds the read lock in resume(), the configuration it saw
\* is still there.
ReaderInv ==
  RequireConfiguration => \A c \in Clients : pc[c] = "resume" => configuration_ # {}

\* Every step keeps ReaderInv: setConfiguration only adds, and
\* clearConfiguration waits for the readers.
LEMMA NextReader == TypeOK /\ ReaderInv /\ [Next]_vars => ReaderInv'
<1> SUFFICES ASSUME TypeOK, ReaderInv, [Next]_vars PROVE ReaderInv'
  OBVIOUS
<1> USE DEF ReaderInv, TypeOK
<1>1. ASSUME NEW c \in Clients, handler(c) PROVE ReaderInv'
  <2>1. CASE checkConfiguration(c)
    BY <2>1 DEF checkConfiguration, Goto, Return
  <2>2. CASE setConfiguration(c)
    BY <2>2 DEF setConfiguration, Goto, Return
  <2>3. CASE clearConfiguration(c)
    BY <2>3 DEF clearConfiguration, NoReader, Goto, Return
  <2>4. CASE ~(checkConfiguration(c) \/ setConfiguration(c) \/ clearConfiguration(c))
    <3>1. configuration_' = configuration_
      BY <1>1, <2>4 DEF handler, storesDuration, receive, watchdogUpdate, readTime, heartbeat, pause,
                        disarm, resume,
                        setPhase, resume2, setRate, getRate, getConfiguration
    <3>2. \A d \in Clients : pc'[d] = "resume" => pc[d] = "resume"
      BY <1>1, <2>4 DEF handler, storesDuration, receive, watchdogUpdate, readTime, heartbeat, pause,
                        disarm, resume,
                        setPhase, resume2, setRate, getRate, getConfiguration, Goto, Return
    <3> QED
      BY <3>1, <3>2
  <2> QED
    BY <2>1, <2>2, <2>3, <2>4
<1>2. CASE watchdogTimeoutCheck \/ stop \/ tick \/ UNCHANGED vars
  BY <1>2 DEF watchdogTimeoutCheck, stop, tick, vars, threads
<1> QED
  BY <1>1, <1>2 DEF Next

\* resume() never acts on a stale decision: if a configuration is required,
\* the scheduler is resumed only while there is one (ResumeIsConfigured).
THEOREM ResumeConfigured == Spec => ResumeIsConfigured
<1>1. Init => ReaderInv
  BY DEF Init, ReaderInv
<1>2. ReaderInv => [\A c \in Clients :
        (resume(c) /\ state_' # state_ /\ RequireConfiguration) => configuration_ # {}]_vars
  BY DEF ReaderInv, resume, Serves
<1> QED
  BY <1>1, <1>2, TypeSafe, NextReader, PTL DEF Spec, ResumeIsConfigured

-----------------------------------------------------------------------------
(* The watchdog *)

\* Every heartbeat still to be stored, and the stored one when none is
\* pending, is of the last burst of overlapping calls.
BurstInv ==
  /\ \A c \in Clients : pc[c] = "heartbeat" => since <= beat[c]
  /\ (\A c \in Clients : pc[c] # "heartbeat") => since <= lastHeartbeat_

\* Every step keeps BurstInv, in whichever order the threads store.
LEMMA NextBurst == TypeOK /\ BurstInv /\ [Next]_vars => BurstInv'
<1> SUFFICES ASSUME TypeOK, BurstInv, [Next]_vars PROVE BurstInv'
  OBVIOUS
<1> USE DEF BurstInv, TypeOK
<1>1. ASSUME NEW c \in Clients, handler(c) PROVE BurstInv'
  <2>1. CASE readTime(c)
    <3>1. /\ pc' = [pc EXCEPT ![c] = "heartbeat"] /\ beat' = [beat EXCEPT ![c] = now]
          /\ since' = IF \E d \in Clients : pc[d] = "heartbeat" THEN since ELSE now
      BY <2>1 DEF readTime, Goto
    <3>2. now \in Nat /\ since <= now /\ \A d \in Clients : beat[d] \in Nat
      OBVIOUS
    <3>3. \A d \in Clients : pc'[d] = "heartbeat" => since' <= beat'[d]
      BY <3>1, <3>2
    <3>4. pc'[c] = "heartbeat"
      BY <3>1
    <3> QED
      BY <3>3, <3>4
  <2>2. CASE heartbeat(c)
    BY <2>2 DEF heartbeat, heartbeatOf, Goto, history
  <2>3. CASE ~(readTime(c) \/ heartbeat(c))
    <3>1. UNCHANGED <<lastHeartbeat_, beat, since>>
      BY <1>1, <2>3 DEF handler, storesDuration, receive, watchdogUpdate, pause, disarm, checkConfiguration, resume, setPhase,
                        resume2, setRate, getRate, getConfiguration, setConfiguration,
                        clearConfiguration, watchdog, history
    <3>2. \A d \in Clients : (pc'[d] = "heartbeat") <=> (pc[d] = "heartbeat")
      BY <1>1, <2>3 DEF handler, storesDuration, receive, watchdogUpdate, pause, disarm, checkConfiguration, resume, setPhase,
                        resume2, setRate, getRate, getConfiguration, setConfiguration,
                        clearConfiguration, Serves, Goto, Return
    <3> QED
      BY <3>1, <3>2
  <2> QED
    BY <2>1, <2>2, <2>3
<1>2. CASE watchdogTimeoutCheck \/ stop \/ tick \/ UNCHANGED vars
  BY <1>2 DEF watchdogTimeoutCheck, stop, tick, vars, threads, watchdog, history
<1> QED
  BY <1>1, <1>2 DEF Next

\* A check holds a heartbeat no older than the burst it saw, and as long as
\* nobody stores the duration, the one that the timer was armed with.
CheckInv ==
  /\ check.last # Unread => burst <= check.last
  /\ (check.at # "idle" /\ ~changed) => watchdogDurationSec_ > 0
  /\ check.duration # Unread => check.at # "idle" /\ (changed \/ check.duration > 0)

\* Every step keeps CheckInv, in whichever order the check reads.
LEMMA NextCheck == TypeOK /\ BurstInv /\ CheckInv /\ [Next]_vars => CheckInv'
<1> SUFFICES ASSUME TypeOK, BurstInv, CheckInv, [Next]_vars PROVE CheckInv'
  OBVIOUS
<1>0. check \in Checks(now) /\ watchdogDurationSec_ \in Nat
  BY DEF TypeOK, Checks
<1>1. ASSUME NEW c \in Clients, handler(c) PROVE CheckInv'
  <2>1. check' = check /\ burst' = burst
    BY <1>1 DEF handler, storesDuration, disarm, setConfiguration, storeDuration, checker
  <2>2. \/ watchdogDurationSec_' = watchdogDurationSec_ /\ changed' = changed
        \/ changed' = (check.at # "idle")
    BY <1>1 DEF handler, storesDuration, disarm, setConfiguration, storeDuration, checker,
                receive, watchdogUpdate, readTime, heartbeat, pause, checkConfiguration, resume,
                setPhase, resume2, setRate, getRate, getConfiguration, clearConfiguration, watchdog
  <2> QED
    BY <2>1, <2>2 DEF CheckInv
<1>2. CASE watchdogTimeoutCheck
  <2>0. UNCHANGED watchdog
    BY <1>2 DEF watchdogTimeoutCheck
  <2>1. CASE startCheck
    BY <1>0, <2>0, <2>1 DEF startCheck, armed, CheckInv, Checks, watchdog
  <2>2. CASE readNow
    BY <1>0, <2>0, <2>2 DEF readNow, CheckInv, Checks, watchdog
  <2>3. CASE readDuration
    BY <1>0, <2>0, <2>3 DEF readDuration, CheckInv, Checks, watchdog
  <2>4. CASE readHeartbeat
    BY <1>0, <2>0, <2>4 DEF readHeartbeat, CheckInv, BurstInv, Checks, watchdog, TypeOK
  <2>5. CASE endCheck
    BY <1>0, <2>0, <2>5 DEF endCheck, NoCheck, checker, CheckInv, Checks, watchdog
  <2> QED
    BY <1>2, <2>1, <2>2, <2>3, <2>4, <2>5 DEF watchdogTimeoutCheck
<1>3. CASE stop \/ tick \/ UNCHANGED vars
  BY <1>3 DEF stop, tick, vars, checker, watchdog, CheckInv
<1> QED
  BY <1>1, <1>2, <1>3 DEF Next

\* A watchdog timeout means silence for the whole duration since the last burst
\* of calls (TimeoutMeansSilence), although the check makes its reads one after
\* the other and unguarded heartbeats may be stored in the wrong order: only a
\* store of the duration during the check can make it come earlier.
THEOREM TimeoutSound == Spec => []TimeoutMeansSilence
<1>1. Init => BurstInv /\ CheckInv
  BY DEF Init, BurstInv, CheckInv, NoCheck
<1>2. TypeOK /\ CheckInv => TimeoutMeansSilence
  <2> SUFFICES ASSUME TypeOK, CheckInv, timedOut, ~changed
               PROVE  check.duration > 0 /\ check.time - check.duration > burst
    BY DEF TimeoutMeansSilence
  <2>1. /\ check.duration > 0 /\ burst <= check.last
        /\ check.time - check.duration > check.last
    BY DEF CheckInv, timedOut, compared, expires
  <2>2. check \in Checks(now) /\ now \in Nat /\ burst \in Nat
    BY DEF TypeOK, Checks
  <2>3. check.time \in 0 .. now /\ check.duration \in Nat /\ check.last \in 0 .. now
    <3>1. check.duration # Unread /\ check.last # Unread
      BY DEF timedOut, compared
    <3>2. /\ check.time \in 0 .. now /\ check.last \in (0 .. now) \cup {Unread}
          /\ check.duration \in Durations \cup {0, Unread}
      BY <2>2 DEF Checks
    <3>3. \A d \in Durations \cup {0, Unread} : d # Unread => d \in Nat
      OBVIOUS
    <3> QED
      BY <3>1, <3>2, <3>3
  <2> QED
    BY <2>1, <2>2, <2>3
<1> QED
  BY <1>1, <1>2, TypeSafe, NextBurst, NextCheck, PTL DEF Spec

=============================================================================
