--------------------------- MODULE TreadmillFB303 ---------------------------
(***************************************************************************)
(* The control service of Treadmill (TreadmillFB303.h, TreadmillFB303.cpp, *)
(* if/treadmill.thrift): the Thrift handlers that pause, resume and        *)
(* configure a run, and the watchdog that notices that nobody calls them.  *)
(*                                                                         *)
(* The handlers run on several server threads.  configuration_ is guarded  *)
(* by mutex_, a reader-writer lock; watchdogDurationSec_ and               *)
(* lastHeartbeat_ are not guarded.  A step is one access to shared state,  *)
(* the clock included, or one critical section; resume() holds the read    *)
(* lock across two.  watchdogTimeoutCheck is called by a thread from       *)
(* outside the repository, with its default of raising.                    *)
(*                                                                         *)
(* Of the scheduler only state_ is kept, with the compare-and-swaps of     *)
(* pause() and resume() and the CHECK of setPhase(); Scheduler.tla has the *)
(* rest.  setRps and setMaxOutstanding change nothing here but the         *)
(* heartbeat and are one call, setRate.  The getters for the code in the   *)
(* process and the status are left out; Startup.tla has the set-up.        *)
(***************************************************************************)
EXTENDS Integers, FiniteSets

CONSTANTS
  Clients,               \* server threads
  Keys,                  \* configuration keys, "watchdog_sec" among them
  Durations,             \* values of watchdog_sec, 0 for one that does not parse
  RequireConfiguration,  \* FLAGS_require_configuration_on_resume
  EnableWatchdog,        \* FLAGS_enable_watchdog_timer
  WaitForRunnerReady,    \* FLAGS_wait_for_runner_ready
  StartTime,             \* seconds since the epoch when the server starts
  MaxCalls,              \* bound: calls the service gets
  MaxTime                \* bound: seconds that pass

ASSUME FB303Assumption ==
  /\ "watchdog_sec" \in Keys
  /\ Durations \subseteq Nat
  /\ {RequireConfiguration, EnableWatchdog, WaitForRunnerReady} \subseteq BOOLEAN
  /\ {StartTime, MaxCalls, MaxTime} \subseteq Nat

VARIABLES
  state_,               \* the scheduler's RunState
  configuration_,       \* keys that have a value
  watchdogDurationSec_,
  lastHeartbeat_,
  now,                  \* fb_time_seconds()
  pc,                   \* position of each thread in its handler
  call,                 \* the call each thread serves
  beat,                 \* the time read by a thread inside watchdogUpdate
  calls,                \* calls that came in
  check,                \* what the watchdogTimeoutCheck under way has read
  aborted,              \* a CHECK failed or the watchdog raised: process gone
  contact,              \* history: when the last call came in
  since,                \* history: when the last burst of overlapping heartbeats began
  burst,                \* history: since, as the check found it; 0 if heartbeats were pending
  changed               \* history: the duration was stored while the check was under way

watchdog == <<watchdogDurationSec_, lastHeartbeat_>>
threads == <<pc, call, beat, calls>>
checker == <<check, burst, changed>>
history == <<contact, since>>
vars == <<state_, configuration_, watchdog, now, threads, checker, aborted, history>>

Calls ==
  [name : {"pause", "resume", "resume2", "setRate", "getRate", "getConfiguration",
           "clearConfiguration"}]
    \cup [name : {"setConfiguration"}, key : Keys \ {"watchdog_sec"}]
    \cup [name : {"setConfiguration"}, key : {"watchdog_sec"}, value : Durations]

NoCall == [name |-> "none"]

\* No check is under way, and an operand of its comparison not read yet.
Unread == -1
NoCheck == [at |-> "idle", time |-> 0, duration |-> Unread, last |-> Unread]

-----------------------------------------------------------------------------
(* TreadmillFB303::TreadmillFB303 *)

Init ==
  /\ state_ = IF WaitForRunnerReady THEN "PAUSED" ELSE "RUNNING"
  /\ configuration_ = {}
  /\ watchdogDurationSec_ = 0
  /\ lastHeartbeat_ = 0
  /\ now = StartTime
  /\ pc = [c \in Clients |-> "idle"]
  /\ call = [c \in Clients |-> NoCall]
  /\ beat = [c \in Clients |-> 0]
  /\ calls = 0
  /\ aborted = FALSE
  /\ check = NoCheck
  /\ contact = 0
  /\ since = 0
  /\ burst = 0
  /\ changed = FALSE

-----------------------------------------------------------------------------

Goto(c, label) == pc' = [pc EXCEPT ![c] = label]
Return(c) == Goto(c, "idle") /\ call' = [call EXCEPT ![c] = NoCall]
Serves(c, label, name) == pc[c] = label /\ call[c].name = name

\* The scheduler's compare-and-swaps.
PauseScheduler == state_' = IF state_ = "RUNNING" THEN "PAUSED" ELSE state_
ResumeScheduler == state_' = IF state_ = "PAUSED" THEN "RUNNING" ELSE state_

\* Bug: writers do not wait for readers.
Unlocked == TRUE

\* mutex_: a writer waits for the readers, which are the threads in resume().
NoReader == \A c \in Clients : pc[c] # "resume"

\* A thread starts to serve a call.  All but pause and getRate begin
\* with watchdogUpdate.
receive(c) ==
  /\ pc[c] = "idle" /\ calls < MaxCalls
  /\ \E k \in Calls :
       /\ call' = [call EXCEPT ![c] = k]
       /\ Goto(c, IF k.name \in {"pause", "getRate"} THEN "body" ELSE "update")
  /\ calls' = calls + 1
  /\ contact' = now
  /\ UNCHANGED <<state_, configuration_, watchdog, now, beat, aborted, since>>

-----------------------------------------------------------------------------
(* The watchdog *)

armed == EnableWatchdog /\ watchdogDurationSec_ > 0

\* watchdogUpdate(): if the timer is armed ...
watchdogUpdate(c) ==
  /\ pc[c] = "update"
  /\ Goto(c, IF armed THEN "clock" ELSE "body")
  /\ UNCHANGED <<state_, configuration_, watchdog, now, call, beat, calls, aborted, history>>

\* ... read the clock ...
readTime(c) ==
  /\ pc[c] = "clock"
  /\ beat' = [beat EXCEPT ![c] = now]
  /\ since' = IF \E d \in Clients : pc[d] = "heartbeat" THEN since ELSE now
  /\ Goto(c, "heartbeat")
  /\ UNCHANGED <<state_, configuration_, watchdog, now, call, calls, aborted, contact>>

\* Bug: the deadline is stored instead of the time of the contact.
StoresDeadline(time) == time + watchdogDurationSec_

\* What watchdogUpdate stores: the time it read.
heartbeatOf(time) == time

\* ... and store it, without a lock.
heartbeat(c) ==
  /\ pc[c] = "heartbeat"
  /\ lastHeartbeat_' = heartbeatOf(beat[c])
  /\ beat' = [beat EXCEPT ![c] = 0]
  /\ Goto(c, "body")
  /\ UNCHANGED <<state_, configuration_, watchdogDurationSec_, now, call, calls, aborted,
                 history>>

\* watchdogTimeoutCheck(): goes on only if the timer is armed ...
startCheck ==
  /\ check.at = "idle" /\ armed
  /\ check' = [check EXCEPT !.at = "clock"]
  /\ UNCHANGED <<burst, changed, aborted>>

\* ... reads the clock ...
readNow ==
  /\ check.at = "clock"
  /\ check' = [check EXCEPT !.at = "compare", !.time = now]
  /\ UNCHANGED <<burst, changed, aborted>>

\* ... then, in either order, the duration once more and the heartbeat.
readDuration ==
  /\ check.at = "compare" /\ check.duration = Unread
  /\ check' = [check EXCEPT !.duration = watchdogDurationSec_]
  /\ UNCHANGED <<burst, changed, aborted>>

readHeartbeat ==
  /\ check.at = "compare" /\ check.last = Unread
  /\ check' = [check EXCEPT !.last = lastHeartbeat_]
  /\ burst' = IF \E c \in Clients : pc[c] = "heartbeat" THEN 0 ELSE since
  /\ UNCHANGED <<changed, aborted>>

\* Bug: the timer already expires when the duration is just reached.
ExpiresEarly(time, duration, last) == time - duration >= last

\* now - watchdogDurationSec_ > lastHeartbeat_
expires(time, duration, last) == time - duration > last

\* Both operands are read.
compared == check.at = "compare" /\ check.duration # Unread /\ check.last # Unread

timedOut == compared /\ expires(check.time, check.duration, check.last)

\* It aborts the process, or returns false.
endCheck ==
  /\ compared
  /\ IF timedOut THEN aborted' = TRUE /\ UNCHANGED checker
                 ELSE check' = NoCheck /\ burst' = 0 /\ changed' = FALSE /\ UNCHANGED aborted

watchdogTimeoutCheck ==
  /\ startCheck \/ readNow \/ readDuration \/ readHeartbeat \/ endCheck
  /\ UNCHANGED <<state_, configuration_, watchdog, now, threads, history>>

\* The duration gets a new value.
storeDuration(value) ==
  /\ watchdogDurationSec_' = value
  /\ changed' = (check.at # "idle")
  /\ UNCHANGED <<check, burst>>

-----------------------------------------------------------------------------
(* The handlers, after watchdogUpdate *)

\* pause(): the scheduler first, then the timer is disarmed.
pause(c) ==
  /\ Serves(c, "body", "pause")
  /\ PauseScheduler
  /\ Goto(c, "disarm")
  /\ UNCHANGED <<configuration_, watchdog, now, call, beat, calls, aborted, history>>

disarm(c) ==
  /\ Serves(c, "disarm", "pause")
  /\ storeDuration(0)
  /\ Return(c)
  /\ UNCHANGED <<state_, configuration_, lastHeartbeat_, now, beat, calls, aborted, history>>

\* resume(): under the read lock, refuse if a configuration is required ...
checkConfiguration(c) ==
  /\ Serves(c, "body", "resume")
  /\ IF RequireConfiguration /\ configuration_ = {}
       THEN Return(c)
       ELSE Goto(c, "resume") /\ UNCHANGED call
  /\ UNCHANGED <<state_, configuration_, watchdog, now, beat, calls, aborted, history>>

\* ... else resume the scheduler and release the lock.
resume(c) ==
  /\ Serves(c, "resume", "resume")
  /\ ResumeScheduler
  /\ Return(c)
  /\ UNCHANGED <<configuration_, watchdog, now, beat, calls, aborted, history>>

\* future_resume2(): setPhase() with its CHECK ...
setPhase(c) ==
  /\ Serves(c, "body", "resume2")
  /\ IF WaitForRunnerReady /\ state_ # "PAUSED"
       THEN aborted' = TRUE /\ UNCHANGED pc
       ELSE Goto(c, "resume2") /\ UNCHANGED aborted
  /\ UNCHANGED <<state_, configuration_, watchdog, now, call, beat, calls, history>>

\* ... and resume the scheduler.
resume2(c) ==
  /\ Serves(c, "resume2", "resume2")
  /\ ResumeScheduler
  /\ Return(c)
  /\ UNCHANGED <<configuration_, watchdog, now, beat, calls, aborted, history>>

\* setRps(), setMaxOutstanding()
setRate(c) ==
  /\ Serves(c, "body", "setRate")
  /\ Return(c)
  /\ UNCHANGED <<state_, configuration_, watchdog, now, beat, calls, aborted, history>>

\* future_getRate(): reads the scheduler, and is no heartbeat.
getRate(c) ==
  /\ Serves(c, "body", "getRate")
  /\ Return(c)
  /\ UNCHANGED <<state_, configuration_, watchdog, now, beat, calls, aborted, history>>

\* getConfiguration(): the read lock is shared with the other readers.
getConfiguration(c) ==
  /\ Serves(c, "body", "getConfiguration")
  /\ Return(c)
  /\ UNCHANGED <<state_, configuration_, watchdog, now, beat, calls, aborted, history>>

\* setConfiguration(): the key, and the timer if the key is watchdog_sec.
setConfiguration(c) ==
  /\ Serves(c, "body", "setConfiguration")
  /\ NoReader
  /\ configuration_' = configuration_ \cup {call[c].key}
  /\ IF EnableWatchdog /\ call[c].key = "watchdog_sec"
       THEN storeDuration(call[c].value)
       ELSE UNCHANGED <<watchdogDurationSec_, checker>>
  /\ Return(c)
  /\ UNCHANGED <<state_, lastHeartbeat_, now, beat, calls, aborted, history>>

clearConfiguration(c) ==
  /\ Serves(c, "body", "clearConfiguration")
  /\ NoReader
  /\ configuration_' = {}
  /\ Return(c)
  /\ UNCHANGED <<state_, watchdog, now, beat, calls, aborted, history>>

-----------------------------------------------------------------------------

\* What a server thread does, and which of it stores the duration.
storesDuration(c) == disarm(c) \/ setConfiguration(c)

handler(c) ==
  \/ storesDuration(c)
  \/ /\ \/ receive(c) \/ watchdogUpdate(c) \/ readTime(c) \/ heartbeat(c)
        \/ pause(c) \/ checkConfiguration(c) \/ resume(c)
        \/ setPhase(c) \/ resume2(c) \/ setRate(c) \/ getRate(c) \/ getConfiguration(c)
        \/ clearConfiguration(c)
     /\ UNCHANGED checker

\* The runner or a worker stops the scheduler.
stop ==
  /\ state_' = "STOPPING"
  /\ UNCHANGED <<configuration_, watchdog, now, threads, checker, aborted, history>>

tick ==
  /\ now < StartTime + MaxTime
  /\ now' = now + 1
  /\ UNCHANGED <<state_, configuration_, watchdog, threads, checker, aborted, history>>

Next ==
  /\ ~aborted
  /\ \/ \E c \in Clients : handler(c)
     \/ watchdogTimeoutCheck
     \/ stop
     \/ tick

Spec == Init /\ [][Next]_vars

-----------------------------------------------------------------------------
(* Properties *)

TypeOK ==
  /\ state_ \in {"RUNNING", "PAUSED", "STOPPING"}
  /\ configuration_ \subseteq Keys
  /\ watchdogDurationSec_ \in Durations \cup {0}
  /\ now \in StartTime .. StartTime + MaxTime
  /\ lastHeartbeat_ \in 0 .. now
  /\ pc \in [Clients -> {"idle", "update", "clock", "heartbeat", "body", "disarm", "resume",
                      "resume2"}]
  /\ call \in [Clients -> Calls \cup {NoCall}]
  /\ beat \in [Clients -> 0 .. now]
  /\ calls \in 0 .. MaxCalls
  /\ aborted \in BOOLEAN
  /\ check \in [at : {"idle", "clock", "compare"}, time : 0 .. now,
               duration : Durations \cup {0, Unread}, last : (0 .. now) \cup {Unread}]
  /\ contact \in 0 .. now /\ since \in 0 .. now /\ burst \in 0 .. now
  /\ changed \in BOOLEAN

\* If a configuration is required, resume() starts the scheduler only while
\* there is one, however clearConfiguration races with it: the decision is
\* not stale when it is acted on (TreadmillFB303.cpp:88).
ResumeIsConfigured ==
  [][\A c \in Clients :
       (resume(c) /\ state_' # state_ /\ RequireConfiguration) => configuration_ # {}]_vars

\* The watchdog ends the process only if the service was silent for the whole
\* duration the timer was armed with, counted back from the check's reading of
\* the clock to the first of the last overlapping heartbeats, provided that no
\* pause or setConfiguration stored the duration during the check: two threads
\* that store their heartbeats in the wrong order, and a check whose four
\* reads are spread out among them (TreadmillFB303.cpp:211), lose no more than
\* that.  A pause between the two reads of the duration makes it 0.
TimeoutMeansSilence ==
  (timedOut /\ ~changed) => /\ check.duration > 0
                            /\ check.time - check.duration > burst

\* A timeout means that no call came in for the whole duration before the
\* clock was read ("watchdog timeout: no contact since", TreadmillFB303.cpp:215).
NoFalseTimeout ==
  (timedOut /\ \A c \in Clients : pc[c] = "idle")
    => contact \notin check.time - check.duration .. check.time

\* resume2 is resume under another name ("Temporary renaming of resume for
\* backwards compatibility", treadmill.thrift:44; resume is a "no-op if not
\* paused", Scheduler.h:46): it does not end the process, and it too needs the
\* configuration that is required.
Resume2IsResume ==
  [][\A c \in Clients :
       /\ setPhase(c) => ~aborted'
       /\ (resume2(c) /\ state_' # state_ /\ RequireConfiguration) => configuration_ # {}]_vars

=============================================================================
