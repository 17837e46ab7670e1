-------------------------- MODULE SchedulerProofs --------------------------
(***************************************************************************)
(* Theorems about Scheduler, for any number of workers, callers, phases,   *)
(* limits and rates and any bounds.                                        *)
(***************************************************************************)
EXTENDS Scheduler, FiniteSetTheorems, TLAPS

-----------------------------------------------------------------------------
(* Type correctness *)

\* What a thread inside messageAllWorkers is sending.
FrameOK ==
  /\ pc["loop"] = "reset" => frame["loop"].event = Event("RESET", NoData)
  /\ pc["loop"] = "stop" => frame["loop"].event = Event("STOP", NoData)
  /\ \A c \in Callers :
       /\ pc[c] = "event" => frame[c].event.type = "SET_MAX_OUTSTANDING"
       /\ pc[c] = "put" => frame[c].event.type \in {"SET_PHASE", "SET_MAX_OUTSTANDING"}

TypeInv == TypeOK /\ FrameOK

\* The events the scheduler builds are events.
LEMMA EventTypes ==
  /\ \A t \in {"STOP", "RESET", "SEND_REQUEST"} : Event(t, NoData) \in Events
  /\ \A p \in Phases : Event("SET_PHASE", p) \in Events
  /\ \A l \in Limits : Event("SET_MAX_OUTSTANDING", l) \in Events
  /\ \A e \in Events : e.type = "SET_MAX_OUTSTANDING" => e.data \in Limits
  /\ \A t, d : Event(t, d).type = t /\ Event(t, d).data = d
  BY DEF Events, Event

\* The constructor establishes TypeInv.
LEMMA InitType == Init => TypeInv
<1> SUFFICES ASSUME Init PROVE TypeInv
  OBVIOUS
<1> USE SchedulerAssumption DEF Init
<1>1. NoFrame \in [event : Events, i : Workers]
  BY EventTypes DEF NoFrame, Workers
<1>2. queues_ \in [Workers -> Seq(Events)]
  OBVIOUS
<1>3. pc \in [Threads -> LoopPc \cup CallerPc] /\ pc["loop"] = "new"
      /\ \A c \in Callers : pc[c] = "idle"
  BY DEF Threads, LoopPc, CallerPc
<1>4. TypeOK
  <2>1. state_ \in RunState
    BY DEF RunState
  <2>2. next_ \in Workers /\ late \in Nat /\ stale \in Nat /\ resumed \subseteq Workers
    BY DEF Workers
  <2>3. calls \in 0 .. MaxCalls
    OBVIOUS
  <2>4. frame \in [Threads -> [event : Events, i : Workers]]
    BY <1>1
  <2>5. pc["loop"] \in LoopPc /\ \A c \in Callers : pc[c] \in CallerPc
    BY <1>3 DEF LoopPc, CallerPc
  <2>6. promise_ \in BOOLEAN /\ aborted \in BOOLEAN /\ alone \in BOOLEAN
    OBVIOUS
  <2> QED
    BY <1>2, <1>3, <2>1, <2>2, <2>3, <2>4, <2>5, <2>6 DEF TypeOK
<1> QED
  BY <1>3, <1>4 DEF TypeInv, FrameOK

\* One iteration of messageAllWorkers, and what it leaves of the other threads.
LEMMA MessageType ==
  ASSUME TypeInv, NEW t \in Threads, NEW return \in LoopPc \cup CallerPc,
         messageAllWorkers(t, return)
  PROVE  /\ queues_' \in [Workers -> Seq(Events)]
         /\ resumed' \subseteq Workers
         /\ frame' \in [Threads -> [event : Events, i : Workers]]
         /\ pc' \in [Threads -> LoopPc \cup CallerPc]
         /\ \A s \in Threads : s # t => pc'[s] = pc[s] /\ frame'[s] = frame[s]
         /\ \/ pc'[t] = pc[t] /\ frame'[t].event = frame[t].event
            \/ pc'[t] = return
<1> DEFINE f == frame[t]
<1> USE SchedulerAssumption DEF TypeInv, TypeOK
<1>1. f \in [event : Events, i : Workers]
  OBVIOUS
<1>2. queues_' \in [Workers -> Seq(Events)]
  BY <1>1 DEF messageAllWorkers, moreQueues
<1>3. resumed' \subseteq Workers
  BY DEF messageAllWorkers, moreQueues
<1>4. NoFrame \in [event : Events, i : Workers]
  BY EventTypes DEF NoFrame, Workers
<1>5. CASE f.i + 1 < NumWorkers
  <2>1. frame' = [frame EXCEPT ![t].i = @ + 1] /\ pc' = pc
    BY <1>5 DEF messageAllWorkers, moreQueues
  <2>2. f.i + 1 \in Workers
    BY <1>1, <1>5 DEF Workers
  <2> QED
    BY <1>1, <1>2, <1>3, <2>1, <2>2
<1>6. CASE ~(f.i + 1 < NumWorkers)
  <2>1. frame' = [frame EXCEPT ![t] = NoFrame] /\ pc' = [pc EXCEPT ![t] = return]
    BY <1>6 DEF messageAllWorkers, moreQueues, Goto
  <2> QED
    BY <1>2, <1>3, <1>4, <2>1
<1> QED
  BY <1>5, <1>6

\* Every step keeps TypeInv.
LEMMA NextType == TypeInv /\ [Next]_vars => TypeInv'
<1> SUFFICES ASSUME TypeInv, [Next]_vars PROVE TypeInv'
  OBVIOUS
<1> USE SchedulerAssumption DEF TypeInv
<1>0. /\ NoFrame \in [event : Events, i : Workers]
      /\ 0 \in Workers
  BY EventTypes DEF NoFrame, Workers
<1>1. CASE run
  BY <1>0, <1>1, EventTypes
     DEF run, Enter, Goto, shared, loopVars, history, TypeOK, FrameOK, Threads, LoopPc
<1>2. CASE stop
  BY <1>2 DEF stop, Become, loopVars, TypeOK, FrameOK, RunState
<1>3. CASE loop
  <2>1. CASE loopReset
    <3>1. messageAllWorkers("loop", "start") /\ "loop" \in Threads /\ "start" \in LoopPc
      BY <2>1 DEF loopReset, Threads, LoopPc
    <3>2. TypeOK'
      BY <2>1, <3>1, MessageType DEF loopReset, loopVars, TypeOK, Threads, LoopPc
    <3>3. FrameOK'
      <4>1. \A c \in Callers : pc'[c] = pc[c] /\ frame'[c] = frame[c]
        BY <3>1, MessageType DEF Threads
      <4>2. \/ pc'["loop"] = pc["loop"] /\ frame'["loop"].event = frame["loop"].event
            \/ pc'["loop"] = "start"
        BY <3>1, MessageType
      <4> QED
        BY <4>1, <4>2 DEF FrameOK
    <3> QED
      BY <3>2, <3>3
  <2>2. CASE loopStart
    BY <2>2, <1>0 DEF loopStart, firstQueue, Goto, shared, history, TypeOK, FrameOK, Threads, LoopPc
  <2>3. CASE loopRunning
    BY <2>3 DEF loopRunning, Goto, shared, loopVars, history, TypeOK, FrameOK, Threads, LoopPc
  <2>4. CASE loopSend
    <3>1. advance \in Workers
      BY DEF advance, TypeOK, Workers
    <3>2. queues_' \in [Workers -> Seq(Events)]
      BY <2>4, EventTypes DEF loopSend, TypeOK
    <3>3. late' \in Nat /\ stale' \in Nat
      BY <2>4 DEF loopSend, TypeOK
    <3> QED
      BY <2>4, <3>1, <3>2, <3>3 DEF loopSend, Goto, TypeOK, FrameOK, Threads, LoopPc
  <2>5. CASE loopRate
    BY <2>5 DEF loopRate, refreshedRate, Goto, shared, history, TypeOK, FrameOK, Threads, LoopPc
  <2>6. CASE loopPaused
    BY <2>6 DEF loopPaused, Goto, shared, loopVars, history, TypeOK, FrameOK, Threads, LoopPc
  <2>7. CASE loopWhile
    <3>1. PICK e \in {Event("RESET", NoData), Event("STOP", NoData)},
               label \in {"reset", "stop"} :
            /\ Enter("loop", label, e)
            /\ label = "reset" => e = Event("RESET", NoData)
            /\ label = "stop" => e = Event("STOP", NoData)
      BY <2>7 DEF loopWhile
    <3>2. e \in Events
      BY EventTypes
    <3>3. TypeOK'
      BY <1>0, <2>7, <3>1, <3>2
         DEF loopWhile, Enter, Goto, shared, loopVars, history, TypeOK, Threads, LoopPc
    <3>4. FrameOK'
      BY <2>7, <3>1 DEF Enter, Goto, FrameOK, TypeOK, Threads
    <3> QED
      BY <3>3, <3>4
  <2>8. CASE loopStop
    <3>1. messageAllWorkers("loop", "exit") /\ "loop" \in Threads /\ "exit" \in LoopPc
      BY <2>8 DEF loopStop, afterStop, Threads, LoopPc
    <3>2. TypeOK'
      BY <2>8, <3>1, MessageType DEF loopStop, afterStop, loopVars, TypeOK, Threads, LoopPc
    <3>3. FrameOK'
      <4>1. \A c \in Callers : pc'[c] = pc[c] /\ frame'[c] = frame[c]
        BY <3>1, MessageType DEF Threads
      <4>2. \/ pc'["loop"] = pc["loop"] /\ frame'["loop"].event = frame["loop"].event
            \/ pc'["loop"] = "exit"
        BY <3>1, MessageType
      <4> QED
        BY <4>1, <4>2 DEF FrameOK
    <3> QED
      BY <3>2, <3>3
  <2>9. CASE loopExit
    BY <2>9 DEF loopExit, Goto, loopVars, history, TypeOK, FrameOK, Threads, LoopPc
  <2> QED
    BY <1>3, <2>1, <2>2, <2>3, <2>4, <2>5, <2>6, <2>7, <2>8, <2>9 DEF loop
<1>4. ASSUME NEW c \in Callers, Controls(c) PROVE TypeInv'
  <2>0. Call(c) => calls' \in 0 .. MaxCalls
    BY DEF Call, TypeOK
  <2>1. CASE pause(c)
    BY <2>0, <2>1 DEF pause, pauseCas, Become, loopVars, TypeOK, FrameOK, RunState
  <2>2. CASE resume(c)
    BY <2>0, <2>2 DEF resume, resumeCas, Become, loopVars, TypeOK, FrameOK, RunState
  <2>3. ASSUME NEW phase \in Phases, setPhase(c, phase) PROVE TypeInv'
    <3>1. CASE UNCHANGED <<pc, frame>>
      BY <2>0, <2>3, <3>1 DEF setPhase, shared, loopVars, history, TypeOK, FrameOK
    <3>2. CASE Enter(c, "put", Event("SET_PHASE", phase)) /\ UNCHANGED aborted
      BY <1>0, <2>0, <2>3, <3>2, EventTypes
         DEF setPhase, Enter, Goto, shared, loopVars, history, TypeOK, FrameOK, Threads,
             CallerPc
    <3> QED
      BY <2>3, <3>1, <3>2 DEF setPhase
  <2>4. ASSUME NEW limit \in Limits, setMaxOutstandingRequests(c, limit) PROVE TypeInv'
    <3>1. alone' \in BOOLEAN
      BY <2>4, Zenon DEF setMaxOutstandingRequests
    <3> QED
      BY <1>0, <2>0, <2>4, <3>1, EventTypes
       DEF setMaxOutstandingRequests, storedLimit, Enter, Goto, loopVars, history, TypeOK, FrameOK,
           Threads, CallerPc
  <2>5. ASSUME NEW rate \in Rates, setRps(c, rate) PROVE TypeInv'
    BY <2>0, <2>5 DEF setRps, loopVars, TypeOK, FrameOK
  <2> QED
    BY <1>4, <2>1, <2>2, <2>3, <2>4, <2>5 DEF Controls
<1>5. ASSUME NEW c \in Callers, Continues(c) PROVE TypeInv'
  <2>1. CASE maxOutstandingEvent(c)
    <3>1. frame[c].event.data \in Limits /\ max_outstanding_requests_ \in Limits
      BY <2>1, EventTypes DEF maxOutstandingEvent, TypeOK, FrameOK, Threads
    <3>2. PICK limit \in Limits : Enter(c, "put", Event("SET_MAX_OUTSTANDING", limit))
      BY <2>1, <3>1 DEF maxOutstandingEvent
    <3> QED
      BY <1>0, <2>1, <3>2, EventTypes
         DEF maxOutstandingEvent, Enter, Goto, shared, loopVars, history, TypeOK, FrameOK,
             Threads, CallerPc
  <2>2. CASE callerPuts(c)
    <3>1. messageAllWorkers(c, "idle") /\ c \in Threads /\ "idle" \in CallerPc
          /\ c # "loop"
      BY <2>2 DEF callerPuts, Threads, CallerPc
    <3>2. TypeOK'
      BY <2>2, <3>1, MessageType DEF callerPuts, loopVars, TypeOK, Threads, CallerPc
    <3>3. FrameOK'
      <4>1. \A s \in Threads : s # c => pc'[s] = pc[s] /\ frame'[s] = frame[s]
        BY <3>1, MessageType
      <4>2. \/ pc'[c] = pc[c] /\ frame'[c].event = frame[c].event
            \/ pc'[c] = "idle"
        BY <3>1, MessageType
      <4> QED
        BY <3>1, <4>1, <4>2 DEF FrameOK, Threads
    <3> QED
      BY <3>2, <3>3
  <2> QED
    BY <1>5, <2>1, <2>2 DEF Continues
<1>6. CASE UNCHANGED vars
  BY <1>6 DEF vars, shared, loopVars, history, TypeOK, FrameOK
<1> QED
  BY <1>1, <1>2, <1>3, <1>4, <1>5, <1>6 DEF Next

\* TypeInv holds in every reachable state.
LEMMA TypeCorrect == Spec => []TypeInv
  BY InitType, NextType, PTL DEF Spec

\* Type correctness: every method and every step of the loop keeps the
\* scheduler's members, the queues and the threads' positions in their types.
THEOREM TypeSafe == Spec => []TypeOK
<1>1. TypeInv => TypeOK
  BY DEF TypeInv
<1> QED
  BY <1>1, TypeCorrect, PTL

-----------------------------------------------------------------------------
(* At most one request after pause or stop *)

\* A request can only be late if its wait began while state_ was RUNNING, and
\* late is back at 0 by then.
LateInv ==
  /\ state_ = "RUNNING" => late = 0
  /\ pc["loop"] = "send" => late = 0
  /\ AtMostOneLate

\* Every store to state_ keeps LateInv.
LEMMA BecomeLate ==
  ASSUME TypeInv, LateInv, NEW s, Become(s), pc' = pc
  PROVE  LateInv'
  BY DEF Become, LateInv, AtMostOneLate

\* Every step keeps LateInv.
LEMMA NextLate == TypeInv /\ LateInv /\ [Next]_vars => LateInv'
<1> SUFFICES ASSUME TypeInv, LateInv, [Next]_vars PROVE LateInv'
  OBVIOUS
<1> USE SchedulerAssumption
<1>1. CASE run
  BY <1>1 DEF run, Enter, Goto, shared, history, LateInv, AtMostOneLate, TypeInv, TypeOK, Threads
<1>2. CASE stop
  BY <1>2, BecomeLate DEF stop
<1>3. CASE loopRunning
  BY <1>3 DEF loopRunning, keepsSending, Goto, shared, history, LateInv, AtMostOneLate,
              TypeInv, TypeOK, Threads
<1>4. CASE loopSend
  BY <1>4 DEF loopSend, Goto, LateInv, AtMostOneLate, TypeInv, TypeOK, Threads
<1>5. CASE loopReset \/ loopStop
  <2>1. PICK return \in {"start", "exit"} : messageAllWorkers("loop", return)
    BY <1>5 DEF loopReset, loopStop, afterStop
  <2>2. pc'["loop"] # "send"
    BY <1>5, <2>1 DEF messageAllWorkers, moreQueues, Goto, loopReset, loopStop, afterStop, TypeInv, TypeOK, Threads
  <2> QED
    BY <1>5, <2>2 DEF loopReset, loopStop, afterStop, LateInv, AtMostOneLate
<1>6. CASE loopStart \/ loopRate \/ loopPaused \/ loopWhile \/ loopExit
  <2>1. pc'["loop"] # "send"
    BY <1>6 DEF loopStart, firstQueue, loopRate, loopPaused, loopWhile, loopExit, Enter, Goto,
                TypeInv, TypeOK, Threads
  <2>2. UNCHANGED <<state_, late>>
    BY <1>6 DEF loopStart, firstQueue, loopRate, loopPaused, loopWhile, loopExit, shared, history
  <2> QED
    BY <2>1, <2>2 DEF LateInv, AtMostOneLate
<1>7. ASSUME NEW c \in Callers, Controls(c) PROVE LateInv'
  <2>1. CASE pause(c) \/ resume(c)
    BY <2>1, BecomeLate DEF pause, resume, pauseCas, resumeCas
  <2>2. CASE ~(pause(c) \/ resume(c))
    <3>1. UNCHANGED <<state_, late>>
      BY <1>7, <2>2 DEF Controls, setPhase, setMaxOutstandingRequests, storedLimit, setRps, shared, history
    <3>2. pc'["loop"] = pc["loop"]
      BY <1>7, <2>2 DEF Controls, setPhase, setMaxOutstandingRequests, storedLimit, setRps, Enter, Goto,
                        TypeInv, TypeOK, Threads
    <3> QED
      BY <3>1, <3>2 DEF LateInv, AtMostOneLate
  <2> QED
    BY <2>1, <2>2
<1>8. ASSUME NEW c \in Callers, Continues(c) PROVE LateInv'
  <2>1. UNCHANGED <<state_, late>>
    BY <1>8 DEF Continues, maxOutstandingEvent, callerPuts, shared, history
  <2>2. pc'["loop"] = pc["loop"]
    BY <1>8 DEF Continues, maxOutstandingEvent, callerPuts, messageAllWorkers, moreQueues, Enter, Goto,
                TypeInv, TypeOK, Threads
  <2> QED
    BY <2>1, <2>2 DEF LateInv, AtMostOneLate
<1>9. CASE UNCHANGED vars
  BY <1>9 DEF vars, shared, history, LateInv, AtMostOneLate
<1> QED
  BY <1>1, <1>2, <1>3, <1>4, <1>5, <1>6, <1>7, <1>8, <1>9 DEF Next, loop

\* pause() and stop() are effective up to one request: from the moment state_
\* leaves RUNNING until it is RUNNING again, the loop puts at most one more
\* SEND_REQUEST (AtMostOneLate), however the calls race with the loop.
THEOREM PauseEffective == Spec => []AtMostOneLate
<1>1. Init => LateInv
  BY DEF Init, LateInv, AtMostOneLate, Threads
<1>2. LateInv => AtMostOneLate
  BY DEF LateInv
<1> QED
  BY <1>1, <1>2, TypeCorrect, NextLate, PTL DEF Spec

-----------------------------------------------------------------------------
(* At most two requests at the old rate after setRps *)

\* After the first such request the loop takes over the new rate before the
\* next one, and after the second the pending wait is drawn from it too.
StaleInv ==
  /\ AtMostTwoStale
  /\ stale >= 1 /\ pc["loop"] # "rate" => rps = rps_
  /\ stale = 2 => rps = rps_ /\ paced = rps_

\* Every step keeps StaleInv.
LEMMA NextStale == TypeInv /\ StaleInv /\ [Next]_vars => StaleInv'
<1> SUFFICES ASSUME TypeInv, StaleInv, [Next]_vars PROVE StaleInv'
  OBVIOUS
<1> USE SchedulerAssumption
<1>1. CASE loopSend
  BY <1>1 DEF loopSend, Goto, StaleInv, AtMostTwoStale, TypeInv, TypeOK, Threads
<1>2. CASE loopRate
  BY <1>2 DEF loopRate, refreshedRate, Goto, shared, history, StaleInv, AtMostTwoStale
<1>3. CASE loopStart
  BY <1>3 DEF loopStart, firstQueue, Goto, shared, history, StaleInv, AtMostTwoStale
<1>4. ASSUME NEW c \in Callers, NEW rate \in Rates, setRps(c, rate) PROVE StaleInv'
  BY <1>4 DEF setRps, StaleInv, AtMostTwoStale
<1>5. ASSUME UNCHANGED <<rps_, rps, paced, stale>>, pc["loop"] # "rate" \/ pc'["loop"] = "rate"
      PROVE  StaleInv'
  BY <1>5 DEF StaleInv, AtMostTwoStale
<1>6. CASE run \/ loopReset \/ loopRunning \/ loopPaused \/ loopWhile \/ loopStop \/ loopExit
  <2>1. pc["loop"] # "rate"
    BY <1>6 DEF run, loopReset, loopRunning, loopPaused, loopWhile, loopStop, afterStop, loopExit
  <2>2. UNCHANGED <<rps_, rps, paced, stale>>
    BY <1>6 DEF run, loopReset, loopRunning, loopPaused, loopWhile, loopStop, afterStop, loopExit,
                shared, loopVars, history
  <2> QED
    BY <1>5, <2>1, <2>2
<1>7. CASE stop \/ UNCHANGED vars
  BY <1>5, <1>7 DEF stop, vars, shared, loopVars, history
<1>8. ASSUME NEW c \in Callers, Controls(c) \/ Continues(c),
             \A rate \in Rates : ~setRps(c, rate)
      PROVE  StaleInv'
  <2>1. UNCHANGED <<rps_, rps, paced, stale>>
    BY <1>8 DEF Controls, Continues, pause, resume, setPhase, setMaxOutstandingRequests, storedLimit,
                maxOutstandingEvent, callerPuts, shared, loopVars, history
  <2>2. pc'["loop"] = pc["loop"]
    BY <1>8 DEF Controls, Continues, pause, resume, setPhase, setMaxOutstandingRequests, storedLimit,
                maxOutstandingEvent, callerPuts, messageAllWorkers, moreQueues, Enter, Goto,
                TypeInv, TypeOK, Threads
  <2> QED
    BY <1>5, <2>1, <2>2
<1> QED
  BY <1>1, <1>2, <1>3, <1>4, <1>6, <1>7, <1>8 DEF Next, loop

\* setRps() is effective up to two requests: at most two SEND_REQUESTs put
\* after it are spaced by an interval of the old rate (AtMostTwoStale).
THEOREM SetRpsEffective == Spec => []AtMostTwoStale
<1>1. Init => StaleInv
  BY DEF Init, StaleInv, AtMostTwoStale
<1>2. StaleInv => AtMostTwoStale
  BY DEF StaleInv
<1> QED
  BY <1>1, <1>2, TypeCorrect, NextStale, PTL DEF Spec

-----------------------------------------------------------------------------
(* What a step does to the queues *)

\* One iteration of messageAllWorkers appends the event to one queue and moves
\* on to the next, or returns after the last.
LEMMA MessageQueue ==
  ASSUME TypeInv, NEW t \in Threads, NEW return, messageAllWorkers(t, return)
  PROVE  /\ frame[t].i \in Workers /\ frame[t].event \in Events
         /\ queues_'[frame[t].i] = Append(queues_[frame[t].i], frame[t].event)
         /\ \A w \in Workers : w # frame[t].i => queues_'[w] = queues_[w]
         /\ \A s \in Threads : s # t => pc'[s] = pc[s] /\ frame'[s] = frame[s]
         /\ \/ pc'[t] = pc[t] /\ frame'[t].i = frame[t].i + 1
            \/ pc'[t] = return /\ frame[t].i = NumWorkers - 1
<1> USE SchedulerAssumption DEF TypeInv, TypeOK
<1>1. frame[t].i \in Workers /\ frame[t].event \in Events
  OBVIOUS
<1>2. /\ queues_'[frame[t].i] = Append(queues_[frame[t].i], frame[t].event)
      /\ \A w \in Workers : w # frame[t].i => queues_'[w] = queues_[w]
  BY <1>1 DEF messageAllWorkers, moreQueues
<1>3. CASE frame[t].i + 1 < NumWorkers
  <2>1. frame' = [frame EXCEPT ![t].i = @ + 1] /\ pc' = pc
    BY <1>3 DEF messageAllWorkers, moreQueues
  <2> QED
    BY <1>1, <1>2, <2>1
<1>4. CASE ~(frame[t].i + 1 < NumWorkers)
  <2>1. frame' = [frame EXCEPT ![t] = NoFrame] /\ pc' = [pc EXCEPT ![t] = return]
    BY <1>4 DEF messageAllWorkers, moreQueues, Goto
  <2>2. frame[t].i = NumWorkers - 1
    BY <1>1, <1>4 DEF Workers
  <2> QED
    BY <1>1, <1>2, <2>1, <2>2
<1> QED
  BY <1>3, <1>4

\* A control call leaves the loop's thread alone and appends at most one
\* event, SET_PHASE or SET_MAX_OUTSTANDING, to one queue.
LEMMA CallerQueue ==
  ASSUME TypeInv, NEW c \in Callers, Controls(c) \/ Continues(c)
  PROVE  /\ UNCHANGED <<next_, promise_, pc["loop"], frame["loop"]>>
         /\ \A w \in Workers :
              \/ queues_'[w] = queues_[w]
              \/ \E e \in Events : /\ e.type \in {"SET_PHASE", "SET_MAX_OUTSTANDING"}
                                  /\ queues_'[w] = Append(queues_[w], e)
<1> USE SchedulerAssumption
<1>1. CASE callerPuts(c)
  <2>1. messageAllWorkers(c, "idle") /\ c \in Threads /\ "loop" \in Threads /\ c # "loop"
    BY <1>1 DEF callerPuts, Threads
  <2>2. frame[c].event.type \in {"SET_PHASE", "SET_MAX_OUTSTANDING"}
    BY <1>1 DEF callerPuts, TypeInv, FrameOK
  <2>3. UNCHANGED <<next_, promise_>>
    BY <1>1 DEF callerPuts, loopVars
  <2> QED
    BY <2>1, <2>2, <2>3, MessageQueue
<1>2. CASE ~callerPuts(c)
  <2>1. UNCHANGED <<next_, promise_, queues_>>
    BY <1>2 DEF Controls, Continues, pause, resume, setPhase, setMaxOutstandingRequests, storedLimit,
                setRps, maxOutstandingEvent, shared, loopVars
  <2>2. pc'["loop"] = pc["loop"] /\ frame'["loop"] = frame["loop"]
    BY <1>2 DEF Controls, Continues, pause, resume, setPhase, setMaxOutstandingRequests, storedLimit,
                setRps, maxOutstandingEvent, Enter, Goto, TypeInv, TypeOK, Threads
  <2> QED
    BY <2>1, <2>2
<1> QED
  BY <1>1, <1>2

\* A step appends at most one event to a queue.
LEMMA StepQueues ==
  ASSUME TypeInv, [Next]_vars
  PROVE  \A w \in Workers : \/ queues_'[w] = queues_[w]
                            \/ \E e \in Events : queues_'[w] = Append(queues_[w], e)
<1>1. ASSUME NEW t \in Threads, NEW return, messageAllWorkers(t, return)
      PROVE  \A w \in Workers : \/ queues_'[w] = queues_[w]
                                \/ \E e \in Events : queues_'[w] = Append(queues_[w], e)
  BY <1>1, MessageQueue
<1>2. CASE loopReset \/ loopStop
  BY <1>1, <1>2 DEF loopReset, loopStop, Threads
<1>3. CASE loopSend
  BY <1>3, EventTypes DEF loopSend, TypeInv, TypeOK
<1>4. CASE loopStart \/ loopRunning \/ loopRate \/ loopPaused \/ loopWhile \/ loopExit
  BY <1>4 DEF loopStart, loopRunning, loopRate, loopPaused, loopWhile, loopExit, shared
<1>5. CASE run \/ stop \/ UNCHANGED vars
  BY <1>5 DEF run, stop, vars, shared
<1>6. CASE \E c \in Callers : Controls(c) \/ Continues(c)
  BY <1>6, CallerQueue
<1> QED
  BY <1>2, <1>3, <1>4, <1>5, <1>6 DEF Next, loop

\* The loop sends STOP, and ends, only when it was told to stop.
StoppingInv == pc["loop"] \in {"stop", "exit", "done"} => state_ = "STOPPING"

\* STOPPING is final: pause and resume compare before they swap.
LEMMA StoppingStays == [Next]_vars /\ state_ = "STOPPING" => state_' = "STOPPING"
<1> SUFFICES ASSUME [Next]_vars, state_ = "STOPPING" PROVE state_' = "STOPPING"
  OBVIOUS
<1>1. CASE run \/ stop \/ UNCHANGED vars
  BY <1>1 DEF run, stop, Become, vars, shared
<1>2. CASE loop
  BY <1>2 DEF loop, loopReset, loopStart, loopRunning, loopSend, loopRate, loopPaused,
              loopWhile, loopStop, loopExit, shared
<1>3. ASSUME NEW c \in Callers, Controls(c) \/ Continues(c) PROVE state_' = "STOPPING"
  BY <1>3 DEF Controls, Continues, pause, pauseCas, resume, resumeCas, Become, setPhase,
              setMaxOutstandingRequests, setRps, maxOutstandingEvent, callerPuts, shared
<1> QED
  BY <1>1, <1>2, <1>3 DEF Next

LEMMA NextStopping == TypeInv /\ StoppingInv /\ [Next]_vars => StoppingInv'
<1> SUFFICES ASSUME TypeInv, StoppingInv, [Next]_vars PROVE StoppingInv'
  OBVIOUS
<1>0. "loop" \in Threads /\ pc \in [Threads -> LoopPc \cup CallerPc]
  BY DEF Threads, TypeInv, TypeOK
<1>1. CASE run
  BY <1>0, <1>1 DEF run, Enter, Goto, StoppingInv
<1>2. CASE loop
  <2>1. CASE loopReset
    BY <1>0, <2>1 DEF loopReset, messageAllWorkers, Goto, StoppingInv
  <2>2. CASE loopStop
    BY <1>0, <2>2 DEF loopStop, messageAllWorkers, Goto, StoppingInv
  <2>3. CASE loopStart \/ loopRunning \/ loopSend \/ loopRate \/ loopPaused \/ loopWhile \/ loopExit
    BY <1>0, <2>3 DEF loopStart, loopRunning, loopSend, loopRate, loopPaused, loopWhile, loopExit,
                      Enter, Goto, StoppingInv, shared
  <2> QED
    BY <1>2, <2>1, <2>2, <2>3 DEF loop
<1>3. CASE stop \/ UNCHANGED vars
  BY <1>3 DEF stop, Become, vars, shared, StoppingInv
<1>4. ASSUME NEW c \in Callers, Controls(c) \/ Continues(c) PROVE StoppingInv'
  BY <1>4, CallerQueue, StoppingStays DEF StoppingInv
<1> QED
  BY <1>1, <1>2, <1>3, <1>4 DEF Next

-----------------------------------------------------------------------------
(* STOP is sent to every worker, once, and nothing but control calls follows *)

HasStop(q) == \E k \in DOMAIN q : q[k].type = "STOP"

LastStop(q) ==
  \A k, m \in DOMAIN q :
    q[k].type = "STOP" /\ k < m => q[m].type \in {"SET_PHASE", "SET_MAX_OUTSTANDING"}

StopInv ==
  /\ \A w \in Workers : LastStop(queues_[w])
  /\ pc["loop"] \notin {"stop", "exit", "done"}
       => \A w \in Workers : ~HasStop(queues_[w])
  /\ pc["loop"] = "stop"
       => \A w \in Workers : HasStop(queues_[w]) <=> w < frame["loop"].i
  /\ pc["loop"] \in {"exit", "done"} => \A w \in Workers : HasStop(queues_[w])
  /\ promise_ => pc["loop"] = "done"

\* What appending an event to a queue does to HasStop and LastStop.
LEMMA AppendStop ==
  ASSUME NEW q \in Seq(Events), NEW e \in Events
  PROVE  /\ HasStop(Append(q, e)) <=> HasStop(q) \/ e.type = "STOP"
         /\ LastStop(q) /\ (~HasStop(q) \/ e.type \in {"SET_PHASE", "SET_MAX_OUTSTANDING"})
              => LastStop(Append(q, e))
<1>1. /\ DOMAIN Append(q, e) = 1 .. Len(q) + 1
      /\ DOMAIN q = 1 .. Len(q)
      /\ Len(q) \in Nat
      /\ \A k \in 1 .. Len(q) : Append(q, e)[k] = q[k]
      /\ Append(q, e)[Len(q) + 1] = e
  OBVIOUS
<1>2. HasStop(Append(q, e)) <=> HasStop(q) \/ e.type = "STOP"
  BY <1>1 DEF HasStop
<1>3. ASSUME LastStop(q), ~HasStop(q) \/ e.type \in {"SET_PHASE", "SET_MAX_OUTSTANDING"}
      PROVE  LastStop(Append(q, e))
  BY <1>1, <1>3 DEF HasStop, LastStop
<1> QED
  BY <1>2, <1>3

\* Every step keeps StopInv.
LEMMA NextStop == TypeInv /\ StopInv /\ [Next]_vars => StopInv'
<1> SUFFICES ASSUME TypeInv, StopInv, [Next]_vars PROVE StopInv'
  OBVIOUS
<1> USE SchedulerAssumption
<1>0. "loop" \in Threads /\ \A w \in Workers : queues_[w] \in Seq(Events) /\ w \in Int
  BY DEF Threads, TypeInv, TypeOK, Workers
<1>1. CASE run \/ loopStart \/ loopRunning \/ loopRate \/ loopPaused
  <2>1. UNCHANGED <<queues_, promise_>>
    BY <1>1 DEF run, loopStart, firstQueue, loopRunning, loopRate, loopPaused, shared
  <2>2. {pc["loop"], pc'["loop"]} \cap {"stop", "exit", "done"} = {}
    BY <1>1 DEF run, loopStart, firstQueue, loopRunning, loopRate, loopPaused, Enter, Goto,
                TypeInv, TypeOK, Threads
  <2> QED
    BY <2>1, <2>2 DEF StopInv
<1>2. CASE loopWhile
  <2>1. UNCHANGED <<queues_, promise_>> /\ pc["loop"] = "while"
    BY <1>2 DEF loopWhile, shared
  <2>2. pc'["loop"] = "reset" \/ (pc'["loop"] = "stop" /\ frame'["loop"].i = 0)
    BY <1>2 DEF loopWhile, Enter, Goto, TypeInv, TypeOK, Threads
  <2> QED
    BY <1>0, <2>1, <2>2 DEF StopInv, Workers
<1>3. CASE loopExit
  BY <1>3 DEF loopExit, Goto, StopInv, TypeInv, TypeOK, Threads
<1>4. CASE loopReset
  <2>1. pc["loop"] = "reset" /\ messageAllWorkers("loop", "start") /\ promise_' = promise_
    BY <1>4 DEF loopReset
  <2>2. frame["loop"].event.type = "RESET"
    BY <2>1, EventTypes DEF TypeInv, FrameOK
  <2>3. pc'["loop"] \in {"reset", "start"}
    BY <1>0, <2>1, MessageQueue
  <2>4. ASSUME NEW w \in Workers PROVE ~HasStop(queues_'[w]) /\ LastStop(queues_'[w])
    <3>1. PICK e \in Events : /\ e.type = "RESET"
                             /\ queues_'[w] \in {queues_[w], Append(queues_[w], e)}
      BY <1>0, <2>1, <2>2, MessageQueue
    <3>2. ~HasStop(queues_[w]) /\ LastStop(queues_[w])
      BY <2>1 DEF StopInv
    <3>3. ~HasStop(Append(queues_[w], e)) /\ LastStop(Append(queues_[w], e))
      BY <1>0, <3>1, <3>2, AppendStop
    <3> QED
      BY <3>1, <3>2, <3>3
  <2> QED
    BY <2>1, <2>3, <2>4 DEF StopInv
<1>5. CASE loopSend
  <2>1. /\ pc["loop"] = "send" /\ pc'["loop"] = "rate" /\ promise_' = promise_
        /\ queues_' = [queues_ EXCEPT ![next_] = Append(@, Event("SEND_REQUEST", NoData))]
    BY <1>5 DEF loopSend, Goto, TypeInv, TypeOK, Threads
  <2>2. Event("SEND_REQUEST", NoData) \in Events /\ Event("SEND_REQUEST", NoData).type = "SEND_REQUEST"
    BY EventTypes
  <2>3. ASSUME NEW w \in Workers PROVE ~HasStop(queues_'[w]) /\ LastStop(queues_'[w])
    <3>1. queues_'[w] = queues_[w] \/ queues_'[w] = Append(queues_[w], Event("SEND_REQUEST", NoData))
      BY <2>1 DEF TypeInv, TypeOK
    <3> QED
      BY <1>0, <2>1, <2>2, <3>1, AppendStop DEF StopInv
  <2> QED
    BY <2>1, <2>3 DEF StopInv
<1>6. CASE loopStop
  <2>1. pc["loop"] = "stop" /\ messageAllWorkers("loop", "exit") /\ promise_' = promise_
    BY <1>6 DEF loopStop, afterStop
  <2>2. frame["loop"].event.type = "STOP"
    BY <2>1, EventTypes DEF TypeInv, FrameOK
  <2>3. /\ frame["loop"].i \in Workers /\ frame["loop"].event \in Events
        /\ queues_'[frame["loop"].i] = Append(queues_[frame["loop"].i], frame["loop"].event)
        /\ \A w \in Workers : w # frame["loop"].i => queues_'[w] = queues_[w]
        /\ \/ pc'["loop"] = "stop" /\ frame'["loop"].i = frame["loop"].i + 1
           \/ pc'["loop"] = "exit" /\ frame["loop"].i = NumWorkers - 1
    BY <1>0, <2>1, MessageQueue
  <2>4. ASSUME NEW w \in Workers
        PROVE  /\ HasStop(queues_'[w]) <=> w < frame["loop"].i + 1
               /\ LastStop(queues_'[w])
    <3>1. LastStop(queues_[w]) /\ (HasStop(queues_[w]) <=> w < frame["loop"].i)
      BY <2>1 DEF StopInv
    <3>2. CASE w = frame["loop"].i
      <4>1. ~HasStop(queues_[w])
        BY <1>0, <3>1, <3>2
      <4>2. queues_'[w] = Append(queues_[w], frame["loop"].event)
        BY <2>3, <3>2
      <4>3. HasStop(queues_'[w]) /\ LastStop(queues_'[w])
        BY <1>0, <2>2, <2>3, <3>1, <4>1, <4>2, AppendStop
      <4> QED
        BY <1>0, <3>2, <4>3
    <3>3. CASE w # frame["loop"].i
      BY <1>0, <2>3, <3>1, <3>3
    <3> QED
      BY <3>2, <3>3
  <2> QED
    BY <2>1, <2>3, <2>4 DEF StopInv, Workers
<1>7. CASE stop \/ UNCHANGED vars
  BY <1>7 DEF stop, vars, shared, StopInv
<1>8. ASSUME NEW c \in Callers, Controls(c) \/ Continues(c) PROVE StopInv'
  <2>1. UNCHANGED <<promise_, pc["loop"], frame["loop"]>>
    BY <1>8, CallerQueue
  <2>2. ASSUME NEW w \in Workers
        PROVE  (HasStop(queues_'[w]) <=> HasStop(queues_[w])) /\ LastStop(queues_'[w])
    <3>1. \/ queues_'[w] = queues_[w]
          \/ \E e \in Events : /\ e.type \in {"SET_PHASE", "SET_MAX_OUTSTANDING"}
                              /\ queues_'[w] = Append(queues_[w], e)
      BY <1>8, CallerQueue
    <3>2. CASE queues_'[w] = queues_[w]
      BY <3>2 DEF StopInv
    <3>3. ASSUME NEW e \in Events, e.type \in {"SET_PHASE", "SET_MAX_OUTSTANDING"},
                 queues_'[w] = Append(queues_[w], e)
          PROVE  (HasStop(queues_'[w]) <=> HasStop(queues_[w])) /\ LastStop(queues_'[w])
      <4>1. LastStop(queues_[w]) /\ e.type # "STOP"
        BY <3>3 DEF StopInv
      <4> QED
        BY <1>0, <3>3, <4>1, AppendStop
    <3> QED
      BY <3>1, <3>2, <3>3
  <2> QED
    BY <2>1, <2>2 DEF StopInv
<1> QED
  BY <1>1, <1>2, <1>3, <1>4, <1>5, <1>6, <1>7, <1>8 DEF Next, loop

\* StopInv holds at first, and in every reachable state.
LEMMA InitStop == Init => StopInv
  BY DEF Init, StopInv, HasStop, LastStop, Threads

LEMMA StopInvariant == Spec => []StopInv
  BY InitStop, TypeCorrect, NextStop, PTL DEF Spec

\* STOP ends every worker's stream: no RESET, request or second STOP is put
\* behind it, for any number of workers and calls (StopIsLast).
THEOREM StopEndsStream == Spec => []StopIsLast
<1>1. StopInv => StopIsLast
  BY DEF StopInv, StopIsLast, LastStop
<1> QED
  BY <1>1, StopInvariant, PTL

\* The future of run() is only ready when every worker has been sent STOP, so
\* that the runner's wait for the workers ends (PromiseMeansStopSent).
THEOREM PromiseAfterStop == Spec => []PromiseMeansStopSent
<1>1. StopInv => PromiseMeansStopSent
  BY DEF StopInv, PromiseMeansStopSent, HasStop
<1> QED
  BY <1>1, StopInvariant, PTL



-----------------------------------------------------------------------------
(* Round robin *)

Count(q) == Cardinality(SinceReset(q))

\* During a run the queues before next_ are exactly one request ahead; while
\* RESET is being sent, the queues that have it have no request behind it.
BalanceInv ==
  /\ pc["loop"] \in {"new", "start"} => \A w \in Workers : Count(queues_[w]) = 0
  /\ pc["loop"] = "reset"
       => \A w \in Workers : w < frame["loop"].i => Count(queues_[w]) = 0
  /\ pc["loop"] \notin {"new", "reset", "start"}
       => \A u, v \in Workers : u < v =>
            Count(queues_[u]) =
              Count(queues_[v]) + IF u < next_ /\ next_ <= v THEN 1 ELSE 0

\* A queue's requests since its last RESET can be counted.
LEMMA CountNat == ASSUME NEW q \in Seq(Events)
                  PROVE  IsFiniteSet(SinceReset(q)) /\ Count(q) \in Nat
<1>1. IsFiniteSet(1 .. Len(q))
  BY FS_Interval
<1>2. SinceReset(q) \subseteq 1 .. Len(q)
  BY DEF SinceReset
<1>3. IsFiniteSet(SinceReset(q))
  BY <1>1, <1>2, FS_Subset
<1> QED
  BY <1>3, FS_CardinalityType DEF Count

\* What appending an event to a queue does to the count.
LEMMA AppendCount ==
  ASSUME NEW q \in Seq(Events), NEW e \in Events
  PROVE  /\ e.type = "RESET" => Count(Append(q, e)) = 0
         /\ e.type = "SEND_REQUEST" => Count(Append(q, e)) = Count(q) + 1
         /\ e.type \notin {"RESET", "SEND_REQUEST"} => Count(Append(q, e)) = Count(q)
<1> DEFINE n == Len(q)  r == Append(q, e)
<1>1. /\ DOMAIN r = 1 .. n + 1 /\ Len(r) = n + 1
      /\ DOMAIN q = 1 .. n /\ n \in Nat
      /\ \A k \in 1 .. n : r[k] = q[k]
      /\ r[n + 1] = e
  OBVIOUS
<1> HIDE DEF n, r
<1>a. Len(q) = n
  BY DEF n
<1>2. CASE e.type = "RESET"
  <2>1. SinceReset(r) = {}
    <3> SUFFICES ASSUME NEW k \in SinceReset(r) PROVE FALSE
      OBVIOUS
    <3>1. k \in 1 .. n + 1 /\ \A j \in k .. n + 1 : r[j].type # "RESET"
      BY <1>1 DEF SinceReset
    <3> QED
      BY <1>1, <1>2, <3>1
  <2> QED
    BY <1>2, <2>1, FS_EmptySet DEF Count, r
<1>3. CASE e.type = "SEND_REQUEST"
  <2>1. SinceReset(r) = SinceReset(q) \cup {n + 1}
    BY <1>1, <1>3, <1>a DEF SinceReset
  <2>2. n + 1 \notin SinceReset(q)
    BY <1>1 DEF SinceReset
  <2>3. Cardinality(SinceReset(q) \cup {n + 1}) = Cardinality(SinceReset(q)) + 1
    BY <2>2, CountNat, FS_AddElement
  <2> QED
    BY <1>3, <2>1, <2>3 DEF Count, r
<1>4. CASE e.type \notin {"RESET", "SEND_REQUEST"}
  <2>1. SinceReset(r) = SinceReset(q)
    BY <1>1, <1>4, <1>a DEF SinceReset
  <2> QED
    BY <1>4, <2>1 DEF Count, r
<1> QED
  BY <1>2, <1>3, <1>4

\* Every step keeps BalanceInv.
LEMMA NextBalance == TypeInv /\ BalanceInv /\ [Next]_vars => BalanceInv'
<1> SUFFICES ASSUME TypeInv, BalanceInv, [Next]_vars PROVE BalanceInv'
  OBVIOUS
<1> USE SchedulerAssumption
<1>0. /\ "loop" \in Threads
      /\ \A w \in Workers : /\ queues_[w] \in Seq(Events) /\ w \in Int
                            /\ 0 <= w /\ w < NumWorkers
                            /\ Count(queues_[w]) \in Nat
      /\ next_ \in Workers
  BY CountNat DEF Threads, TypeInv, TypeOK, Workers
<1>1. CASE loopReset
  <2>1. pc["loop"] = "reset" /\ messageAllWorkers("loop", "start")
    BY <1>1 DEF loopReset
  <2>2. frame["loop"].event.type = "RESET"
    BY <2>1, EventTypes DEF TypeInv, FrameOK
  <2>3. /\ frame["loop"].i \in Workers /\ frame["loop"].event \in Events
        /\ queues_'[frame["loop"].i] = Append(queues_[frame["loop"].i], frame["loop"].event)
        /\ \A w \in Workers : w # frame["loop"].i => queues_'[w] = queues_[w]
        /\ \/ pc'["loop"] = "reset" /\ frame'["loop"].i = frame["loop"].i + 1
           \/ pc'["loop"] = "start" /\ frame["loop"].i = NumWorkers - 1
    BY <1>0, <2>1, MessageQueue
  <2>4. Count(queues_'[frame["loop"].i]) = 0
    BY <1>0, <2>2, <2>3, AppendCount
  <2>5. \A w \in Workers : w < frame["loop"].i + 1 => Count(queues_'[w]) = 0
    <3> SUFFICES ASSUME NEW w \in Workers, w < frame["loop"].i + 1
                 PROVE  Count(queues_'[w]) = 0
      OBVIOUS
    <3>1. CASE w = frame["loop"].i
      BY <2>4, <3>1
    <3>2. CASE w # frame["loop"].i
      <4>1. w < frame["loop"].i
        BY <1>0, <2>3, <3>2
      <4> QED
        BY <2>1, <2>3, <3>2, <4>1 DEF BalanceInv
    <3> QED
      BY <3>1, <3>2
  <2> QED
    BY <1>0, <2>3, <2>5 DEF BalanceInv
<1>2. CASE loopStart
  <2>1. /\ pc["loop"] = "start" /\ pc'["loop"] = "running"
        /\ next_' = 0 /\ queues_' = queues_
    BY <1>2 DEF loopStart, firstQueue, Goto, shared, TypeInv, TypeOK, Threads
  <2> QED
    BY <1>0, <2>1 DEF BalanceInv
<1>3. CASE loopSend
  <2> DEFINE e == Event("SEND_REQUEST", NoData)
  <2>1. /\ pc["loop"] = "send" /\ pc'["loop"] = "rate"
        /\ next_' = IF next_ + 1 = NumWorkers THEN 0 ELSE next_ + 1
        /\ queues_' = [queues_ EXCEPT ![next_] = Append(@, e)]
    BY <1>3 DEF loopSend, advance, Goto, TypeInv, TypeOK, Threads
  <2>2. e \in Events /\ e.type = "SEND_REQUEST"
    BY EventTypes
  <2>3. Count(Append(queues_[next_], e)) = Count(queues_[next_]) + 1
    BY <1>0, <2>2, AppendCount
  <2>4. \A w \in Workers :
          Count(queues_'[w]) = Count(queues_[w]) + IF w = next_ THEN 1 ELSE 0
    BY <1>0, <2>1, <2>3 DEF TypeInv, TypeOK
  <2> HIDE DEF e
  <2>5. ASSUME NEW u \in Workers, NEW v \in Workers, u < v
        PROVE  Count(queues_'[u]) =
                 Count(queues_'[v]) + IF u < next_' /\ next_' <= v THEN 1 ELSE 0
    <3>1. Count(queues_[u]) = Count(queues_[v]) + IF u < next_ /\ next_ <= v THEN 1 ELSE 0
      BY <2>1, <2>5 DEF BalanceInv
    <3>2. /\ Count(queues_'[u]) = Count(queues_[u]) + IF u = next_ THEN 1 ELSE 0
          /\ Count(queues_'[v]) = Count(queues_[v]) + IF v = next_ THEN 1 ELSE 0
      BY <2>4
    <3>3. /\ u \in Int /\ v \in Int /\ next_ \in Int /\ NumWorkers \in Int
          /\ 0 <= u /\ v < NumWorkers /\ 0 <= next_ /\ next_ < NumWorkers
          /\ Count(queues_[u]) \in Nat /\ Count(queues_[v]) \in Nat
      BY <1>0
    <3> QED
      BY <2>1, <2>5, <3>1, <3>2, <3>3
  <2> QED
    BY <2>1, <2>5 DEF BalanceInv
<1>4. CASE run
  <2>1. pc'["loop"] = "reset" /\ frame'["loop"].i = 0
    BY <1>4 DEF run, Enter, Goto, TypeInv, TypeOK, Threads
  <2> QED
    BY <1>0, <2>1 DEF BalanceInv
<1>5. CASE loopWhile
  <2>1. /\ pc["loop"] = "while" /\ UNCHANGED <<queues_, next_>>
        /\ pc'["loop"] = "stop" \/ (pc'["loop"] = "reset" /\ frame'["loop"].i = 0)
    BY <1>5 DEF loopWhile, Enter, Goto, shared, loopVars, TypeInv, TypeOK, Threads
  <2> QED
    BY <1>0, <2>1 DEF BalanceInv
<1>6. CASE loopStop
  <2>1. pc["loop"] = "stop" /\ messageAllWorkers("loop", "exit") /\ next_' = next_
    BY <1>6 DEF loopStop, afterStop, loopVars
  <2>2. frame["loop"].event.type = "STOP"
    BY <2>1, EventTypes DEF TypeInv, FrameOK
  <2>3. ASSUME NEW w \in Workers PROVE Count(queues_'[w]) = Count(queues_[w])
    <3> DEFINE e == frame["loop"].event
    <3>1. e \in Events /\ (queues_'[w] = queues_[w] \/ queues_'[w] = Append(queues_[w], e))
      BY <1>0, <2>1, MessageQueue
    <3>2. Count(Append(queues_[w], e)) = Count(queues_[w])
      BY <1>0, <2>2, <3>1, AppendCount
    <3> QED
      BY <3>1, <3>2
  <2>4. pc'["loop"] \in {"stop", "exit"}
    BY <1>0, <2>1, MessageQueue
  <2> QED
    BY <2>1, <2>3, <2>4 DEF BalanceInv
<1>7. CASE loopRunning \/ loopRate \/ loopPaused \/ loopExit
  <2>1. UNCHANGED <<queues_, next_>>
    BY <1>7 DEF loopRunning, loopRate, loopPaused, loopExit, shared, loopVars
  <2>2. {pc["loop"], pc'["loop"]} \cap {"new", "reset", "start"} = {}
    BY <1>7 DEF loopRunning, loopRate, loopPaused, loopExit, Goto, TypeInv, TypeOK, Threads
  <2> QED
    BY <2>1, <2>2 DEF BalanceInv
<1>8. CASE stop \/ UNCHANGED vars
  BY <1>8 DEF stop, vars, shared, loopVars, BalanceInv
<1>9. ASSUME NEW c \in Callers, Controls(c) \/ Continues(c) PROVE BalanceInv'
  <2>1. UNCHANGED <<next_, pc["loop"], frame["loop"]>>
    BY <1>9, CallerQueue
  <2>2. ASSUME NEW w \in Workers PROVE Count(queues_'[w]) = Count(queues_[w])
    <3>1. \/ queues_'[w] = queues_[w]
          \/ \E e \in Events : /\ e.type \in {"SET_PHASE", "SET_MAX_OUTSTANDING"}
                              /\ queues_'[w] = Append(queues_[w], e)
      BY <1>9, CallerQueue
    <3>2. ASSUME NEW e \in Events, e.type \in {"SET_PHASE", "SET_MAX_OUTSTANDING"},
                 queues_'[w] = Append(queues_[w], e)
          PROVE  Count(queues_'[w]) = Count(queues_[w])
      <4>1. Count(Append(queues_[w], e)) = Count(queues_[w])
        BY <1>0, <3>2, AppendCount
      <4> QED
        BY <3>2, <4>1
    <3> QED
      BY <3>1, <3>2
  <2> QED
    BY <2>1, <2>2 DEF BalanceInv
<1> QED
  BY <1>1, <1>2, <1>3, <1>4, <1>5, <1>6, <1>7, <1>8, <1>9 DEF Next, loop

\* Requests are spread round robin: within a run any two workers are at most
\* one request apart, and a worker is never behind a later one, for any number
\* of workers and any interleaving of control messages (Balanced).
THEOREM RoundRobin == Spec => []Balanced
<1>1. Init => BalanceInv
  <2> SUFFICES ASSUME Init PROVE BalanceInv
    OBVIOUS
  <2>1. pc["loop"] = "new" /\ \A w \in Workers : queues_[w] = << >>
    BY DEF Init, Threads
  <2>2. SinceReset(<< >>) = {}
    BY DEF SinceReset
  <2> QED
    BY <2>1, <2>2, FS_EmptySet DEF BalanceInv, Count
<1>2. TypeInv /\ BalanceInv => Balanced
  <2> SUFFICES ASSUME TypeInv, BalanceInv, pc["loop"] # "reset",
                      NEW u \in Workers, NEW v \in Workers, u < v
               PROVE  /\ Count(queues_[v]) <= Count(queues_[u])
                      /\ Count(queues_[u]) <= Count(queues_[v]) + 1
    BY DEF Balanced, Count
  <2>1. Count(queues_[u]) \in Nat /\ Count(queues_[v]) \in Nat
    BY CountNat DEF TypeInv, TypeOK
  <2> QED
    BY <2>1 DEF BalanceInv
<1> QED
  BY <1>1, <1>2, TypeCorrect, NextBalance, PTL DEF Spec

-----------------------------------------------------------------------------
(* The scheduler implements RequestStream *)

RunCount(q) == Cardinality({n \in DOMAIN q : q[n].type = "RESET"})

\* The queues are in the same run, but for the RESETs being sent.
RunsInv ==
  /\ pc["loop"] = "new" => \A u, v \in Workers : RunCount(queues_[u]) = RunCount(queues_[v])
  /\ pc["loop"] = "reset"
       => \A v \in Workers :
            RunCount(queues_[v]) = RunCount(queues_[frame["loop"].i])
                                     + IF v < frame["loop"].i THEN 1 ELSE 0
  /\ pc["loop"] \notin {"new", "reset"}
       => \A u, v \in Workers : /\ RunCount(queues_[u]) = RunCount(queues_[v])
                                /\ RunCount(queues_[u]) > 0

\* What appending an event to a queue does to the number of its runs.
LEMMA AppendRuns ==
  ASSUME NEW q \in Seq(Events), NEW e \in Events
  PROVE  /\ RunCount(q) \in Nat
         /\ RunCount(Append(q, e)) = RunCount(q) + IF e.type = "RESET" THEN 1 ELSE 0
<1> DEFINE n == Len(q)  r == Append(q, e)
           old == {k \in DOMAIN q : q[k].type = "RESET"}
           new == {k \in DOMAIN r : r[k].type = "RESET"}
<1>1. /\ DOMAIN r = 1 .. n + 1 /\ DOMAIN q = 1 .. n /\ n \in Nat
      /\ \A k \in 1 .. n : r[k] = q[k]
      /\ r[n + 1] = e
  OBVIOUS
<1>2. IsFiniteSet(old) /\ Cardinality(old) \in Nat /\ n + 1 \notin old
  <2>1. IsFiniteSet(1 .. n)
    BY <1>1, FS_Interval
  <2>2. old \in SUBSET (1 .. n) /\ n + 1 \notin 1 .. n
    BY <1>1
  <2> HIDE DEF old, n
  <2>3. IsFiniteSet(old)
    BY <2>1, <2>2, FS_Subset
  <2> QED
    BY <2>2, <2>3, FS_CardinalityType
<1>b. RunCount(q) = Cardinality(old) /\ RunCount(r) = Cardinality(new)
  BY DEF RunCount
<1> HIDE DEF n, r
<1>3. CASE e.type = "RESET"
  <2>1. new = old \cup {n + 1}
    BY <1>1, <1>3
  <2> HIDE DEF old, new
  <2>2. Cardinality(new) = Cardinality(old) + 1
    BY <1>2, <2>1, FS_AddElement
  <2> QED
    BY <1>2, <1>3, <1>b, <2>2 DEF r
<1>4. CASE e.type # "RESET"
  <2>1. new = old
    BY <1>1, <1>4
  <2> QED
    <3>1. RunCount(r) = RunCount(q) /\ RunCount(q) \in Nat
      BY <1>2, <1>b, <2>1
    <3> QED
      BY <1>4, <3>1 DEF r
<1> QED
  BY <1>3, <1>4

\* Every step keeps RunsInv.
LEMMA NextRuns == TypeInv /\ RunsInv /\ [Next]_vars => RunsInv'
<1> SUFFICES ASSUME TypeInv, RunsInv, [Next]_vars PROVE RunsInv'
  OBVIOUS
<1> USE SchedulerAssumption
<1>0. /\ "loop" \in Threads /\ 0 \in Workers
      /\ \A w \in Workers : queues_[w] \in Seq(Events) /\ w \in Int /\ 0 <= w /\ w < NumWorkers
      /\ next_ \in Workers /\ queues_ \in [Workers -> Seq(Events)]
  BY DEF Threads, TypeInv, TypeOK, Workers
<1>a. \A w \in Workers : RunCount(queues_[w]) \in Nat
  BY <1>0, EventTypes, AppendRuns
<1>1. CASE loopReset
  <2> DEFINE i == frame["loop"].i
  <2>1. pc["loop"] = "reset" /\ messageAllWorkers("loop", "start")
    BY <1>1 DEF loopReset
  <2>2. frame["loop"].event.type = "RESET"
    BY <2>1, EventTypes DEF TypeInv, FrameOK
  <2>3. /\ i \in Workers /\ frame["loop"].event \in Events
        /\ queues_'[i] = Append(queues_[i], frame["loop"].event)
        /\ \A w \in Workers : w # i => queues_'[w] = queues_[w]
        /\ \/ pc'["loop"] = "reset" /\ frame'["loop"].i = i + 1
           \/ pc'["loop"] = "start" /\ i = NumWorkers - 1
    BY <1>0, <2>1, MessageQueue
  <2>4. /\ RunCount(queues_'[i]) = RunCount(queues_[i]) + 1
        /\ \A w \in Workers : w # i => RunCount(queues_'[w]) = RunCount(queues_[w])
    BY <1>0, <2>2, <2>3, AppendRuns
  <2>5. \A v \in Workers :
          RunCount(queues_[v]) = RunCount(queues_[i]) + IF v < i THEN 1 ELSE 0
    BY <2>1 DEF RunsInv
  <2>6. i \in Int /\ 0 <= i /\ i < NumWorkers
    BY <1>0, <2>3
  <2> HIDE DEF i
  <2>7. ASSUME NEW v \in Workers
        PROVE  RunCount(queues_'[v]) = RunCount(queues_[i]) + IF v < i + 1 THEN 1 ELSE 0
    <3>1. CASE v = i
      <4>1. RunCount(queues_'[v]) = RunCount(queues_[i]) + 1
        BY <2>4, <3>1
      <4>2. v < i + 1
        BY <2>6, <3>1
      <4> QED
        BY <4>1, <4>2
    <3>2. CASE v # i
      BY <1>0, <1>a, <2>4, <2>5, <2>6, <3>2
    <3> QED
      BY <3>1, <3>2
  <2>8. CASE pc'["loop"] = "reset" /\ frame'["loop"].i = i + 1
    <3>1. frame'["loop"].i \in Workers
      BY <1>0, NextType DEF TypeInv, TypeOK
    <3>2. RunCount(queues_'[i + 1]) = RunCount(queues_[i])
      BY <1>a, <2>3, <2>6, <2>7, <2>8, <3>1
    <3> QED
      BY <2>7, <2>8, <3>2 DEF RunsInv
  <2>9. CASE pc'["loop"] = "start" /\ i = NumWorkers - 1
    <3>1. \A v \in Workers : RunCount(queues_'[v]) = RunCount(queues_[i]) + 1
      BY <1>0, <2>6, <2>7, <2>9
    <3>2. RunCount(queues_[i]) + 1 > 0
      BY <1>a, <2>3
    <3> QED
      BY <2>9, <3>1, <3>2 DEF RunsInv
  <2> QED
    BY <2>3, <2>8, <2>9 DEF i
<1>2. CASE run \/ loopWhile
  <2>1. /\ queues_' = queues_ /\ pc["loop"] \in {"new", "while"}
        /\ \/ pc'["loop"] = "reset" /\ frame'["loop"].i = 0
           \/ pc["loop"] = "while" /\ pc'["loop"] = "stop"
    BY <1>2 DEF run, loopWhile, Enter, Goto, shared, TypeInv, TypeOK, Threads
  <2>2. \A u, v \in Workers : RunCount(queues_[u]) = RunCount(queues_[v])
    BY <2>1 DEF RunsInv
  <2>3. CASE pc'["loop"] = "reset" /\ frame'["loop"].i = 0
    BY <1>0, <1>a, <2>1, <2>2, <2>3 DEF RunsInv
  <2>4. CASE pc["loop"] = "while" /\ pc'["loop"] = "stop"
    BY <2>1, <2>4 DEF RunsInv
  <2> QED
    BY <2>1, <2>3, <2>4
<1>3. CASE loopSend \/ loopStop
  <2>1. /\ pc["loop"] \notin {"new", "reset"} /\ pc'["loop"] \notin {"new", "reset"}
        /\ \A w \in Workers :
             \/ queues_'[w] = queues_[w]
             \/ \E e \in Events : e.type # "RESET" /\ queues_'[w] = Append(queues_[w], e)
    <3>1. CASE loopSend
      <4>1. Event("SEND_REQUEST", NoData) \in Events
            /\ Event("SEND_REQUEST", NoData).type = "SEND_REQUEST"
        BY EventTypes
      <4>2. /\ pc["loop"] = "send" /\ pc'["loop"] = "rate"
            /\ queues_' = [queues_ EXCEPT ![next_] =
                             Append(queues_[next_], Event("SEND_REQUEST", NoData))]
        BY <3>1 DEF loopSend, Goto, TypeInv, TypeOK, Threads
      <4>3. \A w \in Workers :
              queues_'[w] \in {queues_[w], Append(queues_[w], Event("SEND_REQUEST", NoData))}
        BY <1>0, <4>2
      <4> QED
        BY <4>1, <4>2, <4>3
    <3>2. CASE loopStop
      <4>1. pc["loop"] = "stop" /\ messageAllWorkers("loop", "exit")
        BY <3>2 DEF loopStop, afterStop
      <4>2. frame["loop"].event.type = "STOP"
        BY <4>1, EventTypes DEF TypeInv, FrameOK
      <4>3. /\ frame["loop"].event \in Events /\ pc'["loop"] \in {"stop", "exit"}
            /\ \A w \in Workers :
                 queues_'[w] \in {queues_[w], Append(queues_[w], frame["loop"].event)}
        BY <1>0, <4>1, MessageQueue
      <4> QED
        BY <4>1, <4>2, <4>3
    <3> QED
      BY <1>3, <3>1, <3>2
  <2>2. ASSUME NEW w \in Workers PROVE RunCount(queues_'[w]) = RunCount(queues_[w])
    <3>1. ASSUME NEW e \in Events, e.type # "RESET", queues_'[w] = Append(queues_[w], e)
          PROVE  RunCount(queues_'[w]) = RunCount(queues_[w])
      <4>1. RunCount(Append(queues_[w], e)) = RunCount(queues_[w]) + 0
        BY <1>0, <3>1, AppendRuns
      <4> QED
        BY <1>a, <3>1, <4>1
    <3> QED
      BY <2>1, <3>1
  <2> QED
    BY <2>1, <2>2 DEF RunsInv
<1>4. CASE loopStart \/ loopRunning \/ loopRate \/ loopPaused \/ loopExit
  <2>1. queues_' = queues_
    BY <1>4 DEF loopStart, loopRunning, loopRate, loopPaused, loopExit, shared
  <2>2. {pc["loop"], pc'["loop"]} \cap {"new", "reset"} = {}
    BY <1>4 DEF loopStart, loopRunning, loopRate, loopPaused, loopExit, Goto, TypeInv, TypeOK,
                Threads
  <2> QED
    BY <2>1, <2>2 DEF RunsInv
<1>5. CASE stop \/ UNCHANGED vars
  BY <1>5 DEF stop, vars, shared, RunsInv
<1>6. ASSUME NEW c \in Callers, Controls(c) \/ Continues(c) PROVE RunsInv'
  <2>1. UNCHANGED <<pc["loop"], frame["loop"]>>
    BY <1>6, CallerQueue
  <2>2. ASSUME NEW w \in Workers PROVE RunCount(queues_'[w]) = RunCount(queues_[w])
    <3>1. \/ queues_'[w] = queues_[w]
          \/ \E e \in Events : /\ e.type \in {"SET_PHASE", "SET_MAX_OUTSTANDING"}
                              /\ queues_'[w] = Append(queues_[w], e)
      BY <1>6, CallerQueue
    <3>2. ASSUME NEW e \in Events, e.type # "RESET", queues_'[w] = Append(queues_[w], e)
          PROVE  RunCount(queues_'[w]) = RunCount(queues_[w])
      <4>1. RunCount(Append(queues_[w], e)) = RunCount(queues_[w]) + 0
        BY <1>0, <3>2, AppendRuns
      <4> QED
        BY <1>a, <3>2, <4>1
    <3> QED
      BY <3>1, <3>2
  <2>3. pc["loop"] = "reset" => frame["loop"].i \in Workers
    BY <1>0 DEF TypeInv, TypeOK
  <2> QED
    BY <2>1, <2>2, <2>3 DEF RunsInv
<1> QED
  BY <1>1, <1>2, <1>3, <1>4, <1>5, <1>6 DEF Next, loop

\* RunsInv, with the invariants of STOP and of the round robin.
StreamInv == TypeInv /\ StopInv /\ BalanceInv /\ RunsInv

\* The terms of RequestStream are those of the invariants.
LEMMA StreamTerms ==
  /\ Stream!Workers = Workers /\ Stream!Events = Events
  /\ \A t, d : Stream!Event(t, d) = Event(t, d)
  /\ \A w \in Workers : /\ Stream!Runs(w) = RunCount(queues_[w])
                        /\ Stream!Dealt(w) = Count(queues_[w])
                        /\ Stream!Closed(w) <=> HasStop(queues_[w])
<1>1. Stream!Workers = Workers
  BY DEF Stream!Workers, Workers
<1>2. Stream!Events = Events
  BY DEF Stream!Events, Events
<1>3. \A t, d : Stream!Event(t, d) = Event(t, d)
  BY DEF Stream!Event, Event
<1>a. \A S : Stream!Cardinality(S) = Cardinality(S)
  BY Zenon DEF Stream!Cardinality, Cardinality, Stream!IsFiniteSet, IsFiniteSet
<1>4. ASSUME NEW w \in Workers
      PROVE  /\ Stream!Runs(w) = RunCount(queues_[w])
             /\ Stream!Dealt(w) = Count(queues_[w])
             /\ Stream!Closed(w) <=> HasStop(queues_[w])
  <2>1. Stream!Runs(w) = RunCount(queues_[w])
    BY <1>a DEF Stream!Runs, RunCount
  <2>2. Stream!Dealt(w) = Count(queues_[w])
    <3>1. Stream!SinceReset(queues_[w]) = SinceReset(queues_[w])
      BY DEF Stream!SinceReset, SinceReset
    <3> QED
      BY <1>a, <3>1 DEF Stream!Dealt, Count
  <2>3. Stream!Closed(w) <=> HasStop(queues_[w])
    BY DEF Stream!Closed, HasStop
  <2> QED
    BY <2>1, <2>2, <2>3
<1> QED
  BY <1>1, <1>2, <1>3, <1>4

\* One iteration of messageAllWorkers is one Put of the stream.
LEMMA MessagePuts ==
  ASSUME TypeInv, NEW t \in Threads, NEW return, messageAllWorkers(t, return)
  PROVE  Stream!Put(frame[t].i, frame[t].event)
  BY DEF messageAllWorkers, Stream!Put

\* Every step of the scheduler is a step of the stream or leaves it alone.
LEMMA StepImplements ==
  ASSUME StreamInv, [Next]_vars
  PROVE  [Stream!Next]_queues_
<1> USE SchedulerAssumption
<1>0. /\ "loop" \in Threads /\ TypeInv
      /\ \A w \in Workers : /\ w \in Int /\ queues_[w] \in Seq(Events)
                            /\ Count(queues_[w]) \in Nat /\ RunCount(queues_[w]) \in Nat
      /\ next_ \in Workers /\ frame["loop"].i \in Workers
  <2>1. /\ "loop" \in Threads /\ TypeInv
        /\ \A w \in Workers : w \in Int /\ queues_[w] \in Seq(Events)
        /\ next_ \in Workers /\ frame["loop"].i \in Workers
    BY DEF Threads, StreamInv, TypeInv, TypeOK, Workers
  <2>2. \A w \in Workers : Count(queues_[w]) \in Nat /\ RunCount(queues_[w]) \in Nat
    BY <2>1, CountNat, AppendRuns, EventTypes
  <2> QED
    BY <2>1, <2>2
<1>1. CASE loopReset
  <2> DEFINE i == frame["loop"].i
  <2>1. pc["loop"] = "reset" /\ messageAllWorkers("loop", "start")
    BY <1>1 DEF loopReset
  <2>2. Stream!Put(i, Event("RESET", NoData))
    BY <1>0, <2>1, MessagePuts DEF TypeInv, FrameOK
  <2>3. ASSUME NEW v \in Workers
        PROVE  /\ ~HasStop(queues_[v])
               /\ RunCount(queues_[v]) = IF v < i THEN RunCount(queues_[i]) + 1
                                         ELSE RunCount(queues_[i])
    BY <1>0, <2>1 DEF StreamInv, StopInv, RunsInv
  <2>4. Stream!Reset(i)
    BY <1>0, <2>2, <2>3, StreamTerms DEF Stream!Reset
  <2> QED
    BY <1>0, <2>4, StreamTerms DEF Stream!Next
<1>2. CASE loopSend
  <2>1. /\ pc["loop"] = "send"
        /\ Stream!Put(next_, Event("SEND_REQUEST", NoData))
    BY <1>2 DEF loopSend, Stream!Put
  <2>2. ASSUME NEW v \in Workers
        PROVE  Count(queues_[v]) = IF v < next_ THEN Count(queues_[next_]) + 1
                                   ELSE Count(queues_[next_])
    <3>1. \A x, y \in Workers : x < y =>
            Count(queues_[x]) = Count(queues_[y]) + IF x < next_ /\ next_ <= y THEN 1 ELSE 0
      BY <2>1 DEF StreamInv, BalanceInv
    <3>2. v \in Int /\ next_ \in Int
      BY <1>0
    <3>3. CASE v < next_
      BY <1>0, <3>1, <3>2, <3>3
    <3>4. CASE next_ < v
      BY <1>0, <3>1, <3>2, <3>4
    <3>5. CASE v = next_
      BY <3>2, <3>5
    <3> QED
      BY <3>2, <3>3, <3>4, <3>5
  <2>3. \A u, v \in Workers : /\ RunCount(queues_[u]) = RunCount(queues_[v])
                              /\ RunCount(queues_[u]) > 0 /\ ~HasStop(queues_[u])
    BY <2>1 DEF StreamInv, RunsInv, StopInv
  <2>4. Stream!InRun
    BY <2>3, StreamTerms DEF Stream!InRun
  <2>5. Stream!Request(next_)
    BY <1>0, <2>1, <2>2, <2>4, StreamTerms DEF Stream!Request
  <2> QED
    BY <1>0, <2>5, StreamTerms DEF Stream!Next
<1>3. CASE loopStop
  <2> DEFINE i == frame["loop"].i
  <2>1. pc["loop"] = "stop" /\ messageAllWorkers("loop", "exit")
    BY <1>3 DEF loopStop, afterStop
  <2>2. Stream!Put(i, Event("STOP", NoData))
    BY <1>0, <2>1, MessagePuts DEF TypeInv, FrameOK
  <2>3. \A v \in Workers : /\ RunCount(queues_[v]) = RunCount(queues_[i])
                           /\ RunCount(queues_[i]) > 0
                           /\ HasStop(queues_[v]) <=> v < i
    BY <1>0, <2>1 DEF StreamInv, StopInv, RunsInv
  <2>4. Stream!Stop(i)
    BY <1>0, <2>2, <2>3, StreamTerms DEF Stream!Stop
  <2> QED
    BY <1>0, <2>4, StreamTerms DEF Stream!Next
<1>4. ASSUME NEW c \in Callers, callerPuts(c) PROVE Stream!Next
  <2>1. /\ messageAllWorkers(c, "idle") /\ c \in Threads
        /\ frame[c].event.type \in {"SET_PHASE", "SET_MAX_OUTSTANDING"}
    BY <1>0, <1>4 DEF callerPuts, Threads, TypeInv, FrameOK
  <2>2. frame[c].i \in Workers /\ frame[c].event \in Events
    BY <1>0, <2>1 DEF TypeInv, TypeOK
  <2>3. Stream!Control(frame[c].i)
    BY <1>0, <2>1, <2>2, MessagePuts, StreamTerms DEF Stream!Control
  <2> QED
    BY <2>2, <2>3, StreamTerms DEF Stream!Next
<1>5. CASE run \/ loopStart \/ loopRunning \/ loopRate \/ loopPaused \/ loopWhile \/ loopExit
           \/ stop \/ UNCHANGED vars
  BY <1>5 DEF run, loopStart, loopRunning, loopRate, loopPaused, loopWhile, loopExit, stop, vars,
              shared
<1>6. ASSUME NEW c \in Callers, Controls(c) \/ maxOutstandingEvent(c) PROVE queues_' = queues_
  BY <1>6 DEF Controls, pause, resume, setPhase, setMaxOutstandingRequests, setRps,
              maxOutstandingEvent, shared
<1> QED
  BY <1>1, <1>2, <1>3, <1>4, <1>5, <1>6 DEF Next, loop, Continues

\* The scheduler implements RequestStream: runs begin with a RESET to every
\* worker before any request of the run, requests are dealt in turn, STOP ends
\* the stream once, for any number of workers and whatever calls race with the
\* loop (ImplementsStream).
THEOREM StreamImplemented == Spec => ImplementsStream
<1>1. Init => StreamInv
  <2> SUFFICES ASSUME Init PROVE StreamInv
    OBVIOUS
  <2>1. pc["loop"] = "new" /\ (\A w \in Workers : queues_[w] = << >>) /\ promise_ = FALSE
    BY DEF Init, Threads
  <2>2. SinceReset(<< >>) = {}
    BY DEF SinceReset
  <2>3. BalanceInv
    BY <2>1, <2>2, FS_EmptySet DEF BalanceInv, Count
  <2>4. StopInv
    BY <2>1 DEF StopInv, HasStop, LastStop
  <2>5. RunsInv
    BY <2>1 DEF RunsInv
  <2> QED
    BY <2>3, <2>4, <2>5, InitType DEF StreamInv
<1>2. StreamInv /\ [Next]_vars => StreamInv'
  BY NextType, NextStop, NextBalance, NextRuns DEF StreamInv
<1>3. Init => Stream!Init
  BY DEF Init, Stream!Init, Stream!Workers, Workers
<1>4. StreamInv /\ [Next]_vars => [Stream!Next]_queues_
  BY StepImplements
<1> QED
  BY <1>1, <1>2, <1>3, <1>4, PTL DEF Spec, ImplementsStream, Stream!Spec

-----------------------------------------------------------------------------
(* The workers have the limit that getMaxOutstandingRequests() reports *)

\* The last limit sent on q, if any, is m.
Agrees(q, m) ==
  \A k \in DOMAIN q :
    (/\ q[k].type = "SET_MAX_OUTSTANDING"
     /\ \A j \in k + 1 .. Len(q) : q[j].type # "SET_MAX_OUTSTANDING")
      => q[k].data = m

\* A call that overlapped no other is the only one under way; the limit it sends
\* is the member, and the queues behind it have it; when it is over, all have it.
LimitInv ==
  alone =>
    /\ \A c, d \in Callers : setsLimit(c) /\ setsLimit(d) => c = d
    /\ (\A c \in Callers : ~setsLimit(c))
         => \A w \in Workers : Agrees(queues_[w], max_outstanding_requests_)
    /\ \A c \in Callers : setsLimit(c) =>
         /\ frame[c].event.data = max_outstanding_requests_
         /\ pc[c] = "put" =>
              \A w \in Workers :
                w < frame[c].i => Agrees(queues_[w], max_outstanding_requests_)

\* What appending an event to a queue does to its last limit.
LEMMA AppendAgrees ==
  ASSUME NEW q \in Seq(Events), NEW e \in Events, NEW m
  PROVE  /\ e.type = "SET_MAX_OUTSTANDING" /\ e.data = m => Agrees(Append(q, e), m)
         /\ e.type # "SET_MAX_OUTSTANDING" /\ Agrees(q, m) => Agrees(Append(q, e), m)
<1> DEFINE r == Append(q, e)
<1>1. /\ DOMAIN r = 1 .. Len(q) + 1 /\ Len(r) = Len(q) + 1
      /\ DOMAIN q = 1 .. Len(q) /\ Len(q) \in Nat
      /\ \A k \in 1 .. Len(q) : r[k] = q[k]
      /\ r[Len(q) + 1] = e
  OBVIOUS
<1> HIDE DEF r
<1>2. ASSUME e.type = "SET_MAX_OUTSTANDING", e.data = m PROVE Agrees(r, m)
  <2> SUFFICES ASSUME NEW k \in DOMAIN r,
                      \A j \in k + 1 .. Len(r) : r[j].type # "SET_MAX_OUTSTANDING"
               PROVE  r[k].data = m
    BY DEF Agrees
  <2>1. k = Len(q) + 1
    BY <1>1, <1>2
  <2> QED
    BY <1>1, <1>2, <2>1
<1>3. ASSUME e.type # "SET_MAX_OUTSTANDING", Agrees(q, m) PROVE Agrees(r, m)
  <2> SUFFICES ASSUME NEW k \in DOMAIN r, r[k].type = "SET_MAX_OUTSTANDING",
                      \A j \in k + 1 .. Len(r) : r[j].type # "SET_MAX_OUTSTANDING"
               PROVE  r[k].data = m
    BY DEF Agrees
  <2>1. k \in 1 .. Len(q) /\ r[k] = q[k]
    BY <1>1, <1>3
  <2>2. \A j \in k + 1 .. Len(q) : q[j].type # "SET_MAX_OUTSTANDING"
    BY <1>1, <2>1
  <2> QED
    BY <1>1, <1>3, <2>1, <2>2 DEF Agrees
<1> QED
  BY <1>2, <1>3 DEF r

\* A step of the loop thread or of stop() leaves the callers alone, and what it
\* puts on a queue is not a limit.
LEMMA LoopLimit ==
  ASSUME TypeInv, LimitInv, run \/ loop \/ stop
  PROVE  LimitInv'
<1> USE SchedulerAssumption
<1>0. /\ "loop" \in Threads /\ \A c \in Callers : c \in Threads /\ c # "loop"
      /\ \A w \in Workers : queues_[w] \in Seq(Events)
      /\ queues_ \in [Workers -> Seq(Events)] /\ next_ \in Workers
  BY DEF Threads, TypeInv, TypeOK
<1>1. max_outstanding_requests_' = max_outstanding_requests_
  BY DEF run, loop, stop, loopReset, loopStart, loopRunning, loopSend, loopRate, loopPaused,
         loopWhile, loopStop, loopExit, shared
<1>5. alone' = alone
  BY DEF run, loop, stop, loopReset, loopStart, loopRunning, loopSend, loopRate, loopPaused,
         loopWhile, loopStop, loopExit, history
<1>2. \A c \in Callers : pc'[c] = pc[c] /\ frame'[c] = frame[c]
  <2>1. CASE loopReset \/ loopStop
    BY <1>0, <2>1, MessageQueue DEF loopReset, loopStop
  <2>2. CASE run \/ loopWhile
    BY <1>0, <2>2 DEF run, loopWhile, Enter, Goto, TypeInv, TypeOK
  <2>3. CASE stop \/ loopStart \/ loopRunning \/ loopSend \/ loopRate \/ loopPaused \/ loopExit
    BY <1>0, <2>3 DEF stop, loopStart, loopRunning, loopSend, loopRate, loopPaused, loopExit, Goto,
                      TypeInv, TypeOK
  <2> QED
    BY <2>1, <2>2, <2>3 DEF loop
<1>3. \A w \in Workers :
        \/ queues_'[w] = queues_[w]
        \/ \E e \in Events : /\ e.type # "SET_MAX_OUTSTANDING"
                            /\ queues_'[w] = Append(queues_[w], e)
  <2>1. CASE loopReset \/ loopStop
    <3>1. /\ frame["loop"].event \in Events
          /\ \A w \in Workers :
               queues_'[w] \in {queues_[w], Append(queues_[w], frame["loop"].event)}
      BY <1>0, <2>1, MessageQueue DEF loopReset, loopStop
    <3>2. frame["loop"].event.type \in {"RESET", "STOP"}
      BY <2>1, EventTypes DEF loopReset, loopStop, TypeInv, FrameOK
    <3> QED
      BY <3>1, <3>2
  <2>2. CASE loopSend
    <3>1. Event("SEND_REQUEST", NoData) \in Events
          /\ Event("SEND_REQUEST", NoData).type = "SEND_REQUEST"
      BY EventTypes
    <3>2. queues_' = [queues_ EXCEPT ![next_] =
                        Append(queues_[next_], Event("SEND_REQUEST", NoData))]
      BY <2>2 DEF loopSend
    <3>3. \A w \in Workers :
            queues_'[w] \in {queues_[w], Append(queues_[w], Event("SEND_REQUEST", NoData))}
      BY <1>0, <3>2
    <3> QED
      BY <3>1, <3>3
  <2>3. CASE run \/ stop \/ loopStart \/ loopRunning \/ loopRate \/ loopPaused \/ loopWhile
             \/ loopExit
    BY <2>3 DEF run, stop, loopStart, loopRunning, loopRate, loopPaused, loopWhile, loopExit, shared
  <2> QED
    BY <2>1, <2>2, <2>3 DEF loop
<1>4. ASSUME NEW w \in Workers, Agrees(queues_[w], max_outstanding_requests_)
      PROVE  Agrees(queues_'[w], max_outstanding_requests_)
  <2>1. ASSUME NEW e \in Events, e.type # "SET_MAX_OUTSTANDING",
               queues_'[w] = Append(queues_[w], e)
        PROVE  Agrees(queues_'[w], max_outstanding_requests_)
    BY <1>0, <1>4, <2>1, AppendAgrees
  <2> QED
    BY <1>3, <1>4, <2>1
<1>6. \A c \in Callers : setsLimit(c)' <=> setsLimit(c)
  BY <1>2 DEF setsLimit
<1> QED
  BY <1>1, <1>2, <1>4, <1>5, <1>6 DEF LimitInv

\* A step of caller c leaves the other callers where they are.
LEMMA OtherCallers ==
  ASSUME TypeInv, NEW c \in Callers, Controls(c) \/ Continues(c),
         NEW d \in Callers, d # c
  PROVE  pc'[d] = pc[d] /\ frame'[d] = frame[d] /\ (setsLimit(d)' <=> setsLimit(d))
<1>0. c \in Threads /\ d \in Threads /\ pc \in [Threads -> LoopPc \cup CallerPc]
      /\ frame \in [Threads -> [event : Events, i : Workers]]
  BY DEF Threads, TypeInv, TypeOK
<1>1. pc'[d] = pc[d] /\ frame'[d] = frame[d]
  <2>1. CASE pause(c) \/ resume(c) \/ \E rate \in Rates : setRps(c, rate)
    BY <2>1 DEF pause, resume, setRps
  <2>2. CASE \E phase \in Phases : setPhase(c, phase)
    BY <1>0, <2>2 DEF setPhase, Enter, Goto
  <2>3. CASE \E limit \in Limits : setMaxOutstandingRequests(c, limit)
    BY <1>0, <2>3 DEF setMaxOutstandingRequests, Enter, Goto
  <2>4. CASE maxOutstandingEvent(c)
    BY <1>0, <2>4 DEF maxOutstandingEvent, Enter, Goto
  <2>5. CASE callerPuts(c)
    <3>1. messageAllWorkers(c, "idle") /\ "idle" \in CallerPc
      BY <2>5 DEF callerPuts, CallerPc
    <3> QED
      BY <1>0, <3>1, MessageType
  <2> QED
    BY <2>1, <2>2, <2>3, <2>4, <2>5 DEF Controls, Continues
<1> QED
  BY <1>1 DEF setsLimit

\* A step of a caller keeps LimitInv: only a call that finds no other one under
\* way sets alone.
LEMMA CallerLimit ==
  ASSUME TypeInv, LimitInv, NEW c \in Callers, Controls(c) \/ Continues(c)
  PROVE  LimitInv'
<1> USE SchedulerAssumption
<1>0. /\ c \in Threads /\ \A d \in Callers : d \in Threads
      /\ \A w \in Workers : queues_[w] \in Seq(Events) /\ w \in Int
      /\ pc \in [Threads -> LoopPc \cup CallerPc]
      /\ frame \in [Threads -> [event : Events, i : Workers]]
  BY DEF Threads, TypeInv, TypeOK, Workers
<1> DEFINE max == max_outstanding_requests_
<1>1. ASSUME UNCHANGED <<pc, frame, queues_, max, alone>> PROVE LimitInv'
  BY <1>1 DEF LimitInv, setsLimit
<1>2. CASE pause(c) \/ resume(c)
  BY <1>1, <1>2 DEF pause, resume
<1>3. ASSUME NEW rate \in Rates, setRps(c, rate) PROVE LimitInv'
  BY <1>1, <1>3 DEF setRps
<1>8. \A d \in Callers \ {c} :
        pc'[d] = pc[d] /\ frame'[d] = frame[d] /\ (setsLimit(d)' <=> setsLimit(d))
  BY OtherCallers
<1>4. ASSUME NEW phase \in Phases, setPhase(c, phase) PROVE LimitInv'
  <2>1. pc[c] = "idle" /\ UNCHANGED <<queues_, max, alone>>
    BY <1>4 DEF setPhase, Call, shared, history
  <2>2. CASE UNCHANGED <<pc, frame>>
    BY <1>1, <2>1, <2>2
  <2>3. CASE Enter(c, "put", Event("SET_PHASE", phase))
    <3>1. pc'[c] = "put" /\ frame'[c].event = Event("SET_PHASE", phase)
      BY <1>0, <2>3 DEF Enter, Goto
    <3>2. ~setsLimit(c) /\ ~setsLimit(c)'
      BY <2>1, <3>1, EventTypes DEF setsLimit
    <3>3. \A d \in Callers : setsLimit(d)' <=> setsLimit(d)
      BY <1>8, <3>2
    <3>4. \A d \in Callers : setsLimit(d) => pc'[d] = pc[d] /\ frame'[d] = frame[d]
      BY <1>8, <3>2
    <3> QED
      BY <2>1, <3>3, <3>4 DEF LimitInv
  <2> QED
    BY <1>4, <2>2, <2>3 DEF setPhase
<1>5. ASSUME NEW limit \in Limits, setMaxOutstandingRequests(c, limit) PROVE LimitInv'
  <2>1. pc'[c] = "event" /\ frame'[c].event = Event("SET_MAX_OUTSTANDING", limit) /\ max' = limit
    BY <1>0, <1>5 DEF setMaxOutstandingRequests, storedLimit, Enter, Goto
  <2>2. frame'[c].event.data = limit
    BY <2>1, EventTypes
  <2>3. alone' => \A d \in Callers : ~setsLimit(d)
    BY <1>5 DEF setMaxOutstandingRequests
  <2>4. alone' => \A d \in Callers \ {c} : ~setsLimit(d)'
    BY <1>8, <2>3
  <2>5. setsLimit(c)'
    BY <2>1 DEF setsLimit
  <2> QED
    BY <2>1, <2>2, <2>4, <2>5 DEF LimitInv
<1>6. CASE maxOutstandingEvent(c)
  <2>1. pc[c] = "event" /\ UNCHANGED <<queues_, max, alone>>
    BY <1>6 DEF maxOutstandingEvent, shared, history
  <2>2. setsLimit(c)
    BY <2>1 DEF setsLimit
  <2> SUFFICES ASSUME alone PROVE LimitInv'
    BY <2>1 DEF LimitInv
  <2>3. frame[c].event.data = max /\ \A d \in Callers \ {c} : ~setsLimit(d)
    BY <2>2 DEF LimitInv
  <2>4. Enter(c, "put", Event("SET_MAX_OUTSTANDING", max))
    BY <1>6, <2>3 DEF maxOutstandingEvent
  <2>5. /\ pc'[c] = "put" /\ frame'[c].i = 0
        /\ frame'[c].event = Event("SET_MAX_OUTSTANDING", max)
    BY <1>0, <2>4 DEF Enter, Goto
  <2>6. /\ frame'[c].event.data = max
        /\ frame'[c].event.type = "SET_MAX_OUTSTANDING"
    BY <2>5, EventTypes
  <2>7. \A w \in Workers : ~(w < 0)
    BY DEF Workers
  <2>8. setsLimit(c)' /\ \A d \in Callers \ {c} : ~setsLimit(d)'
    BY <1>8, <2>3, <2>5, <2>6 DEF setsLimit
  <2> QED
    BY <2>1, <2>5, <2>6, <2>7, <2>8 DEF LimitInv
<1>7. CASE callerPuts(c)
  <2> DEFINE i == frame[c].i  e == frame[c].event
  <2>1. pc[c] = "put" /\ messageAllWorkers(c, "idle") /\ max' = max /\ alone' = alone
    BY <1>7 DEF callerPuts
  <2>2. /\ i \in Workers /\ e \in Events
        /\ queues_'[i] = Append(queues_[i], e)
        /\ \A w \in Workers : w # i => queues_'[w] = queues_[w]
        /\ \/ pc'[c] = "put" /\ frame'[c].i = i + 1
           \/ pc'[c] = "idle" /\ i = NumWorkers - 1
    BY <1>0, <2>1, MessageQueue
  <2>3. pc'[c] = "put" => frame'[c].event = e
    <3>1. "idle" \in CallerPc
      BY DEF CallerPc
    <3> QED
      BY <1>0, <2>1, <3>1, MessageType
  <2> SUFFICES ASSUME alone PROVE LimitInv'
    BY <2>1 DEF LimitInv
  <2>4. CASE e.type = "SET_MAX_OUTSTANDING"
    <3>0. setsLimit(c)
      BY <2>1, <2>4 DEF setsLimit
    <3>1. /\ e.data = max /\ \A w \in Workers : w < i => Agrees(queues_[w], max)
          /\ \A d \in Callers \ {c} : ~setsLimit(d)
      BY <2>1, <3>0 DEF LimitInv
    <3>2. Agrees(queues_'[i], max)
      BY <1>0, <2>2, <2>4, <3>1, AppendAgrees
    <3>3. ASSUME NEW w \in Workers, w < i + 1 PROVE Agrees(queues_'[w], max)
      <4>1. w = i \/ w < i
        BY <1>0, <2>2, <3>3
      <4> QED
        BY <1>0, <2>2, <3>1, <3>2, <4>1
    <3>6. \A d \in Callers \ {c} : ~setsLimit(d)'
      BY <1>8, <3>1
    <3>4. CASE pc'[c] = "put" /\ frame'[c].i = i + 1
      <4>1. setsLimit(c)'
        BY <2>3, <2>4, <3>4 DEF setsLimit
      <4> QED
        BY <2>1, <2>3, <3>1, <3>3, <3>4, <3>6, <4>1 DEF LimitInv
    <3>5. CASE pc'[c] = "idle" /\ i = NumWorkers - 1
      <4>1. \A w \in Workers : w < i + 1
        BY <3>5 DEF Workers
      <4>2. ~setsLimit(c)'
        BY <3>5 DEF setsLimit
      <4> QED
        BY <2>1, <3>3, <3>6, <4>1, <4>2 DEF LimitInv
    <3> QED
      BY <2>2, <3>4, <3>5
  <2>5. CASE e.type # "SET_MAX_OUTSTANDING"
    <3>1. ASSUME NEW w \in Workers, Agrees(queues_[w], max) PROVE Agrees(queues_'[w], max)
      <4>1. CASE w = i
        <5>1. Agrees(queues_[i], max)
          BY <3>1, <4>1
        <5>2. Agrees(queues_'[i], max)
          BY <1>0, <2>2, <2>5, <5>1, AppendAgrees
        <5> QED
          BY <4>1, <5>2
      <4>2. CASE w # i
        <5>1. queues_'[w] = queues_[w]
          BY <2>2, <4>2
        <5> QED
          BY <3>1, <5>1
      <4> QED
        BY <4>1, <4>2
    <3>2. ~setsLimit(c) /\ ~setsLimit(c)'
      BY <2>1, <2>2, <2>3, <2>5 DEF setsLimit
    <3>3. \A d \in Callers : setsLimit(d)' <=> setsLimit(d)
      BY <1>8, <3>2
    <3>4. \A d \in Callers : setsLimit(d) => pc'[d] = pc[d] /\ frame'[d] = frame[d]
      BY <1>8, <3>2
    <3> QED
      BY <2>1, <3>1, <3>3, <3>4 DEF LimitInv
  <2> QED
    BY <2>4, <2>5
<1> QED
  BY <1>2, <1>3, <1>4, <1>5, <1>6, <1>7 DEF Controls, Continues

\* The constructor establishes LimitInv: no limit has been sent.
LEMMA InitLimit == Init => LimitInv
<1> SUFFICES ASSUME Init PROVE LimitInv
  OBVIOUS
<1>1. \A c \in Callers : pc[c] = "idle"
  BY SchedulerAssumption DEF Init, Threads
<1>2. \A w \in Workers : queues_[w] = << >>
  BY DEF Init
<1> QED
  BY <1>1, <1>2 DEF LimitInv, Agrees, setsLimit

\* Every step keeps it.
LEMMA NextLimit == TypeInv /\ LimitInv /\ [Next]_vars => LimitInv'
<1> SUFFICES ASSUME TypeInv, LimitInv, [Next]_vars PROVE LimitInv'
  OBVIOUS
<1>1. CASE UNCHANGED vars
  BY <1>1 DEF vars, shared, history, LimitInv, setsLimit
<1> QED
  BY <1>1, LoopLimit, CallerLimit DEF Next

\* The last limit each worker was sent is the one getMaxOutstandingRequests()
\* reports whenever no call is under way and the last one overlapped no other, for
\* any number of workers and of control threads, whatever overlaps came before
\* (LimitAgreement).
THEOREM LimitsAgree == Spec => []LimitAgreement
<1>1. LimitInv => LimitAgreement
  BY DEF LimitInv, LimitAgreement, Agrees
<1> QED
  BY <1>1, InitLimit, NextLimit, TypeCorrect, PTL DEF Spec

=============================================================================
