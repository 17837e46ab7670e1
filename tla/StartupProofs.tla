---------------------------- MODULE StartupProofs ----------------------------
(***************************************************************************)
(* Theorems about Startup, for any number of workers and connections, any  *)
(* command lines and any behaviour of the target.                          *)
(***************************************************************************)
EXTENDS Startup, TLAPS

USE StartupAssumption DEF kNumberOfAttempts

Early == {"file", "json", "affinity", "server"}
Late == {"flags", "poll", "sleep", "start"}

\* Connection conn comes before the one the main thread is at.
Before(conn, here) == conn[1] < here[1] \/ (conn[1] = here[1] /\ conn[2] < here[2])

\* Nothing has been done yet.
EarlyInv ==
  pc \in Early =>
    /\ at = <<0, 0>> /\ attempt = 0 /\ connected = {} /\ running = {}
    /\ \A conn \in AllConnections : failures[conn] = 0

\* The connections before the current one are made, and the failures of the
\* current one are the attempts made for it.
ConstructInv ==
  pc = "construct" =>
    /\ connected = {conn \in AllConnections : Before(conn, at)}
    /\ attempt < kNumberOfAttempts /\ failures[at] = attempt
    /\ \A conn \in AllConnections : Before(at, conn) => failures[conn] = 0
    /\ running = {}

\* All connections are made; of the worker to be started next, those before
\* the current one have been seen ready, and all of them before it starts.
LateInv ==
  pc \in Late =>
    /\ connected = AllConnections
    /\ pc = "flags" => at[2] = 0
    /\ pc \in {"poll", "sleep"} =>
         \A conn \in AllConnections : conn[1] = at[1] /\ conn[2] < at[2] => conn \in seen
    /\ (pc = "start" /\ flags.wait_for_target_ready) =>
         \A conn \in AllConnections : conn[1] = at[1] => conn \in seen

StartInv == TypeOK /\ EarlyInv /\ ConstructInv /\ LateInv /\ StartedWhole

\* The first connection.
LEMMA FirstConnection == <<0, 0>> \in AllConnections
  BY DEF AllConnections, Workers

\* After the last connection, and only then, all of them are made; otherwise
\* the next one is the first that is not.
LEMMA NextToMake ==
  ASSUME at \in AllConnections,
         connected = {conn \in AllConnections : Before(conn, at)}
  PROVE  LET made == connected \cup {at} IN
         made # AllConnections =>
           /\ toMakeNext \in AllConnections
           /\ Before(at, toMakeNext)
           /\ made = {conn \in AllConnections : Before(conn, toMakeNext)}
           /\ \A conn \in AllConnections : Before(toMakeNext, conn) => Before(at, conn)
<1> DEFINE made == connected \cup {at}
<1>0. /\ at[1] \in Nat /\ at[2] \in Nat /\ at[1] < NumWorkers /\ at[2] < NumConnections
      /\ at = <<at[1], at[2]>>
      /\ \A conn \in AllConnections :
           /\ conn[1] \in Nat /\ conn[2] \in Nat
           /\ conn[1] < NumWorkers /\ conn[2] < NumConnections
           /\ conn = <<conn[1], conn[2]>>
  BY DEF AllConnections, Workers
<1>1. CASE at[2] + 1 < NumConnections
  <2>1. toMakeNext = <<at[1], at[2] + 1>>
    BY <1>1 DEF toMakeNext
  <2>2. toMakeNext \in AllConnections
    BY <1>0, <1>1, <2>1 DEF AllConnections, Workers
  <2>3. \A conn \in AllConnections : Before(conn, toMakeNext) <=> (Before(conn, at) \/ conn = at)
    BY <1>0, <2>1 DEF Before
  <2>4. \A conn \in AllConnections : Before(toMakeNext, conn) => Before(at, conn)
    BY <1>0, <2>1 DEF Before
  <2>5. Before(at, toMakeNext)
    BY <1>0, <2>1 DEF Before
  <2> QED
    BY <2>2, <2>3, <2>4, <2>5
<1>2. CASE ~(at[2] + 1 < NumConnections)
  <2>1. toMakeNext = <<at[1] + 1, 0>> /\ at[2] + 1 = NumConnections
    BY <1>0, <1>2 DEF toMakeNext
  <2>2. \A conn \in AllConnections : Before(conn, toMakeNext) <=> (Before(conn, at) \/ conn = at)
    BY <1>0, <2>1 DEF Before
  <2>3. \A conn \in AllConnections : Before(toMakeNext, conn) => Before(at, conn)
    BY <1>0, <2>1 DEF Before
  <2>4. Before(at, toMakeNext)
    BY <1>0, <2>1 DEF Before
  <2>5. CASE at[1] + 1 < NumWorkers
    <3>1. toMakeNext \in AllConnections
      BY <1>0, <2>1, <2>5 DEF AllConnections, Workers
    <3> QED
      BY <3>1, <2>2, <2>3, <2>4
  <2>6. CASE ~(at[1] + 1 < NumWorkers)
    <3>1. \A conn \in AllConnections : Before(conn, toMakeNext)
      BY <1>0, <2>1, <2>6 DEF Before
    <3>2. made = AllConnections
      BY <2>2, <3>1
    <3> QED
      BY <3>2
  <2> QED
    BY <2>5, <2>6
<1> QED
  BY <1>1, <1>2

\* Init establishes the invariant.
LEMMA InitStart == Init => StartInv
<1> SUFFICES ASSUME Init PROVE StartInv
  OBVIOUS
<1>1. TypeOK
  <2>1. failures \in [AllConnections -> 0 .. 3]
    BY DEF Init
  <2>2. attempt \in 0 .. 3
    BY DEF Init
  <2>4. flags \in Flags /\ instance \in BOOLEAN
    BY Zenon DEF Init
  <2>3. {connected, seen} \subseteq SUBSET AllConnections /\ running \subseteq Workers
    BY DEF Init
  <2> QED
    BY <2>1, <2>2, <2>3, <2>4, FirstConnection DEF Init, TypeOK
<1> QED
  BY <1>1 DEF Init, StartInv, EarlyInv, ConstructInv, LateInv, StartedWhole, Early, Late

\* Every step keeps it.
LEMMA NextStart == StartInv /\ [Next]_vars => StartInv'
<1> SUFFICES ASSUME StartInv, [Next]_vars PROVE StartInv'
  OBVIOUS
<1> USE DEF StartInv
<1>0. /\ at \in AllConnections /\ at = <<at[1], at[2]>>
      /\ at[1] \in Workers /\ at[2] \in 0 .. NumConnections - 1
      /\ at[1] \in Nat /\ at[2] \in Nat
  BY DEF TypeOK, AllConnections, Workers
<1>1. CASE readDynamicFromFile \/ parseJson \/ checkAffinity \/ skip \/ make_fb303
  <2>1. /\ pc \in Early /\ pc' \in Early \cup {"construct", "dead"}
        /\ UNCHANGED <<flags, at, attempt, connected, running, failures, seen>>
        /\ instance' \in BOOLEAN
    BY <1>1 DEF readDynamicFromFile, parseJson, checkAffinity, skip, make_fb303, Goto, Early, TypeOK
  <2>2. TypeOK'
    BY <2>1 DEF TypeOK, Early
  <2>3. \A conn \in AllConnections : ~Before(conn, <<0, 0>>)
    BY DEF Before, AllConnections, Workers
  <2> QED
    BY <2>1, <2>2, <2>3, FirstConnection
       DEF EarlyInv, ConstructInv, LateInv, StartedWhole, Early, Late
<1>2. CASE lookUpSucceeds
  <2>1. /\ pc = "construct" /\ connected' = connected \cup {at} /\ attempt' = 0
        /\ UNCHANGED <<flags, instance, running, failures, seen>>
        /\ running = {}
    BY <1>2 DEF lookUpSucceeds, firstAttempt, ConstructInv
  <2>2. CASE connected' = AllConnections
    <3>1. at' = <<0, 0>> /\ pc' = "flags"
      BY <1>2, <2>2 DEF lookUpSucceeds
    <3>2. TypeOK'
      BY <1>0, <2>1, <2>2, <3>1, FirstConnection DEF TypeOK
    <3> QED
      BY <2>1, <2>2, <3>1, <3>2 DEF EarlyInv, ConstructInv, LateInv, StartedWhole, Early, Late
  <2>3. CASE connected' # AllConnections
    <3>1. at' = toMakeNext /\ pc' = "construct"
      BY <1>2, <2>1, <2>3 DEF lookUpSucceeds
    <3>2. /\ at' \in AllConnections /\ Before(at, at')
          /\ connected' = {conn \in AllConnections : Before(conn, at')}
          /\ \A conn \in AllConnections : Before(at', conn) => Before(at, conn)
      BY <1>0, <2>1, <2>3, <3>1, NextToMake DEF ConstructInv
    <3>3. TypeOK'
      BY <1>0, <2>1, <3>1, <3>2 DEF TypeOK
    <3>4. ConstructInv'
      BY <2>1, <3>1, <3>2 DEF ConstructInv
    <3> QED
      BY <2>1, <3>1, <3>3, <3>4 DEF EarlyInv, LateInv, StartedWhole, Early, Late
  <2> QED
    BY <2>2, <2>3
<1>3. CASE lookUpFails
  <2>1. /\ pc = "construct" /\ attempt' = attempt + 1
        /\ failures' = [failures EXCEPT ![at] = @ + 1]
        /\ pc' = IF attempt' < 3 THEN "construct" ELSE "dead"
        /\ UNCHANGED <<flags, at, connected, instance, running, seen>>
    BY <1>3 DEF lookUpFails
  <2>2. attempt \in 0 .. 2 /\ failures[at] = attempt /\ running = {}
    BY <2>1 DEF ConstructInv, TypeOK
  <2>3. failures' \in [AllConnections -> 0 .. 3] /\ failures'[at] = attempt'
    BY <1>0, <2>1, <2>2 DEF TypeOK
  <2>4. TypeOK'
    BY <2>1, <2>2, <2>3 DEF TypeOK
  <2>5. \A conn \in AllConnections : Before(at, conn) => failures'[conn] = 0
    <3>1. \A conn \in AllConnections : Before(at, conn) => conn # at
      BY <1>0 DEF Before
    <3> QED
      BY <2>1, <3>1 DEF ConstructInv, TypeOK
  <2> QED
    BY <2>1, <2>2, <2>3, <2>4, <2>5
       DEF EarlyInv, ConstructInv, LateInv, StartedWhole, Early, Late
<1>4. CASE checkFlags
  <2>1. /\ pc = "flags" /\ pc' \in {"dead", "poll", "start"}
        /\ pc' = "start" => ~flags.wait_for_target_ready
        /\ UNCHANGED <<flags, at, attempt, connected, instance, running, failures, seen>>
    BY <1>4 DEF checkFlags, Goto
  <2>2. TypeOK'
    BY <2>1 DEF TypeOK
  <2>3. at[2] = 0 /\ \A conn \in AllConnections : ~(conn[2] < 0)
    BY <2>1 DEF LateInv, Late, AllConnections
  <2> QED
    BY <2>1, <2>2, <2>3 DEF EarlyInv, ConstructInv, LateInv, StartedWhole, Early, Late
<1>5. CASE polledReady
  <2>1. /\ pc = "poll" /\ seen' = seen \cup {at}
        /\ UNCHANGED <<flags, attempt, connected, instance, running, failures>>
    BY <1>5 DEF polledReady
  <2>2. \A conn \in AllConnections : conn[1] = at[1] /\ conn[2] < at[2] + 1 => conn \in seen'
    <3> TAKE conn \in AllConnections
    <3>1. conn = <<conn[1], conn[2]>> /\ conn[2] \in Nat
      BY DEF AllConnections
    <3>2. conn[1] = at[1] /\ conn[2] = at[2] => conn = at
      BY <1>0, <3>1
    <3>3. conn[2] < at[2] + 1 => conn[2] < at[2] \/ conn[2] = at[2]
      BY <1>0, <3>1
    <3> QED
      BY <2>1, <3>2, <3>3 DEF LateInv, Late
  <2>3. StartedWhole'
    BY <2>1 DEF StartedWhole
  <2>4. CASE at[2] + 1 < NumConnections
    <3>1. at' = <<at[1], at[2] + 1>> /\ pc' = "poll"
      BY <1>5, <2>1, <2>4 DEF polledReady, afterPolled
    <3>2. at' \in AllConnections /\ at'[1] = at[1] /\ at'[2] = at[2] + 1
      BY <1>0, <2>4, <3>1 DEF AllConnections
    <3>3. TypeOK'
      BY <1>0, <2>1, <3>1, <3>2 DEF TypeOK
    <3> QED
      BY <2>1, <2>2, <2>3, <3>1, <3>2, <3>3 DEF EarlyInv, ConstructInv, LateInv, Early, Late
  <2>5. CASE ~(at[2] + 1 < NumConnections)
    <3>1. at' = at /\ pc' = "start"
      BY <1>5, <2>1, <2>5 DEF polledReady, afterPolled
    <3>2. TypeOK'
      BY <1>0, <2>1, <3>1 DEF TypeOK
    <3>3. \A conn \in AllConnections : conn[2] < at[2] + 1
      BY <1>0, <2>5 DEF AllConnections
    <3> QED
      BY <2>1, <2>2, <2>3, <3>1, <3>2, <3>3 DEF EarlyInv, ConstructInv, LateInv, Early, Late
  <2> QED
    BY <2>4, <2>5
<1>6. CASE polledNotReady \/ pollThrows \/ sleep
  <2>1. /\ pc \in {"poll", "sleep"} /\ pc' \in {"poll", "sleep", "dead"}
        /\ UNCHANGED <<flags, at, attempt, connected, instance, running, failures, seen>>
    BY <1>6 DEF polledNotReady, pollThrows, sleep, Goto
  <2>2. TypeOK'
    BY <2>1 DEF TypeOK
  <2> QED
    BY <2>1, <2>2 DEF EarlyInv, ConstructInv, LateInv, StartedWhole, Early, Late
<1>7. CASE startWorker
  <2>1. /\ pc = "start" /\ running' = running \cup {at[1]}
        /\ UNCHANGED <<flags, attempt, connected, instance, failures, seen>>
    BY <1>7 DEF startWorker
  <2>2. StartedWhole'
    BY <2>1 DEF StartedWhole, LateInv, Late
  <2>3. /\ at' \in AllConnections /\ at'[2] = 0 /\ pc' \in {"flags", "started"}
    <3>1. CASE at[1] + 1 < NumWorkers
      BY <1>0, <1>7, <3>1 DEF startWorker, AllConnections, Workers
    <3>2. CASE ~(at[1] + 1 < NumWorkers)
      BY <1>7, <3>2, FirstConnection DEF startWorker
    <3> QED
      BY <3>1, <3>2
  <2>4. TypeOK'
    BY <1>0, <2>1, <2>3 DEF TypeOK
  <2> QED
    BY <2>1, <2>2, <2>3, <2>4 DEF EarlyInv, ConstructInv, LateInv, Early, Late
<1>9. CASE UNCHANGED vars
  BY <1>9 DEF vars, TypeOK, EarlyInv, ConstructInv, LateInv, StartedWhole
<1> QED
  BY <1>1, <1>2, <1>3, <1>4, <1>5, <1>6, <1>7, <1>9 DEF Next

\* The invariant holds in every reachable state.
LEMMA StartCorrect == Spec => []StartInv
  BY InitStart, NextStart, PTL DEF Spec

\* Type correctness: the main thread is always at a connection that exists,
\* and no lookup is tried more than three times.
THEOREM TypeSafe == Spec => []TypeOK
<1>1. StartInv => TypeOK
  BY DEF StartInv
<1> QED
  BY <1>1, StartCorrect, PTL

\* No worker thread runs before all connections are made and its own were
\* seen ready (StartedWhole), whatever the connections answer before.
THEOREM StartsWhole == Spec => []StartedWhole
<1>1. StartInv => StartedWhole
  BY DEF StartInv
<1> QED
  BY <1>1, StartCorrect, PTL

\* The process gives up on a name only after the same lookup failed three
\* times (GivesUpOnlyAfterThree).
THEOREM GivesUpLate == Spec => GivesUpOnlyAfterThree
<1>1. ASSUME StartInv, [Next]_vars
      PROVE  [(pc = "construct" /\ pc' = "dead") => failures'[at] = kNumberOfAttempts]_vars
  <2> SUFFICES ASSUME pc = "construct", pc' = "dead" PROVE failures'[at] = kNumberOfAttempts
    OBVIOUS
  <2>1. lookUpFails
    BY <1>1 DEF Next, readDynamicFromFile, parseJson, checkAffinity, skip, make_fb303,
                lookUpSucceeds, checkFlags, polledReady, polledNotReady, pollThrows, sleep, startWorker,
                vars, Goto
  <2>2. at \in AllConnections /\ attempt \in 0 .. 3 /\ failures[at] = attempt /\ attempt < 3
        /\ failures \in [AllConnections -> 0 .. 3]
    BY <1>1 DEF StartInv, ConstructInv, TypeOK
  <2>3. attempt + 1 = 3
    BY <2>1, <2>2 DEF lookUpFails
  <2> QED
    BY <2>1, <2>2, <2>3 DEF lookUpFails
<1> QED
  BY <1>1, StartCorrect, PTL DEF Spec, GivesUpOnlyAfterThree

=============================================================================
