------------------------------- MODULE Startup -------------------------------
(***************************************************************************)
(* TreadmillRunner::run up to the start of the scheduler (Treadmill.h),    *)
(* with what it calls: the configuration files and the name lookup         *)
(* (Util.cpp), make_fb303 (TreadmillFB303.cpp), the Worker's constructor   *)
(* and Worker::run (Worker.h).  Treadmill.tla takes over from there.       *)
(*                                                                         *)
(* One thread does all of it; what it meets is not in its hands: files     *)
(* that cannot be read or parsed, lookups that fail, and connections that  *)
(* are asked whether they are ready.  A step is one such encounter.  Any   *)
(* failure ends the process (LOG(FATAL), or an exception nobody catches).  *)
(* External: getaddrinfo, and isReady(), which every service brings along  *)
(* in its specialization of Connection.                                    *)
(***************************************************************************)
EXTENDS Integers, Sequences

CONSTANTS
  NumWorkers, NumConnections,
  Cores,          \* hardware_concurrency()
  Flags,          \* the flags a run may be started with, see FlagSet
  Answers         \* what isReady() of the service's Connection may come to

Workers == 0 .. NumWorkers - 1
AllConnections == Workers \X (0 .. NumConnections - 1)

kNumberOfAttempts == 3

\* affinity is << >> when --cpu_affinity is not given; fb303: --server_port is.
FlagSet ==
  [ config_in_file : BOOLEAN, config_in_json : BOOLEAN, affinity : Seq(Int), fb303 : BOOLEAN,
    counter_name : BOOLEAN, counter_threshold : Int, wait_for_target_ready : BOOLEAN ]

ASSUME StartupAssumption ==
  /\ {NumWorkers, NumConnections} \subseteq Nat \ {0}
  /\ Cores \in Nat
  /\ Flags \subseteq FlagSet
  /\ Answers \subseteq {"ready", "notReady", "throws"}

VARIABLES
  flags,      \* the command line
  pc,         \* position of the main thread
  at,         \* the connection it is at: <<worker, connection>>
  attempt,    \* local of nsLookUp
  connected,  \* connections constructed
  instance,   \* the global TreadmillFB303 exists and is served
  running,    \* workers whose thread runs
  failures,   \* history: lookups that failed for each connection
  seen        \* history: connections that were ready when polled

vars == <<flags, pc, at, attempt, connected, instance, running, failures, seen>>

Init ==
  /\ flags \in Flags
  /\ pc = "file"
  /\ at = <<0, 0>> /\ attempt = 0
  /\ connected = {} /\ running = {} /\ seen = {}
  /\ instance = FALSE
  /\ failures = [conn \in AllConnections |-> 0]

\* The main thread does nothing but go to label.
Goto(label) ==
  pc' = label /\ UNCHANGED <<flags, at, attempt, connected, instance, running,
                            failures, seen>>

\* readDynamicFromFile(): the file is missing, or it does not parse.
readDynamicFromFile == pc = "file" /\ flags.config_in_file /\ (Goto("json") \/ Goto("dead"))

\* parseJson(--config_in_json), merged into the file's configuration.
parseJson == pc = "json" /\ flags.config_in_json /\ (Goto("affinity") \/ Goto("dead"))

\* A flag that is not given.
skip ==
  \/ pc = "file" /\ ~flags.config_in_file /\ Goto("json")
  \/ pc = "json" /\ ~flags.config_in_json /\ Goto("affinity")
  \/ pc = "server" /\ ~flags.fb303 /\ Goto("construct")

\* One existing core for every worker.
validAffinity ==
  \/ flags.affinity = << >>
  \/ /\ Len(flags.affinity) = NumWorkers
     /\ \A n \in DOMAIN flags.affinity : flags.affinity[n] \in 0 .. Cores - 1

checkAffinity == pc = "affinity" /\ Goto(IF validAffinity THEN "server" ELSE "dead")

\* make_fb303(): from here on the control calls are served.  A second
\* instance is refused.
make_fb303 ==
  /\ pc = "server" /\ flags.fb303
  /\ instance' = TRUE
  /\ pc' = IF instance THEN "dead" ELSE "construct"
  /\ UNCHANGED <<flags, at, attempt, connected, running, failures, seen>>

-----------------------------------------------------------------------------
(* initializeWorkers: the connections are made one after the other *)

\* Bug: one connection too many for a worker.
OneTooMany ==
  IF at[2] < NumConnections THEN <<at[1], at[2] + 1>> ELSE <<at[1] + 1, 0>>

\* The worker's next connection, or the next worker's first.
toMakeNext ==
  IF at[2] + 1 < NumConnections THEN <<at[1], at[2] + 1>> ELSE <<at[1] + 1, 0>>

\* Bug: the attempts of earlier lookups count against the next one.
SharedAttempts == attempt

\* int attempt = 0
firstAttempt == 0

\* getaddrinfo() succeeds: nsLookUp returns, and the next one starts.
lookUpSucceeds ==
  /\ pc = "construct"
  /\ connected' = connected \cup {at}
  /\ attempt' = firstAttempt
  /\ IF connected' = AllConnections
       THEN at' = <<0, 0>> /\ pc' = "flags"
       ELSE at' = toMakeNext /\ UNCHANGED pc
  /\ UNCHANGED <<flags, instance, running, failures, seen>>

\* It fails: another attempt, or the end.
lookUpFails ==
  /\ pc = "construct"
  /\ attempt' = attempt + 1
  /\ failures' = [failures EXCEPT ![at] = @ + 1]
  /\ pc' = IF attempt' < kNumberOfAttempts THEN "construct" ELSE "dead"
  /\ UNCHANGED <<flags, at, connected, instance, running, seen>>

-----------------------------------------------------------------------------
(* Worker::run, for one worker after the other *)

\* A counter without --wait_for_target_ready or a threshold is refused.
checkFlags ==
  /\ pc = "flags"
  /\ Goto(IF flags.counter_name /\ (~flags.wait_for_target_ready \/ flags.counter_threshold < 0)
            THEN "dead"
            ELSE IF flags.wait_for_target_ready THEN "poll" ELSE "start")

\* What conn->isReady() may come to.  The memcached and the sleep service's
\* connections are always ready; the sample in the template compares a counter
\* of the target, which moves, and the call for it may throw.
isReady == Answers

\* Bug: only the worker's first connection is polled.
FirstOnly == NumConnections

\* for (auto& conn : connections_)
afterPolled == at[2] + 1

\* while (!conn->isReady()): the connection is ready, the loop goes on to the
\* next one.
polledReady ==
  /\ pc = "poll" /\ "ready" \in isReady
  /\ seen' = seen \cup {at}
  /\ IF afterPolled < NumConnections
       THEN at' = <<at[1], afterPolled>> /\ UNCHANGED pc
       ELSE pc' = "start" /\ UNCHANGED at
  /\ UNCHANGED <<flags, attempt, connected, instance, running, failures>>

\* It is not: sleep(1), and poll again.
polledNotReady == pc = "poll" /\ "notReady" \in isReady /\ Goto("sleep")

\* It throws, and nobody catches it.
pollThrows == pc = "poll" /\ "throws" \in isReady /\ Goto("dead")

sleep == pc = "sleep" /\ Goto("poll")

\* The worker's thread is started; after the last one, the scheduler's.
startWorker ==
  /\ pc = "start"
  /\ running' = running \cup {at[1]}
  /\ IF at[1] + 1 < NumWorkers THEN at' = <<at[1] + 1, 0>> /\ pc' = "flags"
                               ELSE at' = <<0, 0>> /\ pc' = "started"
  /\ UNCHANGED <<flags, attempt, connected, instance, failures, seen>>

Next ==
  \/ readDynamicFromFile \/ parseJson \/ skip \/ checkAffinity \/ make_fb303
  \/ lookUpSucceeds \/ lookUpFails
  \/ checkFlags \/ polledReady \/ polledNotReady \/ pollThrows \/ sleep \/ startWorker

Spec == Init /\ [][Next]_vars

-----------------------------------------------------------------------------
(* Properties *)

TypeOK ==
  /\ flags \in Flags
  /\ pc \in {"file", "json", "affinity", "server", "construct", "flags", "poll", "sleep",
             "start", "started", "dead"}
  /\ at \in AllConnections
  /\ attempt \in 0 .. kNumberOfAttempts
  /\ {connected, seen} \subseteq SUBSET AllConnections
  /\ running \subseteq Workers
  /\ instance \in BOOLEAN
  /\ failures \in [AllConnections -> 0 .. kNumberOfAttempts]

\* No worker thread runs before every connection of every worker is made and,
\* if the target is waited for, before its own connections were all ready
\* once; so the scheduler, which starts last, finds them all so.
StartedWhole ==
  \A w \in running :
    /\ connected = AllConnections
    /\ flags.wait_for_target_ready =>
         \A conn \in AllConnections : conn[1] = w => conn \in seen

\* The process gives up on a name only when the same lookup failed three
\* times, however many other lookups had to be repeated before ("The number
\* of attempts to get host information", Util.cpp:29).
GivesUpOnlyAfterThree ==
  [][(pc = "construct" /\ pc' = "dead") => failures'[at] = kNumberOfAttempts]_vars

=============================================================================
