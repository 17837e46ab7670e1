---------------------------- MODULE RequestStream ----------------------------
(***************************************************************************)
(* What the scheduler promises its workers, in terms of their queues alone *)
(* (the comment on Scheduler::loop, Scheduler.cpp:149).  The stream is a   *)
(* sequence of runs.  A run begins with a RESET to every worker in turn,   *)
(* goes on with requests that are dealt to the workers in turn, and ends   *)
(* at any point; the stream ends with a STOP to every worker in turn.      *)
(* Control messages may be put anywhere, also behind STOP.                 *)
(*                                                                         *)
(* There is no scheduler thread here, no state_, next_, rate or promise:   *)
(* Scheduler.tla is shown to implement this specification.                 *)
(***************************************************************************)
EXTENDS TreadmillEvent, Integers, Sequences, FiniteSets

CONSTANT NumWorkers

VARIABLE queues   \* the messages put on each worker's queue so far

Workers == 0 .. NumWorkers - 1

\* Runs begun on w's queue, requests of the current run, and the end.
Runs(w) == Cardinality({n \in DOMAIN queues[w] : queues[w][n].type = "RESET"})
Dealt(w) == Cardinality(SinceReset(queues[w]))
Closed(w) == \E n \in DOMAIN queues[w] : queues[w][n].type = "STOP"

Put(w, e) == queues' = [queues EXCEPT ![w] = Append(@, e)]

\* Every worker is in the same run and nobody has been sent STOP.
InRun ==
  \A u, v \in Workers : Runs(u) = Runs(v) /\ Runs(u) > 0 /\ ~Closed(u)

Init == queues = [w \in Workers |-> << >>]

\* w's turn in the RESET that begins a run.
Reset(w) ==
  /\ Put(w, Event("RESET", NoData))
  /\ \A v \in Workers : ~Closed(v) /\ Runs(v) = IF v < w THEN Runs(w) + 1 ELSE Runs(w)

\* w's turn to be dealt a request.
Request(w) ==
  /\ Put(w, Event("SEND_REQUEST", NoData))
  /\ InRun
  /\ \A v \in Workers : Dealt(v) = IF v < w THEN Dealt(w) + 1 ELSE Dealt(w)

\* w's turn in the STOP that ends the stream.
Stop(w) ==
  /\ Put(w, Event("STOP", NoData))
  /\ \A v \in Workers : Runs(v) = Runs(w) /\ Runs(w) > 0 /\ (Closed(v) <=> v < w)

Control(w) ==
  \E e \in Events : e.type \in {"SET_PHASE", "SET_MAX_OUTSTANDING"} /\ Put(w, e)

Next == \E w \in Workers : Reset(w) \/ Request(w) \/ Stop(w) \/ Control(w)

Spec == Init /\ [][Next]_queues

=============================================================================
