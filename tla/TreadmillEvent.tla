--------------------------- MODULE TreadmillEvent ---------------------------
(***************************************************************************)
(* The messages the scheduler puts on the workers' queues (Event.h).       *)
(***************************************************************************)
EXTENDS Integers, Sequences

CONSTANTS
  Phases,   \* phase names
  Limits,   \* values passed to setMaxOutstandingRequests
  NoData    \* the nullptr extra data of an Event

\* Event(event_type, extra_data)
Event(type, data) == [type |-> type, data |-> data]

\* Every event the scheduler builds: the extra data of SET_PHASE is a string
\* and that of SET_MAX_OUTSTANDING an integer, so the workers' type checks on
\* the extra data succeed.
Events ==
  [type : {"STOP", "RESET", "SEND_REQUEST"}, data : {NoData}]
    \cup [type : {"SET_PHASE"}, data : Phases]
    \cup [type : {"SET_MAX_OUTSTANDING"}, data : Limits]

\* The requests put on queue q since its last RESET.
SinceReset(q) ==
  {i \in DOMAIN q : /\ q[i].type = "SEND_REQUEST"
                    /\ \A j \in i .. Len(q) : q[j].type # "RESET"}
=============================================================================
