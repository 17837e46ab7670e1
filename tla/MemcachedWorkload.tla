------------------------- MODULE MemcachedWorkload -------------------------
(***************************************************************************)
(* The memcached service of one worker (services/memcached/Workload.h,     *)
(* Connection.h, Request.h).  The workload first sets every key (WARMUP),  *)
(* then gets the keys in a cycle (GET); reset() rewinds the cycle but not  *)
(* the state.  The worker hands the requests to its connections in turn;   *)
(* each connection keeps the order of its own requests, and reports every  *)
(* request as answered, whatever the server said.                          *)
(*                                                                         *)
(* Keys are their indices.  The server is external: a set of stored keys.  *)
(***************************************************************************)
EXTENDS Integers, Sequences, FiniteSets

CONSTANTS
  NumKeys,         \* FLAGS_number_of_keys
  NumConnections,  \* FLAGS_number_of_connections
  MaxInFlight,     \* the worker's limit on outstanding requests
  MaxResets        \* bound: RESET messages

Keys == 0 .. NumKeys - 1
Connections == 0 .. NumConnections - 1

ASSUME MemcachedAssumption ==
  /\ NumKeys \in Nat \ {0} /\ NumConnections \in Nat \ {0} /\ MaxInFlight \in Nat \ {0}
  /\ MaxResets \in Nat

VARIABLES
  state_,     \* WARMUP or GET
  index_,     \* next key, NumKeys when the cycle is to wrap
  conn_idx_,  \* the worker's next connection
  sent,       \* requests each connection has not had answered, in order
  stored,     \* external: keys the server holds
  lost,       \* history: keys of which a SET failed
  resets

vars == <<state_, index_, conn_idx_, sent, stored, lost, resets>>

MemcachedRequest == [which : {"SET", "GET"}, key : Keys]

InFlight == UNION {{c} \X DOMAIN sent[c] : c \in Connections}

-----------------------------------------------------------------------------

Init ==
  /\ state_ = "WARMUP"
  /\ index_ = 0
  /\ conn_idx_ = 0
  /\ sent = [c \in Connections |-> << >>]
  /\ stored = {} /\ lost = {}
  /\ resets = 0

\* reset(): the warm-up goes on, from the first key.
reset ==
  /\ resets < MaxResets
  /\ resets' = resets + 1
  /\ index_' = 0
  /\ UNCHANGED <<state_, conn_idx_, sent, stored, lost>>

\* Bug: the cycle wraps one key too late.
WrapsLate == IF index_ = NumKeys + 1 THEN 0 ELSE index_

\* The key of the next request: the index wraps before it is used.
nextKey == IF index_ = NumKeys THEN 0 ELSE index_

\* Bug: the warm-up is taken as complete one key early.
CompletesEarly(key) == key >= NumKeys - 2

\* Bug: the last key is taken to be NumKeys.
NeverCompletes(key) == key = NumKeys

\* The warm-up is complete when the last key has been drawn.
warmupComplete(key) == key = NumKeys - 1

\* getNextRequest(), and sendRequest() on the next connection.
getNextRequest ==
  LET key == nextKey
      request == [which |-> IF state_ = "WARMUP" THEN "SET" ELSE "GET", key |-> key]
  IN
  /\ Cardinality(InFlight) < MaxInFlight
  /\ state_' = IF state_ = "WARMUP" /\ warmupComplete(key) THEN "GET" ELSE state_
  /\ index_' = key + 1
  /\ sent' = [sent EXCEPT ![conn_idx_] = Append(@, request)]
  /\ conn_idx_' = (conn_idx_ + 1) % NumConnections
  /\ UNCHANGED <<stored, lost, resets>>

\* The server answers the first request of a connection; sendSync's result is
\* not looked at, so a SET that failed counts as answered.
answer(c, ok) ==
  LET request == Head(sent[c]) IN
  /\ sent[c] # << >>
  /\ sent' = [sent EXCEPT ![c] = Tail(@)]
  /\ \/ /\ request.which = "SET" /\ ok
        /\ stored' = stored \cup {request.key}
        /\ UNCHANGED lost
     \/ /\ request.which = "SET" /\ ~ok
        /\ lost' = lost \cup {request.key}
        /\ UNCHANGED stored
     \/ /\ request.which = "GET"
        /\ UNCHANGED <<stored, lost>>
  /\ UNCHANGED <<state_, index_, conn_idx_, resets>>

Next ==
  \/ reset
  \/ getNextRequest
  \/ \E c \in Connections, ok \in BOOLEAN : answer(c, ok)

\* Requests keep coming and are answered; resets need not come.
Fairness ==
  /\ WF_vars(getNextRequest)
  /\ \A c \in Connections : WF_vars(\E ok \in BOOLEAN : answer(c, ok))

Spec == Init /\ [][Next]_vars /\ Fairness

-----------------------------------------------------------------------------
(* Properties *)

TypeOK ==
  /\ state_ \in {"WARMUP", "GET"}
  /\ index_ \in 0 .. NumKeys
  /\ conn_idx_ \in Connections
  /\ sent \in [Connections -> Seq(MemcachedRequest)]
  /\ stored \subseteq Keys /\ lost \subseteq Keys
  /\ resets \in 0 .. MaxResets

\* A GET only misses a key whose SET failed or was overtaken: it was issued
\* before the GET, on another connection.  So the measured part of the run is
\* warm up to overtaking, whatever resets came during the warm-up.
MissExplained ==
  \A c \in Connections :
    (sent[c] # << >> /\ Head(sent[c]).which = "GET" /\ Head(sent[c]).key \notin stored)
      => \/ Head(sent[c]).key \in lost
         \/ \E d \in Connections \ {c} : \E n \in DOMAIN sent[d] :
              sent[d][n] = [which |-> "SET", key |-> Head(sent[c]).key]

\* The warm-up ends although resets rewind it, once they stop coming.
WarmupEnds == <>[](state_ = "GET")

=============================================================================
