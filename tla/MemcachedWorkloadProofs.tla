---------------------- MODULE MemcachedWorkloadProofs ----------------------
(***************************************************************************)
(* Theorems about MemcachedWorkload, for any number of keys and            *)
(* connections, any limit on the requests in flight and any resets.        *)
(***************************************************************************)
EXTENDS MemcachedWorkload, TLAPS

SetOf(key) == [which |-> "SET", key |-> key]

\* A key whose SET was answered, in one way or the other, or is on its way.
Covered(key) ==
  \/ key \in stored \cup lost
  \/ \E d \in Connections : \E n \in DOMAIN sent[d] : sent[d][n] = SetOf(key)

\* The warm-up has covered the keys before index_, and in the end all of them:
\* a reset rewinds index_, and so only adds SETs that come a second time.
WarmInv ==
  /\ state_ = "WARMUP" => index_ < NumKeys
  /\ \A key \in Keys : state_ = "GET" \/ key < index_ => Covered(key)

\* Every SET is issued before any GET, so on one connection none is behind one.
OrderInv ==
  \A c \in Connections :
    /\ state_ = "WARMUP" => \A n \in DOMAIN sent[c] : sent[c][n].which = "SET"
    /\ \A m, n \in DOMAIN sent[c] :
         m <= n /\ sent[c][n].which = "SET" => sent[c][m].which = "SET"

MemcachedInv == TypeOK /\ WarmInv /\ OrderInv

-----------------------------------------------------------------------------
(* Sequences of requests *)

\* The requests of a connection after one more.
LEMMA Appended ==
  ASSUME NEW s \in Seq(MemcachedRequest), NEW r \in MemcachedRequest
  PROVE  /\ Append(s, r) \in Seq(MemcachedRequest)
         /\ DOMAIN Append(s, r) = 1 .. Len(s) + 1
         /\ DOMAIN s = 1 .. Len(s) /\ Len(s) \in Nat
         /\ \A n \in 1 .. Len(s) : Append(s, r)[n] = s[n]
         /\ Append(s, r)[Len(s) + 1] = r
  OBVIOUS

\* The requests of a connection after the first is answered.
LEMMA Answered ==
  ASSUME NEW s \in Seq(MemcachedRequest), s # << >>
  PROVE  /\ Head(s) \in MemcachedRequest /\ Head(s) = s[1]
         /\ Tail(s) \in Seq(MemcachedRequest)
         /\ DOMAIN s = 1 .. Len(s) /\ Len(s) \in Nat \ {0}
         /\ DOMAIN Tail(s) = 1 .. Len(s) - 1
         /\ \A n \in 1 .. Len(s) - 1 : Tail(s)[n] = s[n + 1]
  OBVIOUS

\* The draw: the key is one, and the request is one.
LEMMA Drawn ==
  ASSUME TypeOK
  PROVE  /\ nextKey \in Keys /\ nextKey + 1 \in 0 .. NumKeys
         /\ \A x \in {"SET", "GET"} : [which |-> x, key |-> nextKey] \in MemcachedRequest
  BY MemcachedAssumption DEF TypeOK, nextKey, Keys, MemcachedRequest

-----------------------------------------------------------------------------
(* Type correctness *)

\* The type invariant of the memcached service is inductive.
LEMMA TypeInductive ==
  /\ Init => TypeOK
  /\ TypeOK /\ [Next]_vars => TypeOK'
<1> USE MemcachedAssumption
<1>1. ASSUME Init PROVE TypeOK
  <2>1. 0 \in 0 .. NumKeys /\ 0 \in Connections /\ 0 \in 0 .. MaxResets
    BY DEF Connections
  <2>2. sent \in [Connections -> Seq(MemcachedRequest)]
    BY <1>1 DEF Init
  <2> QED
    BY <1>1, <2>1, <2>2 DEF Init, TypeOK
<1>2. ASSUME TypeOK, UNCHANGED vars PROVE TypeOK'
  BY <1>2 DEF TypeOK, vars
<1>3. ASSUME TypeOK, reset PROVE TypeOK'
  BY <1>3 DEF TypeOK, reset
<1>4. ASSUME TypeOK, getNextRequest PROVE TypeOK'
  <2>1. (conn_idx_ + 1) % NumConnections \in Connections
    BY <1>4 DEF TypeOK, Connections
  <2>2. PICK r \in MemcachedRequest :
          sent' = [sent EXCEPT ![conn_idx_] = Append(sent[conn_idx_], r)]
    BY <1>4, Drawn DEF getNextRequest
  <2>3. sent' \in [Connections -> Seq(MemcachedRequest)]
    BY <1>4, <2>2 DEF TypeOK
  <2>4. index_' \in 0 .. NumKeys
    BY <1>4, Drawn DEF getNextRequest
  <2>5. state_' \in {"WARMUP", "GET"}
    BY <1>4 DEF getNextRequest, TypeOK
  <2> QED
    BY <1>4, <2>1, <2>3, <2>4, <2>5 DEF TypeOK, getNextRequest
<1>5. ASSUME TypeOK, NEW c \in Connections, NEW ok \in BOOLEAN, answer(c, ok) PROVE TypeOK'
  <2>1. sent[c] \in Seq(MemcachedRequest) /\ sent[c] # << >>
    BY <1>5 DEF TypeOK, answer
  <2>2. sent' = [sent EXCEPT ![c] = Tail(sent[c])]
    BY <1>5 DEF answer
  <2>3. sent' \in [Connections -> Seq(MemcachedRequest)]
    BY <1>5, <2>1, <2>2 DEF TypeOK
  <2>4. Head(sent[c]).key \in Keys
    BY <2>1, Answered DEF MemcachedRequest
  <2>5. stored' \subseteq Keys /\ lost' \subseteq Keys
    BY <1>5, <2>4 DEF TypeOK, answer
  <2> QED
    BY <1>5, <2>3, <2>5 DEF TypeOK, answer
<1> QED
  BY <1>1, <1>2, <1>3, <1>4, <1>5 DEF Next

\* Every variable of the memcached service keeps its type; index_ never passes
\* the number of keys.
THEOREM TypeSafe == Spec => []TypeOK
  BY TypeInductive, PTL DEF Spec

-----------------------------------------------------------------------------
(* Every key is covered, in order *)

\* A key that is covered stays so when a request is drawn.
LEMMA CoveredByDraw ==
  ASSUME TypeOK, getNextRequest, NEW key \in Keys, Covered(key)
  PROVE  Covered(key)'
<1>1. PICK r \in MemcachedRequest :
        sent' = [sent EXCEPT ![conn_idx_] = Append(sent[conn_idx_], r)]
  BY Drawn DEF getNextRequest
<1>2. sent \in [Connections -> Seq(MemcachedRequest)] /\ UNCHANGED <<stored, lost>>
  BY DEF TypeOK, getNextRequest
<1>3. CASE key \in stored \cup lost
  BY <1>2, <1>3 DEF Covered
<1>4. ASSUME NEW d \in Connections, NEW n \in DOMAIN sent[d], sent[d][n] = SetOf(key)
      PROVE  Covered(key)'
  <2>1. n \in DOMAIN sent'[d] /\ sent'[d][n] = sent[d][n]
    BY <1>1, <1>2, <1>4, Appended
  <2> QED
    BY <1>4, <2>1 DEF Covered
<1> QED
  BY <1>3, <1>4 DEF Covered

\* A key that is covered stays so when a request is answered.
LEMMA CoveredByAnswer ==
  ASSUME TypeOK, NEW c \in Connections, NEW ok \in BOOLEAN, answer(c, ok),
         NEW key \in Keys, Covered(key)
  PROVE  Covered(key)'
<1>1. /\ sent \in [Connections -> Seq(MemcachedRequest)] /\ sent[c] # << >>
      /\ sent' = [sent EXCEPT ![c] = Tail(sent[c])]
  BY DEF TypeOK, answer
<1>2. stored \subseteq stored' /\ lost \subseteq lost'
  BY DEF answer
<1>3. CASE key \in stored \cup lost
  BY <1>2, <1>3 DEF Covered
<1>4. ASSUME NEW d \in Connections, NEW n \in DOMAIN sent[d], sent[d][n] = SetOf(key)
      PROVE  Covered(key)'
  <2>1. CASE d = c /\ n = 1
    <3>1. Head(sent[c]) = SetOf(key)
      BY <1>1, <1>4, <2>1, Answered
    <3>2. Head(sent[c]).which = "SET" /\ Head(sent[c]).key = key
      BY <3>1 DEF SetOf
    <3>3. key \in stored' \cup lost'
      BY <3>2 DEF answer
    <3> QED
      BY <3>3 DEF Covered
  <2>2. CASE d = c /\ n # 1
    <3>1. n - 1 \in DOMAIN sent'[d] /\ sent'[d][n - 1] = sent[d][n]
      BY <1>1, <1>4, <2>2, Answered
    <3> QED
      BY <1>4, <3>1 DEF Covered
  <2>3. CASE d # c
    BY <1>1, <1>4, <2>3 DEF Covered
  <2> QED
    BY <2>1, <2>2, <2>3
<1> QED
  BY <1>3, <1>4 DEF Covered

\* The draw of a request covers its key during the warm-up, and the warm-up
\* ends with the last key.
LEMMA WarmDraw ==
  ASSUME TypeOK, WarmInv, getNextRequest
  PROVE  WarmInv'
<1> USE MemcachedAssumption
<1>1. /\ index_' = nextKey + 1 /\ UNCHANGED <<stored, lost>>
      /\ state_' = IF state_ = "WARMUP" /\ nextKey = NumKeys - 1 THEN "GET" ELSE state_
  BY DEF getNextRequest, warmupComplete
<1>2. state_ \in {"WARMUP", "GET"} /\ index_ \in 0 .. NumKeys /\ conn_idx_ \in Connections
      /\ sent \in [Connections -> Seq(MemcachedRequest)]
  BY DEF TypeOK
<1>3. CASE state_ = "GET"
  BY <1>1, <1>3, CoveredByDraw DEF WarmInv
<1>4. CASE state_ = "WARMUP"
  <2>1. index_ < NumKeys /\ nextKey = index_
    BY <1>2, <1>4 DEF WarmInv, nextKey
  <2>2. sent' = [sent EXCEPT ![conn_idx_] = Append(sent[conn_idx_], SetOf(index_))]
    BY <1>4, <2>1 DEF getNextRequest, SetOf
  <2>3. SetOf(index_) \in MemcachedRequest
    BY <1>2, <2>1, Drawn DEF SetOf
  <2>4. Len(sent[conn_idx_]) + 1 \in DOMAIN sent'[conn_idx_]
        /\ sent'[conn_idx_][Len(sent[conn_idx_]) + 1] = SetOf(index_)
    BY <1>2, <2>2, <2>3, Appended
  <2>5. \E d \in Connections : \E n \in DOMAIN sent'[d] : sent'[d][n] = SetOf(index_)
    BY <1>2, <2>4
  <2>6. ASSUME NEW key \in Keys, state_' = "GET" \/ key < index_' PROVE Covered(key)'
    <3>1. key <= index_
      BY <1>1, <1>2, <1>4, <2>1, <2>6 DEF Keys
    <3>2. CASE key = index_
      <4>1. \E d \in Connections : \E n \in DOMAIN sent'[d] : sent'[d][n] = SetOf(key)
        BY <2>5, <3>2
      <4> QED
        BY <4>1 DEF Covered
    <3>3. CASE key < index_
      BY <3>3, CoveredByDraw DEF WarmInv
    <3> QED
      BY <1>2, <3>1, <3>2, <3>3 DEF Keys
  <2>7. state_' = "WARMUP" => index_' < NumKeys
    BY <1>1, <1>2, <1>4, <2>1
  <2> QED
    BY <2>6, <2>7 DEF WarmInv
<1> QED
  BY <1>2, <1>3, <1>4

\* The order of the requests on a connection is kept by a draw.
LEMMA OrderDraw ==
  ASSUME TypeOK, OrderInv, getNextRequest
  PROVE  OrderInv'
<1>1. state_ \in {"WARMUP", "GET"} /\ conn_idx_ \in Connections
      /\ sent \in [Connections -> Seq(MemcachedRequest)]
  BY DEF TypeOK
<1>2. PICK r \in MemcachedRequest :
        /\ sent' = [sent EXCEPT ![conn_idx_] = Append(sent[conn_idx_], r)]
        /\ r.which = "SET" <=> state_ = "WARMUP"
  <2>1. [which |-> IF state_ = "WARMUP" THEN "SET" ELSE "GET", key |-> nextKey]
          \in MemcachedRequest
    BY Drawn
  <2> QED
    BY <2>1 DEF getNextRequest
<1>3. state_' = "WARMUP" => state_ = "WARMUP"
  BY <1>1 DEF getNextRequest
<1>4. ASSUME NEW c \in Connections
      PROVE  /\ state_' = "WARMUP" => \A n \in DOMAIN sent'[c] : sent'[c][n].which = "SET"
             /\ \A m, n \in DOMAIN sent'[c] :
                  m <= n /\ sent'[c][n].which = "SET" => sent'[c][m].which = "SET"
  <2>1. CASE c # conn_idx_
    <3>1. sent'[c] = sent[c]
      BY <1>1, <1>2, <2>1
    <3> QED
      BY <1>3, <3>1 DEF OrderInv
  <2>2. CASE c = conn_idx_
    <3>1. sent'[c] = Append(sent[c], r)
      BY <1>1, <1>2, <2>2
    <3>2. /\ DOMAIN sent'[c] = 1 .. Len(sent[c]) + 1
          /\ DOMAIN sent[c] = 1 .. Len(sent[c]) /\ Len(sent[c]) \in Nat
          /\ \A n \in 1 .. Len(sent[c]) : sent'[c][n] = sent[c][n]
          /\ sent'[c][Len(sent[c]) + 1] = r
      BY <1>1, <1>2, <3>1, Appended
    <3>3. ASSUME state_ = "WARMUP", NEW n \in DOMAIN sent'[c] PROVE sent'[c][n].which = "SET"
      BY <1>2, <3>2, <3>3 DEF OrderInv
    <3>4. ASSUME NEW m \in DOMAIN sent'[c], NEW n \in DOMAIN sent'[c],
                 m <= n, sent'[c][n].which = "SET"
          PROVE  sent'[c][m].which = "SET"
      <4>1. CASE n = Len(sent[c]) + 1
        <5>1. state_ = "WARMUP"
          BY <1>2, <3>2, <3>4, <4>1
        <5> QED
          BY <3>3, <3>4, <5>1
      <4>2. CASE n # Len(sent[c]) + 1
        <5>1. m \in DOMAIN sent[c] /\ n \in DOMAIN sent[c]
              /\ sent'[c][m] = sent[c][m] /\ sent'[c][n] = sent[c][n]
          BY <3>2, <3>4, <4>2
        <5> QED
          BY <3>4, <5>1 DEF OrderInv
      <4> QED
        BY <4>1, <4>2
    <3> QED
      BY <1>3, <3>3, <3>4
  <2> QED
    BY <2>1, <2>2
<1> QED
  BY <1>4 DEF OrderInv

\* The order of the requests on a connection is kept by an answer.
LEMMA OrderAnswer ==
  ASSUME TypeOK, OrderInv, NEW c \in Connections, NEW ok \in BOOLEAN, answer(c, ok)
  PROVE  OrderInv'
<1>1. /\ sent \in [Connections -> Seq(MemcachedRequest)] /\ sent[c] # << >>
      /\ sent' = [sent EXCEPT ![c] = Tail(sent[c])] /\ state_' = state_
  BY DEF TypeOK, answer
<1>2. ASSUME NEW d \in Connections
      PROVE  /\ state_' = "WARMUP" => \A n \in DOMAIN sent'[d] : sent'[d][n].which = "SET"
             /\ \A m, n \in DOMAIN sent'[d] :
                  m <= n /\ sent'[d][n].which = "SET" => sent'[d][m].which = "SET"
  <2>1. CASE d # c
    BY <1>1, <2>1 DEF OrderInv
  <2>2. CASE d = c
    <3>1. sent'[d] = Tail(sent[d])
      BY <1>1, <2>2
    <3>2. \A n \in DOMAIN sent'[d] :
            n \in Int /\ n + 1 \in DOMAIN sent[d] /\ sent'[d][n] = sent[d][n + 1]
      BY <1>1, <2>2, <3>1, Answered
    <3>3. \A m, n \in Int : m <= n => m + 1 <= n + 1
      OBVIOUS
    <3> QED
      BY <1>1, <3>2, <3>3 DEF OrderInv
  <2> QED
    BY <2>1, <2>2
<1> QED
  BY <1>2 DEF OrderInv

\* All of it is inductive.
LEMMA MemcachedInductive ==
  /\ Init => MemcachedInv
  /\ MemcachedInv /\ [Next]_vars => MemcachedInv'
<1> USE MemcachedAssumption
<1>1. ASSUME Init PROVE WarmInv /\ OrderInv
  <2>1. WarmInv
    BY <1>1 DEF Init, WarmInv, Keys
  <2>2. \A c \in Connections : DOMAIN sent[c] = {}
    BY <1>1 DEF Init
  <2> QED
    BY <2>1, <2>2 DEF OrderInv
<1>2. ASSUME WarmInv, OrderInv, UNCHANGED vars PROVE WarmInv' /\ OrderInv'
  BY <1>2 DEF WarmInv, OrderInv, Covered, vars
<1>3. ASSUME WarmInv, OrderInv, reset PROVE WarmInv' /\ OrderInv'
  <2>1. index_' = 0 /\ UNCHANGED <<state_, sent, stored, lost>>
    BY <1>3 DEF reset
  <2>2. \A key \in Keys : ~(key < 0)
    BY DEF Keys
  <2>3. WarmInv'
    BY <1>3, <2>1, <2>2 DEF WarmInv, Covered
  <2>4. OrderInv'
    BY <1>3, <2>1 DEF OrderInv
  <2> QED
    BY <2>3, <2>4
<1>4. ASSUME TypeOK, WarmInv, NEW c \in Connections, NEW ok \in BOOLEAN, answer(c, ok)
      PROVE  WarmInv'
  <2>1. UNCHANGED <<state_, index_>>
    BY <1>4 DEF answer
  <2> QED
    BY <1>4, <2>1, CoveredByAnswer DEF WarmInv
<1> QED
  BY <1>1, <1>2, <1>3, <1>4, TypeInductive, WarmDraw, OrderDraw, OrderAnswer
  DEF MemcachedInv, Next

\* A GET only misses a key whose SET failed, or was issued before the GET on
\* another connection and overtaken, whatever resets came during the warm-up.
THEOREM MissIsExplained == Spec => []MissExplained
<1>1. ASSUME MemcachedInv, NEW c \in Connections, sent[c] # << >>,
             Head(sent[c]).which = "GET", Head(sent[c]).key \notin stored
      PROVE  \/ Head(sent[c]).key \in lost
             \/ \E d \in Connections \ {c} : \E n \in DOMAIN sent[d] :
                  sent[d][n] = [which |-> "SET", key |-> Head(sent[c]).key]
  <2> DEFINE key == Head(sent[c]).key
  <2>1. state_ \in {"WARMUP", "GET"} /\ sent[c] \in Seq(MemcachedRequest)
    BY <1>1 DEF MemcachedInv, TypeOK
  <2>2. Head(sent[c]) = sent[c][1] /\ 1 \in DOMAIN sent[c] /\ key \in Keys
        /\ \A n \in DOMAIN sent[c] : 1 <= n
    <3>1. /\ Head(sent[c]) \in MemcachedRequest /\ Head(sent[c]) = sent[c][1]
          /\ DOMAIN sent[c] = 1 .. Len(sent[c]) /\ Len(sent[c]) \in Nat \ {0}
      BY <1>1, <2>1, Answered
    <3>2. \A r \in MemcachedRequest : r.key \in Keys
      BY DEF MemcachedRequest
    <3> QED
      BY <3>1, <3>2
  <2>3. \A n \in DOMAIN sent[c] : sent[c][n].which # "SET"
    BY <1>1, <2>2 DEF MemcachedInv, OrderInv
  <2>4. state_ = "GET"
    BY <1>1, <2>1, <2>2, <2>3 DEF MemcachedInv, OrderInv
  <2>5. Covered(key)
    BY <1>1, <2>2, <2>4 DEF MemcachedInv, WarmInv
  <2>6. \A d \in Connections : \A n \in DOMAIN sent[d] : sent[d][n] = SetOf(key) => d # c
    BY <2>3 DEF SetOf
  <2> QED
    BY <1>1, <2>5, <2>6 DEF Covered, SetOf
<1>2. MemcachedInv => MissExplained
  BY <1>1 DEF MissExplained
<1> QED
  BY <1>2, MemcachedInductive, PTL DEF Spec

=============================================================================
