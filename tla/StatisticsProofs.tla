-------------------------- MODULE StatisticsProofs --------------------------
(***************************************************************************)
(* Theorems about Statistics, for any number of workers, any classes of    *)
(* exceptions, any amounts and any number of additions.                    *)
(***************************************************************************)
EXTENDS Statistics, FiniteSetTheorems, TLAPS

-----------------------------------------------------------------------------
(* What print() shows, and in which order *)

\* printStatistic lists the total first, and then every subkey once.
LEMMA PrintOrder ==
  /\ printStatistic \in Seq(Subkeys \cup {"count"})
  /\ Len(printStatistic) \in Nat /\ Len(printStatistic) > 1
  /\ printStatistic[1] = "count"
  /\ \A i \in 2 .. Len(printStatistic) : printStatistic[i] \in Subkeys
  /\ \A k \in Subkeys : \E i \in 2 .. Len(printStatistic) :
       printStatistic[i] = k /\ \A j \in 2 .. Len(printStatistic) : printStatistic[j] = k => j = i
<1> DEFINE n == Cardinality(Subkeys)
           s == SetToSeq(Subkeys)
<1>1. n \in Nat /\ n > 0 /\ ExistsBijection(1 .. n, Subkeys)
  BY StatisticsAssumption, FS_CardinalityType, FS_EmptySet
<1> HIDE DEF n
<1>2. \E f \in [1 .. n -> Subkeys] : IsInjective(f)
  BY <1>1 DEF ExistsBijection, Bijection, Injection
<1>3. s \in [1 .. n -> Subkeys] /\ IsInjective(s)
  BY <1>2 DEF SetToSeq, n
<1> HIDE DEF s
<1>4. s \in Surjection(1 .. n, Subkeys)
  <2>1. IsFiniteSet(1 .. n) /\ Cardinality(1 .. n) = n
    BY <1>1, FS_Interval
  <2>2. s \in Injection(1 .. n, Subkeys)
    BY <1>3 DEF Injection
  <2> QED
    BY <2>1, <2>2, StatisticsAssumption, FS_Injection DEF n
<1>5. s \in Seq(Subkeys) /\ Len(s) = n
  BY <1>1, <1>3
<1>6. printStatistic = <<"count">> \o s
  BY DEF printStatistic, s
<1>7. /\ printStatistic \in Seq(Subkeys \cup {"count"})
      /\ Len(printStatistic) = n + 1
      /\ printStatistic[1] = "count"
      /\ \A i \in 2 .. n + 1 : printStatistic[i] = s[i - 1]
  <2>1. <<"count">> \in Seq(Subkeys \cup {"count"}) /\ s \in Seq(Subkeys \cup {"count"})
    BY <1>1, <1>3, <1>5
  <2> QED
    BY <1>1, <1>5, <1>6, <2>1
<1>8. \A i \in 2 .. n + 1 : printStatistic[i] \in Subkeys
  BY <1>1, <1>3, <1>7
<1>9. ASSUME NEW k \in Subkeys
      PROVE  \E i \in 2 .. n + 1 :
               printStatistic[i] = k /\ \A j \in 2 .. n + 1 : printStatistic[j] = k => j = i
  <2>1. PICK m \in 1 .. n : s[m] = k
    BY <1>4 DEF Surjection
  <2>2. \A j \in 2 .. n + 1 : printStatistic[j] = k => j - 1 = m
    BY <1>1, <1>3, <1>7, <2>1 DEF IsInjective
  <2>3. m + 1 \in 2 .. n + 1 /\ printStatistic[m + 1] = k
    BY <1>1, <1>7, <2>1
  <2> QED
    BY <1>1, <2>2, <2>3
<1> QED
  BY <1>1, <1>7, <1>8, <1>9

-----------------------------------------------------------------------------
(* Sums *)

\* The elements of Units.
LEMMA UnitsMembers ==
  ASSUME NEW counts \in [Subkeys -> Nat], NEW p
  PROVE  p \in Units(counts) <=>
           \E k \in Subkeys, j \in Nat : p = <<k, j>> /\ 1 <= j /\ j <= counts[k]
  BY DEF Units

\* n more of one subkey are n units more.
LEMMA UnitsPlus ==
  ASSUME NEW counts \in [Subkeys -> Nat], NEW k \in Subkeys, NEW n \in Nat,
         IsFiniteSet(Units(counts))
  PROVE  /\ plus(counts, k, n) \in [Subkeys -> Nat]
         /\ IsFiniteSet(Units(plus(counts, k, n)))
         /\ Cardinality(Units(plus(counts, k, n))) = Cardinality(Units(counts)) + n
<1> DEFINE more == plus(counts, k, n)
           lo == counts[k] + 1
           hi == counts[k] + n
           new == {k} \X (lo .. hi)
<1>1. /\ more \in [Subkeys -> Nat] /\ more[k] = counts[k] + n
      /\ \A l \in Subkeys : l # k => more[l] = counts[l]
  BY DEF plus
<1>2. counts[k] \in Nat /\ lo \in Nat /\ hi \in Nat
  OBVIOUS
<1>3. IsFiniteSet(new) /\ Cardinality(new) = n
  <2>1. IsFiniteSet(lo .. hi) /\ Cardinality(lo .. hi) = n
    <3>1. lo \in Int /\ hi \in Int /\ (lo > hi <=> n = 0) /\ hi - lo + 1 = n
      BY <1>2
    <3> HIDE DEF lo, hi
    <3>2. IsFiniteSet(lo .. hi) /\ Cardinality(lo .. hi) = IF lo > hi THEN 0 ELSE hi - lo + 1
      BY <3>1, FS_Interval
    <3> QED
      BY <3>1, <3>2
  <2>2. IsFiniteSet({k}) /\ Cardinality({k}) = 1
    BY FS_Singleton
  <2>3. IsFiniteSet(new) /\ Cardinality(new) = 1 * n
    BY <2>1, <2>2, FS_Product
  <2> QED
    BY <2>3
<1> HIDE DEF more
<1>4. ASSUME NEW p PROVE p \in Units(more) <=> p \in Units(counts) \cup new
  <2>1. ASSUME p \in Units(more) PROVE p \in Units(counts) \cup new
    <3>1. PICK l \in Subkeys, j \in Nat : p = <<l, j>> /\ 1 <= j /\ j <= more[l]
      BY <1>1, <2>1, UnitsMembers
    <3>2. CASE l = k /\ j > counts[k]
      BY <1>1, <1>2, <3>1, <3>2
    <3>3. CASE ~(l = k /\ j > counts[k])
      <4>1. j <= counts[l]
        BY <1>1, <1>2, <3>1, <3>3
      <4> QED
        BY <3>1, <4>1, UnitsMembers
    <3> QED
      BY <3>2, <3>3
  <2>2. ASSUME p \in Units(counts) PROVE p \in Units(more)
    <3>1. PICK l \in Subkeys, j \in Nat : p = <<l, j>> /\ 1 <= j /\ j <= counts[l]
      BY <2>2, UnitsMembers
    <3>2. j <= more[l]
      BY <1>1, <1>2, <3>1
    <3> QED
      BY <1>1, <3>1, <3>2, UnitsMembers
  <2>3. ASSUME p \in new PROVE p \in Units(more)
    <3>1. PICK j \in lo .. hi : p = <<k, j>>
      BY <2>3
    <3>2. j \in Nat /\ 1 <= j /\ j <= more[k]
      BY <1>1, <1>2, <3>1
    <3> QED
      BY <1>1, <3>1, <3>2, UnitsMembers
  <2> QED
    BY <2>1, <2>2, <2>3
<1>5. Units(more) = Units(counts) \cup new
  BY <1>4
<1>6. Units(counts) \cap new = {}
  <2> SUFFICES ASSUME NEW p \in Units(counts), p \in new PROVE FALSE
    OBVIOUS
  <2>1. PICK l \in Subkeys, j \in Nat : p = <<l, j>> /\ 1 <= j /\ j <= counts[l]
    BY UnitsMembers
  <2>2. l = k /\ j \in lo .. hi
    BY <2>1
  <2> QED
    BY <1>2, <2>1, <2>2
<1> HIDE DEF new
<1>7. IsFiniteSet(Units(more)) /\ Cardinality(Units(more)) = Cardinality(Units(counts)) + n - 0
  BY <1>3, <1>5, <1>6, FS_Union, FS_EmptySet
<1>8. Cardinality(Units(counts)) \in Nat
  BY FS_CardinalityType
<1> QED
  BY <1>1, <1>7, <1>8 DEF more

\* More of every subkey is at least as much in all.
LEMMA UnitsMonotone ==
  ASSUME NEW f \in [Subkeys -> Nat], NEW g \in [Subkeys -> Nat],
         \A k \in Subkeys : f[k] <= g[k], IsFiniteSet(Units(g))
  PROVE  /\ IsFiniteSet(Units(f)) /\ Cardinality(Units(f)) \in Nat
         /\ Cardinality(Units(g)) \in Nat
         /\ Cardinality(Units(f)) <= Cardinality(Units(g))
<1>1. ASSUME NEW p \in Units(f) PROVE p \in Units(g)
  <2>1. PICK k \in Subkeys, j \in Nat : p = <<k, j>> /\ 1 <= j /\ j <= f[k]
    BY UnitsMembers
  <2>2. j <= g[k]
    BY <2>1
  <2> QED
    BY <2>1, <2>2, UnitsMembers
<1>2. Units(f) \in SUBSET Units(g)
  BY <1>1
<1> QED
  BY <1>2, FS_Subset, FS_CardinalityType

-----------------------------------------------------------------------------
(* Type correctness *)

\* A worker past its look-ups has its pointers, and a frame inside increase().
LEMMA Pointers ==
  ASSUME TypeOK, NEW w \in Workers
  PROVE  /\ pc[w] # "histo" => histo[w] \in Workers
         /\ pc[w] \notin {"histo", "counter"} => counter[w] \in Workers
         /\ pc[w] \in {"store", "subkey"} => /\ frame[w] \in Frames
                                            /\ frame[w].subkey \in Subkeys
                                            /\ frame[w].n \in Nat
                                            /\ frame[w].loaded \in Nat
<1>1. pc[w] # "histo" => histo[w] \in Workers
  BY DEF TypeOK
<1>2. pc[w] \notin {"histo", "counter"} => counter[w] \in Workers
  BY DEF TypeOK
<1>3. pc[w] \in {"store", "subkey"} => frame[w] \in Frames
  BY DEF TypeOK
<1>4. \A f \in Frames : f.subkey \in Subkeys /\ f.n \in Nat /\ f.loaded \in Nat
  BY StatisticsAssumption DEF Frames
<1> QED
  BY <1>1, <1>2, <1>3, <1>4

\* The type invariant of the statistics is preserved by a worker's step.
LEMMA TypeWorker ==
  ASSUME TypeOK, NEW w \in Workers, worker(w)
  PROVE  TypeOK'
<1> USE StatisticsAssumption
<1>1. CASE getContinuousStat(w)
  BY <1>1 DEF TypeOK, getContinuousStat, findOrMake, Goto, objects, history, totals
<1>2. CASE getCounterStat(w)
  BY <1>2 DEF TypeOK, getCounterStat, findOrMake, Goto, objects, history, totals
<1>3. CASE addValue(w)
  <2>1. pc[w] = "run" /\ histo[w] \in Workers /\ adds[w] < MaxAdds
    BY <1>3, Pointers DEF addValue
  <2>2. histogram' \in [Workers -> Nat]
    BY <1>3, <2>1 DEF TypeOK, addValue
  <2>3. adds' \in [Workers -> 0 .. MaxAdds]
    BY <1>3, <2>1 DEF TypeOK, addValue
  <2>4. values' \in Nat
    BY <1>3 DEF TypeOK, addValue
  <2> QED
    BY <1>3, <2>2, <2>3, <2>4 DEF TypeOK, addValue, maps, totals
<1>4. CASE increase(w)
  <2>1. pc[w] = "run" /\ counter[w] \in Workers /\ adds[w] < MaxAdds
    BY <1>4, Pointers DEF increase
  <2>2. PICK k \in Subkeys, amount \in Amounts :
          frame' = [frame EXCEPT ![w] = [subkey |-> k, n |-> amount,
                                         loaded |-> count_[counter[w]]]]
    BY <1>4 DEF increase
  <2>3. [subkey |-> k, n |-> amount, loaded |-> count_[counter[w]]] \in Frames
    BY <2>1 DEF TypeOK, Frames
  <2>4. [subkey |-> k, n |-> amount, loaded |-> count_[counter[w]]] # None
    BY <2>3
  <2>5. /\ frame' \in [Workers -> {None} \cup Frames] /\ frame'[w] # None
        /\ \A v \in Workers : v # w => frame'[v] = frame[v]
    BY <2>2, <2>3, <2>4 DEF TypeOK
  <2>6. overlapped' \in BOOLEAN
    BY <1>4, Zenon DEF TypeOK, increase
  <2>7. adds' \in [Workers -> 0 .. MaxAdds]
    <3>1. adds' = [adds EXCEPT ![w] = adds[w] + 1]
      BY <1>4 DEF increase
    <3>2. adds \in [Workers -> 0 .. MaxAdds]
      BY DEF TypeOK
    <3> QED
      BY <2>1, <3>1, <3>2
  <2>8. /\ pc' = [pc EXCEPT ![w] = "store"]
        /\ UNCHANGED <<maps, objects, histo, counter, main, printed, totals, behind>>
    BY <1>4 DEF increase, Goto
  <2>9. pc' \in [Workers -> {"histo", "counter", "run", "store", "subkey"}]
    BY <2>8 DEF TypeOK
  <2>10. ASSUME NEW v \in Workers
         PROVE  /\ histo'[v] = None => pc'[v] = "histo"
                /\ counter'[v] = None => pc'[v] \in {"histo", "counter"}
                /\ frame'[v] = None <=> pc'[v] \notin {"store", "subkey"}
    BY <2>1, <2>5, <2>8 DEF TypeOK
  <2> QED
    BY <2>5, <2>6, <2>7, <2>8, <2>9, <2>10 DEF TypeOK, maps, objects, totals
<1>5. CASE storeCount(w)
  <2>1. counter[w] \in Workers /\ frame[w].loaded \in Nat /\ frame[w].n \in Nat
    BY <1>5, Pointers DEF storeCount
  <2>2. count_' \in [Workers -> Nat] /\ stored' \in Nat
    <3>1. /\ count_' = [count_ EXCEPT ![counter[w]] = frame[w].loaded + frame[w].n]
          /\ stored' = stored + frame[w].n
      BY <1>5 DEF storeCount, increased
    <3>2. count_ \in [Workers -> Nat] /\ stored \in Nat
      BY DEF TypeOK
    <3> QED
      BY <2>1, <3>1, <3>2
  <2>3. pc[w] = "store"
    BY <1>5 DEF storeCount
  <2> QED
    BY <1>5, <2>2, <2>3 DEF TypeOK, storeCount, Goto, maps
<1>6. CASE addSubkey(w)
  <2>1. counter[w] \in Workers /\ frame[w].subkey \in Subkeys /\ frame[w].n \in Nat
    BY <1>6, Pointers DEF addSubkey
  <2>2. \A counts \in [Subkeys -> Nat] :
          plus(counts, frame[w].subkey, frame[w].n) \in [Subkeys -> Nat]
    BY <2>1 DEF plus
  <2>3. subkey_count_' \in [Workers -> [Subkeys -> Nat]]
    BY <1>6, <2>1, <2>2 DEF TypeOK, addSubkey
  <2>4. added' \in Nat /\ bySubkey' \in [Subkeys -> Nat]
    <3>1. added' = added + frame[w].n /\ bySubkey' = plus(bySubkey, frame[w].subkey, frame[w].n)
      BY <1>6 DEF addSubkey
    <3>2. added \in Nat /\ bySubkey \in [Subkeys -> Nat]
      BY DEF TypeOK
    <3> QED
      BY <2>1, <2>2, <3>1, <3>2
  <2>5. /\ frame' \in [Workers -> {None} \cup Frames] /\ frame'[w] = None
        /\ \A v \in Workers : v # w => frame'[v] = frame[v]
    BY <1>6 DEF TypeOK, addSubkey
  <2>6. pc' = [pc EXCEPT ![w] = "run"] /\ pc[w] = "subkey"
    BY <1>6 DEF addSubkey, Goto
  <2> QED
    BY <1>6, <2>3, <2>4, <2>5, <2>6 DEF TypeOK, addSubkey, maps
<1> QED
  BY <1>1, <1>2, <1>3, <1>4, <1>5, <1>6 DEF worker

\* The type invariant of the statistics is preserved by a step of print().
LEMMA TypePrint ==
  ASSUME TypeOK, printBegins \/ printCounter \/ printHistogram
  PROVE  TypeOK'
<1> USE StatisticsAssumption
<1>1. CASE printBegins
  <2>1. main' \in 0 .. Len(printStatistic) + 2
    BY <1>1, PrintOrder DEF TypeOK, printBegins
  <2> QED
    BY <1>1, <2>1 DEF TypeOK, printBegins, maps, objects, threads, history, totals
<1>2. CASE printCounter
  <2>1. main \in 1 .. Len(printStatistic) /\ main' \in 0 .. Len(printStatistic) + 2
    BY <1>2, PrintOrder DEF TypeOK, printCounter, printing
  <2>2. printed' \in Seq(Nat) /\ behind' \in Int
    <3>1. CASE count_map_ = None
      BY <1>2, <3>1 DEF TypeOK, printCounter
    <3>2. CASE count_map_ # None
      <4>1. printStatistic[main] # "count" => printStatistic[main] \in Subkeys
        BY <2>1, PrintOrder
      <4>2. count_[count_map_] \in Nat /\ subkey_count_[count_map_] \in [Subkeys -> Nat]
        BY <3>2 DEF TypeOK
      <4>3. stored - added \in Int /\ printed \in Seq(Nat) /\ behind \in Int
        BY DEF TypeOK
      <4>4. \E x \in Nat : printed' = Append(printed, x)
        BY <1>2, <3>2, <4>1, <4>2 DEF printCounter
      <4>5. behind' \in Int
        BY <1>2, <3>2, <4>3 DEF printCounter
      <4> QED
        BY <4>3, <4>4, <4>5
    <3> QED
      BY <3>1, <3>2
  <2> QED
    BY <1>2, <2>1, <2>2 DEF TypeOK, printCounter, maps, objects, threads, totals
<1>3. CASE printHistogram
  <2>1. main' \in 0 .. Len(printStatistic) + 2
    BY <1>3, PrintOrder DEF TypeOK, printHistogram
  <2>2. printed' \in Seq(Nat)
    BY <1>3 DEF TypeOK, printHistogram
  <2> QED
    BY <1>3, <2>1, <2>2 DEF TypeOK, printHistogram, maps, objects, threads, history, totals
<1> QED
  BY <1>1, <1>2, <1>3

\* The type invariant holds of the statistics at the start, and is preserved.
LEMMA TypeInductive ==
  /\ Init => TypeOK
  /\ TypeOK /\ [Next]_vars => TypeOK'
<1> USE StatisticsAssumption
<1>1. ASSUME Init PROVE TypeOK
  <2>1. main \in 0 .. Len(printStatistic) + 2 /\ printed \in Seq(Nat)
    BY <1>1, PrintOrder DEF Init
  <2>2. overlapped \in BOOLEAN
    BY <1>1, Zenon DEF Init
  <2>3. behind \in Int
    BY <1>1 DEF Init
  <2> QED
    BY <1>1, <2>1, <2>2, <2>3 DEF Init, TypeOK
<1>2. ASSUME TypeOK, UNCHANGED vars PROVE TypeOK'
  BY <1>2 DEF TypeOK, vars, maps, objects, threads, history, totals
<1> QED
  BY <1>1, <1>2, TypePrint, TypeWorker DEF Next

\* Every variable of the statistics keeps its type, and a worker that adds
\* has its pointers.
THEOREM TypeSafe == Spec => []TypeOK
  BY TypeInductive, PTL DEF Spec

-----------------------------------------------------------------------------
(* One object of each kind *)

zero == [k \in Subkeys |-> 0]

\* Workers past their look-ups hold the objects of the maps.
PtrInv ==
  \A w \in Workers :
    /\ pc[w] # "histo" => histo_map_ # None /\ histo[w] = histo_map_
    /\ pc[w] \notin {"histo", "counter"} => count_map_ # None /\ counter[w] = count_map_

\* The objects of the maps hold everything that was added, and no other object
\* holds anything: an object that enters a map is still empty.
ObjInv ==
  /\ \A o \in Workers : /\ histogram[o] = IF o = histo_map_ THEN values ELSE 0
                        /\ subkey_count_[o] = IF o = count_map_ THEN bySubkey ELSE zero
                        /\ o # count_map_ => count_[o] = 0
  /\ histo_map_ = None => values = 0
  /\ count_map_ = None => stored = 0 /\ bySubkey = zero

\* A worker that looks a statistic up gets the object of the map.
LEMMA PtrInductive ==
  /\ Init => PtrInv
  /\ TypeOK /\ PtrInv /\ [Next]_vars => PtrInv'
<1> USE StatisticsAssumption
<1>1. Init => PtrInv
  BY DEF Init, PtrInv
<1>2. ASSUME TypeOK, PtrInv, UNCHANGED vars PROVE PtrInv'
  BY <1>2 DEF PtrInv, vars, maps, threads
<1>3. ASSUME TypeOK, PtrInv, printBegins \/ printCounter \/ printHistogram PROVE PtrInv'
  BY <1>3 DEF PtrInv, printBegins, printCounter, printHistogram, maps, threads
<1>4. ASSUME TypeOK, PtrInv, NEW w \in Workers, worker(w) PROVE PtrInv'
  <2>0. pc \in [Workers -> {"histo", "counter", "run", "store", "subkey"}]
        /\ histo \in [Workers -> Workers \cup {None}] /\ counter \in [Workers -> Workers \cup {None}]
    BY <1>4 DEF TypeOK
  <2>1. CASE getContinuousStat(w)
    BY <1>4, <2>0, <2>1 DEF PtrInv, getContinuousStat, findOrMake, Goto
  <2>2. CASE getCounterStat(w)
    BY <1>4, <2>0, <2>2 DEF PtrInv, getCounterStat, findOrMake, Goto
  <2>3. CASE addValue(w)
    BY <1>4, <2>3 DEF PtrInv, addValue, maps
  <2>4. CASE increase(w)
    <3>1. pc[w] = "run" /\ pc' = [pc EXCEPT ![w] = "store"] /\ UNCHANGED <<maps, histo, counter>>
      BY <2>4 DEF increase, Goto
    <3> QED
      BY <1>4, <2>0, <3>1 DEF PtrInv, maps
  <2>5. CASE storeCount(w)
    <3>1. pc[w] = "store" /\ pc' = [pc EXCEPT ![w] = "subkey"] /\ UNCHANGED <<maps, histo, counter>>
      BY <2>5 DEF storeCount, Goto
    <3> QED
      BY <1>4, <2>0, <3>1 DEF PtrInv, maps
  <2>6. CASE addSubkey(w)
    <3>1. pc[w] = "subkey" /\ pc' = [pc EXCEPT ![w] = "run"] /\ UNCHANGED <<maps, histo, counter>>
      BY <2>6 DEF addSubkey, Goto
    <3> QED
      BY <1>4, <2>0, <3>1 DEF PtrInv, maps
  <2> QED
    BY <1>4, <2>1, <2>2, <2>3, <2>4, <2>5, <2>6 DEF worker
<1> QED
  BY <1>1, <1>2, <1>3, <1>4 DEF Next

\* Every addition reaches the object of its map.
LEMMA ObjInductive ==
  /\ Init => ObjInv
  /\ TypeOK /\ PtrInv /\ ObjInv /\ [Next]_vars => ObjInv'
<1> USE StatisticsAssumption
<1>1. Init => ObjInv
  BY DEF Init, ObjInv, zero
<1>2. ASSUME ObjInv, UNCHANGED vars PROVE ObjInv'
  BY <1>2 DEF ObjInv, vars, maps, objects, history, totals
<1>3. ASSUME ObjInv, printBegins \/ printCounter \/ printHistogram PROVE ObjInv'
  <2>1. UNCHANGED <<maps, objects, totals>>
    BY <1>3 DEF printBegins, printCounter, printHistogram, history
  <2> QED
    BY <1>3, <2>1 DEF ObjInv, maps, objects, totals
<1>4. ASSUME TypeOK, PtrInv, ObjInv, NEW w \in Workers, worker(w) PROVE ObjInv'
  <2>1. CASE getContinuousStat(w)
    BY <1>4, <2>1 DEF TypeOK, ObjInv, getContinuousStat, objects, history, totals
  <2>2. CASE getCounterStat(w)
    BY <1>4, <2>2 DEF TypeOK, ObjInv, getCounterStat, objects, history, totals
  <2>3. CASE addValue(w)
    <3>1. histo[w] = histo_map_ /\ histo_map_ \in Workers
      BY <1>4, <2>3 DEF TypeOK, PtrInv, addValue
    <3>2. histogram \in [Workers -> Nat] /\ values \in Nat
      BY <1>4 DEF TypeOK
    <3>3. /\ histogram' = [histogram EXCEPT ![histo_map_] = histogram[histo_map_] + 1]
          /\ values' = values + 1
          /\ UNCHANGED <<maps, count_, subkey_count_, stored, bySubkey>>
      BY <2>3, <3>1 DEF addValue
    <3> QED
      BY <1>4, <3>1, <3>2, <3>3 DEF ObjInv, maps
  <2>4. CASE increase(w)
    <3>1. UNCHANGED <<maps, objects, totals>>
      BY <2>4 DEF increase
    <3> QED
      BY <1>4, <3>1 DEF ObjInv, maps, objects, totals
  <2>5. CASE storeCount(w)
    <3>1. counter[w] = count_map_ /\ count_map_ \in Workers
      BY <1>4, <2>5 DEF TypeOK, PtrInv, storeCount
    <3>2. /\ count_' = [count_ EXCEPT ![count_map_] = increased(w)]
          /\ UNCHANGED <<maps, histogram, subkey_count_, values, bySubkey>>
      BY <2>5, <3>1 DEF storeCount
    <3>3. count_ \in [Workers -> Nat]
      BY <1>4 DEF TypeOK
    <3> QED
      BY <1>4, <3>1, <3>2, <3>3 DEF ObjInv, maps
  <2>6. CASE addSubkey(w)
    <3>1. counter[w] = count_map_ /\ count_map_ \in Workers
      BY <1>4, <2>6 DEF TypeOK, PtrInv, addSubkey
    <3>2. /\ subkey_count_' = [subkey_count_ EXCEPT
                ![count_map_] = plus(subkey_count_[count_map_], frame[w].subkey, frame[w].n)]
          /\ bySubkey' = plus(bySubkey, frame[w].subkey, frame[w].n)
          /\ UNCHANGED <<maps, histogram, count_, values, stored>>
      BY <2>6, <3>1 DEF addSubkey
    <3>3. subkey_count_ \in [Workers -> [Subkeys -> Nat]]
      BY <1>4 DEF TypeOK
    <3> QED
      BY <1>4, <3>1, <3>2, <3>3 DEF ObjInv, maps
  <2> QED
    BY <1>4, <2>1, <2>2, <2>3, <2>4, <2>5, <2>6 DEF worker
<1> QED
  BY <1>1, <1>2, <1>3, <1>4 DEF Next

-----------------------------------------------------------------------------
(* The total of a counter *)

\* What a worker between load and store has loaded is still the total, unless
\* two of them were there at once; it is never more than what was stored.
LostInv ==
  /\ count_map_ # None =>
       /\ count_[count_map_] <= stored
       /\ ~overlapped => count_[count_map_] = stored
  /\ \A w \in Workers : pc[w] = "store" =>
       /\ frame[w].loaded <= stored
       /\ ~overlapped => frame[w].loaded = count_[count_map_]
       /\ ~overlapped => \A v \in Workers : pc[v] = "store" => v = w

\* The invariant of the total is preserved by a worker that adds.
LEMMA LostWorker ==
  ASSUME TypeOK, PtrInv, ObjInv, LostInv, NEW w \in Workers,
         increase(w) \/ storeCount(w) \/ addSubkey(w)
  PROVE  LostInv'
<1> USE StatisticsAssumption
<1>0. /\ pc \in [Workers -> {"histo", "counter", "run", "store", "subkey"}]
      /\ frame \in [Workers -> {None} \cup Frames]
      /\ stored \in Nat /\ count_ \in [Workers -> Nat]
  BY DEF TypeOK
<1>1. CASE increase(w)
  <2>1. pc[w] = "run" /\ pc' = [pc EXCEPT ![w] = "store"]
        /\ UNCHANGED <<count_map_, count_, stored>>
    BY <1>1 DEF increase, Goto, maps, objects, totals
  <2>2. counter[w] = count_map_ /\ count_map_ \in Workers
    BY <2>1 DEF TypeOK, PtrInv
  <2>3. PICK k \in Subkeys, amount \in Amounts :
          frame' = [frame EXCEPT ![w] = [subkey |-> k, n |-> amount,
                                         loaded |-> count_[counter[w]]]]
    BY <1>1 DEF increase
  <2>4. frame'[w].loaded = count_[count_map_] /\ \A v \in Workers : v # w => frame'[v] = frame[v]
    BY <1>0, <2>2, <2>3
  <2>5. ~overlapped' => ~overlapped /\ \A v \in Workers : pc[v] # "store"
    BY <1>1, Zenon DEF increase
  <2>6. count_[count_map_] <= stored
    BY <2>2 DEF LostInv
  <2>7. ASSUME NEW v \in Workers, pc'[v] = "store"
        PROVE  /\ frame'[v].loaded <= stored'
               /\ ~overlapped' => frame'[v].loaded = count_'[count_map_']
               /\ ~overlapped' => \A u \in Workers : pc'[u] = "store" => u = v
    <3>1. CASE v = w
      BY <1>0, <2>1, <2>4, <2>5, <2>6, <3>1
    <3>2. CASE v # w
      BY <1>0, <2>1, <2>4, <2>5, <2>7, <3>2 DEF LostInv
    <3> QED
      BY <3>1, <3>2
  <2>8. count_'[count_map_'] <= stored' /\ (~overlapped' => count_'[count_map_'] = stored')
    BY <2>1, <2>2, <2>5 DEF LostInv
  <2> QED
    BY <2>7, <2>8 DEF LostInv
<1>2. CASE storeCount(w)
  <2>1. /\ pc[w] = "store" /\ pc' = [pc EXCEPT ![w] = "subkey"]
        /\ count_' = [count_ EXCEPT ![counter[w]] = frame[w].loaded + frame[w].n]
        /\ stored' = stored + frame[w].n
        /\ UNCHANGED <<count_map_, frame, overlapped>>
    BY <1>2 DEF storeCount, increased, Goto, maps
  <2>2. counter[w] = count_map_ /\ count_map_ \in Workers
    BY <2>1 DEF TypeOK, PtrInv
  <2>3. \A v \in Workers : pc[v] = "store" => frame[v].n \in Nat /\ frame[v].loaded \in Nat
    BY Pointers
  <2>4. count_'[count_map_] = frame[w].loaded + frame[w].n
    BY <1>0, <2>1, <2>2
  <2>5. frame[w].loaded <= stored /\ (~overlapped => frame[w].loaded = count_[count_map_])
    BY <2>1 DEF LostInv
  <2>6. count_'[count_map_'] <= stored' /\ (~overlapped' => count_'[count_map_'] = stored')
    <3>1. ~overlapped => count_[count_map_] = stored
      BY <2>2 DEF LostInv
    <3> QED
      BY <1>0, <2>1, <2>3, <2>4, <2>5, <3>1
  <2>7. ASSUME NEW v \in Workers, pc'[v] = "store"
        PROVE  /\ frame'[v].loaded <= stored'
               /\ ~overlapped' => frame'[v].loaded = count_'[count_map_']
               /\ ~overlapped' => \A u \in Workers : pc'[u] = "store" => u = v
    <3>1. v # w /\ pc[v] = "store"
      BY <1>0, <2>1, <2>7
    <3>2. overlapped /\ frame[v].loaded <= stored
      BY <2>1, <3>1 DEF LostInv
    <3> QED
      BY <1>0, <2>1, <2>3, <3>1, <3>2
  <2> QED
    BY <2>6, <2>7 DEF LostInv
<1>3. CASE addSubkey(w)
  <2>1. pc[w] = "subkey" /\ pc' = [pc EXCEPT ![w] = "run"] /\ frame' = [frame EXCEPT ![w] = None]
        /\ UNCHANGED <<count_map_, count_, stored, overlapped>>
    BY <1>3 DEF addSubkey, Goto, maps
  <2>2. \A v \in Workers : pc'[v] = "store" => pc[v] = "store" /\ frame'[v] = frame[v]
    BY <1>0, <2>1
  <2> QED
    BY <2>1, <2>2 DEF LostInv
<1> QED
  BY <1>1, <1>2, <1>3

\* The invariant of the total holds at the start and is preserved.
LEMMA LostInductive ==
  /\ Init => LostInv
  /\ TypeOK /\ PtrInv /\ ObjInv /\ LostInv /\ [Next]_vars => LostInv'
<1> USE StatisticsAssumption
<1>1. Init => LostInv
  BY DEF Init, LostInv
<1>2. ASSUME LostInv, UNCHANGED vars PROVE LostInv'
  <2>1. UNCHANGED <<count_map_, count_, pc, frame, stored, overlapped>>
    BY <1>2 DEF vars, maps, objects, threads, history, totals
  <2> QED
    BY <1>2, <2>1 DEF LostInv
<1>3. ASSUME LostInv, printBegins \/ printCounter \/ printHistogram PROVE LostInv'
  <2>1. UNCHANGED <<count_map_, count_, pc, frame, stored, overlapped>>
    BY <1>3 DEF printBegins, printCounter, printHistogram, maps, objects, threads, history, totals
  <2> QED
    BY <1>3, <2>1 DEF LostInv
<1>4. ASSUME TypeOK, PtrInv, ObjInv, LostInv, NEW w \in Workers, worker(w) PROVE LostInv'
  <2>0. pc \in [Workers -> {"histo", "counter", "run", "store", "subkey"}]
    BY <1>4 DEF TypeOK
  <2>1. CASE getContinuousStat(w)
    <3>1. UNCHANGED <<count_map_, count_, frame, stored, overlapped>>
      BY <2>1 DEF getContinuousStat, objects, history, totals
    <3>2. \A v \in Workers : pc'[v] = "store" <=> pc[v] = "store"
      BY <2>0, <2>1 DEF getContinuousStat, Goto
    <3> QED
      BY <1>4, <3>1, <3>2 DEF LostInv
  <2>2. CASE getCounterStat(w)
    <3>1. UNCHANGED <<count_, frame, stored, overlapped>>
      BY <2>2 DEF getCounterStat, objects, history, totals
    <3>2. \A v \in Workers : pc'[v] = "store" <=> pc[v] = "store"
      BY <2>0, <2>2 DEF getCounterStat, Goto
    <3>3. /\ count_map_ = None => count_map_' = w /\ count_[w] = 0 /\ stored = 0
          /\ count_map_ # None => count_map_' = count_map_
      BY <1>4, <2>2 DEF getCounterStat, ObjInv
    <3>4. CASE count_map_ = None
      <4>1. \A v \in Workers : pc[v] # "store"
        BY <1>4, <3>4 DEF PtrInv
      <4> QED
        BY <3>1, <3>2, <3>3, <3>4, <4>1 DEF LostInv
    <3>5. CASE count_map_ # None
      BY <1>4, <3>1, <3>2, <3>3, <3>5 DEF LostInv
    <3> QED
      BY <3>4, <3>5
  <2>3. CASE addValue(w)
    <3>1. UNCHANGED <<count_map_, count_, pc, frame, stored, overlapped>>
      BY <2>3 DEF addValue, maps
    <3> QED
      BY <1>4, <3>1 DEF LostInv
  <2> QED
    BY <1>4, <2>1, <2>2, <2>3, LostWorker DEF worker
<1> QED
  BY <1>1, <1>2, <1>3, <1>4 DEF Next

-----------------------------------------------------------------------------
(* The sum of the subkeys *)

\* The history of the additions to subkeys adds up.
SumInv ==
  IsFiniteSet(Units(bySubkey)) /\ added = Cardinality(Units(bySubkey))

\* An addition to one subkey adds as much to the sum.
LEMMA SumInductive ==
  /\ Init => SumInv
  /\ TypeOK /\ SumInv /\ [Next]_vars => SumInv'
<1> USE StatisticsAssumption
<1>1. ASSUME Init PROVE SumInv
  <2>1. bySubkey \in [Subkeys -> Nat] /\ added = 0 /\ \A k \in Subkeys : bySubkey[k] = 0
    BY <1>1 DEF Init
  <2>2. Units(bySubkey) = {}
    <3> SUFFICES ASSUME NEW p \in Units(bySubkey) PROVE FALSE
      OBVIOUS
    <3>1. PICK k \in Subkeys, j \in Nat : p = <<k, j>> /\ 1 <= j /\ j <= bySubkey[k]
      BY <2>1, UnitsMembers
    <3> QED
      BY <2>1, <3>1
  <2> QED
    BY <2>1, <2>2, FS_EmptySet DEF SumInv
<1>2. ASSUME SumInv, UNCHANGED <<added, bySubkey>> PROVE SumInv'
  BY <1>2 DEF SumInv
<1>3. ASSUME UNCHANGED vars \/ printBegins \/ printCounter \/ printHistogram
      PROVE  UNCHANGED <<added, bySubkey>>
  BY <1>3 DEF vars, printBegins, printCounter, printHistogram, history, totals
<1>4. ASSUME TypeOK, SumInv, NEW w \in Workers, worker(w) PROVE SumInv'
  <2>1. CASE addSubkey(w)
    <3>1. frame[w].subkey \in Subkeys /\ frame[w].n \in Nat
      BY <1>4, <2>1, Pointers DEF addSubkey
    <3>2. bySubkey \in [Subkeys -> Nat]
      BY <1>4 DEF TypeOK
    <3>3. added' = added + frame[w].n /\ bySubkey' = plus(bySubkey, frame[w].subkey, frame[w].n)
      BY <2>1 DEF addSubkey
    <3> QED
      BY <1>4, <3>1, <3>2, <3>3, UnitsPlus DEF SumInv
  <2>2. CASE ~addSubkey(w)
    <3>1. UNCHANGED <<added, bySubkey>>
      BY <1>4, <2>2 DEF worker, getContinuousStat, getCounterStat, addValue, increase,
                        storeCount, history, totals
    <3> QED
      BY <1>2, <1>4, <3>1
  <2> QED
    BY <2>1, <2>2
<1> QED
  BY <1>1, <1>2, <1>3, <1>4 DEF Next

-----------------------------------------------------------------------------
(* What print() has shown *)

\* snap is what had been added to each subkey when print() read the total:
\* each subkey printed since lies between that and what is added by now.
Snapshot(snap) ==
  /\ snap \in [Subkeys -> Nat]
  /\ printed[1] <= Cardinality(Units(snap)) + behind
  /\ \A k \in Subkeys : snap[k] <= bySubkey[k]
  /\ \A i \in 2 .. Len(printStatistic) : i <= Len(printed) =>
       /\ snap[printStatistic[i]] <= printed[i]
       /\ printed[i] <= bySubkey[printStatistic[i]]

\* print() has shown at least the total of a counter.
TotalShown ==
  \/ main \in 1 .. Len(printStatistic) /\ Len(printed) >= 1
  \/ main > Len(printStatistic) /\ Len(printed) >= Len(printStatistic)

PrintInv ==
  /\ main = 0 => printed = << >>
  /\ main \in 1 .. Len(printStatistic) =>
       IF count_map_ = None THEN printed = << >> ELSE Len(printed) = main - 1
  /\ main = Len(printStatistic) + 1 => Len(printed) \in {0, Len(printStatistic)}
  /\ TotalShown => \E snap : Snapshot(snap)

\* A snapshot stays one while more is added to the subkeys.
LEMMA SnapshotStays ==
  ASSUME TypeOK, TypeOK', NEW snap, Snapshot(snap), UNCHANGED <<printed, behind>>,
         \A k \in Subkeys : bySubkey[k] <= bySubkey'[k]
  PROVE  Snapshot(snap)'
<1>1. bySubkey \in [Subkeys -> Nat] /\ bySubkey' \in [Subkeys -> Nat] /\ printed \in Seq(Nat)
  BY DEF TypeOK
<1>2. ASSUME NEW k \in Subkeys PROVE snap[k] <= bySubkey'[k]
  BY <1>1 DEF Snapshot
<1>3. ASSUME NEW i \in 2 .. Len(printStatistic), i <= Len(printed)
      PROVE  snap[printStatistic[i]] <= printed[i] /\ printed[i] <= bySubkey'[printStatistic[i]]
  <2>1. printStatistic[i] \in Subkeys /\ Len(printStatistic) \in Nat
    BY PrintOrder
  <2>2. printed[i] \in Nat
    BY <1>1, <1>3, <2>1
  <2> QED
    BY <1>1, <1>3, <2>1, <2>2 DEF Snapshot
<1> QED
  BY <1>2, <1>3 DEF Snapshot

\* What print() has shown is still explained after a worker's step.
LEMMA PrintWorker ==
  ASSUME TypeOK, TypeOK', PrintInv, NEW w \in Workers, worker(w)
  PROVE  PrintInv'
<1>1. UNCHANGED <<main, printed, behind>>
  BY DEF worker, getContinuousStat, getCounterStat, addValue, increase, storeCount, addSubkey,
         history
<1>2. main \in 1 .. Len(printStatistic) => count_map_' = count_map_
  BY DEF worker, getContinuousStat, getCounterStat, addValue, increase, storeCount, addSubkey,
         maps, printing
<1>3. \A k \in Subkeys : bySubkey[k] <= bySubkey'[k]
  <2>0. bySubkey \in [Subkeys -> Nat]
    BY DEF TypeOK
  <2>1. CASE addSubkey(w)
    <3>1. frame[w].subkey \in Subkeys /\ frame[w].n \in Nat
      BY <2>1, Pointers DEF addSubkey
    <3>2. bySubkey' = plus(bySubkey, frame[w].subkey, frame[w].n)
      BY <2>1 DEF addSubkey
    <3> QED
      BY <2>0, <3>1, <3>2 DEF plus
  <2>2. CASE ~addSubkey(w)
    <3>1. bySubkey' = bySubkey
      BY <2>2 DEF worker, getContinuousStat, getCounterStat, addValue, increase, storeCount,
                  history, totals
    <3> QED
      BY <2>0, <3>1
  <2> QED
    BY <2>1, <2>2
<1>4. (\E snap : Snapshot(snap)) => (\E snap : Snapshot(snap)')
  BY <1>1, <1>3, SnapshotStays
<1>5. TotalShown' <=> TotalShown
  BY <1>1 DEF TotalShown
<1> QED
  BY <1>1, <1>2, <1>4, <1>5 DEF PrintInv

\* What print() has shown is still explained after it shows the next number.
LEMMA PrintNumber ==
  ASSUME TypeOK, TypeOK', ObjInv, LostInv, SumInv, PrintInv, printCounter
  PROVE  PrintInv'
<1> USE StatisticsAssumption
<1> DEFINE L == Len(printStatistic)
<1>1. L \in Nat /\ L > 1 /\ printStatistic[1] = "count"
  BY PrintOrder
<1>2. main \in 1 .. L /\ main' = main + 1 /\ UNCHANGED <<bySubkey, count_map_>>
  BY DEF printCounter, printing, maps, totals
<1>3. /\ bySubkey \in [Subkeys -> Nat] /\ printed \in Seq(Nat) /\ behind \in Int
      /\ stored \in Nat /\ added \in Nat /\ count_ \in [Workers -> Nat]
      /\ count_map_ \in Workers \cup {None}
  BY DEF TypeOK
<1> HIDE DEF L
<1>4. CASE count_map_ = None
  <2>1. printed = << >> /\ printed' = << >>
    BY <1>2, <1>4 DEF printCounter, PrintInv, L
  <2>2. Len(printed') = 0
    BY <2>1
  <2>3. ~TotalShown'
    BY <1>1, <1>2, <2>2 DEF TotalShown, L
  <2> QED
    BY <1>1, <1>2, <1>4, <2>1, <2>2, <2>3 DEF PrintInv, L
<1>5. CASE count_map_ # None
  <2> DEFINE x == IF printStatistic[main] = "count" THEN count_[count_map_]
                  ELSE subkey_count_[count_map_][printStatistic[main]]
  <2>1. /\ printed' = Append(printed, x)
        /\ behind' = IF printStatistic[main] = "count" THEN stored - added ELSE behind
    BY <1>5 DEF printCounter
  <2>2. Len(printed) = main - 1
    BY <1>2, <1>5 DEF PrintInv, L
  <2>3. Len(printed') = main /\ printed'[main] = x
        /\ \A i \in 1 .. Len(printed) : printed'[i] = printed[i]
    BY <1>2, <1>3, <2>1, <2>2
  <2>4. CASE main = 1
    <3>1. x = count_[count_map_] /\ behind' = stored - added
      BY <1>1, <2>1, <2>4
    <3>2. x <= stored /\ x \in Nat
      BY <1>3, <1>5, <3>1 DEF LostInv
    <3>3. added = Cardinality(Units(bySubkey))
      BY DEF SumInv
    <3>4. printed'[1] <= Cardinality(Units(bySubkey)) + behind'
      BY <1>3, <2>3, <2>4, <3>1, <3>2, <3>3
    <3>5. Snapshot(bySubkey)'
      BY <1>2, <1>3, <2>3, <2>4, <3>4 DEF Snapshot
    <3> QED
      BY <1>2, <1>5, <2>3, <2>4, <3>5, <1>1 DEF PrintInv, L
  <2>5. CASE main # 1
    <3>1. printStatistic[main] \in Subkeys
      BY <1>1, <1>2, <2>5, PrintOrder DEF L
    <3>2. behind' = behind /\ x = bySubkey[printStatistic[main]]
      BY <1>3, <1>5, <2>1, <3>1 DEF ObjInv
    <3>3. TotalShown
      BY <1>2, <2>2, <2>5 DEF TotalShown, L
    <3>4. PICK snap : Snapshot(snap)
      BY <3>3 DEF PrintInv
    <3>5. printed'[1] = printed[1]
      BY <1>2, <2>2, <2>3, <2>5
    <3>6. ASSUME NEW i \in 2 .. L, i <= Len(printed')
          PROVE  snap[printStatistic[i]] <= printed'[i] /\ printed'[i] <= bySubkey[printStatistic[i]]
      <4>1. CASE i = main
        BY <1>3, <2>3, <3>1, <3>2, <3>4, <4>1 DEF Snapshot
      <4>2. CASE i # main
        <5>1. i \in 1 .. Len(printed) /\ i <= Len(printed)
          BY <1>1, <1>2, <2>2, <2>3, <3>6, <4>2
        <5> QED
          BY <2>3, <3>4, <5>1 DEF Snapshot, L
      <4> QED
        BY <4>1, <4>2
    <3>7. Snapshot(snap)'
      BY <1>2, <3>2, <3>4, <3>5, <3>6 DEF Snapshot, L
    <3> QED
      BY <1>1, <1>2, <1>5, <2>3, <3>7 DEF PrintInv, L
  <2> QED
    BY <2>4, <2>5
<1> QED
  BY <1>4, <1>5

\* What print() has shown is still explained after it starts, and after the
\* histogram.
LEMMA PrintEnds ==
  ASSUME TypeOK, PrintInv, printBegins \/ printHistogram
  PROVE  PrintInv'
<1> DEFINE L == Len(printStatistic)
<1>1. L \in Nat /\ L > 1
  BY PrintOrder
<1>2. printed \in Seq(Nat) /\ histogram \in [Workers -> Nat] /\ main \in 0 .. L + 2
      /\ histo_map_ \in Workers \cup {None}
  BY DEF TypeOK
<1> HIDE DEF L
<1>3. CASE printBegins
  <2>1. printed' = << >> /\ main' = 1
    BY <1>3 DEF printBegins, PrintInv
  <2>2. Len(printed') = 0
    BY <2>1
  <2> QED
    BY <1>1, <2>1, <2>2 DEF PrintInv, TotalShown, L
<1>4. CASE printHistogram
  <2>1. main = L + 1 /\ main' = L + 2 /\ UNCHANGED <<bySubkey, behind>>
    BY <1>1, <1>2, <1>4 DEF printHistogram, history, totals, L
  <2>2. Len(printed) \in {0, L}
    BY <2>1 DEF PrintInv, L
  <2>3. /\ Len(printed') \in {Len(printed), Len(printed) + 1}
        /\ \A i \in 1 .. Len(printed) : printed'[i] = printed[i]
    BY <1>2, <1>4 DEF printHistogram
  <2>4. CASE Len(printed) = 0
    <3>1. Len(printed') < L
      BY <1>1, <2>3, <2>4
    <3>2. ~(Len(printed') >= L)
      <4>1. Len(printed') \in Nat
        BY <2>3, <2>4
      <4> QED
        BY <1>1, <3>1, <4>1
    <3>3. main' \notin 1 .. L
      BY <1>1, <2>1
    <3>4. ~TotalShown'
      BY <3>2, <3>3 DEF TotalShown, L
    <3> QED
      BY <1>1, <2>1, <3>4 DEF PrintInv, L
  <2>5. CASE Len(printed) = L
    <3>1. PICK snap : Snapshot(snap)
      BY <1>1, <2>1, <2>5 DEF PrintInv, TotalShown, L
    <3>2. \A i \in 1 .. L : printed'[i] = printed[i]
      BY <2>3, <2>5
    <3>3. Snapshot(snap)'
      BY <1>1, <2>1, <2>5, <3>1, <3>2 DEF Snapshot, L
    <3> QED
      BY <1>1, <2>1, <3>3 DEF PrintInv, L
  <2> QED
    BY <2>2, <2>4, <2>5
<1> QED
  BY <1>3, <1>4

\* All that holds of the statistics.
StatisticsInv == TypeOK /\ PtrInv /\ ObjInv /\ LostInv /\ SumInv /\ PrintInv

LEMMA StatisticsCorrect == Spec => []StatisticsInv
<1>1. Init => StatisticsInv
  <2>1. Init => PrintInv
    <3> SUFFICES ASSUME Init PROVE PrintInv
      OBVIOUS
    <3>1. main = 0 /\ printed = << >> /\ Len(printStatistic) \in Nat
      BY PrintOrder DEF Init
    <3> QED
      BY <3>1 DEF PrintInv, TotalShown
  <2> QED
    BY <2>1, TypeInductive, PtrInductive, ObjInductive, LostInductive, SumInductive
    DEF StatisticsInv
<1>2. StatisticsInv /\ [Next]_vars => StatisticsInv'
  <2> SUFFICES ASSUME StatisticsInv, [Next]_vars PROVE StatisticsInv'
    OBVIOUS
  <2>1. TypeOK' /\ PtrInv' /\ ObjInv' /\ LostInv' /\ SumInv'
    BY TypeInductive, PtrInductive, ObjInductive, LostInductive, SumInductive
    DEF StatisticsInv
  <2>2. ASSUME UNCHANGED vars PROVE PrintInv'
    <3>1. UNCHANGED <<main, printed, count_map_, bySubkey, behind>>
      BY <2>2 DEF vars, maps, history, totals
    <3> QED
      BY <3>1 DEF StatisticsInv, PrintInv, TotalShown, Snapshot
  <2>3. PrintInv'
    BY <2>1, <2>2, PrintWorker, PrintNumber, PrintEnds DEF StatisticsInv, Next
  <2> QED
    BY <2>1, <2>3 DEF StatisticsInv
<1> QED
  BY <1>1, <1>2, PTL DEF Spec

-----------------------------------------------------------------------------
(* The properties *)

\* Whatever any number of workers add, in whichever order they start, is in the
\* statistics that print() can see.
THEOREM NothingIsAside == Spec => []NothingAside
<1>1. StatisticsInv => NothingAside
  BY DEF StatisticsInv, TypeOK, ObjInv, NothingAside
<1> QED
  BY <1>1, StatisticsCorrect, PTL

\* The total of a counter is never more than what was added, and less only if
\* two workers added at the same time.
THEOREM LossNeedsOverlap == Spec => []LostOnlyByOverlap
<1>1. StatisticsInv => LostOnlyByOverlap
  BY DEF StatisticsInv, LostInv, LostOnlyByOverlap
<1> QED
  BY <1>1, StatisticsCorrect, PTL

\* A printed total exceeds the sum of the printed subkeys at most by the
\* additions that were half done when print() read the total.
THEOREM PrintIsExplained == Spec => []PrintExplained
<1>1. ASSUME StatisticsInv, main > Len(printStatistic), Len(printed) >= Len(printStatistic)
      PROVE  Shown("count") <= Cardinality(Units([k \in Subkeys |-> Shown(k)])) + behind
  <2> DEFINE L == Len(printStatistic)
             shown == [k \in Subkeys |-> Shown(k)]
  <2>1. PICK snap : Snapshot(snap)
    BY <1>1 DEF StatisticsInv, PrintInv, TotalShown
  <2>2. L \in Nat /\ L > 1 /\ DOMAIN printStatistic = 1 .. L
    BY PrintOrder
  <2>3. Shown("count") = printed[1]
    <3>1. 1 \in DOMAIN printStatistic /\ printStatistic[1] = "count"
      BY <2>2, PrintOrder
    <3>2. \A i \in DOMAIN printStatistic : printStatistic[i] = "count" => i = 1
      BY <2>2, PrintOrder, StatisticsAssumption
    <3>3. (CHOOSE i \in DOMAIN printStatistic : printStatistic[i] = "count") = 1
      BY <3>1, <3>2
    <3> QED
      BY <3>3 DEF Shown
  <2>4. ASSUME NEW k \in Subkeys
        PROVE  \E i \in 2 .. L : printStatistic[i] = k /\ Shown(k) = printed[i]
    <3>1. PICK i \in 2 .. L :
            printStatistic[i] = k /\ \A j \in 2 .. L : printStatistic[j] = k => j = i
      BY PrintOrder
    <3>2. \A j \in DOMAIN printStatistic : printStatistic[j] = k => j = i
      BY <2>2, <3>1, PrintOrder, StatisticsAssumption
    <3>3. (CHOOSE j \in DOMAIN printStatistic : printStatistic[j] = k) = i
      BY <2>2, <3>1, <3>2
    <3> QED
      BY <3>1, <3>3 DEF Shown
  <2>5. printed \in Seq(Nat) /\ bySubkey \in [Subkeys -> Nat] /\ behind \in Int
    BY <1>1 DEF StatisticsInv, TypeOK
  <2>6. ASSUME NEW k \in Subkeys
        PROVE  Shown(k) \in Nat /\ snap[k] <= Shown(k) /\ Shown(k) <= bySubkey[k]
    <3>1. PICK i \in 2 .. L : printStatistic[i] = k /\ Shown(k) = printed[i]
      BY <2>4
    <3>2. i <= Len(printed) /\ i \in 1 .. Len(printed)
      BY <1>1, <2>2, <2>5, <3>1
    <3> QED
      BY <2>1, <2>5, <3>1, <3>2 DEF Snapshot
  <2>7. shown \in [Subkeys -> Nat] /\ \A k \in Subkeys : shown[k] = Shown(k)
    BY <2>6
  <2> HIDE DEF shown, L
  <2>8. IsFiniteSet(Units(bySubkey))
    BY <1>1 DEF StatisticsInv, SumInv
  <2>9. IsFiniteSet(Units(shown)) /\ Cardinality(Units(shown)) \in Nat
    BY <2>5, <2>6, <2>7, <2>8, UnitsMonotone
  <2>10. Cardinality(Units(snap)) \in Nat /\ Cardinality(Units(snap)) <= Cardinality(Units(shown))
    <3>1. snap \in [Subkeys -> Nat] /\ \A k \in Subkeys : snap[k] <= shown[k]
      BY <2>1, <2>6, <2>7 DEF Snapshot
    <3> QED
      BY <2>7, <2>9, <3>1, UnitsMonotone
  <2>11. printed[1] <= Cardinality(Units(snap)) + behind /\ printed[1] \in Nat
    <3>1. 1 \in 1 .. Len(printed)
      BY <1>1, <2>2, <2>5 DEF L
    <3> QED
      BY <2>1, <2>5, <3>1 DEF Snapshot
  <2> QED
    BY <2>3, <2>5, <2>9, <2>10, <2>11 DEF shown
<1>2. StatisticsInv => PrintExplained
  BY <1>1 DEF PrintExplained
<1> QED
  BY <1>2, StatisticsCorrect, PTL

=============================================================================
