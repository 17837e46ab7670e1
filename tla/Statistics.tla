----------------------------- MODULE Statistics -----------------------------
(***************************************************************************)
(* The statistics the workers share (StatisticsManager.cpp,                *)
(* CounterStatistic.h, CounterStatistic.cpp, and Worker::senderLoop and    *)
(* the tail of Worker::sendRequest that use them).  A worker's thread      *)
(* looks its statistics up by name when it starts and keeps the pointers;  *)
(* the main thread prints all statistics while workers may still add.      *)
(*                                                                         *)
(* Names do not interact, so there is one histogram and one counter.  A    *)
(* worker creates at most one object of each, so an object is named after  *)
(* the worker that created it.  count_ is a plain integer: adding to it is *)
(* a load and a store.  External: the histogram (folly's quantile          *)
(* estimator, of which only the number of values is kept) and the map of   *)
(* subkeys, whose additions are atomic.  The subkey is the class name of   *)
(* an exception and never empty, so CounterStatistic::increase always adds *)
(* to it.                                                                  *)
(***************************************************************************)
EXTENDS Integers, Sequences, FiniteSets, SequencesExt

CONSTANTS
  Workers,       \* worker threads
  Subkeys,       \* classes of exceptions
  Amounts,       \* exceptions of one class reported at a time
  None,
  MaxAdds        \* bound: additions each worker makes

\* The locals of increase(n, subkey), and the value of count_ it has loaded.
Frames == [subkey : Subkeys, n : Amounts, loaded : Nat]

ASSUME StatisticsAssumption ==
  /\ None \notin Workers \cup Frames
  /\ IsFiniteSet(Subkeys) /\ Subkeys # {} /\ "count" \notin Subkeys
  /\ Amounts \subseteq Nat \ {0}
  /\ MaxAdds \in Nat

VARIABLES
  histo_map_, count_map_,   \* the object under the name, or None
  histogram,                \* values in each histogram
  count_, subkey_count_,    \* members of each CounterStatistic
  pc, adds,                 \* each worker's position and additions made
  histo, counter,           \* each worker's pointers
  frame,                    \* each worker's locals in increase()
  main,                     \* the main thread: steps of print() done
  printed,                  \* what print() has shown so far
  stored, added,            \* history: added to count_, and to all subkeys
  bySubkey, values,         \* history: added to each subkey, and to the histograms
  overlapped,               \* history: two workers were between load and store at once
  behind                    \* history: stored but not added to a subkey when print() read count_

maps == <<histo_map_, count_map_>>
objects == <<histogram, count_, subkey_count_>>
threads == <<pc, adds, histo, counter, frame>>
totals == <<stored, added, bySubkey, values>>
history == <<totals, overlapped, behind>>
vars == <<maps, objects, threads, main, printed, history>>

Init ==
  /\ histo_map_ = None /\ count_map_ = None
  /\ histogram = [o \in Workers |-> 0]
  /\ count_ = [o \in Workers |-> 0]
  /\ subkey_count_ = [o \in Workers |-> [k \in Subkeys |-> 0]]
  /\ pc = [w \in Workers |-> "histo"] /\ adds = [w \in Workers |-> 0]
  /\ histo = [w \in Workers |-> None] /\ counter = [w \in Workers |-> None]
  /\ frame = [w \in Workers |-> None]
  /\ main = 0 /\ printed = << >>
  /\ stored = 0 /\ added = 0 /\ bySubkey = [k \in Subkeys |-> 0] /\ values = 0
  /\ overlapped = FALSE /\ behind = 0

Goto(w, label) == pc' = [pc EXCEPT ![w] = label]

-----------------------------------------------------------------------------
(* StatisticsManager::print *)

\* Bug: the total is read after the subkeys.
TotalLast == SetToSeq(Subkeys) \o <<"count">>

\* What printStatistic reads, in order: the total, then each subkey.
printStatistic == <<"count">> \o SetToSeq(Subkeys)

\* Main holds the write lock of the counters until all are printed.
printing == main \in 1 .. Len(printStatistic)

\* withWLock: from here on no worker can look its counter up.
printBegins ==
  /\ main = 0
  /\ main' = 1
  /\ UNCHANGED <<maps, objects, threads, printed, history>>

\* Main prints the next number, if there is a counter at all.
printCounter ==
  LET item == printStatistic[main] IN
  /\ printing
  /\ main' = main + 1
  /\ IF count_map_ = None
       THEN UNCHANGED <<printed, behind>>
       ELSE /\ printed' = Append(printed, IF item = "count" THEN count_[count_map_]
                                          ELSE subkey_count_[count_map_][item])
            /\ behind' = IF item = "count" THEN stored - added ELSE behind
  /\ UNCHANGED <<maps, objects, threads, totals, overlapped>>

\* The histograms, under the write lock of their map.
printHistogram ==
  /\ main = Len(printStatistic) + 1
  /\ main' = main + 1
  /\ printed' = IF histo_map_ = None THEN printed ELSE Append(printed, histogram[histo_map_])
  /\ UNCHANGED <<maps, objects, threads, history>>

-----------------------------------------------------------------------------
(* The workers *)

\* Bug: an object is made without looking, and emplace keeps the old one.
NeverLooks(map, w) == w

\* Bug: an object is made and put in the map, but not returned.
NotReturned(map, w) == map

\* The object a worker finds under the name, or makes.
findOrMake(map, w) == IF map = None THEN w ELSE map

\* getContinuousStat(), one critical section.
getContinuousStat(w) ==
  /\ pc[w] = "histo"
  /\ histo' = [histo EXCEPT ![w] = findOrMake(histo_map_, w)]
  /\ histo_map_' = IF histo_map_ = None THEN w ELSE histo_map_
  /\ Goto(w, "counter")
  /\ UNCHANGED <<count_map_, objects, adds, counter, frame, main, printed, history>>

\* getCounterStat(), one critical section.
getCounterStat(w) ==
  /\ pc[w] = "counter"
  /\ ~printing
  /\ counter' = [counter EXCEPT ![w] = findOrMake(count_map_, w)]
  /\ count_map_' = IF count_map_ = None THEN w ELSE count_map_
  /\ Goto(w, "run")
  /\ UNCHANGED <<histo_map_, objects, adds, histo, frame, main, printed, history>>

\* A worker adds a value to its histogram.
addValue(w) ==
  /\ pc[w] = "run" /\ adds[w] < MaxAdds
  /\ adds' = [adds EXCEPT ![w] = @ + 1]
  /\ histogram' = [histogram EXCEPT ![histo[w]] = @ + 1]
  /\ values' = values + 1
  /\ UNCHANGED <<maps, count_, subkey_count_, pc, histo, counter, frame,
                 main, printed, stored, added, bySubkey, overlapped, behind>>

\* increase(n, subkey): the load of count_ ...
increase(w) ==
  /\ pc[w] = "run" /\ adds[w] < MaxAdds
  /\ adds' = [adds EXCEPT ![w] = @ + 1]
  /\ \E k \in Subkeys, amount \in Amounts :
       frame' = [frame EXCEPT ![w] = [subkey |-> k, n |-> amount, loaded |-> count_[counter[w]]]]
  /\ overlapped' = (overlapped \/ \E v \in Workers : pc[v] = "store")
  /\ Goto(w, "store")
  /\ UNCHANGED <<maps, objects, histo, counter, main, printed, totals, behind>>

\* Bug: the count is replaced.
Replaces(w) == frame[w].n

\* count_ + n, from the value loaded
increased(w) == frame[w].loaded + frame[w].n

\* ... its store ...
storeCount(w) ==
  /\ pc[w] = "store"
  /\ count_' = [count_ EXCEPT ![counter[w]] = increased(w)]
  /\ stored' = stored + frame[w].n
  /\ Goto(w, "subkey")
  /\ UNCHANGED <<maps, histogram, subkey_count_, adds, histo, counter, frame,
                 main, printed, added, bySubkey, values, overlapped, behind>>

\* n more of subkey k
plus(counts, k, n) == [counts EXCEPT ![k] = @ + n]

\* ... and the addition to the subkey.
addSubkey(w) ==
  /\ pc[w] = "subkey"
  /\ subkey_count_' = [subkey_count_ EXCEPT
                         ![counter[w]] = plus(@, frame[w].subkey, frame[w].n)]
  /\ added' = added + frame[w].n
  /\ bySubkey' = plus(bySubkey, frame[w].subkey, frame[w].n)
  /\ frame' = [frame EXCEPT ![w] = None]
  /\ Goto(w, "run")
  /\ UNCHANGED <<maps, histogram, count_, adds, histo, counter,
                 main, printed, stored, values, overlapped, behind>>

worker(w) ==
  \/ getContinuousStat(w) \/ getCounterStat(w) \/ addValue(w)
  \/ increase(w) \/ storeCount(w) \/ addSubkey(w)

Next ==
  \/ printBegins \/ printCounter \/ printHistogram
  \/ \E w \in Workers : worker(w)

Spec == Init /\ [][Next]_vars

-----------------------------------------------------------------------------
(* Properties *)

TypeOK ==
  /\ histo_map_ \in Workers \cup {None} /\ count_map_ \in Workers \cup {None}
  /\ histogram \in [Workers -> Nat] /\ count_ \in [Workers -> Nat]
  /\ subkey_count_ \in [Workers -> [Subkeys -> Nat]]
  /\ pc \in [Workers -> {"histo", "counter", "run", "store", "subkey"}]
  /\ adds \in [Workers -> 0 .. MaxAdds]
  /\ histo \in [Workers -> Workers \cup {None}]
  /\ counter \in [Workers -> Workers \cup {None}]
  /\ frame \in [Workers -> {None} \cup Frames]
  /\ \A w \in Workers :
       /\ histo[w] = None => pc[w] = "histo"
       /\ counter[w] = None => pc[w] \in {"histo", "counter"}
       /\ frame[w] = None <=> pc[w] \notin {"store", "subkey"}
  /\ main \in 0 .. Len(printStatistic) + 2
  /\ printed \in Seq(Nat)
  /\ stored \in Nat /\ added \in Nat /\ bySubkey \in [Subkeys -> Nat] /\ values \in Nat
  /\ overlapped \in BOOLEAN /\ behind \in Int

\* Whatever the workers add, in whichever order they start, is in the
\* statistics that print() can see: no worker holds an object of its own, and
\* no addition to a subkey or a histogram is lost.
NothingAside ==
  /\ count_map_ # None => subkey_count_[count_map_] = bySubkey
  /\ histo_map_ # None => histogram[histo_map_] = values

\* The total of a counter is never more than what was added; it is less only
\* if two workers added at the same time (count_ is not atomic).
LostOnlyByOverlap ==
  count_map_ # None =>
    /\ count_[count_map_] <= stored
    /\ ~overlapped => count_[count_map_] = stored

\* What print() has shown for an item.
Shown(item) == printed[CHOOSE i \in DOMAIN printStatistic : printStatistic[i] = item]

\* One element for each unit counted: a set whose size is the sum of counts.
Units(counts) == UNION {{k} \X (1 .. counts[k]) : k \in Subkeys}

\* The printed total of a counter exceeds the sum of its printed subkeys at
\* most by the additions that were half done when print() read the total,
\* although workers go on adding while it prints.
PrintExplained ==
  (main > Len(printStatistic) /\ Len(printed) >= Len(printStatistic)) =>
    Shown("count") <= Cardinality(Units([k \in Subkeys |-> Shown(k)])) + behind

=============================================================================
