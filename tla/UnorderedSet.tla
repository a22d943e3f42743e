----------------------------- MODULE UnorderedSet ----------------------------
(***************************************************************************)
(* fb::UnorderedSet (include/fb/unordered_set.hpp): a long sequence of     *)
(* calls on one table, with growth, ghosts and clear.  A walk over the     *)
(* table from begin() to end() may be mixed with erasures of keys it has   *)
(* passed, as in the query server.                                         *)
(***************************************************************************)
EXTENDS Sequences, FiniteSetsExt, SequencesExt, HashBuckets

CONSTANTS Keys,
          InitialSize,   \* USET_INITIAL_SIZE
          MaxSize,       \* bound: buckets
          Absent,        \* end(), or FALSE
          NoResult,
          NoWalk

ASSUME SizeAssumption ==
  InitialSize \in Nat /\ MaxSize \in Nat /\ InitialSize > 2
ASSUME HashAssumption == HashOf \in [Keys -> Nat]

VARIABLES buckets, num_elements, num_ghosts,
          result,    \* what the last call returned
          walk,      \* the index the iterator is at, or NoWalk
          visited,   \* history: the keys the walk has visited
          begun      \* history: the keys of the set when the walk began

vars == <<buckets, num_elements, num_ghosts, result, walk, visited, begun>>

Init ==
  /\ buckets = NewBuckets(InitialSize)
  /\ num_elements = 0 /\ num_ghosts = 0
  /\ result = NoResult
  /\ walk = NoWalk /\ visited = <<>> /\ begun = {}

Elements(B) == {B[i].key : i \in InUse(B)}

(* Mutant of MustGrow: ghosts do not count.                                *)
MustGrowGhostless ==
  num_elements * 2 > NumBuckets(buckets)

(* num_elements + num_ghosts > buckets.size() * max_load                   *)
MustGrow == (num_elements + num_ghosts) * 2 > NumBuckets(buckets)

(* rehash_and_grow puts the keys into fresh buckets in the order of the    *)
(* old ones.                                                               *)
Rehashed(B, n) ==
  FoldLeft(LAMBDA acc, b : IF b.status = "Filled" THEN Put(acc, b.key, b.key)
                           ELSE acc,
           NewBuckets(n), [i \in 1 .. NumBuckets(B) |-> B[i - 1]])

(* Every call but erase and clear begins with the test of the load.        *)
Prepared ==
  IF MustGrow
    THEN [buckets |-> Rehashed(buckets, 2 * NumBuckets(buckets)), ghosts |-> 0]
    ELSE [buckets |-> buckets, ghosts |-> num_ghosts]

-----------------------------------------------------------------------------
Calling ==
  /\ walk = NoWalk
  /\ MustGrow => 2 * NumBuckets(buckets) <= MaxSize

Find(key) ==
  /\ Calling
  /\ buckets' = Prepared.buckets
  /\ num_ghosts' = Prepared.ghosts
  /\ result' = <<"find", key, IF Present(buckets', key) THEN key ELSE Absent>>
  /\ UNCHANGED <<num_elements, walk, visited, begun>>

(* The common part of insert and operator[]                                *)
Add(key) ==
  LET B == Prepared.buckets IN
    IF Present(B, key)
      THEN /\ buckets' = B
           /\ num_ghosts' = Prepared.ghosts
           /\ UNCHANGED num_elements
      ELSE /\ buckets' = Put(B, key, key)
           /\ num_ghosts' = IF B[FreeIndex(B, key)].status = "Ghost"
                            THEN Prepared.ghosts - 1 ELSE Prepared.ghosts
           /\ num_elements' = num_elements + 1

Insert(key) ==
  /\ Calling
  /\ Add(key)
  /\ result' = <<"insert", key, IF Present(Prepared.buckets, key) THEN Absent ELSE key>>
  /\ UNCHANGED <<walk, visited, begun>>

(* operator[] returns the key in its bucket.                               *)
Index(key) ==
  /\ Calling
  /\ Add(key)
  /\ result' = <<"put", key, buckets'[IndexOf(buckets', key)].key>>
  /\ UNCHANGED <<walk, visited, begun>>

(* Mutant of Erase: the ghost is not counted.                              *)
EraseUncounted(key) ==
  /\ walk = NoWalk \/ key \in ToSet(visited)
  /\ IF Present(buckets, key)
       THEN /\ buckets' = Erased(buckets, key)
            /\ num_elements' = num_elements - 1
            /\ result' = <<"erase", key, 1>>
       ELSE UNCHANGED <<buckets, num_elements>> /\ result' = <<"erase", key, 0>>
  /\ UNCHANGED <<num_ghosts, walk, visited, begun>>

Erase(key) ==
  /\ walk = NoWalk \/ key \in ToSet(visited)
  /\ IF Present(buckets, key)
       THEN /\ buckets' = Erased(buckets, key)
            /\ num_elements' = num_elements - 1
            /\ num_ghosts' = num_ghosts + 1
            /\ result' = <<"erase", key, 1>>
       ELSE UNCHANGED <<buckets, num_elements, num_ghosts>> /\ result' = <<"erase", key, 0>>
  /\ UNCHANGED <<walk, visited, begun>>

Clear ==
  /\ walk = NoWalk
  /\ buckets' = [i \in DOMAIN buckets |-> [buckets[i] EXCEPT !.status = "Empty"]]
  /\ num_elements' = 0 /\ num_ghosts' = 0
  /\ result' = <<"clear">>
  /\ UNCHANGED <<walk, visited, begun>>

(* for (it = begin(); it != end(); ++it)                                   *)
WalkBegin ==
  /\ walk = NoWalk
  /\ walk' = Begin(buckets)
  /\ visited' = <<>>
  /\ begun' = Elements(buckets)
  /\ UNCHANGED <<buckets, num_elements, num_ghosts, result>>

WalkStep ==
  /\ walk # NoWalk /\ walk # End(buckets)
  /\ visited' = Append(visited, buckets[walk].key)
  /\ walk' = Following(buckets, walk)
  /\ UNCHANGED <<buckets, num_elements, num_ghosts, result, begun>>

WalkEnd ==
  /\ walk # NoWalk /\ walk = End(buckets)
  /\ walk' = NoWalk
  /\ visited' = <<>> /\ begun' = {}
  /\ UNCHANGED <<buckets, num_elements, num_ghosts, result>>

Next ==
  \/ \E k \in Keys : Find(k) \/ Insert(k) \/ Index(k) \/ Erase(k)
  \/ Clear
  \/ WalkBegin \/ WalkStep \/ WalkEnd

Spec == Init /\ [][Next]_vars

-----------------------------------------------------------------------------
Statuses == {"Empty", "Filled", "Ghost"}

(* Types, and the two counters count what they say.                        *)
TypeOK ==
  /\ NumBuckets(buckets) \in InitialSize .. MaxSize
  /\ DOMAIN buckets = 0 .. NumBuckets(buckets) - 1
  /\ \A i \in DOMAIN buckets : /\ buckets[i].status \in Statuses
                               /\ buckets[i].key \in Keys \cup {NoKey}
  /\ num_elements = Cardinality(InUse(buckets))
  /\ num_ghosts = Cardinality(Ghosts(buckets))
  /\ walk \in (0 .. NumBuckets(buckets)) \cup {NoWalk}
  /\ visited \in Seq(Keys \cup {NoKey})

(* Every search ends: there is a bucket that is Empty, because ghosts      *)
(* count towards the load and only a rehash or clear takes them away.      *)
SearchesEnd == \E i \in DOMAIN buckets : buckets[i].status = "Empty"

(* A walk visits every key that was in the set when it began, once, while  *)
(* keys it has passed are erased.  On an empty set it visits bucket 0,     *)
(* which holds no key of the set.                                          *)
WalkExact ==
  (walk # NoWalk /\ walk = End(buckets) /\ begun # {}) =>
    ToSet(visited) = begun /\ Len(visited) = Cardinality(begun)

(* Every call returns what a set of keys returns, with colliding hashes,   *)
(* reused ghosts and growth in any order.                                  *)
Abstract == INSTANCE KeyMap WITH
              Values <- Keys, Default <- Absent, map <- [k \in Elements(buckets) |-> k]
ImplementsKeySet == Abstract!Spec

=============================================================================
