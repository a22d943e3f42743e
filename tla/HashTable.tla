------------------------------ MODULE HashTable ------------------------------
(***************************************************************************)
(* A hash table with values as the record its members make up: the buckets *)
(* of HashBuckets with a value each, num_elements and num_ghosts.  What    *)
(* the calls of fb::UnorderedMap (include/fb/unordered_map.hpp) have in    *)
(* common; OffsetLookupChunk copied it.                                    *)
(***************************************************************************)
EXTENDS Sequences, SequencesExt, HashBuckets

CONSTANT NoVal   \* the value of a bucket that never had one

Cell(status, key, val) == [status |-> status, key |-> key, val |-> val]

NewTable(n) ==
  [buckets |-> [i \in 0 .. n - 1 |-> Cell("Empty", NoKey, NoVal)],
   elements |-> 0, ghosts |-> 0]

SizeOf(t) == NumBuckets(t.buckets)

(* Mutant of Overloaded: ghosts do not count.                              *)
OverloadedGhostless(t) == t.elements * 2 > SizeOf(t)

(* num_elements + num_ghosts > buckets.size() * max_load                   *)
Overloaded(t) == (t.elements + t.ghosts) * 2 > SizeOf(t)

(* Mutant of Filled: a ghost that is used again is still counted.          *)
FilledGhostKept(t, key, val) ==
  LET i == FreeIndex(t.buckets, key) IN
    [buckets  |-> [t.buckets EXCEPT ![i] = Cell("Filled", key, val)],
     elements |-> t.elements + 1,
     ghosts   |-> t.ghosts]

(* An absent key gets the first bucket that is not in use.                 *)
Filled(t, key, val) ==
  LET i == FreeIndex(t.buckets, key) IN
    [buckets  |-> [t.buckets EXCEPT ![i] = Cell("Filled", key, val)],
     elements |-> t.elements + 1,
     ghosts   |-> IF t.buckets[i].status = "Ghost" THEN t.ghosts - 1 ELSE t.ghosts]

InOrder(t) ==
  SelectSeq([i \in 1 .. SizeOf(t) |-> t.buckets[i - 1]],
            LAMBDA b : b.status = "Filled")

(* The elements in the order of the old buckets, into n fresh ones.        *)
Refilled(t, n) ==
  FoldLeft(LAMBDA acc, b : Filled(acc, b.key, b.val), NewTable(n), InOrder(t))

Grown(t) == IF Overloaded(t) THEN Refilled(t, 2 * SizeOf(t)) ELSE t

(* rehash_and_grow(n) inserts, and an insert into fewer buckets than the   *)
(* elements need grows the table under the loop.                           *)
Rehashed(t, n) ==
  FoldLeft(LAMBDA acc, b : Filled(Grown(acc), b.key, b.val),
           NewTable(n), InOrder(t))

Removed(t, key) ==
  [buckets  |-> Erased(t.buckets, key),
   elements |-> t.elements - 1,
   ghosts   |-> t.ghosts + 1]

(* Statuses only: keys and values stay where they are.                     *)
Cleared(t) ==
  [buckets |-> [i \in DOMAIN t.buckets |-> [t.buckets[i] EXCEPT !.status = "Empty"]],
   elements |-> 0, ghosts |-> 0]

ValueOf(t, key) == t.buckets[IndexOf(t.buckets, key)].val

(* What a table holds, as a partial function.                              *)
Contents(t) ==
  LET used == InUse(t.buckets) IN
    [k \in {t.buckets[i].key : i \in used} |->
       t.buckets[CHOOSE i \in used : t.buckets[i].key = k].val]

(* The counters count, and a search ends: some bucket is Empty.            *)
Sound(t) ==
  /\ t.elements = Cardinality(InUse(t.buckets))
  /\ t.ghosts = Cardinality(Ghosts(t.buckets))
  /\ \E i \in DOMAIN t.buckets : t.buckets[i].status = "Empty"

=============================================================================
