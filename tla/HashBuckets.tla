----------------------------- MODULE HashBuckets -----------------------------
(***************************************************************************)
(* The buckets of fb::UnorderedSet (include/fb/unordered_set.hpp): open    *)
(* addressing with linear probing, where an erased key leaves a ghost.     *)
(* A table B is a function from 0 .. n - 1 to buckets.  UnorderedMap has   *)
(* the same buckets with values.                                           *)
(***************************************************************************)
EXTENDS Naturals, FiniteSets

CONSTANTS HashOf,   \* [keys -> Nat], the hash function
          NoKey     \* the key of a bucket that never had one

Bucket(status, key) == [status |-> status, key |-> key]

NewBuckets(n) == [i \in 0 .. n - 1 |-> Bucket("Empty", NoKey)]

NumBuckets(B) == Cardinality(DOMAIN B)

InUse(B) == {i \in DOMAIN B : B[i].status = "Filled"}
Ghosts(B) == {i \in DOMAIN B : B[i].status = "Ghost"}

(* The bucket at distance d from the one that key hashes to                *)
Slot(B, key, d) == (HashOf[key] + d) % NumBuckets(B)

Distances(B) == 0 .. NumBuckets(B) - 1

Least(S) == CHOOSE d \in S : \A e \in S : d <= e

Holds(B, i, key) == B[i].status = "Filled" /\ B[i].key = key

(* Mutant of Hits: a ghost ends the search as well.                        *)
HitsToGhost(B, key) ==
  {d \in Distances(B) :
     /\ Holds(B, Slot(B, key, d), key)
     /\ \A e \in 0 .. d : B[Slot(B, key, e)].status = "Filled"}

(* The distances at which the search for key finds it: it goes on until it *)
(* does, or until a bucket is Empty.                                       *)
Hits(B, key) ==
  {d \in Distances(B) :
     /\ Holds(B, Slot(B, key, d), key)
     /\ \A e \in 0 .. d : B[Slot(B, key, e)].status # "Empty"}

Present(B, key) == Hits(B, key) # {}
IndexOf(B, key) == Slot(B, key, Least(Hits(B, key)))

(* Where an absent key is put: the first bucket that is not in use, which  *)
(* may be a ghost.                                                         *)
FreeIndex(B, key) ==
  Slot(B, key, Least({d \in Distances(B) :
                        B[Slot(B, key, d)].status # "Filled"}))

(* What the bucket gets is a copy of key, for a file descriptor another    *)
(* number.                                                                 *)
Put(B, key, copy) == [B EXCEPT ![FreeIndex(B, key)] = Bucket("Filled", copy)]

(* The key stays in the bucket.                                            *)
Erased(B, key) == [B EXCEPT ![IndexOf(B, key)].status = "Ghost"]

(* Iteration.  On an empty set begin() counts to the end, but Iterator's   *)
(* constructor takes that index modulo the size: begin() is bucket 0, and  *)
(* differs from end().                                                     *)
Begin(B) == IF InUse(B) = {} THEN 0 ELSE Least(InUse(B))
End(B) == NumBuckets(B)

(* Mutant of Following: the next bucket is skipped.                        *)
FollowingFar(B, i) ==
  LET later == {j \in InUse(B) : j > i + 1} IN
  IF later = {} THEN End(B) ELSE Least(later)

Following(B, i) ==
  LET later == {j \in InUse(B) : j > i} IN
  IF later = {} THEN End(B) ELSE Least(later)

=============================================================================
