---------------------------- MODULE LookupProofs ----------------------------
(***************************************************************************)
(* Where a lookup ends: in the buckets of a hash set (HashBuckets), and in *)
(* a posting list behind its skip table (PostingList), which never changes *)
(* what Seek finds.                                                        *)
(***************************************************************************)
EXTENDS HashBuckets, PostingList, WellFoundedInduction, FiniteSetTheorems, TLAPS

(* A set of naturals that is not empty has a least element.                *)
LEMMA SomeLeast ==
  ASSUME NEW S, S \subseteq Nat, S # {}
  PROVE  \E m \in S : \A e \in S : m <= e
<1>1. PICK d \in S : \A e \in S : ~ (<<e, d>> \in OpToRel(<, Nat))
  BY NatLessThanWellFounded, WFMin, Zenon
<1>2. \A e \in S : ~ (e < d)
  BY <1>1 DEF OpToRel
<1>3. QED
  BY <1>2

LEMMA LeastExists ==
  ASSUME NEW S, S \subseteq Nat, S # {}
  PROVE  Least(S) \in S /\ \A e \in S : Least(S) <= e
BY SomeLeast, Zenon DEF Least

(* LeastOrZero is the least element of a set that has one.                 *)
LEMMA LeastOrZeroLeast ==
  ASSUME NEW S, S \subseteq Nat, S # {}
  PROVE  LeastOrZero(S) \in S /\ \A j \in S : LeastOrZero(S) <= j
BY SomeLeast, Zenon DEF LeastOrZero

-----------------------------------------------------------------------------
(* The buckets of a hash set                                               *)

LEMMA ModUnique ==
  ASSUME NEW n \in Nat, NEW q \in Nat, NEW i \in 0 .. n - 1
  PROVE  (n * q + i) % n = i
  OBVIOUS

(* Linear probing reaches every bucket: some distance leads from any hash  *)
(* value h to any index i of a table of n buckets.                         *)
LEMMA ProbeReaches ==
  ASSUME NEW n \in Nat, NEW i \in 0 .. n - 1, NEW h \in Nat
  PROVE  \E d \in 0 .. n - 1 : (h + d) % n = i
<1> DEFINE q == h \div n
           r == h % n
<1>1. q \in Nat /\ r \in 0 .. n - 1 /\ h = n * q + r
  OBVIOUS
<1> HIDE DEF q, r
<1>2. CASE i >= r
  <2>1. h + (i - r) = n * q + i
    BY <1>1, <1>2
  <2>2. (h + (i - r)) % n = i
    BY <2>1, <1>1, ModUnique
  <2>3. i - r \in 0 .. n - 1
    BY <1>1, <1>2
  <2>4. QED
    BY <2>2, <2>3
<1>3. CASE i < r
  <2>1. n * q + n = n * (q + 1)
    BY <1>1
  <2>2. h + (i + n - r) = n * (q + 1) + i
    BY <1>1, <1>3, <2>1
  <2>3. (h + (i + n - r)) % n = i
    BY <2>2, <1>1, ModUnique
  <2>4. i + n - r \in 0 .. n - 1
    BY <1>1, <1>3
  <2>5. QED
    BY <2>3, <2>4
<1>4. QED
  BY <1>1, <1>2, <1>3

(* A table of n buckets with the indices 0 .. n - 1.                       *)
IsTable(B, n) == n \in Nat \ {0} /\ DOMAIN B = 0 .. n - 1

LEMMA BucketsCounted ==
  ASSUME NEW B, NEW n, IsTable(B, n)
  PROVE  NumBuckets(B) = n
<1>1. Cardinality(0 .. n - 1) = n
  BY FS_Interval DEF IsTable
<1>2. QED
  BY <1>1 DEF NumBuckets, IsTable

(* The search for a place finds one that is not in use if there is one.    *)
THEOREM FreeIndexFree ==
  ASSUME NEW B, NEW n, IsTable(B, n), NEW key, HashOf[key] \in Nat,
         InUse(B) # 0 .. n - 1
  PROVE  /\ FreeIndex(B, key) \in 0 .. n - 1
         /\ FreeIndex(B, key) \notin InUse(B)
<1> DEFINE S == {d \in Distances(B) : B[Slot(B, key, d)].status # "Filled"}
<1>1. NumBuckets(B) = n
  BY BucketsCounted
<1>2. PICK i \in 0 .. n - 1 : i \notin InUse(B)
  BY DEF InUse, IsTable
<1>3. PICK d \in 0 .. n - 1 : (HashOf[key] + d) % n = i
  BY ProbeReaches DEF IsTable
<1>4. d \in S
  BY <1>1, <1>2, <1>3 DEF Distances, Slot, InUse, IsTable
<1>5. S \subseteq Nat
  BY <1>1 DEF Distances, IsTable
<1>6. Least(S) \in S
  BY <1>4, <1>5, LeastExists
<1>7. Slot(B, key, Least(S)) \in 0 .. n - 1
  <2>1. \A e \in Nat : (HashOf[key] + e) % n \in 0 .. n - 1
    BY DEF IsTable
  <2>2. Least(S) \in Nat
    BY <1>5, <1>6
  <2>3. QED
    BY <1>1, <2>1, <2>2 DEF Slot
<1>8. FreeIndex(B, key) = Slot(B, key, Least(S))
  BY DEF FreeIndex
<1>9. QED
  BY <1>6, <1>7, <1>8 DEF InUse

-----------------------------------------------------------------------------
(* Posting lists                                                           *)

LEMMA DivNat ==
  ASSUME NEW w \in Nat \ {0}, NEW x \in Nat
  PROVE  x \div w \in Nat
  OBVIOUS

(* Division is monotone.                                                   *)
LEMMA DivMonotone ==
  ASSUME NEW w \in Nat \ {0}, NEW x \in Nat, NEW y \in Nat, x <= y
  PROVE  x \div w <= y \div w
<1> DEFINE q == x \div w
           p == y \div w
<1>1. q \in Nat /\ w * q <= x
  OBVIOUS
<1>2. p \in Nat /\ y < w * p + w
  OBVIOUS
<1> HIDE DEF q, p
<1>3. w * q < w * p + w
  BY <1>1, <1>2
<1>4. CASE q >= p + 1
  <2>1. PICK k \in Nat : q = p + 1 + k
    BY <1>1, <1>2, <1>4
  <2>2. w * q = w * p + w + w * k
    BY <2>1, <1>1, <1>2
  <2>3. w * k \in Nat /\ w * p \in Nat
    BY <2>1, <1>2
  <2>4. QED
    BY <2>2, <2>3, <1>3
<1>5. CASE q <= p
  BY <1>5 DEF q, p
<1>6. QED
  BY <1>1, <1>2, <1>4, <1>5

(* A list as the builders write it: its table is the one that addPost      *)
(* fills in.                                                               *)
IsList(l) ==
  /\ l.posts \in Seq(Nat)
  /\ l.width \in Nat \ {0}
  /\ l.size \in Nat
  /\ l.table = SkipTable(l.posts, l.width, l.size)

(* The posts that are not before a target                                  *)
NotBefore(l, target) == {i \in DOMAIN l.posts : l.posts[i] >= target}

(* For every list, every width of the intervals and every size of the      *)
(* table: a Seek whose index is in the table finds the first post that is  *)
(* not before the target, and none only when there is none.  (What a       *)
(* reader makes of none is its own: that of words returns the null         *)
(* pointer, that of documents reads on, see Seek.)                         *)
THEOREM SeekFindsFirst ==
  ASSUME NEW l, IsList(l), NEW target \in Nat, InTable(l, target)
  PROVE  Seek(l, target) = LeastOrZero(NotBefore(l, target))
<1> DEFINE k == target \div l.width
           I == {i \in DOMAIN l.posts : l.posts[i] \div l.width >= k}
           S == NotBefore(l, target)
           from == LeastOrZero(I)
           T == {i \in from .. Len(l.posts) : l.posts[i] >= target}
<1>1. k \in 0 .. l.size - 1
  <2>1. k \in Nat
    BY DEF IsList
  <2>2. QED
    BY <2>1 DEF InTable, IsList
<1>2. l.table[k] = from
  BY <1>1 DEF IsList, SkipTable, SkipEntry
<1>3. DOMAIN l.posts = 1 .. Len(l.posts) /\ Len(l.posts) \in Nat
  BY DEF IsList
<1>4. S \subseteq Nat /\ I \subseteq Nat /\ 0 \notin I
  BY <1>3 DEF NotBefore
<1>5. S \subseteq I
  <2>1. SUFFICES ASSUME NEW i \in S
                 PROVE  l.posts[i] \div l.width >= k
    BY DEF NotBefore
  <2>2. l.posts[i] \in Nat /\ target <= l.posts[i]
    BY DEF NotBefore, IsList
  <2>3. target \div l.width <= l.posts[i] \div l.width
    BY <2>2, DivMonotone DEF IsList
  <2>4. l.posts[i] \div l.width \in Nat /\ k \in Nat
    BY <2>2, DivNat DEF IsList
  <2>5. QED
    BY <2>3, <2>4
<1>6. CASE I = {}
  <2>1. from = 0
    BY <1>6 DEF LeastOrZero
  <2>2. S = {}
    BY <1>5, <1>6
  <2>3. Seek(l, target) = 0
    BY <1>2, <2>1 DEF Seek
  <2>4. QED
    BY <2>2, <2>3 DEF LeastOrZero
<1>7. CASE I # {}
  <2>1. from \in I /\ \A j \in I : from <= j
    BY <1>4, <1>7, LeastOrZeroLeast
  <2>2. from \in Nat /\ from # 0
    BY <1>4, <2>1
  <2>3. Seek(l, target) = LeastOrZero(T)
    BY <1>2, <2>2 DEF Seek
  <2>4. T = S
    <3>1. T \subseteq S
      <4>1. SUFFICES ASSUME NEW i \in T PROVE i \in DOMAIN l.posts
        BY DEF NotBefore
      <4>2. i \in from .. Len(l.posts)
        OBVIOUS
      <4>3. QED
        BY <1>3, <2>2, <4>2
    <3>2. S \subseteq T
      BY <1>3, <1>4, <1>5, <2>1 DEF NotBefore
    <3>3. QED
      BY <3>1, <3>2
  <2>5. QED
    BY <2>3, <2>4
<1>8. QED
  BY <1>6, <1>7

=============================================================================
