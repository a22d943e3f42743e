------------------------- MODULE NoDeleteUnorderedMap ------------------------
(***************************************************************************)
(* fb::NoDeleteUnorderedMap (include/fb/no_delete_unordered_map.hpp), the  *)
(* map from words to posting lists of the index builder: without erase     *)
(* there are no ghosts, and the first bucket that is not in use ends every *)
(* search and is where the key goes.                                       *)
(***************************************************************************)
EXTENDS HashTable

CONSTANTS Keys, Values, Default, Absent, NoResult,
          InitialSize,   \* INITIAL_SIZE
          RehashSizes,   \* the n of rehash(n) and reserve(n)
          MaxSize        \* bound: buckets

VARIABLES table, valid, result

vars == <<table, valid, result>>

Init == table = NewTable(InitialSize) /\ valid = TRUE /\ result = NoResult

(* Mutant of findPlaceToInsert: every used bucket matches.                 *)
findFirstPlace(t, key) == Slot(t.buckets, key, 0)

findPlaceToInsert(t, key) ==
  Slot(t.buckets, key,
       Least({d \in Distances(t.buckets) :
                LET i == Slot(t.buckets, key, d) IN
                  t.buckets[i].status = "Empty" \/ t.buckets[i].key = key}))

IsFree(t, i) == t.buckets[i].status = "Empty"

Stored(t, key, val) ==
  LET i == findPlaceToInsert(t, key) IN
    IF IsFree(t, i)
      THEN [t EXCEPT !.buckets[i] = Cell("Filled", key, val), !.elements = @ + 1]
      ELSE t

Regrown(t, n) ==
  FoldLeft(LAMBDA acc, b : Stored(acc, b.key, b.val), NewTable(n), InOrder(t))

Enlarged(t) == IF Overloaded(t) THEN Regrown(t, 2 * SizeOf(t)) ELSE t

At(t, key) == t.buckets[findPlaceToInsert(t, key)].val

Calling == valid /\ (Overloaded(table) => 2 * SizeOf(table) <= MaxSize)

Find(key) ==
  /\ Calling
  /\ table' = Enlarged(table)
  /\ result' = <<"find", key, IF IsFree(table', findPlaceToInsert(table', key)) THEN Absent
                         ELSE At(table', key)>>
  /\ UNCHANGED valid

Insert(key, val) ==
  /\ Calling
  /\ table' = Stored(Enlarged(table), key, val)
  /\ result' = <<"put", key, At(table', key)>>
  /\ UNCHANGED valid

Index(key) ==
  /\ Calling
  /\ table' = Stored(Enlarged(table), key, Default)
  /\ result' = <<"index", key, At(table', key)>>
  /\ UNCHANGED valid

(* operator[] and an assignment; so is the call that hands out the bucket  *)
(* (functionThatIsOnlyForJIaeyoon...): it counts an element, and its       *)
(* caller is to fill the bucket.                                           *)
Assign(key, val) ==
  LET t == Stored(Enlarged(table), key, Default) IN
    /\ Calling
    /\ table' = [t EXCEPT !.buckets[findPlaceToInsert(t, key)].val = val]
    /\ result' = <<"assign", key, val>>
    /\ UNCHANGED valid

Rehash(n) ==
  /\ valid
  /\ table' = FoldLeft(LAMBDA acc, b : Stored(Enlarged(acc), b.key, b.val),
                       NewTable(n), InOrder(table))
  /\ SizeOf(table') <= MaxSize
  /\ result' = NoResult
  /\ UNCHANGED valid

(* After it the map may only be destroyed.                                 *)
ConvertToVector ==
  /\ valid
  /\ result' = <<"vector", Absent, ToSet([i \in DOMAIN InOrder(table) |->
                                    <<InOrder(table)[i].key, InOrder(table)[i].val>>])>>
  /\ valid' = FALSE
  /\ UNCHANGED table

Next ==
  \/ \E k \in Keys : Find(k) \/ Index(k)
  \/ \E k \in Keys, v \in Values : Insert(k, v) \/ Assign(k, v)
  \/ \E n \in RehashSizes : Rehash(n)
  \/ ConvertToVector

-----------------------------------------------------------------------------
(* Every call returns what a partial function returns.                     *)
Abstract == INSTANCE KeyMap WITH
              map <- IF valid THEN Contents(table) ELSE <<>>

=============================================================================
