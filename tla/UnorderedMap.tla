----------------------------- MODULE UnorderedMap ----------------------------
(***************************************************************************)
(* fb::UnorderedMap (include/fb/unordered_map.hpp), as the web server      *)
(* keeps a form's options in one and robots.hpp its host names: any        *)
(* sequence of calls on one map.                                           *)
(***************************************************************************)
EXTENDS HashTable

CONSTANTS Keys, Values, Default, Absent, NoResult,
          InitialSize,   \* INITIAL_SIZE
          RehashSizes,   \* the n of rehash(n) and reserve(n)
          MaxSize        \* bound: buckets

VARIABLES table,     \* buckets, num_elements and num_ghosts
          valid,     \* FALSE once convert_to_vector has moved the keys out
          result     \* what the last call returned

vars == <<table, valid, result>>

Init == table = NewTable(InitialSize) /\ valid = TRUE /\ result = NoResult

Calling == valid /\ (Overloaded(table) => 2 * SizeOf(table) <= MaxSize)

(* find and at differ in what they do for a key that is not there: end()   *)
(* and out_of_range.                                                       *)
Find(key) ==
  /\ Calling
  /\ table' = Grown(table)
  /\ result' = <<"find", key, IF Present(table'.buckets, key) THEN ValueOf(table', key)
                         ELSE Absent>>
  /\ UNCHANGED valid

At(key) == Find(key)

(* operator[], and what the caller may assign to the reference             *)
Index(key) ==
  LET t == Grown(table) IN
    /\ Calling
    /\ table' = IF Present(t.buckets, key) THEN t ELSE Filled(t, key, Default)
    /\ result' = <<"index", key, ValueOf(table', key)>>
    /\ UNCHANGED valid

Assign(key, val) ==
  LET t == Grown(table)
      u == IF Present(t.buckets, key) THEN t ELSE Filled(t, key, Default)
  IN
    /\ Calling
    /\ table' = [u EXCEPT !.buckets[IndexOf(u.buckets, key)].val = val]
    /\ result' = <<"assign", key, val>>
    /\ UNCHANGED valid

Insert(key, val) ==
  LET t == Grown(table) IN
    /\ Calling
    /\ IF Present(t.buckets, key)
         THEN table' = t /\ result' = <<"insert", key, Absent>>
         ELSE table' = Filled(t, key, val) /\ result' = <<"insert", key, val>>
    /\ UNCHANGED valid

(* erase is the one lookup that does not test the load.                    *)
Erase(key) ==
  /\ valid
  /\ IF Present(table.buckets, key)
       THEN table' = Removed(table, key) /\ result' = <<"erase", key, 1>>
       ELSE UNCHANGED table /\ result' = <<"erase", key, 0>>
  /\ UNCHANGED valid

Clear ==
  /\ table' = Cleared(table)
  /\ valid' = TRUE
  /\ result' = <<"clear">>

Rehash(n) ==
  /\ valid
  /\ table' = Rehashed(table, n)
  /\ SizeOf(table') <= MaxSize
  /\ result' = NoResult
  /\ UNCHANGED valid

(* The buckets stay Filled, with keys and values that were moved from.     *)
ConvertToVector ==
  /\ valid
  /\ result' = <<"vector", Absent, ToSet([i \in DOMAIN InOrder(table) |->
                                    <<InOrder(table)[i].key, InOrder(table)[i].val>>])>>
  /\ table' = [table EXCEPT !.buckets =
                 [i \in DOMAIN table.buckets |->
                    IF table.buckets[i].status = "Filled" THEN Cell("Filled", NoKey, NoVal)
                    ELSE table.buckets[i]]]
  /\ valid' = FALSE

Next ==
  \/ \E k \in Keys : Find(k) \/ At(k) \/ Index(k) \/ Erase(k)
  \/ \E k \in Keys, v \in Values : Assign(k, v) \/ Insert(k, v)
  \/ \E n \in RehashSizes : Rehash(n)
  \/ Clear \/ ConvertToVector

-----------------------------------------------------------------------------
(* Every call returns what a partial function returns, with colliding      *)
(* hashes, reused ghosts, growth and rehashing in any order.               *)
Abstract == INSTANCE KeyMap WITH
              map <- IF valid THEN Contents(table) ELSE <<>>

=============================================================================
