----------------------------- MODULE OffsetLookup ----------------------------
(***************************************************************************)
(* OffsetLookupChunk (include/disk/offset_lookup.hpp): a hash table that   *)
(* does not keep its keys.  A bucket has the offset of a URL in the URL    *)
(* store, and every comparison reads the store.  An offset is the position *)
(* of the URL in the sequence store.                                       *)
(***************************************************************************)
EXTENDS HashTable

CONSTANTS Keys, Absent, NoResult,
          InitialSize,   \* INITIAL_SIZE
          MaxSize,       \* bound: buckets
          MaxStore       \* bound: URLs in the store

VARIABLES table, store, result

vars == <<table, store, result>>

Init == table = NewTable(InitialSize) /\ store = <<>> /\ result = NoResult

getUrl(s, offset) == s[offset]

(* The buckets with the key that a comparison sees in each: a ghost's is   *)
(* not read.                                                               *)
Compared(t, s) ==
  [i \in DOMAIN t.buckets |->
     IF t.buckets[i].status = "Filled"
       THEN [t.buckets[i] EXCEPT !.key = getUrl(s, t.buckets[i].val)]
       ELSE t.buckets[i]]

(* Put without a key                                                       *)
Noted(t, s, key, offset) ==
  LET i == FreeIndex(Compared(t, s), key) IN
    [buckets  |-> [t.buckets EXCEPT ![i] = Cell("Filled", NoKey, offset)],
     elements |-> t.elements + 1,
     ghosts   |-> IF t.buckets[i].status = "Ghost" THEN t.ghosts - 1 ELSE t.ghosts]

(* rehash_and_grow looks every URL up again.                               *)
Regrown(t, s) ==
  IF Overloaded(t)
    THEN FoldLeft(LAMBDA acc, b : Noted(acc, s, getUrl(s, b.val), b.val),
                  NewTable(2 * SizeOf(t)), InOrder(t))
    ELSE t

Calling == Overloaded(table) => 2 * SizeOf(table) <= MaxSize

OffsetOf(t, s, key) == t.buckets[IndexOf(Compared(t, s), key)].val

(* operator[]: an absent URL is added to the store.                        *)
Index(key) ==
  LET t == Regrown(table, store) IN
    /\ Calling
    /\ IF Present(Compared(t, store), key)
         THEN table' = t /\ UNCHANGED store
         ELSE /\ Len(store) < MaxStore
              /\ store' = Append(store, key)
              /\ table' = Noted(t, store, key, Len(store) + 1)
    /\ result' = <<"intern", key, OffsetOf(table', store', key)>>

(* find is given the hash as well.  at calls rehash_and_grow without its   *)
(* argument and cannot be compiled.                                        *)
find(key) == Index(key)

(* insert is given the offset of the key.                                  *)
Insert(key, offset) ==
  LET t == Regrown(table, store) IN
    /\ Calling
    /\ getUrl(store, offset) = key
    /\ IF Present(Compared(t, store), key)
         THEN table' = t /\ result' = <<"insert", key, Absent>>
         ELSE table' = Noted(t, store, key, offset) /\ result' = <<"insert", key, offset>>
    /\ UNCHANGED store

(* Mutant of Erase: the bucket becomes Empty.                              *)
EraseToEmpty(key) ==
  /\ IF Present(Compared(table, store), key)
       THEN /\ table' = [table EXCEPT !.buckets[IndexOf(Compared(table, store), key)].status = "Empty",
                                      !.elements = @ - 1]
            /\ result' = <<"erase", key, 1>>
       ELSE UNCHANGED table /\ result' = <<"erase", key, 0>>
  /\ UNCHANGED store

Erase(key) ==
  /\ IF Present(Compared(table, store), key)
       THEN /\ table' = [table EXCEPT !.buckets[IndexOf(Compared(table, store), key)].status = "Ghost",
                                      !.elements = @ - 1, !.ghosts = @ + 1]
            /\ result' = <<"erase", key, 1>>
       ELSE UNCHANGED table /\ result' = <<"erase", key, 0>>
  /\ UNCHANGED store

Clear == table' = Cleared(table) /\ result' = <<"clear">> /\ UNCHANGED store

Next ==
  \/ \E k \in Keys : Index(k) \/ find(k) \/ Erase(k)
  \/ \E k \in Keys, i \in DOMAIN store : Insert(k, i)
  \/ Clear

-----------------------------------------------------------------------------
(* The table maps URLs to offsets, with colliding hashes, reused ghosts    *)
(* and growth, although it never holds a URL: an absent URL gets an offset *)
(* no other URL has.                                                       *)
Abstract == INSTANCE KeyMap WITH
              map <- Contents([table EXCEPT !.buckets = Compared(table, store)]),
              Values <- 1 .. MaxStore, Default <- Absent

=============================================================================
