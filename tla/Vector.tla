-------------------------------- MODULE Vector --------------------------------
(***************************************************************************)
(* fb::Vector (include/fb/vector.hpp): a buffer of cells of which the      *)
(* first size_ hold objects and the others raw memory.  The code of the    *)
(* vector constructs, moves and destroys the objects itself.               *)
(***************************************************************************)
EXTENDS Integers, Sequences, SequencesExt, FiniteSetsExt

CONSTANTS Values, Names,
          Raw,           \* a cell without an object
          Unset,         \* an object that nothing has been assigned to
          NoResult,
          MaxTotal       \* bound: objects in all vectors

VARIABLES vecs,      \* [Names -> vectors]
          result

vars == <<vecs, result>>

Empty == [cells |-> <<>>, size |-> 0]

Cells(n, val) == [i \in 1 .. n |-> val]

Contents(v) == SubSeq(v.cells, 1, v.size)

(* The objects are moved to a buffer half again as large as is asked for.  *)
AllocMem(v, mem) ==
  IF Len(v.cells) >= mem THEN v
  ELSE [v EXCEPT !.cells = Contents(v) \o Cells((3 * mem) \div 2 - v.size, Raw)]

(* insert at idx, of one item or several: objects are constructed at the   *)
(* end, and all behind idx move up.                                        *)
Inserted(v, idx, items) ==
  LET k == Len(items)
      u == AllocMem(v, v.size + k)
      Moved(i) == CASE i <= idx \/ i > v.size + k -> u.cells[i]
                    [] i > idx /\ i <= idx + k -> items[i - idx]
                    [] OTHER -> u.cells[i - k]
  IN [cells |-> [i \in DOMAIN u.cells |-> Moved(i)], size |-> v.size + k]

(* Mutant of Erased: the object at idx is destroyed, the last one stays.   *)
ErasedUndestroyed(v, idx) ==
  [cells |-> [i \in DOMAIN v.cells |->
                IF i > idx /\ i < v.size THEN v.cells[i + 1] ELSE v.cells[i]],
   size |-> v.size - 1]

(* erase at idx: all behind it move down, the last object is destroyed.    *)
Erased(v, idx) ==
  [cells |-> [i \in DOMAIN v.cells |->
                CASE i <= idx \/ i > v.size -> v.cells[i]
                  [] i = v.size -> Raw
                  [] OTHER -> v.cells[i + 1]],
   size |-> v.size - 1]

Resized(v, count) ==
  LET u == AllocMem(v, count) IN
  [cells |-> [i \in DOMAIN u.cells |->
                IF i > count THEN Raw ELSE IF i > v.size THEN Unset ELSE u.cells[i]],
   size |-> count]

Cleared(v) == [cells |-> Cells(Len(v.cells), Raw), size |-> 0]

Copied(v) == [AllocMem(Empty, v.size) EXCEPT
                !.cells = Contents(v) \o SubSeq(@, v.size + 1, Len(@)), !.size = v.size]

-----------------------------------------------------------------------------
Total == MapThenSumSet(LAMBDA n : vecs[n].size, Names)

Become(n, v, res) == vecs' = [vecs EXCEPT ![n] = v] /\ result' = res

Init == vecs = [n \in Names |-> Empty] /\ result = NoResult

(* insert, emplace, pushBack, emplaceBack                                  *)
Insert(n, idx, items) ==
  /\ Total + Len(items) <= MaxTotal /\ idx <= vecs[n].size
  /\ Become(n, Inserted(vecs[n], idx, items), <<"insert", n, idx, items>>)

(* erase of an iterator, popBack                                           *)
Erase(n, idx) ==
  /\ idx < vecs[n].size
  /\ Become(n, Erased(vecs[n], idx), <<"remove", n, idx, <<>>>>)

(* operator[], front, back                                                 *)
Index(n, idx) ==
  /\ idx < vecs[n].size
  /\ Become(n, vecs[n], <<"get", n, idx, <<vecs[n].cells[idx + 1]>>>>)

Resize(n, count) ==
  /\ Total - vecs[n].size + count <= MaxTotal
  /\ Become(n, Resized(vecs[n], count), <<"resize", n, count, <<>>>>)

Clear(n) == Become(n, Cleared(vecs[n]), <<"resize", n, 0, <<>>>>)

Reserve(n, mem) == Become(n, AllocMem(vecs[n], mem), result)

(* A copy is made and swapped in.                                          *)
Assign(n, m) ==
  /\ Total - vecs[n].size + vecs[m].size <= MaxTotal
  /\ Become(n, Copied(vecs[m]), <<"assign", n, m>>)

(* n is a new vector, made from what m gives away.                         *)
Move(n, m) ==
  /\ n # m
  /\ vecs' = [vecs EXCEPT ![n] = vecs[m], ![m] = Empty]
  /\ result' = <<"move", n, m>>

(* swap, and the assignment that moves                                     *)
Swap(n, m) ==
  /\ vecs' = [vecs EXCEPT ![n] = vecs[m], ![m] = vecs[n]]
  /\ result' = <<"swap", n, m>>

Next ==
  \E n \in Names :
    \/ Clear(n)
    \/ \E m \in Names : Assign(n, m) \/ Move(n, m) \/ Swap(n, m)
    \/ \E i \in 0 .. MaxTotal :
         \/ Erase(n, i) \/ Index(n, i) \/ Resize(n, i) \/ Reserve(n, i)
         \/ \E s \in UNION {[1 .. k -> Values] : k \in 1 .. 2} : Insert(n, i, s)

Spec == Init /\ [][Next]_vars

-----------------------------------------------------------------------------
(* Every object is made before it is used and destroyed once: exactly the  *)
(* first size_ cells of a buffer hold objects.                             *)
LifetimesExact ==
  \A n \in Names :
    /\ vecs[n].size <= Len(vecs[n].cells)
    /\ \A i \in DOMAIN vecs[n].cells : (vecs[n].cells[i] # Raw) <=> i <= vecs[n].size

Abstract == INSTANCE ItemSeqs WITH
              Items <- Values, MaxItems <- MaxTotal,
              items <- [n \in Names |-> Contents(vecs[n])]

(* Two vectors hold what two sequences would, through every reallocation.  *)
ImplementsItemSeqs == Abstract!Spec

=============================================================================
