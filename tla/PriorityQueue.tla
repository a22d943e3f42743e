---------------------------- MODULE PriorityQueue ----------------------------
(***************************************************************************)
(* fb::PriorityQueue (include/fb/priority_queue.hpp), a heap in a vector,  *)
(* which keeps the best results of a query.  An item is its rank.          *)
(***************************************************************************)
EXTENDS Integers, SequencesExt, BagsExt

CONSTANTS Ranks, MaxSize, NoResult

VARIABLES data,      \* the items
          result     \* what pop took out

vars == <<data, result>>

(* compare(data[i], data[j]), indices from 0                               *)
Compare(s, i, j) == s[i + 1] < s[j + 1]

Swapped(s, i, j) == [s EXCEPT ![i + 1] = s[j + 1], ![j + 1] = s[i + 1]]

(* Mutant of heapify: the left child is taken, whichever is the larger.    *)
RECURSIVE heapifyLeft(_, _)
heapifyLeft(s, i) ==
  LET left == 2 * i + 1 IN
  IF left >= Len(s) \/ Compare(s, left, i) THEN s
  ELSE heapifyLeft(Swapped(s, left, i), left)

RECURSIVE heapify(_, _)
heapify(s, i) ==
  LET left == 2 * i + 1
      child == IF left + 1 < Len(s) /\ Compare(s, left, left + 1) THEN left + 1 ELSE left
  IN IF left >= Len(s) \/ Compare(s, child, i) THEN s
     ELSE heapify(Swapped(s, child, i), child)

(* (i - 1) / 2 of 0 is 0, which is not before itself.                      *)
RECURSIVE push_heap(_, _)
push_heap(s, i) ==
  LET up == IF i = 0 THEN 0 ELSE (i - 1) \div 2 IN
  IF Compare(s, up, i) THEN push_heap(Swapped(s, i, up), up) ELSE s

Init == data = <<>> /\ result = NoResult

Push(v) ==
  /\ Len(data) < MaxSize
  /\ data' = push_heap(Append(data, v), Len(data))
  /\ result' = NoResult

(* The last item goes to the front, and down from there.                   *)
Pop ==
  /\ data # <<>>
  /\ result' = data[1]
  /\ data' = heapify(Front(<<Last(data)>> \o Tail(data)), 0)

Clear == data' = <<>> /\ result' = NoResult

Next == (\E v \in Ranks : Push(v)) \/ Pop \/ Clear

Spec == Init /\ [][Next]_vars

-----------------------------------------------------------------------------
(* top() is an item of the highest rank.                                   *)
TopIsHighest == \A i \in DOMAIN data : data[i] <= data[1]

(* pop loses its item and no other, push adds its item to the others.      *)
KeepsItems ==
  \/ data' = <<>>
  \/ BagAdd(ToBag(data'), result') = ToBag(data)
  \/ \E v \in Ranks : ToBag(data') = BagAdd(ToBag(data), v)

ItemsKept == [][KeepsItems]_vars

=============================================================================
