------------------------------- MODULE ItemSeqs -------------------------------
(***************************************************************************)
(* What the sequence containers promise (include/fb/queue.hpp, vector.hpp, *)
(* string/main.hpp): named sequences of items, and what every call does to *)
(* them.  Indices count from 0, as in the code.                            *)
(***************************************************************************)
EXTENDS Naturals, Sequences

CONSTANTS Names, Items, MaxItems, NoResult

VARIABLES items,    \* [Names -> sequences of Items]
          result    \* the last call, and what it returned

vars == <<items, result>>

(* A call that a name and two indices identify, with a sequence of items   *)
Call(op, n, i, s) == result' = <<op, n, i, s>>

Indices == 0 .. MaxItems

Insert(n, i, s) ==
  /\ Call("insert", n, i, s)
  /\ i <= Len(items[n])
  /\ items' = [items EXCEPT ![n] = SubSeq(@, 1, i) \o s \o SubSeq(@, i + 1, Len(@))]

Remove(n, i) ==
  /\ Call("remove", n, i, <<>>)
  /\ i < Len(items[n])
  /\ items' = [items EXCEPT ![n] = SubSeq(@, 1, i) \o SubSeq(@, i + 2, Len(@))]

Get(n, i) ==
  /\ i < Len(items[n])
  /\ Call("get", n, i, <<items[n][i + 1]>>)
  /\ items' = items

(* What is new after a resize is not promised.                             *)
Resize(n, k) ==
  /\ Call("resize", n, k, <<>>)
  /\ Len(items'[n]) = k
  /\ \A i \in 1 .. k : i <= Len(items[n]) => items'[n][i] = items[n][i]
  /\ items' = [items EXCEPT ![n] = items'[n]]

Slice(n, m, i, k) ==
  /\ result' = <<"slice", n, m, i, k>>
  /\ items' = [items EXCEPT ![n] = SubSeq(items[m], i + 1, i + k)]

Assign(n, m) ==
  /\ result' = <<"assign", n, m>>
  /\ items' = [items EXCEPT ![n] = items[m]]

Move(n, m) ==
  /\ result' = <<"move", n, m>>
  /\ items' = [items EXCEPT ![n] = items[m], ![m] = <<>>]

Swap(n, m) ==
  /\ result' = <<"swap", n, m>>
  /\ items' = [items EXCEPT ![n] = items[m], ![m] = items[n]]

Init == items = [n \in Names |-> <<>>] /\ result = NoResult

Next ==
  \E n, m \in Names :
    \/ Assign(n, m) \/ Move(n, m) \/ Swap(n, m)
    \/ \E i \in Indices :
         \/ Remove(n, i) \/ Get(n, i) \/ Resize(n, i)
         \/ \E k \in Indices : Slice(n, m, i, k)
         \/ \E s \in UNION {[1 .. k -> Items] : k \in 1 .. 2} : Insert(n, i, s)

Spec == Init /\ [][Next]_vars

=============================================================================
