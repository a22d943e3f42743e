------------------------------ MODULE SearchTree ------------------------------
(***************************************************************************)
(* fb::Set (include/fb/set.hpp): a search tree of nodes with pointers to   *)
(* the children and to the parent, which nothing balances, and one         *)
(* iterator of a caller.  A node is named by its value, which no other     *)
(* node has while it lives.                                                *)
(***************************************************************************)
EXTENDS Integers, FiniteSets

CONSTANTS Keys,      \* numbers
          Nil,       \* nullptr, and the iterator end()
          NoResult

VARIABLES tree,      \* root, sz, and the pointers of every node
          nodes,     \* what new has made and delete has not taken
          iter,      \* the node of the iterator
          result,    \* what the last call returned
          crashed    \* a call has read through nullptr

vars == <<tree, nodes, iter, result, crashed>>

Nowhere == [k \in Keys |-> Nil]

NewTree == [root |-> Nil, sz |-> 0, left |-> Nowhere, right |-> Nowhere, parent |-> Nowhere]

Init ==
  tree = NewTree /\ nodes = {} /\ iter = Nil /\ result = NoResult /\ crashed = FALSE

-----------------------------------------------------------------------------
(* findFirst and findLast of the nodes below n                             *)
FindFirst(t, n) ==
  LET f[m \in Keys] == IF t.left[m] = Nil THEN m ELSE f[t.left[m]] IN f[n]

FindLast(t, n) ==
  LET f[m \in Keys] == IF t.right[m] = Nil THEN m ELSE f[t.right[m]] IN f[n]

(* The first ancestor that n is to the left of, in side right, or to the   *)
(* right of                                                                *)
FindAncestor(t, side, n) ==
  LET f[m \in Keys] ==
        LET p == t.parent[m] IN IF p = Nil \/ side[p] = m THEN p ELSE f[p]
  IN f[n]

FindNext(t, n) ==
  IF n = Nil THEN Nil
  ELSE IF t.right[n] # Nil THEN FindFirst(t, t.right[n]) ELSE FindAncestor(t, t.left, n)

FindPrevious(t, n) ==
  IF n = Nil THEN Nil
  ELSE IF t.left[n] # Nil THEN FindLast(t, t.left[n]) ELSE FindAncestor(t, t.right, n)

Child(t, n, val) == IF val < n THEN t.left[n] ELSE t.right[n]

(* Where a search for val ends: at its node, or where it would hang        *)
Descend(t, val) ==
  LET f[m \in Keys] ==
        IF m = val \/ Child(t, m, val) = Nil THEN m ELSE f[Child(t, m, val)]
  IN f[t.root]

(* insertNode and emplaceNode                                              *)
Hung(t, n, val) ==
  LET u == [t EXCEPT !.sz = @ + 1, !.parent[val] = n] IN
  IF val < n THEN [u EXCEPT !.left[n] = val] ELSE [u EXCEPT !.right[n] = val]

With(t, val) ==
  IF t.root = Nil THEN [t EXCEPT !.root = val, !.sz = @ + 1]
  ELSE IF Descend(t, val) = val THEN t ELSE Hung(t, Descend(t, val), val)

(* What eraseNode returns: the node to take the place of n                 *)
Heir(t, n) ==
  IF t.left[n] # Nil /\ t.right[n] # Nil THEN FindPrevious(t, n)
  ELSE IF t.left[n] # Nil THEN t.left[n] ELSE t.right[n]

Parented(t, n, p) == IF n = Nil THEN t ELSE [t EXCEPT !.parent[n] = p]

(* eraseNode; the node is deleted, and its fields with it.                 *)
Unlinked(t, n) ==
  LET out == Heir(t, n)
      p == t.parent[out]
      near == [t EXCEPT !.right[out] = t.right[n], !.parent[t.right[n]] = out]
      far == [Parented(t, t.left[out], p)
                EXCEPT !.right[p] = t.left[out], !.left[out] = t.left[n],
                       !.right[out] = t.right[n],
                       !.parent[t.left[n]] = out, !.parent[t.right[n]] = out]
      moved == IF t.left[n] = Nil \/ t.right[n] = Nil THEN t
               ELSE IF p = n THEN near ELSE far
  IN [moved EXCEPT !.sz = @ - 1, !.left[n] = Nil, !.right[n] = Nil, !.parent[n] = Nil]

(* Mutant of Replaced: the heir keeps the parent that it had.              *)
ReplacedOnly(t, n) ==
  LET p == t.parent[n]
      u == Unlinked(t, n)
      out == Heir(t, n)
  IN IF p = Nil THEN [u EXCEPT !.root = out, !.parent[out] = Nil]
     ELSE IF t.left[p] = n THEN [u EXCEPT !.left[p] = out] ELSE [u EXCEPT !.right[p] = out]

(* The heir takes the place of n below the parent, or as the root.         *)
Replaced(t, n) ==
  LET p == t.parent[n]
      out == Heir(t, n)
      u == Parented(Unlinked(t, n), out, p)
  IN IF p = Nil THEN [u EXCEPT !.root = out]
     ELSE IF t.left[p] = n THEN [u EXCEPT !.left[p] = out] ELSE [u EXCEPT !.right[p] = out]

-----------------------------------------------------------------------------
Calling == ~crashed /\ UNCHANGED crashed

Insert(val) ==
  /\ Calling
  /\ tree' = With(tree, val) /\ nodes' = nodes \cup {val}
  /\ iter' = val /\ result' = <<"put", val, val>>

Emplace(val) ==
  /\ Calling
  /\ tree' = With(tree, val) /\ nodes' = nodes \cup {val}
  /\ iter' = val /\ result' = <<"insert", val, IF val \in nodes THEN Nil ELSE val>>

Find(val) ==
  /\ Calling
  /\ iter' = IF tree.root # Nil /\ Descend(tree, val) = val THEN val ELSE Nil
  /\ result' = <<"find", val, iter'>>
  /\ UNCHANGED <<tree, nodes>>

(* Mutant of Place: the parent, whichever side the value was on.           *)
PlaceParent(t, p, val) == IF p = Nil THEN FindNext(t, t.root) ELSE p

(* The place erase returns, from the tree t it leaves: at the root, the    *)
(* node after the heir; to the left of p, p; to the right, what follows p  *)
Place(t, p, val) ==
  IF p = Nil THEN FindNext(t, t.root)
  ELSE IF val < p THEN p ELSE FindNext(t, p)

(* erase(val), and erase of an iterator at val; without a parent for the   *)
(* heir when the last value goes                                           *)
Erase(val) ==
  LET absent == tree.root = Nil \/ Descend(tree, val) # val IN
  /\ Calling
  /\ IF absent
       THEN /\ iter' = IF tree.root = Nil THEN Nil
                       ELSE Place(tree, Descend(tree, val), val)
            /\ result' = <<"erase", val, 0>>
            /\ UNCHANGED <<tree, nodes>>
       ELSE /\ tree.sz > 1
            /\ tree' = Replaced(tree, val) /\ nodes' = nodes \ {val}
            /\ iter' = Place(tree', tree.parent[val], val)
            /\ result' = <<"erase", val, 1>>

(* The root that is left without an heir: root->parent of nullptr.  begin  *)
(* of an empty set reads nullptr->left.                                    *)
EraseLast ==
  /\ ~crashed /\ tree.sz = 1
  /\ crashed' = TRUE
  /\ UNCHANGED <<tree, nodes, iter, result>>

Begin ==
  /\ ~crashed
  /\ IF tree.root = Nil THEN crashed' = TRUE /\ UNCHANGED iter
     ELSE UNCHANGED crashed /\ iter' = FindFirst(tree, tree.root)
  /\ UNCHANGED <<tree, nodes, result>>

Increment == Calling /\ iter' = FindNext(tree, iter) /\ UNCHANGED <<tree, nodes, result>>

Decrement == Calling /\ iter' = FindPrevious(tree, iter) /\ UNCHANGED <<tree, nodes, result>>

(* deleteTree finds every node below the root.                             *)
Below(t) ==
  LET f[n \in Keys \cup {Nil}] ==
        IF n = Nil THEN {} ELSE {n} \cup f[t.left[n]] \cup f[t.right[n]]
  IN f[t.root]

Clear ==
  /\ Calling
  /\ tree' = NewTree /\ nodes' = nodes \ Below(tree)
  /\ iter' = Nil /\ result' = <<"clear">>

Next ==
  \/ \E val \in Keys : Insert(val) \/ Emplace(val) \/ Find(val) \/ Erase(val)
  \/ EraseLast \/ Begin \/ Increment \/ Decrement \/ Clear

Spec == Init /\ [][Next]_vars

-----------------------------------------------------------------------------
(* The nodes that live are those of the tree; sz counts them; and from     *)
(* each of them ++ and -- lead to the next larger and smaller value: the   *)
(* pointers to the parents and the order survive every erase.              *)
TreeSound ==
  /\ nodes = Below(tree) /\ tree.sz = Cardinality(nodes)
  /\ \A n \in nodes :
       /\ FindNext(tree, n) # Nil => FindPrevious(tree, FindNext(tree, n)) = n
       /\ {m \in nodes : m > n} = IF FindNext(tree, n) = Nil THEN {}
                                  ELSE {m \in nodes : m >= FindNext(tree, n)}
       /\ {m \in nodes : m < n} = IF FindPrevious(tree, n) = Nil THEN {}
                                  ELSE {m \in nodes : m <= FindPrevious(tree, n)}

(* An iterator is never left at a node that is deleted, by the calls that  *)
(* return one.                                                             *)
IteratorLives == iter \in nodes \cup {Nil}

(* What follows a value                                                    *)
After(val) ==
  LET larger == {m \in nodes' : m > val} IN
  IF larger = {} THEN Nil ELSE CHOOSE m \in larger : \A o \in larger : m <= o

(* Erasing a value without children, or one that is not there, returns the *)
(* value that follows, as the comments in eraseImpl promise for the        *)
(* latter.  (With a child it may return one that is before or beyond.)     *)
ReturnsNext(val) ==
  (/\ Erase(val)
   /\ val \in nodes => tree.left[val] = Nil /\ tree.right[val] = Nil)
  => iter' = After(val)

(* So it is of every erase.                                                *)
EraseReturnsNext == [][\A val \in Keys : ReturnsNext(val)]_vars

Abstract == INSTANCE KeyMap WITH
              Values <- Keys, Default <- Nil, Absent <- Nil, map <- [k \in nodes |-> k]

(* What the calls return is what a set of keys would.                      *)
ImplementsKeySet == Abstract!Spec

=============================================================================
