-------------------------------- MODULE Queue ---------------------------------
(***************************************************************************)
(* fb::Queue (include/fb/queue.hpp), the queue of the page store, of the   *)
(* parsed pages and of the mutexes' waiters: items in nodes of a fixed     *)
(* size, each of which owns the next.                                      *)
(***************************************************************************)
EXTENDS Integers, Sequences, SequencesExt

CONSTANTS Values, NoResult, ArraySize, MaxElements, MaxLeaked

VARIABLES chain,         \* the nodes from start to end: data and current
          numElements,
          leaked,        \* nodes that own themselves, and nobody else does
          result

vars == <<chain, numElements, leaked, result>>

Init == chain = <<>> /\ numElements = 0 /\ leaked = 0 /\ result = NoResult

NewNode == [data |-> <<>>, current |-> 0]

(* What the queue holds: in every node, the items from current on          *)
Contents ==
  FlattenSeq([i \in DOMAIN chain |->
                SubSeq(chain[i].data, chain[i].current + 1, Len(chain[i].data))])

(* Mutant of Pushed: a node takes one item more than pop takes from it.    *)
PushedLate(nodes, val) ==
  LET last == nodes[Len(nodes)] IN
  IF Len(last.data) > ArraySize
    THEN Append(nodes, [NewNode EXCEPT !.data = <<val>>])
    ELSE [nodes EXCEPT ![Len(nodes)].data = Append(@, val)]

(* push of the last node: a full one gets a node after it.                 *)
Pushed(nodes, val) ==
  LET last == nodes[Len(nodes)] IN
  IF Len(last.data) = ArraySize
    THEN Append(nodes, [NewNode EXCEPT !.data = <<val>>])
    ELSE [nodes EXCEPT ![Len(nodes)].data = Append(@, val)]

(* push and emplace: an empty queue begins with a new node.                *)
Push(val) ==
  /\ numElements < MaxElements
  /\ chain' = Pushed(IF numElements = 0 THEN <<NewNode>> ELSE chain, val)
  /\ numElements' = numElements + 1
  /\ result' = <<"insert", "q", numElements, <<val>>>>
  /\ UNCHANGED leaked

(* popAndMoveNext: start and next are swapped (that is what the assignment *)
(* of a UniquePtr does), and the node that is done owns itself.            *)
Pop ==
  LET node == chain[1]
      done == node.current + 1 = ArraySize
  IN
    /\ numElements > 0
    /\ leaked < MaxLeaked
    /\ chain' = IF done THEN Tail(chain) ELSE [chain EXCEPT ![1].current = @ + 1]
    /\ leaked' = IF done THEN leaked + 1 ELSE leaked
    /\ numElements' = numElements - 1
    /\ result' = <<"remove", "q", 0, <<>>>>

FrontItem ==
  /\ numElements > 0
  /\ result' = <<"get", "q", 0, <<chain[1].data[chain[1].current + 1]>>>>
  /\ UNCHANGED <<chain, numElements, leaked>>

Back ==
  LET data == chain[Len(chain)].data IN
  /\ numElements > 0
  /\ result' = <<"get", "q", numElements - 1, <<data[Len(data)]>>>>
  /\ UNCHANGED <<chain, numElements, leaked>>

Next == (\E val \in Values : Push(val)) \/ Pop \/ FrontItem \/ Back

Spec == Init /\ [][Next]_vars

Abstract == INSTANCE ItemSeqs WITH
              Names <- {"q"}, Items <- Values, MaxItems <- MaxElements,
              items <- [n \in {"q"} |-> Contents]

(* First in, first out, over any number of nodes                           *)
ImplementsItemSeqs == Abstract!Spec

(* The counter, which decides whether push makes a node, counts.           *)
CounterExact == numElements = Len(Contents)

=============================================================================
