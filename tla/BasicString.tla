----------------------------- MODULE BasicString ------------------------------
(***************************************************************************)
(* fb::String (include/fb/string/main.hpp): a Vector of characters with a  *)
(* 0 behind them, which every call has to keep there.                      *)
(***************************************************************************)
EXTENDS Vector

Pushed(v, ch) == Inserted(v, v.size, <<ch>>)

(* The constructors push one character after the other, and the 0.         *)
NewString(chars) == FoldLeft(Pushed, Empty, Append(chars, 0))

Text(v) == SubSeq(v.cells, 1, v.size - 1)

StringInit == vecs = [n \in Names |-> NewString(<<>>)] /\ result = NoResult

(* insert, pushBack, append, +=: before the 0 at the end                   *)
InsertText(n, idx, chars) ==
  /\ Total + Len(chars) <= MaxTotal /\ idx < vecs[n].size
  /\ Become(n, Inserted(vecs[n], idx, chars), <<"insert", n, idx, chars>>)

(* erase, popBack                                                          *)
EraseText(n, idx) ==
  /\ idx + 1 < vecs[n].size
  /\ Become(n, Erased(vecs[n], idx), <<"remove", n, idx, <<>>>>)

At(n, idx) ==
  /\ idx + 1 < vecs[n].size
  /\ Become(n, vecs[n], <<"get", n, idx, <<vecs[n].cells[idx + 1]>>>>)

(* Mutant of ResizeText: the vector is given room for the 0, but no 0.     *)
ResizeTextBare(n, count) ==
  /\ Total - vecs[n].size + count + 1 <= MaxTotal
  /\ Become(n, Resized(vecs[n], count + 1), <<"resize", n, count, <<>>>>)

(* The 0 of a text that grows becomes a character of it.                   *)
ResizeText(n, count) ==
  /\ Total - vecs[n].size + count + 1 <= MaxTotal
  /\ Become(n, Pushed(Resized(vecs[n], count), 0), <<"resize", n, count, <<>>>>)

ClearText(n) == Become(n, Pushed(Cleared(vecs[n]), 0), <<"resize", n, 0, <<>>>>)

AssignText(n, m) ==
  /\ Total - vecs[n].size + vecs[m].size <= MaxTotal
  /\ Become(n, Copied(vecs[m]), <<"assign", n, m>>)

(* The string that is moved from gets a 0 again.                           *)
MoveText(n, m) ==
  /\ n # m
  /\ vecs' = [vecs EXCEPT ![n] = vecs[m], ![m] = NewString(<<>>)]
  /\ result' = <<"move", n, m>>

SwapText(n, m) == Swap(n, m)

(* n = m.substr(pos, count), of characters that m has                      *)
Substr(n, m, pos, count) ==
  /\ pos + count < vecs[m].size
  /\ Total - vecs[n].size + count + 1 <= MaxTotal
  /\ Become(n, NewString(SubSeq(vecs[m].cells, pos + 1, pos + count)),
            <<"slice", n, m, pos, count>>)

StringNext ==
  \E n \in Names :
    \/ ClearText(n)
    \/ \E m \in Names :
         \/ AssignText(n, m) \/ MoveText(n, m) \/ SwapText(n, m)
         \/ \E i, k \in 0 .. MaxTotal : Substr(n, m, i, k)
    \/ \E i \in 0 .. MaxTotal :
         \/ EraseText(n, i) \/ At(n, i) \/ ResizeText(n, i)
         \/ \E s \in UNION {[1 .. k -> Values] : k \in 1 .. 2} : InsertText(n, i, s)

StringSpec == StringInit /\ [][StringNext]_vars

-----------------------------------------------------------------------------
(* data() is a C string: a 0 is behind the characters, whatever was called.*)
Terminated ==
  \A n \in Names : vecs[n].size > 0 /\ vecs[n].cells[vecs[n].size] = 0

Texts == INSTANCE ItemSeqs WITH
           Items <- Values, MaxItems <- MaxTotal,
           items <- [n \in Names |-> Text(vecs[n])]

(* Two strings hold what two sequences of characters would.                *)
ImplementsTexts == Texts!Spec

=============================================================================
