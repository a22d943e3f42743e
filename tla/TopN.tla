-------------------------------- MODULE TopN --------------------------------
(***************************************************************************)
(* What TopNQueue promises (include/query/query_result.hpp, "Stores top n  *)
(* pages"): however many threads add results to a query, the answer to the *)
(* query is N of the results offered to it that no other one outranks, or  *)
(* all of them if they are no more than N.  An answer whose delivery fails *)
(* is lost, and the next query starts from nothing.                        *)
(***************************************************************************)
EXTENDS Naturals, FiniteSets

CONSTANTS Results,   \* the results that can be offered
          Rank,      \* [Results -> Nat]
          N,         \* how many an answer may hold
          NoAnswer

VARIABLES offered,   \* the results offered to the current query
          answer     \* the last answer that was delivered, or NoAnswer

vars == <<offered, answer>>

IsTop(S, from) ==
  /\ S \subseteq from
  /\ Cardinality(S) <= N
  /\ \A r \in from \ S : Cardinality(S) = N /\ \A s \in S : Rank[r] <= Rank[s]

Init == offered = {} /\ answer = NoAnswer

Offer(r) == r \notin offered /\ offered' = offered \cup {r} /\ UNCHANGED answer

Answer(S) == IsTop(S, offered) /\ answer' = S /\ offered' = {}

Lose == answer' = NoAnswer /\ offered' = {}

Next == \/ \E r \in Results : Offer(r)
        \/ \E S \in SUBSET offered : Answer(S)
        \/ Lose

Spec == Init /\ [][Next]_vars

=============================================================================
