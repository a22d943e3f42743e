---------------------------- MODULE MCTopNQueue -----------------------------
(* Instances of TopNQueue and, as another part, of WebServer for TLC: the  *)
(* results of a query as they are collected and as they are shown.         *)
EXTENDS TopNQueue

CONSTANTS Kinds, MaxRequests, WebThreads, Sizes, numResults, SizeMod

(* SizeT has 64 bits: no number of results and no counter of pages gets    *)
(* near what it cannot hold.                                               *)
ASSUME WebAssumption ==
  /\ Kinds \subseteq {"home", "results", "next", "previous", "empty", "cut"}
  /\ MaxRequests \in Nat
  /\ WebThreads \subseteq Nat \ {0} /\ IsFiniteSet(WebThreads)
  /\ Sizes \subseteq Nat /\ numResults \in Nat \ {0} /\ SizeMod \in Nat
  /\ \A n \in Sizes \cup {0} : n + (MaxRequests + 1) * numResults <= SizeMod

VARIABLES part,
          running, accepted, handles, request, query, tPc, reply, show, counter, page,
          resultCounter, resultOptions, queryResult, sockMtx,
          alone, stale, trail

Web == INSTANCE WebServer WITH Threads <- WebThreads

webVars == <<running, accepted, handles, request, query, tPc, reply, show, counter, page,
             resultCounter, resultOptions, queryResult, sockMtx, alone, stale, trail>>
mcVars == <<part, vars, webVars>>

(* Two results have the same rank, and one has the lowest rank there is.   *)
MCRank == [r \in Results |-> r \div 2]

MCInit == part \in {"top", "web"} /\ Init /\ Web!Init

(* The web server waits for requests, and the bound allows no more.        *)
Over == ~running \/ (accepted = MaxRequests /\ \A t \in WebThreads : tPc[t] = "none")

MCNext ==
  /\ UNCHANGED part
  /\ \/ part = "top" /\ Next /\ UNCHANGED webVars
     \/ part = "web" /\ Web!Next /\ UNCHANGED vars
     \/ part = "web" /\ Over /\ UNCHANGED <<vars, webVars>>

MCSpec == MCInit /\ [][MCNext]_mcVars /\ Web!Fairness

(* The web server shows pages that follow each other, and only rows that   *)
(* there are unless another request came between check and use.            *)
RowsShown == Web!PagesFollow /\ Web!RowsInRange

(* The web server answers every request that it has read.                  *)
RequestsEnd == Web!RequestsEnd

=============================================================================
