------------------------- MODULE MCTopNQueueProofs --------------------------
(***************************************************************************)
(* Proofs about the results of a query: about TopNQueue, which collects    *)
(* the best of them, for any number of results, threads and places in the  *)
(* queue, in the mode in which send_and_reset empties it; and about        *)
(* WebServer as MCTopNQueue runs it, which shows them, for any number of   *)
(* requests, threads and results, and any length of a page.                *)
(*                                                                         *)
(* KeepsTop is not inductive by itself.  push drops a result on the word   *)
(* of min_allowed_rank alone, so the invariant says what that value stands *)
(* for (Limit); it also says what the threads hold between the two steps   *)
(* of push (Pushers), and that nobody pushes while the queue is emptied    *)
(* (Phases).                                                               *)
(*                                                                         *)
(* RowsShown is not inductive.  A request moves the counter of pages by    *)
(* at most one (Counting), so that no product of it wraps, and the         *)
(* unsigned test of kthResults is right although the counter may be        *)
(* negative.  Hence a page that is built while no other request changes a  *)
(* global shows only rows that there are (Building).  That a page          *)
(* continues the one before it holds between requests that run alone: it   *)
(* takes what each of them finds and leaves behind (Paging), and what is   *)
(* left when none runs (Between).                                          *)
(***************************************************************************)
EXTENDS MCTopNQueue, Integers, Sequences, FiniteSetTheorems, TLAPS

-----------------------------------------------------------------------------
(* The queue of the best results                                           *)

Kept == topQueue \cup sent

Limit ==
  min_allowed_rank > 0 =>
    Cardinality(Kept) = N /\ \A s \in Kept : min_allowed_rank <= Rank[s]

Pushers ==
  \A t \in Threads : pushing[t] # NoResult =>
    /\ pushing[t] \in offered
    /\ pushing[t] \notin Kept
    /\ \A u \in Threads : pushing[u] = pushing[t] => u = t

Phases ==
  /\ ~sending => sent = {}
  /\ sending => \A t \in Threads : pushing[t] = NoResult

IInv == TypeOK /\ KeepsTop /\ SentInOrder /\ Limit /\ Pushers /\ Phases

-----------------------------------------------------------------------------
(* Sets of results are finite, and one result more or less changes their   *)
(* size by one.                                                            *)
LEMMA ResultSets ==
  ASSUME NEW S \in SUBSET Results
  PROVE  /\ IsFiniteSet(S)
         /\ Cardinality(S) \in Nat
         /\ \A r \in Results \ S : Cardinality(S \cup {r}) = Cardinality(S) + 1
         /\ \A r \in S : Cardinality(S \ {r}) = Cardinality(S) - 1
<1>1. IsFiniteSet(S)
  BY FS_Subset, ResultsAssumption
<1>2. Cardinality(S) \in Nat
  BY <1>1, FS_CardinalityType
<1>3. ASSUME NEW r \in Results \ S
      PROVE  Cardinality(S \cup {r}) = Cardinality(S) + 1
  BY <1>1, <1>3, FS_AddElement
<1>4. ASSUME NEW r \in S
      PROVE  Cardinality(S \ {r}) = Cardinality(S) - 1
  BY <1>1, <1>4, FS_RemoveElement
<1>5. QED
  BY <1>1, <1>2, <1>3, <1>4

(* In the initial state the queue is empty and nothing is offered.         *)
LEMMA InitIInv == Init => IInv
<1> SUFFICES ASSUME Init PROVE IInv
  OBVIOUS
<1>1. TypeOK
  BY DEF Init, TypeOK
<1>2. Cardinality(topQueue \cup sent) = 0 /\ topQueue \cup sent = {}
  BY FS_EmptySet DEF Init
<1>3. KeepsTop
  BY <1>2, NAssumption DEF Init, KeepsTop, Settled
<1>4. SentInOrder /\ Limit /\ Pushers /\ Phases
  BY DEF Init, SentInOrder, Limit, Pushers, Phases
<1>5. QED
  BY <1>1, <1>3, <1>4 DEF IInv

(* The first step of push: a result that is dropped is outranked by all    *)
(* that are kept, since the limit it was compared with is positive.        *)
LEMMA PushPreserves ==
  ASSUME IInv, NEW t \in Threads, NEW r \in Results,
         PushDrop(t, r) \/ PushBegin(t, r)
  PROVE  IInv'
<1> USE DEF IInv, Kept
<1>1. pushing \in [Threads -> Results \cup {NoResult}]
  BY DEF TypeOK
<1>2. r \notin offered /\ offered' = offered \cup {r} /\ pushing[t] = NoResult
      /\ topQueue' = topQueue /\ sent' = sent /\ sending' = sending
      /\ min_allowed_rank' = min_allowed_rank /\ ~sending
  BY DEF PushDrop, PushBegin
<1>3. \A u \in Threads : pushing[u] # r
  BY <1>2, NoResultAssumption DEF Pushers
<1>4. r \notin Kept
  BY <1>2 DEF KeepsTop, Settled
<1>5. CASE PushDrop(t, r)
  <2>1. pushing' = pushing /\ Rank[r] < min_allowed_rank
    BY <1>5 DEF PushDrop
  <2>2. Settled' = Settled \cup {r}
    BY <1>2, <1>3, <2>1 DEF Settled
  <2>3. min_allowed_rank > 0
    BY <2>1, ResultsAssumption DEF TypeOK
  <2>4. \A s \in Kept : Rank[r] <= Rank[s]
    BY <2>1, <2>3, ResultsAssumption DEF Limit, TypeOK
  <2>5. KeepsTop'
    BY <1>2, <2>2, <2>3, <2>4 DEF KeepsTop, Limit
  <2>6. TypeOK' /\ SentInOrder' /\ Limit' /\ Pushers' /\ Phases'
    BY <1>2, <1>5, <2>1
    DEF TypeOK, SentInOrder, Limit, Pushers, Phases, PushDrop
  <2>7. QED
    BY <2>5, <2>6
<1>6. CASE PushBegin(t, r)
  <2>1. pushing' = [pushing EXCEPT ![t] = r]
    BY <1>6 DEF PushBegin
  <2>2. pushing'[t] = r /\ \A u \in Threads \ {t} : pushing'[u] = pushing[u]
    BY <1>1, <2>1
  <2>3. Settled' = Settled
    <3>1. ASSUME NEW x \in Results
          PROVE  x \in Settled' <=> x \in Settled
      BY <1>2, <1>3, <2>2, NoResultAssumption DEF Settled
    <3>2. Settled \subseteq Results /\ Settled' \subseteq Results
      BY <1>2 DEF Settled, TypeOK
    <3>3. QED
      BY <3>1, <3>2
  <2>4. KeepsTop' /\ SentInOrder' /\ Limit' /\ Phases'
    BY <1>2, <2>3 DEF KeepsTop, SentInOrder, Limit, Phases
  <2>5. Pushers'
    BY <1>2, <1>3, <1>4, <2>2 DEF Pushers
  <2>6. TypeOK'
    BY <1>1, <1>2, <1>6, <2>1 DEF TypeOK, PushBegin
  <2>7. QED
    BY <2>4, <2>5, <2>6
<1>7. QED
  BY <1>5, <1>6

(* The second step with room in the queue: it was not full, so nothing had *)
(* been dropped or evicted yet, and there was no limit.                    *)
LEMMA RoomPreserves ==
  ASSUME IInv, NEW t \in Threads, PushRoom(t)
  PROVE  IInv'
<1> DEFINE r == pushing[t]
<1> USE DEF IInv, Kept
<1>1. /\ r # NoResult /\ r \in Results /\ r \in offered /\ r \notin Kept
      /\ topQueue' = topQueue \cup {r} /\ sent = {}
      /\ Cardinality(topQueue \cup {r}) <= N
      /\ ~sending /\ sending' = sending /\ sent' = sent
      /\ offered' = offered /\ min_allowed_rank' = min_allowed_rank
      /\ answer' = answer
  BY DEF PushRoom, TypeOK, Pushers, Phases
<1>2. pushing' = [pushing EXCEPT ![t] = NoResult]
  BY DEF PushRoom
<1>3. pushing'[t] = NoResult /\ \A u \in Threads \ {t} : pushing'[u] = pushing[u]
  BY <1>2 DEF TypeOK
<1>4. Settled' = Settled \cup {r}
  <2>1. ASSUME NEW x \in Results
        PROVE  x \in Settled' <=> x \in Settled \cup {r}
    BY <1>1, <1>3, NoResultAssumption DEF Settled, Pushers
  <2>2. Settled \subseteq Results /\ Settled' \subseteq Results
    BY <1>1 DEF Settled, TypeOK
  <2>3. QED
    BY <1>1, <2>1, <2>2
<1>5. Cardinality(topQueue) \in Nat /\ Cardinality(topQueue) < N
  <2>1. topQueue \in SUBSET Results
    BY DEF TypeOK
  <2>2. Cardinality(topQueue \cup {r}) = Cardinality(topQueue) + 1
    BY <1>1, <2>1, ResultSets
  <2>3. QED
    BY <1>1, <2>1, <2>2, ResultSets, NAssumption
<1>6. Kept = topQueue /\ Kept' = topQueue \cup {r}
  BY <1>1
<1>7. Settled \subseteq Kept
  BY <1>5, <1>6, NAssumption DEF KeepsTop
<1>8. KeepsTop'
  BY <1>1, <1>4, <1>6, <1>7 DEF KeepsTop
<1>9. ~(min_allowed_rank > 0)
  BY <1>5, <1>6, NAssumption DEF Limit
<1>10. TypeOK' /\ SentInOrder' /\ Limit' /\ Phases'
  BY <1>1, <1>2, <1>9 DEF TypeOK, SentInOrder, Limit, Phases
<1>11. Pushers'
  BY <1>1, <1>3 DEF Pushers
<1>12. QED
  BY <1>8, <1>10, <1>11

(* The second step when the queue overflows: it was full, one result takes *)
(* the place of one that it outranks or equals (or none does, when the new *)
(* one itself is the lowest).                                              *)
LEMMA EvictPreserves ==
  ASSUME IInv, NEW t \in Threads, NEW low \in Results, PushEvict(t, low)
  PROVE  IInv'
<1> DEFINE r == pushing[t]
           all == topQueue \cup {r}
<1> USE DEF IInv, Kept
<1>1. /\ r # NoResult /\ r \in Results /\ r \in offered /\ r \notin Kept
      /\ topQueue' = all \ {low} /\ sent = {}
      /\ Cardinality(all) > N
      /\ low \in all /\ \A s \in all : Rank[low] <= Rank[s]
      /\ ~sending /\ sending' = sending /\ sent' = sent
      /\ offered' = offered /\ answer' = answer
  BY DEF PushEvict, Lowest, TypeOK, Pushers, Phases
<1>2. PICK next \in all \ {low} :
        /\ \A s \in all \ {low} : Rank[next] <= Rank[s]
        /\ min_allowed_rank' = Rank[next]
  BY DEF PushEvict, Lowest
<1>3. pushing' = [pushing EXCEPT ![t] = NoResult]
  BY DEF PushEvict
<1>4. pushing'[t] = NoResult /\ \A u \in Threads \ {t} : pushing'[u] = pushing[u]
  BY <1>3 DEF TypeOK
<1>5. Settled' = Settled \cup {r}
  <2>1. ASSUME NEW x \in Results
        PROVE  x \in Settled' <=> x \in Settled \cup {r}
    BY <1>1, <1>4, NoResultAssumption DEF Settled, Pushers
  <2>2. Settled \subseteq Results /\ Settled' \subseteq Results
    BY <1>1 DEF Settled, TypeOK
  <2>3. QED
    BY <1>1, <2>1, <2>2
<1>6. topQueue \in SUBSET Results /\ all \in SUBSET Results
  BY <1>1 DEF TypeOK
<1>7. Cardinality(topQueue) = N /\ Cardinality(all \ {low}) = N
  <2>1. Cardinality(topQueue) <= N /\ Cardinality(topQueue) \in Nat
    BY <1>1, <1>6, ResultSets DEF KeepsTop
  <2>2. Cardinality(all) = Cardinality(topQueue) + 1
    BY <1>1, <1>6, ResultSets
  <2>3. Cardinality(all \ {low}) = Cardinality(all) - 1
    BY <1>1, <1>6, ResultSets
  <2>4. QED
    BY <1>1, <2>1, <2>2, <2>3, NAssumption
<1>8. Kept = topQueue /\ Kept' = all \ {low}
  BY <1>1
<1>9. \A x \in Settled' \ Kept' : \A s \in Kept' : Rank[x] <= Rank[s]
  <2> SUFFICES ASSUME NEW x \in Settled' \ Kept', NEW s \in Kept'
               PROVE  Rank[x] <= Rank[s]
    OBVIOUS
  <2>1. CASE x = low
    BY <1>1, <1>8, <2>1
  <2>2. CASE x # low
    <3>1. x \in Settled \ topQueue
      BY <1>5, <1>8, <2>2
    <3>2. \A k \in topQueue : Rank[x] <= Rank[k]
      BY <1>8, <3>1 DEF KeepsTop
    <3>3. CASE s \in topQueue
      BY <3>2, <3>3
    <3>4. CASE s = r
      <4>1. low \in topQueue
        BY <1>1, <1>8, <3>4
      <4>2. Rank[x] <= Rank[low] /\ Rank[low] <= Rank[s]
        BY <1>1, <3>2, <3>4, <4>1
      <4>3. Rank[x] \in Nat /\ Rank[low] \in Nat /\ Rank[s] \in Nat
        BY <1>1, <1>6, <1>8, <3>1, <3>4, ResultsAssumption DEF Settled, TypeOK
      <4>4. QED
        BY <4>2, <4>3
    <3>5. QED
      BY <1>8, <3>3, <3>4
  <2>3. QED
    BY <2>1, <2>2
<1>10. KeepsTop'
  <2>1. Kept' \subseteq Settled'
    BY <1>5, <1>8 DEF KeepsTop
  <2>2. QED
    BY <1>7, <1>8, <1>9, <2>1, NAssumption DEF KeepsTop
<1>11. Limit'
  BY <1>2, <1>7, <1>8 DEF Limit
<1>12. TypeOK'
  BY <1>1, <1>2, <1>3, <1>6, ResultsAssumption DEF TypeOK
<1>13. SentInOrder' /\ Phases'
  BY <1>1 DEF SentInOrder, Phases
<1>14. Pushers'
  BY <1>1, <1>4 DEF Pushers
<1>15. QED
  BY <1>10, <1>11, <1>12, <1>13, <1>14

(* Emptying the queue moves results from the queue to the answer and ends  *)
(* with everything reset.                                                  *)
LEMMA SendPreserves ==
  ASSUME IInv, ~LocalMode,
         BeginSend \/ (\E r \in Results : SendTop(r)) \/ EndSend \/ SendFails
  PROVE  IInv'
<1> USE DEF IInv
<1>1. CASE BeginSend
  BY <1>1
  DEF BeginSend, TypeOK, KeepsTop, Settled, SentInOrder, Limit, Pushers, Phases,
      Kept
<1>2. CASE \E r \in Results : SendTop(r)
  <2>1. PICK r \in Results : SendTop(r)
    BY <1>2
  <2>2. /\ sending /\ r \in topQueue /\ \A s \in topQueue : Rank[r] <= Rank[s]
        /\ topQueue' = topQueue \ {r} /\ sent' = sent \cup {r}
        /\ UNCHANGED <<min_allowed_rank, pushing, sending, offered, answer>>
    BY <2>1 DEF SendTop, Lowest
  <2>3. Kept' = Kept
    BY <2>2 DEF Kept
  <2>4. TypeOK' /\ SentInOrder' /\ Pushers' /\ Phases'
    BY <2>2, <2>3 DEF TypeOK, SentInOrder, Pushers, Phases
  <2>5. KeepsTop'
    BY <2>2, <2>3 DEF KeepsTop, Settled, Kept
  <2>6. Limit'
    BY <2>2, <2>3 DEF Limit
  <2>7. QED
    BY <2>4, <2>5, <2>6
<1>3. CASE EndSend \/ SendFails
  <2>1. /\ topQueue' = {} /\ sent' = {} /\ offered' = {}
        /\ sending' = FALSE
        /\ min_allowed_rank' = 0 /\ pushing' = pushing
        /\ \A t \in Threads : pushing[t] = NoResult
    BY <1>3 DEF EndSend, SendFails, Phases
  <2>2. answer' = sent \/ answer' = NoAnswer
    BY <1>3 DEF EndSend, SendFails
  <2>3. TypeOK'
    BY <2>1, <2>2 DEF TypeOK
  <2>4. Cardinality((topQueue \cup sent)') = 0 /\ (topQueue \cup sent)' = {}
    BY <2>1, FS_EmptySet
  <2>5. KeepsTop'
    BY <2>1, <2>4, NAssumption DEF KeepsTop, Settled
  <2>6. SentInOrder' /\ Limit' /\ Pushers' /\ Phases'
    BY <2>1 DEF SentInOrder, Limit, Pushers, Phases
  <2>7. QED
    BY <2>3, <2>5, <2>6
<1>4. QED
  BY <1>1, <1>2, <1>3

-----------------------------------------------------------------------------
(* IInv is an invariant of the queue that send_and_reset empties.          *)
LEMMA Invariance == ASSUME ~LocalMode PROVE Spec => []IInv
<1>1. ASSUME IInv, [Next]_vars PROVE IInv'
  <2>1. CASE Next
    <3>1. CASE \E t \in Threads, r \in Results : PushDrop(t, r) \/ PushBegin(t, r)
      BY <1>1, <3>1, PushPreserves
    <3>2. CASE \E t \in Threads : PushRoom(t)
      BY <1>1, <3>2, RoomPreserves
    <3>3. CASE \E t \in Threads, low \in Results : PushEvict(t, low)
      BY <1>1, <3>3, EvictPreserves
    <3>4. CASE BeginSend \/ (\E r \in Results : SendTop(r)) \/ EndSend \/ SendFails
      BY <1>1, <3>4, SendPreserves
    <3>5. QED
      BY <2>1, <3>1, <3>2, <3>3, <3>4 DEF Next
  <2>2. CASE UNCHANGED vars
    <3>1. TypeOK' /\ SentInOrder' /\ Phases'
      BY <1>1, <2>2 DEF vars, IInv, TypeOK, SentInOrder, Phases
    <3>2. Kept' = Kept /\ Settled' = Settled
      BY <2>2 DEF vars, Kept, Settled
    <3>3. KeepsTop'
      BY <1>1, <2>2, <3>2 DEF vars, IInv, KeepsTop
    <3>4. Limit' /\ Pushers'
      BY <1>1, <2>2, <3>2 DEF vars, IInv, Limit, Pushers
    <3>5. QED
      BY <3>1, <3>3, <3>4 DEF IInv
  <2>3. QED
    BY <1>1, <2>1, <2>2
<1>2. QED
  BY InitIInv, <1>1, PTL DEF Spec

(* However many threads push, with whatever interleaving of the unlocked   *)
(* comparison and the locked insertion, the queue keeps the best N of what *)
(* was pushed (TopNQueue::push).                                           *)
THEOREM TopKept == ASSUME ~LocalMode PROVE Spec => []KeepsTop
<1>1. IInv => KeepsTop
  BY DEF IInv
<1>2. QED
  BY Invariance, <1>1, PTL

(* The results of a query leave in increasing rank (send_and_reset).       *)
THEOREM SentIncreasing == ASSUME ~LocalMode PROVE Spec => []SentInOrder
<1>1. IInv => SentInOrder
  BY DEF IInv
<1>2. QED
  BY Invariance, <1>1, PTL

-----------------------------------------------------------------------------
(* The queue implements TopN: the answer to every query is a top N of what *)
(* was offered to that query, and nothing of an earlier query is in it.    *)
(* Only the first step of push and the end of a query are visible there.   *)
THEOREM Refinement == ASSUME ~LocalMode PROVE Spec => ImplementsTopN
<1>1. Init => Abstract!Init
  BY DEF Init, Abstract!Init
<1>2. ASSUME IInv, [Next]_vars
      PROVE  [Abstract!Next]_(Abstract!vars)
  <2>1. CASE \E t \in Threads, r \in Results : PushDrop(t, r) \/ PushBegin(t, r)
    BY <2>1 DEF PushDrop, PushBegin, Abstract!Next, Abstract!Offer
  <2>2. CASE \/ \E t \in Threads : PushRoom(t)
             \/ \E t \in Threads, low \in Results : PushEvict(t, low)
             \/ BeginSend
             \/ \E r \in Results : SendTop(r)
    BY <2>2 DEF PushRoom, PushEvict, BeginSend, SendTop, Abstract!vars
  <2>3. CASE EndSend
    <3>1. /\ topQueue = {} /\ answer' = sent /\ offered' = {}
          /\ \A t \in Threads : pushing[t] = NoResult
      BY <1>2, <2>3 DEF EndSend, IInv, Phases
    <3>2. Settled = offered
      BY <1>2, <3>1, NoResultAssumption DEF Settled, IInv, TypeOK
    <3>3. topQueue \cup sent = sent
      BY <3>1
    <3>4. Abstract!IsTop(sent, offered)
      <4>1. Abstract!Cardinality(sent) = Cardinality(sent)
        BY DEF Cardinality, Abstract!Cardinality
      <4>2. QED
        BY <1>2, <3>2, <3>3, <4>1 DEF IInv, KeepsTop, Abstract!IsTop
    <3>5. sent \in SUBSET offered
      BY <3>4 DEF Abstract!IsTop
    <3>6. QED
      BY <3>1, <3>4, <3>5 DEF Abstract!Next, Abstract!Answer
  <2>4. CASE SendFails
    BY <2>4 DEF SendFails, Abstract!Next, Abstract!Lose
  <2>5. CASE UNCHANGED vars
    BY <2>5 DEF vars, Abstract!vars
  <2>6. QED
    BY <1>2, <2>1, <2>2, <2>3, <2>4, <2>5 DEF Next
<1>3. QED
  BY <1>1, <1>2, Invariance, PTL DEF Spec, ImplementsTopN, Abstract!Spec

-----------------------------------------------------------------------------
(* The pages of the web server                                             *)

(* Page c shows the results behind the best Before(c), if there are any.   *)
Before(c) == c * numResults
HasPage(c) == Before(c) >= 0 /\ Before(c) < queryResult.size
RowsOn(c) ==
  LET n == queryResult.size - Before(c) IN IF n < numResults THEN n ELSE numResults
RowAt(c, k) ==
  [query |-> queryResult.query, index |-> queryResult.size - Before(c) - k]

Rows == [query : Nat, index : Int]
Pages == [kind : Kinds \cup {"none"}, name : Nat, of : Nat, rows : Seq(Rows)]

Labels == {"none", "fail", "respond", "reset", "options", "lock", "ask", "assign",
           "test", "load", "store", "label", "check", "count", "row"}

ServerTypes ==
  /\ running \in BOOLEAN /\ accepted \in 0 .. MaxRequests
  /\ request \in [WebThreads -> Kinds \cup {"none"}]
  /\ query \in [WebThreads -> Nat] /\ tPc \in [WebThreads -> Labels]
  /\ reply \in [WebThreads -> Sizes \cup {0}]
  /\ show \in [WebThreads -> Int] /\ counter \in [WebThreads -> Int]
  /\ resultCounter \in Int /\ resultOptions \in Nat
  /\ queryResult \in [query : Nat, size : Sizes \cup {0}]
  /\ alone \subseteq WebThreads /\ stale \subseteq WebThreads

PageTypes == page \in [WebThreads -> Pages] /\ trail \in Seq(Pages) /\ Len(trail) <= 2

WebTypes == ServerTypes /\ PageTypes

(* What a thread does is what its request asks for.                        *)
Handled ==
  \A t \in WebThreads :
    /\ tPc[t] \in {"reset", "options"} => request[t] \in {"results", "empty"}
    /\ tPc[t] \in {"lock", "ask", "assign"} => request[t] = "results"
    /\ tPc[t] \in {"test", "load", "store"} => request[t] \in {"next", "previous"}
    /\ tPc[t] \in {"label", "check", "count", "row"} =>
         request[t] \in {"results", "next", "previous"}
    /\ tPc[t] = "respond" => request[t] \in {"results", "next", "previous", "home", "empty"}
    /\ tPc[t] # "none" => page[t].kind = request[t]

(* A request moves the counter by one: it is not further from 0 than the   *)
(* number of requests that are past that, so that no product wraps.        *)
Pending == {t \in WebThreads : tPc[t] \in {"test", "load", "store"}}
Moves == accepted + 1 - Cardinality(Pending)

Counting ==
  /\ Moves >= 1
  /\ resultCounter \in -Moves .. Moves
  /\ \A t \in WebThreads : tPc[t] = "store" => counter[t] \in -Moves .. Moves

(* A page that is being built, while no other request changes a global     *)
Built(t) ==
  /\ HasPage(resultCounter)
  /\ show[t] = RowsOn(resultCounter)
  /\ Len(page[t].rows) < show[t]
  /\ \A k \in DOMAIN page[t].rows : page[t].rows[k] = RowAt(resultCounter, k)

Building ==
  \A t \in WebThreads :
    /\ t \in stale => tPc[t] \in {"count", "row", "respond"}
    /\ tPc[t] \notin {"row", "respond"} => page[t].rows = <<>>
    /\ tPc[t] = "count" /\ t \notin stale => HasPage(resultCounter)
    /\ tPc[t] = "row" /\ t \notin stale => Built(t)
    /\ tPc[t] = "respond" /\ t \notin stale =>
         \A k \in DOMAIN page[t].rows : page[t].rows[k].index >= 0

(* The page p is page c of the results that there are.                     *)
Shows(p, c) ==
  IF HasPage(c)
  THEN /\ p.name = queryResult.query /\ p.of = queryResult.size
       /\ p.rows = [k \in 1 .. RowsOn(c) |-> RowAt(c, k)]
  ELSE p.rows = <<>>

(* Who pages alone saw page c last, or none.                               *)
LastPage == trail[Len(trail)]
Saw(c) ==
  /\ resultOptions = queryResult.query
  /\ LastPage.rows # <<>> => Shows(LastPage, c)

(* The counter when the thread t, which has moved it, began                *)
Back(t) == IF request[t] = "next" THEN resultCounter - 1 ELSE resultCounter + 1

(* What a request that runs alone finds and leaves behind: results, ...    *)
Asks(t) ==
  /\ tPc[t] # "reset" => resultCounter = 0
  /\ tPc[t] \notin {"reset", "options"} => resultOptions = query[t]
  /\ tPc[t] \in {"label", "check", "count", "row", "respond"} => queryResult.query = query[t]
  /\ tPc[t] = "respond" => Shows(page[t], 0)

(* ... or next or previous.                                                *)
Turns(t) ==
  /\ tPc[t] \in {"test", "load", "store"} => Saw(resultCounter)
  /\ tPc[t] = "store" => counter[t] = resultCounter
  /\ tPc[t] \in {"label", "check", "count", "row"} => Saw(Back(t))
  /\ tPc[t] = "respond" =>
       \/ page[t].rows = <<>> /\ Saw(resultCounter) /\ Web!Refused(t)
       \/ Saw(Back(t)) /\ Shows(page[t], resultCounter)

Paging ==
  \A t \in alone :
    /\ Web!Live = {t} /\ t \notin stale
    /\ tPc[t] \in {"check", "count", "row"} => page[t].name = resultOptions
    /\ tPc[t] \in {"count", "row"} => page[t].of = queryResult.size
    /\ request[t] = "results" => Asks(t)
    /\ trail # <<>> /\ request[t] \in {"next", "previous"} => Turns(t)
    /\ trail # <<>> /\ request[t] = "home" => Saw(resultCounter)

Between == Web!Live = {} /\ trail # <<>> => Saw(resultCounter)

WebInv ==
  /\ WebTypes /\ Handled /\ Counting /\ Building /\ Paging /\ Between
  /\ Web!PagesFollow

-----------------------------------------------------------------------------
(* % for a number that is one modulus below 0 at most                      *)
LEMMA Wraps ==
  ASSUME NEW m \in Nat \ {0}, NEW x \in -m .. m - 1
  PROVE  x % m = IF x >= 0 THEN x ELSE x + m
<1>1. CASE x >= 0
  BY <1>1, SMT
<1>2. CASE x < 0
  BY <1>2, SMT
<1>3. QED
  BY <1>1, <1>2, SMT

(* How many results are before a page                                      *)
LEMMA Products ==
  ASSUME NEW c \in Int
  PROVE  /\ Before(c) \in Int
         /\ Before(0) = 0
         /\ Before(c + 1) = Before(c) + numResults
         /\ Before(c - 1) = Before(c) - numResults
         /\ c >= 0 => Before(c) >= 0
         /\ c < 0 => Before(c) <= -numResults
<1> DEFINE n == numResults
<1> n \in Nat /\ n > 0
  BY WebAssumption
<1> HIDE DEF n
<1>1. c * n \in Int /\ 0 * n = 0 /\ (c + 1) * n = c * n + n /\ (c - 1) * n = c * n - n
  BY SMT
<1>2. c >= 0 => c * n >= 0
  BY SMT
<1>3. c < 0 => c * n <= -n
  BY SMT
<1>4. QED
  BY <1>1, <1>2, <1>3 DEF Before, n

(* A product of a counter that is bounded is bounded.                      *)
LEMMA Bounded ==
  ASSUME NEW m \in Nat, NEW n \in Nat, NEW c \in Int, c \in -m .. m
  PROVE  c * n \in -(m * n) .. m * n
<1>1. c * n <= m * n
  BY SMT
<1>2. (c + m) * n >= 0
  BY SMT
<1>3. -(m * n) <= c * n
  BY <1>2, SMT
<1>4. QED
  BY <1>1, <1>3

(* The test in kthResults is right although its product is unsigned.       *)
LEMMA FirstIsBefore ==
  ASSUME WebTypes, Counting
  PROVE  IF HasPage(resultCounter) THEN Web!First = Before(resultCounter)
         ELSE queryResult.size - Web!First <= 0
<1> DEFINE x == Before(resultCounter)
           size == queryResult.size
           top == (MaxRequests + 1) * numResults
<1>1. resultCounter \in -(MaxRequests + 1) .. MaxRequests + 1
  <2>1. Cardinality(Pending) \in Nat
    BY FS_Subset, FS_CardinalityType, WebAssumption DEF Pending
  <2>2. QED
    BY <2>1, WebAssumption DEF Counting, Moves, WebTypes, ServerTypes
<1>2. x \in -top .. top
  <2>1. MaxRequests + 1 \in Nat /\ numResults \in Nat
    BY WebAssumption
  <2>2. resultCounter \in Int
    BY DEF WebTypes, ServerTypes
  <2>3. QED
    BY <1>1, <2>1, <2>2, Bounded DEF Before
<1>3. size \in Nat /\ top \in Nat /\ top > 0 /\ SizeMod \in Nat /\ size + top <= SizeMod
  <2>1. size \in Nat /\ SizeMod \in Nat /\ size + top <= SizeMod
    <3>1. size \in Sizes \cup {0}
      BY DEF WebTypes, ServerTypes
    <3> HIDE DEF size, top
    <3>2. size \in Nat /\ SizeMod \in Nat
      BY <3>1, WebAssumption
    <3>3. \A n \in Sizes \cup {0} : n + top <= SizeMod
      BY WebAssumption DEF top
    <3>4. QED
      BY <3>1, <3>2, <3>3
  <2>2. MaxRequests \in Nat /\ numResults \in Nat \ {0}
    BY WebAssumption
  <2>3. top \in Nat /\ top > 0
    BY <2>2, SMT
  <2>4. QED
    BY <2>1, <2>3
<1>4. Web!First = x % SizeMod
  BY DEF Web!First, Before
<1>5. HasPage(resultCounter) <=> x >= 0 /\ x < size
  BY DEF HasPage
<1> HIDE DEF x, size, top
<1>6. CASE x = SizeMod
  <2>1. x % SizeMod = 0
    BY <1>3, <1>6, SMT
  <2>2. size = 0
    BY <1>2, <1>3, <1>6
  <2>3. QED
    BY <1>3, <1>4, <1>5, <1>6, <2>1, <2>2 DEF x, size
<1>7. CASE x # SizeMod
  <2>1. x \in -SizeMod .. SizeMod - 1
    BY <1>2, <1>3, <1>7
  <2>2. x % SizeMod = IF x >= 0 THEN x ELSE x + SizeMod
    <3>1. SizeMod \in Nat \ {0}
      BY <1>3
    <3>2. QED
      BY <2>1, <3>1, Wraps
  <2>3. QED
    BY <1>2, <1>3, <1>4, <1>5, <2>2 DEF x, size
<1>8. QED
  BY <1>6, <1>7

-----------------------------------------------------------------------------
(* Numbers of results are numbers.                                         *)
LEMMA SizesAreNumbers == \A n \in Sizes \cup {0} : n \in Nat /\ n \in Int
  BY WebAssumption

(* There are numbers that SizeT holds.                                     *)
LEMMA ModPositive == SizeMod \in Nat \ {0}
<1> DEFINE top == (MaxRequests + 1) * numResults
<1>1. MaxRequests \in Nat /\ numResults \in Nat \ {0}
  BY WebAssumption
<1>2. top \in Nat /\ top > 0
  BY <1>1, SMT
<1>3. SizeMod \in Nat /\ 0 + top <= SizeMod
  BY WebAssumption
<1> HIDE DEF top
<1>4. QED
  BY <1>2, <1>3

(* Writing one field of a page leaves the others: the kind, ...            *)
LEMMA WriteKind ==
  ASSUME NEW p \in Pages, NEW k \in Kinds \cup {"none"}
  PROVE  LET q == [p EXCEPT !.kind = k] IN
           q \in Pages /\ q.kind = k /\ q.name = p.name /\ q.of = p.of /\ q.rows = p.rows
  BY DEF Pages

(* ... the name, ...                                                       *)
LEMMA WriteName ==
  ASSUME NEW p \in Pages, NEW n \in Nat
  PROVE  LET q == [p EXCEPT !.name = n] IN
           q \in Pages /\ q.kind = p.kind /\ q.name = n /\ q.of = p.of /\ q.rows = p.rows
  BY DEF Pages

(* ... the number of results, ...                                          *)
LEMMA WriteOf ==
  ASSUME NEW p \in Pages, NEW n \in Nat
  PROVE  LET q == [p EXCEPT !.of = n] IN
           q \in Pages /\ q.kind = p.kind /\ q.name = p.name /\ q.of = n /\ q.rows = p.rows
  BY DEF Pages

(* ... and the rows.                                                       *)
LEMMA WriteRows ==
  ASSUME NEW p \in Pages, NEW s \in Seq(Rows)
  PROVE  LET q == [p EXCEPT !.rows = s] IN
           q \in Pages /\ q.kind = p.kind /\ q.name = p.name /\ q.of = p.of /\ q.rows = s
  BY DEF Pages

(* The fields of a page                                                    *)
LEMMA PageParts ==
  ASSUME NEW p \in Pages
  PROVE  /\ p.kind \in Kinds \cup {"none"} /\ p.name \in Nat /\ p.of \in Nat
         /\ p.rows \in Seq(Rows)
  BY DEF Pages

(* What is left of a request is nothing.                                   *)
LEMMA NoPageIsPage == Web!NoPage \in Pages /\ Web!NoPage.rows = <<>>
<1>1. <<>> \in Seq(Rows)
  OBVIOUS
<1>2. QED
  BY <1>1 DEF Web!NoPage, Pages

(* A row that is not there has an index that no result has.                *)
LEMMA GarbageIsRow == Web!Garbage \in Rows /\ Web!Garbage.index = -1
  BY DEF Web!Garbage, Rows

(* The row that is shown next                                              *)
NextRow(t) ==
  LET i == Len(page[t].rows) IN
  IF Web!Index(i) \in 0 .. queryResult.size - 1
  THEN [query |-> queryResult.query, index |-> Web!Index(i)] ELSE Web!Garbage

(* What each step of a thread writes to its page                           *)
LEMMA PageSteps ==
  ASSUME WebTypes, NEW t \in WebThreads
  PROVE  /\ Web!Label(t) => page' = [page EXCEPT ![t] = [page[t] EXCEPT !.name = resultOptions]]
         /\ Web!Check(t) =>
              page' = [page EXCEPT ![t] = [page[t] EXCEPT !.of =
                 IF queryResult.size - Web!First > 0 THEN queryResult.size ELSE 0]]
         /\ Web!Row(t) =>
              page' = [page EXCEPT ![t] =
                 [page[t] EXCEPT !.rows = Append(page[t].rows, NextRow(t))]]
         /\ Web!RowFaults(t) =>
              page' = [page EXCEPT ![t] =
                 [page[t] EXCEPT !.rows = Append(page[t].rows, Web!Garbage)]]
         /\ \A kind \in Kinds : Web!ReadRequest(t, kind) =>
              page' = [page EXCEPT ![t] = [page[t] EXCEPT !.kind = kind]]
<1>1. Web!Label(t) => page' = [page EXCEPT ![t] = [page[t] EXCEPT !.name = resultOptions]]
  BY DEF Web!Label
<1>2. Web!Check(t) =>
        page' = [page EXCEPT ![t] = [page[t] EXCEPT !.of =
           IF queryResult.size - Web!First > 0 THEN queryResult.size ELSE 0]]
  BY DEF Web!Check
<1>3. Web!Row(t) =>
        page' = [page EXCEPT ![t] = [page[t] EXCEPT !.rows = Append(page[t].rows, NextRow(t))]]
  BY DEF Web!Row, NextRow
<1>4. Web!RowFaults(t) =>
        page' = [page EXCEPT ![t] = [page[t] EXCEPT !.rows = Append(page[t].rows, Web!Garbage)]]
  BY DEF Web!RowFaults
<1>5. ASSUME NEW kind \in Kinds
      PROVE  Web!ReadRequest(t, kind) =>
               page' = [page EXCEPT ![t] = [page[t] EXCEPT !.kind = kind]]
  BY DEF Web!ReadRequest
<1>6. QED
  BY <1>1, <1>2, <1>3, <1>4, <1>5

(* It is a row, if only garbage.                                           *)
LEMMA NextRowIsRow ==
  ASSUME WebTypes, NEW t \in WebThreads
  PROVE  NextRow(t) \in Rows
<1>1. Len(page[t].rows) \in Int /\ resultCounter * numResults \in Int
  BY WebAssumption, PageParts DEF WebTypes, ServerTypes, PageTypes
<1>2. queryResult.query \in Nat /\ queryResult.size \in Int
  BY SizesAreNumbers DEF WebTypes, ServerTypes, PageTypes
<1>3. Web!Index(Len(page[t].rows)) \in Int
  BY <1>1, <1>2 DEF Web!Index
<1>4. QED
  BY <1>2, <1>3, GarbageIsRow DEF NextRow, Rows

-----------------------------------------------------------------------------
(* The page that is written to stays a page, and the others as they are.   *)
LEMMA PageTypesStep ==
  ASSUME WebTypes, NEW t \in WebThreads,
         \/ Web!Responder(t) \/ (\E kind \in Kinds : Web!ReadRequest(t, kind))
  PROVE  /\ page' \in [WebThreads -> Pages]
         /\ \A u \in WebThreads \ {t} : page'[u] = page[u]
<1>1. page \in [WebThreads -> Pages] /\ page[t] \in Pages /\ page[t].rows \in Seq(Rows)
  BY PageParts DEF WebTypes, ServerTypes, PageTypes
<1>2. CASE \E kind \in Kinds : Web!ReadRequest(t, kind)
  <2>1. PICK kind \in Kinds : Web!ReadRequest(t, kind)
    BY <1>2
  <2>2. page' = [page EXCEPT ![t] = [page[t] EXCEPT !.kind = kind]]
    BY <2>1, PageSteps
  <2>3. [page[t] EXCEPT !.kind = kind] \in Pages
    BY <1>1, WriteKind
  <2>4. QED
    BY <1>1, <2>2, <2>3
<1>3. CASE Web!Label(t)
  <2>1. [page[t] EXCEPT !.name = resultOptions] \in Pages
    BY <1>1, WriteName DEF WebTypes, ServerTypes, PageTypes
  <2>2. QED
    BY <1>1, <1>3, <2>1, PageSteps
<1>4. CASE Web!Check(t)
  <2> DEFINE n == IF queryResult.size - Web!First > 0 THEN queryResult.size ELSE 0
  <2>1. n \in Nat
    BY SizesAreNumbers DEF WebTypes, ServerTypes, PageTypes
  <2>2. page' = [page EXCEPT ![t] = [page[t] EXCEPT !.of = n]]
    BY <1>4, PageSteps
  <2> HIDE DEF n
  <2>3. [page[t] EXCEPT !.of = n] \in Pages
    BY <1>1, <2>1, WriteOf
  <2>4. QED
    BY <1>1, <2>2, <2>3
<1>5. CASE Web!Row(t)
  <2>1. Append(page[t].rows, NextRow(t)) \in Seq(Rows)
    BY <1>1, NextRowIsRow
  <2>2. [page[t] EXCEPT !.rows = Append(page[t].rows, NextRow(t))] \in Pages
    BY <1>1, <2>1, WriteRows
  <2>3. page' = [page EXCEPT ![t] =
                   [page[t] EXCEPT !.rows = Append(page[t].rows, NextRow(t))]]
    BY <1>5, PageSteps
  <2>4. QED
    BY <1>1, <2>2, <2>3
<1>6. CASE Web!RowFaults(t)
  <2>1. Append(page[t].rows, Web!Garbage) \in Seq(Rows)
    BY <1>1, GarbageIsRow
  <2>2. [page[t] EXCEPT !.rows = Append(page[t].rows, Web!Garbage)] \in Pages
    BY <1>1, <2>1, WriteRows
  <2>3. page' = [page EXCEPT ![t] =
                   [page[t] EXCEPT !.rows = Append(page[t].rows, Web!Garbage)]]
    BY <1>6, PageSteps
  <2>4. QED
    BY <1>1, <2>2, <2>3
<1>7. CASE Web!Respond(t)
  <2>1. page' = [page EXCEPT ![t] = Web!NoPage]
    BY <1>7 DEF Web!Respond
  <2>2. QED
    BY <1>1, <2>1, NoPageIsPage
<1>8. CASE \/ Web!ParseFails(t) \/ Web!ResetCounter(t) \/ Web!SetOptions(t)
           \/ Web!Lock(t) \/ Web!Assign(t) \/ Web!Test(t) \/ Web!Load(t) \/ Web!Store(t)
           \/ Web!CountRows(t) \/ \E n \in Sizes : Web!Receive(t, n)
  <2>1. page' = page
    BY <1>8
    DEF Web!ParseFails, Web!ResetCounter, Web!SetOptions, Web!Lock, Web!Assign,
        Web!Test, Web!Load, Web!Store, Web!Receive, Web!CountRows, Web!locals
  <2>2. QED
    BY <1>1, <2>1
<1>9. QED
  BY <1>2, <1>3, <1>4, <1>5, <1>6, <1>7, <1>8 DEF Web!Responder

(* The trail has at most two pages.                                        *)
LEMMA TrailTypesStep ==
  ASSUME WebTypes, NEW t \in WebThreads,
         \/ Web!Responder(t) \/ (\E kind \in Kinds : Web!ReadRequest(t, kind))
  PROVE  trail' \in Seq(Pages) /\ Len(trail') <= 2
<1>1. CASE trail' = trail
  BY <1>1 DEF WebTypes, ServerTypes, PageTypes
<1>2. CASE Web!Respond(t)
  <2>1. page[t] \in Pages /\ trail \in Seq(Pages) /\ Len(trail) \in Nat
    BY DEF WebTypes, PageTypes
  <2>2. \/ trail' = <<>> \/ trail' = trail \/ trail' = <<page[t]>>
        \/ trail # <<>> /\ trail' = <<LastPage, page[t]>>
    BY <1>2 DEF Web!Respond, LastPage
  <2>3. trail # <<>> => LastPage \in Pages
    BY <2>1 DEF LastPage
  <2>4. CASE trail # <<>> /\ trail' = <<LastPage, page[t]>>
    BY <2>1, <2>3, <2>4
  <2>5. CASE trail' = trail
    BY <2>1, <2>5 DEF WebTypes, PageTypes
  <2>6. CASE trail' = <<>>
    BY <2>6
  <2>7. CASE trail' = <<page[t]>>
    BY <2>1, <2>7
  <2>8. QED
    BY <2>2, <2>4, <2>5, <2>6, <2>7
<1>3. QED
  BY <1>1, <1>2
  DEF Web!Responder, Web!ParseFails, Web!ResetCounter, Web!SetOptions, Web!Lock,
      Web!Assign, Web!Test, Web!Load, Web!Store, Web!Receive, Web!Label, Web!Check, Web!CountRows,
      Web!Row, Web!RowFaults, Web!ReadRequest, Web!history

(* Where the handling of a request begins                                  *)
LEMMA HandlerLabels ==
  ASSUME NEW kind \in Kinds
  PROVE  /\ Web!Handler(kind) \in {"fail", "respond", "reset", "test"}
         /\ Web!Handler(kind) = "fail" <=> kind = "cut"
         /\ Web!Handler(kind) = "respond" <=> kind = "home"
         /\ Web!Handler(kind) = "reset" <=> kind \in {"results", "empty"}
         /\ Web!Handler(kind) = "test" <=> kind \in {"next", "previous"}
<1>1. kind \in {"home", "results", "next", "previous", "empty", "cut"}
  BY WebAssumption
<1>2. CASE kind = "home"
  BY <1>2 DEF Web!Handler
<1>3. CASE kind = "results"
  BY <1>3 DEF Web!Handler
<1>4. CASE kind = "next"
  BY <1>4 DEF Web!Handler
<1>5. CASE kind = "previous"
  BY <1>5 DEF Web!Handler
<1>6. CASE kind = "empty"
  BY <1>6 DEF Web!Handler
<1>7. CASE kind = "cut"
  BY <1>7 DEF Web!Handler
<1>8. QED
  BY <1>1, <1>2, <1>3, <1>4, <1>5, <1>6, <1>7

(* Every step keeps the types of the globals and locals...                 *)
LEMMA ServerTypesStep ==
  ASSUME WebTypes, Web!Next
  PROVE  ServerTypes'
<1> USE DEF ServerTypes, Labels
<1>1. CASE Web!ReadFails
  <2>1. accepted' \in 0 .. MaxRequests
    BY <1>1, WebAssumption DEF Web!ReadFails, WebTypes
  <2>2. QED
    BY <1>1, <2>1 DEF Web!ReadFails, WebTypes, Web!locals, Web!globals, Web!history
<1>2. ASSUME NEW t \in WebThreads, NEW kind \in Kinds, Web!ReadRequest(t, kind)
      PROVE  ServerTypes'
  <2>1. Web!Handler(kind) \in Labels
    BY HandlerLabels
  <2>2. accepted' \in 0 .. MaxRequests /\ accepted + 1 \in Nat
    BY <1>2, WebAssumption DEF Web!ReadRequest, WebTypes
  <2>3. /\ request' \in [WebThreads -> Kinds \cup {"none"}]
        /\ query' \in [WebThreads -> Nat] /\ tPc' \in [WebThreads -> Labels]
        /\ alone' \subseteq WebThreads
    BY <1>2, <2>1, <2>2 DEF Web!ReadRequest, Web!Goto, WebTypes
  <2>4. UNCHANGED <<running, reply, show, counter, resultCounter, resultOptions,
                    queryResult, stale>>
    BY <1>2 DEF Web!ReadRequest, Web!globals
  <2>5. QED
    BY <2>2, <2>3, <2>4 DEF WebTypes
<1>3. ASSUME NEW t \in WebThreads, Web!Responder(t)
      PROVE  ServerTypes'
  <2>1. numResults \in Int /\ queryResult.size \in Int /\ Web!First \in Int
    <3>1. resultCounter * numResults \in Int /\ numResults \in Int
      BY WebAssumption DEF WebTypes
    <3>2. Web!First \in Int
      <4> DEFINE x == resultCounter * numResults
      <4> HIDE DEF x
      <4>1. x \in Int => x % SizeMod \in Int
        BY ModPositive
      <4>2. QED
        BY <3>1, <4>1 DEF x, Web!First
    <3>3. QED
      BY <3>1, <3>2, SizesAreNumbers DEF WebTypes
  <2>2. CASE Web!ParseFails(t)
    BY <2>2 DEF Web!ParseFails, Web!main, Web!locals,
       Web!globals, Web!history,
        Web!Goto, WebTypes
  <2>3. CASE Web!ResetCounter(t)
    BY <2>3 DEF Web!ResetCounter, Web!Changes, Web!Live, Web!main, Web!locals,
       Web!globals, Web!history,
        Web!Goto, WebTypes
  <2>4. CASE Web!SetOptions(t)
    BY <2>4 DEF Web!SetOptions, Web!main, Web!locals,
       Web!globals, Web!history,
        Web!Goto, WebTypes
  <2>5. CASE Web!Lock(t)
    BY <2>5 DEF Web!Lock, Web!main, Web!locals,
       Web!globals, Web!history,
        Web!Goto, WebTypes
  <2>6. CASE Web!Assign(t)
    BY <2>6 DEF Web!Assign, Web!Changes, Web!Live, Web!main, Web!locals,
       Web!globals, Web!history,
        Web!Goto, WebTypes
  <2>7. CASE Web!Test(t)
    BY <2>7 DEF Web!Test, Web!main, Web!locals,
       Web!globals, Web!history,
        Web!Goto, WebTypes
  <2>8. CASE Web!Load(t)
    BY <2>8 DEF Web!Load, Web!main, Web!locals,
       Web!globals, Web!history,
        Web!Goto, WebTypes
  <2>9. CASE Web!Store(t)
    BY <2>9 DEF Web!Store, Web!Changes, Web!Live, Web!main, Web!locals,
       Web!globals, Web!history,
        Web!Goto, WebTypes
  <2>10. CASE Web!Label(t)
    BY <2>10 DEF Web!Label, Web!main, Web!locals,
       Web!globals, Web!history,
        Web!Goto, WebTypes
  <2>11. CASE Web!Row(t)
    BY <2>11 DEF Web!Row, Web!main, Web!locals,
       Web!globals, Web!history,
        Web!Goto, WebTypes
  <2>12. CASE Web!RowFaults(t)
    BY <2>12 DEF Web!RowFaults, Web!main, Web!locals,
       Web!globals, Web!history,
        Web!Goto, WebTypes
  <2>13. CASE Web!Respond(t)
    BY <2>13 DEF Web!Respond, Web!main, Web!locals,
       Web!globals, Web!history,
        Web!Goto, WebTypes
  <2>14. CASE \E n \in Sizes : Web!Receive(t, n)
    BY <2>14 DEF Web!Receive, Web!main, Web!locals,
       Web!globals, Web!history,
        Web!Goto, WebTypes
  <2>15. CASE Web!Check(t)
    <3>1. tPc' \in [WebThreads -> Labels]
      BY <2>1, <2>15 DEF Web!Check, Web!Goto, WebTypes
    <3>2. QED
      BY <2>15, <3>1 DEF Web!Check, Web!main, Web!globals, Web!history, WebTypes
  <2>16. CASE Web!CountRows(t)
    <3> DEFINE n == (queryResult.size - Web!First) % SizeMod
               rows == IF n < numResults THEN n ELSE numResults
    <3>1. n \in Int
      <4> DEFINE x == queryResult.size - Web!First
      <4>1. x \in Int
        BY <2>1
      <4> HIDE DEF x
      <4>2. x % SizeMod \in Int
        BY <4>1, ModPositive
      <4>3. QED
        BY <4>2 DEF x
    <3>2. tPc' = [tPc EXCEPT ![t] = IF rows = 0 THEN "respond" ELSE "row"]
          /\ show' = [show EXCEPT ![t] = rows]
      BY <2>16 DEF Web!CountRows, Web!Goto
    <3> HIDE DEF n
    <3>3. rows \in Int
      BY <2>1, <3>1
    <3> HIDE DEF rows
    <3>4. show' \in [WebThreads -> Int] /\ tPc' \in [WebThreads -> Labels]
      BY <3>2, <3>3 DEF WebTypes
    <3>5. QED
      BY <2>16, <3>4 DEF Web!CountRows, Web!main, Web!globals, Web!history, WebTypes
  <2>17. QED
    BY <1>3, <2>2, <2>3, <2>4, <2>5, <2>6, <2>7, <2>8, <2>9, <2>10, <2>11, <2>12,
       <2>13, <2>14, <2>15, <2>16 DEF Web!Responder
<1>4. QED
  BY <1>1, <1>2, <1>3 DEF Web!Next, Web!Clients

(* ... and those of the pages.                                             *)
LEMMA PageTypesKept ==
  ASSUME WebTypes, Web!Next
  PROVE  PageTypes'
<1>1. CASE Web!ReadFails
  BY <1>1 DEF Web!ReadFails, Web!locals, Web!history, WebTypes, PageTypes
<1>2. QED
  BY <1>1, PageTypesStep, TrailTypesStep DEF Web!Next, Web!Clients, PageTypes

-----------------------------------------------------------------------------
(* A thread writes to what is its own.                                     *)
LEMMA OthersStay ==
  ASSUME WebTypes, NEW t \in WebThreads,
         \/ Web!Responder(t) \/ (\E kind \in Kinds : Web!ReadRequest(t, kind)),
         NEW u \in WebThreads \ {t}
  PROVE  /\ tPc'[u] = tPc[u] /\ request'[u] = request[u] /\ query'[u] = query[u]
         /\ show'[u] = show[u] /\ counter'[u] = counter[u] /\ page'[u] = page[u]
<1>1. page'[u] = page[u]
  BY PageTypesStep
<1>2. /\ tPc'[u] = tPc[u] /\ request'[u] = request[u] /\ query'[u] = query[u]
      /\ show'[u] = show[u] /\ counter'[u] = counter[u]
  BY DEF Web!ParseFails, Web!ResetCounter, Web!SetOptions, Web!Lock,
      Web!Assign, Web!Test, Web!Load, Web!Store, Web!Label, Web!Check, Web!CountRows,
      Web!Row, Web!RowFaults, Web!Respond, Web!Receive, Web!Responder,
      Web!ReadRequest, Web!Goto, Web!main, Web!locals, WebTypes, ServerTypes
<1>3. QED
  BY <1>1, <1>2

(* Its request and the kind of its page stay until it is answered.         *)
LEMMA RequestStays ==
  ASSUME WebTypes, NEW t \in WebThreads, Web!Responder(t), ~Web!Respond(t)
  PROVE  /\ request' = request /\ query' = query
         /\ page'[t].kind = page[t].kind
<1>1. request' = request /\ query' = query
  BY DEF Web!ParseFails, Web!ResetCounter, Web!SetOptions, Web!Lock,
      Web!Assign, Web!Test, Web!Load, Web!Store, Web!Label, Web!Check, Web!CountRows,
      Web!Row, Web!RowFaults, Web!Receive, Web!Responder, Web!main
<1>2. page[t] \in Pages /\ page \in [WebThreads -> Pages] /\ page[t].rows \in Seq(Rows)
  BY PageParts DEF WebTypes, PageTypes
<1>3. CASE Web!Label(t)
  <2>1. resultOptions \in Nat
    BY DEF WebTypes, ServerTypes
  <2>2. page' = [page EXCEPT ![t] = [page[t] EXCEPT !.name = resultOptions]]
    BY <1>3, PageSteps
  <2>3. [page[t] EXCEPT !.name = resultOptions].kind = page[t].kind
    BY <1>2, <2>1, WriteName
  <2>4. QED
    BY <1>1, <1>2, <2>2, <2>3
<1>4. CASE Web!Check(t)
  <2> DEFINE n == IF queryResult.size - Web!First > 0 THEN queryResult.size ELSE 0
  <2>1. n \in Nat
    BY SizesAreNumbers DEF WebTypes, ServerTypes
  <2>2. page' = [page EXCEPT ![t] = [page[t] EXCEPT !.of = n]]
    BY <1>4, PageSteps
  <2> HIDE DEF n
  <2>3. QED
    BY <1>1, <1>2, <2>1, <2>2, WriteOf
<1>5. CASE Web!Row(t)
  <2>1. Append(page[t].rows, NextRow(t)) \in Seq(Rows)
    BY <1>2, NextRowIsRow
  <2>2. page' = [page EXCEPT ![t] = [page[t] EXCEPT !.rows = Append(page[t].rows, NextRow(t))]]
    BY <1>5, PageSteps
  <2>3. [page[t] EXCEPT !.rows = Append(page[t].rows, NextRow(t))].kind = page[t].kind
    BY <1>2, <2>1, WriteRows
  <2>4. QED
    BY <1>1, <1>2, <2>2, <2>3
<1>6. CASE Web!RowFaults(t)
  <2>1. Append(page[t].rows, Web!Garbage) \in Seq(Rows)
    BY <1>2, GarbageIsRow
  <2>2. page' = [page EXCEPT ![t] = [page[t] EXCEPT !.rows = Append(page[t].rows, Web!Garbage)]]
    BY <1>6, PageSteps
  <2>3. [page[t] EXCEPT !.rows = Append(page[t].rows, Web!Garbage)].kind = page[t].kind
    BY <1>2, <2>1, WriteRows
  <2>4. QED
    BY <1>1, <1>2, <2>2, <2>3
<1>7. CASE page' = page
  BY <1>1, <1>7
<1>8. QED
  BY <1>1, <1>3, <1>4, <1>5, <1>6, <1>7 DEF Web!ParseFails, Web!ResetCounter,
      Web!SetOptions, Web!Lock, Web!Assign, Web!Test, Web!Load, Web!Store,
      Web!Receive, Web!CountRows, Web!Responder, Web!locals

(* A thread goes the way of its request.                                   *)
LEMMA HandledStep ==
  ASSUME WebTypes, Handled, Web!Next
  PROVE  Handled'
<1> DEFINE H(l, r) ==
      /\ l \in {"reset", "options"} => r \in {"results", "empty"}
      /\ l \in {"lock", "ask", "assign"} => r = "results"
      /\ l \in {"test", "load", "store"} => r \in {"next", "previous"}
      /\ l = "respond" => r \in {"results", "next", "previous", "home", "empty"}
      /\ l \in {"label", "check", "count", "row"} =>
           r \in {"results", "next", "previous"}
<1>1. CASE Web!ReadFails
  BY <1>1 DEF Web!ReadFails, Web!locals, Handled
<1>2. ASSUME NEW t \in WebThreads,
             Web!Responder(t) \/ (\E kind \in Kinds : Web!ReadRequest(t, kind)),
             H(tPc'[t], request'[t]),
             tPc'[t] # "none" => page'[t].kind = request'[t]
      PROVE  Handled'
  BY <1>2, OthersStay DEF Handled
<1>3. ASSUME NEW t \in WebThreads, NEW kind \in Kinds, Web!ReadRequest(t, kind)
      PROVE  Handled'
  <2>1. page' = [page EXCEPT ![t] = [page[t] EXCEPT !.kind = kind]]
    BY <1>3, PageSteps
  <2>2. page'[t].kind = kind
    BY <2>1, WriteKind, PageParts DEF WebTypes, PageTypes
  <2>3. tPc'[t] = Web!Handler(kind) /\ request'[t] = kind
    BY <1>3 DEF Web!ReadRequest, Web!Goto, WebTypes, ServerTypes
  <2>4. H(tPc'[t], request'[t])
    BY <2>3, HandlerLabels
  <2>5. QED
    BY <1>2, <1>3, <2>2, <2>3, <2>4
<1>4. ASSUME NEW t \in WebThreads, Web!Responder(t)
      PROVE  Handled'
  <2>1. CASE Web!Respond(t)
    <3>1. tPc'[t] = "none"
      BY <2>1 DEF Web!Respond, Web!Goto, WebTypes, ServerTypes
    <3>2. QED
      BY <1>2, <1>4, <3>1
  <2>2. CASE ~Web!Respond(t)
    <3>1. request' = request /\ page'[t].kind = page[t].kind
      BY <1>4, <2>2, RequestStays
    <3>2. H(tPc'[t], request[t]) /\ tPc[t] # "none"
      <4>1. CASE Web!ParseFails(t)
        BY <4>1 DEF Web!ParseFails, Web!Goto, Web!main, Web!locals, Handled,
            WebTypes, ServerTypes
      <4>2. CASE Web!ResetCounter(t)
        BY <4>2 DEF Web!ResetCounter, Web!Goto, Web!main, Web!locals, Handled,
            WebTypes, ServerTypes
      <4>3. CASE Web!SetOptions(t)
        BY <4>3 DEF Web!SetOptions, Web!Goto, Web!main, Web!locals, Handled,
            WebTypes, ServerTypes
      <4>4. CASE Web!Lock(t)
        BY <4>4 DEF Web!Lock, Web!Goto, Web!main, Web!locals, Handled,
            WebTypes, ServerTypes
      <4>5. CASE Web!Assign(t)
        BY <4>5 DEF Web!Assign, Web!Goto, Web!main, Web!locals, Handled,
            WebTypes, ServerTypes
      <4>6. CASE Web!Test(t)
        BY <4>6 DEF Web!Test, Web!Goto, Web!main, Web!locals, Handled,
            WebTypes, ServerTypes
      <4>7. CASE Web!Load(t)
        BY <4>7 DEF Web!Load, Web!Goto, Web!main, Web!locals, Handled,
            WebTypes, ServerTypes
      <4>8. CASE Web!Store(t)
        BY <4>8 DEF Web!Store, Web!Goto, Web!main, Web!locals, Handled,
            WebTypes, ServerTypes
      <4>9. CASE Web!Label(t)
        BY <4>9 DEF Web!Label, Web!Goto, Web!main, Web!locals, Handled,
            WebTypes, ServerTypes
      <4>10. CASE Web!Check(t)
        BY <4>10 DEF Web!Check, Web!Goto, Web!main, Web!locals, Handled,
            WebTypes, ServerTypes
      <4>11. CASE Web!Row(t)
        BY <4>11 DEF Web!Row, Web!Goto, Web!main, Web!locals, Handled,
            WebTypes, ServerTypes
      <4>12. CASE Web!RowFaults(t)
        BY <4>12 DEF Web!RowFaults, Web!Goto, Web!main, Web!locals, Handled,
            WebTypes, ServerTypes
      <4>13. CASE \E n \in Sizes : Web!Receive(t, n)
        BY <4>13 DEF Web!Receive, Web!Goto, Web!main, Web!locals, Handled,
            WebTypes, ServerTypes
      <4>14. CASE Web!CountRows(t)
        BY <4>14 DEF Web!CountRows, Web!Goto, Web!main, Web!locals, Handled,
            WebTypes, ServerTypes
      <4>15. QED
        BY <1>4, <2>2, <4>1, <4>2, <4>3, <4>4, <4>5, <4>6, <4>7, <4>8, <4>9,
           <4>10, <4>11, <4>12, <4>13, <4>14
        DEF Web!Responder
    <3>3. QED
      BY <1>2, <1>4, <3>1, <3>2 DEF Handled
  <2>3. QED
    BY <2>1, <2>2
<1>5. QED
  BY <1>1, <1>3, <1>4 DEF Web!Next, Web!Clients

-----------------------------------------------------------------------------
(* The counter                                                             *)
LEMMA PendingSize ==
  ASSUME NEW t \in WebThreads
  PROVE  /\ Cardinality(Pending) \in Nat
         /\ Cardinality(Pending \cup {t}) \in Nat
         /\ Cardinality(Pending \cup {t}) <= Cardinality(Pending) + 1
         /\ t \in Pending => Cardinality(Pending \ {t}) = Cardinality(Pending) - 1
<1>1. IsFiniteSet(Pending)
  BY FS_Subset, WebAssumption DEF Pending
<1>2. Cardinality(Pending) \in Nat
  BY <1>1, FS_CardinalityType
<1>3. Cardinality(Pending \cup {t}) = Cardinality(Pending)
        \/ Cardinality(Pending \cup {t}) = Cardinality(Pending) + 1
  BY <1>1, FS_AddElement
<1>4. t \in Pending => Cardinality(Pending \ {t}) = Cardinality(Pending) - 1
  BY <1>1, FS_RemoveElement
<1>5. QED
  BY <1>2, <1>3, <1>4

(* Who is between its test and its store                                   *)
LEMMA PendingSteps ==
  ASSUME WebTypes, NEW t \in WebThreads,
         Web!Responder(t) \/ (\E kind \in Kinds : Web!ReadRequest(t, kind))
  PROVE  /\ tPc'[t] \in {"test", "load", "store"} => Pending' = Pending \cup {t}
         /\ tPc'[t] \notin {"test", "load", "store"} => Pending' = Pending \ {t}
<1>1. \A u \in WebThreads \ {t} : u \in Pending' <=> u \in Pending
  BY OthersStay DEF Pending
<1>2. Pending \subseteq WebThreads /\ Pending' \subseteq WebThreads
  BY DEF Pending
<1>3. t \in Pending' <=> tPc'[t] \in {"test", "load", "store"}
  BY DEF Pending
<1>4. CASE t \in Pending'
  BY <1>1, <1>2, <1>3, <1>4
<1>5. CASE t \notin Pending'
  BY <1>1, <1>2, <1>3, <1>5
<1>6. QED
  BY <1>4, <1>5

(* A step that changes the counter has been pending before, and is not any *)
(* more.                                                                   *)
LEMMA CountingStep ==
  ASSUME WebTypes, Counting, Web!Next
  PROVE  Counting'
<1>1. accepted \in Nat /\ resultCounter \in Int /\ counter \in [WebThreads -> Int]
      /\ tPc \in [WebThreads -> Labels]
  BY WebAssumption DEF WebTypes, ServerTypes
<1>2. CASE Web!ReadFails
  <2>1. Pending' = Pending /\ accepted' = accepted + 1 /\ resultCounter' = resultCounter
        /\ counter' = counter /\ tPc' = tPc
    BY <1>2 DEF Web!ReadFails, Web!locals, Web!globals, Pending
  <2>2. ASSUME NEW n \in Nat, n = Cardinality(Pending)
        PROVE  Counting'
    BY <1>1, <2>1, <2>2 DEF Counting, Moves
  <2>3. Cardinality(Pending) \in Nat
    BY FS_Subset, FS_CardinalityType, WebAssumption DEF Pending
  <2>4. QED
    BY <2>2, <2>3
<1>3. ASSUME NEW t \in WebThreads,
             Web!Responder(t) \/ (\E kind \in Kinds : Web!ReadRequest(t, kind)),
             Moves' \in Int, Moves' >= Moves,
             resultCounter' \in -Moves' .. Moves',
             tPc'[t] = "store" => counter'[t] \in -Moves' .. Moves'
      PROVE  Counting'
  <2>1. Moves \in Int /\ Moves >= 1
    <3>1. Cardinality(Pending) \in Nat
      BY PendingSize
    <3>2. QED
      BY <1>1, <3>1 DEF Counting, Moves
  <2>2. ASSUME NEW u \in WebThreads \ {t}, tPc'[u] = "store"
        PROVE  counter'[u] \in -Moves' .. Moves'
    <3>1. tPc[u] = "store" /\ counter'[u] = counter[u]
      BY <1>3, <2>2, OthersStay
    <3>2. counter[u] \in -Moves .. Moves
      BY <3>1 DEF Counting
    <3>3. QED
      BY <1>3, <2>1, <3>1, <3>2
  <2>3. Moves' >= 1
    BY <1>3, <2>1
  <2>4. \A u \in WebThreads : tPc'[u] = "store" => counter'[u] \in -Moves' .. Moves'
    BY <1>3, <2>2
  <2>5. QED
    BY <1>3, <2>3, <2>4 DEF Counting
<1>4. ASSUME NEW t \in WebThreads, NEW kind \in Kinds, Web!ReadRequest(t, kind)
      PROVE  Counting'
  <2>1. /\ accepted' = accepted + 1 /\ resultCounter' = resultCounter
        /\ tPc[t] = "none" /\ tPc'[t] = Web!Handler(kind)
    BY <1>1, <1>4 DEF Web!ReadRequest, Web!globals, Web!Goto
  <2>2. tPc'[t] # "store" /\ t \notin Pending
    BY <2>1, HandlerLabels DEF Pending
  <2>3. Pending' = Pending \/ Pending' = Pending \cup {t}
    BY <1>4, <2>2, PendingSteps
  <2>4. Moves' \in Int /\ Moves' >= Moves /\ Moves \in Int
    <3>1. Cardinality(Pending) \in Nat /\ Cardinality(Pending') \in Nat
          /\ Cardinality(Pending') <= Cardinality(Pending) + 1
      <4>1. CASE Pending' = Pending
        <5>1. Cardinality(Pending) \in Nat
          BY PendingSize
        <5>2. Cardinality(Pending') = Cardinality(Pending)
          BY <4>1
        <5>3. QED
          BY <5>1, <5>2
      <4>2. CASE Pending' = Pending \cup {t}
        BY <4>2, PendingSize
      <4>3. QED
        BY <2>3, <4>1, <4>2
    <3>2. Moves = accepted + 1 - Cardinality(Pending)
          /\ Moves' = (accepted + 1) + 1 - Cardinality(Pending')
      BY <2>1 DEF Moves
    <3>3. QED
      BY <1>1, <3>1, <3>2
  <2>5. resultCounter' \in -Moves' .. Moves'
    <3>1. resultCounter \in -Moves .. Moves
      BY DEF Counting
    <3>2. resultCounter' = resultCounter
      BY <2>1
    <3>3. ASSUME NEW m \in Int, NEW n \in Int, n >= m, NEW c \in -m .. m
          PROVE  c \in -n .. n
      BY <3>3
    <3>4. QED
      BY <2>4, <3>1, <3>2, <3>3
  <2>6. QED
    BY <1>3, <1>4, <2>2, <2>4, <2>5
<1>5. ASSUME NEW t \in WebThreads, Web!Responder(t)
      PROVE  Counting'
  <2>1. accepted' = accepted
    BY <1>5 DEF Web!ParseFails, Web!ResetCounter, Web!SetOptions, Web!Lock,
        Web!Assign, Web!Test, Web!Load, Web!Store, Web!Label, Web!Check, Web!CountRows,
        Web!Row, Web!RowFaults, Web!Respond, Web!Receive, Web!Responder,
        Web!main
  <2>2. /\ t \in Pending /\ tPc'[t] \notin {"test", "load", "store"} => Moves' = Moves + 1
        /\ t \notin Pending /\ tPc'[t] \notin {"test", "load", "store"} => Moves' = Moves
        /\ t \in Pending /\ tPc'[t] \in {"test", "load", "store"} => Moves' = Moves
        /\ Moves \in Int
    <3>1. t \notin Pending => Pending \ {t} = Pending
      OBVIOUS
    <3>2. t \in Pending => Pending \cup {t} = Pending
      OBVIOUS
    <3>3. Cardinality(Pending) \in Nat
      BY PendingSize
    <3>4. t \in Pending /\ tPc'[t] \notin {"test", "load", "store"} =>
            Cardinality(Pending') = Cardinality(Pending) - 1
      BY <1>5, PendingSteps, PendingSize
    <3>5. t \notin Pending /\ tPc'[t] \notin {"test", "load", "store"} => Pending' = Pending
      BY <1>5, <3>1, PendingSteps
    <3>6. t \in Pending /\ tPc'[t] \in {"test", "load", "store"} => Pending' = Pending
      BY <1>5, <3>2, PendingSteps
    <3>7. Moves = accepted + 1 - Cardinality(Pending)
          /\ Moves' = accepted + 1 - Cardinality(Pending')
      BY <2>1 DEF Moves
    <3>8. QED
      BY <1>1, <3>3, <3>4, <3>5, <3>6, <3>7
  <2>3. t \in Pending <=> tPc[t] \in {"test", "load", "store"}
    BY DEF Pending
  <2>4. resultCounter \in -Moves .. Moves /\ Moves >= 1
    BY DEF Counting
  <2>5. CASE Web!ResetCounter(t)
    <3>1. resultCounter' = 0 /\ tPc[t] = "reset" /\ tPc'[t] = "options"
      BY <1>1, <2>5 DEF Web!ResetCounter, Web!Goto
    <3>2. QED
      BY <1>3, <1>5, <2>2, <2>3, <2>4, <3>1
  <2>6. CASE Web!Test(t)
    <3>1. resultCounter' = resultCounter /\ tPc[t] = "test" /\ tPc'[t] \in {"respond", "load"}
      BY <1>1, <2>6 DEF Web!Test, Web!Goto, Web!globals
    <3>2. QED
      BY <1>1, <1>3, <1>5, <2>2, <2>3, <2>4, <3>1
  <2>7. CASE Web!Load(t)
    <3>1. /\ resultCounter' = resultCounter /\ tPc[t] = "load" /\ tPc'[t] = "store"
          /\ counter'[t] = resultCounter
      BY <1>1, <2>7 DEF Web!Load, Web!Goto, Web!globals
    <3>2. QED
      BY <1>3, <1>5, <2>2, <2>3, <2>4, <3>1
  <2>8. CASE Web!Store(t)
    <3>1. /\ tPc[t] = "store" /\ tPc'[t] = "label"
          /\ resultCounter' = counter[t] + 1 \/ resultCounter' = counter[t] - 1
      BY <1>1, <2>8 DEF Web!Store, Web!Goto
    <3>2. counter[t] \in -Moves .. Moves
      BY <3>1 DEF Counting
    <3>3. QED
      BY <1>1, <1>3, <1>5, <2>2, <2>3, <2>4, <3>1, <3>2
  <2>9. CASE ~(\/ Web!ResetCounter(t) \/ Web!Test(t) \/ Web!Load(t) \/ Web!Store(t))
    <3>1. /\ resultCounter' = resultCounter
          /\ tPc[t] \notin {"test", "load", "store"}
          /\ tPc'[t] \notin {"test", "load", "store"}
      <4>1. CASE Web!ParseFails(t)
        BY <1>1, <4>1 DEF Web!ParseFails, Web!Goto, Web!locals, Web!globals
      <4>2. CASE Web!SetOptions(t)
        BY <1>1, <4>2 DEF Web!SetOptions, Web!Goto, Web!locals, Web!globals
      <4>3. CASE Web!Lock(t)
        BY <1>1, <4>3 DEF Web!Lock, Web!Goto, Web!locals, Web!globals
      <4>4. CASE Web!Assign(t)
        BY <1>1, <4>4 DEF Web!Assign, Web!Goto, Web!locals, Web!globals
      <4>5. CASE Web!Label(t)
        BY <1>1, <4>5 DEF Web!Label, Web!Goto, Web!locals, Web!globals
      <4>6. CASE Web!Check(t)
        BY <1>1, <4>6 DEF Web!Check, Web!Goto, Web!locals, Web!globals
      <4>7. CASE Web!Row(t)
        BY <1>1, <4>7 DEF Web!Row, Web!Goto, Web!locals, Web!globals
      <4>8. CASE Web!RowFaults(t)
        BY <1>1, <4>8 DEF Web!RowFaults, Web!Goto, Web!locals, Web!globals
      <4>9. CASE Web!Respond(t)
        BY <1>1, <4>9 DEF Web!Respond, Web!Goto, Web!locals, Web!globals
      <4>10. CASE \E n \in Sizes : Web!Receive(t, n)
        BY <1>1, <4>10 DEF Web!Receive, Web!Goto, Web!locals, Web!globals
      <4>11. CASE Web!CountRows(t)
        BY <1>1, <4>11 DEF Web!CountRows, Web!Goto, Web!locals, Web!globals
      <4>12. QED
        BY <1>5, <2>9, <4>1, <4>2, <4>3, <4>4, <4>5, <4>6, <4>7, <4>8, <4>9,
           <4>10, <4>11
        DEF Web!Responder
    <3>2. QED
      BY <1>1, <1>3, <1>5, <2>2, <2>3, <2>4, <3>1
  <2>10. QED
    BY <2>5, <2>6, <2>7, <2>8, <2>9
<1>6. QED
  BY <1>2, <1>4, <1>5 DEF Web!Next, Web!Clients

-----------------------------------------------------------------------------
(* Building a page                                                         *)
LEMMA PageOf ==
  ASSUME WebTypes, NEW t \in WebThreads
  PROVE  /\ page[t] \in Pages /\ page[t].rows \in Seq(Rows) /\ Len(page[t].rows) \in Nat
         /\ Web!Label(t) => /\ page'[t].rows = page[t].rows /\ page'[t].of = page[t].of
                            /\ page'[t].name = resultOptions
         /\ Web!Check(t) =>
              /\ page'[t].rows = page[t].rows /\ page'[t].name = page[t].name
              /\ queryResult.size - Web!First > 0 => page'[t].of = queryResult.size
         /\ Web!Row(t) => /\ page'[t].rows = Append(page[t].rows, NextRow(t))
                          /\ page'[t].name = page[t].name /\ page'[t].of = page[t].of
         /\ Web!Respond(t) => page'[t].rows = <<>>
         /\ \A kind \in Kinds : Web!ReadRequest(t, kind) =>
              page'[t].rows = page[t].rows /\ page'[t].name = page[t].name
<1>1. page[t] \in Pages /\ page \in [WebThreads -> Pages] /\ page[t].rows \in Seq(Rows)
      /\ Len(page[t].rows) \in Nat
  BY PageParts DEF WebTypes, PageTypes
<1>2. ASSUME Web!Label(t)
      PROVE  /\ page'[t].rows = page[t].rows /\ page'[t].of = page[t].of
             /\ page'[t].name = resultOptions
  <2>1. resultOptions \in Nat
    BY DEF WebTypes, ServerTypes
  <2>2. page' = [page EXCEPT ![t] = [page[t] EXCEPT !.name = resultOptions]]
    BY <1>2, PageSteps
  <2>3. page'[t] = [page[t] EXCEPT !.name = resultOptions]
    BY <1>1, <2>2
  <2>4. QED
    BY <1>1, <2>1, <2>3, WriteName
<1>3. ASSUME Web!Check(t)
      PROVE  /\ page'[t].rows = page[t].rows /\ page'[t].name = page[t].name
             /\ queryResult.size - Web!First > 0 => page'[t].of = queryResult.size
  <2> DEFINE n == IF queryResult.size - Web!First > 0 THEN queryResult.size ELSE 0
  <2>1. n \in Nat
    BY SizesAreNumbers DEF WebTypes, ServerTypes
  <2>2. page' = [page EXCEPT ![t] = [page[t] EXCEPT !.of = n]]
    BY <1>3, PageSteps
  <2>3. queryResult.size - Web!First > 0 => n = queryResult.size
    OBVIOUS
  <2> HIDE DEF n
  <2>4. page'[t] = [page[t] EXCEPT !.of = n]
    BY <1>1, <2>2
  <2>5. QED
    BY <1>1, <2>1, <2>3, <2>4, WriteOf
<1>4. ASSUME Web!Row(t)
      PROVE  /\ page'[t].rows = Append(page[t].rows, NextRow(t))
             /\ page'[t].name = page[t].name /\ page'[t].of = page[t].of
  <2>1. Append(page[t].rows, NextRow(t)) \in Seq(Rows)
    BY <1>1, NextRowIsRow
  <2>2. page' = [page EXCEPT ![t] = [page[t] EXCEPT !.rows = Append(page[t].rows, NextRow(t))]]
    BY <1>4, PageSteps
  <2>3. page'[t] = [page[t] EXCEPT !.rows = Append(page[t].rows, NextRow(t))]
    BY <1>1, <2>2
  <2>4. QED
    BY <1>1, <2>1, <2>3, WriteRows
<1>5. ASSUME Web!Respond(t)
      PROVE  page'[t].rows = <<>>
  BY <1>1, <1>5, NoPageIsPage DEF Web!Respond
<1>6. ASSUME NEW kind \in Kinds, Web!ReadRequest(t, kind)
      PROVE  page'[t].rows = page[t].rows /\ page'[t].name = page[t].name
  <2>1. page' = [page EXCEPT ![t] = [page[t] EXCEPT !.kind = kind]]
    BY <1>6, PageSteps
  <2>2. page'[t] = [page[t] EXCEPT !.kind = kind]
    BY <1>1, <2>1
  <2>3. QED
    BY <1>1, <2>2, WriteKind
<1>7. QED
  BY <1>1, <1>2, <1>3, <1>4, <1>5, <1>6

(* A page is fresh, or a global has changed that it depends on.            *)
LEMMA GlobalsStay ==
  ASSUME WebTypes, NEW t \in WebThreads,
         Web!Responder(t) \/ (\E kind \in Kinds : Web!ReadRequest(t, kind)),
         NEW u \in WebThreads \ {t}
  PROVE  /\ u \in stale' => u \in stale \/ tPc[u] \in {"count", "row"}
         /\ u \notin stale' => u \notin stale
         /\ u \notin stale' /\ tPc[u] \in {"count", "row"} =>
              resultCounter' = resultCounter /\ queryResult' = queryResult
<1>1. CASE Web!ParseFails(t)
  BY <1>1 DEF Web!ParseFails, Web!globals, Web!history
<1>2. CASE Web!ResetCounter(t)
  BY <1>2 DEF Web!ResetCounter, Web!Changes, Web!Live, Web!globals,
      Web!history
<1>3. CASE Web!SetOptions(t)
  BY <1>3 DEF Web!SetOptions, Web!globals, Web!history
<1>4. CASE Web!Lock(t)
  BY <1>4 DEF Web!Lock, Web!globals, Web!history
<1>5. CASE Web!Assign(t)
  BY <1>5 DEF Web!Assign, Web!Changes, Web!Live, Web!globals, Web!history
<1>6. CASE Web!Test(t)
  BY <1>6 DEF Web!Test, Web!globals, Web!history
<1>7. CASE Web!Load(t)
  BY <1>7 DEF Web!Load, Web!globals, Web!history
<1>8. CASE Web!Store(t)
  BY <1>8 DEF Web!Store, Web!Changes, Web!Live, Web!globals, Web!history
<1>9. CASE Web!Label(t)
  BY <1>9 DEF Web!Label, Web!globals, Web!history
<1>10. CASE Web!Check(t)
  BY <1>10 DEF Web!Check, Web!globals, Web!history
<1>11. CASE Web!Row(t)
  BY <1>11 DEF Web!Row, Web!globals, Web!history
<1>12. CASE Web!RowFaults(t)
  BY <1>12 DEF Web!RowFaults, Web!globals, Web!history
<1>13. CASE Web!Respond(t)
  BY <1>13 DEF Web!Respond, Web!globals, Web!history
<1>14. CASE \E n \in Sizes : Web!Receive(t, n)
  BY <1>14 DEF Web!Receive, Web!globals, Web!history
<1>15. CASE \E kind \in Kinds : Web!ReadRequest(t, kind)
  BY <1>15 DEF Web!ReadRequest, Web!globals
<1>16. CASE Web!CountRows(t)
  BY <1>16 DEF Web!CountRows, Web!globals, Web!history
<1>17. QED
  BY <1>1, <1>2, <1>3, <1>4, <1>5, <1>6, <1>7, <1>8, <1>9, <1>10, <1>11,
     <1>12, <1>13, <1>14, <1>15, <1>16
  DEF Web!Responder

(* A page remains as it is while nothing it depends on changes.            *)
LEMMA BuiltStays ==
  ASSUME NEW u \in WebThreads, Built(u),
         resultCounter' = resultCounter, queryResult' = queryResult,
         page'[u] = page[u], show'[u] = show[u]
  PROVE  Built(u)'
  BY DEF Built, HasPage, Before, RowsOn, RowAt

(* The numbers of a page that there is                                     *)
LEMMA PageNumbers ==
  ASSUME WebTypes
  PROVE  /\ Before(resultCounter) \in Int /\ queryResult.size \in Nat
         /\ numResults \in Nat /\ numResults > 0
         /\ RowsOn(resultCounter) \in Int
         /\ RowsOn(resultCounter) <= queryResult.size - Before(resultCounter)
         /\ HasPage(resultCounter) => RowsOn(resultCounter) > 0
<1>1. Before(resultCounter) \in Int
  BY Products DEF WebTypes, ServerTypes
<1>2. queryResult.size \in Nat
  BY SizesAreNumbers DEF WebTypes, ServerTypes
<1>3. numResults \in Nat /\ numResults > 0
  BY WebAssumption
<1>4. QED
  BY <1>1, <1>2, <1>3 DEF RowsOn, HasPage

(* The row that is shown next is the next one of the page.                 *)
LEMMA NextRowFollows ==
  ASSUME WebTypes, NEW t \in WebThreads, Built(t)
  PROVE  /\ Web!Index(Len(page[t].rows)) \in 0 .. queryResult.size - 1
         /\ NextRow(t) = RowAt(resultCounter, Len(page[t].rows) + 1)
<1> DEFINE i == Len(page[t].rows)
           lo == Before(resultCounter)
           size == queryResult.size
<1>1. i \in Nat
  BY PageOf
<1>2. Web!Index(i) = size - lo - i - 1
  BY DEF Web!Index, Before
<1>3. lo \in Int /\ size \in Nat /\ lo >= 0 /\ i < RowsOn(resultCounter)
      /\ RowsOn(resultCounter) \in Int /\ RowsOn(resultCounter) <= size - lo
  BY PageNumbers DEF Built, HasPage
<1>4. RowAt(resultCounter, i + 1) = [query |-> queryResult.query, index |-> size - lo - (i + 1)]
  BY DEF RowAt
<1>5. NextRow(t) = IF Web!Index(i) \in 0 .. size - 1
                   THEN [query |-> queryResult.query, index |-> Web!Index(i)]
                   ELSE Web!Garbage
  BY DEF NextRow
<1> HIDE DEF i, lo, size
<1>6. Web!Index(i) \in 0 .. size - 1 /\ Web!Index(i) = size - lo - (i + 1)
  BY <1>1, <1>2, <1>3
<1>7. QED
  BY <1>4, <1>5, <1>6 DEF i, size

(* What a page has after its next row                                      *)
LEMMA RowGrows ==
  ASSUME WebTypes, NEW t \in WebThreads, Built(t), Web!Row(t)
  PROVE  /\ page'[t].rows \in Seq(Rows)
         /\ Len(page'[t].rows) = Len(page[t].rows) + 1
         /\ \A k \in DOMAIN page'[t].rows : page'[t].rows[k] = RowAt(resultCounter, k)
         /\ resultCounter' = resultCounter /\ queryResult' = queryResult
         /\ resultOptions' = resultOptions
         /\ show' = show
         /\ tPc'[t] = IF Len(page'[t].rows) = show[t] THEN "respond" ELSE "row"
<1>1. /\ page[t].rows \in Seq(Rows) /\ NextRow(t) \in Rows
      /\ page'[t].rows = Append(page[t].rows, NextRow(t))
  BY PageOf, NextRowIsRow
<1>2. NextRow(t) = RowAt(resultCounter, Len(page[t].rows) + 1)
  BY NextRowFollows
<1>3. \A k \in DOMAIN page[t].rows : page[t].rows[k] = RowAt(resultCounter, k)
  BY DEF Built
<1>4. page'[t].rows \in Seq(Rows) /\ Len(page'[t].rows) = Len(page[t].rows) + 1
  BY <1>1
<1>5. ASSUME NEW k \in DOMAIN page'[t].rows
      PROVE  page'[t].rows[k] = RowAt(resultCounter, k)
  <2>1. CASE k = Len(page[t].rows) + 1
    BY <1>1, <1>2, <2>1
  <2>2. CASE k # Len(page[t].rows) + 1
    <3>1. k \in DOMAIN page[t].rows /\ page'[t].rows[k] = page[t].rows[k]
      BY <1>1, <1>5, <2>2
    <3>2. QED
      BY <1>3, <3>1
  <2>3. QED
    BY <2>1, <2>2
<1>6. /\ resultCounter' = resultCounter /\ queryResult' = queryResult
      /\ resultOptions' = resultOptions /\ show' = show
      /\ tPc'[t] = IF Len(page[t].rows) + 1 = show[t] THEN "respond" ELSE "row"
  BY DEF Web!Row, Web!globals, Web!Goto, WebTypes, ServerTypes
<1>7. QED
  BY <1>4, <1>5, <1>6

(* The check lets through what has rows.                                   *)
LEMMA CheckFinds ==
  ASSUME WebTypes, Counting, NEW t \in WebThreads, Web!Check(t)
  PROVE  IF HasPage(resultCounter)
         THEN tPc'[t] = "count" /\ page'[t].of = queryResult.size
         ELSE tPc'[t] = "respond"
<1>1. tPc'[t] = (IF queryResult.size - Web!First > 0 THEN "count" ELSE "respond")
  BY DEF Web!Check, Web!Goto, WebTypes, ServerTypes
<1>2. CASE HasPage(resultCounter)
  <2>1. Web!First = Before(resultCounter)
    BY <1>2, FirstIsBefore
  <2>2. queryResult.size - Before(resultCounter) > 0
    BY <1>2, PageNumbers DEF HasPage
  <2>3. page'[t].of = queryResult.size
    BY <2>1, <2>2, PageOf
  <2>4. QED
    BY <1>1, <1>2, <2>1, <2>2, <2>3
<1>3. CASE ~HasPage(resultCounter)
  <2>1. queryResult.size - Web!First <= 0
    BY <1>3, FirstIsBefore
  <2>2. ASSUME NEW n \in Int, n <= 0 PROVE ~(n > 0)
    BY <2>2
  <2>3. queryResult.size - Web!First \in Int
    <3>1. Web!First \in Int
      <4> DEFINE x == resultCounter * numResults
      <4>1. x \in Int
        BY WebAssumption DEF WebTypes, ServerTypes
      <4> HIDE DEF x
      <4>2. x % SizeMod \in Int
        BY <4>1, ModPositive
      <4>3. QED
        BY <4>2 DEF x, Web!First
    <3>2. QED
      BY <3>1, PageNumbers
  <2>4. QED
    BY <1>1, <1>3, <2>1, <2>2, <2>3
<1>4. QED
  BY <1>2, <1>3

(* What is counted after it are the rows of the page, if nothing has       *)
(* changed.                                                                *)
LEMMA CountFinds ==
  ASSUME WebTypes, Counting, NEW t \in WebThreads, Web!CountRows(t),
         HasPage(resultCounter)
  PROVE  tPc'[t] = "row" /\ show'[t] = RowsOn(resultCounter)
<1> DEFINE n == queryResult.size - Before(resultCounter)
           rows == IF n % SizeMod < numResults THEN n % SizeMod ELSE numResults
<1>1. Web!First = Before(resultCounter)
  BY FirstIsBefore
<1>2. tPc'[t] = (IF rows = 0 THEN "respond" ELSE "row") /\ show'[t] = rows
  BY <1>1 DEF Web!CountRows, Web!Goto, WebTypes, ServerTypes
<1>3. n \in Int /\ 0 < n /\ n <= queryResult.size
  BY PageNumbers DEF HasPage
<1>4. queryResult.size < SizeMod /\ SizeMod \in Nat \ {0}
  <2> DEFINE top == (MaxRequests + 1) * numResults
             size == queryResult.size
  <2>1. MaxRequests \in Nat /\ numResults \in Nat \ {0}
    BY WebAssumption
  <2>2. top \in Nat /\ top > 0
    BY <2>1, SMT
  <2>3. size \in Sizes \cup {0}
    BY DEF WebTypes, ServerTypes
  <2> HIDE DEF size, top
  <2>4. size + top <= SizeMod
    BY <2>3, WebAssumption DEF top
  <2>5. size \in Nat
    BY <2>3, SizesAreNumbers
  <2>6. size < SizeMod
    BY <2>2, <2>4, <2>5, ModPositive
  <2>7. QED
    BY <2>6, ModPositive DEF size
<1>5. n % SizeMod = n
  <2>1. n \in -SizeMod .. SizeMod - 1
    BY <1>3, <1>4, PageNumbers
  <2> HIDE DEF n
  <2>2. QED
    BY <1>3, <1>4, <2>1, Wraps
<1>6. rows = RowsOn(resultCounter)
  BY <1>5 DEF RowsOn
<1>7. RowsOn(resultCounter) > 0 /\ RowsOn(resultCounter) \in Int
  BY PageNumbers
<1> HIDE DEF rows
<1>8. QED
  BY <1>2, <1>6, <1>7

(* A row is taken where the test has found that there are rows, or the     *)
(* thread is stale.                                                        *)
LEMMA BuildingStep ==
  ASSUME WebTypes, Handled, Counting, Building, Web!Next
  PROVE  Building'
<1> DEFINE B(u) ==
      /\ u \in stale => tPc[u] \in {"count", "row", "respond"}
      /\ tPc[u] \notin {"row", "respond"} => page[u].rows = <<>>
      /\ tPc[u] = "count" /\ u \notin stale => HasPage(resultCounter)
      /\ tPc[u] = "row" /\ u \notin stale => Built(u)
      /\ tPc[u] = "respond" /\ u \notin stale =>
           \A k \in DOMAIN page[u].rows : page[u].rows[k].index >= 0
<1>1. CASE Web!ReadFails
  BY <1>1 DEF Web!ReadFails, Web!locals, Web!globals, Web!history, Building, Built,
     HasPage, Before, RowsOn, RowAt
<1>2. ASSUME NEW t \in WebThreads, B(t)',
             Web!Responder(t) \/ (\E kind \in Kinds : Web!ReadRequest(t, kind))
      PROVE  Building'
  <2>1. ASSUME NEW u \in WebThreads \ {t}
        PROVE  B(u)'
    <3>1. /\ tPc'[u] = tPc[u] /\ page'[u] = page[u] /\ show'[u] = show[u]
      BY <1>2, OthersStay
    <3>2. /\ u \in stale' => u \in stale \/ tPc[u] \in {"count", "row"}
          /\ u \notin stale' => u \notin stale
          /\ u \notin stale' /\ tPc[u] \in {"count", "row"} =>
               resultCounter' = resultCounter /\ queryResult' = queryResult
      BY <1>2, GlobalsStay
    <3>3. B(u)
      BY DEF Building
    <3>4. tPc'[u] = "row" /\ u \notin stale' => Built(u)'
      BY <3>1, <3>2, <3>3, BuiltStays
    <3>5. tPc'[u] = "count" /\ u \notin stale' => HasPage(resultCounter)'
      BY <3>1, <3>2, <3>3 DEF HasPage, Before
    <3>6. QED
      BY <3>1, <3>2, <3>3, <3>4, <3>5
  <2>2. QED
    BY <1>2, <2>1 DEF Building
<1>3. ASSUME NEW t \in WebThreads, tPc'[t] \notin {"count", "row", "respond"},
             page'[t].rows = <<>>, t \notin stale'
      PROVE  B(t)'
  BY <1>3
<1>4. ASSUME NEW t \in WebThreads, tPc'[t] = "respond", page'[t].rows = <<>>
      PROVE  B(t)'
  BY <1>4
<1>5. ASSUME NEW t \in WebThreads, NEW kind \in Kinds, Web!ReadRequest(t, kind)
      PROVE  Building'
  <2>1. tPc[t] = "none" /\ tPc'[t] = Web!Handler(kind) /\ stale' = stale
    BY <1>5 DEF Web!ReadRequest, Web!Goto, WebTypes, ServerTypes
  <2>2. page'[t].rows = <<>> /\ t \notin stale
    BY <1>5, <2>1, PageOf DEF Building
  <2>3. tPc'[t] \notin {"count", "row"}
    BY <2>1, HandlerLabels
  <2>4. B(t)'
    BY <1>3, <1>4, <2>1, <2>2, <2>3
  <2>5. QED
    BY <1>2, <1>5, <2>4
<1>6. ASSUME NEW t \in WebThreads, Web!Responder(t)
      PROVE  Building'
  <2>1. CASE Web!Respond(t)
    <3>1. tPc'[t] = "none" /\ t \notin stale' /\ page'[t].rows = <<>>
      BY <2>1, PageOf DEF Web!Respond, Web!Goto, WebTypes, ServerTypes
    <3>2. QED
      BY <1>2, <1>3, <1>6, <3>1
  <2>2. CASE Web!Row(t)
    <3>1. tPc[t] = "row" /\ stale' = stale
      BY <2>2 DEF Web!Row, Web!history
    <3>2. CASE t \in stale
      <4>1. tPc'[t] \in {"row", "respond"}
        BY <2>2 DEF Web!Row, Web!Goto, WebTypes, ServerTypes
      <4>2. B(t)'
        BY <3>1, <3>2, <4>1
      <4>3. QED
        BY <1>2, <1>6, <4>2
    <3>3. CASE t \notin stale
      <4>1. Built(t)
        BY <3>1, <3>3 DEF Building
      <4>2. /\ page'[t].rows \in Seq(Rows) /\ Len(page'[t].rows) = Len(page[t].rows) + 1
            /\ \A k \in DOMAIN page'[t].rows : page'[t].rows[k] = RowAt(resultCounter, k)
            /\ resultCounter' = resultCounter /\ queryResult' = queryResult /\ show' = show
            /\ tPc'[t] = IF Len(page'[t].rows) = show[t] THEN "respond" ELSE "row"
        BY <2>2, <4>1, RowGrows
      <4>3. /\ HasPage(resultCounter) /\ show[t] = RowsOn(resultCounter)
            /\ Len(page[t].rows) < show[t] /\ show[t] \in Int /\ Len(page[t].rows) \in Nat
        BY <4>1, PageOf DEF Built, WebTypes, ServerTypes
      <4>4. CASE Len(page'[t].rows) = show[t]
        <5>1. ASSUME NEW k \in DOMAIN page'[t].rows
              PROVE  page'[t].rows[k].index >= 0
          <6>1. k \in Int /\ k <= RowsOn(resultCounter)
            BY <4>2, <4>3, <4>4
          <6>2. page'[t].rows[k].index = queryResult.size - Before(resultCounter) - k
            <7>1. page'[t].rows[k] = RowAt(resultCounter, k)
              BY <4>2
            <7>2. RowAt(resultCounter, k).index = queryResult.size - Before(resultCounter) - k
              BY DEF RowAt
            <7>3. QED
              BY <7>1, <7>2
          <6>3. queryResult.size - Before(resultCounter) - k >= 0
            BY <6>1, PageNumbers
          <6>4. QED
            BY <6>2, <6>3
        <5>2. tPc'[t] = "respond"
          BY <4>2, <4>4
        <5>3. B(t)'
          BY <5>1, <5>2
        <5>4. QED
          BY <1>2, <1>6, <5>3
      <4>5. CASE Len(page'[t].rows) # show[t]
        <5>1. Len(page'[t].rows) < show[t]
          BY <4>2, <4>3, <4>5
        <5>2. Built(t)'
          BY <4>2, <4>3, <5>1 DEF Built, HasPage, RowsOn, RowAt, Before
        <5>3. tPc'[t] = "row" /\ t \notin stale'
          BY <3>1, <3>3, <4>2, <4>5
        <5>4. B(t)'
          BY <5>2, <5>3
        <5>5. QED
          BY <1>2, <1>6, <5>4
      <4>6. QED
        BY <4>4, <4>5
    <3>4. QED
      BY <3>2, <3>3
  <2>3. CASE Web!RowFaults(t)
    <3>1. /\ tPc[t] = "row" /\ tPc' = tPc /\ stale' = stale
          /\ Web!Index(Len(page[t].rows)) \notin 0 .. queryResult.size - 1
      BY <2>3 DEF Web!RowFaults, Web!history
    <3>2. t \in stale
      BY <3>1, NextRowFollows DEF Building
    <3>3. B(t)'
      BY <3>1, <3>2
    <3>4. QED
      BY <1>2, <1>6, <3>3
  <2>4. CASE Web!Check(t)
    <3>1. /\ tPc[t] = "check" /\ stale' = stale /\ page'[t].rows = <<>>
          /\ resultCounter' = resultCounter /\ queryResult' = queryResult
      BY <2>4, PageOf DEF Web!Check, Web!globals, Web!history, Building
    <3>2. t \notin stale'
      BY <3>1 DEF Building
    <3>3. CASE HasPage(resultCounter)
      <4>1. tPc'[t] = "count"
        BY <2>4, <3>3, CheckFinds
      <4>2. HasPage(resultCounter)'
        BY <3>1, <3>3 DEF HasPage, Before
      <4>3. B(t)'
        BY <3>1, <3>2, <4>1, <4>2
      <4>4. QED
        BY <1>2, <1>6, <4>3
    <3>4. CASE ~HasPage(resultCounter)
      <4>1. tPc'[t] = "respond"
        BY <2>4, <3>4, CheckFinds
      <4>2. QED
        BY <1>2, <1>4, <1>6, <3>1, <4>1
    <3>5. QED
      BY <3>3, <3>4
  <2>5. CASE Web!CountRows(t)
    <3>1. /\ tPc[t] = "count" /\ stale' = stale /\ page' = page
          /\ resultCounter' = resultCounter /\ queryResult' = queryResult
          /\ tPc'[t] \in {"row", "respond"}
      BY <2>5 DEF Web!CountRows, Web!Goto, Web!globals, Web!history, WebTypes, ServerTypes
    <3>2. page'[t].rows = <<>>
      BY <3>1 DEF Building
    <3>3. CASE t \in stale
      <4>1. B(t)'
        BY <3>1, <3>2, <3>3
      <4>2. QED
        BY <1>2, <1>6, <4>1
    <3>4. CASE t \notin stale
      <4>1. HasPage(resultCounter)
        BY <3>1, <3>4 DEF Building
      <4>2. tPc'[t] = "row" /\ show'[t] = RowsOn(resultCounter)
        BY <2>5, <4>1, CountFinds
      <4>3. show'[t] > 0
        BY <4>1, <4>2, PageNumbers
      <4>4. Built(t)'
        BY <3>1, <3>2, <4>1, <4>2, <4>3 DEF Built, HasPage, RowsOn, RowAt, Before
      <4>5. B(t)'
        BY <3>1, <3>4, <4>2, <4>4
      <4>6. QED
        BY <1>2, <1>6, <4>5
    <3>5. QED
      BY <3>3, <3>4
  <2>6. CASE ~(\/ Web!Respond(t) \/ Web!Row(t) \/ Web!RowFaults(t)
               \/ Web!Check(t) \/ Web!CountRows(t))
    <3>1. /\ tPc[t] \notin {"count", "row", "respond"} /\ tPc'[t] \notin {"count", "row"}
          /\ page'[t].rows = page[t].rows
          /\ t \in stale' => t \in stale
      <4>1. CASE Web!ParseFails(t)
        BY <4>1 DEF Web!ParseFails, Web!Goto, Web!locals, Web!history,
            WebTypes, ServerTypes
      <4>2. CASE Web!ResetCounter(t)
        BY <4>2 DEF Web!ResetCounter, Web!Goto, Web!Changes, Web!Live,
            Web!locals, Web!history, WebTypes, ServerTypes
      <4>3. CASE Web!SetOptions(t)
        BY <4>3 DEF Web!SetOptions, Web!Goto, Web!locals, Web!history,
            WebTypes, ServerTypes
      <4>4. CASE Web!Lock(t)
        BY <4>4 DEF Web!Lock, Web!Goto, Web!locals, Web!history, WebTypes,
            ServerTypes
      <4>5. CASE Web!Assign(t)
        BY <4>5 DEF Web!Assign, Web!Goto, Web!Changes, Web!Live, Web!locals,
            Web!history, WebTypes, ServerTypes
      <4>6. CASE Web!Test(t)
        BY <4>6 DEF Web!Test, Web!Goto, Web!locals, Web!history, WebTypes,
            ServerTypes
      <4>7. CASE Web!Load(t)
        BY <4>7 DEF Web!Load, Web!Goto, Web!locals, Web!history, WebTypes,
            ServerTypes
      <4>8. CASE Web!Store(t)
        BY <4>8 DEF Web!Store, Web!Goto, Web!Changes, Web!Live, Web!locals,
            Web!history, WebTypes, ServerTypes
      <4>9. CASE Web!Label(t)
        BY <4>9, PageOf DEF Web!Label, Web!Goto, Web!locals, Web!history,
            WebTypes, ServerTypes
      <4>10. CASE \E n \in Sizes : Web!Receive(t, n)
        BY <4>10 DEF Web!Receive, Web!Goto, Web!locals, Web!history, WebTypes,
            ServerTypes
      <4>11. QED
        BY <1>6, <2>6, <4>1, <4>2, <4>3, <4>4, <4>5, <4>6, <4>7, <4>8, <4>9,
           <4>10
        DEF Web!Responder
    <3>2. page'[t].rows = <<>> /\ t \notin stale'
      BY <3>1 DEF Building
    <3>3. B(t)'
      BY <1>3, <1>4, <3>1, <3>2
    <3>4. QED
      BY <1>2, <1>6, <3>3
  <2>7. QED
    BY <2>1, <2>2, <2>3, <2>4, <2>5, <2>6
<1>7. QED
  BY <1>1, <1>5, <1>6 DEF Web!Next, Web!Clients

-----------------------------------------------------------------------------
(* Who runs alone                                                          *)
LEMMA SawStays ==
  ASSUME NEW t \in WebThreads, UNCHANGED <<trail, resultOptions, queryResult>>
  PROVE  /\ resultCounter' = resultCounter /\ Saw(resultCounter) => Saw(resultCounter)'
         /\ UNCHANGED <<resultCounter, request>> /\ Saw(Back(t)) => Saw(Back(t))'
         /\ Back(t)' = resultCounter /\ Saw(resultCounter) => Saw(Back(t))'
  BY DEF Saw, LastPage, Shows, HasPage, Before, RowsOn, RowAt, Back

(* The steps of another thread, or of the main thread                      *)
LEMMA AloneSteps ==
  ASSUME WebTypes, Handled, Paging, NEW s \in WebThreads, Web!Responder(s),
         NEW t \in alone
  PROVE  s = t
<1>1. tPc[s] # "none"
  <2>1. CASE Web!ParseFails(s)
    BY <2>1 DEF Web!ParseFails
  <2>2. CASE Web!ResetCounter(s)
    BY <2>2 DEF Web!ResetCounter
  <2>3. CASE Web!SetOptions(s)
    BY <2>3 DEF Web!SetOptions
  <2>4. CASE Web!Lock(s)
    BY <2>4 DEF Web!Lock
  <2>5. CASE Web!Assign(s)
    BY <2>5 DEF Web!Assign
  <2>6. CASE Web!Test(s)
    BY <2>6 DEF Web!Test
  <2>7. CASE Web!Load(s)
    BY <2>7 DEF Web!Load
  <2>8. CASE Web!Store(s)
    BY <2>8 DEF Web!Store
  <2>9. CASE Web!Label(s)
    BY <2>9 DEF Web!Label
  <2>10. CASE Web!Check(s)
    BY <2>10 DEF Web!Check
  <2>11. CASE Web!Row(s)
    BY <2>11 DEF Web!Row
  <2>12. CASE Web!RowFaults(s)
    BY <2>12 DEF Web!RowFaults
  <2>13. CASE Web!Respond(s)
    BY <2>13 DEF Web!Respond
  <2>14. CASE \E n \in Sizes : Web!Receive(s, n)
    BY <2>14 DEF Web!Receive
  <2>15. CASE Web!CountRows(s)
    BY <2>15 DEF Web!CountRows
  <2>16. QED
    BY <2>1, <2>2, <2>3, <2>4, <2>5, <2>6, <2>7, <2>8, <2>9, <2>10, <2>11,
       <2>12, <2>13, <2>14, <2>15
    DEF Web!Responder
<1>2. s \in Web!Live
  BY <1>1 DEF Web!Live
<1>3. QED
  BY <1>2 DEF Paging

(* Who reads a request while no other is handled finds what the last one   *)
(* left.                                                                   *)
LEMMA AloneReads ==
  ASSUME WebTypes, Handled, Building, Paging, Between,
         NEW s \in WebThreads, NEW kind \in Kinds, Web!ReadRequest(s, kind)
  PROVE  Paging'
<1>1. /\ tPc[s] = "none" /\ tPc'[s] = Web!Handler(kind) /\ request'[s] = kind
      /\ UNCHANGED <<trail, resultOptions, queryResult, resultCounter>> /\ stale' = stale
      /\ alone' = IF Web!Live = {} THEN {s} ELSE {}
  BY DEF Web!ReadRequest, Web!Goto, Web!globals, WebTypes, ServerTypes
<1>2. ASSUME NEW t \in alone'
      PROVE  /\ Web!Live = {} /\ t = s
  BY <1>1, <1>2
<1>3. ASSUME Web!Live = {}
      PROVE  Web!Live' = {s}
  <2>1. tPc'[s] # "none"
    BY <1>1, HandlerLabels
  <2>2. \A u \in WebThreads \ {s} : tPc'[u] = "none"
    BY <1>3, OthersStay DEF Web!Live
  <2>3. QED
    BY <2>1, <2>2 DEF Web!Live
<1>4. s \notin stale'
  BY <1>1 DEF Building
<1>5. tPc'[s] \in {"fail", "respond", "reset", "test"}
      /\ (kind = "results" => tPc'[s] = "reset")
      /\ (kind \in {"next", "previous"} => tPc'[s] = "test")
  BY <1>1, HandlerLabels
<1>6. ASSUME Web!Live = {}, trail # <<>>
      PROVE  Saw(resultCounter)'
  BY <1>1, <1>6, SawStays DEF Between
<1>7. kind = "results" => Asks(s)'
  BY <1>1, <1>5 DEF Asks
<1>8. ASSUME Web!Live = {}, trail # <<>>, kind \in {"next", "previous"}
      PROVE  Turns(s)'
  BY <1>5, <1>6, <1>8 DEF Turns
<1>9. QED
  BY <1>1, <1>2, <1>3, <1>4, <1>5, <1>6, <1>7, <1>8 DEF Paging

(* A step of the only thread, unless it responds                           *)
LEMMA AloneStep ==
  ASSUME WebTypes, Handled, Counting, Building, Paging, NEW t \in WebThreads,
         t \in alone, Web!Responder(t), ~Web!Respond(t)
  PROVE  /\ tPc'[t] # "none" /\ trail' = trail /\ stale' \subseteq stale /\ alone' = alone
         /\ tPc'[t] \in {"check", "count", "row"} => page'[t].name = resultOptions'
         /\ tPc'[t] \in {"count", "row"} => page'[t].of = queryResult'.size
         /\ request[t] = "results" => Asks(t)'
         /\ trail # <<>> /\ request[t] \in {"next", "previous"} => Turns(t)'
         /\ trail # <<>> /\ request[t] = "home" => Saw(resultCounter)'
<1> DEFINE Goal ==
         /\ tPc'[t] # "none" /\ trail' = trail /\ stale' \subseteq stale /\ alone' = alone
         /\ tPc'[t] \in {"check", "count", "row"} => page'[t].name = resultOptions'
         /\ tPc'[t] \in {"count", "row"} => page'[t].of = queryResult'.size
         /\ request[t] = "results" => Asks(t)'
         /\ trail # <<>> /\ request[t] \in {"next", "previous"} => Turns(t)'
         /\ trail # <<>> /\ request[t] = "home" => Saw(resultCounter)'
<1>1. request' = request /\ query' = query
  BY RequestStays
<1>2. /\ Web!Live = {t} /\ t \notin stale
      /\ tPc[t] \in {"check", "count", "row"} => page[t].name = resultOptions
      /\ tPc[t] \in {"count", "row"} => page[t].of = queryResult.size
      /\ request[t] = "results" => Asks(t)
      /\ trail # <<>> /\ request[t] \in {"next", "previous"} => Turns(t)
      /\ trail # <<>> /\ request[t] = "home" => Saw(resultCounter)
  BY DEF Paging
<1>3. /\ tPc[t] \in {"reset", "options"} => request[t] \in {"results", "empty"}
      /\ tPc[t] \in {"lock", "ask", "assign"} => request[t] = "results"
      /\ tPc[t] \in {"test", "load", "store"} => request[t] \in {"next", "previous"}
      /\ tPc[t] \in {"label", "check", "count", "row"} =>
           request[t] \in {"results", "next", "previous"}
  BY DEF Handled
<1>4. tPc \in [WebThreads -> Labels] /\ counter \in [WebThreads -> Int]
      /\ resultCounter \in Int
  BY DEF WebTypes, ServerTypes
<1>5. CASE Web!ParseFails(t)
  <2>1. tPc[t] = "fail" /\ UNCHANGED <<tPc, page, trail, alone, stale, resultCounter,
                                       resultOptions, queryResult, counter>>
    BY <1>5 DEF Web!ParseFails, Web!locals, Web!globals, Web!history
  <2>2. request[t] = "results" => Asks(t)'
    BY <1>1, <1>2, <2>1 DEF Asks
  <2>3. trail # <<>> /\ request[t] \in {"next", "previous"} => Turns(t)'
    BY <2>1 DEF Turns
  <2>4. QED
    BY <1>2, <2>1, <2>2, <2>3, SawStays
<1>6. CASE Web!ResetCounter(t)
  <2>1. /\ tPc[t] = "reset" /\ tPc'[t] = "options" /\ resultCounter' = 0
        /\ UNCHANGED <<trail, alone>> /\ stale' \subseteq stale
    BY <1>2, <1>4, <1>6 DEF Web!ResetCounter, Web!Goto, Web!Changes
  <2>2. Asks(t)'
    BY <2>1 DEF Asks
  <2>3. QED
    BY <1>3, <2>1, <2>2
<1>7. CASE Web!SetOptions(t)
  <2>1. /\ tPc[t] = "options" /\ resultOptions' = query[t] /\ UNCHANGED <<trail, alone, stale>>
        /\ tPc'[t] = (IF request[t] = "empty" THEN "respond" ELSE "lock")
        /\ resultCounter' = resultCounter
    BY <1>4, <1>7 DEF Web!SetOptions, Web!Goto, Web!history
  <2>2. request[t] = "results" => Asks(t)'
    BY <1>1, <1>2, <2>1 DEF Asks
  <2>3. QED
    BY <1>3, <2>1, <2>2
<1>8. CASE Web!Lock(t) \/ (\E n \in Sizes : Web!Receive(t, n))
  <2>1. /\ tPc[t] \in {"lock", "ask"} /\ tPc'[t] \in {"ask", "assign"}
        /\ UNCHANGED <<trail, alone, stale, resultCounter, resultOptions>>
    BY <1>4, <1>8 DEF Web!Lock, Web!Receive, Web!Goto, Web!history
  <2>2. request[t] = "results" => Asks(t)'
    BY <1>1, <1>2, <2>1 DEF Asks
  <2>3. QED
    BY <1>3, <2>1, <2>2
<1>9. CASE Web!Assign(t)
  <2>1. /\ tPc[t] = "assign" /\ tPc'[t] = "label" /\ queryResult'.query = query[t]
        /\ UNCHANGED <<trail, alone, resultCounter, resultOptions>> /\ stale' \subseteq stale
    BY <1>2, <1>4, <1>9 DEF Web!Assign, Web!Goto, Web!Changes
  <2>2. request[t] = "results" => Asks(t)'
    BY <1>1, <1>2, <2>1 DEF Asks
  <2>3. QED
    BY <1>3, <2>1, <2>2
<1>10. CASE Web!Test(t)
  <2>1. /\ tPc[t] = "test" /\ UNCHANGED <<trail, alone, stale, page>>
        /\ UNCHANGED <<resultCounter, resultOptions, queryResult>>
        /\ tPc'[t] = (IF Web!Refused(t) THEN "respond" ELSE "load")
    BY <1>4, <1>10 DEF Web!Test, Web!Goto, Web!globals, Web!history
  <2>2. page[t].rows = <<>>
    BY <2>1 DEF Building
  <2>3. Web!Refused(t)' <=> Web!Refused(t)
    BY <1>1, <2>1 DEF Web!Refused
  <2>4. ASSUME trail # <<>>, request[t] \in {"next", "previous"}
        PROVE  Turns(t)'
    <3>1. Saw(resultCounter)'
      BY <1>2, <2>1, <2>4, SawStays DEF Turns
    <3>2. CASE Web!Refused(t)
      BY <2>1, <2>2, <2>3, <3>1, <3>2 DEF Turns
    <3>3. CASE ~Web!Refused(t)
      BY <2>1, <3>1, <3>3 DEF Turns
    <3>4. QED
      BY <3>2, <3>3
  <2>5. QED
    BY <1>3, <2>1, <2>4
<1>11. CASE Web!Load(t)
  <2>1. /\ tPc[t] = "load" /\ tPc'[t] = "store" /\ counter'[t] = resultCounter
        /\ UNCHANGED <<trail, alone, stale, resultCounter, resultOptions, queryResult>>
    BY <1>4, <1>11 DEF Web!Load, Web!Goto, Web!globals, Web!history
  <2>2. ASSUME trail # <<>>, request[t] \in {"next", "previous"}
        PROVE  Turns(t)'
    <3>1. Saw(resultCounter)'
      BY <1>2, <2>1, <2>2, SawStays DEF Turns
    <3>2. QED
      BY <2>1, <3>1 DEF Turns
  <2>3. QED
    BY <1>3, <2>1, <2>2
<1>12. CASE Web!Store(t)
  <2>1. /\ tPc[t] = "store" /\ tPc'[t] = "label"
        /\ resultCounter' = counter[t] + (IF request[t] = "next" THEN 1 ELSE -1)
        /\ UNCHANGED <<trail, alone, resultOptions, queryResult>> /\ stale' \subseteq stale
    BY <1>2, <1>4, <1>12 DEF Web!Store, Web!Goto, Web!Changes
  <2>2. ASSUME trail # <<>>, request[t] \in {"next", "previous"}
        PROVE  Turns(t)'
    <3>1. Saw(resultCounter) /\ counter[t] = resultCounter
      BY <1>2, <2>1, <2>2 DEF Turns
    <3>2. Back(t)' = resultCounter
      BY <1>1, <1>4, <2>1, <3>1 DEF Back
    <3>3. Saw(Back(t))'
      BY <2>1, <3>1, <3>2, SawStays
    <3>4. QED
      BY <2>1, <3>3 DEF Turns
  <2>3. QED
    BY <1>3, <2>1, <2>2
<1>13. CASE Web!Label(t)
  <2>1. /\ tPc[t] = "label" /\ tPc'[t] = "check"
        /\ UNCHANGED <<trail, alone, stale, resultCounter, resultOptions, queryResult>>
    BY <1>4, <1>13 DEF Web!Label, Web!Goto, Web!globals, Web!history
  <2>2. page'[t].name = resultOptions'
    BY <1>13, <2>1, PageOf
  <2>3. request[t] = "results" => Asks(t)'
    BY <1>1, <1>2, <2>1 DEF Asks
  <2>4. ASSUME trail # <<>>, request[t] \in {"next", "previous"}
        PROVE  Turns(t)'
    <3>1. Saw(Back(t))'
      BY <1>1, <1>2, <2>1, <2>4, SawStays DEF Turns
    <3>2. QED
      BY <2>1, <3>1 DEF Turns
  <2>5. QED
    BY <1>3, <2>1, <2>2, <2>3, <2>4
<1>14. CASE Web!Check(t)
  <2>1. /\ tPc[t] = "check" /\ tPc'[t] \in {"count", "respond"}
        /\ UNCHANGED <<trail, alone, stale, resultCounter, resultOptions, queryResult>>
    BY <1>4, <1>14 DEF Web!Check, Web!Goto, Web!globals, Web!history
  <2>2. page'[t].rows = <<>> /\ page'[t].name = resultOptions
    BY <1>2, <1>14, <2>1, PageOf DEF Building
  <2>3. IF HasPage(resultCounter) THEN tPc'[t] = "count" /\ page'[t].of = queryResult.size
                                  ELSE tPc'[t] = "respond"
    BY <1>14, CheckFinds
  <2>4. tPc'[t] = "respond" => Shows(page[t], resultCounter)'
    <3>1. HasPage(resultCounter)' <=> HasPage(resultCounter)
      BY <2>1 DEF HasPage, Before
    <3>2. QED
      BY <2>2, <2>3, <3>1 DEF Shows
  <2>5. ASSUME request[t] = "results"
        PROVE  Asks(t)'
    <3>1. resultCounter = 0 /\ resultOptions = query[t] /\ queryResult.query = query[t]
      BY <1>2, <2>1, <2>5 DEF Asks
    <3>2. tPc'[t] = "respond" => Shows(page[t], 0)'
      BY <2>1, <2>4, <3>1 DEF Shows, HasPage, Before, RowsOn, RowAt
    <3>3. QED
      BY <1>1, <2>1, <3>1, <3>2 DEF Asks
  <2>6. ASSUME trail # <<>>, request[t] \in {"next", "previous"}
        PROVE  Turns(t)'
    <3>1. Saw(Back(t))'
      BY <1>1, <1>2, <2>1, <2>6, SawStays DEF Turns
    <3>2. QED
      BY <2>1, <2>4, <3>1 DEF Turns
  <2>7. QED
    BY <1>3, <2>1, <2>2, <2>3, <2>5, <2>6
<1>15. CASE Web!Row(t)
  <2>1. /\ tPc[t] = "row" /\ UNCHANGED <<trail, alone, stale>>
    BY <1>15 DEF Web!Row, Web!history
  <2>2. Built(t)
    BY <1>2, <2>1 DEF Building
  <2>3. /\ page'[t].rows \in Seq(Rows)
        /\ Len(page'[t].rows) = Len(page[t].rows) + 1
        /\ \A k \in DOMAIN page'[t].rows : page'[t].rows[k] = RowAt(resultCounter, k)
        /\ resultCounter' = resultCounter /\ queryResult' = queryResult
        /\ resultOptions' = resultOptions
        /\ tPc'[t] = IF Len(page'[t].rows) = show[t] THEN "respond" ELSE "row"
    BY <1>15, <2>2, RowGrows
  <2>4. page'[t].name = resultOptions /\ page'[t].of = queryResult.size
    BY <1>2, <1>15, <2>1, PageOf
  <2>5. ASSUME resultOptions = queryResult.query, tPc'[t] = "respond"
        PROVE  Shows(page[t], resultCounter)'
    <3>1. HasPage(resultCounter) /\ Len(page'[t].rows) = RowsOn(resultCounter)
      BY <2>2, <2>3, <2>5 DEF Built
    <3>2. DOMAIN page'[t].rows = 1 .. RowsOn(resultCounter)
      BY <2>3, <3>1
    <3>3. page'[t].rows = [k \in 1 .. RowsOn(resultCounter) |-> RowAt(resultCounter, k)]
      <4> DEFINE s == page'[t].rows
      <4>1. s = [k \in DOMAIN s |-> s[k]]
        BY <2>3
      <4>2. \A k \in DOMAIN s : s[k] = RowAt(resultCounter, k)
        BY <2>3
      <4> HIDE DEF s
      <4>3. s = [k \in DOMAIN s |-> RowAt(resultCounter, k)]
        BY <4>1, <4>2, Zenon
      <4>4. QED
        BY <3>2, <4>3 DEF s
    <3>4. /\ HasPage(resultCounter)' /\ RowsOn(resultCounter)' = RowsOn(resultCounter)
          /\ \A k : RowAt(resultCounter, k)' = RowAt(resultCounter, k)
      BY <2>3, <3>1 DEF HasPage, Before, RowsOn, RowAt
    <3>5. QED
      BY <2>3, <2>4, <2>5, <3>3, <3>4 DEF Shows
  <2>6. ASSUME request[t] = "results"
        PROVE  Asks(t)'
    <3>1. resultCounter = 0 /\ resultOptions = query[t] /\ queryResult.query = query[t]
      BY <1>2, <2>1, <2>6 DEF Asks
    <3>2. tPc'[t] = "respond" => Shows(page[t], 0)'
      BY <2>3, <2>5, <3>1 DEF Shows, HasPage, Before, RowsOn, RowAt
    <3>3. QED
      BY <1>1, <2>3, <3>1, <3>2 DEF Asks
  <2>7. ASSUME trail # <<>>, request[t] \in {"next", "previous"}
        PROVE  Turns(t)'
    <3>1. Saw(Back(t))
      BY <1>2, <2>1, <2>7 DEF Turns
    <3>2. Saw(Back(t))' /\ resultOptions = queryResult.query
      BY <1>1, <2>1, <2>3, <3>1, SawStays DEF Saw
    <3>3. tPc'[t] \in {"row", "respond"}
      BY <2>3
    <3>4. QED
      BY <2>5, <3>2, <3>3 DEF Turns
  <2>8. QED
    BY <1>3, <2>1, <2>3, <2>4, <2>6, <2>7
<1>16. CASE Web!RowFaults(t)
  <2>1. /\ tPc[t] = "row"
        /\ Web!Index(Len(page[t].rows)) \notin 0 .. queryResult.size - 1
    BY <1>16 DEF Web!RowFaults
  <2>2. QED
    BY <1>2, <2>1, NextRowFollows DEF Building
<1>17. CASE Web!CountRows(t)
  <2>1. /\ tPc[t] = "count" /\ page' = page
        /\ UNCHANGED <<trail, alone, stale, resultCounter, resultOptions, queryResult>>
    BY <1>17 DEF Web!CountRows, Web!globals, Web!history
  <2>2. HasPage(resultCounter)
    BY <1>2, <2>1 DEF Building
  <2>3. tPc'[t] = "row"
    BY <1>17, <2>2, CountFinds
  <2>4. request[t] = "results" => Asks(t)'
    BY <1>1, <1>2, <2>1, <2>3 DEF Asks
  <2>5. ASSUME trail # <<>>, request[t] \in {"next", "previous"}
        PROVE  Turns(t)'
    <3>1. Saw(Back(t))'
      BY <1>1, <1>2, <2>1, <2>5, SawStays DEF Turns
    <3>2. QED
      BY <2>3, <3>1 DEF Turns
  <2>6. QED
    BY <1>2, <1>3, <2>1, <2>3, <2>4, <2>5
<1>18. QED
  BY <1>5, <1>6, <1>7, <1>8, <1>9, <1>10, <1>11, <1>12, <1>13, <1>14, <1>15, <1>16,
     <1>17
  DEF Web!Responder

(* Who is alone remains alone until another request is read.               *)
LEMMA PagingStep ==
  ASSUME WebTypes, Handled, Counting, Building, Paging, Between, Web!Next
  PROVE  Paging'
<1>1. CASE Web!ReadFails
  BY <1>1 DEF Web!ReadFails, Web!locals, Web!globals, Web!history, Paging, Web!Live,
     Asks, Turns, Saw, LastPage, Back, Shows, HasPage, Before, RowsOn, RowAt, Web!Refused
<1>2. ASSUME NEW s \in WebThreads, Web!Responder(s)
      PROVE  Paging'
  <2>1. alone' \subseteq alone
    BY <1>2
    DEF Web!Responder, Web!ParseFails, Web!ResetCounter, Web!SetOptions, Web!Lock,
        Web!Assign, Web!Test, Web!Load, Web!Store, Web!Receive, Web!Label, Web!Check, Web!CountRows,
        Web!Row, Web!RowFaults, Web!Respond, Web!history
  <2>2. ASSUME NEW t \in alone'
        PROVE  t \in alone /\ t \in WebThreads /\ t = s
    BY <1>2, <2>1, AloneSteps DEF WebTypes, ServerTypes
  <2>3. CASE Web!Respond(s)
    <3>1. s \notin alone'
      BY <2>3 DEF Web!Respond
    <3>2. QED
      BY <2>2, <3>1 DEF Paging
  <2>4. CASE ~Web!Respond(s) /\ s \in alone
    <3>1. /\ tPc'[s] # "none" /\ trail' = trail /\ stale' \subseteq stale
          /\ tPc'[s] \in {"check", "count", "row"} => page'[s].name = resultOptions'
          /\ tPc'[s] \in {"count", "row"} => page'[s].of = queryResult'.size
          /\ request[s] = "results" => Asks(s)'
          /\ trail # <<>> /\ request[s] \in {"next", "previous"} => Turns(s)'
          /\ trail # <<>> /\ request[s] = "home" => Saw(resultCounter)'
      BY <1>2, <2>4, AloneStep
    <3>2. request' = request
      BY <1>2, <2>4, RequestStays
    <3>3. Web!Live = {s} /\ s \notin stale'
      BY <2>4, <3>1 DEF Paging
    <3>4. Web!Live' = {s}
      <4>1. \A u \in WebThreads \ {s} : tPc'[u] = "none"
        BY <1>2, <3>3, OthersStay DEF Web!Live
      <4>2. QED
        BY <3>1, <4>1 DEF Web!Live
    <3>5. QED
      BY <2>2, <3>1, <3>2, <3>3, <3>4 DEF Paging
  <2>5. CASE s \notin alone
    BY <2>2, <2>5 DEF Paging
  <2>6. QED
    BY <2>3, <2>4, <2>5
<1>3. QED
  BY <1>1, <1>2, AloneReads DEF Web!Next, Web!Clients

-----------------------------------------------------------------------------
(* Pages that follow each other                                            *)
FullPage(p) ==
  p.rows # <<>> =>
    /\ Len(p.rows) = numResults \/ Web!LastOf(p.rows).index = 0
    /\ \A k \in DOMAIN p.rows :
         p.rows[k] = [query |-> p.name, index |-> p.rows[1].index - (k - 1)]
    /\ p.kind = "results" => p.rows[1].index = p.of - 1

Follows(q, p) ==
  /\ q.rows # <<>> /\ p.kind = "next" =>
       IF p.rows = <<>> THEN Web!LastOf(q.rows).index = 0
       ELSE p.rows[1] = [Web!LastOf(q.rows) EXCEPT !.index = @ - 1]
  /\ q.rows # <<>> /\ p.kind = "previous" =>
       IF p.rows = <<>> THEN q.rows[1].index = q.of - 1
       ELSE Web!LastOf(p.rows) = [q.rows[1] EXCEPT !.index = @ + 1]

(* The last page of the trail is full.                                     *)
LEMMA LastIsFull ==
  ASSUME WebTypes, Web!PagesFollow, trail # <<>>
  PROVE  FullPage(LastPage)
<1>1. Len(trail) \in DOMAIN trail
  BY DEF WebTypes, PageTypes
<1>2. QED
  BY <1>1 DEF Web!PagesFollow, FullPage, LastPage

(* A page that begins a trail                                              *)
LEMMA OneFollows ==
  ASSUME NEW p, trail' = <<p>>, FullPage(p)
  PROVE  Web!PagesFollow'
<1>1. DOMAIN trail' = {1} /\ trail'[1] = p
  OBVIOUS
<1>2. QED
  BY <1>1 DEF Web!PagesFollow, FullPage

(* A page that continues one                                               *)
LEMMA TwoFollow ==
  ASSUME NEW p, NEW q, trail' = <<q, p>>, FullPage(q), FullPage(p), Follows(q, p)
  PROVE  Web!PagesFollow'
<1>1. DOMAIN trail' = {1, 2} /\ trail'[1] = q /\ trail'[2] = p
  OBVIOUS
<1>2. trail'[2 - 1] = q
  OBVIOUS
<1>3. QED
  BY <1>1, <1>2 DEF Web!PagesFollow, FullPage, Follows

(* What a page that is shown has                                           *)
LEMMA ShownPage ==
  ASSUME WebTypes, NEW p \in Pages, NEW c \in Int, Shows(p, c), p.rows # <<>>
  PROVE  /\ HasPage(c) /\ RowsOn(c) \in Nat /\ RowsOn(c) > 0
         /\ Len(p.rows) = RowsOn(c) /\ DOMAIN p.rows = 1 .. RowsOn(c)
         /\ p.name = queryResult.query /\ p.of = queryResult.size
         /\ \A k \in 1 .. RowsOn(c) :
              p.rows[k] = [query |-> p.name, index |-> queryResult.size - Before(c) - k]
         /\ Before(c) \in Int /\ queryResult.size \in Int
<1>1. HasPage(c) /\ p.name = queryResult.query /\ p.of = queryResult.size
      /\ p.rows = [k \in 1 .. RowsOn(c) |-> RowAt(c, k)]
  BY DEF Shows
<1>2. Before(c) \in Int /\ queryResult.size \in Int /\ numResults \in Nat /\ numResults > 0
  BY PageNumbers, Products
<1>3. RowsOn(c) \in Nat /\ RowsOn(c) > 0
  BY <1>1, <1>2 DEF RowsOn, HasPage
<1>4. DOMAIN p.rows = 1 .. RowsOn(c)
  BY <1>1
<1>5. Len(p.rows) \in Nat /\ DOMAIN p.rows = 1 .. Len(p.rows)
  BY PageParts
<1>6. Len(p.rows) = RowsOn(c)
  <2>1. ASSUME NEW m \in Nat, NEW n \in Nat, 1 .. m = 1 .. n, n > 0
        PROVE  m = n
    <3>1. n \in 1 .. m
      BY <2>1
    <3>2. m \in 1 .. n
      BY <2>1, <3>1
    <3>3. QED
      BY <3>1, <3>2
  <2>2. QED
    BY <1>3, <1>4, <1>5, <2>1
<1>7. \A k \in 1 .. RowsOn(c) :
        p.rows[k] = [query |-> p.name, index |-> queryResult.size - Before(c) - k]
  BY <1>1 DEF RowAt
<1>8. QED
  BY <1>1, <1>2, <1>3, <1>4, <1>6, <1>7

(* A page that shows what there is is full.                                *)
LEMMA ShownIsFull ==
  ASSUME WebTypes, NEW p \in Pages, NEW c \in Int, Shows(p, c),
         p.kind = "results" => c = 0
  PROVE  FullPage(p)
<1> SUFFICES ASSUME p.rows # <<>> PROVE FullPage(p)
  BY DEF FullPage
<1> DEFINE n == RowsOn(c)
           lo == Before(c)
           size == queryResult.size
<1>1. /\ HasPage(c) /\ n \in Nat /\ n > 0 /\ Len(p.rows) = n /\ DOMAIN p.rows = 1 .. n
      /\ p.of = size /\ lo \in Int /\ size \in Int
      /\ \A k \in 1 .. n : p.rows[k] = [query |-> p.name, index |-> size - lo - k]
  BY ShownPage
<1>2. n = numResults \/ n = size - lo
  BY DEF RowsOn
<1>3. p.kind = "results" => lo = 0
  BY Products
<1> HIDE DEF n, lo, size
<1>4. ASSUME NEW k \in 1 .. n
      PROVE  p.rows[k].query = p.name /\ p.rows[k].index = size - lo - k
  <2> DEFINE r == [query |-> p.name, index |-> size - lo - k]
  <2>1. p.rows[k] = r
    BY <1>1
  <2>2. r.query = p.name /\ r.index = size - lo - k
    OBVIOUS
  <2> HIDE DEF r
  <2>3. QED
    BY <2>1, <2>2
<1>5. Len(p.rows) = numResults \/ Web!LastOf(p.rows).index = 0
  <2>1. p.rows[n].index = size - lo - n
    BY <1>1, <1>4
  <2>2. QED
    BY <1>1, <1>2, <2>1 DEF Web!LastOf
<1>6. p.rows[1].index = size - lo - 1
  BY <1>1, <1>4
<1>7. ASSUME NEW k \in DOMAIN p.rows
      PROVE  p.rows[k] = [query |-> p.name, index |-> p.rows[1].index - (k - 1)]
  <2>1. k \in Int /\ p.rows[k] = [query |-> p.name, index |-> size - lo - k]
    BY <1>1
  <2>2. p.rows[1].index - (k - 1) = size - lo - k
    BY <1>1, <1>6, <2>1
  <2>3. QED
    BY <2>1, <2>2
<1>8. p.kind = "results" => p.rows[1].index = p.of - 1
  BY <1>1, <1>3, <1>6
<1>9. QED
  BY <1>5, <1>7, <1>8 DEF FullPage

(* Who asks for the next page sees what follows, or that there is none.    *)
LEMMA NextFollows ==
  ASSUME WebTypes, NEW q \in Pages, NEW p \in Pages, NEW c \in Int,
         q.rows # <<>> => Shows(q, c - 1), Shows(p, c), p.kind = "next"
  PROVE  Follows(q, p)
<1> SUFFICES ASSUME q.rows # <<>>
             PROVE  IF p.rows = <<>> THEN Web!LastOf(q.rows).index = 0
                    ELSE p.rows[1] = [Web!LastOf(q.rows) EXCEPT !.index = @ - 1]
  BY DEF Follows
<1> DEFINE m == RowsOn(c - 1)
           lo == Before(c)
           low == Before(c - 1)
           size == queryResult.size
<1>1. /\ m \in Nat /\ m > 0 /\ Len(q.rows) = m /\ low \in Int /\ size \in Int
      /\ q.rows[m] = [query |-> q.name, index |-> size - low - m]
      /\ q.name = queryResult.query /\ HasPage(c - 1)
  BY ShownPage
<1>2. low >= 0 /\ low < size /\ low = lo - numResults /\ lo \in Int
      /\ numResults \in Nat /\ numResults > 0
  BY <1>1, Products, PageNumbers DEF HasPage
<1>3. m = (IF size - low < numResults THEN size - low ELSE numResults)
  BY DEF RowsOn
<1>4. HasPage(c) <=> lo >= 0 /\ lo < size
  BY DEF HasPage
<1>5. Web!LastOf(q.rows) = [query |-> q.name, index |-> size - low - m]
  BY <1>1 DEF Web!LastOf
<1>6. p.rows # <<>> => p.rows[1] = [query |-> q.name, index |-> size - lo - 1] /\ HasPage(c)
  <2> HAVE p.rows # <<>>
  <2>1. HasPage(c) /\ RowsOn(c) \in Nat /\ RowsOn(c) > 0 /\ p.name = queryResult.query
        /\ \A k \in 1 .. RowsOn(c) : p.rows[k] = [query |-> p.name, index |-> size - lo - k]
    BY ShownPage
  <2>2. 1 \in 1 .. RowsOn(c)
    BY <2>1
  <2>3. QED
    BY <1>1, <2>1, <2>2
<1>7. p.rows = <<>> => ~HasPage(c)
  <2>1. ASSUME HasPage(c) PROVE p.rows # <<>>
    <3>1. p.rows = [k \in 1 .. RowsOn(c) |-> RowAt(c, k)]
      BY <2>1 DEF Shows
    <3>2. RowsOn(c) > 0 /\ RowsOn(c) \in Int
      <4>1. RowsOn(c) = IF size - lo < numResults THEN size - lo ELSE numResults
        BY DEF RowsOn
      <4> HIDE DEF lo, size, m, low
      <4>2. QED
        BY <1>1, <1>2, <1>4, <2>1, <4>1
    <3>3. 1 \in DOMAIN p.rows
      BY <3>1, <3>2
    <3>4. QED
      BY <3>3
  <2>2. QED
    BY <2>1
<1> HIDE DEF m, lo, low, size
<1>8. CASE p.rows = <<>>
  <2>1. size - low - m = 0
    BY <1>1, <1>2, <1>3, <1>4, <1>7, <1>8
  <2>2. QED
    BY <1>5, <1>8, <2>1
<1>9. CASE p.rows # <<>>
  <2>1. size - low - m - 1 = size - lo - 1
    BY <1>1, <1>2, <1>3, <1>4, <1>6, <1>9
  <2>2. [Web!LastOf(q.rows) EXCEPT !.index = @ - 1]
          = [query |-> q.name, index |-> size - low - m - 1]
    BY <1>5
  <2>3. QED
    BY <1>6, <1>9, <2>1, <2>2
<1>10. QED
  BY <1>8, <1>9

(* The page before                                                         *)
LEMMA PreviousFollows ==
  ASSUME WebTypes, NEW q \in Pages, NEW p \in Pages, NEW c \in Int,
         q.rows # <<>> => Shows(q, c + 1), Shows(p, c), p.kind = "previous"
  PROVE  Follows(q, p)
<1> SUFFICES ASSUME q.rows # <<>>
             PROVE  IF p.rows = <<>> THEN q.rows[1].index = q.of - 1
                    ELSE Web!LastOf(p.rows) = [q.rows[1] EXCEPT !.index = @ + 1]
  BY DEF Follows
<1> DEFINE n == RowsOn(c)
           lo == Before(c)
           up == Before(c + 1)
           size == queryResult.size
<1>1. /\ up \in Int /\ size \in Int /\ q.of = size
      /\ q.rows[1] = [query |-> q.name, index |-> size - up - 1]
      /\ q.name = queryResult.query /\ HasPage(c + 1)
  BY ShownPage
<1>2. up >= 0 /\ up < size /\ up = lo + numResults /\ lo \in Int
      /\ numResults \in Nat /\ numResults > 0
  BY <1>1, Products, PageNumbers DEF HasPage
<1>3. n = (IF size - lo < numResults THEN size - lo ELSE numResults)
  BY DEF RowsOn
<1>4. HasPage(c) <=> lo >= 0 /\ lo < size
  BY DEF HasPage
<1>5. p.rows # <<>> => Web!LastOf(p.rows) = [query |-> q.name, index |-> size - lo - n]
  <2> HAVE p.rows # <<>>
  <2>1. n \in Nat /\ n > 0 /\ Len(p.rows) = n /\ p.name = q.name
        /\ p.rows[n] = [query |-> p.name, index |-> size - lo - n]
    BY <1>1, ShownPage
  <2>2. QED
    BY <2>1 DEF Web!LastOf
<1>6. p.rows = <<>> => up = 0
  <2>1. ASSUME p.rows = <<>> PROVE ~HasPage(c)
    <3>1. SUFFICES ASSUME HasPage(c) PROVE FALSE
      OBVIOUS
    <3>2. p.rows = [k \in 1 .. RowsOn(c) |-> RowAt(c, k)]
      BY <3>1 DEF Shows
    <3>3. RowsOn(c) > 0 /\ RowsOn(c) \in Int
      BY <1>1, <1>2, <3>1 DEF RowsOn, HasPage
    <3>4. 1 \in DOMAIN p.rows
      BY <3>2, <3>3
    <3>5. QED
      BY <2>1, <3>4
  <2>2. ~HasPage(c) => c < 0
    <3>1. c >= 0 => lo >= 0
      BY Products
    <3> HIDE DEF lo, up, size
    <3>2. QED
      BY <1>1, <1>2, <1>4, <3>1
  <2>3. c + 1 >= 0
    <3>1. c + 1 \in Int
      OBVIOUS
    <3>2. c + 1 < 0 => up <= -numResults
      BY <3>1, Products
    <3>3. QED
      BY <1>2, <3>1, <3>2
  <2>4. ~HasPage(c) => c + 1 = 0
    BY <2>2, <2>3
  <2>5. QED
    BY <2>1, <2>4, Products
<1> HIDE DEF n, lo, up, size
<1>7. CASE p.rows = <<>>
  <2>1. up = 0
    BY <1>6, <1>7
  <2>2. [query |-> q.name, index |-> size - up - 1].index = size - up - 1
    OBVIOUS
  <2>3. q.rows[1].index = size - up - 1
    BY <1>1, <2>2
  <2>4. QED
    BY <1>1, <1>7, <2>1, <2>3
<1>8. CASE p.rows # <<>>
  <2>1. HasPage(c)
    BY <1>8, ShownPage
  <2>2. size - lo - n = size - up - 1 + 1
    BY <1>1, <1>2, <1>3, <1>4, <2>1
  <2>3. [q.rows[1] EXCEPT !.index = @ + 1] = [query |-> q.name, index |-> size - up - 1 + 1]
    BY <1>1
  <2>4. QED
    BY <1>5, <1>8, <2>2, <2>3
<1>9. QED
  BY <1>7, <1>8

(* Who is refused was on the first page, or has seen none.                 *)
LEMMA RefusedFollows ==
  ASSUME WebTypes, NEW q \in Pages, NEW p \in Pages, NEW t \in WebThreads,
         q.rows # <<>> => Shows(q, resultCounter), p.rows = <<>>,
         p.kind = request[t], Web!Refused(t)
  PROVE  Follows(q, p)
<1> SUFFICES ASSUME q.rows # <<>>
             PROVE  /\ p.kind = "next" => Web!LastOf(q.rows).index = 0
                    /\ p.kind = "previous" => q.rows[1].index = q.of - 1
  BY DEF Follows
<1>1. resultCounter \in Int
  BY DEF WebTypes, ServerTypes
<1>2. /\ HasPage(resultCounter) /\ q.of = queryResult.size /\ queryResult.size \in Int
      /\ 1 \in 1 .. RowsOn(resultCounter)
      /\ \A k \in 1 .. RowsOn(resultCounter) :
           q.rows[k] = [query |-> q.name,
                        index |-> queryResult.size - Before(resultCounter) - k]
  BY <1>1, ShownPage
<1>3. Before(resultCounter) >= 0
  BY <1>2 DEF HasPage
<1>4. resultCounter >= 0
  <2>1. resultCounter < 0 => Before(resultCounter) <= -numResults
    BY <1>1, Products
  <2>2. Before(resultCounter) \in Int /\ numResults \in Nat /\ numResults > 0
    BY PageNumbers
  <2>3. QED
    BY <1>1, <1>3, <2>1, <2>2
<1>5. p.kind # "next" /\ resultCounter = 0
  BY <1>1, <1>4 DEF Web!Refused
<1>6. Before(resultCounter) = 0
  BY <1>5, Products
<1>7. q.rows[1].index = queryResult.size - 1
  <2>1. q.rows[1] = [query |-> q.name, index |-> queryResult.size - 0 - 1]
    BY <1>2, <1>6
  <2>2. [query |-> q.name, index |-> queryResult.size - 0 - 1].index = queryResult.size - 1
    BY <1>2
  <2>3. QED
    BY <2>1, <2>2
<1>8. QED
  BY <1>2, <1>5, <1>7

(* A thread that was alone responds.                                       *)
LEMMA RespondAlone ==
  ASSUME WebTypes, Handled, Building, Paging, Web!PagesFollow,
         NEW t \in WebThreads, t \in alone, Web!Respond(t)
  PROVE  /\ trail' # <<>> => Saw(resultCounter)'
         /\ Web!PagesFollow'
<1>1. /\ tPc[t] = "respond" /\ UNCHANGED <<resultCounter, resultOptions, queryResult>>
      /\ trail' = IF t \notin alone \/ request[t] = "empty" THEN <<>>
                  ELSE CASE request[t] = "home" -> trail
                         [] request[t] = "results" -> <<page[t]>>
                         [] OTHER -> IF trail = <<>> THEN <<>>
                                     ELSE <<trail[Len(trail)], page[t]>>
  BY DEF Web!Respond, Web!globals
<1>2. /\ request[t] \in {"results", "next", "previous", "home", "empty"}
      /\ page[t].kind = request[t]
  BY <1>1 DEF Handled
<1>3. /\ page[t] \in Pages /\ trail \in Seq(Pages) /\ resultCounter \in Int
  BY DEF WebTypes, ServerTypes, PageTypes
<1>4. ASSUME trail' = <<>>
      PROVE  Web!PagesFollow'
  BY <1>4 DEF Web!PagesFollow
<1>5. ASSUME NEW p, LastPage' = p, resultOptions = queryResult.query,
             p.rows # <<>> => Shows(p, resultCounter)
      PROVE  Saw(resultCounter)'
  BY <1>1, <1>5 DEF Saw, Shows, HasPage, Before, RowsOn, RowAt
<1>6. CASE request[t] = "empty"
  <2>1. trail' = <<>>
    BY <1>1, <1>6
  <2>2. QED
    BY <1>4, <2>1
<1>7. CASE request[t] = "home"
  <2>1. trail' = trail
    BY <1>1, <1>7
  <2>2. Web!PagesFollow'
    BY <2>1 DEF Web!PagesFollow
  <2>3. trail # <<>> => Saw(resultCounter)
    BY <1>7 DEF Paging
  <2>4. QED
    BY <1>1, <2>1, <2>2, <2>3, SawStays
<1>8. CASE request[t] = "results"
  <2>1. trail' = <<page[t]>> /\ LastPage' = page[t]
    BY <1>1, <1>8 DEF LastPage
  <2>2. /\ resultCounter = 0 /\ resultOptions = query[t] /\ queryResult.query = query[t]
        /\ Shows(page[t], 0)
    BY <1>1, <1>8 DEF Paging, Asks
  <2>3. FullPage(page[t])
    BY <1>3, <2>2, ShownIsFull
  <2>4. Web!PagesFollow'
    BY <2>1, <2>3, OneFollows
  <2>5. QED
    BY <1>5, <2>1, <2>2, <2>4
<1>9. CASE request[t] \in {"next", "previous"} /\ trail = <<>>
  <2>1. trail' = <<>>
    BY <1>1, <1>9
  <2>2. QED
    BY <1>4, <2>1
<1>10. CASE request[t] \in {"next", "previous"} /\ trail # <<>>
  <2> DEFINE q == LastPage
             p == page[t]
  <2>1. trail' = <<q, p>>
    BY <1>1, <1>10 DEF LastPage
  <2>2. LastPage' = p
    BY <2>1 DEF LastPage
  <2>3. q \in Pages /\ FullPage(q)
    BY <1>3, <1>10, LastIsFull DEF LastPage
  <2>4. \/ p.rows = <<>> /\ Saw(resultCounter) /\ Web!Refused(t)
        \/ Saw(Back(t)) /\ Shows(p, resultCounter)
    BY <1>1, <1>10 DEF Paging, Turns
  <2>5. CASE p.rows = <<>> /\ Saw(resultCounter) /\ Web!Refused(t)
    <3>1. /\ resultOptions = queryResult.query
          /\ q.rows # <<>> => Shows(q, resultCounter)
      BY <2>5 DEF Saw
    <3>2. FullPage(p)
      BY <2>5 DEF FullPage
    <3>3. Follows(q, p)
      BY <1>2, <1>3, <2>3, <2>5, <3>1, RefusedFollows
    <3>4. Web!PagesFollow'
      BY <2>1, <2>3, <3>2, <3>3, TwoFollow
    <3>5. QED
      BY <1>5, <2>2, <2>5, <3>1, <3>4
  <2>6. CASE Saw(Back(t)) /\ Shows(p, resultCounter)
    <3>1. /\ resultOptions = queryResult.query
          /\ q.rows # <<>> => Shows(q, Back(t))
      BY <2>6 DEF Saw
    <3>2. FullPage(p)
      BY <1>2, <1>3, <1>10, <2>6, ShownIsFull
    <3>3. Follows(q, p)
      <4>1. CASE request[t] = "next"
        <5>1. Back(t) = resultCounter - 1 /\ p.kind = "next"
          BY <1>2, <4>1 DEF Back
        <5>2. QED
          BY <1>3, <2>3, <2>6, <3>1, <5>1, NextFollows
      <4>2. CASE request[t] = "previous"
        <5>1. Back(t) = resultCounter + 1 /\ p.kind = "previous"
          BY <1>2, <4>2 DEF Back
        <5>2. QED
          BY <1>3, <2>3, <2>6, <3>1, <5>1, PreviousFollows
      <4>3. QED
        BY <1>10, <4>1, <4>2
    <3>4. Web!PagesFollow'
      BY <2>1, <2>3, <3>2, <3>3, TwoFollow
    <3>5. QED
      BY <1>5, <2>2, <2>6, <3>1, <3>4
  <2>7. QED
    BY <2>4, <2>5, <2>6
<1>11. QED
  BY <1>2, <1>6, <1>7, <1>8, <1>9, <1>10

(* The pages that a client who is alone has seen follow each other, and    *)
(* the globals stand where the last one left them.                         *)
LEMMA FollowsStep ==
  ASSUME WebTypes, Handled, Building, Paging, Between, Web!PagesFollow, Web!Next
  PROVE  Between' /\ Web!PagesFollow'
<1>1. CASE Web!ReadFails
  <2>1. Between'
    BY <1>1 DEF Web!ReadFails, Web!locals, Web!globals, Web!history, Between, Web!Live,
       Saw, LastPage, Shows, HasPage, Before, RowsOn, RowAt
  <2>2. Web!PagesFollow'
    BY <1>1 DEF Web!ReadFails, Web!history, Web!PagesFollow
  <2>3. QED
    BY <2>1, <2>2
<1>2. ASSUME NEW s \in WebThreads, tPc'[s] # "none", trail' = trail
      PROVE  Between' /\ Web!PagesFollow'
  <2>1. s \in Web!Live'
    BY <1>2 DEF Web!Live
  <2>2. QED
    BY <1>2, <2>1 DEF Between, Web!PagesFollow
<1>3. ASSUME NEW s \in WebThreads, NEW kind \in Kinds, Web!ReadRequest(s, kind)
      PROVE  Between' /\ Web!PagesFollow'
  <2>1. tPc'[s] = Web!Handler(kind) /\ trail' = trail
    BY <1>3 DEF Web!ReadRequest, Web!Goto, WebTypes, ServerTypes
  <2>2. tPc'[s] # "none"
    BY <2>1, HandlerLabels
  <2>3. QED
    BY <1>2, <2>1, <2>2
<1>4. ASSUME NEW s \in WebThreads, Web!Responder(s)
      PROVE  Between' /\ Web!PagesFollow'
  <2>1. CASE Web!Respond(s) /\ s \in alone
    BY <2>1, RespondAlone DEF Between
  <2>2. CASE Web!Respond(s) /\ s \notin alone
    <3>1. trail' = <<>>
      BY <2>2 DEF Web!Respond
    <3>2. QED
      BY <3>1 DEF Between, Web!PagesFollow
  <2>3. CASE ~Web!Respond(s)
    <3>1. tPc'[s] # "none" /\ trail' = trail
      <4>1. CASE Web!ParseFails(s)
        BY <4>1 DEF Web!ParseFails, Web!Goto, Web!locals, Web!history,
            WebTypes, ServerTypes
      <4>2. CASE Web!ResetCounter(s)
        BY <4>2 DEF Web!ResetCounter, Web!Goto, Web!locals, Web!history,
            WebTypes, ServerTypes
      <4>3. CASE Web!SetOptions(s)
        BY <4>3 DEF Web!SetOptions, Web!Goto, Web!locals, Web!history,
            WebTypes, ServerTypes
      <4>4. CASE Web!Lock(s)
        BY <4>4 DEF Web!Lock, Web!Goto, Web!locals, Web!history, WebTypes,
            ServerTypes
      <4>5. CASE Web!Assign(s)
        BY <4>5 DEF Web!Assign, Web!Goto, Web!locals, Web!history, WebTypes,
            ServerTypes
      <4>6. CASE Web!Test(s)
        BY <4>6 DEF Web!Test, Web!Goto, Web!locals, Web!history, WebTypes,
            ServerTypes
      <4>7. CASE Web!Load(s)
        BY <4>7 DEF Web!Load, Web!Goto, Web!locals, Web!history, WebTypes,
            ServerTypes
      <4>8. CASE Web!Store(s)
        BY <4>8 DEF Web!Store, Web!Goto, Web!locals, Web!history, WebTypes,
            ServerTypes
      <4>9. CASE Web!Label(s)
        BY <4>9 DEF Web!Label, Web!Goto, Web!locals, Web!history, WebTypes,
            ServerTypes
      <4>10. CASE Web!Check(s)
        BY <4>10 DEF Web!Check, Web!Goto, Web!locals, Web!history, WebTypes,
            ServerTypes
      <4>11. CASE Web!Row(s)
        BY <4>11 DEF Web!Row, Web!Goto, Web!locals, Web!history, WebTypes,
            ServerTypes
      <4>12. CASE Web!RowFaults(s)
        BY <4>12 DEF Web!RowFaults, Web!Goto, Web!locals, Web!history,
            WebTypes, ServerTypes
      <4>13. CASE \E n \in Sizes : Web!Receive(s, n)
        BY <4>13 DEF Web!Receive, Web!Goto, Web!locals, Web!history, WebTypes,
            ServerTypes
      <4>14. CASE Web!CountRows(s)
        BY <4>14 DEF Web!CountRows, Web!Goto, Web!locals, Web!history, WebTypes,
            ServerTypes
      <4>15. QED
        BY <1>4, <2>3, <4>1, <4>2, <4>3, <4>4, <4>5, <4>6, <4>7, <4>8, <4>9,
           <4>10, <4>11, <4>12, <4>13, <4>14
        DEF Web!Responder
    <3>2. QED
      BY <1>2, <3>1
  <2>4. QED
    BY <2>1, <2>2, <2>3
<1>5. QED
  BY <1>1, <1>3, <1>4 DEF Web!Next, Web!Clients

(* No thread runs, and nothing has been shown.                             *)
LEMMA WebInit == Web!Init => WebInv
<1> SUFFICES ASSUME Web!Init PROVE WebInv
  OBVIOUS
<1>1. /\ tPc = [t \in WebThreads |-> "none"] /\ page = [t \in WebThreads |-> Web!NoPage]
      /\ request = [t \in WebThreads |-> "none"] /\ resultCounter = -1 /\ accepted = 0
      /\ alone = {} /\ stale = {} /\ trail = <<>>
  BY DEF Web!Init
<1>2. ServerTypes
  BY WebAssumption DEF Web!Init, ServerTypes, Labels
<1>3. PageTypes
  <2>1. Web!NoPage \in Pages
    BY NoPageIsPage
  <2>2. <<>> \in Seq(Pages) /\ Len(<<>>) = 0
    OBVIOUS
  <2>3. QED
    BY <1>1, <2>1, <2>2 DEF PageTypes
<1>4. Handled
  BY <1>1 DEF Handled
<1>5. Counting
  <2>1. Pending = {}
    BY <1>1 DEF Pending
  <2>2. Cardinality(Pending) = 0
    BY <2>1, FS_EmptySet
  <2>3. Moves = 1
    BY <1>1, <2>2 DEF Moves
  <2>4. QED
    BY <1>1, <2>3 DEF Counting
<1>6. Building
  <2>1. \A t \in WebThreads : page[t].rows = <<>>
    BY <1>1, NoPageIsPage
  <2>2. QED
    BY <1>1, <2>1 DEF Building
<1>7. Paging /\ Between /\ Web!PagesFollow
  BY <1>1 DEF Paging, Between, Web!PagesFollow
<1>8. QED
  BY <1>2, <1>3, <1>4, <1>5, <1>6, <1>7 DEF WebInv, WebTypes

(* Every step of the web server keeps the invariant, and the queue's steps *)
(* do not touch it.                                                        *)
LEMMA WebStep == WebInv /\ [MCNext]_mcVars => WebInv'
<1> SUFFICES ASSUME WebInv, [MCNext]_mcVars PROVE WebInv'
  OBVIOUS
<1>1. CASE Web!Next
  BY <1>1, ServerTypesStep, PageTypesKept, HandledStep, CountingStep, BuildingStep,
     PagingStep, FollowsStep DEF WebInv, WebTypes
<1>2. CASE UNCHANGED webVars
  <2> USE <1>2 DEF webVars
  <2>1. WebTypes' /\ Handled' /\ Web!PagesFollow'
    <3>1. ServerTypes'
      BY DEF WebInv, WebTypes, ServerTypes
    <3>2. PageTypes'
      BY DEF WebInv, WebTypes, PageTypes
    <3>3. Handled'
      BY DEF WebInv, Handled
    <3>4. Web!PagesFollow'
      BY DEF WebInv, Web!PagesFollow
    <3>5. QED
      BY <3>1, <3>2, <3>3, <3>4 DEF WebTypes
  <2>2. Counting'
    BY DEF WebInv, Counting, Moves, Pending
  <2>3. Building'
    BY DEF WebInv, Building, Built, HasPage, Before, RowsOn, RowAt
  <2>4. Paging' /\ Between'
    BY DEF WebInv, Paging, Between, Web!Live, Asks, Turns, Saw, LastPage, Back, Shows,
           HasPage, Before, RowsOn, RowAt, Web!Refused
  <2>5. QED
    BY <2>1, <2>2, <2>3, <2>4 DEF WebInv
<1>3. QED
  BY <1>1, <1>2 DEF MCNext, mcVars

(* Who builds a page that no request has made stale has its rows right.    *)
LEMMA RowsAreInRange == WebInv => Web!RowsInRange
<1> SUFFICES ASSUME WebInv, NEW t \in WebThreads, t \notin stale,
                    NEW k \in DOMAIN page[t].rows
             PROVE  page[t].rows[k] # Web!Garbage
  BY DEF Web!RowsInRange
<1> USE DEF WebInv
<1>1. page[t].rows \in Seq(Rows) /\ Len(page[t].rows) \in Nat
  BY PageOf
<1>2. tPc[t] \in {"row", "respond"}
  BY <1>1 DEF Building
<1>3. CASE tPc[t] = "respond"
  <2>1. page[t].rows[k].index >= 0
    BY <1>3 DEF Building
  <2>2. QED
    BY <2>1, GarbageIsRow
<1>4. CASE tPc[t] = "row"
  <2>1. Built(t)
    BY <1>4 DEF Building
  <2>2. k \in Int /\ k <= Len(page[t].rows) /\ Len(page[t].rows) < show[t]
        /\ show[t] = RowsOn(resultCounter)
        /\ page[t].rows[k] = RowAt(resultCounter, k)
    BY <1>1, <2>1 DEF Built
  <2>3. RowAt(resultCounter, k).index = queryResult.size - Before(resultCounter) - k
    BY DEF RowAt
  <2>4. queryResult.size - Before(resultCounter) - k >= 0
    BY <1>1, <2>2, PageNumbers
  <2>5. QED
    BY <2>2, <2>3, <2>4, GarbageIsRow
<1>5. QED
  BY <1>2, <1>3, <1>4

(* The web server's pages follow each other, and none shows a row that is  *)
(* not there, however long a page is: RowsShown.                           *)
THEOREM RowsAreShown == MCSpec => []RowsShown
<1>1. MCInit => WebInv
  BY WebInit DEF MCInit
<1>2. WebInv /\ [MCNext]_mcVars => WebInv'
  BY WebStep
<1>3. WebInv => RowsShown
  BY RowsAreInRange DEF WebInv, RowsShown
<1>4. QED
  BY <1>1, <1>2, <1>3, PTL DEF MCSpec

=============================================================================
