----------------------------- MODULE TopNQueue ------------------------------
(***************************************************************************)
(* The queue of a query's best results (include/query/query_result.hpp),   *)
(* as the query worker uses it (src/query_worker_driver.cpp): one thread   *)
(* per index ranks documents and adds them; when all threads are joined    *)
(* the main thread sends what the queue holds, or, started without a       *)
(* server ("local mode"), takes it out to print it.  Then the next query   *)
(* begins on the same queue.  The query server uses a fresh TopNQueue for  *)
(* every query in the same way (src/query_server_driver.cpp).              *)
(*                                                                         *)
(* push compares with min_allowed_rank before it takes the mutex and works *)
(* on the heap under it: two steps.                                        *)
(***************************************************************************)
EXTENDS Naturals, FiniteSets

CONSTANTS Results,    \* the results that can be found
          Rank,       \* [Results -> Nat], rank is "non-negative"
          N,          \* the size of the queue, MAX_NUM_PAGES
          Threads,    \* the threads that add results
          LocalMode,  \* does the worker print the results itself?
          NoResult, NoAnswer

ASSUME ResultsAssumption == IsFiniteSet(Results) /\ Rank \in [Results -> Nat]
ASSUME NAssumption == N \in Nat \ {0}
ASSUME LocalModeAssumption == LocalMode \in BOOLEAN
ASSUME NoResultAssumption == NoResult \notin Results

VARIABLES
  topQueue,          \* the results in the heap
  min_allowed_rank,
  pushing,           \* [Threads -> the result it is about to add]
  sending,           \* is the main thread emptying the queue?
  sent,              \* the results it has taken out so far
  offered, answer    \* history: see module TopN

vars == <<topQueue, min_allowed_rank, pushing, sending, sent, offered, answer>>

Init ==
  /\ topQueue = {}
  /\ min_allowed_rank = 0
  /\ pushing = [t \in Threads |-> NoResult]
  /\ sending = FALSE
  /\ sent = {}
  /\ offered = {}
  /\ answer = NoAnswer

(* Mutant of Lowest: the heap is ordered the other way round.              *)
Highest(S) == {r \in S : \A s \in S : Rank[s] <= Rank[r]}

(* Mutant of Lowest: the heap is not ordered.                              *)
AnyOf(S) == S

(* The results that can be at the top of the heap.  operator< of a result  *)
(* is turned round, so that is one of the lowest rank.                     *)
Lowest(S) == {r \in S : \A s \in S : Rank[r] <= Rank[s]}

-----------------------------------------------------------------------------
(* push looks at min_allowed_rank and drops the result ...                 *)
PushDrop(t, r) ==
  /\ ~sending
  /\ pushing[t] = NoResult
  /\ r \notin offered
  /\ Rank[r] < min_allowed_rank
  /\ offered' = offered \cup {r}
  /\ UNCHANGED <<topQueue, min_allowed_rank, pushing, sending, sent, answer>>

(* ... or goes on to the mutex.                                            *)
PushBegin(t, r) ==
  /\ ~sending
  /\ pushing[t] = NoResult
  /\ r \notin offered
  /\ ~(Rank[r] < min_allowed_rank)
  /\ offered' = offered \cup {r}
  /\ pushing' = [pushing EXCEPT ![t] = r]
  /\ UNCHANGED <<topQueue, min_allowed_rank, sending, sent, answer>>

(* Mutant of PushRoom: the value is moved from before it is pushed, so an  *)
(* empty result goes into the heap.                                        *)
PushRoomMoved(t) ==
  /\ pushing[t] # NoResult
  /\ Cardinality(topQueue \cup {pushing[t]}) <= N
  /\ topQueue' = topQueue \cup {NoResult}
  /\ pushing' = [pushing EXCEPT ![t] = NoResult]
  /\ UNCHANGED <<min_allowed_rank, sending, sent, offered, answer>>

(* Under the mutex, with room in the queue                                 *)
PushRoom(t) ==
  /\ pushing[t] # NoResult
  /\ Cardinality(topQueue \cup {pushing[t]}) <= N
  /\ topQueue' = topQueue \cup {pushing[t]}
  /\ pushing' = [pushing EXCEPT ![t] = NoResult]
  /\ UNCHANGED <<min_allowed_rank, sending, sent, offered, answer>>

(* Under the mutex, when the queue overflows: the lowest one is popped,    *)
(* and the next lowest becomes the limit.                                  *)
PushEvict(t, low) ==
  LET kept == (topQueue \cup {pushing[t]}) \ {low} IN
  /\ pushing[t] # NoResult
  /\ Cardinality(topQueue \cup {pushing[t]}) > N
  /\ low \in Lowest(topQueue \cup {pushing[t]})
  /\ topQueue' = kept
  /\ \E next \in Lowest(kept) : min_allowed_rank' = Rank[next]
  /\ pushing' = [pushing EXCEPT ![t] = NoResult]
  /\ UNCHANGED <<sending, sent, offered, answer>>

(* All threads are joined: the main thread begins to take the results out. *)
BeginSend ==
  /\ ~sending
  /\ \A t \in Threads : pushing[t] = NoResult
  /\ sending' = TRUE
  /\ UNCHANGED <<topQueue, min_allowed_rank, pushing, sent, offered, answer>>

(* One result leaves: from the top of the heap, so in increasing rank.     *)
SendTop(r) ==
  /\ sending
  /\ r \in Lowest(topQueue)
  /\ topQueue' = topQueue \ {r}
  /\ sent' = sent \cup {r}
  /\ UNCHANGED <<min_allowed_rank, pushing, sending, offered, answer>>

(* The queue is empty.  send_and_reset resets it, GetTopResults does not.  *)
EndSend ==
  /\ sending
  /\ topQueue = {}
  /\ answer' = sent
  /\ min_allowed_rank' = IF LocalMode THEN min_allowed_rank ELSE 0
  /\ sending' = FALSE
  /\ sent' = {}
  /\ offered' = {}
  /\ UNCHANGED <<topQueue, pushing>>

(* Mutant of SendFails: the limit is not reset.                            *)
SendFailsKeeping ==
  /\ sending
  /\ ~LocalMode
  /\ answer' = NoAnswer
  /\ topQueue' = {}
  /\ sending' = FALSE
  /\ sent' = {}
  /\ offered' = {}
  /\ UNCHANGED <<min_allowed_rank, pushing>>

(* A send throws: send_and_reset resets the queue and throws again.        *)
SendFails ==
  /\ sending
  /\ ~LocalMode
  /\ answer' = NoAnswer
  /\ topQueue' = {}
  /\ min_allowed_rank' = 0
  /\ sending' = FALSE
  /\ sent' = {}
  /\ offered' = {}
  /\ UNCHANGED pushing

Next ==
  \/ \E t \in Threads, r \in Results : PushDrop(t, r) \/ PushBegin(t, r)
  \/ \E t \in Threads : PushRoom(t)
  \/ \E t \in Threads, low \in Results : PushEvict(t, low)
  \/ BeginSend
  \/ \E r \in Results : SendTop(r)
  \/ EndSend
  \/ SendFails

Spec == Init /\ [][Next]_vars

-----------------------------------------------------------------------------
TypeOK ==
  /\ topQueue \in SUBSET Results
  /\ min_allowed_rank \in Nat
  /\ pushing \in [Threads -> Results \cup {NoResult}]
  /\ sending \in BOOLEAN
  /\ sent \in SUBSET Results
  /\ offered \in SUBSET Results
  /\ answer \in (SUBSET Results) \cup {NoAnswer}

(* What push has finished with: the results offered to the query without   *)
(* those that a thread holds between the two steps of push.                *)
Settled == offered \ {pushing[t] : t \in Threads}

(* The queue stores the top N: what it holds, with what was already taken  *)
(* out, is at most N of the results that push has finished with, and a     *)
(* result that push dropped unseen, because min_allowed_rank was read      *)
(* without the mutex, or evicted, is outranked by N that are kept.         *)
KeepsTop ==
  LET kept == topQueue \cup sent IN
  /\ kept \subseteq Settled
  /\ Cardinality(kept) <= N
  /\ \A r \in Settled \ kept :
       Cardinality(kept) = N /\ \A s \in kept : Rank[r] <= Rank[s]

(* The results leave in increasing rank (query_result.hpp, "The rank will  *)
(* be increasing").                                                        *)
SentInOrder == \A s \in sent, r \in topQueue : Rank[s] <= Rank[r]

(* The answer to a query is the top N of what was offered to that query.   *)
Abstract == INSTANCE TopN
ImplementsTopN == Abstract!Spec

=============================================================================
