--------------------------- MODULE WorkerUrlsProofs ---------------------------
(***************************************************************************)
(* Proofs about what a worker gets from the master (WorkerUrls) and what   *)
(* it gives back (ParsedPages), for any parsers, buffers and replies.      *)
(*                                                                         *)
(* One thread asks the master at a time (Asking), because `requesting` is  *)
(* set under the mutex and cleared only by the thread that set it.  Only   *)
(* the holder of the mutex touches the buffer, so that what it has seen    *)
(* there stays true until it pops (Full).  The URLs in the buffer, in the  *)
(* answer of the master and with the parsers are apart (Kept).             *)
(*                                                                         *)
(* The pages in the buffer, in what the senders still have to send and in  *)
(* the messages are apart too (Parted): a sender takes a page out before   *)
(* it sends it, and what it has left is what its last message lacks        *)
(* (Sent).                                                                 *)
(***************************************************************************)
EXTENDS MCWorkerUrls, FiniteSetTheorems, SequenceTheorems, TLAPS

Urls == 1 .. MaxUrls

Types ==
  /\ urls_to_parse \in Seq(Urls) /\ to_parse_m \in Parsers \union {NoParser}
  /\ requesting \in BOOLEAN /\ shutting_down \in BOOLEAN
  /\ pc \in [Parsers -> Locs]
  /\ back \in [Parsers -> {"loop", "lock_loop", "lock_wait"}]
  /\ reply \in [Parsers -> Seq(Urls)]
  /\ mPc \in {"running", "broadcast", "done"}
  /\ supplied \in 0 .. MaxUrls
  /\ given \in [Urls -> Nat] /\ failures \in Nat

(* The mutex                                                               *)
Mutex == \A p \in Parsers : pc[p] \in Holding <=> to_parse_m = p

(* Who asks the master, and where it goes on when it has the answer        *)
Returns ==
  \A p \in Parsers :
    pc[p] \in Requesting => requesting /\ back[p] \in {"lock_loop", "lock_wait"}

Asking == OneRequester /\ Returns

(* What a thread behind the loop has seen of the buffer                    *)
Full ==
  \A p \in Parsers :
    /\ pc[p] = "take" => urls_to_parse # <<>> \/ shutting_down
    /\ pc[p] = "pop" => urls_to_parse # <<>>

(* Where the URLs are                                                      *)
Buffered == ToSet(urls_to_parse)
Arrived == UNION {ToSet(reply[p]) : p \in Parsers}
Given == {u \in Urls : given[u] # 0}

OnlyOnce(s) == \A m, n \in DOMAIN s : s[m] = s[n] => m = n

Once ==
  /\ OnlyOnce(urls_to_parse)
  /\ \A u \in Urls : given[u] <= 1
  /\ \A p \in Parsers : reply[p] # <<>> => pc[p] \in {"queue_lock", "queue"}

Placed ==
  /\ Buffered \cup Arrived \cup Given \subseteq 1 .. supplied
  /\ Buffered \cap Arrived = {} /\ Buffered \cap Given = {} /\ Arrived \cap Given = {}
  /\ failures = 0 => 1 .. supplied \subseteq Buffered \cup Arrived \cup Given

Kept == Once /\ Placed /\ \A p \in Parsers : OnlyOnce(reply[p])

UrlsInv == Types /\ Mutex /\ Asking /\ Full /\ Kept

-----------------------------------------------------------------------------
(* How the threads move                                                    *)

(* One thread goes to l, and others may be woken.                          *)
Step(p, l) ==
  /\ pc' \in [Parsers -> Locs] /\ pc'[p] = l
  /\ \A q \in Parsers : q # p => \/ pc'[q] = pc[q]
                                 \/ pc[q] = "waiting" /\ pc'[q] = "woken"

LEMMA GotoSteps ==
  ASSUME Types, NEW p \in Parsers, NEW l \in Locs, Goto(p, l)
  PROVE  Step(p, l)
<1>1. pc \in [Parsers -> Locs]
  BY DEF Types
<1>2. QED
  BY <1>1 DEF Goto, Step

LEMMA QueueSteps ==
  ASSUME Types, NEW p \in Parsers, QueueUrls(p)
  PROVE  Step(p, "more_test")
<1>1. pc \in [Parsers -> Locs] /\ "woken" \in Locs /\ "more_test" \in Locs
  BY DEF Types, Locs, Holding
<1>2. pc' = [q \in Parsers |-> IF q = p THEN "more_test"
                               ELSE IF pc[q] = "waiting" THEN "woken" ELSE pc[q]]
  BY DEF QueueUrls, WakeAll
<1>3. QED
  BY <1>1, <1>2 DEF Step

(* Main wakes everyone.                                                    *)
LEMMA BroadcastWakes ==
  ASSUME Types, Broadcast
  PROVE  /\ pc' \in [Parsers -> Locs]
         /\ \A q \in Parsers : \/ pc'[q] = pc[q]
                               \/ pc[q] = "waiting" /\ pc'[q] = "woken"
<1>1. pc \in [Parsers -> Locs] /\ "woken" \in Locs
  BY DEF Types, Locs
<1>2. pc' = [q \in Parsers |-> IF pc[q] = "waiting" THEN "woken" ELSE pc[q]]
  BY DEF Broadcast, WakeAll
<1>3. QED
  BY <1>1, <1>2

(* What any thread may do                                                  *)
Thread(p) ==
  Parser(p) \/ SpuriousWakeup(p) \/ \E n \in 0 .. MaxReply : ConnectionFails(p, n)

(* A thread tests what is shared, and changes nothing of it.               *)
Tests(p) ==
  /\ \/ pc[p] = "loop" /\ Step(p, "take") /\ (urls_to_parse # <<>> \/ shutting_down)
     \/ pc[p] = "loop" /\ Step(p, "loop_request")
     \/ pc[p] = "take" /\ Step(p, "pop") /\ ~shutting_down
     \/ pc[p] \in {"get_first", "loop_request"} /\ \E l \in {"loop", "wait"} : Step(p, l)
     \/ pc[p] = "waiting" /\ Step(p, "woken")
     \/ pc[p] = "more_begin" /\ \E l \in {"connect", back[p]} : Step(p, l)
     \/ pc[p] = "connect" /\ Step(p, "more_lock")
  /\ UNCHANGED <<shared, back, reply, supplied, given, failures>>

(* A thread begins to ask the master.                                      *)
Begins(p) ==
  /\ ~requesting /\ requesting' = TRUE
  /\ pc[p] \in {"get_first", "loop_request"} /\ to_parse_m' = NoParser
  /\ Step(p, "more_begin")
  /\ \E l \in {"lock_loop", "lock_wait"} : back' = [back EXCEPT ![p] = l]
  /\ UNCHANGED <<urls_to_parse, shutting_down, reply, supplied, given, failures>>

LEMMA Beginning ==
  ASSUME Types, NEW p \in Parsers, GetFirst(p) \/ GetLoopRequest(p)
  PROVE  Begins(p) \/ Tests(p)
<1>1. \A l \in {"more_begin", "loop", "wait"} : Goto(p, l) => Step(p, l)
  BY GotoSteps DEF Locs, Holding, Requesting
<1>2. CASE GetFirst(p)
  <2>1. CASE Len(urls_to_parse) < MIN_BUFFER_SIZE /\ ~requesting
    <3>1. /\ ~requesting /\ requesting' = TRUE /\ pc[p] = "get_first" /\ to_parse_m' = NoParser
          /\ Goto(p, "more_begin") /\ back' = [back EXCEPT ![p] = "lock_loop"]
          /\ UNCHANGED <<urls_to_parse, shutting_down, reply, supplied, given, failures>>
      BY <1>2, <2>1 DEF GetFirst
    <3>2. QED
      BY <1>1, <3>1 DEF Begins
  <2>2. CASE ~(Len(urls_to_parse) < MIN_BUFFER_SIZE /\ ~requesting)
    <3>1. /\ UNCHANGED <<shared, back, reply, supplied, given, failures>>
          /\ pc[p] = "get_first" /\ Goto(p, "loop")
      BY <1>2, <2>2 DEF GetFirst, shared
    <3>2. QED
      BY <1>1, <3>1 DEF Tests
  <2>3. QED
    BY <2>1, <2>2
<1>3. CASE GetLoopRequest(p)
  <2>1. CASE ~requesting
    <3>1. /\ ~requesting /\ requesting' = TRUE /\ pc[p] = "loop_request" /\ to_parse_m' = NoParser
          /\ Goto(p, "more_begin") /\ back' = [back EXCEPT ![p] = "lock_wait"]
          /\ UNCHANGED <<urls_to_parse, shutting_down, reply, supplied, given, failures>>
      BY <1>3, <2>1 DEF GetLoopRequest
    <3>2. QED
      BY <1>1, <3>1 DEF Begins
  <2>2. CASE requesting
    <3>1. /\ UNCHANGED <<shared, back, reply, supplied, given, failures>>
          /\ pc[p] = "loop_request" /\ Goto(p, "wait")
      BY <1>3, <2>2 DEF GetLoopRequest, shared
    <3>2. QED
      BY <1>1, <3>1 DEF Tests
  <2>3. QED
    BY <2>1, <2>2
<1>4. QED
  BY <1>2, <1>3

(* A thread takes the mutex.                                               *)
Locks(p) ==
  /\ to_parse_m = NoParser /\ to_parse_m' = p
  /\ \/ pc[p] \in {"get_lock", "lock_loop", "lock_wait", "woken"}
        /\ \E l \in {"get_first", "loop", "wait"} : Step(p, l)
     \/ pc[p] = "more_lock" /\ Step(p, "more_test")
     \/ pc[p] = "queue_lock" /\ Step(p, "queue")
  /\ UNCHANGED <<urls_to_parse, requesting, shutting_down, back, reply, supplied, given,
                 failures>>

LEMMA Locking ==
  ASSUME Types, NEW p \in Parsers, Acquire(p)
  PROVE  Locks(p)
<1>1. \A l \in {"get_first", "loop", "wait", "more_test", "queue"} : Goto(p, l) => Step(p, l)
  BY GotoSteps DEF Locs, Holding
<1>2. /\ to_parse_m = NoParser /\ to_parse_m' = p
      /\ UNCHANGED <<urls_to_parse, requesting, shutting_down, back, reply, supplied, given,
                     failures>>
  BY DEF Acquire, GetLock, GetRelock, GetWoken, MoreLock, QueueLock, Lock
<1>3. \/ pc[p] \in {"get_lock", "lock_loop", "lock_wait", "woken"}
         /\ \E l \in {"get_first", "loop", "wait"} : Goto(p, l)
      \/ pc[p] = "more_lock" /\ Goto(p, "more_test")
      \/ pc[p] = "queue_lock" /\ Goto(p, "queue")
  BY DEF Acquire, GetLock, GetRelock, GetWoken, MoreLock, QueueLock
<1>4. QED
  BY <1>1, <1>2, <1>3 DEF Locks

(* A thread leaves the mutex, and the buffer as it is.                     *)
Unlocks(p) ==
  /\ to_parse_m' = NoParser
  /\ \/ pc[p] = "wait" /\ Step(p, "waiting")
     \/ pc[p] = "take" /\ Step(p, "ended")
     \/ pc[p] = "more_test" /\ \E l \in {"checkout", "more_done"} : Step(p, l)
  /\ UNCHANGED <<urls_to_parse, requesting, shutting_down, back, reply, supplied, given,
                 failures>>

LEMMA Unlocking ==
  ASSUME Types, NEW p \in Parsers, GetWait(p) \/ GetEmpty(p) \/ MoreTest(p)
  PROVE  Unlocks(p)
<1>1. \A l \in {"waiting", "ended", "checkout", "more_done"} : Goto(p, l) => Step(p, l)
  BY GotoSteps DEF Locs, Requesting
<1>2. /\ to_parse_m' = NoParser
      /\ UNCHANGED <<urls_to_parse, requesting, shutting_down, back, reply, supplied, given,
                     failures>>
  BY DEF GetWait, GetEmpty, MoreTest
<1>3. \/ pc[p] = "wait" /\ Goto(p, "waiting")
      \/ pc[p] = "take" /\ Goto(p, "ended")
      \/ pc[p] = "more_test" /\ \E l \in {"checkout", "more_done"} : Goto(p, l)
  BY DEF GetWait, GetEmpty, MoreTest
<1>4. QED
  BY <1>1, <1>2, <1>3 DEF Unlocks

LEMMA Testing ==
  ASSUME Types, NEW p \in Parsers,
         GetLoop(p) \/ GetUrl(p) \/ SpuriousWakeup(p) \/ MoreBegin(p) \/ Connect(p)
  PROVE  Tests(p)
<1>1. \A l \in {"take", "loop_request", "pop", "woken", "connect", "more_lock", back[p]} :
        Goto(p, l) => Step(p, l)
  <2>1. back[p] \in Locs
    BY DEF Types, Locs, Holding
  <2>2. QED
    BY <2>1, GotoSteps DEF Locs, Requesting, Holding
<1>2. UNCHANGED <<shared, back, reply, supplied, given, failures>>
  BY DEF GetLoop, GetUrl, SpuriousWakeup, MoreBegin, Connect
<1>3. \/ pc[p] = "loop" /\ Goto(p, "take") /\ (urls_to_parse # <<>> \/ shutting_down)
      \/ pc[p] = "loop" /\ Goto(p, "loop_request")
      \/ pc[p] = "take" /\ Goto(p, "pop") /\ ~shutting_down
      \/ pc[p] = "waiting" /\ Goto(p, "woken")
      \/ pc[p] = "more_begin" /\ \E l \in {"connect", back[p]} : Goto(p, l)
      \/ pc[p] = "connect" /\ Goto(p, "more_lock")
  BY DEF GetLoop, GetUrl, SpuriousWakeup, MoreBegin, Connect
<1>4. QED
  BY <1>1, <1>2, <1>3 DEF Tests

(* A thread has an answer, or none, and is done with it.                   *)
Answers(p) ==
  /\ \/ pc[p] = "checkout" /\ Step(p, "queue_lock")
     \/ pc[p] \in {"connect", "checkout"} /\ Step(p, "more_done")
  /\ UNCHANGED <<shared, back, given>>

LEMMA Answering ==
  ASSUME Types, NEW p \in Parsers, NEW n \in 0 .. MaxReply,
         Checkout(p, n) \/ ConnectionFails(p, n)
  PROVE  Answers(p)
<1>1. \A l \in {"queue_lock", "more_done"} : Goto(p, l) => Step(p, l)
  BY GotoSteps DEF Locs, Requesting
<1>2. QED
  BY <1>1 DEF Answers, Checkout, ConnectionFails

Finishes(p) ==
  /\ pc[p] = "more_done" /\ requesting' = FALSE /\ Step(p, back[p])
  /\ UNCHANGED <<urls_to_parse, to_parse_m, shutting_down, back, reply, supplied, given,
                 failures>>

LEMMA Finishing ==
  ASSUME Types, NEW p \in Parsers, MoreDone(p)
  PROVE  Finishes(p)
<1>1. back[p] \in Locs
  BY DEF Types, Locs, Holding
<1>2. QED
  BY <1>1, GotoSteps DEF Finishes, MoreDone

LEMMA Popping ==
  ASSUME Types, NEW p \in Parsers, Pop(p)
  PROVE  pc[p] = "pop" /\ Step(p, "get_lock")
<1>1. "get_lock" \in Locs
  BY DEF Locs
<1>2. QED
  BY <1>1, GotoSteps DEF Pop

(* Every step of a thread is one of these.                                 *)
LEMMA ThreadDoes ==
  ASSUME Types, NEW p \in Parsers, Thread(p)
  PROVE  \/ Begins(p) \/ Locks(p) \/ Unlocks(p) \/ Tests(p) \/ Finishes(p)
         \/ Pop(p) \/ QueueUrls(p)
         \/ \E n \in 0 .. MaxReply : Checkout(p, n) \/ ConnectionFails(p, n)
<1>1. CASE GetFirst(p) \/ GetLoopRequest(p)
  BY <1>1, Beginning
<1>2. CASE GetLock(p) \/ GetRelock(p) \/ GetWoken(p) \/ MoreLock(p) \/ QueueLock(p)
  BY <1>2, Locking DEF Acquire
<1>3. CASE GetWait(p) \/ GetEmpty(p) \/ MoreTest(p)
  BY <1>3, Unlocking
<1>4. CASE GetLoop(p) \/ GetUrl(p) \/ SpuriousWakeup(p) \/ MoreBegin(p) \/ Connect(p)
  BY <1>4, Testing
<1>5. CASE MoreDone(p)
  BY <1>5, Finishing
<1>6. QED
  BY <1>1, <1>2, <1>3, <1>4, <1>5 DEF Thread, Parser

-----------------------------------------------------------------------------
(* The mutex and the flag                                                  *)

(* A step of main, or none, moves no thread but out of its wait.           *)
MainSteps ==
  /\ \A q \in Parsers : \/ pc'[q] = pc[q]
                        \/ pc[q] = "waiting" /\ pc'[q] = "woken"
  /\ UNCHANGED <<urls_to_parse, to_parse_m, requesting, back, reply, supplied, given, failures>>
  /\ shutting_down => shutting_down'

LEMMA MainDoes ==
  ASSUME Types, ShutDown \/ Broadcast \/ UNCHANGED vars
  PROVE  MainSteps
<1>1. UNCHANGED <<urls_to_parse, to_parse_m, requesting, back, reply, supplied, given, failures>>
  BY DEF ShutDown, Broadcast, vars, shared, local
<1>2. \A q \in Parsers : pc'[q] = pc[q] \/ (pc[q] = "waiting" /\ pc'[q] = "woken")
  BY BroadcastWakes DEF ShutDown, vars, local
<1>3. shutting_down => shutting_down'
  BY DEF ShutDown, Broadcast, vars, shared
<1>4. QED
  BY <1>1, <1>2, <1>3 DEF MainSteps

LEMMA MutexThread ==
  ASSUME Types, Mutex, Returns, NEW p \in Parsers, Thread(p)
  PROVE  Mutex'
<1>1. NoParser \notin Parsers
  BY ParsersAssumption
<1>2. ASSUME NEW l, Step(p, l), to_parse_m = NoParser, to_parse_m' = p, l \in Holding
      PROVE  Mutex'
  BY <1>1, <1>2 DEF Mutex, Step, Holding
<1>3. ASSUME NEW l, Step(p, l), pc[p] \in Holding, to_parse_m' = NoParser, l \notin Holding
      PROVE  Mutex'
  BY <1>1, <1>3 DEF Mutex, Step, Holding
<1>4. ASSUME NEW l, Step(p, l), UNCHANGED to_parse_m, pc[p] \in Holding <=> l \in Holding
      PROVE  Mutex'
  BY <1>4 DEF Mutex, Step, Holding
<1>5. CASE Begins(p) \/ Unlocks(p)
  BY <1>3, <1>5 DEF Begins, Unlocks, Holding
<1>6. CASE Locks(p)
  BY <1>2, <1>6 DEF Locks, Holding
<1>7. CASE Tests(p)
  <2>1. UNCHANGED to_parse_m
    BY <1>7 DEF Tests, shared
  <2>2. pc[p] = "more_begin" => back[p] \notin Holding
    BY DEF Returns, Requesting, Holding
  <2>3. \E l : Step(p, l) /\ (pc[p] \in Holding <=> l \in Holding)
    BY <1>7, <2>2 DEF Tests, Holding
  <2>4. QED
    BY <1>4, <2>1, <2>3
<1>8. CASE Finishes(p)
  <2>1. back[p] \notin Holding
    BY <1>8 DEF Finishes, Returns, Requesting, Holding
  <2>2. QED
    BY <1>4, <1>8, <2>1 DEF Finishes, Holding
<1>9. CASE Pop(p)
  BY <1>3, <1>9, Popping DEF Pop, Holding
<1>10. CASE QueueUrls(p)
  BY <1>4, <1>10, QueueSteps DEF QueueUrls, Holding
<1>11. ASSUME NEW n \in 0 .. MaxReply, Checkout(p, n) \/ ConnectionFails(p, n) PROVE Mutex'
  <2>1. Answers(p)
    BY <1>11, Answering
  <2>2. QED
    BY <1>4, <2>1 DEF Answers, shared, Holding
<1>12. QED
  BY <1>5, <1>6, <1>7, <1>8, <1>9, <1>10, <1>11, ThreadDoes

(* A step that begins no request and ends none for requesting              *)
LEMMA AsksOn ==
  ASSUME Asking, UNCHANGED <<requesting, back>>,
         \A q \in Parsers : pc'[q] \in Requesting => pc[q] \in Requesting
  PROVE  Asking'
BY DEF Asking, OneRequester, Returns

LEMMA AskingThread ==
  ASSUME Types, Asking, NEW p \in Parsers, Thread(p)
  PROVE  Asking'
<1>1. ASSUME NEW l, Step(p, l), UNCHANGED <<requesting, back>>,
             l \in Requesting => pc[p] \in Requesting
      PROVE  Asking'
  <2>1. \A q \in Parsers : pc'[q] \in Requesting => pc[q] \in Requesting
    BY <1>1 DEF Step, Requesting
  <2>2. QED
    BY <1>1, <2>1, AsksOn
<1>2. CASE Begins(p)
  <2>1. \A q \in Parsers : pc[q] \notin Requesting
    BY <1>2 DEF Begins, Asking, Returns
  <2>2. \A q \in Parsers : q # p => pc'[q] \notin Requesting
    BY <1>2, <2>1 DEF Begins, Step, Requesting
  <2>3. requesting' /\ back'[p] \in {"lock_loop", "lock_wait"}
    BY <1>2 DEF Begins, Types
  <2>4. QED
    BY <2>2, <2>3 DEF Asking, OneRequester, Returns
<1>3. CASE Locks(p) \/ Unlocks(p)
  BY <1>1, <1>3 DEF Locks, Unlocks, Requesting
<1>4. CASE Tests(p)
  <2>1. UNCHANGED <<requesting, back>>
    BY <1>4 DEF Tests, shared
  <2>2. \E l : Step(p, l) /\ (l \in Requesting => pc[p] \in Requesting)
    BY <1>4 DEF Tests, Requesting
  <2>3. QED
    BY <1>1, <2>1, <2>2
<1>5. CASE Finishes(p)
  <2>1. back[p] \notin Requesting /\ pc[p] \in Requesting
    BY <1>5 DEF Finishes, Asking, Returns, Requesting
  <2>2. \A q \in Parsers : pc'[q] \notin Requesting
    BY <1>5, <2>1 DEF Finishes, Step, Asking, OneRequester, Requesting
  <2>3. QED
    BY <2>2 DEF Asking, OneRequester, Returns
<1>6. CASE Pop(p)
  BY <1>1, <1>6, Popping DEF Pop, Requesting
<1>7. CASE QueueUrls(p)
  BY <1>1, <1>7, QueueSteps DEF QueueUrls, Requesting
<1>8. ASSUME NEW n \in 0 .. MaxReply, Checkout(p, n) \/ ConnectionFails(p, n) PROVE Asking'
  <2>1. Answers(p)
    BY <1>8, Answering
  <2>2. UNCHANGED <<requesting, back>>
    BY <2>1 DEF Answers, shared
  <2>3. QED
    BY <1>1, <2>1, <2>2 DEF Answers, Requesting
<1>9. QED
  BY <1>2, <1>3, <1>4, <1>5, <1>6, <1>7, <1>8, ThreadDoes

(* The buffer is changed by the holder of the mutex, and no other thread   *)
(* is behind the loop then.                                                *)
LEMMA FullThread ==
  ASSUME Types, Mutex, Full, NEW p \in Parsers, Thread(p)
  PROVE  Full'
<1>1. ASSUME NEW l, Step(p, l), UNCHANGED urls_to_parse, UNCHANGED shutting_down,
             l = "take" => urls_to_parse # <<>> \/ shutting_down,
             l = "pop" => urls_to_parse # <<>>
      PROVE  Full'
  BY <1>1 DEF Full, Step
<1>2. CASE Begins(p) \/ Locks(p) \/ Unlocks(p)
  BY <1>1, <1>2 DEF Begins, Locks, Unlocks
<1>3. ASSUME pc[p] = "more_begin" \/ pc[p] = "more_done" PROVE back[p] \notin {"take", "pop"}
  BY DEF Types
<1>4. CASE Tests(p)
  <2>1. UNCHANGED urls_to_parse /\ UNCHANGED shutting_down
    BY <1>4 DEF Tests, shared
  <2>2. \E l : /\ Step(p, l) /\ (l = "take" => urls_to_parse # <<>> \/ shutting_down)
               /\ l = "pop" => urls_to_parse # <<>>
    BY <1>3, <1>4 DEF Tests, Full
  <2>3. QED
    BY <1>1, <2>1, <2>2
<1>5. CASE Finishes(p)
  BY <1>1, <1>3, <1>5 DEF Finishes
<1>6. ASSUME NEW l \in {"get_lock", "more_test"}, Step(p, l), pc[p] \in Holding PROVE Full'
  <2>1. \A q \in Parsers : q # p => pc[q] \notin Holding
    BY <1>6 DEF Mutex
  <2>2. \A q \in Parsers : pc'[q] \notin {"take", "pop"}
    BY <1>6, <2>1 DEF Step, Holding
  <2>3. QED
    BY <2>2 DEF Full
<1>7. CASE Pop(p)
  BY <1>6, <1>7, Popping DEF Holding
<1>8. CASE QueueUrls(p)
  BY <1>6, <1>8, QueueSteps DEF QueueUrls, Holding
<1>9. ASSUME NEW n \in 0 .. MaxReply, Checkout(p, n) \/ ConnectionFails(p, n) PROVE Full'
  <2>1. Answers(p)
    BY <1>9, Answering
  <2>2. UNCHANGED urls_to_parse /\ UNCHANGED shutting_down
    BY <2>1 DEF Answers, shared
  <2>3. QED
    BY <1>1, <2>1, <2>2 DEF Answers
<1>10. QED
  BY <1>2, <1>4, <1>5, <1>7, <1>8, <1>9, ThreadDoes

LEMMA GuardsNext ==
  ASSUME Types, Mutex, Asking, Full, [Next]_vars
  PROVE  Mutex' /\ Asking' /\ Full'
<1>1. CASE \E p \in Parsers : Thread(p)
  BY <1>1, MutexThread, AskingThread, FullThread DEF Asking
<1>2. CASE ShutDown \/ Broadcast \/ UNCHANGED vars
  <2>1. MainSteps
    BY <1>2, MainDoes
  <2>2. Mutex'
    BY <2>1 DEF MainSteps, Mutex, Holding
  <2>3. Asking'
    BY <2>1, AsksOn DEF MainSteps, Requesting
  <2>4. Full'
    BY <2>1 DEF MainSteps, Full
  <2>5. QED
    BY <2>2, <2>3, <2>4
<1>3. QED
  BY <1>1, <1>2 DEF Next, Thread

-----------------------------------------------------------------------------
(* Where the URLs are                                                      *)

LEMMA Joined ==
  ASSUME NEW S, NEW s \in Seq(S), NEW t \in Seq(S)
  PROVE  /\ s \o t \in Seq(S) /\ ToSet(s \o t) = ToSet(s) \cup ToSet(t)
         /\ OnlyOnce(s) /\ OnlyOnce(t) /\ ToSet(s) \cap ToSet(t) = {} => OnlyOnce(s \o t)
<1> DEFINE r == s \o t
<1>1. /\ r \in Seq(S) /\ Len(s) \in Nat /\ Len(t) \in Nat
      /\ DOMAIN s = 1 .. Len(s) /\ DOMAIN t = 1 .. Len(t) /\ DOMAIN r = 1 .. Len(s) + Len(t)
      /\ \A k \in 1 .. Len(s) : r[k] = s[k]
      /\ \A k \in 1 .. Len(t) : r[Len(s) + k] = t[k]
  OBVIOUS
<1> HIDE DEF r
<1>2. \A k \in DOMAIN r : \/ k \in DOMAIN s /\ r[k] = s[k]
                          \/ k - Len(s) \in DOMAIN t /\ r[k] = t[k - Len(s)] /\ k > Len(s)
  <2> TAKE k \in DOMAIN r
  <2>1. CASE k <= Len(s)
    BY <1>1, <2>1
  <2>2. CASE k > Len(s)
    <3>1. k \in 1 .. Len(s) + Len(t)
      BY <1>1
    <3>2. k - Len(s) \in 1 .. Len(t) /\ k = Len(s) + (k - Len(s))
      BY <1>1, <2>2, <3>1
    <3>3. QED
      BY <1>1, <2>2, <3>2
  <2>3. QED
    BY <1>1, <2>1, <2>2
<1>3. ToSet(r) = ToSet(s) \cup ToSet(t)
  <2>1. ASSUME NEW k \in DOMAIN r PROVE r[k] \in ToSet(s) \cup ToSet(t)
    BY <1>2 DEF ToSet
  <2>2. ASSUME NEW k \in DOMAIN s PROVE s[k] \in ToSet(r)
    <3>1. k \in DOMAIN r /\ r[k] = s[k]
      BY <1>1
    <3>2. QED
      BY <3>1 DEF ToSet
  <2>3. ASSUME NEW k \in DOMAIN t PROVE t[k] \in ToSet(r)
    <3>1. Len(s) + k \in DOMAIN r /\ r[Len(s) + k] = t[k]
      BY <1>1
    <3>2. QED
      BY <3>1 DEF ToSet
  <2>4. QED
    BY <2>1, <2>2, <2>3 DEF ToSet
<1>4. ASSUME OnlyOnce(s), OnlyOnce(t), ToSet(s) \cap ToSet(t) = {} PROVE OnlyOnce(r)
  <2>1. \A j \in DOMAIN s, k \in DOMAIN t : s[j] # t[k]
    BY <1>4 DEF ToSet
  <2>2. ASSUME NEW m \in DOMAIN r, NEW n \in DOMAIN r, r[m] = r[n] PROVE m = n
    <3>1. m \in Nat /\ n \in Nat
      BY <1>1
    <3>2. CASE m \in DOMAIN s /\ r[m] = s[m] /\ n \in DOMAIN s /\ r[n] = s[n]
      BY <1>4, <2>2, <3>2 DEF OnlyOnce
    <3>3. CASE /\ m - Len(s) \in DOMAIN t /\ r[m] = t[m - Len(s)]
               /\ n - Len(s) \in DOMAIN t /\ r[n] = t[n - Len(s)]
      <4>1. m - Len(s) = n - Len(s)
        BY <1>4, <2>2, <3>3 DEF OnlyOnce
      <4>2. QED
        BY <1>1, <3>1, <4>1
    <3>4. QED
      BY <1>2, <2>1, <2>2, <3>2, <3>3
  <2>3. QED
    BY <2>2 DEF OnlyOnce
<1>5. QED
  BY <1>1, <1>3, <1>4 DEF r

LEMMA HeadTaken ==
  ASSUME NEW S, NEW s \in Seq(S), s # <<>>, OnlyOnce(s)
  PROVE  /\ Head(s) \in S /\ Tail(s) \in Seq(S) /\ OnlyOnce(Tail(s))
         /\ Head(s) \in ToSet(s) /\ ToSet(Tail(s)) = ToSet(s) \ {Head(s)}
<1> DEFINE t == Tail(s)
<1>1. /\ Head(s) \in S /\ t \in Seq(S) /\ Len(s) \in Nat \ {0} /\ Head(s) = s[1]
      /\ Len(t) = Len(s) - 1 /\ \A k \in 1 .. Len(s) - 1 : t[k] = s[k + 1]
  OBVIOUS
<1>2. DOMAIN s = 1 .. Len(s) /\ DOMAIN t = 1 .. Len(s) - 1
  BY <1>1
<1> HIDE DEF t
<1>3. \A k \in DOMAIN t : k + 1 \in DOMAIN s /\ t[k] = s[k + 1] /\ k + 1 # 1
  BY <1>1, <1>2
<1>4. \A k \in DOMAIN s : k = 1 \/ (k - 1 \in DOMAIN t /\ t[k - 1] = s[k])
  BY <1>1, <1>2
<1>5. 1 \in DOMAIN s
  BY <1>1, <1>2
<1>6. \A k \in DOMAIN s : s[k] = Head(s) => k = 1
  BY <1>1, <1>5 DEF OnlyOnce
<1>7. ToSet(t) = ToSet(s) \ {Head(s)}
  <2>1. ASSUME NEW k \in DOMAIN t PROVE t[k] \in ToSet(s) \ {Head(s)}
    BY <1>3, <1>6 DEF ToSet
  <2>2. ASSUME NEW k \in DOMAIN s, s[k] # Head(s) PROVE s[k] \in ToSet(t)
    <3>1. k - 1 \in DOMAIN t /\ t[k - 1] = s[k]
      BY <1>1, <1>4, <2>2
    <3>2. QED
      BY <3>1 DEF ToSet
  <2>3. QED
    BY <2>1, <2>2 DEF ToSet
<1>8. ASSUME NEW m \in DOMAIN t, NEW n \in DOMAIN t, t[m] = t[n] PROVE m = n
  <2>1. m + 1 = n + 1
    BY <1>3, <1>8 DEF OnlyOnce
  <2>2. m \in Int /\ n \in Int
    BY <1>1, <1>2
  <2>3. QED
    BY <2>1, <2>2
<1>9. Head(s) \in ToSet(s)
  BY <1>1, <1>5 DEF ToSet
<1>10. QED
  BY <1>1, <1>7, <1>8, <1>9 DEF t, OnlyOnce

(* An answer of the master has URLs that it has never handed out.          *)
LEMMA NewUrls ==
  ASSUME supplied \in Nat, NEW n \in Nat, supplied + n <= MaxUrls, NEW s,
         s = [k \in 1 .. n |-> supplied + k]
  PROVE  /\ s \in Seq(Urls) /\ OnlyOnce(s)
         /\ ToSet(s) = (supplied + 1) .. (supplied + n)
<1>1. MaxUrls \in Nat
  BY BoundsAssumption
<1>2. DOMAIN s = 1 .. n /\ \A k \in 1 .. n : s[k] = supplied + k /\ s[k] \in Urls
  BY <1>1 DEF Urls
<1>3. s \in Seq(Urls)
  BY <1>2
<1>4. OnlyOnce(s)
  BY <1>2 DEF OnlyOnce
<1>5. ASSUME NEW u PROVE u \in ToSet(s) <=> u \in (supplied + 1) .. (supplied + n)
  <2>1. u \in ToSet(s) => u \in (supplied + 1) .. (supplied + n)
    BY <1>2 DEF ToSet
  <2>2. ASSUME u \in (supplied + 1) .. (supplied + n) PROVE u \in ToSet(s)
    <3>1. u - supplied \in 1 .. n /\ supplied + (u - supplied) = u
      BY <2>2
    <3>2. QED
      BY <1>2, <3>1 DEF ToSet
  <2>3. QED
    BY <2>1, <2>2
<1>6. QED
  BY <1>3, <1>4, <1>5

(* A step that leaves the URLs where they are                              *)
LEMMA KeptOn ==
  ASSUME Types, Kept, UNCHANGED <<urls_to_parse, reply, given>>,
         supplied' \in Nat, supplied <= supplied', supplied' = supplied \/ failures' # 0,
         failures' = 0 => failures = 0,
         \A q \in Parsers : pc[q] \in {"queue_lock", "queue"} => pc'[q] \in {"queue_lock", "queue"}
  PROVE  Kept'
<1>1. Buffered' = Buffered /\ Arrived' = Arrived /\ Given' = Given
  BY DEF Buffered, Arrived, Given
<1>2. 1 .. supplied \subseteq 1 .. supplied'
  BY DEF Types
<1>3. Placed'
  BY <1>1, <1>2 DEF Kept, Placed
<1>4. Once'
  BY DEF Kept, Once
<1>5. QED
  BY <1>3, <1>4 DEF Kept

(* The one thread that asks is the only one with URLs on the way.          *)
LEMMA OneReply ==
  ASSUME Kept, OneRequester, NEW p \in Parsers, pc[p] \in Requesting
  PROVE  \A q \in Parsers : q # p => reply[q] = <<>>
BY DEF Kept, Once, OneRequester, Requesting

LEMMA EmptyHasNone == ToSet(<<>>) = {} /\ OnlyOnce(<<>>)
BY DEF ToSet, OnlyOnce

LEMMA KeptCheckout ==
  ASSUME Types, Asking, Kept, NEW p \in Parsers, NEW n \in 0 .. MaxReply, Checkout(p, n)
  PROVE  Kept' /\ reply' \in [Parsers -> Seq(Urls)] /\ supplied' \in 0 .. MaxUrls
<1>1. PICK s : s = [k \in 1 .. n |-> supplied + k]
  OBVIOUS
<1>2. /\ supplied \in Nat /\ n \in Nat /\ supplied + n <= MaxUrls /\ MaxUrls \in Nat
  BY BoundsAssumption DEF Checkout, Types
<1>3. /\ pc[p] = "checkout" /\ supplied' = supplied + n /\ reply' = [reply EXCEPT ![p] = s]
      /\ UNCHANGED <<urls_to_parse, given, failures>>
  BY <1>1 DEF Checkout, shared
<1>4. /\ s \in Seq(Urls) /\ OnlyOnce(s) /\ ToSet(s) = (supplied + 1) .. (supplied + n)
  BY <1>1, <1>2, NewUrls
<1>5. reply \in [Parsers -> Seq(Urls)]
  BY DEF Types
<1>6. \A q \in Parsers : reply[q] = <<>>
  BY <1>3, OneReply DEF Kept, Once, Asking, Requesting
<1>7. reply'[p] = s /\ \A q \in Parsers : q # p => reply'[q] = <<>>
  BY <1>3, <1>5, <1>6
<1>8. Arrived = {} /\ Arrived' = ToSet(s)
  BY <1>6, <1>7, EmptyHasNone DEF Arrived
<1>9. Buffered' = Buffered /\ Given' = Given
  BY <1>3 DEF Buffered, Given
<1>10. /\ ToSet(s) \cap 1 .. supplied = {} /\ 1 .. supplied' = 1 .. supplied \cup ToSet(s)
  BY <1>2, <1>3, <1>4
<1>11. Placed'
  BY <1>3, <1>8, <1>9, <1>10 DEF Kept, Placed
<1>12. Once'
  <2>1. pc'[p] = "queue_lock"
    BY DEF Checkout, Goto, Types
  <2>2. QED
    BY <1>3, <1>7, <2>1 DEF Kept, Once
<1>13. \A q \in Parsers : OnlyOnce(reply'[q])
  BY <1>4, <1>7, EmptyHasNone
<1>14. QED
  BY <1>2, <1>3, <1>4, <1>5, <1>11, <1>12, <1>13 DEF Kept

LEMMA KeptQueue ==
  ASSUME Types, Asking, Kept, NEW p \in Parsers, QueueUrls(p)
  PROVE  Kept' /\ reply' \in [Parsers -> Seq(Urls)] /\ urls_to_parse' \in Seq(Urls)
<1>1. PICK s : s = reply[p]
  OBVIOUS
<1>2. /\ pc[p] = "queue" /\ urls_to_parse' = urls_to_parse \o s
      /\ reply' = [reply EXCEPT ![p] = <<>>] /\ UNCHANGED <<supplied, given, failures>>
  BY <1>1 DEF QueueUrls
<1>3. reply \in [Parsers -> Seq(Urls)] /\ urls_to_parse \in Seq(Urls) /\ s \in Seq(Urls)
  BY <1>1 DEF Types
<1>4. \A q \in Parsers : q # p => reply[q] = <<>>
  BY <1>2, OneReply DEF Asking, Requesting
<1>5. \A q \in Parsers : reply'[q] = <<>>
  BY <1>2, <1>3, <1>4
<1>6. Arrived = ToSet(s) /\ Arrived' = {}
  BY <1>1, <1>4, <1>5, EmptyHasNone DEF Arrived
<1>7. OnlyOnce(urls_to_parse) /\ OnlyOnce(s) /\ ToSet(urls_to_parse) \cap ToSet(s) = {}
  BY <1>1, <1>6 DEF Kept, Once, Placed, Buffered
<1>8. /\ urls_to_parse' \in Seq(Urls) /\ OnlyOnce(urls_to_parse')
      /\ Buffered' = Buffered \cup ToSet(s)
  BY <1>2, <1>3, <1>7, Joined DEF Buffered
<1>9. Given' = Given
  BY <1>2 DEF Given
<1>10. Placed'
  BY <1>2, <1>6, <1>8, <1>9 DEF Kept, Placed
<1>11. Once'
  BY <1>2, <1>5, <1>8 DEF Kept, Once
<1>12. \A q \in Parsers : OnlyOnce(reply'[q])
  BY <1>5, EmptyHasNone
<1>13. QED
  BY <1>2, <1>3, <1>8, <1>10, <1>11, <1>12 DEF Kept

LEMMA KeptPop ==
  ASSUME Types, Full, Kept, NEW p \in Parsers, Pop(p)
  PROVE  Kept' /\ urls_to_parse' \in Seq(Urls) /\ given' \in [Urls -> Nat]
<1>1. PICK u : u = Head(urls_to_parse)
  OBVIOUS
<1>2. /\ pc[p] = "pop" /\ given' = [given EXCEPT ![u] = given[u] + 1]
      /\ urls_to_parse' = Tail(urls_to_parse) /\ UNCHANGED <<reply, supplied, failures>>
  BY <1>1 DEF Pop
<1>3. urls_to_parse \in Seq(Urls) /\ urls_to_parse # <<>> /\ given \in [Urls -> Nat]
  BY <1>2 DEF Types, Full
<1>4. /\ u \in Urls /\ urls_to_parse' \in Seq(Urls) /\ OnlyOnce(urls_to_parse')
      /\ u \in Buffered /\ Buffered' = Buffered \ {u}
  BY <1>1, <1>2, <1>3, HeadTaken DEF Kept, Once, Buffered
<1>5. given[u] = 0
  BY <1>4 DEF Kept, Placed, Given
<1>6. /\ given' \in [Urls -> Nat] /\ given'[u] = 1
      /\ \A v \in Urls : v # u => given'[v] = given[v]
  BY <1>2, <1>3, <1>4, <1>5
<1>7. Given' = Given \cup {u}
  BY <1>4, <1>6 DEF Given
<1>8. Arrived' = Arrived
  BY <1>2 DEF Arrived
<1>9. Placed'
  BY <1>2, <1>4, <1>7, <1>8 DEF Kept, Placed
<1>10. Once'
  <2>1. \A v \in Urls : given'[v] <= 1
    BY <1>4, <1>6 DEF Kept, Once
  <2>2. \A q \in Parsers : reply'[q] # <<>> => pc'[q] \in {"queue_lock", "queue"}
    BY <1>2, Popping DEF Step, Kept, Once
  <2>3. QED
    BY <1>4, <2>1, <2>2 DEF Once
<1>11. QED
  BY <1>2, <1>4, <1>6, <1>9, <1>10 DEF Kept

LEMMA KeptThread ==
  ASSUME Types, Asking, Full, Kept, NEW p \in Parsers, Thread(p)
  PROVE  Kept'
<1>1. supplied \in Nat
  BY BoundsAssumption DEF Types
<1>2. ASSUME NEW l, Step(p, l), UNCHANGED <<urls_to_parse, reply, supplied, given, failures>>,
             pc[p] \in {"queue_lock", "queue"} => l \in {"queue_lock", "queue"}
      PROVE  Kept'
  <2>1. \A q \in Parsers : pc[q] \in {"queue_lock", "queue"} => pc'[q] \in {"queue_lock", "queue"}
    BY <1>2 DEF Step
  <2>2. QED
    BY <1>1, <1>2, <2>1, KeptOn
<1>3. CASE Begins(p) \/ Locks(p) \/ Unlocks(p) \/ Finishes(p)
  BY <1>2, <1>3 DEF Begins, Locks, Unlocks, Finishes
<1>4. CASE Tests(p)
  <2>1. UNCHANGED urls_to_parse /\ UNCHANGED <<reply, supplied, given, failures>>
    BY <1>4 DEF Tests, shared
  <2>2. \E l : /\ Step(p, l)
               /\ pc[p] \in {"queue_lock", "queue"} => l \in {"queue_lock", "queue"}
    BY <1>4 DEF Tests
  <2>3. QED
    BY <1>2, <2>1, <2>2
<1>5. CASE Pop(p) \/ QueueUrls(p)
  BY <1>5, KeptPop, KeptQueue
<1>6. ASSUME NEW n \in 0 .. MaxReply, ConnectionFails(p, n)
      PROVE  Kept'
  <2>1. /\ UNCHANGED <<urls_to_parse, reply, given>> /\ supplied' = supplied + n /\ n \in Nat
        /\ failures' = failures + 1 /\ pc[p] \in {"connect", "checkout"}
    BY <1>6, BoundsAssumption DEF ConnectionFails, shared
  <2>2. Step(p, "more_done")
    <3>1. Goto(p, "more_done") /\ "more_done" \in Locs
      BY <1>6 DEF ConnectionFails, Locs, Requesting
    <3>2. QED
      BY <3>1, GotoSteps
  <2>3. failures' # 0 /\ supplied' \in Nat /\ supplied <= supplied'
    BY <1>1, <2>1 DEF Types
  <2>4. \A q \in Parsers : pc[q] \in {"queue_lock", "queue"} => pc'[q] \in {"queue_lock", "queue"}
    BY <2>1, <2>2 DEF Step
  <2>5. QED
    BY <2>1, <2>3, <2>4, KeptOn
<1>7. ASSUME NEW n \in 0 .. MaxReply, Checkout(p, n)
      PROVE  Kept'
  BY <1>7, KeptCheckout
<1>8. QED
  BY <1>3, <1>4, <1>5, <1>6, <1>7, ThreadDoes

LEMMA TypesThread ==
  ASSUME Types, Asking, Full, Kept, NEW p \in Parsers, Thread(p)
  PROVE  Types'
<1>1. UNCHANGED mPc
  BY DEF Thread, Parser, GetLock, GetFirst, GetRelock, GetLoop, GetLoopRequest, GetWait, GetWoken,
     GetEmpty, GetUrl, Pop, MoreBegin, Connect, MoreLock, MoreTest, Checkout, QueueLock, QueueUrls,
     MoreDone, SpuriousWakeup, ConnectionFails
<1>2. ASSUME NEW l, Step(p, l) PROVE pc' \in [Parsers -> Locs]
  BY <1>2 DEF Step
<1>3. CASE Begins(p)
  <2>1. back' \in [Parsers -> {"loop", "lock_loop", "lock_wait"}]
    BY <1>3 DEF Begins, Types
  <2>2. QED
    BY <1>1, <1>2, <1>3, <2>1 DEF Begins, Types
<1>4. CASE Locks(p) \/ Unlocks(p) \/ Finishes(p)
  <2>1. pc' \in [Parsers -> Locs]
    BY <1>2, <1>4 DEF Locks, Unlocks, Finishes
  <2>2. /\ UNCHANGED <<urls_to_parse, shutting_down, back, reply, supplied, given, failures>>
        /\ to_parse_m' \in Parsers \union {NoParser} /\ requesting' \in BOOLEAN
    BY <1>4 DEF Locks, Unlocks, Finishes, Types
  <2>3. QED
    BY <1>1, <2>1, <2>2 DEF Types
<1>5. CASE Tests(p)
  <2>1. pc' \in [Parsers -> Locs]
    BY <1>2, <1>5 DEF Tests
  <2>2. UNCHANGED <<urls_to_parse, to_parse_m, requesting, shutting_down>>
    BY <1>5 DEF Tests, shared
  <2>3. UNCHANGED <<back, reply, supplied, given, failures>>
    BY <1>5 DEF Tests
  <2>4. QED
    BY <1>1, <2>1, <2>2, <2>3 DEF Types
<1>6. CASE Pop(p)
  <2>1. urls_to_parse' \in Seq(Urls) /\ given' \in [Urls -> Nat]
    BY <1>6, KeptPop
  <2>2. pc' \in [Parsers -> Locs] /\ to_parse_m' \in Parsers \union {NoParser}
    BY <1>2, <1>6, Popping DEF Pop
  <2>3. UNCHANGED <<requesting, shutting_down, back, reply, supplied, failures>>
    BY <1>6 DEF Pop
  <2>4. QED
    BY <1>1, <2>1, <2>2, <2>3 DEF Types
<1>7. CASE QueueUrls(p)
  <2>1. urls_to_parse' \in Seq(Urls) /\ reply' \in [Parsers -> Seq(Urls)]
    BY <1>7, KeptQueue
  <2>2. pc' \in [Parsers -> Locs]
    BY <1>2, <1>7, QueueSteps
  <2>3. UNCHANGED <<to_parse_m, requesting, shutting_down, back, supplied, given, failures>>
    BY <1>7 DEF QueueUrls
  <2>4. QED
    BY <1>1, <2>1, <2>2, <2>3 DEF Types
<1>8. ASSUME NEW n \in 0 .. MaxReply, Checkout(p, n) \/ ConnectionFails(p, n)
      PROVE  Types'
  <2>1. /\ pc' \in [Parsers -> Locs] /\ UNCHANGED <<back, given>>
        /\ UNCHANGED <<urls_to_parse, to_parse_m, requesting, shutting_down>>
    BY <1>2, <1>8, Answering DEF Answers, shared
  <2>2. reply' \in [Parsers -> Seq(Urls)] /\ supplied' \in 0 .. MaxUrls /\ failures' \in Nat
    <3>1. CASE Checkout(p, n)
      BY <3>1, KeptCheckout DEF Checkout, Types
    <3>2. CASE ConnectionFails(p, n)
      <4>1. /\ UNCHANGED reply /\ supplied' = supplied + n /\ supplied + n <= MaxUrls
            /\ failures' = failures + 1
        BY <3>2 DEF ConnectionFails
      <4>2. QED
        BY <4>1, BoundsAssumption DEF Types
    <3>3. QED
      BY <1>8, <3>1, <3>2
  <2>3. QED
    BY <1>1, <2>1, <2>2 DEF Types
<1>9. QED
  BY <1>3, <1>4, <1>5, <1>6, <1>7, <1>8, ThreadDoes

LEMMA UrlsInit == Init => UrlsInv
<1> SUFFICES ASSUME Init PROVE UrlsInv
  OBVIOUS
<1>1. /\ urls_to_parse = <<>> /\ to_parse_m = NoParser /\ requesting = FALSE
      /\ shutting_down = FALSE /\ mPc = "running" /\ supplied = 0 /\ failures = 0
      /\ pc = [p \in Parsers |-> "get_lock"] /\ back = [p \in Parsers |-> "loop"]
      /\ reply = [p \in Parsers |-> <<>>] /\ given = [u \in Urls |-> 0]
  BY DEF Init, Urls
<1>2. /\ pc \in [Parsers -> Locs] /\ back \in [Parsers -> {"loop", "lock_loop", "lock_wait"}]
      /\ reply \in [Parsers -> Seq(Urls)] /\ given \in [Urls -> Nat]
  <2>1. <<>> \in Seq(Urls) /\ "get_lock" \in Locs
    BY DEF Locs
  <2>2. QED
    BY <1>1, <2>1
<1>3. supplied \in 0 .. MaxUrls
  BY <1>1, BoundsAssumption
<1>4. Types
  <2>1. urls_to_parse \in Seq(Urls) /\ failures \in Nat
    BY <1>1
  <2>2. /\ to_parse_m \in Parsers \union {NoParser} /\ requesting \in BOOLEAN
        /\ shutting_down \in BOOLEAN /\ mPc \in {"running", "broadcast", "done"}
    BY <1>1
  <2>3. QED
    BY <1>2, <1>3, <2>1, <2>2 DEF Types
<1>5. Mutex /\ Asking /\ Full
  BY <1>1, ParsersAssumption DEF Mutex, Asking, OneRequester, Returns, Full, Holding, Requesting
<1>6. Buffered = {} /\ Arrived = {} /\ Given = {} /\ 1 .. supplied = {}
  BY <1>1, EmptyHasNone DEF Buffered, Arrived, Given
<1>7. Once /\ \A p \in Parsers : OnlyOnce(reply[p])
  BY <1>1, EmptyHasNone DEF Once
<1>8. Placed
  BY <1>6 DEF Placed
<1>9. QED
  BY <1>4, <1>5, <1>7, <1>8 DEF UrlsInv, Kept

LEMMA UrlsNext ==
  ASSUME UrlsInv, [Next]_vars
  PROVE  UrlsInv'
<1>1. Types /\ Mutex /\ Asking /\ Full /\ Kept
  BY DEF UrlsInv
<1>2. Mutex' /\ Asking' /\ Full'
  BY <1>1, GuardsNext
<1>3. Types' /\ Kept'
  <2>1. CASE \E p \in Parsers : Thread(p)
    BY <1>1, <2>1, TypesThread, KeptThread
  <2>2. CASE ShutDown \/ Broadcast \/ UNCHANGED vars
    <3>1. MainSteps
      BY <1>1, <2>2, MainDoes
    <3>2. pc' \in [Parsers -> Locs]
      BY <1>1, <2>2, BroadcastWakes DEF Types, ShutDown, vars, local
    <3>3. shutting_down' \in BOOLEAN /\ mPc' \in {"running", "broadcast", "done"}
      BY <1>1, <2>2 DEF Types, ShutDown, Broadcast, vars, shared
    <3>4. Types'
      BY <1>1, <3>1, <3>2, <3>3 DEF Types, MainSteps
    <3>5. supplied \in Nat
      BY <1>1, BoundsAssumption DEF Types
    <3>6. Kept'
      BY <1>1, <3>1, <3>5, KeptOn DEF MainSteps
    <3>7. QED
      BY <3>4, <3>6
  <2>3. QED
    BY <2>1, <2>2 DEF Next, Thread
<1>4. QED
  BY <1>2, <1>3 DEF UrlsInv

LEMMA UrlsInvariance == MCSpec => []UrlsInv
<1>1. MCInit => UrlsInv
  BY UrlsInit DEF MCInit
<1>2. UrlsInv /\ [MCNext]_mcVars => UrlsInv'
  <2>1. [MCNext]_mcVars => [Next]_vars
    BY DEF MCNext, mcVars
  <2>2. QED
    BY <2>1, UrlsNext
<1>3. QED
  BY <1>1, <1>2, PTL DEF MCSpec

(* One thread at a time asks the master, and front() is never called on an *)
(* empty queue, whatever wakes the threads and whenever the worker shuts   *)
(* down.                                                                   *)
THEOREM OneAsks == MCSpec => []RequestsGuarded
<1>1. UrlsInv => RequestsGuarded
  BY DEF UrlsInv, Asking, Full, RequestsGuarded, NeverPopsEmpty
<1>2. QED
  BY <1>1, UrlsInvariance, PTL

(* A set with at most one element                                          *)
LEMMA CountsOne ==
  ASSUME NEW S, \A x, y \in S : x = y
  PROVE  Cardinality(S) = IF S = {} THEN 0 ELSE 1
<1>1. CASE S = {}
  BY <1>1, FS_EmptySet
<1>2. CASE S # {}
  <2>1. PICK x : S = {x}
    BY <1>2
  <2>2. QED
    BY <1>2, <2>1, FS_Singleton
<1>3. QED
  BY <1>1, <1>2

LEMMA UrlsAreKept ==
  ASSUME UrlsInv
  PROVE  UrlsKept
<1>1. Types /\ OneRequester /\ Kept /\ Once /\ Placed
  BY DEF UrlsInv, Asking, Kept
<1> SUFFICES ASSUME NEW u \in 1 .. supplied
             PROVE  Places(u) <= 1 /\ (failures = 0 => Places(u) = 1)
  BY DEF UrlsKept
<1> DEFINE Q == {k \in DOMAIN urls_to_parse : urls_to_parse[k] = u}
           R == {p \in Parsers : u \in ToSet(reply[p])}
<1>2. u \in Urls
  BY <1>1, BoundsAssumption DEF Types, Urls
<1>3. Cardinality(Q) = IF u \in Buffered THEN 1 ELSE 0
  <2>1. \A m, n \in Q : m = n
    BY <1>1 DEF Once, OnlyOnce
  <2>2. Q # {} <=> u \in Buffered
    BY DEF Buffered, ToSet
  <2> HIDE DEF Q
  <2>3. QED
    BY <2>1, <2>2, CountsOne
<1>4. Cardinality(R) = IF u \in Arrived THEN 1 ELSE 0
  <2>1. \A p \in R : pc[p] \in Requesting
    BY <1>1, EmptyHasNone DEF Once, Requesting
  <2>2. \A p, q \in R : p = q
    BY <1>1, <2>1 DEF OneRequester
  <2>3. R # {} <=> u \in Arrived
    BY DEF Arrived
  <2> HIDE DEF R
  <2>4. QED
    BY <2>2, <2>3, CountsOne
<1>5. given[u] = IF u \in Given THEN 1 ELSE 0
  <2>1. given[u] \in Nat /\ given[u] <= 1
    BY <1>1, <1>2 DEF Types, Once
  <2>2. QED
    BY <1>2, <2>1 DEF Given
<1>6. Places(u) = given[u] + Cardinality(Q) + Cardinality(R)
  BY DEF Places, Occurrences
<1> HIDE DEF Q, R
<1>7. /\ u \in Buffered => u \notin Arrived /\ u \notin Given
      /\ u \in Arrived => u \notin Given
      /\ failures = 0 => u \in Buffered \/ u \in Arrived \/ u \in Given
  BY <1>1 DEF Placed
<1>8. QED
  BY <1>3, <1>4, <1>5, <1>6, <1>7

(* Where the pages are: each parser's message (T), the messages (M) and    *)
(* the buffer (B) are apart, and together they hold the pages up to n.     *)
Apart(T, M, B, n) ==
  /\ B \cup (UNION {T[p] : p \in Parsers}) \cup (UNION {M[m] : m \in DOMAIN M}) = 1 .. n
  /\ \A p, q \in Parsers : p # q => T[p] \cap T[q] = {}
  /\ \A m, k \in DOMAIN M : m # k => M[m] \cap M[k] = {}
  /\ \A p \in Parsers : B \cap T[p] = {} /\ \A m \in DOMAIN M : T[p] \cap M[m] = {}
  /\ \A m \in DOMAIN M : B \cap M[m] = {}

Message == [from : Parsers, size : Nat, pages : Seq(Nat), state : {"open", "broken", "added"}]

PagesTypes ==
  /\ parsed \in Nat /\ urls_parsed \in Seq(Nat)
  /\ temp \in [Parsers -> Seq(Nat)]
  /\ sPc \in [Parsers -> {"parse", "connect", "send"}]
  /\ messages \in Seq(Message)

(* m is the last message that p began.                                     *)
LastOf(p, m) ==
  /\ m \in DOMAIN messages /\ messages[m].from = p
  /\ \A n \in DOMAIN messages : messages[n].from = p => n <= m

(* What a message lacks is what its sender still has.                      *)
Sent ==
  /\ Len(urls_parsed) < PAGES_PER_SEND
  /\ \A p \in Parsers :
       /\ sPc[p] = "parse" => temp[p] = <<>>
       /\ sPc[p] = "send" =>
            \E m \in DOMAIN messages :
              LastOf(p, m) /\ Len(messages[m].pages) + Len(temp[p]) = messages[m].size
  /\ \A m \in DOMAIN messages :
       messages[m].state = "added" => Len(messages[m].pages) = messages[m].size

Lacked == [p \in Parsers |-> ToSet(temp[p])]
Carried == [m \in DOMAIN messages |-> ToSet(messages[m].pages)]

Parted ==
  /\ OnlyOnce(urls_parsed) /\ \A p \in Parsers : OnlyOnce(temp[p])
  /\ Apart(Lacked, Carried, ToSet(urls_parsed), parsed)

PagesInv == PagesTypes /\ Sent /\ Parted

-----------------------------------------------------------------------------
(* What moves between the places of Apart                                  *)

LEMMA PageAdded ==
  ASSUME NEW T, NEW M, NEW B, NEW n \in Nat, Apart(T, M, B, n)
  PROVE  Apart(T, M, B \cup {n + 1}, n + 1)
<1>1. n + 1 \notin 1 .. n /\ 1 .. (n + 1) = 1 .. n \cup {n + 1}
  OBVIOUS
<1>2. /\ \A p \in Parsers : n + 1 \notin T[p]
      /\ \A m \in DOMAIN M : n + 1 \notin M[m]
  BY <1>1 DEF Apart
<1>3. QED
  BY <1>1, <1>2 DEF Apart

LEMMA BufferTaken ==
  ASSUME NEW T, NEW M, NEW B, NEW n, Apart(T, M, B, n),
         NEW p \in Parsers, T[p] = {}, NEW U, U[p] = B, \A q \in Parsers : q # p => U[q] = T[q]
  PROVE  Apart(U, M, {}, n)
<1>1. (UNION {U[q] : q \in Parsers}) = B \cup (UNION {T[q] : q \in Parsers})
  OBVIOUS
<1>2. {} \cup (UNION {U[q] : q \in Parsers}) \cup (UNION {M[m] : m \in DOMAIN M}) = 1 .. n
  BY <1>1 DEF Apart
<1>3. \A q, r \in Parsers : q # r => U[q] \cap U[r] = {}
  BY DEF Apart
<1>4. \A q \in Parsers, m \in DOMAIN M : U[q] \cap M[m] = {}
  BY DEF Apart
<1>5. QED
  BY <1>2, <1>3, <1>4 DEF Apart

LEMMA MessageBegun ==
  ASSUME NEW T, NEW M, NEW B, NEW n, Apart(T, M, B, n), NEW N, NEW k, k \notin DOMAIN M,
         DOMAIN N = DOMAIN M \cup {k}, N[k] = {}, \A m \in DOMAIN M : N[m] = M[m]
  PROVE  Apart(T, N, B, n)
<1>1. (UNION {N[m] : m \in DOMAIN N}) = (UNION {M[m] : m \in DOMAIN M})
  OBVIOUS
<1>2. \A m, j \in DOMAIN N : m # j => N[m] \cap N[j] = {}
  BY DEF Apart
<1>3. \A m \in DOMAIN N : B \cap N[m] = {} /\ \A p \in Parsers : T[p] \cap N[m] = {}
  BY DEF Apart
<1>4. QED
  BY <1>1, <1>2, <1>3 DEF Apart

LEMMA PageMoved ==
  ASSUME NEW T, NEW M, NEW B, NEW n, Apart(T, M, B, n),
         NEW p \in Parsers, NEW u \in T[p], NEW k \in DOMAIN M, NEW U, NEW N,
         U[p] = T[p] \ {u}, \A q \in Parsers : q # p => U[q] = T[q],
         DOMAIN N = DOMAIN M, N[k] = M[k] \cup {u}, \A m \in DOMAIN M : m # k => N[m] = M[m]
  PROVE  Apart(U, N, B, n)
<1>1. /\ \A q \in Parsers : q # p => u \notin T[q]
      /\ \A m \in DOMAIN M : u \notin M[m]
      /\ u \notin B
  BY DEF Apart
<1>2. (UNION {U[q] : q \in Parsers}) \cup (UNION {N[m] : m \in DOMAIN N})
        = (UNION {T[q] : q \in Parsers}) \cup (UNION {M[m] : m \in DOMAIN M})
  <2>1. ASSUME NEW v PROVE (\E q \in Parsers : v \in U[q]) \/ (\E m \in DOMAIN N : v \in N[m])
                       <=> (\E q \in Parsers : v \in T[q]) \/ (\E m \in DOMAIN M : v \in M[m])
    <3>1. CASE v = u
      BY <3>1
    <3>2. CASE v # u
      <4>1. \A q \in Parsers : v \in U[q] <=> v \in T[q]
        BY <3>2
      <4>2. \A m \in DOMAIN M : v \in N[m] <=> v \in M[m]
        BY <3>2
      <4>3. QED
        BY <4>1, <4>2
    <3>3. QED
      BY <3>1, <3>2
  <2>2. QED
    BY <2>1
<1>3. B \cup (UNION {U[q] : q \in Parsers}) \cup (UNION {N[m] : m \in DOMAIN N}) = 1 .. n
  BY <1>2 DEF Apart
<1>4. \A q, r \in Parsers : q # r => U[q] \cap U[r] = {}
  BY DEF Apart
<1>5. \A m, j \in DOMAIN N : m # j => N[m] \cap N[j] = {}
  BY <1>1 DEF Apart
<1>6. \A q \in Parsers, m \in DOMAIN N : U[q] \cap N[m] = {}
  BY <1>1 DEF Apart
<1>7. /\ \A q \in Parsers : B \cap U[q] = {}
      /\ \A m \in DOMAIN N : B \cap N[m] = {}
  BY <1>1 DEF Apart
<1>8. QED
  BY <1>3, <1>4, <1>5, <1>6, <1>7 DEF Apart

(* Only the places count, not how they are written.                        *)
LEMMA ApartSame ==
  ASSUME NEW T, NEW M, NEW B, NEW n, Apart(T, M, B, n), NEW U, NEW N,
         \A p \in Parsers : U[p] = T[p], DOMAIN N = DOMAIN M, \A m \in DOMAIN M : N[m] = M[m]
  PROVE  Apart(U, N, B, n)
<1>1. /\ (UNION {U[q] : q \in Parsers}) = (UNION {T[q] : q \in Parsers})
      /\ (UNION {N[m] : m \in DOMAIN N}) = (UNION {M[m] : m \in DOMAIN M})
  OBVIOUS
<1>2. QED
  BY <1>1 DEF Apart

LEMMA Appended ==
  ASSUME NEW S, NEW s \in Seq(S), NEW x \in S
  PROVE  /\ Append(s, x) \in Seq(S) /\ Len(Append(s, x)) = Len(s) + 1
         /\ ToSet(Append(s, x)) = ToSet(s) \cup {x}
         /\ OnlyOnce(s) /\ x \notin ToSet(s) => OnlyOnce(Append(s, x))
<1> DEFINE t == <<x>>
<1>1. Append(s, x) = s \o t /\ t \in Seq(S) /\ Len(Append(s, x)) = Len(s) + 1
  OBVIOUS
<1>2. ToSet(t) = {x} /\ OnlyOnce(t)
  BY DEF ToSet, OnlyOnce
<1> HIDE DEF t
<1>3. /\ s \o t \in Seq(S) /\ ToSet(s \o t) = ToSet(s) \cup ToSet(t)
      /\ OnlyOnce(s) /\ OnlyOnce(t) /\ ToSet(s) \cap ToSet(t) = {} => OnlyOnce(s \o t)
  BY <1>1, Joined
<1>4. QED
  BY <1>1, <1>2, <1>3

LEMMA LastTaken ==
  ASSUME NEW S, NEW s \in Seq(S), s # <<>>, OnlyOnce(s)
  PROVE  /\ Last(s) \in S /\ Front(s) \in Seq(S) /\ OnlyOnce(Front(s))
         /\ Len(Front(s)) + 1 = Len(s)
         /\ Last(s) \in ToSet(s) /\ ToSet(Front(s)) = ToSet(s) \ {Last(s)}
<1> DEFINE t == Front(s)
           l == Len(s)
<1>1. /\ l \in Nat \ {0} /\ Last(s) = s[l] /\ t \in Seq(S) /\ Len(t) = l - 1
      /\ \A k \in 1 .. l - 1 : t[k] = s[k]
  <2>1. l \in Nat \ {0} /\ l - 1 \in 0 .. l /\ 1 \in 1 .. l + 1
    OBVIOUS
  <2>2. t = SubSeq(s, 1, l - 1) /\ Last(s) = s[l]
    BY DEF Front, Last
  <2> HIDE DEF t, l
  <2>3. /\ t \in Seq(S) /\ Len(t) = IF 1 <= l - 1 THEN l - 1 - 1 + 1 ELSE 0
        /\ \A k \in 1 .. l - 1 - 1 + 1 : t[k] = s[1 + k - 1]
    BY <2>1, <2>2, SubSeqProperties DEF l
  <2>4. Len(t) = l - 1
    BY <2>1, <2>3
  <2>5. \A k \in 1 .. l - 1 : t[k] = s[k]
    BY <2>1, <2>3
  <2>6. QED
    BY <2>1, <2>2, <2>3, <2>4, <2>5
<1>2. DOMAIN s = 1 .. l /\ DOMAIN t = 1 .. l - 1
  BY <1>1
<1> HIDE DEF t, l
<1>3. DOMAIN s = DOMAIN t \cup {l} /\ l \notin DOMAIN t /\ \A k \in DOMAIN t : t[k] = s[k]
  BY <1>1, <1>2
<1>4. Last(s) \in S /\ Last(s) \in ToSet(s)
  BY <1>1, <1>3 DEF ToSet
<1>5. ToSet(t) = ToSet(s) \ {Last(s)}
  BY <1>1, <1>3 DEF ToSet, OnlyOnce
<1>6. OnlyOnce(t)
  BY <1>3 DEF OnlyOnce
<1>7. QED
  BY <1>1, <1>4, <1>5, <1>6 DEF t, l

-----------------------------------------------------------------------------
(* The steps of the pages                                                  *)

LEMMA MessageChanged ==
  ASSUME NEW ms \in Seq(Message), NEW m \in DOMAIN ms, NEW r \in Message, NEW ns,
         ns = [ms EXCEPT ![m] = r]
  PROVE  /\ ns \in Seq(Message) /\ DOMAIN ns = DOMAIN ms /\ ns[m] = r
         /\ \A k \in DOMAIN ms : k # m => ns[k] = ms[k]
<1> HIDE DEF Message
<1>1. ns \in Seq(Message) /\ DOMAIN ns = DOMAIN ms
  OBVIOUS
<1>2. ns[m] = r /\ \A k \in DOMAIN ms : k # m => ns[k] = ms[k]
  OBVIOUS
<1>3. QED
  BY <1>1, <1>2

(* A message in the making belongs to who is in the loop of sends.         *)
LEMMA CurrentIs ==
  ASSUME PagesTypes, Sent, NEW p \in Parsers, sPc[p] = "send", NEW m, m = Pages!Current(p)
  PROVE  LastOf(p, m) /\ Len(messages[m].pages) + Len(temp[p]) = messages[m].size
<1>1. PICK n \in DOMAIN messages :
        LastOf(p, n) /\ Len(messages[n].pages) + Len(temp[p]) = messages[n].size
  BY DEF Sent
<1>2. DOMAIN messages \subseteq Nat
  BY DEF PagesTypes
<1>3. LastOf(p, m)
  BY <1>1 DEF Pages!Current, LastOf
<1>4. m = n
  BY <1>1, <1>2, <1>3 DEF LastOf
<1>5. QED
  BY <1>1, <1>3, <1>4

(* A step that moves no page, and after which no new message is added that *)
(* is not whole                                                            *)
LEMMA SentOn ==
  ASSUME Sent, Len(urls_parsed') < PAGES_PER_SEND, UNCHANGED temp,
         DOMAIN messages' = DOMAIN messages,
         \A k \in DOMAIN messages :
           /\ messages'[k].from = messages[k].from /\ messages'[k].size = messages[k].size
           /\ messages'[k].pages = messages[k].pages
           /\ messages'[k].state = "added" =>
                messages[k].state = "added" \/ Len(messages[k].pages) = messages[k].size,
         \A q \in Parsers : \/ sPc'[q] = sPc[q]
                            \/ sPc'[q] = "parse" /\ temp[q] = <<>>
  PROVE  Sent'
<1>1. \A p \in Parsers, k \in DOMAIN messages : LastOf(p, k)' <=> LastOf(p, k)
  BY DEF LastOf
<1>2. \A p \in Parsers : sPc'[p] = "parse" => temp'[p] = <<>>
  BY DEF Sent
<1>3. ASSUME NEW p \in Parsers, sPc'[p] = "send"
      PROVE  \E m \in DOMAIN messages' :
               LastOf(p, m)' /\ Len(messages'[m].pages) + Len(temp'[p]) = messages'[m].size
  <2>1. PICK m \in DOMAIN messages :
          LastOf(p, m) /\ Len(messages[m].pages) + Len(temp[p]) = messages[m].size
    BY <1>3 DEF Sent
  <2>2. /\ LastOf(p, m)' /\ messages'[m].pages = messages[m].pages
        /\ messages'[m].size = messages[m].size /\ temp'[p] = temp[p]
    BY <1>1, <2>1
  <2>3. QED
    BY <2>1, <2>2
<1>4. \A m \in DOMAIN messages' :
        messages'[m].state = "added" => Len(messages'[m].pages) = messages'[m].size
  <2>1. \A m \in DOMAIN messages :
          messages[m].state = "added" => Len(messages[m].pages) = messages[m].size
    BY DEF Sent
  <2>2. QED
    BY <2>1
<1>5. QED
  BY <1>2, <1>3, <1>4 DEF Sent

(* A step that moves no page                                               *)
LEMMA PagesOn ==
  ASSUME PagesInv, UNCHANGED <<parsed, urls_parsed, temp, messages>>,
         sPc' \in [Parsers -> {"parse", "connect", "send"}],
         \A q \in Parsers : \/ sPc'[q] = sPc[q]
                            \/ sPc'[q] = "parse" /\ temp[q] = <<>>
  PROVE  PagesInv'
<1>1. PagesTypes'
  BY DEF PagesInv, PagesTypes
<1>2. Sent'
  <2>1. Len(urls_parsed') < PAGES_PER_SEND
    BY DEF PagesInv, Sent
  <2>2. QED
    BY <2>1, SentOn DEF PagesInv
<1>3. Lacked' = Lacked /\ Carried' = Carried
  BY DEF Lacked, Carried
<1>4. Parted'
  BY <1>3 DEF PagesInv, Parted
<1>5. QED
  BY <1>1, <1>2, <1>4 DEF PagesInv

(* A message ends or breaks.                                               *)
LEMMA MessageEnds ==
  ASSUME PagesInv, NEW m \in DOMAIN messages, Pages!Receive(m) \/ Pages!Break(m)
  PROVE  PagesInv'
<1>1. PICK st \in {"added", "broken"} :
        /\ messages' = [messages EXCEPT ![m] = [messages[m] EXCEPT !.state = st]]
        /\ st = "added" => Len(messages[m].pages) = messages[m].size
  BY DEF Pages!Receive, Pages!Break
<1>2. UNCHANGED <<parsed, urls_parsed, temp, sPc>>
  BY DEF Pages!Receive, Pages!Break
<1>3. messages \in Seq(Message) /\ messages[m] \in Message
  BY DEF PagesInv, PagesTypes
<1>4. PICK r : r = [messages[m] EXCEPT !.state = st]
  OBVIOUS
<1>5. /\ r \in Message /\ r.from = messages[m].from /\ r.size = messages[m].size
      /\ r.pages = messages[m].pages /\ r.state = st
  BY <1>3, <1>4 DEF Message
<1>6. /\ messages' \in Seq(Message) /\ DOMAIN messages' = DOMAIN messages /\ messages'[m] = r
      /\ \A k \in DOMAIN messages : k # m => messages'[k] = messages[k]
  BY <1>1, <1>3, <1>4, <1>5, MessageChanged
<1>7. \A k \in DOMAIN messages :
        /\ messages'[k].from = messages[k].from /\ messages'[k].size = messages[k].size
        /\ messages'[k].pages = messages[k].pages
        /\ messages'[k].state = "added" =>
             messages[k].state = "added" \/ Len(messages[k].pages) = messages[k].size
  BY <1>1, <1>5, <1>6
<1>8. PagesTypes'
  BY <1>2, <1>6 DEF PagesInv, PagesTypes
<1>9. Sent'
  <2>1. Len(urls_parsed') < PAGES_PER_SEND
    BY <1>2 DEF PagesInv, Sent
  <2>2. QED
    BY <1>2, <1>6, <1>7, <2>1, SentOn DEF PagesInv
<1>10. Lacked' = Lacked /\ Carried' = Carried
  BY <1>2, <1>6, <1>7 DEF Lacked, Carried
<1>11. Parted'
  BY <1>2, <1>10 DEF PagesInv, Parted
<1>12. QED
  BY <1>8, <1>9, <1>11 DEF PagesInv

LEMMA PageParsed ==
  ASSUME PagesInv, NEW p \in Parsers, Pages!Add(p)
  PROVE  PagesInv'
<1>1. PICK all : all = Append(urls_parsed, parsed + 1)
  OBVIOUS
<1>2. /\ sPc[p] = "parse" /\ parsed' = parsed + 1 /\ UNCHANGED messages
      /\ \/ /\ Len(all) < PAGES_PER_SEND /\ urls_parsed' = all /\ UNCHANGED <<temp, sPc>>
         \/ /\ urls_parsed' = <<>> /\ temp' = [temp EXCEPT ![p] = all]
            /\ sPc' = [sPc EXCEPT ![p] = "connect"]
  BY <1>1 DEF Pages!Add, Pages!Goto
<1>3. /\ parsed \in Nat /\ parsed + 1 \in Nat /\ urls_parsed \in Seq(Nat)
      /\ temp \in [Parsers -> Seq(Nat)] /\ sPc \in [Parsers -> {"parse", "connect", "send"}]
  BY DEF PagesInv, PagesTypes
<1>4. Apart(Lacked, Carried, ToSet(urls_parsed), parsed) /\ OnlyOnce(urls_parsed)
  BY DEF PagesInv, Parted
<1>5. parsed + 1 \notin ToSet(urls_parsed)
  BY <1>3, <1>4 DEF Apart
<1>6. /\ all \in Seq(Nat) /\ OnlyOnce(all)
      /\ ToSet(all) = ToSet(urls_parsed) \cup {parsed + 1}
  BY <1>1, <1>3, <1>4, <1>5, Appended
<1>7. Apart(Lacked, Carried, ToSet(all), parsed + 1)
  BY <1>3, <1>4, <1>6, PageAdded
<1>8. Carried' = Carried
  BY <1>2 DEF Carried
<1>9. CASE Len(all) < PAGES_PER_SEND /\ urls_parsed' = all /\ UNCHANGED <<temp, sPc>>
  <2>1. PagesTypes'
    BY <1>2, <1>3, <1>6, <1>9 DEF PagesInv, PagesTypes
  <2>2. Sent'
    BY <1>2, <1>9, SentOn DEF PagesInv
  <2>3. Lacked' = Lacked
    BY <1>9 DEF Lacked
  <2>4. Parted'
    BY <1>2, <1>6, <1>7, <1>8, <1>9, <2>3 DEF PagesInv, Parted
  <2>5. QED
    BY <2>1, <2>2, <2>4 DEF PagesInv
<1>10. CASE /\ urls_parsed' = <<>> /\ temp' = [temp EXCEPT ![p] = all]
            /\ sPc' = [sPc EXCEPT ![p] = "connect"]
  <2>1. /\ temp' \in [Parsers -> Seq(Nat)] /\ temp'[p] = all
        /\ \A q \in Parsers : q # p => temp'[q] = temp[q]
    BY <1>3, <1>6, <1>10
  <2>2. /\ sPc' \in [Parsers -> {"parse", "connect", "send"}] /\ sPc'[p] = "connect"
        /\ \A q \in Parsers : q # p => sPc'[q] = sPc[q]
    BY <1>3, <1>10
  <2>3. urls_parsed' \in Seq(Nat) /\ Len(urls_parsed') = 0
    BY <1>10
  <2>4. PagesTypes'
    BY <1>2, <1>3, <2>1, <2>2, <2>3 DEF PagesInv, PagesTypes
  <2>5. Sent'
    <3>1. Len(urls_parsed') < PAGES_PER_SEND
      BY <2>3, PagesAssumption
    <3>2. \A q \in Parsers :
            /\ sPc'[q] = "parse" => temp'[q] = <<>>
            /\ sPc'[q] = "send" =>
                 \E m \in DOMAIN messages :
                   LastOf(q, m) /\ Len(messages[m].pages) + Len(temp'[q]) = messages[m].size
      BY <2>1, <2>2 DEF PagesInv, Sent
    <3>3. UNCHANGED messages /\ \A q \in Parsers, m \in DOMAIN messages : LastOf(q, m)' <=> LastOf(q, m)
      BY <1>2 DEF LastOf
    <3>4. \A m \in DOMAIN messages :
            messages[m].state = "added" => Len(messages[m].pages) = messages[m].size
      BY DEF PagesInv, Sent
    <3>5. \A q \in Parsers :
            sPc'[q] = "send" =>
              \E m \in DOMAIN messages :
                LastOf(q, m)' /\ Len(messages[m].pages) + Len(temp'[q]) = messages[m].size
      BY <3>2, <3>3
    <3>6. QED
      BY <3>1, <3>2, <3>3, <3>4, <3>5 DEF Sent
  <2>6. Lacked[p] = {} /\ Lacked'[p] = ToSet(all) /\ \A q \in Parsers : q # p => Lacked'[q] = Lacked[q]
    BY <1>2, <2>1, EmptyHasNone DEF PagesInv, Sent, Lacked
  <2>7. ToSet(urls_parsed') = {} /\ OnlyOnce(urls_parsed')
    BY <1>10, EmptyHasNone
  <2>8. Apart(Lacked', Carried, {}, parsed + 1)
    BY <1>7, <2>6, BufferTaken
  <2>9. \A q \in Parsers : OnlyOnce(temp'[q])
    BY <1>6, <2>1 DEF PagesInv, Parted
  <2>10. Parted'
    BY <1>2, <1>8, <2>7, <2>8, <2>9 DEF Parted
  <2>11. QED
    BY <2>4, <2>5, <2>10 DEF PagesInv
<1>11. QED
  BY <1>2, <1>9, <1>10

LEMMA MessageStarts ==
  ASSUME PagesInv, NEW p \in Parsers, Pages!Connect(p)
  PROVE  PagesInv'
<1>1. PICK r : r = [from |-> p, size |-> Len(temp[p]), pages |-> <<>>, state |-> "open"]
  OBVIOUS
<1>2. /\ messages' = Append(messages, r) /\ sPc' = [sPc EXCEPT ![p] = "send"]
      /\ UNCHANGED <<parsed, urls_parsed, temp>>
  BY <1>1 DEF Pages!Connect, Pages!Goto
<1>3. /\ temp[p] \in Seq(Nat) /\ sPc \in [Parsers -> {"parse", "connect", "send"}]
      /\ messages \in Seq(Message)
  BY DEF PagesInv, PagesTypes
<1>4. /\ r \in Message /\ r.from = p /\ r.size = Len(temp[p]) /\ r.pages = <<>>
      /\ r.state = "open" /\ Len(temp[p]) \in Nat
  BY <1>1, <1>3 DEF Message
<1>5. PICK k : k = Len(messages) + 1
  OBVIOUS
<1>6. /\ messages' \in Seq(Message) /\ messages'[k] = r
      /\ DOMAIN messages' = DOMAIN messages \cup {k} /\ k \notin DOMAIN messages
      /\ \A m \in DOMAIN messages : messages'[m] = messages[m] /\ m <= k
  <2> HIDE DEF Message
  <2>1. Len(messages) \in Nat /\ DOMAIN messages = 1 .. Len(messages)
    BY <1>3
  <2>2. /\ messages' \in Seq(Message) /\ messages'[k] = r
        /\ DOMAIN messages' = 1 .. Len(messages) + 1
        /\ \A m \in 1 .. Len(messages) : messages'[m] = messages[m]
    BY <1>2, <1>3, <1>4, <1>5
  <2>3. /\ 1 .. Len(messages) + 1 = (1 .. Len(messages)) \cup {k} /\ k \notin 1 .. Len(messages)
        /\ \A m \in 1 .. Len(messages) : m <= k
    BY <1>5, <2>1
  <2>4. QED
    BY <2>1, <2>2, <2>3
<1>7. k <= k
  <2>1. k \in Nat
    BY <1>3, <1>5
  <2>2. QED
    BY <2>1
<1>8. /\ sPc' \in [Parsers -> {"parse", "connect", "send"}] /\ sPc'[p] = "send"
      /\ \A q \in Parsers : q # p => sPc'[q] = sPc[q]
  BY <1>2, <1>3
<1>9. PagesTypes'
  BY <1>2, <1>6, <1>8 DEF PagesInv, PagesTypes
<1>10. Sent'
  <2>1. /\ LastOf(p, k)' /\ Len(messages'[k].pages) + Len(temp'[p]) = messages'[k].size
    <3>1. LastOf(p, k)'
      BY <1>4, <1>6, <1>7 DEF LastOf
    <3>2. Len(messages'[k].pages) = 0 /\ messages'[k].size = Len(temp[p])
      BY <1>4, <1>6
    <3>3. QED
      BY <1>2, <1>4, <3>1, <3>2
  <2>2. \A q \in Parsers, m \in DOMAIN messages : q # p /\ LastOf(q, m) => LastOf(q, m)'
    BY <1>4, <1>6 DEF LastOf
  <2>3. \A q \in Parsers : sPc'[q] = "send" =>
          \E m \in DOMAIN messages' :
            LastOf(q, m)' /\ Len(messages'[m].pages) + Len(temp'[q]) = messages'[m].size
    <3> SUFFICES ASSUME NEW q \in Parsers, sPc'[q] = "send"
                 PROVE  \E m \in DOMAIN messages' :
                          LastOf(q, m)' /\ Len(messages'[m].pages) + Len(temp'[q]) = messages'[m].size
      OBVIOUS
    <3>1. CASE q = p
      BY <1>6, <2>1, <3>1
    <3>2. CASE q # p
      <4>1. PICK m \in DOMAIN messages :
              LastOf(q, m) /\ Len(messages[m].pages) + Len(temp[q]) = messages[m].size
        BY <1>8, <3>2 DEF PagesInv, Sent
      <4>2. QED
        BY <1>2, <1>6, <2>2, <3>2, <4>1
    <3>3. QED
      BY <3>1, <3>2
  <2>4. \A q \in Parsers : sPc'[q] = "parse" => temp'[q] = <<>>
    BY <1>2, <1>8 DEF PagesInv, Sent
  <2>5. \A m \in DOMAIN messages' :
          messages'[m].state = "added" => Len(messages'[m].pages) = messages'[m].size
    BY <1>4, <1>6 DEF PagesInv, Sent
  <2>6. Len(urls_parsed') < PAGES_PER_SEND
    BY <1>2 DEF PagesInv, Sent
  <2>7. QED
    BY <2>3, <2>4, <2>5, <2>6 DEF Sent
<1>11. Lacked' = Lacked
  BY <1>2 DEF Lacked
<1>12. /\ DOMAIN Carried' = DOMAIN Carried \cup {k} /\ k \notin DOMAIN Carried
       /\ Carried'[k] = {} /\ \A m \in DOMAIN Carried : Carried'[m] = Carried[m]
  BY <1>4, <1>6, EmptyHasNone DEF Carried
<1>13. Apart(Lacked, Carried', ToSet(urls_parsed), parsed)
  BY <1>12, MessageBegun DEF PagesInv, Parted
<1>14. Parted'
  BY <1>2, <1>11, <1>13 DEF PagesInv, Parted
<1>15. QED
  BY <1>9, <1>10, <1>14 DEF PagesInv

(* A page goes into the message, whether it arrives there or not.          *)
LEMMA PageSent ==
  ASSUME PagesInv, NEW p \in Parsers, Pages!Popped(p),
         sPc' = sPc \/ sPc' = [sPc EXCEPT ![p] = "connect"]
  PROVE  PagesInv'
<1>1. PICK k : k = Pages!Current(p)
  OBVIOUS
<1>2. PICK u : u = Last(temp[p])
  OBVIOUS
<1>3. PICK r : r = [messages[k] EXCEPT !.pages = Append(messages[k].pages, u)]
  OBVIOUS
<1>4. /\ sPc[p] = "send" /\ temp[p] # <<>> /\ temp' = [temp EXCEPT ![p] = Front(temp[p])]
      /\ messages' = [messages EXCEPT ![k] = r] /\ UNCHANGED <<parsed, urls_parsed>>
  <2>1. messages' = [messages EXCEPT ![k] =
                       [messages[k] EXCEPT !.pages = Append(messages[k].pages, Last(temp[p]))]]
    BY <1>1 DEF Pages!Popped, Pages!Last, Last
  <2>2. /\ sPc[p] = "send" /\ temp[p] # <<>> /\ temp' = [temp EXCEPT ![p] = Front(temp[p])]
        /\ UNCHANGED <<parsed, urls_parsed>>
    BY DEF Pages!Popped, Pages!Front, Front
  <2>3. QED
    BY <1>2, <1>3, <2>1, <2>2
<1>5. /\ temp \in [Parsers -> Seq(Nat)] /\ sPc \in [Parsers -> {"parse", "connect", "send"}]
      /\ messages \in Seq(Message)
  BY DEF PagesInv, PagesTypes
<1>6. LastOf(p, k) /\ Len(messages[k].pages) + Len(temp[p]) = messages[k].size
  BY <1>1, <1>4, CurrentIs DEF PagesInv
<1>7. /\ k \in DOMAIN messages /\ messages[k] \in Message
      /\ messages[k].pages \in Seq(Nat) /\ messages[k].size \in Nat
  <2>1. k \in DOMAIN messages
    BY <1>6 DEF LastOf
  <2>2. messages[k] \in Message
    BY <1>5, <2>1
  <2>3. QED
    BY <2>1, <2>2 DEF Message
<1>8. /\ u \in Nat /\ Front(temp[p]) \in Seq(Nat) /\ OnlyOnce(Front(temp[p]))
      /\ Len(Front(temp[p])) + 1 = Len(temp[p])
      /\ u \in ToSet(temp[p]) /\ ToSet(Front(temp[p])) = ToSet(temp[p]) \ {u}
  <2>1. temp[p] \in Seq(Nat) /\ OnlyOnce(temp[p])
    BY <1>5 DEF PagesInv, Parted
  <2>2. QED
    BY <1>2, <1>4, <2>1, LastTaken
<1>9. /\ Append(messages[k].pages, u) \in Seq(Nat)
      /\ Len(Append(messages[k].pages, u)) = Len(messages[k].pages) + 1
      /\ ToSet(Append(messages[k].pages, u)) = ToSet(messages[k].pages) \cup {u}
  BY <1>7, <1>8, Appended
<1>10. /\ r \in Message /\ r.from = messages[k].from /\ r.size = messages[k].size
       /\ r.pages = Append(messages[k].pages, u) /\ r.state = messages[k].state
  BY <1>3, <1>7, <1>9 DEF Message
<1>11. /\ messages' \in Seq(Message) /\ DOMAIN messages' = DOMAIN messages /\ messages'[k] = r
       /\ \A m \in DOMAIN messages : m # k => messages'[m] = messages[m]
  BY <1>4, <1>5, <1>7, <1>10, MessageChanged
<1>12. /\ temp' \in [Parsers -> Seq(Nat)] /\ temp'[p] = Front(temp[p])
       /\ \A q \in Parsers : q # p => temp'[q] = temp[q]
  BY <1>4, <1>5, <1>8
<1>13. /\ sPc' \in [Parsers -> {"parse", "connect", "send"}]
       /\ sPc'[p] # "parse" /\ \A q \in Parsers : sPc'[q] = sPc[q] \/ (q = p /\ sPc'[q] = "connect")
  BY <1>4, <1>5
<1>14. PagesTypes'
  BY <1>4, <1>11, <1>12, <1>13 DEF PagesInv, PagesTypes
<1>15. Sent'
  <2>1. \A q \in Parsers, m \in DOMAIN messages : LastOf(q, m)' <=> LastOf(q, m)
    BY <1>10, <1>11 DEF LastOf
  <2>2. Len(messages'[k].pages) + Len(temp'[p]) = messages'[k].size
    <3>1. Len(messages[k].pages) \in Nat /\ Len(temp[p]) \in Nat /\ Len(Front(temp[p])) \in Nat
      BY <1>5, <1>7, <1>8
    <3>2. /\ Len(messages'[k].pages) = Len(messages[k].pages) + 1
          /\ Len(temp'[p]) = Len(Front(temp[p])) /\ messages'[k].size = messages[k].size
      BY <1>9, <1>10, <1>11, <1>12
    <3>3. PICK a \in Nat, f \in Nat, t \in Nat, z \in Nat :
            /\ a = Len(messages[k].pages) /\ f = Len(Front(temp[p]))
            /\ t = Len(temp[p]) /\ z = messages[k].size
      BY <1>7, <3>1
    <3>4. f + 1 = t /\ a + t = z
      BY <1>6, <1>8, <3>3
    <3>5. a + 1 + f = z
      BY <3>4
    <3>6. QED
      BY <3>2, <3>3, <3>5
  <2>3. \A q \in Parsers : sPc'[q] = "send" =>
          \E m \in DOMAIN messages' :
            LastOf(q, m)' /\ Len(messages'[m].pages) + Len(temp'[q]) = messages'[m].size
    <3> SUFFICES ASSUME NEW q \in Parsers, sPc'[q] = "send"
                 PROVE  \E m \in DOMAIN messages' :
                          LastOf(q, m)' /\ Len(messages'[m].pages) + Len(temp'[q]) = messages'[m].size
      OBVIOUS
    <3>1. CASE q = p
      BY <1>6, <1>7, <1>11, <2>1, <2>2, <3>1
    <3>2. CASE q # p
      <4>1. PICK m \in DOMAIN messages :
              LastOf(q, m) /\ Len(messages[m].pages) + Len(temp[q]) = messages[m].size
        BY <1>13, <3>2 DEF PagesInv, Sent
      <4>2. m # k
        BY <1>6, <3>2, <4>1 DEF LastOf
      <4>3. QED
        BY <1>11, <1>12, <2>1, <3>2, <4>1, <4>2
    <3>3. QED
      BY <3>1, <3>2
  <2>4. \A q \in Parsers : sPc'[q] = "parse" => temp'[q] = <<>>
    BY <1>12, <1>13 DEF PagesInv, Sent
  <2>5. messages[k].state # "added"
    <3>1. Len(temp[p]) # 0 /\ Len(temp[p]) \in Nat /\ Len(messages[k].pages) \in Nat
      BY <1>4, <1>5, <1>7
    <3>2. Len(messages[k].pages) # messages[k].size
      <4>1. PICK a \in Nat, t \in Nat, z \in Nat :
              a = Len(messages[k].pages) /\ t = Len(temp[p]) /\ z = messages[k].size
        BY <1>7, <3>1
      <4>2. t # 0 /\ a + t = z
        BY <1>6, <3>1, <4>1
      <4>3. a # z
        BY <4>2
      <4>4. QED
        BY <4>1, <4>3
    <3>3. \A m \in DOMAIN messages :
            messages[m].state = "added" => Len(messages[m].pages) = messages[m].size
      BY DEF PagesInv, Sent
    <3>4. QED
      BY <1>7, <3>2, <3>3
  <2>6. \A m \in DOMAIN messages' :
          messages'[m].state = "added" => Len(messages'[m].pages) = messages'[m].size
    BY <1>10, <1>11, <2>5 DEF PagesInv, Sent
  <2>7. Len(urls_parsed') < PAGES_PER_SEND
    BY <1>4 DEF PagesInv, Sent
  <2>8. QED
    BY <2>3, <2>4, <2>6, <2>7 DEF Sent
<1>16. /\ u \in Lacked[p] /\ Lacked'[p] = Lacked[p] \ {u}
       /\ \A q \in Parsers : q # p => Lacked'[q] = Lacked[q]
  BY <1>8, <1>12 DEF Lacked
<1>17. /\ k \in DOMAIN Carried /\ DOMAIN Carried' = DOMAIN Carried
       /\ Carried'[k] = Carried[k] \cup {u}
       /\ \A m \in DOMAIN Carried : m # k => Carried'[m] = Carried[m]
  BY <1>7, <1>9, <1>10, <1>11 DEF Carried
<1>18. Apart(Lacked', Carried', ToSet(urls_parsed), parsed)
  BY <1>16, <1>17, PageMoved DEF PagesInv, Parted
<1>19. \A q \in Parsers : OnlyOnce(temp'[q])
  BY <1>8, <1>12 DEF PagesInv, Parted
<1>20. Parted'
  BY <1>4, <1>18, <1>19 DEF PagesInv, Parted
<1>21. QED
  BY <1>14, <1>15, <1>20 DEF PagesInv

LEMMA PagesNext ==
  ASSUME PagesInv, [Pages!Next]_pageVars
  PROVE  PagesInv'
<1>1. sPc \in [Parsers -> {"parse", "connect", "send"}]
  BY DEF PagesInv, PagesTypes
<1>2. CASE UNCHANGED pageVars \/ Pages!StopListening \/ \E p \in Parsers : Pages!ConnectFails(p)
  <2>1. UNCHANGED <<parsed, urls_parsed, temp, messages>> /\ UNCHANGED sPc
    BY <1>2 DEF pageVars, Pages!StopListening, Pages!ConnectFails
  <2>2. QED
    BY <1>1, <2>1, PagesOn
<1>3. ASSUME NEW p \in Parsers, Pages!SendEnd(p) PROVE PagesInv'
  <2>1. /\ UNCHANGED <<parsed, urls_parsed, temp, messages>> /\ temp[p] = <<>>
        /\ sPc' = [sPc EXCEPT ![p] = "parse"]
    BY <1>3 DEF Pages!SendEnd, Pages!Goto
  <2>2. QED
    BY <1>1, <2>1, PagesOn
<1>4. ASSUME NEW p \in Parsers, Pages!SendPage(p) \/ Pages!SendFails(p) PROVE PagesInv'
  BY <1>4, PageSent DEF Pages!SendPage, Pages!SendFails, Pages!Goto
<1>5. QED
  BY <1>2, <1>3, <1>4, PageParsed, MessageStarts, MessageEnds DEF Pages!Next, Pages!Sender

LEMMA PagesInit == Pages!Init => PagesInv
<1> SUFFICES ASSUME Pages!Init PROVE PagesInv
  OBVIOUS
<1>1. /\ parsed = 0 /\ urls_parsed = <<>> /\ messages = <<>>
      /\ temp = [p \in Parsers |-> <<>>] /\ sPc = [p \in Parsers |-> "parse"]
  BY DEF Pages!Init
<1>2. DOMAIN messages = {} /\ Len(urls_parsed) = 0
  BY <1>1
<1>3. PagesTypes
  <2>1. temp \in [Parsers -> Seq(Nat)] /\ sPc \in [Parsers -> {"parse", "connect", "send"}]
    BY <1>1
  <2>2. parsed \in Nat /\ urls_parsed \in Seq(Nat) /\ messages \in Seq(Message)
    BY <1>1
  <2>3. QED
    BY <2>1, <2>2 DEF PagesTypes
<1>4. Sent
  <2>1. 0 < PAGES_PER_SEND
    BY PagesAssumption
  <2>2. QED
    BY <1>1, <1>2, <2>1 DEF Sent
<1>5. /\ ToSet(urls_parsed) = {} /\ OnlyOnce(urls_parsed)
      /\ \A p \in Parsers : OnlyOnce(temp[p]) /\ Lacked[p] = {}
  BY <1>1, EmptyHasNone DEF Lacked
<1>6. DOMAIN Carried = {} /\ 1 .. parsed = {}
  BY <1>1, <1>2 DEF Carried
<1>7. Apart(Lacked, Carried, ToSet(urls_parsed), parsed)
  BY <1>5, <1>6 DEF Apart
<1>8. QED
  BY <1>3, <1>4, <1>5, <1>7 DEF PagesInv, Parted

LEMMA PagesInvariance == MCSpec => []PagesInv
<1>1. MCInit => PagesInv
  BY PagesInit DEF MCInit
<1>2. PagesInv /\ [MCNext]_mcVars => PagesInv'
  <2>1. [MCNext]_mcVars => [Pages!Next]_pageVars
    BY DEF MCNext, mcVars
  <2>2. QED
    BY <2>1, PagesNext
<1>3. QED
  BY <1>1, <1>2, PTL DEF MCSpec

LEMMA SameCount == \A S : Pages!Cardinality(S) = Cardinality(S)
BY Zenon DEF Pages!Cardinality, Cardinality

LEMMA PagesAreOnce ==
  ASSUME PagesInv
  PROVE  Pages!PagesOnce
<1>1. PagesTypes /\ Sent /\ Apart(Lacked, Carried, ToSet(urls_parsed), parsed)
  BY DEF PagesInv, Parted
<1>2. ASSUME NEW page \in 1 .. parsed PROVE Pages!Copies(page) = 1
  <2> DEFINE Q == {p \in Parsers : page \in Lacked[p]}
             R == {m \in DOMAIN Carried : page \in Carried[m]}
             b == page \in ToSet(urls_parsed)
  <2>1. /\ {p \in Parsers : page \in Pages!ToSet(temp[p])} = Q
        /\ {m \in DOMAIN messages : page \in Pages!ToSet(messages[m].pages)} = R
        /\ b <=> page \in Pages!ToSet(urls_parsed)
    BY DEF Lacked, Carried, ToSet, Pages!ToSet
  <2>2. Pages!Copies(page) = Cardinality(Q) + Cardinality(R) + (IF b THEN 1 ELSE 0)
    BY <2>1, SameCount DEF Pages!Copies
  <2>3. Cardinality(Q) = IF Q = {} THEN 0 ELSE 1
    <3>1. \A x, y \in Q : x = y
      BY <1>1 DEF Apart
    <3> HIDE DEF Q
    <3>2. QED
      BY <3>1, CountsOne
  <2>4. Cardinality(R) = IF R = {} THEN 0 ELSE 1
    <3>1. \A x, y \in R : x = y
      BY <1>1 DEF Apart
    <3> HIDE DEF R
    <3>2. QED
      BY <3>1, CountsOne
  <2>5. /\ Q # {} \/ R # {} \/ b
        /\ Q # {} => R = {} /\ ~b
        /\ R # {} => ~b
    BY <1>1 DEF Apart
  <2> HIDE DEF Q, R, b
  <2>6. QED
    BY <2>2, <2>3, <2>4, <2>5
<1>3. /\ Len(urls_parsed) < PAGES_PER_SEND
      /\ \A m \in DOMAIN messages :
           messages[m].state = "added" => Len(messages[m].pages) = messages[m].size
  BY <1>1 DEF Sent
<1>4. QED
  BY <1>2, <1>3 DEF Pages!PagesOnce

(* What a worker gets and what it gives back is in one place, whatever     *)
(* connection breaks: a URL is lost only with a connection, and a page     *)
(* only in the one message that it was put into.                           *)
THEOREM TransfersAreKept == MCSpec => []TransfersKept
<1>1. UrlsInv /\ PagesInv => TransfersKept
  BY UrlsAreKept, PagesAreOnce DEF TransfersKept
<1>2. QED
  BY <1>1, UrlsInvariance, PagesInvariance, PTL

=============================================================================
