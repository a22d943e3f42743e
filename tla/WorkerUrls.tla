----------------------------- MODULE WorkerUrls -----------------------------
(***************************************************************************)
(* The URL buffer of a crawl worker (src/worker_url_tcp.cpp).              *)
(*                                                                         *)
(* Parser threads take URLs from urls_to_parse.  A thread that finds the   *)
(* buffer short asks the master for more over a connection of its own,     *)
(* while the others take what is there or wait.  The main thread tells     *)
(* them to shut down.                                                      *)
(*                                                                         *)
(* The atomics requesting and shutting_down are read and written without   *)
(* to_parse_m in many places, so every such access is a step of its own.   *)
(***************************************************************************)
EXTENDS Naturals, Sequences, FiniteSets, SequencesExt

CONSTANTS Parsers,          \* the parser threads
          NoParser,         \* "nobody holds the mutex"
          MIN_BUFFER_SIZE,
          MaxUrls,          \* bound: URLs the master ever hands out
          MaxReply,         \* bound: URLs in one reply of the master
          MaxFailures,      \* bound: connections that break
          MaxSpurious       \* bound: spurious wakeups

ASSUME ParsersAssumption == IsFiniteSet(Parsers) /\ NoParser \notin Parsers
ASSUME BufferAssumption == MIN_BUFFER_SIZE \in Nat \ {0}
ASSUME BoundsAssumption ==
  /\ MaxUrls \in Nat /\ MaxReply \in Nat
  /\ MaxFailures \in Nat /\ MaxSpurious \in Nat

VARIABLES
  urls_to_parse,      \* Seq(1 .. MaxUrls), the URLs in the order of arrival
  to_parse_m,         \* the thread that holds the mutex, or NoParser
  requesting,
  shutting_down,
  pc,                 \* where each parser thread is
  back,               \* where its get_more_urls_from_master returns to
  reply,              \* the URLs it has received and not yet queued
  mPc,                \* where the main thread is in initiate_shut_down
  supplied,           \* how many URLs the master has handed out
  given,              \* history: [1 .. MaxUrls -> Nat], returned to parsers
  failures, spurious

shared == <<urls_to_parse, to_parse_m, requesting, shutting_down>>
local  == <<pc, back, reply>>
vars == <<shared, local, mPc, supplied, given, failures, spurious>>

Init ==
  /\ urls_to_parse = <<>>
  /\ to_parse_m = NoParser
  /\ requesting = FALSE
  /\ shutting_down = FALSE
  /\ pc = [p \in Parsers |-> "get_lock"]
  /\ back = [p \in Parsers |-> "loop"]
  /\ reply = [p \in Parsers |-> <<>>]
  /\ mPc = "running"
  /\ supplied = 0
  /\ given = [u \in 1 .. MaxUrls |-> 0]
  /\ failures = 0
  /\ spurious = 0

Goto(p, l) == pc' = [pc EXCEPT ![p] = l]

Lock(p) == to_parse_m = NoParser /\ to_parse_m' = p

-----------------------------------------------------------------------------
(* get_url_to_parse                                                        *)

GetLock(p) ==
  /\ pc[p] = "get_lock"
  /\ Lock(p)
  /\ Goto(p, "get_first")
  /\ UNCHANGED <<urls_to_parse, requesting, shutting_down, back, reply, mPc,
                 supplied, given, failures, spurious>>

(* The buffer is short and nobody asks: this thread does, before it looks  *)
(* at the buffer.  The test and the assignment of requesting happen under  *)
(* the mutex; that it is set back without makes no difference here.        *)
GetFirst(p) ==
  /\ pc[p] = "get_first"
  /\ IF Len(urls_to_parse) < MIN_BUFFER_SIZE /\ ~requesting
       THEN /\ requesting' = TRUE
            /\ to_parse_m' = NoParser
            /\ back' = [back EXCEPT ![p] = "lock_loop"]
            /\ Goto(p, "more_begin")
       ELSE /\ Goto(p, "loop")
            /\ UNCHANGED <<requesting, to_parse_m, back>>
  /\ UNCHANGED <<urls_to_parse, shutting_down, reply, mPc, supplied, given,
                 failures, spurious>>

(* Back from the master, with the mutex again: into the loop, or, from     *)
(* inside the loop, straight to its wait.                                  *)
GetRelock(p) ==
  /\ pc[p] \in {"lock_loop", "lock_wait"}
  /\ Lock(p)
  /\ Goto(p, IF pc[p] = "lock_loop" THEN "loop" ELSE "wait")
  /\ UNCHANGED <<urls_to_parse, requesting, shutting_down, back, reply, mPc,
                 supplied, given, failures, spurious>>

(* while (urls_to_parse.empty()) { if (shutting_down) break; ...           *)
GetLoop(p) ==
  /\ pc[p] = "loop"
  /\ Goto(p, IF urls_to_parse # <<>> \/ shutting_down THEN "take"
             ELSE "loop_request")
  /\ UNCHANGED <<shared, back, reply, mPc, supplied, given, failures, spurious>>

(* Mutant of GetLoopRequest: requesting is not tested.                     *)
GetLoopRequestAlways(p) ==
  /\ pc[p] = "loop_request"
  /\ IF TRUE
       THEN /\ requesting' = TRUE
            /\ to_parse_m' = NoParser
            /\ back' = [back EXCEPT ![p] = "lock_wait"]
            /\ Goto(p, "more_begin")
       ELSE /\ Goto(p, "wait")
            /\ UNCHANGED <<requesting, to_parse_m, back>>
  /\ UNCHANGED <<urls_to_parse, shutting_down, reply, mPc, supplied, given,
                 failures, spurious>>

GetLoopRequest(p) ==
  /\ pc[p] = "loop_request"
  /\ IF ~requesting
       THEN /\ requesting' = TRUE
            /\ to_parse_m' = NoParser
            /\ back' = [back EXCEPT ![p] = "lock_wait"]
            /\ Goto(p, "more_begin")
       ELSE /\ Goto(p, "wait")
            /\ UNCHANGED <<requesting, to_parse_m, back>>
  /\ UNCHANGED <<urls_to_parse, shutting_down, reply, mPc, supplied, given,
                 failures, spurious>>

(* to_parse_cv.wait(to_parse_m)                                            *)
GetWait(p) ==
  /\ pc[p] = "wait"
  /\ to_parse_m' = NoParser
  /\ Goto(p, "waiting")
  /\ UNCHANGED <<urls_to_parse, requesting, shutting_down, back, reply, mPc,
                 supplied, given, failures, spurious>>

(* Mutant of GetWoken: if instead of while.                                *)
GetWokenIf(p) ==
  /\ pc[p] = "woken"
  /\ Lock(p)
  /\ Goto(p, "take")
  /\ UNCHANGED <<urls_to_parse, requesting, shutting_down, back, reply, mPc,
                 supplied, given, failures, spurious>>

GetWoken(p) ==
  /\ pc[p] = "woken"
  /\ Lock(p)
  /\ Goto(p, "loop")
  /\ UNCHANGED <<urls_to_parse, requesting, shutting_down, back, reply, mPc,
                 supplied, given, failures, spurious>>

SpuriousWakeup(p) ==
  /\ pc[p] = "waiting"
  /\ spurious < MaxSpurious
  /\ spurious' = spurious + 1
  /\ Goto(p, "woken")
  /\ UNCHANGED <<shared, back, reply, mPc, supplied, given, failures>>

(* After the loop shutting_down is read once more: the parser gets the     *)
(* empty URL and ends ...                                                  *)
GetEmpty(p) ==
  /\ pc[p] = "take"
  /\ shutting_down
  /\ to_parse_m' = NoParser
  /\ Goto(p, "ended")
  /\ UNCHANGED <<urls_to_parse, requesting, shutting_down, back, reply, mPc,
                 supplied, given, failures, spurious>>

(* ... or it gets the front of the queue, parses it and comes back.        *)
GetUrl(p) ==
  /\ pc[p] = "take"
  /\ ~shutting_down
  /\ Goto(p, "pop")
  /\ UNCHANGED <<shared, back, reply, mPc, supplied, given, failures, spurious>>

Pop(p) ==
  /\ pc[p] = "pop"
  /\ given' = [given EXCEPT ![Head(urls_to_parse)] = @ + 1]
  /\ urls_to_parse' = Tail(urls_to_parse)
  /\ to_parse_m' = NoParser
  /\ Goto(p, "get_lock")
  /\ UNCHANGED <<requesting, shutting_down, back, reply, mPc, supplied,
                 failures, spurious>>

-----------------------------------------------------------------------------
(* get_more_urls_from_master and checkout_urls                             *)

(* If the worker shuts down it returns at once, and requesting stays set.  *)
MoreBegin(p) ==
  /\ pc[p] = "more_begin"
  /\ Goto(p, IF shutting_down THEN back[p] ELSE "connect")
  /\ UNCHANGED <<shared, back, reply, mPc, supplied, given, failures, spurious>>

Connect(p) ==
  /\ pc[p] = "connect"
  /\ Goto(p, "more_lock")
  /\ UNCHANGED <<shared, back, reply, mPc, supplied, given, failures, spurious>>

(* The loop test, under the mutex                                          *)
MoreLock(p) ==
  /\ pc[p] = "more_lock"
  /\ Lock(p)
  /\ Goto(p, "more_test")
  /\ UNCHANGED <<urls_to_parse, requesting, shutting_down, back, reply, mPc,
                 supplied, given, failures, spurious>>

MoreTest(p) ==
  /\ pc[p] = "more_test"
  /\ to_parse_m' = NoParser
  /\ Goto(p, IF Len(urls_to_parse) < 2 * MIN_BUFFER_SIZE THEN "checkout"
             ELSE "more_done")
  /\ UNCHANGED <<urls_to_parse, requesting, shutting_down, back, reply, mPc,
                 supplied, given, failures, spurious>>

(* The master answers with the URLs of one of its bins, maybe none.        *)
Checkout(p, n) ==
  /\ pc[p] = "checkout"
  /\ supplied + n <= MaxUrls
  /\ supplied' = supplied + n
  /\ reply' = [reply EXCEPT ![p] = [i \in 1 .. n |-> supplied + i]]
  /\ Goto(p, "queue_lock")
  /\ UNCHANGED <<shared, back, mPc, given, failures, spurious>>

(* The connection breaks: the URLs of an answer that has not arrived       *)
(* completely are lost.                                                    *)
ConnectionFails(p, n) ==
  /\ pc[p] \in {"connect", "checkout"}
  /\ failures < MaxFailures
  /\ n > 0 => pc[p] = "checkout"
  /\ supplied + n <= MaxUrls
  /\ failures' = failures + 1
  /\ supplied' = supplied + n
  /\ Goto(p, "more_done")
  /\ UNCHANGED <<shared, back, reply, mPc, given, spurious>>

QueueLock(p) ==
  /\ pc[p] = "queue_lock"
  /\ Lock(p)
  /\ Goto(p, "queue")
  /\ UNCHANGED <<urls_to_parse, requesting, shutting_down, back, reply, mPc,
                 supplied, given, failures, spurious>>

(* Mutant of WakeAll: only one thread is woken.                            *)
WakeOne(exc) ==
  LET w == CHOOSE p \in Parsers :
             pc[p] = "waiting" \/ \A q \in Parsers : pc[q] # "waiting" IN
  [p \in Parsers |-> IF p \in DOMAIN exc THEN exc[p]
                     ELSE IF p = w /\ pc[p] = "waiting" THEN "woken" ELSE pc[p]]

WakeAll(exc) ==
  [p \in Parsers |-> IF p \in DOMAIN exc THEN exc[p]
                     ELSE IF pc[p] = "waiting" THEN "woken" ELSE pc[p]]

(* Mutant of QueueUrls: the answer replaces the buffer.                    *)
QueueUrlsOver(p) ==
  /\ pc[p] = "queue"
  /\ urls_to_parse' = reply[p]
  /\ reply' = [reply EXCEPT ![p] = <<>>]
  /\ pc' = WakeAll([q \in {p} |-> "more_test"])
  /\ UNCHANGED <<to_parse_m, requesting, shutting_down, back, mPc, supplied,
                 given, failures, spurious>>

(* The URLs are queued and everyone who waits is woken, under the mutex,   *)
(* which is kept for the next loop test.                                   *)
QueueUrls(p) ==
  /\ pc[p] = "queue"
  /\ urls_to_parse' = urls_to_parse \o reply[p]
  /\ reply' = [reply EXCEPT ![p] = <<>>]
  /\ pc' = WakeAll([q \in {p} |-> "more_test"])
  /\ UNCHANGED <<to_parse_m, requesting, shutting_down, back, mPc, supplied,
                 given, failures, spurious>>

(* requesting = false, after a failure too, and nobody is told             *)
MoreDone(p) ==
  /\ pc[p] = "more_done"
  /\ requesting' = FALSE
  /\ Goto(p, back[p])
  /\ UNCHANGED <<urls_to_parse, to_parse_m, shutting_down, back, reply, mPc,
                 supplied, given, failures, spurious>>

Parser(p) ==
  \/ GetLock(p) \/ GetFirst(p) \/ GetRelock(p) \/ GetLoop(p)
  \/ GetLoopRequest(p) \/ GetWait(p) \/ GetWoken(p) \/ GetEmpty(p)
  \/ GetUrl(p) \/ Pop(p)
  \/ MoreBegin(p) \/ Connect(p) \/ MoreLock(p) \/ MoreTest(p)
  \/ (\E n \in 0 .. MaxReply : Checkout(p, n))
  \/ QueueLock(p) \/ QueueUrls(p) \/ MoreDone(p)

-----------------------------------------------------------------------------
(* initiate_shut_down, without the mutex                                   *)

ShutDown ==
  /\ mPc = "running"
  /\ shutting_down' = TRUE
  /\ mPc' = "broadcast"
  /\ UNCHANGED <<urls_to_parse, to_parse_m, requesting, local, supplied, given,
                 failures, spurious>>

Broadcast ==
  /\ mPc = "broadcast"
  /\ pc' = WakeAll(<<>>)
  /\ mPc' = "done"
  /\ UNCHANGED <<shared, back, reply, supplied, given, failures, spurious>>

Next ==
  \/ \E p \in Parsers : Parser(p) \/ SpuriousWakeup(p)
  \/ \E p \in Parsers, n \in 0 .. MaxReply : ConnectionFails(p, n)
  \/ ShutDown
  \/ Broadcast

Spec == Init /\ [][Next]_vars

Acquire(p) ==
  GetLock(p) \/ GetRelock(p) \/ GetWoken(p) \/ MoreLock(p) \/ QueueLock(p)

(* Threads run, no thread starves at the mutex, and the master answers.    *)
Fairness ==
  /\ \A p \in Parsers : WF_vars(Parser(p)) /\ SF_vars(Acquire(p))
  /\ WF_vars(Broadcast)

FairSpec == Spec /\ Fairness

-----------------------------------------------------------------------------
Requesting == {"more_begin", "connect", "more_lock", "more_test", "checkout",
               "queue_lock", "queue", "more_done"}

Holding == {"get_first", "loop", "loop_request", "wait", "take", "pop",
            "more_test", "queue"}

Locs == {"get_lock", "lock_loop", "lock_wait", "waiting", "woken", "ended"}
          \union Requesting \union Holding

(* Types, and the mutex is held by exactly the thread whose program        *)
(* counter says so.                                                        *)
TypeOK ==
  /\ urls_to_parse \in Seq(1 .. MaxUrls)
  /\ to_parse_m \in Parsers \union {NoParser}
  /\ requesting \in BOOLEAN /\ shutting_down \in BOOLEAN
  /\ pc \in [Parsers -> Locs]
  /\ back \in [Parsers -> {"loop", "lock_loop", "lock_wait"}]
  /\ \A p \in Parsers : reply[p] \in Seq(1 .. MaxUrls)
  /\ mPc \in {"running", "broadcast", "done"}
  /\ supplied \in 0 .. MaxUrls
  /\ given \in [1 .. MaxUrls -> Nat]
  /\ \A p \in Parsers : pc[p] \in Holding <=> to_parse_m = p

(* Only one thread at a time asks the master for URLs: requesting is set   *)
(* under the mutex, but cleared without it, and not at all by a request    *)
(* that finds the worker shutting down.                                    *)
OneRequester ==
  \A p, q \in Parsers :
    pc[p] \in Requesting /\ pc[q] \in Requesting => p = q

(* urls_to_parse.front() is never called on an empty queue: neither a      *)
(* wakeup without a URL, spurious or because another thread was faster,    *)
(* nor a shutdown between the loop and the test behind it leads there.     *)
NeverPopsEmpty ==
  \A p \in Parsers : pc[p] = "pop" => urls_to_parse # <<>>

(* What the mutex, the flag and the loop around the wait are for: one      *)
(* thread asks the master, and front() is never called on an empty queue.  *)
RequestsGuarded == OneRequester /\ NeverPopsEmpty

Occurrences(s, u) == Cardinality({i \in DOMAIN s : s[i] = u})

Places(u) ==
  given[u] + Occurrences(urls_to_parse, u)
    + Cardinality({p \in Parsers : u \in ToSet(reply[p])})

(* A URL the master hands out is in one place: in the answer a thread      *)
(* holds, in the buffer or returned to one parser.  It is lost only with a *)
(* connection.                                                             *)
UrlsKept ==
  \A u \in 1 .. supplied :
    /\ Places(u) <= 1
    /\ failures = 0 => Places(u) = 1

(* A parser that sleeps when the shutdown begins gets the empty URL and    *)
(* ends, whatever the others do with the mutex and the buffer meanwhile.   *)
SleepersEnd ==
  \A p \in Parsers :
    shutting_down /\ mPc = "broadcast" /\ pc[p] \in {"waiting", "woken"}
      ~> pc[p] = "ended"

(* What the comment of get_url_to_parse says: it returns a URL.  But all   *)
(* parsers can sleep with nobody left to ask the master: one finds the     *)
(* buffer empty and waits for the requester, who has checked the loop for  *)
(* the last time and, called from the wait loop, goes to sleep itself.     *)
SomeoneAwake ==
  mPc = "running" => \E p \in Parsers : pc[p] # "waiting"

=============================================================================
