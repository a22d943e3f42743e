----------------------------- MODULE QueryServer -----------------------------
(***************************************************************************)
(* The query server (src/query_server_driver.cpp) with the query workers   *)
(* (src/query_worker_driver.cpp) and the web servers that ask it           *)
(* (ask_query in src/server.cpp).                                          *)
(*                                                                         *)
(* One thread accepts connections.  It keeps the sockets of workers in     *)
(* socketsToWorkers, and for a query starts one thread per socket, which   *)
(* sends the query and collects the results.  A worker that has not        *)
(* answered after 60 seconds, or whose connection is broken, is given up.  *)
(*                                                                         *)
(* FileDesc owns a descriptor and its copies are dup()s: the set hashes    *)
(* the descriptor that accept returned and stores a copy of another        *)
(* number.  Descriptors are given out lowest first.  The set has many more *)
(* buckets than workers and does not grow here; module UnorderedSet has    *)
(* the rest.  What is a worker's best N, and the merging of results, is in *)
(* module TopNQueue: here a result is a query, a connection and a number.  *)
(***************************************************************************)
EXTENDS Sequences, HashBuckets

CONSTANTS Workers,      \* query worker processes
          MaxConns,     \* bound: connections that workers open
          MaxQueries,   \* bound: queries
          MaxPages,     \* bound: results in a worker's reply
          MaxFd,        \* the descriptors that may be open at a time
          TableSize,    \* USET_INITIAL_SIZE
          NoConn, NoAnswer

Conns == 1 .. MaxConns
Queries == 1 .. MaxQueries
Fds == 1 .. MaxFd
Client == 0               \* what a descriptor of a client refers to
Indices == 0 .. TableSize - 1

ASSUME HashAssumption == HashOf \in [Fds -> Nat] /\ NoKey \notin Fds
ASSUME ConnAssumption == NoConn \notin Conns \cup {Client}
ASSUME BoundsAssumption ==
  /\ MaxConns \in Nat /\ MaxQueries \in Nat /\ MaxPages \in Nat
  /\ MaxFd \in Nat /\ TableSize \in Nat /\ MaxConns < TableSize

VARIABLES
  backlog,           \* connections not accepted: [kind, conn] or [kind, query]
  fds,               \* [Fds -> what it refers to, or NoConn when closed]
  socketsToWorkers,  \* the buckets of the set
  sPc,               \* where the main thread of the server is
  sFd, hello,        \* the connection it serves
  it,                \* its iterator over the set
  tPc, left,         \* the thread for each bucket, the pages it still expects
  topPages,          \* the results collected for the current query
  wPc, wConn, wQuery, wLeft,   \* the workers
  down, up,          \* [Conns -> Seq], what is under way on a connection
  broken,            \* the connections that are broken
  conns, queries,    \* how many there have been
  answers,           \* history: [Queries -> the results sent to the client]
  asked,             \* history: the live sockets when the query began
  failed, removed    \* history: sockets given up, and to be out of the set

network == <<down, up, broken>>
server  == <<fds, socketsToWorkers, sPc, sFd, hello, it>>
threads == <<tPc, left, topPages>>
workers == <<wPc, wConn, wQuery, wLeft>>
history == <<answers, asked, failed, removed>>
vars == <<backlog, server, threads, workers, network, conns, queries, history>>

NoHello == [kind |-> "none", of |-> 0]

Init ==
  /\ backlog = <<>>
  /\ fds = [f \in Fds |-> NoConn]
  /\ socketsToWorkers = NewBuckets(TableSize)
  /\ sPc = "accept" /\ sFd = 0 /\ hello = NoHello /\ it = 0
  /\ tPc = [b \in Indices |-> "none"] /\ left = [b \in Indices |-> 0]
  /\ topPages = {}
  /\ wPc = [w \in Workers |-> "connect"]
  /\ wConn = [w \in Workers |-> NoConn]
  /\ wQuery = [w \in Workers |-> 0] /\ wLeft = [w \in Workers |-> 0]
  /\ down = [c \in Conns |-> <<>>] /\ up = [c \in Conns |-> <<>>]
  /\ broken = {}
  /\ conns = 0 /\ queries = 0
  /\ answers = [q \in Queries |-> NoAnswer]
  /\ asked = {} /\ failed = {} /\ removed = {}

LowestFree(F) == Least({f \in Fds : F[f] = NoConn})
CanOpen(n) == Cardinality({f \in Fds : fds[f] = NoConn}) >= n

-----------------------------------------------------------------------------
(* A client: ask_query.  It is known by its query.                         *)
AskQuery ==
  /\ queries < MaxQueries
  /\ queries' = queries + 1
  /\ backlog' = Append(backlog, [kind |-> "Q", of |-> queries + 1])
  /\ UNCHANGED <<server, threads, workers, network, conns, history>>

-----------------------------------------------------------------------------
(* The main thread of the server                                           *)

Accept ==
  /\ sPc = "accept" /\ backlog # <<>> /\ CanOpen(1)
  /\ LET f == LowestFree(fds) IN
       /\ sFd' = f
       /\ fds' = [fds EXCEPT ![f] = IF Head(backlog).kind = "W"
                                    THEN Head(backlog).of ELSE Client]
  /\ hello' = Head(backlog)
  /\ backlog' = Tail(backlog)
  /\ sPc' = "hello"
  /\ UNCHANGED <<socketsToWorkers, it, threads, workers, network, conns,
                 queries, history>>

(* Back to accept; the descriptor that accept returned is closed.          *)
Closing(F) ==
  /\ fds' = [F EXCEPT ![sFd] = NoConn]
  /\ sPc' = "accept" /\ sFd' = 0 /\ hello' = NoHello

(* The peer is gone before it has said what it wants, or, for a client,    *)
(* before it has its answer.                                               *)
PeerGone ==
  /\ sPc \in {"hello", "answer"}
  /\ hello.kind = "W" => hello.of \in broken
  /\ Closing(fds)
  /\ tPc' = [b \in Indices |-> "none"]
  /\ topPages' = {} /\ asked' = {}
  /\ UNCHANGED <<backlog, socketsToWorkers, it, left, workers, network, conns,
                 queries, answers, failed, removed>>

(* Mutant of NewWorker: the set takes the descriptor itself.               *)
NewWorkerUncopied ==
  /\ sPc = "hello" /\ hello.kind = "W"
  /\ socketsToWorkers' = Put(socketsToWorkers, sFd, sFd)
  /\ Closing(fds)
  /\ UNCHANGED <<backlog, it, threads, workers, network, conns, queries,
                 history>>

(* handle_new_worker: the set stores a copy of the socket, and closes the  *)
(* one that a ghost has kept in its bucket.                                *)
NewWorker ==
  LET copy == LowestFree(fds)
      old  == socketsToWorkers[FreeIndex(socketsToWorkers, sFd)].key IN
  /\ sPc = "hello" /\ hello.kind = "W" /\ CanOpen(1)
  /\ socketsToWorkers' = Put(socketsToWorkers, sFd, copy)
  /\ Closing([f \in Fds |-> IF f = copy THEN fds[sFd]
                            ELSE IF f = old THEN NoConn ELSE fds[f]])
  /\ UNCHANGED <<backlog, it, threads, workers, network, conns, queries,
                 history>>

(* handle_query: a query that does not parse is answered with no results.  *)
InvalidQuery ==
  /\ sPc = "hello" /\ hello.kind = "Q"
  /\ answers' = [answers EXCEPT ![hello.of] = {}]
  /\ Closing(fds)
  /\ UNCHANGED <<backlog, socketsToWorkers, it, threads, workers, network,
                 conns, queries, asked, failed, removed>>

Sockets == {socketsToWorkers[b].key : b \in InUse(socketsToWorkers)}

BeginQuery ==
  /\ sPc = "hello" /\ hello.kind = "Q"
  /\ it' = Begin(socketsToWorkers)
  /\ asked' = {fds[f] : f \in Sockets} \ (failed \cup broken)
  /\ sPc' = "spawn"
  /\ UNCHANGED <<backlog, fds, socketsToWorkers, sFd, hello, threads, workers,
                 network, conns, queries, answers, failed, removed>>

(* A thread for each socket.  The iteration holds no lock while the        *)
(* threads that have been started may erase their sockets.                 *)
SpawnNext ==
  /\ sPc = "spawn" /\ it # End(socketsToWorkers)
  /\ tPc' = [tPc EXCEPT ![it] = "send"]
  /\ it' = Following(socketsToWorkers, it)
  /\ UNCHANGED <<backlog, fds, socketsToWorkers, sPc, sFd, hello, left,
                 topPages, workers, network, conns, queries, history>>

Ended == \A b \in Indices : tPc[b] \in {"none", "ended"}

(* Mutant of Join: the last thread is not joined.                          *)
JoinEarly ==
  /\ sPc = "spawn" /\ it = End(socketsToWorkers)
  /\ Cardinality({b \in Indices : tPc[b] \notin {"none", "ended"}}) <= 1
  /\ sPc' = "answer"
  /\ UNCHANGED <<backlog, fds, socketsToWorkers, sFd, hello, it, threads,
                 workers, network, conns, queries, history>>

Join ==
  /\ sPc = "spawn" /\ it = End(socketsToWorkers)
  /\ Ended
  /\ sPc' = "answer"
  /\ UNCHANGED <<backlog, fds, socketsToWorkers, sFd, hello, it, threads,
                 workers, network, conns, queries, history>>

Answer ==
  /\ sPc = "answer"
  /\ answers' = [answers EXCEPT ![hello.of] = topPages]
  /\ Closing(fds)
  /\ tPc' = [b \in Indices |-> "none"]
  /\ topPages' = {} /\ asked' = {}
  /\ UNCHANGED <<backlog, socketsToWorkers, it, left, workers, network, conns,
                 queries, failed, removed>>

MainThread ==
  \/ NewWorker \/ BeginQuery \/ InvalidQuery \/ SpawnNext \/ Join \/ Answer
  \/ PeerGone

-----------------------------------------------------------------------------
(* The thread for the socket in bucket b: ask_workers                      *)

AskGoto(b, l) == tPc' = [tPc EXCEPT ![b] = l]

(* What its socket refers to.  In an empty set begin() is bucket 0, whose  *)
(* socket is no descriptor, or that of a ghost.                            *)
Peer(b) ==
  LET f == socketsToWorkers[b].key IN IF f \in Fds THEN fds[f] ELSE NoConn

(* A send on a broken connection may succeed and be lost.                  *)
AskSend(b) ==
  LET c == Peer(b) IN
  /\ tPc[b] = "send" /\ c \in Conns
  /\ down' = IF c \in broken THEN down
             ELSE [down EXCEPT ![c] = Append(@, hello.of)]
  /\ AskGoto(b, "num")
  /\ UNCHANGED <<backlog, server, left, topPages, workers, up, broken, conns,
                 queries, history>>

AskNum(b) ==
  LET c == Peer(b) IN
  /\ tPc[b] = "num" /\ c \in Conns
  /\ up[c] # <<>> /\ Head(up[c]).kind = "num"
  /\ left' = [left EXCEPT ![b] = Head(up[c]).n]
  /\ up' = [up EXCEPT ![c] = Tail(@)]
  /\ AskGoto(b, IF Head(up[c]).n = 0 THEN "ended" ELSE "pages")
  /\ UNCHANGED <<backlog, server, topPages, workers, down, broken, conns,
                 queries, history>>

AskPage(b) ==
  LET c == Peer(b) IN
  /\ tPc[b] = "pages" /\ c \in Conns
  /\ up[c] # <<>> /\ Head(up[c]).kind = "page"
  /\ topPages' = topPages \cup
       {[query |-> Head(up[c]).query, conn |-> c, n |-> Head(up[c]).n]}
  /\ left' = [left EXCEPT ![b] = @ - 1]
  /\ up' = [up EXCEPT ![c] = Tail(@)]
  /\ AskGoto(b, IF left[b] = 1 THEN "ended" ELSE "pages")
  /\ UNCHANGED <<backlog, server, workers, down, broken, conns, queries,
                 history>>

(* Mutant of AskFails: the sockets have no time limit.                     *)
AskFailsUntimed(b) ==
  LET c == Peer(b) IN
  /\ tPc[b] \in {"send", "num", "pages"}
  /\ c \notin Conns \/ c \in broken
  /\ failed' = failed \cup ({c} \cap Conns)
  /\ left' = [left EXCEPT ![b] = 0]
  /\ AskGoto(b, "erase")
  /\ UNCHANGED <<backlog, server, topPages, workers, network, conns, queries,
                 answers, asked, removed>>

(* A SocketException: the connection is broken, or there is none, or the   *)
(* worker has taken longer than TCP_TIMEOUT_LIMIT for its reply.           *)
AskFails(b) ==
  LET c == Peer(b) IN
  /\ tPc[b] \in {"send", "num", "pages"}
  /\ \/ c \notin Conns \/ c \in broken
     \/ tPc[b] = "num" /\ up[c] = <<>>
  /\ failed' = failed \cup ({c} \cap Conns)
  /\ left' = [left EXCEPT ![b] = 0]
  /\ AskGoto(b, "erase")
  /\ UNCHANGED <<backlog, server, topPages, workers, network, conns, queries,
                 answers, asked, removed>>

(* socketsToWorkers.erase hashes the copy, which was put where the         *)
(* original hashes to.  Other threads erase under the same mutex.          *)
AskErase(b) ==
  LET f == socketsToWorkers[b].key IN
  /\ tPc[b] = "erase"
  /\ IF f \in Fds /\ Present(socketsToWorkers, f)
       THEN socketsToWorkers' = Erased(socketsToWorkers, f)
       ELSE UNCHANGED socketsToWorkers
  /\ removed' = removed \cup ({Peer(b)} \cap Conns)
  /\ AskGoto(b, "ended")
  /\ UNCHANGED <<backlog, fds, sPc, sFd, hello, it, left, topPages, workers,
                 network, conns, queries, answers, asked, failed>>

Asker(b) ==
  AskSend(b) \/ AskNum(b) \/ AskPage(b) \/ AskFails(b) \/ AskErase(b)

-----------------------------------------------------------------------------
(* A query worker                                                          *)

WorkerGoto(w, l) == wPc' = [wPc EXCEPT ![w] = l]

(* open_socket_to_master, at the start and after a failure.  Replacing the *)
(* old socket closes it.                                                   *)
WorkerConnect(w) ==
  /\ wPc[w] \in {"connect", "reconnect"}
  /\ conns < MaxConns
  /\ conns' = conns + 1
  /\ wConn' = [wConn EXCEPT ![w] = conns + 1]
  /\ broken' = broken \cup ({wConn[w]} \cap Conns)
  /\ backlog' = Append(backlog, [kind |-> "W", of |-> conns + 1])
  /\ WorkerGoto(w, IF wPc[w] = "connect" THEN "recv" ELSE "null")
  /\ UNCHANGED <<server, threads, wQuery, wLeft, down, up, queries, history>>

WorkerRecv(w) ==
  LET c == wConn[w] IN
  /\ wPc[w] = "recv" /\ down[c] # <<>>
  /\ wQuery' = [wQuery EXCEPT ![w] = Head(down[c])]
  /\ down' = [down EXCEPT ![c] = Tail(@)]
  /\ WorkerGoto(w, "rank")
  /\ UNCHANGED <<backlog, server, threads, wConn, wLeft, up, broken, conns,
                 queries, history>>

(* The connection breaks while it waits for a query: it connects again,    *)
(* and goes on with the empty query ...                                    *)
WorkerRecvFails(w) ==
  /\ wPc[w] = "recv" /\ wConn[w] \in broken
  /\ WorkerGoto(w, "reconnect")
  /\ UNCHANGED <<backlog, server, threads, wConn, wQuery, wLeft, network,
                 conns, queries, history>>

(* ... for which Parse returns a null pointer that RankPages follows.      *)
WorkerDies(w) ==
  /\ wPc[w] = "null"
  /\ broken' = broken \cup {wConn[w]}
  /\ WorkerGoto(w, "dead")
  /\ UNCHANGED <<backlog, server, threads, wConn, wQuery, wLeft, down, up,
                 conns, queries, history>>

(* Mutant of WorkerRank: the number of results is one too high.            *)
WorkerRankMore(w, n) ==
  LET c == wConn[w] IN
  /\ wPc[w] = "rank" /\ c \notin broken
  /\ wLeft' = [wLeft EXCEPT ![w] = n]
  /\ up' = [up EXCEPT ![c] = Append(@, [kind |-> "num", n |-> n + 1])]
  /\ WorkerGoto(w, IF n = 0 THEN "recv" ELSE "send")
  /\ UNCHANGED <<backlog, server, threads, wConn, wQuery, down, broken, conns,
                 queries, history>>

(* The ranking is done, and send_and_reset begins its reply.               *)
WorkerRank(w, n) ==
  LET c == wConn[w] IN
  /\ wPc[w] = "rank" /\ c \notin broken
  /\ wLeft' = [wLeft EXCEPT ![w] = n]
  /\ up' = [up EXCEPT ![c] = Append(@, [kind |-> "num", n |-> n])]
  /\ WorkerGoto(w, IF n = 0 THEN "recv" ELSE "send")
  /\ UNCHANGED <<backlog, server, threads, wConn, wQuery, down, broken, conns,
                 queries, history>>

WorkerSend(w) ==
  LET c == wConn[w] IN
  /\ wPc[w] = "send" /\ c \notin broken
  /\ up' = [up EXCEPT ![c] = Append(@, [kind |-> "page", n |-> wLeft[w],
                                        query |-> wQuery[w]])]
  /\ wLeft' = [wLeft EXCEPT ![w] = @ - 1]
  /\ WorkerGoto(w, IF wLeft[w] = 1 THEN "recv" ELSE "send")
  /\ UNCHANGED <<backlog, server, threads, wConn, wQuery, down, broken, conns,
                 queries, history>>

(* A send throws: the results are dropped and the worker connects again.   *)
WorkerSendFails(w) ==
  /\ wPc[w] \in {"rank", "send"} /\ wConn[w] \in broken
  /\ wLeft' = [wLeft EXCEPT ![w] = 0]
  /\ WorkerGoto(w, "connect")
  /\ UNCHANGED <<backlog, server, threads, wConn, wQuery, network, conns,
                 queries, history>>

Worker(w) ==
  \/ WorkerConnect(w) \/ WorkerRecv(w) \/ WorkerRecvFails(w) \/ WorkerDies(w)
  \/ (\E n \in 0 .. MaxPages : WorkerRank(w, n))
  \/ WorkerSend(w) \/ WorkerSendFails(w)

(* The network breaks a connection; what has arrived can still be read.    *)
Break(c) ==
  /\ c <= conns /\ c \notin broken
  /\ broken' = broken \cup {c}
  /\ UNCHANGED <<backlog, server, threads, workers, down, up, conns, queries,
                 history>>

Next ==
  \/ AskQuery \/ Accept \/ MainThread
  \/ \E b \in Indices : Asker(b)
  \/ \E w \in Workers : Worker(w)
  \/ \E c \in Conns : Break(c)

Spec == Init /\ [][Next]_vars

(* The server's threads run, the 60 seconds pass, and a worker that has    *)
(* begun a reply goes on with it.  Nothing makes a worker rank in time.    *)
Fairness ==
  /\ WF_vars(MainThread)
  /\ \A b \in Indices : WF_vars(Asker(b))
  /\ \A w \in Workers : WF_vars(WorkerSend(w))

FairSpec == Spec /\ Fairness

-----------------------------------------------------------------------------
(* Types; a thread expects pages only while it reads them, and the main    *)
(* thread has a descriptor when it serves somebody.                        *)
TypeOK ==
  /\ fds \in [Fds -> Conns \cup {Client, NoConn}]
  /\ \A b \in Indices : socketsToWorkers[b].key \in Fds \cup {NoKey}
  /\ sPc \in {"accept", "hello", "spawn", "answer"}
  /\ sPc # "accept" <=> sFd \in Fds
  /\ it \in 0 .. TableSize
  /\ tPc \in [Indices -> {"none", "send", "num", "pages", "erase", "ended"}]
  /\ \A b \in Indices : left[b] \in 0 .. MaxPages
                        /\ (left[b] > 0 <=> tPc[b] = "pages")
  /\ wPc \in [Workers -> {"connect", "recv", "rank", "send", "reconnect",
                          "null", "dead"}]
  /\ wConn \in [Workers -> Conns \cup {NoConn}]
  /\ broken \subseteq Conns /\ failed \subseteq Conns

(* The descriptors in the set are open, each for a connection of its own:  *)
(* copying, closing and the reuse of numbers never make a socket of the    *)
(* set refer to somebody else.                                             *)
SocketsDistinct ==
  /\ \A f \in Sockets : fds[f] \in Conns
  /\ \A b, c \in InUse(socketsToWorkers) :
       Peer(b) = Peer(c) => b = c

(* assert( success ): the socket that accept returned is not in the set.   *)
InsertSucceeds == sPc = "hello" => ~Present(socketsToWorkers, sFd)

(* The sockets in the set refer to open connections, one each, and the one *)
(* that is inserted next to another.                                       *)
SetOfSockets == SocketsDistinct /\ InsertSucceeds

(* The answer to a query holds results of that query, except over a        *)
(* connection that has been given up before: its late reply to an earlier  *)
(* query is taken for the reply to this one.                               *)
AnswersOwnQuery ==
  \A q \in Queries : answers[q] # NoAnswer =>
    \A r \in answers[q] : r.query = q \/ r.conn \in failed

(* When the answer is sent no worker that was asked in good time is left   *)
(* out: it has been given up for this query, or a thread has read its      *)
(* reply to the end.                                                       *)
ReadToEnd ==
  sPc = "answer" =>
    \A c \in asked \ failed :
      /\ down[c] = <<>> /\ up[c] = <<>>
      /\ \E b \in Indices : Peer(b) = c /\ tPc[b] = "ended"

(* Answers hold what their own query was answered, of every worker that    *)
(* has not been given up for it.                                           *)
AnswersComplete == AnswersOwnQuery /\ ReadToEnd

(* Every query gets its answer, however slow the workers are.              *)
QueriesEnd == sPc = "spawn" ~> sPc = "accept"

(* What ask_workers says of a socket that failed: it is removed from the   *)
(* list of valid sockets.                                                  *)
FailedRemoved == \A b \in InUse(socketsToWorkers) : Peer(b) \notin removed

-----------------------------------------------------------------------------
(* Hash functions of the runs.  The first two descriptors collide: the     *)
(* socket of a worker that connects alone can be erased, and its bucket is *)
(* used again...                                                           *)
MCHash == [f \in Fds |-> IF f <= 2 THEN 0 ELSE f]

(* ... or no two do.                                                       *)
MCSpread == [f \in Fds |-> 2 * f]

=============================================================================
