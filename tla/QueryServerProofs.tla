-------------------------- MODULE QueryServerProofs --------------------------
(***************************************************************************)
(* Proofs about the set of worker sockets of QueryServer, for any number   *)
(* of workers, connections, queries and descriptors.                       *)
(*                                                                         *)
(* What keeps the set consistent is that a connection has one descriptor   *)
(* at a time (OneEach): inserting dups the accepted descriptor and then    *)
(* closes it.  A descriptor that the set knows, in a ghost as well, is     *)
(* open (KeysOpen) and stands in one bucket (KeysOnce), so that neither    *)
(* accept nor dup can return its number, and closing what a ghost kept     *)
(* closes nothing else.                                                    *)
(*                                                                         *)
(* Answers are complete because a connection that has not been given up    *)
(* carries at most one query and its reply (Agrees): the thread that reads *)
(* expects as many results as are under way or still with the worker, and  *)
(* between queries nothing is.                                             *)
(***************************************************************************)
EXTENDS QueryServer, LookupProofs

Messages == [kind : {"W", "Q"}, of : Nat]

Statuses == {"Empty", "Filled", "Ghost"}

Typed ==
  /\ fds \in [Fds -> Conns \cup {Client, NoConn}]
  /\ socketsToWorkers \in
       [Indices -> [status : Statuses, key : Fds \cup {NoKey}]]
  /\ backlog \in Seq(Messages)
  /\ conns \in 0 .. MaxConns /\ queries \in Nat

Key(b) == socketsToWorkers[b].key

KeysOpen ==
  \A b \in Indices :
    /\ Key(b) # NoKey => fds[Key(b)] \in Conns
    /\ socketsToWorkers[b].status = "Filled" => Key(b) # NoKey

KeysOnce ==
  \A b, c \in Indices : Key(b) = Key(c) /\ Key(b) # NoKey => b = c

OneEach ==
  \A f, g \in Fds : fds[f] \in Conns /\ fds[f] = fds[g] => f = g

(* What was accepted is known, what waits in the backlog is new.           *)
Accepted == \A f \in Fds : fds[f] \in Conns => fds[f] <= conns

Waiting(i) == i \in 1 .. Len(backlog) /\ backlog[i].kind = "W"

BacklogNew ==
  /\ \A i \in Nat : Waiting(i) =>
       /\ backlog[i].of \in 1 .. conns
       /\ \A f \in Fds : fds[f] # backlog[i].of
  /\ \A i, j \in Nat :
       Waiting(i) /\ Waiting(j) /\ backlog[i].of = backlog[j].of => i = j

Serving ==
  sPc # "accept" =>
    /\ sFd \in Fds
    /\ hello.kind = "W" => fds[sFd] \in Conns
    /\ \A b \in Indices : Key(b) # sFd

IInv ==
  Typed /\ KeysOpen /\ KeysOnce /\ OneEach /\ Accepted /\ BacklogNew /\ Serving

-----------------------------------------------------------------------------
LEMMA InitIInv == Init => IInv
<1> SUFFICES ASSUME Init PROVE IInv
  OBVIOUS
<1>1. /\ fds = [f \in Fds |-> NoConn] /\ backlog = <<>> /\ conns = 0
      /\ queries = 0 /\ sPc = "accept"
      /\ socketsToWorkers =
           [i \in Indices |-> [status |-> "Empty", key |-> NoKey]]
  BY DEF Init, NewBuckets, Bucket, Indices
<1>2. Typed
  BY <1>1, BoundsAssumption DEF Typed, Statuses, Messages
<1>3. KeysOpen /\ KeysOnce /\ OneEach /\ Accepted /\ Serving
  BY <1>1, ConnAssumption
  DEF KeysOpen, KeysOnce, Key, OneEach, Accepted, Serving
<1>4. BacklogNew
  BY <1>1 DEF BacklogNew, Waiting
<1>5. QED
  BY <1>2, <1>3, <1>4 DEF IInv

(* The steps of the askers, the workers and the network that leave the     *)
(* server's sockets alone                                                  *)
LEMMA Unrelated ==
  ASSUME IInv,
         UNCHANGED <<backlog, fds, socketsToWorkers, sPc, sFd, hello, conns,
                     queries>>
  PROVE  IInv'
BY DEF IInv, Typed, KeysOpen, KeysOnce, Key, OneEach, Accepted, BacklogNew,
       Waiting, Serving

(* A step of the main thread that keeps the descriptors                    *)
LEMMA Moving ==
  ASSUME IInv, sPc # "accept",
         UNCHANGED <<backlog, fds, socketsToWorkers, sFd, hello, conns,
                     queries>>
  PROVE  IInv'
BY DEF IInv, Typed, KeysOpen, KeysOnce, Key, OneEach, Accepted, BacklogNew,
       Waiting, Serving

(* Closing the connection it serves                                        *)
LEMMA ClosingPreserves ==
  ASSUME IInv, sPc # "accept", Closing(fds),
         UNCHANGED <<backlog, socketsToWorkers, conns, queries>>
  PROVE  IInv'
<1>1. fds' = [fds EXCEPT ![sFd] = NoConn] /\ sPc' = "accept"
  BY DEF Closing
<1>2. sFd \in Fds /\ \A b \in Indices : Key(b) # sFd
  BY DEF IInv, Serving
<1>3. Typed' /\ KeysOnce' /\ Serving'
  BY <1>1 DEF IInv, Typed, KeysOnce, Key, Serving
<1>4. \A f \in Fds : fds'[f] \in Conns => fds'[f] = fds[f]
  BY <1>1, ConnAssumption DEF IInv, Typed
<1>5. OneEach' /\ Accepted'
  BY <1>4 DEF IInv, OneEach, Accepted
<1>6. KeysOpen'
  BY <1>1, <1>2 DEF IInv, Typed, KeysOpen, Key
<1>7. BacklogNew'
  <2>1. \A i \in Nat : Waiting(i) => Waiting(i)' /\ backlog[i].of \in Conns
    BY BoundsAssumption DEF IInv, BacklogNew, Waiting, Conns, Typed
  <2>2. \A f \in Fds : fds'[f] = fds[f] \/ fds'[f] = NoConn
    BY <1>1 DEF IInv, Typed
  <2>3. QED
    BY <2>1, <2>2, ConnAssumption DEF IInv, BacklogNew, Waiting
<1>8. QED
  BY <1>3, <1>5, <1>6, <1>7 DEF IInv

LEMMA LowestFreeFree ==
  ASSUME Typed, CanOpen(1)
  PROVE  LowestFree(fds) \in Fds /\ fds[LowestFree(fds)] = NoConn
<1> DEFINE S == {f \in Fds : fds[f] = NoConn}
<1>1. S # {}
  BY FS_EmptySet DEF CanOpen
<1>2. S \subseteq Nat
  BY DEF Fds
<1>3. Least(S) \in S
  BY <1>1, <1>2, LeastExists
<1>4. QED
  BY <1>3 DEF LowestFree

LEMMA AcceptPreserves ==
  ASSUME IInv, Accept
  PROVE  IInv'
<1> DEFINE m == Head(backlog)
           k == LowestFree(fds)
           c == IF m.kind = "W" THEN m.of ELSE Client
<1>1. /\ fds' = [fds EXCEPT ![k] = c] /\ sFd' = k /\ hello' = m
      /\ backlog' = Tail(backlog) /\ backlog # <<>>
      /\ UNCHANGED <<socketsToWorkers, conns, queries>>
  BY DEF Accept
<1>2. k \in Fds /\ fds[k] = NoConn
  BY LowestFreeFree DEF IInv, Accept
<1>3. m = backlog[1] /\ Len(backlog) \in Nat /\ Len(backlog) >= 1
  BY <1>1 DEF IInv, Typed
<1>4. m.kind = "W" => Waiting(1)
  BY <1>3 DEF Waiting
<1>5. m.kind = "W" => m.of \in Conns /\ m.of <= conns
                      /\ \A f \in Fds : fds[f] # m.of
  BY <1>3, <1>4, BoundsAssumption DEF IInv, BacklogNew, Typed, Conns
<1> HIDE DEF m, k, c
<1>6. c \in Conns \cup {Client}
  BY <1>5 DEF c
<1>7. Client \notin Conns
  BY DEF Client, Conns
<1>8. Typed'
  BY <1>1, <1>2, <1>6 DEF IInv, Typed
<1>9. \A b \in Indices : Key(b) # k
  BY <1>2, ConnAssumption, HashAssumption DEF IInv, KeysOpen
<1>10. KeysOpen' /\ KeysOnce'
  BY <1>1, <1>2, <1>9 DEF IInv, Typed, KeysOpen, KeysOnce, Key
<1>11. OneEach'
  BY <1>1, <1>2, <1>5, <1>7 DEF IInv, Typed, OneEach, c
<1>12. Accepted'
  BY <1>1, <1>2, <1>5, <1>7 DEF IInv, Typed, Accepted, c
<1>13. Serving'
  BY <1>1, <1>2, <1>5, <1>9 DEF IInv, Typed, Serving, Key, c
<1>14. BacklogNew'
  <2>1. \A i \in Nat : Waiting(i)' => Waiting(i + 1)
                                      /\ backlog'[i] = backlog[i + 1]
    BY <1>1, <1>3 DEF Waiting, IInv, Typed
  <2>2. \A i \in Nat : Waiting(i)' =>
          backlog'[i].of # c /\ backlog'[i].of \in Conns
    BY <2>1, <1>3, <1>4, <1>7, BoundsAssumption
    DEF IInv, BacklogNew, c, Typed, Conns, Waiting
  <2>3. \A f \in Fds : fds'[f] = fds[f] \/ fds'[f] = c
    BY <1>1, <1>2 DEF IInv, Typed
  <2>4. ASSUME NEW i \in Nat, Waiting(i)'
        PROVE  /\ backlog'[i].of \in 1 .. conns
               /\ \A f \in Fds : fds'[f] # backlog'[i].of
    <3>1. Waiting(i + 1) /\ backlog'[i] = backlog[i + 1] /\ i + 1 \in Nat
      BY <2>1, <2>4
    <3>2. QED
      BY <2>2, <2>3, <2>4, <3>1 DEF IInv, BacklogNew
  <2>5. ASSUME NEW i \in Nat, NEW j \in Nat, Waiting(i)', Waiting(j)',
               backlog'[i].of = backlog'[j].of
        PROVE  i = j
    <3>1. i + 1 = j + 1
      BY <2>1, <2>5 DEF IInv, BacklogNew
    <3>2. QED
      BY <3>1
  <2>6. QED
    BY <2>4, <2>5, <1>1 DEF BacklogNew
<1>15. QED
  BY <1>8, <1>10, <1>11, <1>12, <1>13, <1>14 DEF IInv

(* A worker's new connection is waiting, and known to nobody else.         *)
LEMMA ConnectPreserves ==
  ASSUME IInv, NEW w \in Workers, WorkerConnect(w)
  PROVE  IInv'
<1> DEFINE m == [kind |-> "W", of |-> conns + 1]
<1>1. /\ backlog' = Append(backlog, m) /\ conns' = conns + 1
      /\ conns < MaxConns
      /\ UNCHANGED <<fds, socketsToWorkers, sPc, sFd, hello, queries>>
  BY DEF WorkerConnect, server
<1>2. conns \in Nat /\ MaxConns \in Nat /\ Len(backlog) \in Nat
  BY BoundsAssumption DEF IInv, Typed
<1>3. Typed'
  BY <1>1, <1>2 DEF IInv, Typed, Messages
<1>4. KeysOpen' /\ KeysOnce' /\ OneEach' /\ Serving'
  BY <1>1 DEF IInv, KeysOpen, KeysOnce, Key, OneEach, Serving
<1>5. Accepted'
  BY <1>1, <1>2 DEF IInv, Typed, Accepted, Conns
<1>6. \A i \in Nat : Waiting(i)' =>
        \/ Waiting(i) /\ backlog'[i] = backlog[i]
        \/ i = Len(backlog) + 1 /\ backlog'[i].of = conns + 1
  BY <1>1, <1>2 DEF IInv, Typed, Waiting
<1>7. \A f \in Fds : fds[f] # conns + 1
  BY <1>1, <1>2 DEF IInv, Typed, Accepted, Conns
<1>8. BacklogNew'
  <2>1. \A i \in Nat : Waiting(i)' => backlog'[i].of \in 1 .. conns'
    <3>1. conns' = conns + 1
      BY <1>1
    <3>2. conns + 1 \in 1 .. conns' /\ 1 .. conns \subseteq 1 .. conns'
      BY <3>1, <1>2
    <3>3. \A i \in Nat : Waiting(i) => backlog[i].of \in 1 .. conns
      BY DEF IInv, BacklogNew
    <3> HIDE DEF m
    <3>4. QED
      BY <1>6, <3>2, <3>3
  <2>2. \A i \in Nat : Waiting(i)' => \A f \in Fds : fds'[f] # backlog'[i].of
    BY <1>1, <1>6, <1>7 DEF IInv, BacklogNew
  <2>3. \A i \in Nat : Waiting(i) => backlog[i].of # conns + 1
    BY <1>2 DEF IInv, BacklogNew
  <2>4. \A i, j \in Nat :
          Waiting(i)' /\ Waiting(j)' /\ backlog'[i].of = backlog'[j].of => i = j
    BY <1>6, <2>3 DEF IInv, BacklogNew
  <2>5. QED
    BY <2>1, <2>2, <2>4 DEF BacklogNew
<1>9. QED
  BY <1>3, <1>4, <1>5, <1>8 DEF IInv

LEMMA AskPreserves ==
  ASSUME IInv, AskQuery
  PROVE  IInv'
<1>1. /\ backlog' = Append(backlog, [kind |-> "Q", of |-> queries + 1])
      /\ queries' = queries + 1
      /\ UNCHANGED <<fds, socketsToWorkers, sPc, sFd, hello, conns>>
  BY DEF AskQuery, server
<1>2. Len(backlog) \in Nat
  BY DEF IInv, Typed
<1>3. \A i \in Nat : Waiting(i)' => Waiting(i) /\ backlog'[i] = backlog[i]
  BY <1>1, <1>2 DEF IInv, Typed, Waiting
<1>4. BacklogNew'
  BY <1>1, <1>3 DEF IInv, BacklogNew
<1>5. KeysOpen' /\ KeysOnce' /\ OneEach' /\ Serving' /\ Accepted'
  BY <1>1 DEF IInv, KeysOpen, KeysOnce, Key, OneEach, Serving, Accepted
<1>6. Typed'
  BY <1>1 DEF IInv, Typed, Messages
<1>7. QED
  BY <1>4, <1>5, <1>6 DEF IInv

(* Erasing makes a ghost of a bucket, which keeps its descriptor.          *)
LEMMA ErasePreserves ==
  ASSUME IInv, NEW a \in Indices, AskErase(a)
  PROVE  IInv'
<1>1. UNCHANGED <<backlog, fds, sPc, sFd, hello, conns, queries>>
  BY DEF AskErase
<1>2. \/ UNCHANGED socketsToWorkers
      \/ \E f \in Fds : socketsToWorkers' = Erased(socketsToWorkers, f)
  BY DEF AskErase
<1> DEFINE Kept ==
            /\ socketsToWorkers' \in
                 [Indices -> [status : Statuses, key : Fds \cup {NoKey}]]
            /\ \A b \in Indices :
                 /\ Key(b)' = Key(b)
                 /\ socketsToWorkers'[b].status = "Filled" =>
                      socketsToWorkers[b].status = "Filled"
<1>3. Kept
  <2>1. CASE UNCHANGED socketsToWorkers
    BY <2>1 DEF IInv, Typed, Key
  <2>2. ASSUME NEW f \in Fds, socketsToWorkers' = Erased(socketsToWorkers, f)
        PROVE  Kept
    <3> DEFINE x == IndexOf(socketsToWorkers, f)
    <3>1. socketsToWorkers' = [socketsToWorkers EXCEPT ![x].status = "Ghost"]
      BY <2>2 DEF Erased
    <3> HIDE DEF x
    <3>2. \A b \in Indices :
            /\ b # x => socketsToWorkers'[b] = socketsToWorkers[b]
            /\ b = x => socketsToWorkers'[b] =
                          [socketsToWorkers[b] EXCEPT !.status = "Ghost"]
      BY <3>1 DEF IInv, Typed
    <3>3. \A b \in Indices :
            socketsToWorkers[b] \in [status : Statuses, key : Fds \cup {NoKey}]
      BY DEF IInv, Typed
    <3>4. ASSUME NEW b \in Indices
          PROVE  /\ socketsToWorkers'[b] \in
                      [status : Statuses, key : Fds \cup {NoKey}]
                 /\ Key(b)' = Key(b)
                 /\ socketsToWorkers'[b].status = "Filled" =>
                      socketsToWorkers[b].status = "Filled"
      <4>1. CASE b # x
        BY <3>2, <3>3, <4>1 DEF Key
      <4>2. CASE b = x
        <5>1. PICK r : r = [socketsToWorkers[b] EXCEPT !.status = "Ghost"]
          OBVIOUS
        <5>2. /\ r \in [status : Statuses, key : Fds \cup {NoKey}]
              /\ r.status = "Ghost" /\ r.key = socketsToWorkers[b].key
          BY <3>3, <5>1 DEF Statuses
        <5>3. QED
          BY <3>2, <4>2, <5>1, <5>2 DEF Key
      <4>3. QED
        BY <4>1, <4>2
    <3>5. socketsToWorkers' = [b \in Indices |-> socketsToWorkers'[b]]
      BY <3>1 DEF IInv, Typed
    <3>6. QED
      BY <3>4, <3>5
  <2>3. QED
    BY <1>2, <2>1, <2>2
<1>4. QED
  BY <1>1, <1>3
  DEF IInv, Typed, KeysOpen, KeysOnce, OneEach, Accepted, BacklogNew, Waiting,
      Serving

-----------------------------------------------------------------------------
(* There are fewer sockets in the set than buckets, since each of them is  *)
(* a connection of its own.                                                *)
LEMMA BucketLeft ==
  ASSUME IInv
  PROVE  InUse(socketsToWorkers) # 0 .. TableSize - 1
<1> SUFFICES ASSUME InUse(socketsToWorkers) = Indices PROVE FALSE
  BY DEF Indices
<1> DEFINE conn == [b \in Indices |-> fds[Key(b)]]
<1>1. \A b \in Indices : Key(b) \in Fds /\ fds[Key(b)] \in Conns
  BY DEF IInv, Typed, KeysOpen, Key, InUse
<1>2. conn \in [Indices -> Conns]
  BY <1>1
<1>3. \A b, c \in Indices : conn[b] = conn[c] => b = c
  BY <1>1, HashAssumption DEF IInv, OneEach, KeysOnce
<1>4. Cardinality(Indices) = TableSize /\ IsFiniteSet(Indices)
  BY FS_Interval, BoundsAssumption DEF Indices
<1>5. Cardinality(Conns) = MaxConns /\ IsFiniteSet(Conns)
  BY FS_Interval, BoundsAssumption DEF Conns
<1> HIDE DEF conn
<1>6. \E b, c \in Indices : b # c /\ conn[b] = conn[c]
  BY <1>2, <1>4, <1>5, FS_PigeonHole, BoundsAssumption
<1>7. QED
  BY <1>3, <1>6

LEMMA NewWorkerPreserves ==
  ASSUME IInv, NewWorker
  PROVE  IInv'
<1> DEFINE copy == LowestFree(fds)
           x    == FreeIndex(socketsToWorkers, sFd)
           old  == Key(x)
<1>1. /\ socketsToWorkers' =
           [socketsToWorkers EXCEPT ![x] = Bucket("Filled", copy)]
      /\ fds' = [[f \in Fds |-> IF f = copy THEN fds[sFd]
                                ELSE IF f = old THEN NoConn ELSE fds[f]]
                   EXCEPT ![sFd] = NoConn]
      /\ sPc' = "accept" /\ UNCHANGED <<backlog, conns, queries>>
  BY DEF NewWorker, Closing, Put, Key
<1>2. copy \in Fds /\ fds[copy] = NoConn
  BY LowestFreeFree DEF IInv, NewWorker
<1>3. sFd \in Fds /\ fds[sFd] \in Conns /\ \A b \in Indices : Key(b) # sFd
  BY DEF IInv, Serving, NewWorker
<1>4. x \in Indices
  <2>1. IsTable(socketsToWorkers, TableSize)
    BY BoundsAssumption DEF IsTable, IInv, Typed, Indices
  <2>2. HashOf[sFd] \in Nat
    BY <1>3, HashAssumption
  <2>3. QED
    BY <2>1, <2>2, BucketLeft, FreeIndexFree DEF Indices
<1> HIDE DEF copy, x
<1>5. copy # sFd /\ \A b \in Indices : Key(b) # copy
  BY <1>2, <1>3, ConnAssumption, HashAssumption DEF IInv, KeysOpen
<1>6. /\ \A b \in Indices \ {x} : socketsToWorkers'[b] = socketsToWorkers[b]
      /\ socketsToWorkers'[x] = [status |-> "Filled", key |-> copy]
  BY <1>1, <1>4 DEF IInv, Typed, Bucket
<1>7. /\ fds'[copy] = fds[sFd]
      /\ fds'[sFd] = NoConn
      /\ \A f \in Fds \ {copy, sFd, old} : fds'[f] = fds[f]
      /\ \A f \in Fds : f = old => fds'[f] = NoConn
  BY <1>1, <1>2, <1>3, <1>4, <1>5
<1>8. Typed'
  <2>1. fds' \in [Fds -> Conns \cup {Client, NoConn}]
    BY <1>1, <1>3 DEF IInv, Typed
  <2>2. Bucket("Filled", copy) \in [status : Statuses, key : Fds \cup {NoKey}]
    BY <1>2 DEF Bucket, Statuses
  <2>3. QED
    BY <1>1, <2>1, <2>2 DEF IInv, Typed
<1>9. KeysOpen'
  <2>1. ASSUME NEW b \in Indices \ {x}, Key(b) # NoKey
        PROVE  fds'[Key(b)] \in Conns
    <3>1. Key(b) \in Fds \ {copy, sFd, old}
      BY <1>3, <1>4, <1>5, <2>1 DEF IInv, Typed, KeysOnce, Key
    <3>2. QED
      BY <1>7, <2>1, <3>1 DEF IInv, KeysOpen
  <2>2. fds'[copy] \in Conns /\ copy # NoKey
    BY <1>2, <1>3, <1>7, HashAssumption
  <2>3. QED
    BY <1>6, <2>1, <2>2 DEF IInv, KeysOpen, Key
<1>10. KeysOnce'
  BY <1>5, <1>6 DEF IInv, KeysOnce, Key
<1>11. \A f \in Fds : fds'[f] \in Conns =>
         \/ f = copy /\ fds'[f] = fds[sFd]
         \/ f # sFd /\ fds'[f] = fds[f]
  BY <1>7, ConnAssumption
<1>12. OneEach' /\ Accepted'
  BY <1>1, <1>3, <1>11 DEF IInv, OneEach, Accepted
<1>13. BacklogNew'
  <2>1. \A i \in Nat : Waiting(i)' => Waiting(i) /\ backlog'[i] = backlog[i]
    BY <1>1 DEF Waiting
  <2>2. \A i \in Nat : Waiting(i) => backlog[i].of \in Conns
    BY BoundsAssumption DEF IInv, BacklogNew, Typed, Conns
  <2>3. \A i \in Nat : Waiting(i) => \A f \in Fds : fds'[f] # backlog[i].of
    BY <1>3, <1>11, <2>2 DEF IInv, BacklogNew
  <2>4. QED
    BY <1>1, <2>1, <2>3 DEF IInv, BacklogNew
<1>14. Serving'
  BY <1>1 DEF Serving
<1>15. QED
  BY <1>8, <1>9, <1>10, <1>12, <1>13, <1>14 DEF IInv

LEMMA NextPreserves ==
  ASSUME IInv, [Next]_vars
  PROVE  IInv'
<1>1. CASE AskQuery
  BY <1>1, AskPreserves
<1>2. CASE Accept
  BY <1>2, AcceptPreserves
<1>3. CASE NewWorker
  BY <1>3, NewWorkerPreserves
<1>4. CASE BeginQuery \/ SpawnNext \/ Join
  <2>1. /\ sPc # "accept"
        /\ UNCHANGED <<backlog, fds, socketsToWorkers, sFd, hello, conns,
                       queries>>
    BY <1>4 DEF BeginQuery, SpawnNext, Join
  <2>2. QED
    BY <2>1, Moving
<1>5. CASE PeerGone \/ InvalidQuery \/ Answer
  <2>1. /\ sPc # "accept" /\ Closing(fds)
        /\ UNCHANGED <<backlog, socketsToWorkers, conns, queries>>
    BY <1>5 DEF PeerGone, InvalidQuery, Answer
  <2>2. QED
    BY <2>1, ClosingPreserves
<1>6. ASSUME NEW b \in Indices, Asker(b)
      PROVE  IInv'
  <2>1. CASE AskErase(b)
    BY <2>1, ErasePreserves
  <2>2. CASE AskSend(b) \/ AskNum(b) \/ AskPage(b) \/ AskFails(b)
    BY <2>2, Unrelated DEF AskSend, AskNum, AskPage, AskFails, server
  <2>3. QED
    BY <1>6, <2>1, <2>2 DEF Asker
<1>7. ASSUME NEW w \in Workers, Worker(w)
      PROVE  IInv'
  <2>1. CASE WorkerConnect(w)
    BY <2>1, ConnectPreserves
  <2>2. CASE WorkerRecv(w) \/ WorkerRecvFails(w) \/ WorkerDies(w)
    BY <2>2, Unrelated DEF WorkerRecv, WorkerRecvFails, WorkerDies, server
  <2>3. ASSUME NEW n \in 0 .. MaxPages, WorkerRank(w, n)
        PROVE  IInv'
    BY <2>3, Unrelated DEF WorkerRank, server
  <2>4. CASE WorkerSend(w) \/ WorkerSendFails(w)
    BY <2>4, Unrelated DEF WorkerSend, WorkerSendFails, server
  <2>5. QED
    BY <1>7, <2>1, <2>2, <2>3, <2>4 DEF Worker
<1>8. ASSUME NEW c \in Conns, Break(c)
      PROVE  IInv'
  BY <1>8, Unrelated DEF Break, server
<1>9. CASE UNCHANGED vars
  BY <1>9, Unrelated DEF vars, server
<1>10. QED
  BY <1>1, <1>2, <1>3, <1>4, <1>5, <1>6, <1>7, <1>8, <1>9 DEF Next, MainThread

LEMMA Invariant == Spec => []IInv
<1>1. IInv /\ [Next]_vars => IInv'
  BY NextPreserves
<1>2. QED
  BY InitIInv, <1>1, PTL DEF Spec

-----------------------------------------------------------------------------
(* Whatever connects, fails and is erased, the set of worker sockets holds *)
(* open descriptors of different connections.                              *)
THEOREM SocketsStayDistinct == Spec => []SocketsDistinct
<1>1. IInv => SocketsDistinct
  <2> SUFFICES ASSUME IInv PROVE SocketsDistinct
    OBVIOUS
  <2>1. \A b \in InUse(socketsToWorkers) :
          b \in Indices /\ Key(b) \in Fds /\ fds[Key(b)] \in Conns
                        /\ Key(b) # NoKey
    BY DEF IInv, Typed, KeysOpen, Key, InUse
  <2>2. \A b \in InUse(socketsToWorkers) : Peer(b) = fds[Key(b)]
    BY <2>1 DEF Peer, Key
  <2>3. \A f \in Sockets : fds[f] \in Conns
    BY <2>1 DEF Sockets, Key
  <2>4. \A b, c \in InUse(socketsToWorkers) : Peer(b) = Peer(c) => b = c
    BY <2>1, <2>2 DEF IInv, OneEach, KeysOnce
  <2>5. QED
    BY <2>3, <2>4 DEF SocketsDistinct
<1>2. QED
  BY <1>1, Invariant, PTL

(* The assertion of handle_new_worker holds: the number that accept        *)
(* returned is never found in the set.                                     *)
THEOREM InsertAlwaysSucceeds == Spec => []InsertSucceeds
<1>1. IInv => InsertSucceeds
  <2> SUFFICES ASSUME IInv, sPc = "hello", Present(socketsToWorkers, sFd)
               PROVE  FALSE
    BY DEF InsertSucceeds
  <2>1. sFd \in Fds /\ \A b \in Indices : Key(b) # sFd
    BY DEF IInv, Serving
  <2>2. NumBuckets(socketsToWorkers) = TableSize /\ TableSize \in Nat \ {0}
    <3>1. IsTable(socketsToWorkers, TableSize)
      BY BoundsAssumption DEF IsTable, IInv, Typed, Indices
    <3>2. QED
      BY <3>1, BucketsCounted DEF IsTable
  <2>3. PICK d \in 0 .. TableSize - 1 :
          Holds(socketsToWorkers, Slot(socketsToWorkers, sFd, d), sFd)
    BY <2>2 DEF Present, Hits, Distances
  <2>4. Slot(socketsToWorkers, sFd, d) \in Indices
    <3>1. HashOf[sFd] + d \in Nat
      BY <2>1, HashAssumption
    <3>2. QED
      BY <2>2, <3>1 DEF Slot, Indices
  <2>5. QED
    BY <2>1, <2>3, <2>4 DEF Holds, Key
<1>2. QED
  BY <1>1, Invariant, PTL

(* Copies, closed connections and reused numbers never put a socket into   *)
(* the set twice, nor one that refers to somebody else.                    *)
THEOREM SetOfSocketsSound == Spec => []SetOfSockets
<1>1. SocketsDistinct /\ InsertSucceeds => SetOfSockets
  BY DEF SetOfSockets
<1>2. QED
  BY <1>1, SocketsStayDistinct, InsertAlwaysSucceeds, PTL

-----------------------------------------------------------------------------
(* The threads of the askers                                               *)
AskerPcs == {"none", "send", "num", "pages", "erase", "ended"}

Threads ==
  /\ tPc \in [Indices -> AskerPcs] /\ left \in [Indices -> Nat]
  /\ \A b \in Indices : tPc[b] = "pages" => left[b] > 0
  /\ sPc \in {"accept", "hello"} => \A b \in Indices : tPc[b] = "none"
  /\ sPc = "answer" => Ended
  /\ sPc = "spawn" => it \in 0 .. TableSize /\ \A b \in Indices : tPc[b] # "none" => b < it

(* A socket that is asked for the current query has its thread, or is      *)
(* still ahead of the iterator.                                            *)
Reached(c) ==
  \E b \in Indices :
    /\ Peer(b) = c
    /\ tPc[b] # "none" \/ (sPc = "spawn" /\ b \in InUse(socketsToWorkers) /\ it <= b)

AllReached ==
  /\ asked \subseteq Conns
  /\ sPc \in {"spawn", "answer"} => \A c \in asked : Reached(c)

WorkerPcs == {"connect", "recv", "rank", "send", "reconnect", "null", "dead"}

(* A connection belongs to one worker.                                     *)
Working ==
  /\ wPc \in [Workers -> WorkerPcs]
  /\ wConn \in [Workers -> Conns \cup {NoConn}]
  /\ wLeft \in [Workers -> Nat] /\ wQuery \in [Workers -> Nat]
  /\ \A w \in Workers : wPc[w] # "connect" => wConn[w] \in Conns
  /\ \A w \in Workers : wPc[w] = "send" => wLeft[w] > 0
  /\ \A w \in Workers : wConn[w] \in Conns => wConn[w] <= conns
  /\ \A v, w \in Workers : wConn[v] = wConn[w] /\ wConn[v] \in Conns => v = w

(* What is under way on a connection                                       *)
Reply == [kind : {"num"}, n : Nat] \cup [kind : {"page"}, n : Nat, query : Nat]

Channels ==
  hello.of \in Nat /\ down \in [Conns -> Seq(Nat)] /\ up \in [Conns -> Seq(Reply)]

(* A reply of l pages of which s has arrived, or what is left of it        *)
Replying(c, s, l) ==
  /\ down[c] = <<>>
  /\ \A i \in DOMAIN s : s[i].kind = "page" /\ s[i].query = hello.of
  /\ Len(s) <= l
  /\ \A w \in Workers : wConn[w] = c =>
       /\ wPc[w] # "rank"
       /\ wPc[w] = "send" => wQuery[w] = hello.of /\ Len(s) + wLeft[w] <= l

(* The query is with the worker, on its way to it or lost.                 *)
Ranking(c) ==
  /\ up[c] = <<>> /\ down[c] \in {<<>>, <<hello.of>>}
  /\ \A w \in Workers : wConn[w] = c =>
       /\ wPc[w] # "send"
       /\ wPc[w] = "rank" => down[c] = <<>> /\ wQuery[w] = hello.of

Begun(c) ==
  /\ up[c] # <<>> /\ Head(up[c]).kind = "num"
  /\ Replying(c, Tail(up[c]), Head(up[c]).n)

(* A connection and the thread that reads from it agree.                   *)
Agrees(c) ==
  /\ \A b \in Indices : Peer(b) = c =>
       /\ tPc[b] = "num" => Ranking(c) \/ Begun(c)
       /\ tPc[b] = "pages" => Replying(c, up[c], left[b])
  /\ (\A b \in Indices : Peer(b) = c => tPc[b] \notin {"num", "pages"}) => Replying(c, up[c], 0)

Conversations == \A c \in Conns \ failed : Agrees(c)

(* What has been collected for the current query                           *)
Collected ==
  /\ DOMAIN answers = Queries
  /\ sPc \in {"accept", "hello"} => topPages = {}
  /\ \A r \in topPages : r.query = hello.of \/ r.conn \in failed

AnswersInv ==
  /\ Threads /\ AllReached /\ Working /\ Channels
  /\ Conversations /\ Collected /\ AnswersOwnQuery

-----------------------------------------------------------------------------
(* No two buckets have sockets of one connection, ghosts included.         *)
LEMMA PeerOnce ==
  ASSUME IInv, NEW a \in Indices, NEW b \in Indices, Peer(a) = Peer(b), Peer(a) \in Conns
  PROVE  a = b
<1>1. Key(a) \in Fds /\ Key(b) \in Fds /\ fds[Key(a)] = Peer(a) /\ fds[Key(b)] = Peer(b)
  BY ConnAssumption DEF Peer, Key
<1>2. Key(a) = Key(b)
  BY <1>1 DEF IInv, OneEach
<1>3. QED
  BY <1>1, <1>2, HashAssumption DEF IInv, KeysOnce

LEMMA IndicesAre == Indices \subseteq Nat /\ \A b \in Indices : b < TableSize /\ TableSize \in Nat
BY BoundsAssumption DEF Indices

LEMMA TableEnd == IInv => End(socketsToWorkers) = TableSize
<1> SUFFICES ASSUME IInv PROVE End(socketsToWorkers) = TableSize
  OBVIOUS
<1>1. IsTable(socketsToWorkers, TableSize)
  BY BoundsAssumption DEF IsTable, IInv, Typed, Indices
<1>2. QED
  BY <1>1, BucketsCounted DEF IsTable, End

(* The iterator goes through the buckets that are in use.                  *)
LEMMA BeginsFirst ==
  ASSUME IInv
  PROVE  /\ Begin(socketsToWorkers) \in 0 .. TableSize
         /\ \A b \in InUse(socketsToWorkers) : Begin(socketsToWorkers) <= b
<1>1. InUse(socketsToWorkers) \subseteq Indices
  BY DEF IInv, Typed, InUse
<1>2. CASE InUse(socketsToWorkers) = {}
  BY <1>2, BoundsAssumption DEF Begin
<1>3. CASE InUse(socketsToWorkers) # {}
  <2>1. /\ Least(InUse(socketsToWorkers)) \in InUse(socketsToWorkers)
        /\ \A b \in InUse(socketsToWorkers) : Least(InUse(socketsToWorkers)) <= b
    BY <1>1, <1>3, IndicesAre, LeastExists
  <2>2. Begin(socketsToWorkers) = Least(InUse(socketsToWorkers))
    BY <1>3 DEF Begin
  <2> HIDE DEF Begin, Least
  <2>3. QED
    BY <1>1, <2>1, <2>2, BoundsAssumption DEF Indices
<1>4. QED
  BY <1>2, <1>3

LEMMA FollowsNext ==
  ASSUME IInv, NEW i \in Indices
  PROVE  /\ Following(socketsToWorkers, i) \in 0 .. TableSize
         /\ i < Following(socketsToWorkers, i)
         /\ \A b \in InUse(socketsToWorkers) : i < b => Following(socketsToWorkers, i) <= b
<1> DEFINE later == {j \in InUse(socketsToWorkers) : j > i}
<1>1. later \subseteq Indices
  BY DEF IInv, Typed, InUse
<1>2. CASE later = {}
  <2>1. Following(socketsToWorkers, i) = TableSize
    BY <1>2, TableEnd DEF Following
  <2>2. \A b \in InUse(socketsToWorkers) : ~(i < b)
    <3>1. InUse(socketsToWorkers) \subseteq Nat /\ i \in Nat
      BY IndicesAre DEF IInv, Typed, InUse
    <3>2. QED
      BY <1>2, <3>1
  <2>3. QED
    BY <2>1, <2>2, IndicesAre
<1>3. CASE later # {}
  <2>1. Least(later) \in later /\ \A b \in later : Least(later) <= b
    BY <1>1, <1>3, IndicesAre, LeastExists
  <2>2. Following(socketsToWorkers, i) = Least(later)
    BY <1>3 DEF Following
  <2>3. PICK k : k = Following(socketsToWorkers, i)
    OBVIOUS
  <2>4. k \in Indices /\ k > i /\ \A b \in InUse(socketsToWorkers) : b > i => k <= b
    BY <1>1, <2>1, <2>2, <2>3
  <2>5. k \in 0 .. TableSize /\ i < k
    BY <2>4, IndicesAre
  <2>6. \A b \in InUse(socketsToWorkers) : i < b => k <= b
    <3>1. InUse(socketsToWorkers) \subseteq Nat /\ i \in Nat
      BY IndicesAre DEF IInv, Typed, InUse
    <3>2. QED
      BY <2>4, <3>1
  <2>7. QED
    BY <2>3, <2>5, <2>6
<1>4. QED
  BY <1>2, <1>3

(* Erasing makes a ghost of the thread's own bucket, and of no other.      *)
LEMMA ErasesOwn ==
  ASSUME IInv, NEW a \in Indices, AskErase(a)
  PROVE  \A b \in Indices :
           /\ Peer(b)' = Peer(b)
           /\ b # a /\ b \in InUse(socketsToWorkers) => b \in InUse(socketsToWorkers)'
<1> DEFINE f == Key(a)
<1>1. CASE UNCHANGED socketsToWorkers
  BY <1>1 DEF AskErase, Peer, InUse
<1>2. ASSUME f \in Fds, Present(socketsToWorkers, f), socketsToWorkers' = Erased(socketsToWorkers, f)
      PROVE  \A b \in Indices :
               /\ Peer(b)' = Peer(b)
               /\ b # a /\ b \in InUse(socketsToWorkers) => b \in InUse(socketsToWorkers)'
  <2>1. PICK d : d = Least(Hits(socketsToWorkers, f))
    OBVIOUS
  <2>2. d \in Hits(socketsToWorkers, f)
    <3>1. Hits(socketsToWorkers, f) \subseteq Nat
      BY TableEnd, BoundsAssumption DEF Hits, Distances, End
    <3>2. QED
      BY <1>2, <2>1, <3>1, LeastExists DEF Present
  <2>3. PICK x : x = IndexOf(socketsToWorkers, f)
    OBVIOUS
  <2>4. Holds(socketsToWorkers, x, f)
    BY <2>1, <2>2, <2>3 DEF IndexOf, Hits
  <2>5. x = Slot(socketsToWorkers, f, d)
    BY <2>1, <2>3 DEF IndexOf
  <2>6. x \in Indices
    <3>1. HashOf[f] + d \in Nat
      BY <1>2, <2>2, HashAssumption, TableEnd, BoundsAssumption DEF Hits, Distances, End
    <3>2. TableSize \in Nat \ {0} /\ NumBuckets(socketsToWorkers) = TableSize
      BY TableEnd, BoundsAssumption DEF End
    <3>3. QED
      BY <2>5, <3>1, <3>2 DEF Slot, Indices
  <2>7. x = a
    BY <1>2, <2>4, <2>6, HashAssumption DEF IInv, KeysOnce, Holds, Key
  <2>8. socketsToWorkers' = [socketsToWorkers EXCEPT ![a].status = "Ghost"]
    BY <1>2, <2>3, <2>7 DEF Erased
  <2>9. \A b \in Indices : b # a => socketsToWorkers'[b] = socketsToWorkers[b]
    BY <2>8 DEF IInv, Typed
  <2>10. socketsToWorkers'[a].key = socketsToWorkers[a].key
    <3>1. PICK r : r = [socketsToWorkers[a] EXCEPT !.status = "Ghost"]
      OBVIOUS
    <3>2. socketsToWorkers[a] \in [status : Statuses, key : Fds \cup {NoKey}]
      BY DEF IInv, Typed
    <3>3. r.key = socketsToWorkers[a].key
      BY <3>1, <3>2
    <3>4. socketsToWorkers'[a] = r
      BY <2>8, <3>1 DEF IInv, Typed
    <3>5. QED
      BY <3>3, <3>4
  <2>11. DOMAIN socketsToWorkers' = Indices
    BY <2>8 DEF IInv, Typed
  <2>12. fds' = fds
    BY DEF AskErase
  <2>13. \A b \in Indices : socketsToWorkers'[b].key = socketsToWorkers[b].key
    BY <2>9, <2>10
  <2>14. ASSUME NEW b \in Indices PROVE Peer(b)' = Peer(b)
    BY <2>12, <2>13 DEF Peer
  <2>15. ASSUME NEW b \in Indices, b # a, b \in InUse(socketsToWorkers)
         PROVE  b \in InUse(socketsToWorkers)'
    BY <2>9, <2>11, <2>15 DEF InUse
  <2>16. QED
    BY <2>14, <2>15
<1>3. QED
  BY <1>1, <1>2 DEF AskErase, Key

-----------------------------------------------------------------------------
(* The threads of the askers                                               *)

(* The bucket of a thread that runs; its steps change nothing else there.  *)
AskerGoes(b, l) ==
  /\ tPc[b] \in {"send", "num", "pages", "erase"}
  /\ tPc' = [tPc EXCEPT ![b] = l]
  /\ UNCHANGED <<sPc, it>>

LEMMA AskerMoves ==
  ASSUME NEW b \in Indices, Asker(b)
  PROVE  \E l \in {"num", "pages", "erase", "ended"} : AskerGoes(b, l)
<1>1. CASE AskSend(b)
  BY <1>1 DEF AskSend, AskGoto, AskerGoes, server
<1>2. CASE AskNum(b)
  BY <1>2 DEF AskNum, AskGoto, AskerGoes, server
<1>3. CASE AskPage(b)
  BY <1>3 DEF AskPage, AskGoto, AskerGoes, server
<1>4. CASE AskFails(b)
  BY <1>4 DEF AskFails, AskGoto, AskerGoes, server
<1>5. CASE AskErase(b)
  BY <1>5 DEF AskErase, AskGoto, AskerGoes
<1>6. QED
  BY <1>1, <1>2, <1>3, <1>4, <1>5 DEF Asker

LEMMA ThreadsAsker ==
  ASSUME Threads, Channels, NEW b \in Indices, Asker(b)
  PROVE  Threads'
<1>1. PICK l \in {"num", "pages", "erase", "ended"} : AskerGoes(b, l)
  BY AskerMoves
<1>2. /\ tPc' \in [Indices -> AskerPcs]
      /\ tPc[b] \in {"send", "num", "pages", "erase"}
      /\ \A a \in Indices : a # b => tPc'[a] = tPc[a]
  BY <1>1 DEF AskerGoes, Threads, AskerPcs
<1>3. left' \in [Indices -> Nat] /\ \A a \in Indices : tPc'[a] = "pages" => left'[a] > 0
  <2>1. CASE AskSend(b) \/ AskErase(b)
    BY <1>2, <2>1 DEF AskSend, AskErase, AskGoto, Threads
  <2>2. CASE AskFails(b)
    BY <1>2, <2>2 DEF AskFails, AskGoto, Threads
  <2>3. CASE AskNum(b)
    <3>1. PICK c : c = Peer(b)
      OBVIOUS
    <3>2. PICK r : r = Head(up[c])
      OBVIOUS
    <3>3. /\ up[c] # <<>> /\ r.kind = "num" /\ c \in Conns
          /\ left' = [left EXCEPT ![b] = r.n]
          /\ tPc' = [tPc EXCEPT ![b] = IF r.n = 0 THEN "ended" ELSE "pages"]
      BY <2>3, <3>1, <3>2 DEF AskNum, AskGoto
    <3>4. r \in Reply
      BY <3>2, <3>3 DEF Channels
    <3>5. r.n \in Nat
      BY <3>4 DEF Reply
    <3>6. QED
      BY <1>2, <3>3, <3>5 DEF Threads
  <2>4. CASE AskPage(b)
    <3>1. /\ left' = [left EXCEPT ![b] = @ - 1] /\ tPc[b] = "pages"
          /\ tPc' = [tPc EXCEPT ![b] = IF left[b] = 1 THEN "ended" ELSE "pages"]
      BY <2>4 DEF AskPage, AskGoto
    <3>2. left[b] \in Nat /\ left[b] > 0
      BY <3>1 DEF Threads
    <3>3. QED
      BY <1>2, <3>1, <3>2 DEF Threads
  <2>5. QED
    BY <2>1, <2>2, <2>3, <2>4 DEF Asker
<1>4. sPc' = sPc /\ it' = it
  BY <1>1 DEF AskerGoes
<1>5. sPc' \in {"accept", "hello"} => \A a \in Indices : tPc'[a] = "none"
  BY <1>2, <1>4 DEF Threads
<1>6. sPc' = "answer" => Ended'
  BY <1>2, <1>4 DEF Threads, Ended
<1>7. sPc' = "spawn" => it' \in 0 .. TableSize /\ \A a \in Indices : tPc'[a] # "none" => a < it'
  BY <1>2, <1>4 DEF Threads
<1>8. QED
  BY <1>2, <1>3, <1>5, <1>6, <1>7 DEF Threads

(* The main thread starts the threads and takes them away.                 *)
LEMMA ThreadsMain ==
  ASSUME IInv, Threads, Accept \/ MainThread
  PROVE  Threads'
<1>1. CASE Accept \/ NewWorker \/ InvalidQuery
  <2>1. sPc \in {"accept", "hello"} /\ sPc' \in {"accept", "hello"} /\ tPc' = tPc /\ left' = left
    BY <1>1 DEF Accept, NewWorker, InvalidQuery, Closing, threads
  <2>2. QED
    BY <2>1 DEF Threads
<1>2. CASE Answer \/ PeerGone
  <2>1. sPc' = "accept" /\ tPc' = [b \in Indices |-> "none"] /\ left' = left
    BY <1>2 DEF Answer, PeerGone, Closing
  <2>2. QED
    BY <2>1 DEF Threads, AskerPcs
<1>3. CASE BeginQuery
  <2>1. /\ sPc = "hello" /\ sPc' = "spawn" /\ tPc' = tPc /\ left' = left
        /\ it' = Begin(socketsToWorkers)
    BY <1>3 DEF BeginQuery, threads
  <2>2. it' \in 0 .. TableSize
    BY <2>1, BeginsFirst
  <2>3. QED
    BY <2>1, <2>2 DEF Threads
<1>4. CASE SpawnNext
  <2>1. /\ sPc = "spawn" /\ sPc' = "spawn" /\ left' = left /\ it # TableSize
        /\ tPc' = [tPc EXCEPT ![it] = "send"]
        /\ it' = Following(socketsToWorkers, it)
    BY <1>4, TableEnd DEF SpawnNext
  <2>2. it \in Indices
    BY <2>1, BoundsAssumption DEF Threads, Indices
  <2>3. it' \in 0 .. TableSize /\ it < it'
    BY <2>1, <2>2, FollowsNext
  <2>4. tPc' \in [Indices -> AskerPcs] /\ \A b \in Indices : tPc'[b] = "pages" => left'[b] > 0
    BY <2>1, <2>2 DEF Threads, AskerPcs
  <2>5. ASSUME NEW b \in Indices, tPc'[b] # "none" PROVE b < it'
    <3>1. b = it \/ b < it
      BY <2>1, <2>5 DEF Threads
    <3>2. b \in Nat /\ it \in Nat /\ it' \in Nat
      BY <2>2, <2>3, IndicesAre
    <3>3. QED
      BY <2>3, <3>1, <3>2
  <2>6. QED
    BY <2>1, <2>3, <2>4, <2>5 DEF Threads
<1>5. CASE Join
  <2>1. sPc' = "answer" /\ Ended /\ tPc' = tPc /\ left' = left
    BY <1>5 DEF Join, threads
  <2>2. QED
    BY <2>1 DEF Threads, Ended
<1>6. QED
  BY <1>1, <1>2, <1>3, <1>4, <1>5 DEF MainThread

-----------------------------------------------------------------------------
(* The sockets that the iterator reaches                                   *)

LEMMA ReachedAsker ==
  ASSUME IInv, Threads, AllReached, NEW a \in Indices, Asker(a)
  PROVE  AllReached'
<1>1. PICK l \in {"num", "pages", "erase", "ended"} : AskerGoes(a, l)
  BY AskerMoves
<1>2. asked' = asked /\ sPc' = sPc /\ it' = it
  BY <1>1 DEF Asker, AskSend, AskNum, AskPage, AskFails, AskErase, AskerGoes, history
<1>3. \A b \in Indices : tPc[b] # "none" => tPc'[b] # "none"
  BY <1>1 DEF AskerGoes, Threads
<1>4. tPc'[a] # "none"
  BY <1>1 DEF AskerGoes, Threads
<1>5. \A b \in Indices :
        /\ Peer(b)' = Peer(b)
        /\ b # a /\ b \in InUse(socketsToWorkers) => b \in InUse(socketsToWorkers)'
  <2>1. CASE AskErase(a)
    BY <2>1, ErasesOwn
  <2>2. CASE AskSend(a) \/ AskNum(a) \/ AskPage(a) \/ AskFails(a)
    <3>1. UNCHANGED <<fds, socketsToWorkers>>
      BY <2>2 DEF AskSend, AskNum, AskPage, AskFails, server
    <3>2. QED
      BY <3>1 DEF Peer, InUse
  <2>3. QED
    BY <2>1, <2>2 DEF Asker
<1>6. ASSUME NEW c \in asked, Reached(c)
      PROVE  Reached(c)'
  <2>1. PICK b \in Indices :
          /\ Peer(b) = c
          /\ tPc[b] # "none" \/ (sPc = "spawn" /\ b \in InUse(socketsToWorkers) /\ it <= b)
    BY <1>6 DEF Reached
  <2>2. /\ Peer(b)' = c
        /\ tPc'[b] # "none" \/ (sPc' = "spawn" /\ b \in InUse(socketsToWorkers)' /\ it' <= b)
    BY <1>2, <1>3, <1>4, <1>5, <2>1
  <2>3. QED
    BY <2>2 DEF Reached
<1>7. QED
  BY <1>2, <1>6 DEF AllReached

LEMMA ReachedMain ==
  ASSUME IInv, Threads, AllReached, Accept \/ MainThread
  PROVE  AllReached'
<1>1. CASE Accept \/ NewWorker \/ InvalidQuery
  <2>1. sPc' \in {"accept", "hello"} /\ asked' = asked
    BY <1>1 DEF Accept, NewWorker, InvalidQuery, Closing, history
  <2>2. QED
    BY <2>1 DEF AllReached
<1>2. CASE Answer \/ PeerGone
  <2>1. sPc' = "accept" /\ asked' = {}
    BY <1>2 DEF Answer, PeerGone, Closing
  <2>2. QED
    BY <2>1 DEF AllReached
<1>3. CASE BeginQuery
  <2>1. /\ sPc' = "spawn" /\ UNCHANGED <<fds, socketsToWorkers, tPc>>
        /\ it' = Begin(socketsToWorkers)
        /\ asked' \subseteq {fds[f] : f \in Sockets}
    BY <1>3 DEF BeginQuery, threads
  <2>2. ASSUME NEW c \in asked' PROVE c \in Conns /\ Reached(c)'
    <3>1. PICK f \in Sockets : c = fds[f]
      BY <2>1, <2>2
    <3>2. PICK b \in InUse(socketsToWorkers) : f = socketsToWorkers[b].key
      BY <3>1 DEF Sockets
    <3>3. b \in Indices /\ f # NoKey /\ f \in Fds /\ fds[f] \in Conns
      BY <3>2 DEF IInv, Typed, KeysOpen, Key, InUse
    <3>4. Peer(b)' = c
      BY <2>1, <3>1, <3>2, <3>3 DEF Peer
    <3>5. it' <= b
      BY <2>1, <3>2, BeginsFirst
    <3>6. b \in InUse(socketsToWorkers)'
      BY <2>1, <3>2 DEF InUse
    <3>7. QED
      BY <2>1, <3>1, <3>3, <3>4, <3>5, <3>6 DEF Reached
  <2>3. QED
    BY <2>2 DEF AllReached
<1>4. CASE SpawnNext
  <2>1. /\ sPc = "spawn" /\ sPc' = "spawn" /\ it # TableSize
        /\ tPc' = [tPc EXCEPT ![it] = "send"]
        /\ it' = Following(socketsToWorkers, it)
        /\ UNCHANGED <<fds, socketsToWorkers, asked>>
    BY <1>4, TableEnd DEF SpawnNext, history
  <2>2. it \in Indices
    BY <2>1, BoundsAssumption DEF Threads, Indices
  <2>3. \A b \in InUse(socketsToWorkers) : it < b => it' <= b
    BY <2>1, <2>2, FollowsNext
  <2>4. ASSUME NEW c \in asked, Reached(c) PROVE Reached(c)'
    <3>1. PICK b \in Indices :
            /\ Peer(b) = c
            /\ tPc[b] # "none" \/ (b \in InUse(socketsToWorkers) /\ it <= b)
      BY <2>4 DEF Reached
    <3>2. Peer(b)' = c
      BY <2>1, <3>1 DEF Peer
    <3>3. CASE tPc[b] # "none" \/ b = it
      <4>1. tPc'[b] # "none"
        BY <2>1, <2>2, <3>3 DEF Threads
      <4>2. QED
        BY <3>2, <4>1 DEF Reached
    <3>4. CASE b \in InUse(socketsToWorkers) /\ it <= b /\ b # it
      <4>1. it < b
        BY <2>2, <3>4, IndicesAre
      <4>2. it' <= b /\ b \in InUse(socketsToWorkers)'
        BY <2>1, <2>3, <3>4, <4>1 DEF InUse
      <4>3. QED
        BY <2>1, <3>2, <4>2 DEF Reached
    <3>5. QED
      BY <3>1, <3>3, <3>4
  <2>5. QED
    BY <2>1, <2>4 DEF AllReached
<1>5. CASE Join
  <2>1. /\ sPc = "spawn" /\ sPc' = "answer" /\ it = TableSize
        /\ UNCHANGED <<fds, socketsToWorkers, tPc, asked>>
    BY <1>5, TableEnd DEF Join, threads, history
  <2>2. ASSUME NEW c \in asked, Reached(c) PROVE Reached(c)'
    <3>1. PICK b \in Indices : Peer(b) = c /\ (tPc[b] # "none" \/ it <= b)
      BY <2>2 DEF Reached
    <3>2. tPc[b] # "none"
      BY <2>1, <3>1, IndicesAre
    <3>3. Peer(b)' = c /\ tPc'[b] # "none"
      BY <2>1, <3>1, <3>2 DEF Peer
    <3>4. QED
      BY <3>3 DEF Reached
  <2>3. QED
    BY <2>1, <2>2 DEF AllReached
<1>6. QED
  BY <1>1, <1>2, <1>3, <1>4, <1>5 DEF MainThread

(* The workers and the network leave the server alone.                     *)
LEMMA ServerAlone ==
  ASSUME UNCHANGED <<server, threads, answers, asked, failed>>,
         Threads, AllReached, Collected, AnswersOwnQuery
  PROVE  Threads' /\ AllReached' /\ Collected' /\ AnswersOwnQuery'
BY DEF server, threads, Threads, Ended, AllReached, Reached, Peer, InUse, Collected,
   AnswersOwnQuery

-----------------------------------------------------------------------------
(* What is under way has its types.                                        *)

LEMMA ChannelsOn ==
  ASSUME IInv, Channels, Working, [Next]_vars
  PROVE  Channels'
<1>1. CASE AskQuery
  BY <1>1 DEF AskQuery, server, network, Channels
<1>2. CASE Accept
  <2>1. hello' = Head(backlog) /\ backlog # <<>> /\ UNCHANGED <<down, up>>
    BY <1>2 DEF Accept, network
  <2>2. Head(backlog) \in Messages
    BY <2>1 DEF IInv, Typed
  <2>3. hello'.of \in Nat
    BY <2>1, <2>2 DEF Messages
  <2>4. QED
    BY <2>1, <2>3 DEF Channels
<1>3. CASE NewWorker \/ InvalidQuery \/ Answer \/ PeerGone
  BY <1>3 DEF NewWorker, InvalidQuery, Answer, PeerGone, Closing, NoHello, network, Channels
<1>4. CASE BeginQuery \/ SpawnNext \/ Join
  BY <1>4 DEF BeginQuery, SpawnNext, Join, network, Channels
<1>5. ASSUME NEW b \in Indices, Asker(b) PROVE Channels'
  <2>1. PICK c : c = Peer(b)
    OBVIOUS
  <2>2. CASE AskSend(b)
    <3>1. hello' = hello /\ up' = up /\ (down' = down \/ down' = [down EXCEPT ![c] = Append(@, hello.of)])
      BY <2>1, <2>2 DEF AskSend, server
    <3>2. c \in Conns => Append(down[c], hello.of) \in Seq(Nat)
      BY DEF Channels
    <3>3. down' \in [Conns -> Seq(Nat)]
      BY <3>1, <3>2 DEF Channels
    <3>4. QED
      BY <3>1, <3>3 DEF Channels
  <2>3. CASE AskNum(b) \/ AskPage(b)
    <3>1. /\ hello' = hello /\ down' = down /\ c \in Conns /\ up[c] # <<>>
          /\ up' = [up EXCEPT ![c] = Tail(@)]
      BY <2>1, <2>3 DEF AskNum, AskPage, server
    <3>2. Tail(up[c]) \in Seq(Reply)
      BY <3>1 DEF Channels
    <3>3. QED
      BY <3>1, <3>2 DEF Channels
  <2>4. CASE AskFails(b) \/ AskErase(b)
    BY <2>4 DEF AskFails, AskErase, server, network, Channels
  <2>5. QED
    BY <1>5, <2>2, <2>3, <2>4 DEF Asker
<1>6. ASSUME NEW w \in Workers, Worker(w) PROVE Channels'
  <2>1. PICK c : c = wConn[w]
    OBVIOUS
  <2>2. CASE WorkerConnect(w) \/ WorkerRecvFails(w) \/ WorkerDies(w) \/ WorkerSendFails(w)
    BY <2>2 DEF WorkerConnect, WorkerRecvFails, WorkerDies, WorkerSendFails, server, network, Channels
  <2>3. CASE WorkerRecv(w)
    <3>1. hello' = hello /\ up' = up /\ down[c] # <<>> /\ down' = [down EXCEPT ![c] = Tail(@)]
      BY <2>1, <2>3 DEF WorkerRecv, server
    <3>2. c \in Conns => Tail(down[c]) \in Seq(Nat)
      BY <3>1 DEF Channels
    <3>3. QED
      BY <3>1, <3>2 DEF Channels
  <2>4. ASSUME NEW r \in Reply, up' = [up EXCEPT ![c] = Append(@, r)], UNCHANGED <<hello, down>>
        PROVE  Channels'
    <3>1. c \in Conns => Append(up[c], r) \in Seq(Reply)
      BY DEF Channels
    <3>2. QED
      BY <2>4, <3>1 DEF Channels
  <2>5. ASSUME NEW n \in 0 .. MaxPages, WorkerRank(w, n) PROVE Channels'
    <3>1. [kind |-> "num", n |-> n] \in Reply
      BY BoundsAssumption DEF Reply
    <3>2. up' = [up EXCEPT ![c] = Append(@, [kind |-> "num", n |-> n])] /\ UNCHANGED <<hello, down>>
      BY <2>1, <2>5 DEF WorkerRank, server
    <3>3. QED
      BY <2>4, <3>1, <3>2
  <2>6. CASE WorkerSend(w)
    <3>1. [kind |-> "page", n |-> wLeft[w], query |-> wQuery[w]] \in Reply
      BY DEF Working, Reply
    <3>2. /\ up' = [up EXCEPT ![c] = Append(@, [kind |-> "page", n |-> wLeft[w], query |-> wQuery[w]])]
          /\ UNCHANGED <<hello, down>>
      BY <2>1, <2>6 DEF WorkerSend, server
    <3>3. QED
      BY <2>4, <3>1, <3>2
  <2>7. QED
    BY <1>6, <2>2, <2>3, <2>5, <2>6 DEF Worker
<1>7. ASSUME NEW c \in Conns, Break(c) PROVE Channels'
  BY <1>7 DEF Break, server, Channels
<1>8. CASE UNCHANGED vars
  BY <1>8 DEF vars, server, network, Channels
<1>9. QED
  BY <1>1, <1>2, <1>3, <1>4, <1>5, <1>6, <1>7, <1>8 DEF Next, MainThread

-----------------------------------------------------------------------------
(* The workers                                                             *)

(* A worker moves, and keeps its connection.                               *)
LEMMA WorkerKeeps ==
  ASSUME Working, NEW w \in Workers, NEW l \in WorkerPcs,
         wPc' = [wPc EXCEPT ![w] = l],
         l # "connect" => wPc[w] # "connect",
         wQuery' \in [Workers -> Nat], wLeft' \in [Workers -> Nat],
         \A v \in Workers : wPc'[v] = "send" => wLeft'[v] > 0,
         UNCHANGED <<wConn, conns>>
  PROVE  Working'
BY DEF Working, WorkerPcs

LEMMA WorkingWorker ==
  ASSUME Typed, Working, Channels, NEW w \in Workers, Worker(w)
  PROVE  Working'
<1>1. PICK c : c = wConn[w]
  OBVIOUS
<1>2. CASE WorkerConnect(w)
  <2>1. PICK l : l \in {"recv", "null"} /\ wPc' = [wPc EXCEPT ![w] = l]
    BY <1>2 DEF WorkerConnect, WorkerGoto
  <2>2. /\ conns' = conns + 1 /\ wConn' = [wConn EXCEPT ![w] = conns + 1]
        /\ UNCHANGED <<wQuery, wLeft>>
    BY <1>2 DEF WorkerConnect
  <2>3. conns + 1 \in Conns /\ conns \in Nat
    BY <1>2, BoundsAssumption DEF WorkerConnect, Typed, Conns
  <2>4. \A v \in Workers : v # w => wConn'[v] = wConn[v] /\ wPc'[v] = wPc[v]
    BY <2>1, <2>2 DEF Working
  <2>5. wConn'[w] = conns + 1 /\ wPc'[w] = l
    BY <2>1, <2>2 DEF Working
  <2>6. /\ wPc' \in [Workers -> WorkerPcs] /\ wConn' \in [Workers -> Conns \cup {NoConn}]
        /\ wLeft' \in [Workers -> Nat] /\ wQuery' \in [Workers -> Nat]
    BY <2>1, <2>2, <2>3 DEF Working, WorkerPcs
  <2>7. \A v \in Workers : wConn[v] \in Conns => wConn[v] # conns + 1 /\ wConn[v] <= conns + 1
    BY <2>3 DEF Working, Conns
  <2>8. /\ \A v \in Workers : wPc'[v] # "connect" => wConn'[v] \in Conns
        /\ \A v \in Workers : wPc'[v] = "send" => wLeft'[v] > 0
    BY <2>1, <2>2, <2>3, <2>4, <2>5 DEF Working
  <2>9. /\ \A v \in Workers : wConn'[v] \in Conns => wConn'[v] <= conns'
    BY <2>2, <2>3, <2>4, <2>5, <2>7
  <2>10. \A u, v \in Workers : wConn'[u] = wConn'[v] /\ wConn'[u] \in Conns => u = v
    BY <2>3, <2>4, <2>5, <2>7 DEF Working
  <2>11. QED
    BY <2>6, <2>8, <2>9, <2>10 DEF Working
<1>3. CASE WorkerRecv(w)
  <2>1. /\ wPc[w] = "recv" /\ wPc' = [wPc EXCEPT ![w] = "rank"] /\ down[c] # <<>>
        /\ wQuery' = [wQuery EXCEPT ![w] = Head(down[c])]
        /\ UNCHANGED <<wLeft, wConn, conns>>
    BY <1>1, <1>3 DEF WorkerRecv, WorkerGoto
  <2>2. c \in Conns
    BY <1>1, <2>1 DEF Working
  <2>3. Head(down[c]) \in Nat
    BY <2>1, <2>2 DEF Channels
  <2>4. wQuery' \in [Workers -> Nat]
    BY <2>1, <2>3 DEF Working
  <2>5. \A v \in Workers : wPc'[v] = "send" => wLeft'[v] > 0
    BY <2>1 DEF Working
  <2>6. "rank" \in WorkerPcs /\ wLeft' \in [Workers -> Nat]
    BY <2>1 DEF Working, WorkerPcs
  <2>7. QED
    BY <2>1, <2>4, <2>5, <2>6, WorkerKeeps
<1>4. CASE WorkerRecvFails(w) \/ WorkerDies(w)
  <2>1. PICK l : /\ l \in {"reconnect", "dead"} /\ wPc' = [wPc EXCEPT ![w] = l] /\ wPc[w] # "connect"
                 /\ UNCHANGED <<wLeft, wQuery, wConn, conns>>
    BY <1>4 DEF WorkerRecvFails, WorkerDies, WorkerGoto
  <2>2. \A v \in Workers : wPc'[v] = "send" => wLeft'[v] > 0
    BY <2>1 DEF Working
  <2>3. l \in WorkerPcs /\ wLeft' \in [Workers -> Nat] /\ wQuery' \in [Workers -> Nat]
    BY <2>1 DEF Working, WorkerPcs
  <2>4. QED
    BY <2>1, <2>2, <2>3, WorkerKeeps
<1>5. ASSUME NEW n \in 0 .. MaxPages, WorkerRank(w, n) PROVE Working'
  <2>1. PICK l : l = IF n = 0 THEN "recv" ELSE "send"
    OBVIOUS
  <2>2. /\ wPc[w] = "rank" /\ wPc' = [wPc EXCEPT ![w] = l]
        /\ wLeft' = [wLeft EXCEPT ![w] = n] /\ UNCHANGED <<wQuery, wConn, conns>>
    BY <1>5, <2>1 DEF WorkerRank, WorkerGoto
  <2>3. n \in Nat
    BY BoundsAssumption
  <2>4. \A v \in Workers : wPc'[v] = "send" => wLeft'[v] > 0
    BY <2>1, <2>2, <2>3 DEF Working
  <2>5. l \in WorkerPcs /\ wLeft' \in [Workers -> Nat] /\ wQuery' \in [Workers -> Nat]
    BY <2>1, <2>2, <2>3 DEF Working, WorkerPcs
  <2>6. QED
    BY <2>2, <2>4, <2>5, WorkerKeeps
<1>6. CASE WorkerSend(w)
  <2>1. PICK l : l = IF wLeft[w] = 1 THEN "recv" ELSE "send"
    OBVIOUS
  <2>2. /\ wPc[w] = "send" /\ wPc' = [wPc EXCEPT ![w] = l]
        /\ wLeft' = [wLeft EXCEPT ![w] = wLeft[w] - 1] /\ UNCHANGED <<wQuery, wConn, conns>>
    BY <1>6, <2>1 DEF WorkerSend, WorkerGoto
  <2>3. wLeft[w] \in Nat /\ wLeft[w] > 0
    BY <2>2 DEF Working
  <2>4. \A v \in Workers : wPc'[v] = "send" => wLeft'[v] > 0
    BY <2>1, <2>2, <2>3 DEF Working
  <2>5. l \in WorkerPcs /\ wLeft' \in [Workers -> Nat] /\ wQuery' \in [Workers -> Nat]
    BY <2>1, <2>2, <2>3 DEF Working, WorkerPcs
  <2>6. QED
    BY <2>2, <2>4, <2>5, WorkerKeeps
<1>7. CASE WorkerSendFails(w)
  <2>1. /\ wPc' = [wPc EXCEPT ![w] = "connect"] /\ wLeft' = [wLeft EXCEPT ![w] = 0]
        /\ UNCHANGED <<wQuery, wConn, conns>>
    BY <1>7 DEF WorkerSendFails, WorkerGoto
  <2>2. \A v \in Workers : wPc'[v] = "send" => wLeft'[v] > 0
    BY <2>1 DEF Working
  <2>3. "connect" \in WorkerPcs /\ wLeft' \in [Workers -> Nat] /\ wQuery' \in [Workers -> Nat]
    BY <2>1 DEF Working, WorkerPcs
  <2>4. QED
    BY <2>1, <2>2, <2>3, WorkerKeeps
<1>8. QED
  BY <1>2, <1>3, <1>4, <1>5, <1>6, <1>7 DEF Worker

-----------------------------------------------------------------------------
(* The conversations.  What a step leaves alone of a connection:           *)
SameChannel(c) == down'[c] = down[c] /\ up'[c] = up[c]

(* its worker, or it has none any more that may send                       *)
SameWorker(c) ==
  \A w \in Workers : wConn'[w] = c =>
    \/ wPc'[w] \notin {"rank", "send"}
    \/ /\ wConn[w] = c /\ wPc'[w] = wPc[w]
       /\ wQuery'[w] = wQuery[w] /\ wLeft'[w] = wLeft[w]

(* and its thread.                                                         *)
SameThread(c) ==
  \A b \in Indices :
    /\ Peer(b)' = c <=> Peer(b) = c
    /\ Peer(b) = c =>
         \/ tPc'[b] = tPc[b] /\ left'[b] = left[b]
         \/ tPc[b] \notin {"num", "pages"} /\ tPc'[b] \notin {"num", "pages"}

LEMMA ReplyingOn ==
  ASSUME NEW c \in Conns, NEW s, NEW l, Replying(c, s, l),
         SameWorker(c), down'[c] = down[c], hello' = hello
  PROVE  Replying(c, s, l)'
BY DEF Replying, SameWorker

LEMMA AgreesOn ==
  ASSUME NEW c \in Conns, Agrees(c),
         SameChannel(c), SameWorker(c), SameThread(c), hello' = hello
  PROVE  Agrees(c)'
<1>1. \A s, l : Replying(c, s, l) => Replying(c, s, l)'
  BY ReplyingOn DEF SameChannel
<1>2. PICK s : s = up[c]
  OBVIOUS
<1>3. up'[c] = s
  BY <1>2 DEF SameChannel
<1>4. Ranking(c) => Ranking(c)'
  BY DEF Ranking, SameWorker, SameChannel
<1>5. Begun(c) => Begun(c)'
  <2>1. Replying(c, Tail(s), Head(s).n) => Replying(c, Tail(s), Head(s).n)'
    BY <1>1
  <2>2. QED
    BY <1>2, <1>3, <2>1 DEF Begun
<1>6. ASSUME NEW b \in Indices, Peer(b)' = c
      PROVE  /\ tPc'[b] = "num" => Ranking(c)' \/ Begun(c)'
             /\ tPc'[b] = "pages" => Replying(c, up[c], left[b])'
  <2>1. Peer(b) = c
    BY <1>6 DEF SameThread
  <2>2. PICK l : l = left[b]
    OBVIOUS
  <2>3. CASE tPc'[b] = tPc[b] /\ left'[b] = left[b]
    <3>1. tPc'[b] = "num" => Ranking(c)' \/ Begun(c)'
      BY <1>4, <1>5, <2>1, <2>3 DEF Agrees
    <3>2. ASSUME tPc'[b] = "pages" PROVE Replying(c, up[c], left[b])'
      <4>1. Replying(c, s, l)
        BY <1>2, <2>1, <2>2, <2>3, <3>2 DEF Agrees
      <4>2. Replying(c, s, l)'
        BY <1>1, <4>1
      <4>3. QED
        BY <1>3, <2>2, <2>3, <4>2
    <3>3. QED
      BY <3>1, <3>2
  <2>4. QED
    BY <2>1, <2>3 DEF SameThread
<1>7. ASSUME \A b \in Indices : Peer(b)' = c => tPc'[b] \notin {"num", "pages"}
      PROVE  Replying(c, up[c], 0)'
  <2>1. \A b \in Indices : Peer(b) = c => tPc[b] \notin {"num", "pages"}
    BY <1>7 DEF SameThread
  <2>2. Replying(c, s, 0)
    BY <1>2, <2>1 DEF Agrees
  <2>3. QED
    BY <1>1, <1>3, <2>2
<1>8. QED
  BY <1>6, <1>7 DEF Agrees

LEMMA SameThreads ==
  ASSUME NEW c, UNCHANGED <<fds, socketsToWorkers, tPc, left>>
  PROVE  SameThread(c)
BY DEF SameThread, Peer

(* The worker has the query from its connection, and begins to rank.       *)
LEMMA AgreesRecv ==
  ASSUME Working, Channels, NEW w \in Workers, WorkerRecv(w), NEW c \in Conns, c = wConn[w],
         Agrees(c)
  PROVE  Agrees(c)'
<1>1. /\ wPc[w] = "recv" /\ wPc' = [wPc EXCEPT ![w] = "rank"] /\ down[c] # <<>>
      /\ wQuery' = [wQuery EXCEPT ![w] = Head(down[c])]
      /\ down' = [down EXCEPT ![c] = Tail(@)]
      /\ UNCHANGED <<up, hello, wLeft, wConn, fds, socketsToWorkers, tPc, left>>
  BY DEF WorkerRecv, WorkerGoto, server, threads
<1>2. \A s, l : ~Replying(c, s, l)
  BY <1>1 DEF Replying
<1>3. ~Begun(c)
  BY <1>2 DEF Begun
<1>4. Ranking(c) => Ranking(c)'
  <2> SUFFICES ASSUME Ranking(c) PROVE Ranking(c)'
    OBVIOUS
  <2>1. down[c] = <<hello.of>> /\ up[c] = <<>>
    BY <1>1 DEF Ranking
  <2>2. Head(down[c]) = hello.of /\ Tail(down[c]) = <<>>
    BY <2>1
  <2>3. down'[c] = <<>> /\ up'[c] = <<>>
    BY <1>1, <2>1, <2>2 DEF Channels
  <2>4. \A v \in Workers : wConn[v] = c => v = w
    BY DEF Working
  <2>5. wPc'[w] = "rank" /\ wQuery'[w] = hello.of
    BY <1>1, <2>2 DEF Working
  <2>6. QED
    BY <1>1, <2>3, <2>4, <2>5 DEF Ranking
<1>5. \A b \in Indices : Peer(b)' = Peer(b) /\ tPc'[b] = tPc[b]
  BY <1>1 DEF Peer
<1>6. \A b \in Indices : Peer(b) = c => tPc[b] # "pages"
  BY <1>2 DEF Agrees
<1>7. \E b \in Indices : Peer(b) = c /\ tPc[b] = "num"
  BY <1>2, <1>6 DEF Agrees
<1>8. Ranking(c)'
  BY <1>3, <1>4, <1>7 DEF Agrees
<1>9. QED
  BY <1>5, <1>6, <1>7, <1>8 DEF Agrees

(* It begins its reply with the number of its results.                     *)
LEMMA AgreesRank ==
  ASSUME Working, Channels, NEW w \in Workers, NEW n \in 0 .. MaxPages, WorkerRank(w, n),
         NEW c \in Conns, c = wConn[w], Agrees(c)
  PROVE  Agrees(c)'
<1>1. PICK r : r = [kind |-> "num", n |-> n]
  OBVIOUS
<1>2. PICK k : k = IF n = 0 THEN "recv" ELSE "send"
  OBVIOUS
<1>3. /\ wPc[w] = "rank" /\ wPc' = [wPc EXCEPT ![w] = k]
      /\ up' = [up EXCEPT ![c] = Append(@, r)]
      /\ wLeft' = [wLeft EXCEPT ![w] = n]
      /\ UNCHANGED <<down, hello, wQuery, wConn, fds, socketsToWorkers, tPc, left>>
  BY <1>1, <1>2 DEF WorkerRank, WorkerGoto, server, threads
<1>4. \A s, l : ~Replying(c, s, l)
  BY <1>3 DEF Replying
<1>5. ~Begun(c)
  BY <1>4 DEF Begun
<1>6. \A b \in Indices : Peer(b)' = Peer(b) /\ tPc'[b] = tPc[b]
  BY <1>3 DEF Peer
<1>7. \A b \in Indices : Peer(b) = c => tPc[b] # "pages"
  BY <1>4 DEF Agrees
<1>8. \E b \in Indices : Peer(b) = c /\ tPc[b] = "num"
  BY <1>4, <1>7 DEF Agrees
<1>9. Ranking(c)
  BY <1>5, <1>8 DEF Agrees
<1>10. Begun(c)'
  <2>1. up'[c] = <<r>>
    BY <1>3, <1>9 DEF Ranking, Channels
  <2>2. up'[c] # <<>> /\ Head(up'[c]) = r /\ Tail(up'[c]) = <<>>
    BY <2>1
  <2>3. r.kind = "num" /\ r.n = n /\ n \in Nat
    BY <1>1, BoundsAssumption
  <2>4. down'[c] = <<>> /\ wQuery'[w] = hello.of
    BY <1>3, <1>9 DEF Ranking
  <2>5. \A v \in Workers : wConn[v] = c => v = w
    BY DEF Working
  <2>6. wPc'[w] = k /\ wLeft'[w] = n
    BY <1>3 DEF Working
  <2>7. Replying(c, <<>>, n)'
    BY <1>2, <1>3, <2>3, <2>4, <2>5, <2>6 DEF Replying
  <2>8. QED
    BY <2>2, <2>3, <2>7 DEF Begun
<1>11. QED
  BY <1>6, <1>7, <1>8, <1>10 DEF Agrees

(* It sends a result.                                                      *)
LEMMA AgreesSend ==
  ASSUME Threads, Working, Channels, NEW w \in Workers, WorkerSend(w), NEW c \in Conns, c = wConn[w],
         Agrees(c)
  PROVE  Agrees(c)'
<1>1. PICK r : r = [kind |-> "page", n |-> wLeft[w], query |-> wQuery[w]]
  OBVIOUS
<1>2. PICK k : k = IF wLeft[w] = 1 THEN "recv" ELSE "send"
  OBVIOUS
<1>3. /\ wPc[w] = "send" /\ wPc' = [wPc EXCEPT ![w] = k]
      /\ up' = [up EXCEPT ![c] = Append(@, r)]
      /\ wLeft' = [wLeft EXCEPT ![w] = @ - 1]
      /\ UNCHANGED <<down, hello, wQuery, wConn, fds, socketsToWorkers, tPc, left>>
  BY <1>1, <1>2 DEF WorkerSend, WorkerGoto, server, threads
<1>4. wLeft[w] \in Nat /\ wLeft[w] > 0 /\ wPc'[w] = k /\ wLeft'[w] = wLeft[w] - 1
  BY <1>3 DEF Working
<1>5. \A v \in Workers : wConn[v] = c => v = w
  BY DEF Working
<1>6. ASSUME NEW s \in Seq(Reply), NEW l \in Nat, Replying(c, s, l)
      PROVE  Replying(c, Append(s, r), l)'
  <2>1. PICK t : t = Append(s, r)
    OBVIOUS
  <2>2. wQuery[w] = hello.of /\ Len(s) + wLeft[w] <= l /\ down[c] = <<>>
    BY <1>3, <1>6 DEF Replying
  <2>3. r.kind = "page" /\ r.query = hello.of
    BY <1>1, <2>2
  <2>4. Len(t) = Len(s) + 1 /\ Len(s) \in Nat /\ DOMAIN t = 1 .. Len(s) + 1
        /\ \A i \in DOMAIN t : t[i] = IF i = Len(s) + 1 THEN r ELSE s[i]
    BY <2>1
  <2>5. \A i \in DOMAIN t : t[i].kind = "page" /\ t[i].query = hello.of
    BY <1>6, <2>3, <2>4 DEF Replying
  <2>6. Len(t) <= l /\ Len(t) + wLeft'[w] <= l
    BY <1>4, <2>2, <2>4
  <2>7. k # "rank"
    BY <1>2
  <2>8. Replying(c, t, l)'
    BY <1>3, <1>4, <1>5, <2>2, <2>5, <2>6, <2>7 DEF Replying
  <2>9. QED
    BY <2>1, <2>8
<1>7. PICK s \in Seq(Reply) : s = up[c]
  BY DEF Channels
<1>8. up'[c] = Append(s, r)
  BY <1>3, <1>7 DEF Channels
<1>9. ~Ranking(c)
  BY <1>3 DEF Ranking
<1>10. Begun(c) => Begun(c)'
  <2> SUFFICES ASSUME Begun(c) PROVE Begun(c)'
    OBVIOUS
  <2>1. PICK h : h = Head(s)
    OBVIOUS
  <2>2. s # <<>> /\ h.kind = "num" /\ h \in Reply /\ Tail(s) \in Seq(Reply)
        /\ Replying(c, Tail(s), h.n)
    BY <1>7, <2>1 DEF Begun
  <2>3. h.n \in Nat
    BY <2>2 DEF Reply
  <2>4. Replying(c, Append(Tail(s), r), h.n)'
    BY <1>6, <2>2, <2>3
  <2>5. PICK u : u = Append(s, r)
    OBVIOUS
  <2>6. u # <<>> /\ Head(u) = h /\ Tail(u) = Append(Tail(s), r)
    BY <2>1, <2>2, <2>5
  <2>7. up'[c] = u
    BY <1>8, <2>5
  <2>8. QED
    BY <2>2, <2>4, <2>6, <2>7 DEF Begun
<1>11. \A b \in Indices : Peer(b)' = Peer(b) /\ tPc'[b] = tPc[b] /\ left'[b] = left[b]
  BY <1>3 DEF Peer
<1>12. ASSUME NEW b \in Indices, Peer(b) = c
       PROVE  /\ tPc'[b] = "num" => Ranking(c)' \/ Begun(c)'
              /\ tPc'[b] = "pages" => Replying(c, up[c], left[b])'
  <2>1. tPc[b] = "num" => Begun(c)'
    BY <1>9, <1>10, <1>12 DEF Agrees
  <2>2. PICK l \in Nat : l = left[b]
    BY DEF Threads
  <2>3. tPc[b] = "pages" => Replying(c, Append(s, r), l)'
    BY <1>6, <1>7, <1>12, <2>2 DEF Agrees
  <2>4. left'[b] = l
    BY <1>11, <2>2
  <2>5. QED
    BY <1>8, <1>11, <2>1, <2>3, <2>4
<1>13. ASSUME \A b \in Indices : Peer(b) = c => tPc[b] \notin {"num", "pages"}
       PROVE  FALSE
  <2>1. Replying(c, s, 0)
    BY <1>7, <1>13 DEF Agrees
  <2>2. Len(s) + wLeft[w] <= 0 /\ Len(s) \in Nat
    BY <1>3, <2>1 DEF Replying
  <2>3. QED
    BY <1>4, <2>2
<1>14. QED
  BY <1>11, <1>12, <1>13 DEF Agrees

(* A step of a worker concerns its own connection only.                    *)
LEMMA OtherWorkers ==
  ASSUME Working, NEW w \in Workers, Worker(w), NEW c \in Conns, c # wConn[w]
  PROVE  SameChannel(c) /\ SameWorker(c)
<1>1. CASE WorkerConnect(w)
  <2>1. /\ UNCHANGED <<down, up, wQuery, wLeft>>
        /\ wConn' = [wConn EXCEPT ![w] = conns + 1]
        /\ \E l \in {"recv", "null"} : wPc' = [wPc EXCEPT ![w] = l]
    BY <1>1 DEF WorkerConnect, WorkerGoto
  <2>2. \A v \in Workers : v # w => wConn'[v] = wConn[v] /\ wPc'[v] = wPc[v]
    BY <2>1 DEF Working
  <2>3. wPc'[w] \in {"recv", "null"}
    BY <2>1 DEF Working
  <2>4. QED
    BY <2>1, <2>2, <2>3 DEF SameChannel, SameWorker
<1>2. CASE ~WorkerConnect(w)
  <2>1. PICK k : k = wConn[w]
    OBVIOUS
  <2>2. /\ wConn' = wConn
        /\ \A v \in Workers : v # w => wPc'[v] = wPc[v] /\ wQuery'[v] = wQuery[v] /\ wLeft'[v] = wLeft[v]
        /\ \A e \in Conns : e # k => down'[e] = down[e] /\ up'[e] = up[e]
    <3>1. CASE WorkerRecv(w)
      BY <2>1, <3>1 DEF WorkerRecv, WorkerGoto, Working
    <3>2. CASE WorkerRecvFails(w) \/ WorkerDies(w) \/ WorkerSendFails(w)
      BY <3>2 DEF WorkerRecvFails, WorkerDies, WorkerSendFails, WorkerGoto, Working, network
    <3>3. ASSUME NEW n \in 0 .. MaxPages, WorkerRank(w, n)
          PROVE  /\ wConn' = wConn
                 /\ \A v \in Workers : v # w => wPc'[v] = wPc[v] /\ wQuery'[v] = wQuery[v]
                                                /\ wLeft'[v] = wLeft[v]
                 /\ \A e \in Conns : e # k => down'[e] = down[e] /\ up'[e] = up[e]
      BY <2>1, <3>3 DEF WorkerRank, WorkerGoto, Working
    <3>4. CASE WorkerSend(w)
      BY <2>1, <3>4 DEF WorkerSend, WorkerGoto, Working
    <3>5. QED
      BY <1>2, <3>1, <3>2, <3>3, <3>4 DEF Worker
  <2>3. \A v \in Workers : wConn'[v] = c => v # w /\ wConn[v] = c
    BY <2>1, <2>2
  <2>4. QED
    BY <2>1, <2>2, <2>3 DEF SameChannel, SameWorker
<1>3. QED
  BY <1>1, <1>2

LEMMA ConversationsWorker ==
  ASSUME Threads, Working, Channels, Conversations, NEW w \in Workers, Worker(w)
  PROVE  Conversations'
<1>1. UNCHANGED <<server, threads, failed>>
  BY DEF Worker, WorkerConnect, WorkerRecv, WorkerRecvFails, WorkerDies, WorkerRank,
     WorkerSend, WorkerSendFails, history
<1>2. ASSUME NEW c \in Conns, Agrees(c) PROVE Agrees(c)'
  <2>1. SameThread(c) /\ hello' = hello
    BY <1>1, SameThreads DEF server, threads
  <2>2. CASE c # wConn[w]
    BY <1>2, <2>1, <2>2, OtherWorkers, AgreesOn
  <2>3. CASE c = wConn[w] /\ WorkerRecv(w)
    BY <1>2, <2>3, AgreesRecv
  <2>4. ASSUME c = wConn[w], NEW n \in 0 .. MaxPages, WorkerRank(w, n) PROVE Agrees(c)'
    BY <1>2, <2>4, AgreesRank
  <2>5. CASE c = wConn[w] /\ WorkerSend(w)
    BY <1>2, <2>5, AgreesSend
  <2>6. CASE WorkerConnect(w) \/ WorkerRecvFails(w) \/ WorkerDies(w) \/ WorkerSendFails(w)
    <3>1. SameChannel(c)
      BY <2>6 DEF SameChannel, WorkerConnect, WorkerRecvFails, WorkerDies, WorkerSendFails, network
    <3>2. wPc'[w] \notin {"rank", "send"}
          /\ \A v \in Workers : v # w => /\ wPc'[v] = wPc[v] /\ wQuery'[v] = wQuery[v]
                                         /\ wLeft'[v] = wLeft[v] /\ wConn'[v] = wConn[v]
      BY <2>6 DEF WorkerConnect, WorkerRecvFails, WorkerDies, WorkerSendFails, WorkerGoto, Working
    <3>3. SameWorker(c)
      BY <3>2 DEF SameWorker
    <3>4. QED
      BY <1>2, <2>1, <3>1, <3>3, AgreesOn
  <2>7. QED
    BY <2>2, <2>3, <2>4, <2>5, <2>6 DEF Worker
<1>3. QED
  BY <1>1, <1>2 DEF Conversations

-----------------------------------------------------------------------------
(* The steps of a thread                                                   *)

(* It has sent the query, or believes so.                                  *)
LEMMA AgreesAsked ==
  ASSUME IInv, Threads, Working, Channels, NEW b \in Indices, AskSend(b),
         NEW c \in Conns, c = Peer(b), Agrees(c)
  PROVE  Agrees(c)'
<1>1. /\ tPc[b] = "send" /\ tPc' = [tPc EXCEPT ![b] = "num"]
      /\ down' = down \/ down' = [down EXCEPT ![c] = Append(@, hello.of)]
      /\ UNCHANGED <<fds, socketsToWorkers, hello, up, wPc, wConn, wQuery, wLeft>>
  BY DEF AskSend, AskGoto, server, workers
<1>2. \A a \in Indices : Peer(a) = c => a = b
  BY PeerOnce
<1>3. Replying(c, up[c], 0)
  BY <1>1, <1>2 DEF Agrees
<1>4. down[c] = <<>> /\ up[c] = <<>>
  BY <1>3 DEF Replying, Channels
<1>5. \A w \in Workers : wConn[w] = c => wPc[w] \notin {"rank", "send"}
  <2>1. Len(up[c]) = 0
    BY <1>4
  <2>2. \A w \in Workers : wPc[w] = "send" => wLeft[w] \in Nat /\ wLeft[w] > 0
    BY DEF Working
  <2>3. QED
    BY <1>3, <2>1, <2>2 DEF Replying
<1>6. down'[c] \in {<<>>, <<hello.of>>}
  BY <1>1, <1>4 DEF Channels
<1>7. Ranking(c)'
  BY <1>1, <1>4, <1>5, <1>6 DEF Ranking
<1>8. tPc'[b] = "num" /\ \A a \in Indices : Peer(a)' = Peer(a)
  BY <1>1 DEF Threads, Peer
<1>9. c = Peer(b)'
  BY <1>8
<1>10. QED
  BY <1>2, <1>7, <1>8, <1>9 DEF Agrees

(* It has read how many results follow.                                    *)
LEMMA AgreesNum ==
  ASSUME IInv, Threads, Working, Channels, NEW b \in Indices, AskNum(b),
         NEW c \in Conns, c = Peer(b), Agrees(c)
  PROVE  Agrees(c)'
<1>1. PICK s \in Seq(Reply) : s = up[c]
  BY DEF Channels
<1>2. PICK n : n = Head(s).n
  OBVIOUS
<1>3. PICK t : t = Tail(s)
  OBVIOUS
<1>4. /\ tPc[b] = "num" /\ tPc' = [tPc EXCEPT ![b] = IF n = 0 THEN "ended" ELSE "pages"]
      /\ left' = [left EXCEPT ![b] = n]
      /\ s # <<>> /\ up' = [up EXCEPT ![c] = Tail(@)]
      /\ UNCHANGED <<fds, socketsToWorkers, hello, down, wPc, wConn, wQuery, wLeft>>
  BY <1>1, <1>2 DEF AskNum, AskGoto, server, workers
<1>5. up'[c] = t
  BY <1>1, <1>3, <1>4 DEF Channels
<1>6. Replying(c, t, n)
  BY <1>1, <1>2, <1>3, <1>4 DEF Agrees, Ranking, Begun
<1>7. SameWorker(c)
  BY <1>4 DEF SameWorker
<1>8. Replying(c, t, n)'
  BY <1>4, <1>6, <1>7, ReplyingOn
<1>9. \A a \in Indices : Peer(a)' = Peer(a)
  BY <1>4 DEF Peer
<1>10. left'[b] = n /\ tPc'[b] = IF n = 0 THEN "ended" ELSE "pages"
  BY <1>4 DEF Threads
<1>11. \A a \in Indices : Peer(a) = c => a = b
  BY PeerOnce
<1>12. CASE n = 0
  <2>1. Replying(c, up[c], 0)'
    BY <1>5, <1>8, <1>12
  <2>2. QED
    BY <1>9, <1>10, <1>11, <1>12, <2>1 DEF Agrees
<1>13. CASE n # 0
  <2>1. Replying(c, up[c], left[b])'
    BY <1>5, <1>8, <1>10
  <2>2. QED
    BY <1>9, <1>10, <1>11, <1>13, <2>1 DEF Agrees
<1>14. QED
  BY <1>12, <1>13

(* It has read a result.                                                   *)
LEMMA AgreesPage ==
  ASSUME IInv, Threads, Working, Channels, NEW b \in Indices, AskPage(b),
         NEW c \in Conns, c = Peer(b), Agrees(c)
  PROVE  Agrees(c)' /\ Head(up[c]).query = hello.of
<1>1. PICK s \in Seq(Reply) : s = up[c]
  BY DEF Channels
<1>2. PICK l \in Nat : l = left[b]
  BY DEF Threads
<1>3. PICK t : t = Tail(s)
  OBVIOUS
<1>4. /\ tPc[b] = "pages" /\ tPc' = [tPc EXCEPT ![b] = IF l = 1 THEN "ended" ELSE "pages"]
      /\ left' = [left EXCEPT ![b] = l - 1]
      /\ s # <<>> /\ up' = [up EXCEPT ![c] = Tail(@)]
      /\ UNCHANGED <<fds, socketsToWorkers, hello, down, wPc, wConn, wQuery, wLeft>>
  BY <1>1, <1>2 DEF AskPage, AskGoto, server, workers
<1>5. up'[c] = t
  BY <1>1, <1>3, <1>4 DEF Channels
<1>6. Replying(c, s, l)
  BY <1>1, <1>2, <1>4 DEF Agrees
<1>7. Len(t) + 1 = Len(s) /\ Len(t) \in Nat /\ DOMAIN t = 1 .. Len(t)
      /\ \A i \in DOMAIN t : i + 1 \in DOMAIN s /\ t[i] = s[i + 1]
  BY <1>1, <1>3, <1>4
<1>8. Replying(c, t, l - 1)'
  <2>1. \A i \in DOMAIN t : t[i].kind = "page" /\ t[i].query = hello.of
    BY <1>6, <1>7 DEF Replying
  <2>2. Len(t) <= l - 1
    BY <1>6, <1>7 DEF Replying
  <2>3. \A w \in Workers : wConn[w] = c =>
          /\ wPc[w] # "rank"
          /\ wPc[w] = "send" => wQuery[w] = hello.of /\ Len(t) + wLeft[w] <= l - 1
    <3>1. \A w \in Workers : wLeft[w] \in Nat
      BY DEF Working
    <3>2. QED
      BY <1>6, <1>7, <3>1 DEF Replying
  <2>4. down[c] = <<>>
    BY <1>6 DEF Replying
  <2>5. QED
    BY <1>4, <2>1, <2>2, <2>3, <2>4 DEF Replying
<1>9. \A a \in Indices : Peer(a)' = Peer(a)
  BY <1>4 DEF Peer
<1>10. left'[b] = l - 1 /\ tPc'[b] = IF l = 1 THEN "ended" ELSE "pages"
  BY <1>4 DEF Threads
<1>11. \A a \in Indices : Peer(a) = c => a = b
  BY PeerOnce
<1>12. CASE l = 1
  <2>1. Replying(c, up[c], 0)'
    BY <1>5, <1>8, <1>12
  <2>2. Agrees(c)'
    BY <1>9, <1>10, <1>11, <1>12, <2>1 DEF Agrees
  <2>3. QED
    BY <1>1, <1>4, <1>6, <2>2 DEF Replying
<1>13. CASE l # 1
  <2>1. Replying(c, up[c], left[b])'
    BY <1>5, <1>8, <1>10
  <2>2. Agrees(c)'
    BY <1>9, <1>10, <1>11, <1>13, <2>1 DEF Agrees
  <2>3. QED
    BY <1>1, <1>4, <1>6, <2>2 DEF Replying
<1>14. QED
  BY <1>12, <1>13

LEMMA ConversationsAsker ==
  ASSUME IInv, Threads, Working, Channels, Conversations, NEW b \in Indices, Asker(b)
  PROVE  Conversations'
<1>1. PICK l \in {"num", "pages", "erase", "ended"} : AskerGoes(b, l)
  BY AskerMoves
<1>2. /\ hello' = hello /\ failed \subseteq failed'
      /\ UNCHANGED <<wPc, wConn, wQuery, wLeft>>
  BY DEF Asker, AskSend, AskNum, AskPage, AskFails, AskErase, server, workers, history
<1>3. \A a \in Indices : Peer(a)' = Peer(a)
  <2>1. CASE AskErase(b)
    BY <2>1, ErasesOwn
  <2>2. CASE ~AskErase(b)
    <3>1. UNCHANGED <<fds, socketsToWorkers>>
      BY <2>2 DEF Asker, AskSend, AskNum, AskPage, AskFails, server
    <3>2. QED
      BY <3>1 DEF Peer
  <2>3. QED
    BY <2>1, <2>2
<1>4. ASSUME NEW c \in Conns \ failed' PROVE Agrees(c)'
  <2>1. Agrees(c)
    BY <1>2, <1>4 DEF Conversations
  <2>2. SameWorker(c)
    BY <1>2 DEF SameWorker
  <2>3. CASE c # Peer(b)
    <3>1. PICK e : e = Peer(b)
      OBVIOUS
    <3>2. \A a \in Indices : a # b => tPc'[a] = tPc[a] /\ left'[a] = left[a]
      <4>1. tPc' = [tPc EXCEPT ![b] = l]
        BY <1>1 DEF AskerGoes
      <4>2. left' = left \/ \E k : left' = [left EXCEPT ![b] = k]
        BY DEF Asker, AskSend, AskNum, AskPage, AskFails, AskErase
      <4>3. QED
        BY <4>1, <4>2 DEF Threads
    <3>3. SameThread(c)
      BY <1>3, <2>3, <3>2 DEF SameThread
    <3>4. SameChannel(c)
      <4>1. \/ down' = down
            \/ down' = [down EXCEPT ![e] = Append(@, hello.of)]
        BY <3>1 DEF Asker, AskSend, AskNum, AskPage, AskFails, AskErase, network
      <4>2. up' = up \/ up' = [up EXCEPT ![e] = Tail(@)]
        BY <3>1 DEF Asker, AskSend, AskNum, AskPage, AskFails, AskErase, network
      <4>3. QED
        BY <2>3, <3>1, <4>1, <4>2 DEF SameChannel, Channels
    <3>5. QED
      BY <1>2, <2>1, <2>2, <3>3, <3>4, AgreesOn
  <2>4. CASE c = Peer(b) /\ AskErase(b)
    <3>1. tPc[b] = "erase" /\ tPc'[b] = "ended" /\ UNCHANGED <<left, down, up>>
          /\ \A a \in Indices : a # b => tPc'[a] = tPc[a]
      BY <2>4 DEF AskErase, AskGoto, network, Threads
    <3>2. SameChannel(c) /\ SameThread(c)
      BY <1>3, <3>1 DEF SameChannel, SameThread
    <3>3. QED
      BY <1>2, <2>1, <2>2, <3>2, AgreesOn
  <2>5. ~ (c = Peer(b) /\ AskFails(b))
    BY <1>4 DEF AskFails
  <2>6. CASE c = Peer(b) /\ AskSend(b)
    BY <2>1, <2>6, AgreesAsked
  <2>7. CASE c = Peer(b) /\ AskNum(b)
    BY <2>1, <2>7, AgreesNum
  <2>8. CASE c = Peer(b) /\ AskPage(b)
    BY <2>1, <2>8, AgreesPage
  <2>9. QED
    BY <2>3, <2>4, <2>5, <2>6, <2>7, <2>8 DEF Asker
<1>5. QED
  BY <1>4 DEF Conversations

(* Between two queries nothing is under way on a connection.               *)
LEMMA IdleOn ==
  ASSUME Channels, Working, NEW c \in Conns, Replying(c, up[c], 0),
         UNCHANGED <<down, up, wPc, wConn, wQuery, wLeft>>,
         \A b \in Indices : tPc'[b] \notin {"num", "pages"}
  PROVE  Agrees(c)'
<1>1. PICK s \in Seq(Reply) : s = up[c]
  BY DEF Channels
<1>2. s = <<>> /\ Len(s) = 0
  BY <1>1 DEF Replying
<1>3. \A w \in Workers : wConn[w] = c => wPc[w] \notin {"rank", "send"}
  BY <1>1, <1>2 DEF Replying, Working
<1>4. Replying(c, s, 0)'
  BY <1>1, <1>2, <1>3 DEF Replying
<1>5. up'[c] = s
  BY <1>1
<1>6. Replying(c, up[c], 0)'
  BY <1>4, <1>5
<1>7. QED
  BY <1>6 DEF Agrees

LEMMA ConversationsMain ==
  ASSUME IInv, Threads, Working, Channels, Conversations, AskQuery \/ Accept \/ MainThread
  PROVE  Conversations'
<1>1. UNCHANGED <<down, up, wPc, wConn, wQuery, wLeft, failed>>
  BY DEF AskQuery, Accept, MainThread, NewWorker, BeginQuery, InvalidQuery, SpawnNext, Join, Answer,
     PeerGone, network, workers, history
<1>2. ASSUME NEW c \in Conns, Agrees(c) PROVE Agrees(c)'
  <2>1. SameChannel(c) /\ SameWorker(c)
    BY <1>1 DEF SameChannel, SameWorker
  <2>2. CASE AskQuery \/ BeginQuery \/ Join
    <3>1. UNCHANGED <<fds, socketsToWorkers, tPc, left, hello>>
      BY <2>2 DEF AskQuery, BeginQuery, Join, server, threads
    <3>2. QED
      BY <1>2, <2>1, <3>1, SameThreads, AgreesOn
  <2>3. CASE SpawnNext
    <3>1. /\ UNCHANGED <<fds, socketsToWorkers, left, hello>> /\ sPc = "spawn"
          /\ tPc' = [tPc EXCEPT ![it] = "send"] /\ it # TableSize
      BY <2>3, TableEnd DEF SpawnNext
    <3>2. it \in Indices
      BY <3>1, BoundsAssumption DEF Threads, Indices
    <3>3. tPc[it] = "none"
      BY <3>1, <3>2, IndicesAre DEF Threads
    <3>4. SameThread(c)
      BY <3>1, <3>2, <3>3 DEF SameThread, Peer, Threads
    <3>5. QED
      BY <1>2, <2>1, <3>1, <3>4, AgreesOn
  <2>4. CASE Accept \/ NewWorker \/ InvalidQuery \/ Answer \/ PeerGone
    <3>1. \A b \in Indices : tPc[b] \notin {"num", "pages"}
      BY <2>4 DEF Threads, Ended, Accept, NewWorker, InvalidQuery, Answer, PeerGone
    <3>2. \A b \in Indices : tPc'[b] \notin {"num", "pages"}
      BY <2>4, <3>1 DEF Accept, NewWorker, InvalidQuery, Answer, PeerGone, threads
    <3>3. Replying(c, up[c], 0)
      BY <1>2, <3>1 DEF Agrees
    <3>4. QED
      BY <1>1, <3>2, <3>3, IdleOn
  <2>5. QED
    BY <2>2, <2>3, <2>4 DEF MainThread
<1>3. QED
  BY <1>1, <1>2 DEF Conversations

-----------------------------------------------------------------------------
(* What has been collected and answered                                    *)

LEMMA CollectedMain ==
  ASSUME Collected, AnswersOwnQuery, Accept \/ MainThread
  PROVE  Collected' /\ AnswersOwnQuery'
<1>1. failed' = failed
  BY DEF Accept, MainThread, NewWorker, BeginQuery, InvalidQuery, SpawnNext, Join, Answer, PeerGone,
     history
<1>2. CASE Accept \/ NewWorker
  <2>1. sPc \in {"accept", "hello"} /\ topPages' = topPages /\ answers' = answers
    BY <1>2 DEF Accept, NewWorker, threads, history
  <2>2. QED
    BY <1>1, <2>1 DEF Collected, AnswersOwnQuery
<1>3. CASE BeginQuery \/ SpawnNext \/ Join
  <2>1. topPages' = topPages /\ answers' = answers /\ hello' = hello /\ sPc' \notin {"accept", "hello"}
    BY <1>3 DEF BeginQuery, SpawnNext, Join, threads, history
  <2>2. QED
    BY <1>1, <2>1 DEF Collected, AnswersOwnQuery
<1>4. CASE PeerGone
  <2>1. topPages' = {} /\ answers' = answers
    BY <1>4 DEF PeerGone
  <2>2. QED
    BY <1>1, <2>1 DEF Collected, AnswersOwnQuery
<1>5. CASE InvalidQuery
  <2>1. /\ topPages' = {} /\ answers' = [answers EXCEPT ![hello.of] = {}]
    BY <1>5 DEF InvalidQuery, threads, Collected
  <2>2. QED
    BY <1>1, <2>1 DEF Collected, AnswersOwnQuery
<1>6. CASE Answer
  <2>1. /\ topPages' = {} /\ answers' = [answers EXCEPT ![hello.of] = topPages]
    BY <1>6 DEF Answer
  <2>2. DOMAIN answers' = Queries
    BY <2>1 DEF Collected
  <2>3. \A q \in Queries : answers'[q] = IF q = hello.of THEN topPages ELSE answers[q]
    BY <2>1 DEF Collected
  <2>4. AnswersOwnQuery'
    BY <1>1, <2>3 DEF Collected, AnswersOwnQuery
  <2>5. QED
    BY <2>1, <2>2, <2>4 DEF Collected
<1>7. QED
  BY <1>2, <1>3, <1>4, <1>5, <1>6 DEF MainThread

LEMMA CollectedAsker ==
  ASSUME IInv, Threads, Working, Channels, Conversations, Collected, AnswersOwnQuery,
         NEW b \in Indices, Asker(b)
  PROVE  Collected' /\ AnswersOwnQuery'
<1>1. answers' = answers /\ failed \subseteq failed' /\ hello' = hello /\ sPc' = sPc
  BY DEF Asker, AskSend, AskNum, AskPage, AskFails, AskErase, server, history
<1>2. AnswersOwnQuery'
  BY <1>1 DEF AnswersOwnQuery
<1>3. CASE ~AskPage(b)
  <2>1. topPages' = topPages
    BY <1>3 DEF Asker, AskSend, AskNum, AskFails, AskErase
  <2>2. QED
    BY <1>1, <1>2, <2>1 DEF Collected
<1>4. CASE AskPage(b)
  <2>1. PICK c : c = Peer(b)
    OBVIOUS
  <2>2. PICK r : r = [query |-> Head(up[c]).query, conn |-> c, n |-> Head(up[c]).n]
    OBVIOUS
  <2>3. tPc[b] = "pages" /\ c \in Conns /\ topPages' = topPages \cup {r}
    BY <1>4, <2>1, <2>2 DEF AskPage
  <2>4. c \notin failed => Head(up[c]).query = hello.of
    BY <1>4, <2>1, <2>3, AgreesPage DEF Conversations
  <2>5. r.query = hello.of \/ r.conn \in failed
    BY <2>2, <2>4
  <2>6. sPc \notin {"accept", "hello"}
    BY <2>3 DEF Threads
  <2>7. QED
    BY <1>1, <1>2, <2>3, <2>5, <2>6 DEF Collected
<1>5. QED
  BY <1>3, <1>4

-----------------------------------------------------------------------------
LEMMA InitAnswers == Init => AnswersInv
<1> SUFFICES ASSUME Init PROVE AnswersInv
  OBVIOUS
<1>1. Threads /\ AllReached /\ Collected /\ AnswersOwnQuery
  BY DEF Init, Threads, AskerPcs, AllReached, Collected, AnswersOwnQuery
<1>2. Working
  BY ConnAssumption DEF Init, Working, WorkerPcs
<1>3. Channels
  BY DEF Init, NoHello, Channels
<1>4. ASSUME NEW c \in Conns PROVE Agrees(c)
  <2>1. up[c] = <<>> /\ down[c] = <<>> /\ Len(<<>>) = 0 /\ DOMAIN <<>> = {}
    BY DEF Init
  <2>2. Replying(c, up[c], 0)
    BY <2>1 DEF Init, Replying
  <2>3. QED
    BY <2>2 DEF Init, Agrees
<1>5. QED
  BY <1>1, <1>2, <1>3, <1>4 DEF AnswersInv, Conversations

LEMMA AnswersNext ==
  ASSUME IInv, AnswersInv, [Next]_vars
  PROVE  AnswersInv'
<1> USE DEF AnswersInv
<1>1. Channels'
  BY ChannelsOn
<1>2. CASE Accept \/ MainThread
  <2>1. Working'
    BY <1>2 DEF Working, Accept, MainThread, NewWorker, BeginQuery, InvalidQuery, SpawnNext, Join,
       Answer, PeerGone, workers
  <2>2. Threads' /\ AllReached' /\ Conversations' /\ Collected' /\ AnswersOwnQuery'
    BY <1>2, ThreadsMain, ReachedMain, ConversationsMain, CollectedMain
  <2>3. QED
    BY <1>1, <2>1, <2>2
<1>3. CASE AskQuery
  <2>1. Working' /\ UNCHANGED <<server, threads, answers, asked, failed>>
    BY <1>3 DEF Working, AskQuery, workers, history
  <2>2. Threads' /\ AllReached' /\ Conversations' /\ Collected' /\ AnswersOwnQuery'
    BY <1>3, <2>1, ServerAlone, ConversationsMain
  <2>3. QED
    BY <1>1, <2>1, <2>2
<1>4. ASSUME NEW b \in Indices, Asker(b) PROVE AnswersInv'
  <2>1. Working'
    BY <1>4 DEF Working, Asker, AskSend, AskNum, AskPage, AskFails, AskErase, workers
  <2>2. Threads' /\ AllReached' /\ Conversations' /\ Collected' /\ AnswersOwnQuery'
    BY <1>4, ThreadsAsker, ReachedAsker, ConversationsAsker, CollectedAsker
  <2>3. QED
    BY <1>1, <2>1, <2>2
<1>5. ASSUME NEW w \in Workers, Worker(w) PROVE AnswersInv'
  <2>1. UNCHANGED <<server, threads, answers, asked, failed>>
    BY <1>5 DEF Worker, WorkerConnect, WorkerRecv, WorkerRecvFails, WorkerDies, WorkerRank,
       WorkerSend, WorkerSendFails, history
  <2>2. Working' /\ Conversations'
    BY <1>5, WorkingWorker, ConversationsWorker DEF IInv
  <2>3. QED
    BY <1>1, <2>1, <2>2, ServerAlone
<1>6. CASE (\E c \in Conns : Break(c)) \/ UNCHANGED vars
  <2>1. UNCHANGED <<server, threads, workers, down, up, conns, answers, asked, failed>>
    BY <1>6 DEF Break, vars, network, history
  <2>2. Working'
    BY <2>1 DEF Working, workers
  <2>3. ASSUME NEW c \in Conns, Agrees(c) PROVE Agrees(c)'
    <3>1. SameChannel(c) /\ SameWorker(c) /\ SameThread(c) /\ hello' = hello
      BY <2>1, SameThreads DEF SameChannel, SameWorker, server, threads, workers
    <3>2. QED
      BY <2>3, <3>1, AgreesOn
  <2>4. Conversations'
    BY <2>1, <2>3 DEF Conversations
  <2>5. QED
    BY <1>1, <2>1, <2>2, <2>4, ServerAlone
<1>7. QED
  BY <1>2, <1>3, <1>4, <1>5, <1>6 DEF Next

(* An answer has results of its own query only, and all of them from every *)
(* worker that has not been given up: each socket that the set held when   *)
(* the query came has a thread, which reads as many results as its worker  *)
(* announced, for any number of workers, connections, queries and results. *)
THEOREM AnswersAreComplete == Spec => []AnswersComplete
<1>1. AnswersInv => AnswersComplete
  <2> SUFFICES ASSUME AnswersInv PROVE ReadToEnd
    BY DEF AnswersInv, AnswersComplete
  <2> USE DEF AnswersInv
  <2>1. ASSUME sPc = "answer", NEW c \in asked \ failed
        PROVE  /\ down[c] = <<>> /\ up[c] = <<>>
               /\ \E b \in Indices : Peer(b) = c /\ tPc[b] = "ended"
    <3>1. \A b \in Indices : tPc[b] \in {"none", "ended"}
      BY <2>1 DEF Threads, Ended
    <3>2. c \in Conns /\ Reached(c)
      BY <2>1 DEF AllReached
    <3>3. Replying(c, up[c], 0)
      BY <2>1, <3>1, <3>2 DEF Conversations, Agrees
    <3>4. down[c] = <<>> /\ up[c] = <<>>
      BY <3>2, <3>3 DEF Replying, Channels
    <3>5. QED
      BY <2>1, <3>1, <3>2, <3>4 DEF Reached
  <2>2. QED
    BY <2>1 DEF ReadToEnd
<1>2. IInv /\ AnswersInv /\ [Next]_vars => AnswersInv'
  BY AnswersNext
<1>3. QED
  BY <1>1, <1>2, InitAnswers, Invariant, PTL DEF Spec

=============================================================================
