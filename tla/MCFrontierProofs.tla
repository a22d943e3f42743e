-------------------------- MODULE MCFrontierProofs ---------------------------
(***************************************************************************)
(* Proofs about Frontier, for any number of bins, URLs and handlers.       *)
(*                                                                         *)
(* toParseM excludes (StoreMutex), and so at most one getUrl works on a    *)
(* bin, on an entry that is there and that it has handed out (Filling).    *)
(* The Bloom filter knows what is in toParse and what was handed out       *)
(* (FilterKnows), so what it lets in is new, and toParse has every URL     *)
(* once (Distinct) and none of those handed out (Fresh).                   *)
(*                                                                         *)
(* toAddQueueM excludes until a wait unlocks it while another thread holds *)
(* it (Guarded), so that only then two threads may use a queue at once.    *)
(* What is handed over from a buffer to the queue, to temp and to urls is  *)
(* found again (Emptied says that nothing is overwritten), unless they do. *)
(***************************************************************************)
EXTENDS MCFrontier, SequenceTheorems, FiniteSetTheorems, WellFoundedInduction, TLAPS

Getting == {"get_pick", "get_fill"}
Adding == {"add_lock", "add_push", "add_unlock"}

(* Who works on the toParse of a bin                                       *)
StoreMutex ==
  /\ \A b \in Bins : binPc[b] = "add" => toParseM[b]
  /\ \A h \in Handlers : hPc[h] \in Getting => toParseM[hBin[h]]
  /\ \A b \in Bins, h \in Handlers :
       ~(binPc[b] = "add" /\ hPc[h] \in Getting /\ hBin[h] = b)
  /\ \A g, h \in Handlers :
       hPc[g] \in Getting /\ hPc[h] \in Getting /\ hBin[g] = hBin[h] => g = h

Filling ==
  \A h \in Handlers : hPc[h] = "get_fill" =>
    /\ hTries[h] > 0
    /\ hIdx[h] \in DOMAIN toParse[hBin[h]]
    /\ handed[toParse[hBin[h]][hIdx[h]]] = 1

Distinct ==
  \A b \in Bins : \A i, j \in DOMAIN toParse[b] :
    toParse[b][i] = toParse[b][j] => i = j

InBin == \A b \in Bins : \A i \in DOMAIN toParse[b] : HashBin[toParse[b][i]] = b

Fresh ==
  /\ \A u \in Urls : handed[u] \in {0, 1}
  /\ \A b \in Bins : \A i \in Live(b) : handed[toParse[b][i]] = 0

(* What the filter of a bin has been asked to insert, and let in           *)
Entered(b) ==
  ToSet(toParse[b]) \cup {u \in Urls : HashBin[u] = b /\ handed[u] > 0}

FilterKnows == \A b \in Bins : bloom[b] = UNION {HashBits[u] : u \in Entered(b)}

StoreInv == StoreMutex /\ Filling /\ Distinct /\ InBin /\ Fresh /\ FilterKnows

(* What the bins and the handlers fill is empty before.                    *)
Emptied ==
  /\ \A b \in Bins : binPc[b] # "add" => urls[b] = <<>>
  /\ \A b \in Bins : binPc[b] \notin {"batch", "add"} => temp[b] = <<>>
  /\ \A h \in Handlers, b \in Bins :
       (\/ hPc[h] \notin Adding
        \/ b < hBin[h]
        \/ b = hBin[h] /\ hPc[h] = "add_unlock") => buffers[h][b] = <<>>

(* A URL is on its way to its own bin only.                                *)
OwnBin == \A b \in Bins : \A u \in Pending(b) : HashBin[u] = b

(* GivenUrlsKept, but for what makes two threads use a queue at once       *)
UrlsKept ==
  \A u \in given :
    \/ u \in Pending(HashBin[u])
    \/ HashBits[u] \subseteq bloom[HashBin[u]]
    \/ HashBin[u] \in crossed

QueueInv == Emptied /\ OwnBin /\ UrlsKept

(* Who has locked the toAddQueueM of a bin holds it, and alone.            *)
Guarded ==
  /\ \A b \in Bins \ freed :
       /\ BinHolds(b) => toAddQueueM[b] /\ \A h \in Handlers : h \notin Holders(b)
       /\ \A h \in Handlers : h \in Holders(b) => toAddQueueM[b]
       /\ \A g, h \in Handlers : g \in Holders(b) /\ h \in Holders(b) => g = h
  /\ crossed \subseteq freed

IInv == TypeOK /\ StoreInv /\ QueueInv /\ Guarded

(* The bins that wait or have returned                                     *)
Parked == {b \in Bins : binPc[b] \in {"unlock_again", "wait", "waiting", "returned"}}

(* The shutdown, if no wakeup is spurious.  No bin passes the test of      *)
(* doShutdown while the main thread signals, so none is signalled and      *)
(* counted twice.                                                          *)
ShutdownInv ==
  /\ mPc = "running" => ~doShutdown
  /\ mPc # "running" => doShutdown /\ \A h \in Handlers : hPc[h] = "idle"
  /\ mPc \in {"running", "signal"} =>
       /\ numBinsShutdown = 0
       /\ \A b \in Bins : binPc[b] \notin {"count", "unlock_again", "returned"}
  /\ mPc = "running" =>
       \A b \in Bins : binPc[b] = "shutdown_test" =>
         doShutdownM /\ \A c \in Bins : binPc[c] = "shutdown_test" => c = b
  /\ mPc = "signal" => doShutdownM /\ \A b \in Bins : binPc[b] # "shutdown_test"
  /\ numBinsShutdown <= Cardinality(Parked)
  /\ mPc = "returned" => Parked = Bins

-----------------------------------------------------------------------------
(* Sequences and the sets of their elements                                *)

LEMMA Remainder ==
  ASSUME NEW a \in Nat, NEW n \in Nat \ {0}
  PROVE  a % n \in 0 .. n - 1
OBVIOUS

LEMMA EmptySets == ToSet(<<>>) = {} /\ InBatches(<<>>) = {}
BY DEF ToSet, InBatches

LEMMA AppendSet ==
  ASSUME NEW S, NEW s \in Seq(S), NEW e \in S
  PROVE  ToSet(Append(s, e)) = ToSet(s) \cup {e}
<1> DEFINE t == Append(s, e)
<1>1. /\ Len(s) \in Nat /\ DOMAIN s = 1 .. Len(s) /\ DOMAIN t = 1 .. Len(s) + 1
      /\ t[Len(s) + 1] = e /\ \A i \in 1 .. Len(s) : t[i] = s[i]
  OBVIOUS
<1>2. \A x : x \in ToSet(t) <=> x \in ToSet(s) \cup {e}
  BY <1>1 DEF ToSet
<1>3. QED
  BY <1>2

LEMMA TailSet ==
  ASSUME NEW S, NEW s \in Seq(S), s # <<>>
  PROVE  /\ Head(s) \in S /\ Tail(s) \in Seq(S)
         /\ ToSet(s) = {Head(s)} \cup ToSet(Tail(s))
<1>1. Head(s) \in S /\ Tail(s) \in Seq(S) /\ Len(s) \in Nat \ {0}
      /\ Head(s) = s[1] /\ Len(Tail(s)) = Len(s) - 1
      /\ \A i \in 1 .. Len(s) - 1 : Tail(s)[i] = s[i + 1]
  OBVIOUS
<1>2. DOMAIN s = 1 .. Len(s) /\ DOMAIN Tail(s) = 1 .. Len(s) - 1
  BY <1>1
<1>3. ASSUME NEW x \in ToSet(s) PROVE x \in {Head(s)} \cup ToSet(Tail(s))
  <2>1. PICK i \in 1 .. Len(s) : x = s[i]
    BY <1>2 DEF ToSet
  <2>2. CASE i = 1
    BY <1>1, <2>1, <2>2
  <2>3. CASE i # 1
    <3>1. i - 1 \in 1 .. Len(s) - 1 /\ Tail(s)[i - 1] = x
      BY <1>1, <2>1, <2>3
    <3>2. QED
      BY <1>2, <3>1 DEF ToSet
  <2>4. QED
    BY <2>2, <2>3
<1>4. ASSUME NEW x \in {Head(s)} \cup ToSet(Tail(s)) PROVE x \in ToSet(s)
  <2>1. CASE x = Head(s)
    BY <1>1, <1>2, <2>1 DEF ToSet
  <2>2. CASE x \in ToSet(Tail(s))
    <3>1. PICK i \in 1 .. Len(s) - 1 : x = Tail(s)[i]
      BY <1>2, <2>2 DEF ToSet
    <3>2. i + 1 \in 1 .. Len(s) /\ x = s[i + 1]
      BY <1>1, <3>1
    <3>3. QED
      BY <1>2, <3>2 DEF ToSet
  <2>3. QED
    BY <1>4, <2>1, <2>2
<1>5. QED
  BY <1>1, <1>3, <1>4

LEMMA FrontSet ==
  ASSUME NEW S, NEW s \in Seq(S), s # <<>>
  PROVE  /\ Last(s) \in S /\ Front(s) \in Seq(S)
         /\ Len(Front(s)) = Len(s) - 1
         /\ \A i \in 1 .. Len(s) - 1 : Front(s)[i] = s[i]
         /\ ToSet(s) = {Last(s)} \cup ToSet(Front(s))
<1>1. Len(s) \in Nat \ {0} /\ Front(s) \in Seq(S) /\ Len(Front(s)) = Len(s) - 1
      /\ \A i \in 1 .. Len(s) - 1 : Front(s)[i] = s[i]
  <2>1. Len(s) \in Nat \ {0}
    OBVIOUS
  <2>2. \A i \in 1 .. Len(s) - 1 : s[i] \in S
    BY <2>1
  <2> DEFINE f == SubSeq(s, 1, Len(s) - 1)
  <2>3. 1 \in Int /\ Len(s) - 1 \in Int
    BY <2>1
  <2>4. /\ f \in Seq(S)
        /\ Len(f) = IF 1 <= Len(s) - 1 THEN Len(s) - 1 - 1 + 1 ELSE 0
        /\ \A i \in 1 .. Len(s) - 1 - 1 + 1 : f[i] = s[1 + i - 1]
    BY <2>2, <2>3, SubSeqProperties
  <2> HIDE DEF f
  <2>8. Len(f) = IF 1 <= Len(s) - 1 THEN Len(s) - 1 - 1 + 1 ELSE 0
    BY <2>4
  <2>5. Len(f) = Len(s) - 1
    <3> DEFINE m == Len(s)
    <3>1. m \in Nat \ {0} /\ Len(f) = IF 1 <= m - 1 THEN m - 1 - 1 + 1 ELSE 0
      BY <2>1, <2>8
    <3> HIDE DEF m
    <3>2. Len(f) = m - 1
      BY <3>1
    <3>3. QED
      BY <3>2 DEF m
  <2>7. ASSUME NEW i \in 1 .. Len(s) - 1 PROVE f[i] = s[i]
    <3>1. i \in 1 .. Len(s) - 1 - 1 + 1 /\ 1 + i - 1 = i
      BY <2>1
    <3>2. QED
      BY <2>4, <3>1
  <2>6. QED
    BY <2>1, <2>4, <2>5, <2>7 DEF Front, f
<1>2. Last(s) = s[Len(s)] /\ Last(s) \in S
  BY <1>1 DEF Last
<1>3. DOMAIN s = 1 .. Len(s) /\ DOMAIN Front(s) = 1 .. Len(s) - 1
  BY <1>1
<1>4. \A x : x \in ToSet(s) <=> x \in {Last(s)} \cup ToSet(Front(s))
  BY <1>1, <1>2, <1>3 DEF ToSet
<1>5. QED
  BY <1>1, <1>2, <1>4

(* The URLs of batches are those of the one and of the others.             *)
LEMMA BatchesUnion ==
  ASSUME NEW q
  PROVE  InBatches(q) = UNION {ToSet(s) : s \in ToSet(q)}
BY DEF InBatches, ToSet

LEMMA AppendBatches ==
  ASSUME NEW q \in Seq(Seq(Urls)), NEW s \in Seq(Urls)
  PROVE  InBatches(Append(q, s)) = InBatches(q) \cup ToSet(s)
<1>1. ToSet(Append(q, s)) = ToSet(q) \cup {s}
  BY AppendSet
<1>2. QED
  BY <1>1, BatchesUnion

LEMMA FrontBatches ==
  ASSUME NEW q \in Seq(Seq(Urls)), q # <<>>
  PROVE  InBatches(q) = InBatches(Front(q)) \cup ToSet(Last(q))
<1>1. ToSet(q) = {Last(q)} \cup ToSet(Front(q))
  BY FrontSet
<1>2. QED
  BY <1>1, BatchesUnion

(* A swap-remove keeps all other entries, and keeps them apart.            *)
LEMMA SwapRemoved ==
  ASSUME NEW S, NEW s \in Seq(S), NEW i \in DOMAIN s,
         \A j, k \in DOMAIN s : s[j] = s[k] => j = k
  PROVE  /\ SwapRemove(s, i) \in Seq(S)
         /\ ToSet(SwapRemove(s, i)) = ToSet(s) \ {s[i]}
         /\ \A j, k \in DOMAIN SwapRemove(s, i) :
              SwapRemove(s, i)[j] = SwapRemove(s, i)[k] => j = k
<1> DEFINE t == SwapRemove(s, i)
           n == Len(s)
<1>1. n \in Nat /\ DOMAIN s = 1 .. n /\ i \in 1 .. n
  OBVIOUS
<1>2. /\ DOMAIN t = 1 .. n - 1
      /\ \A k \in 1 .. n - 1 : t[k] = IF k = i THEN s[n] ELSE s[k]
  BY DEF SwapRemove
<1>3. t \in Seq(S)
  <2>1. \A k \in 1 .. n - 1 : t[k] \in S
    BY <1>1, <1>2
  <2>2. n - 1 \in Nat /\ t = [k \in 1 .. n - 1 |-> t[k]]
    BY <1>1, <1>2 DEF SwapRemove
  <2>3. QED
    BY <2>1, <2>2
<1> HIDE DEF t
<1>4. \A x : x \in ToSet(t) <=> x \in ToSet(s) \ {s[i]}
  <2>1. ASSUME NEW x \in ToSet(t) PROVE x \in ToSet(s) \ {s[i]}
    <3>1. PICK k \in 1 .. n - 1 : x = t[k]
      BY <1>2 DEF ToSet
    <3>2. PICK j \in 1 .. n : x = s[j] /\ j # i
      BY <1>1, <1>2, <3>1
    <3>3. x # s[i]
      BY <1>1, <3>2
    <3>4. QED
      BY <1>1, <3>2, <3>3 DEF ToSet
  <2>2. ASSUME NEW x \in ToSet(s) \ {s[i]} PROVE x \in ToSet(t)
    <3>1. PICK k \in 1 .. n : x = s[k] /\ k # i
      BY <1>1 DEF ToSet
    <3>2. CASE k = n
      <4>1. i \in 1 .. n - 1 /\ t[i] = x
        BY <1>1, <1>2, <3>1, <3>2
      <4>2. QED
        BY <1>2, <4>1 DEF ToSet
    <3>3. CASE k # n
      <4>1. k \in 1 .. n - 1
        BY <3>3
      <4>2. t[k] = x
        BY <1>2, <3>1, <4>1
      <4>3. QED
        BY <1>2, <4>1, <4>2 DEF ToSet
    <3>4. QED
      BY <3>2, <3>3
  <2>3. QED
    BY <2>1, <2>2
<1>5. \A j, k \in DOMAIN t : t[j] = t[k] => j = k
  BY <1>1, <1>2
<1>6. ToSet(t) = ToSet(s) \ {s[i]}
  BY <1>4
<1>7. QED
  BY <1>3, <1>5, <1>6 DEF t

-----------------------------------------------------------------------------
(* Types                                                                   *)

LEMMA BinsAre == 0 \in Bins /\ Bins \subseteq Nat /\ \A b \in Bins : b + 1 \in Bins \/ b + 1 = NumFrontierBins
BY NumFrontierBinsAssumption DEF Bins

BinPcs == {"lock", "test", "shutdown_lock", "shutdown_test", "count", "unlock_again",
           "wait", "waiting", "woken", "take_lock", "swap", "batch", "add", "returned"}

(* What BinSwap and AddPush leave of a queue                               *)
LEMMA OnlySome ==
  ASSUME NEW q \in Seq(Seq(Urls)), NEW K
  PROVE  Only(q, K) \in Seq(Seq(Urls)) /\ InBatches(Only(q, K)) \subseteq InBatches(q)
<1> DEFINE t == Only(q, K)
<1>1. Len(q) \in Nat /\ DOMAIN q = 1 .. Len(q) /\ \A i \in 1 .. Len(q) : q[i] \in Seq(Urls)
  OBVIOUS
<1>2. /\ DOMAIN t = 1 .. Len(q) /\ t = [i \in 1 .. Len(q) |-> IF i \in K THEN q[i] ELSE <<>>]
      /\ \A i \in 1 .. Len(q) : t[i] = IF i \in K THEN q[i] ELSE <<>>
  BY <1>1 DEF Only
<1> HIDE DEF t
<1>3. \A i \in 1 .. Len(q) : t[i] \in Seq(Urls) /\ ToSet(t[i]) \subseteq ToSet(q[i])
  BY <1>1, <1>2, EmptySets
<1>4. t \in Seq(Seq(Urls))
  BY <1>1, <1>2, <1>3
<1>5. InBatches(t) \subseteq InBatches(q)
  BY <1>1, <1>2, <1>3 DEF InBatches
<1>6. QED
  BY <1>4, <1>5 DEF t

LEMMA OnlyAll ==
  ASSUME NEW q \in Seq(Seq(Urls))
  PROVE  Only(q, DOMAIN q) = q
BY DEF Only

LEMMA SwapShares ==
  ASSUME TypeOK, NEW b \in Bins, BinSwap(b)
  PROVE  \E some, left \in Seq(Seq(Urls)) :
           /\ toAddQueue' = [toAddQueue EXCEPT ![b] = left]
           /\ temp' = [temp EXCEPT ![b] = some]
           /\ InBatches(left) \subseteq InBatches(toAddQueue[b])
           /\ InBatches(some) \subseteq InBatches(toAddQueue[b])
           /\ b \notin crossed => some = toAddQueue[b]
<1> DEFINE q == toAddQueue[b]
<1>1. q \in Seq(Seq(Urls)) /\ <<>> \in Seq(Seq(Urls))
  BY DEF TypeOK
<1>2. PICK taken, kept \in SUBSET DOMAIN q :
        /\ b \notin crossed => taken = DOMAIN q
        /\ temp' = [temp EXCEPT ![b] = Only(q, taken)]
        /\ toAddQueue' = [toAddQueue EXCEPT ![b] = IF kept = {} THEN <<>> ELSE Only(q, kept)]
  BY DEF BinSwap
<1> HIDE DEF q
<1>3. /\ Only(q, taken) \in Seq(Seq(Urls)) /\ InBatches(Only(q, taken)) \subseteq InBatches(q)
      /\ b \notin crossed => Only(q, taken) = q
  BY <1>1, <1>2, OnlySome, OnlyAll
<1> DEFINE left == IF kept = {} THEN <<>> ELSE Only(q, kept)
<1>4. left \in Seq(Seq(Urls)) /\ InBatches(left) \subseteq InBatches(q)
  BY <1>1, OnlySome, EmptySets
<1>5. toAddQueue' = [toAddQueue EXCEPT ![b] = left]
  BY <1>2
<1> HIDE DEF left
<1>6. QED
  BY <1>2, <1>3, <1>4, <1>5 DEF q

LEMMA PushAppends ==
  ASSUME TypeOK, NEW h \in Handlers, AddPush(h), NEW b \in Bins, b = hBin[h]
  PROVE  \E some \in Seq(Seq(Urls)) :
           /\ toAddQueue' = [toAddQueue EXCEPT ![b] = some]
           /\ InBatches(some) \subseteq InBatches(toAddQueue[b]) \cup ToSet(buffers[h][b])
           /\ b \notin crossed =>
                InBatches(some) = InBatches(toAddQueue[b]) \cup ToSet(buffers[h][b])
<1> DEFINE q == toAddQueue[b]
           t == Append(q, buffers[h][b])
<1>1. q \in Seq(Seq(Urls)) /\ buffers[h][b] \in Seq(Urls)
  BY DEF TypeOK
<1>2. PICK K \in SUBSET (1 .. Len(q) + 1) :
        /\ b \notin crossed => K = 1 .. Len(q) + 1
        /\ toAddQueue' = [toAddQueue EXCEPT ![b] = Only(t, K)]
  BY DEF AddPush
<1> HIDE DEF q
<1>3. t \in Seq(Seq(Urls)) /\ DOMAIN t = 1 .. Len(q) + 1
  BY <1>1
<1>4. InBatches(t) = InBatches(q) \cup ToSet(buffers[h][b])
  BY <1>1, AppendBatches
<1> HIDE DEF t
<1>5. /\ Only(t, K) \in Seq(Seq(Urls)) /\ InBatches(Only(t, K)) \subseteq InBatches(t)
      /\ b \notin crossed => Only(t, K) = t
  BY <1>2, <1>3, OnlySome, OnlyAll
<1>6. QED
  BY <1>2, <1>4, <1>5 DEF q

LEMMA TypesBin ==
  ASSUME TypeOK, NEW b \in Bins, BinThread(b) \/ BinSpuriousWakeup(b)
  PROVE  TypeOK'
<1>1. CASE BinLockQueue(b)
  BY <1>1 DEF TypeOK, BinLockQueue, BinGoto, storeVars, shutVars, handlerVars, mainVars
<1>2. CASE BinTestQueue(b)
  BY <1>2 DEF TypeOK, BinTestQueue, UnlockQueue, BinGoto, storeVars, shutVars, handlerVars, mainVars
<1>3. CASE BinLockShutdown(b)
  BY <1>3 DEF TypeOK, BinLockShutdown, BinGoto, queueVars, storeVars, handlerVars, mainVars
<1>4. CASE BinTestShutdown(b)
  BY <1>4 DEF TypeOK, BinTestShutdown, BinGoto, queueVars, storeVars, handlerVars, mainVars
<1>5. CASE BinCount(b)
  <2>1. /\ binPc \in [Bins -> BinPcs] /\ numBinsShutdown \in Nat
        /\ numBinsShutdown' = numBinsShutdown + 1
        /\ \/ binPc' = [binPc EXCEPT ![b] = "returned"]
           \/ binPc' = [binPc EXCEPT ![b] = "unlock_again"]
    BY <1>5 DEF TypeOK, BinCount, BinGoto, BinPcs
  <2>4. binPc' \in [Bins -> BinPcs] /\ numBinsShutdown' \in Nat
    BY <2>1 DEF BinPcs
  <2>2. mPc' \in {mPc, "woken"}
    BY <1>5 DEF BinCount
  <2>3. QED
    BY <1>5, <2>4, <2>2 DEF TypeOK, BinCount, BinPcs, queueVars, storeVars, handlerVars
<1>6. CASE BinUnlockAgain(b)
  BY <1>6 DEF TypeOK, BinUnlockAgain, BinGoto, queueVars, storeVars, handlerVars, mainVars
<1>7. CASE BinWait(b)
  BY <1>7 DEF TypeOK, BinWait, BinGoto, storeVars, shutVars, handlerVars, mainVars
<1>8. CASE BinSpuriousWakeup(b)
  <2>1. binPc' \in [Bins -> BinPcs]
    BY <1>8 DEF TypeOK, BinSpuriousWakeup, BinGoto, BinPcs
  <2>2. spurious' \in Nat
    BY <1>8 DEF TypeOK, BinSpuriousWakeup
  <2>3. QED
    BY <1>8, <2>1, <2>2 DEF TypeOK, BinSpuriousWakeup, BinPcs, queueVars, storeVars, shutVars, handlerVars, mainVars
<1>9. CASE BinLockTake(b)
  BY <1>9 DEF TypeOK, BinLockTake, BinGoto, storeVars, shutVars, handlerVars, mainVars
<1>10. CASE BinSwap(b)
  <2>1. binPc' \in [Bins -> BinPcs] /\ toAddQueueM' \in [Bins -> BOOLEAN]
    BY <1>10 DEF TypeOK, BinSwap, UnlockQueue, BinGoto, BinPcs
  <2>2. toAddQueue' \in [Bins -> Seq(Seq(Urls))] /\ temp' \in [Bins -> Seq(Seq(Urls))]
    <3>1. toAddQueue \in [Bins -> Seq(Seq(Urls))] /\ temp \in [Bins -> Seq(Seq(Urls))]
      BY DEF TypeOK
    <3>2. PICK some, left \in Seq(Seq(Urls)) :
            /\ toAddQueue' = [toAddQueue EXCEPT ![b] = left]
            /\ temp' = [temp EXCEPT ![b] = some]
      BY <1>10, SwapShares
    <3>3. QED
      BY <3>1, <3>2
  <2>4. freed' \in SUBSET Bins
    BY <1>10 DEF TypeOK, BinSwap, UnlockQueue
  <2>3. QED
    BY <1>10, <2>1, <2>2, <2>4 DEF TypeOK, BinSwap, BinPcs, storeVars, shutVars, handlerVars, mainVars
<1>11. CASE BinLockToParse(b)
  <2>1. Last(temp[b]) \in Seq(Urls) /\ Front(temp[b]) \in Seq(Seq(Urls))
    BY <1>11, FrontSet DEF TypeOK, BinLockToParse
  <2>2. QED
    BY <1>11, <2>1 DEF TypeOK, BinLockToParse, BinGoto, queueVars, shutVars, handlerVars, mainVars
<1>12. CASE BinBatchesDone(b)
  BY <1>12 DEF TypeOK, BinBatchesDone, BinGoto, queueVars, storeVars, shutVars, handlerVars, mainVars
<1>13. CASE BinAddNew(b)
  <2>1. Head(urls[b]) \in Urls /\ Tail(urls[b]) \in Seq(Urls)
    BY <1>13, TailSet DEF TypeOK, BinAddNew
  <2>2. HashBits[Head(urls[b])] \subseteq UNION {HashBits[u] : u \in Urls}
    BY <2>1
  <2>3. bloom' \in [Bins -> SUBSET UNION {HashBits[u] : u \in Urls}]
    BY <1>13, <2>2 DEF TypeOK, BinAddNew
  <2>4. toParse' \in [Bins -> Seq(Urls)] /\ urls' \in [Bins -> Seq(Urls)]
    <3>1. /\ toParse \in [Bins -> Seq(Urls)] /\ urls \in [Bins -> Seq(Urls)]
          /\ toParse' = [toParse EXCEPT ![b] = Append(toParse[b], Head(urls[b]))]
          /\ urls' = [urls EXCEPT ![b] = Tail(urls[b])]
      BY <1>13 DEF TypeOK, BinAddNew
    <3>2. Append(toParse[b], Head(urls[b])) \in Seq(Urls)
      BY <2>1, <3>1
    <3>3. toParse' \in [Bins -> Seq(Urls)]
      BY <3>1, <3>2
    <3>4. urls' \in [Bins -> Seq(Urls)]
      BY <2>1, <3>1
    <3>5. QED
      BY <3>3, <3>4
  <2>5. QED
    BY <1>13, <2>3, <2>4 DEF TypeOK, BinAddNew, queueVars, shutVars, handlerVars, mainVars
<1>14. CASE BinSkipSeen(b)
  <2>1. Tail(urls[b]) \in Seq(Urls)
    BY <1>14, TailSet DEF TypeOK, BinSkipSeen
  <2>2. QED
    BY <1>14, <2>1 DEF TypeOK, BinSkipSeen, BinGoto, queueVars, storeVars, shutVars, handlerVars, mainVars
<1>15. CASE BinUnlockToParse(b)
  BY <1>15 DEF TypeOK, BinUnlockToParse, BinGoto, queueVars, shutVars, handlerVars, mainVars
<1>16. QED
  BY <1>1, <1>2, <1>3, <1>4, <1>5, <1>6, <1>7, <1>8, <1>9, <1>10, <1>11, <1>12, <1>13,
     <1>14, <1>15 DEF BinThread

LEMMA TypesHandler ==
  ASSUME TypeOK, StoreInv, NEW h \in Handlers, HandlerThread(h)
  PROVE  TypeOK'
<1>1. ASSUME NEW sorted \in Sorted, AddUrls(h, sorted) PROVE TypeOK'
  <2>1. sorted \in [Bins -> Seq(Urls)]
    BY BoundsAssumption DEF Sorted, SeqOf
  <2>2. UNION {ToSet(sorted[b]) : b \in Bins} \subseteq Urls
    BY <2>1 DEF ToSet
  <2>3. given \in SUBSET Urls /\ adds \in Nat /\ hBin \in [Handlers -> Bins]
        /\ buffers \in [Handlers -> [Bins -> Seq(Urls)]]
    BY DEF TypeOK
  <2>5. /\ given' \in SUBSET Urls /\ adds' \in Nat /\ hBin' \in [Handlers -> Bins]
        /\ buffers' \in [Handlers -> [Bins -> Seq(Urls)]]
    BY <1>1, <2>1, <2>2, <2>3, BinsAre DEF AddUrls
  <2>4. QED
    BY <1>1, <2>5 DEF TypeOK, AddUrls, HandlerGoto, queueVars, storeVars, shutVars, binVars, mainVars
<1>2. CASE AddLock(h)
  BY <1>2 DEF TypeOK, AddLock, HandlerGoto, storeVars, shutVars, binVars, mainVars
<1>3. CASE AddPush(h)
  <2>2. /\ toAddQueue' \in [Bins -> Seq(Seq(Urls))]
        /\ buffers' \in [Handlers -> [Bins -> Seq(Urls)]]
    <3>1. PICK bin \in Bins : bin = hBin[h]
      BY DEF TypeOK
    <3>2. PICK some \in Seq(Seq(Urls)) : toAddQueue' = [toAddQueue EXCEPT ![bin] = some]
      BY <1>3, <3>1, PushAppends
    <3>3. /\ toAddQueue \in [Bins -> Seq(Seq(Urls))]
          /\ buffers \in [Handlers -> [Bins -> Seq(Urls)]]
          /\ buffers' = [buffers EXCEPT ![h] = [buffers[h] EXCEPT ![bin] = <<>>]]
      BY <1>3, <3>1 DEF TypeOK, AddPush
    <3>4. toAddQueue' \in [Bins -> Seq(Seq(Urls))]
      BY <3>2, <3>3
    <3>5. [buffers[h] EXCEPT ![bin] = <<>>] \in [Bins -> Seq(Urls)]
      BY <3>3
    <3>6. buffers' \in [Handlers -> [Bins -> Seq(Urls)]]
      BY <3>3, <3>5
    <3>7. QED
      BY <3>4, <3>6
  <2>3. binPc' \in [Bins -> BinPcs]
    BY <1>3 DEF TypeOK, AddPush, BinPcs
  <2>4. QED
    BY <1>3, <2>2, <2>3 DEF TypeOK, AddPush, HandlerGoto, BinPcs, storeVars, shutVars, mainVars
<1>4. CASE AddUnlock(h)
  <2>1. /\ toAddQueueM' \in [Bins -> BOOLEAN] /\ hBin' \in [Handlers -> Bins]
    BY <1>4, BinsAre DEF TypeOK, AddUnlock, UnlockQueue
  <2>2. \E l \in {"add_lock", "idle"} : hPc' = [hPc EXCEPT ![h] = l]
    BY <1>4 DEF AddUnlock, HandlerGoto
  <2>3. /\ freed' \subseteq freed
        /\ UNCHANGED <<toAddQueue, crossed, buffers, hIdx, hTries, getCounter, given>>
        /\ UNCHANGED <<adds, storeVars, shutVars, binVars, mainVars, spurious>>
    BY <1>4 DEF AddUnlock, UnlockQueue
  <2>4. QED
    BY <2>1, <2>2, <2>3 DEF TypeOK, storeVars, shutVars, binVars, mainVars
<1>5. CASE GetUrl(h)
  <2>1. (getCounter + 1) % NumFrontierBins \in Bins
    <3>1. getCounter + 1 \in Nat /\ NumFrontierBins \in Nat \ {0}
      <4>1. getCounter \in Bins
        BY DEF TypeOK
      <4>2. QED
        BY <4>1, BinsAre, NumFrontierBinsAssumption
    <3>2. (getCounter + 1) % NumFrontierBins \in 0 .. NumFrontierBins - 1
      BY <3>1, Remainder
    <3>3. QED
      BY <3>2 DEF Bins
  <2>2. getCounter' \in Bins /\ hBin' \in [Handlers -> Bins]
    BY <1>5, <2>1 DEF TypeOK, GetUrl
  <2>3. hTries' \in [Handlers -> Nat]
    BY <1>5, BoundsAssumption DEF TypeOK, GetUrl
  <2>4. hPc' \in [Handlers -> {"idle", "add_lock", "add_push", "add_unlock",
                             "get_lock", "get_pick", "get_fill"}]
    BY <1>5 DEF TypeOK, GetUrl, HandlerGoto
  <2>5. /\ UNCHANGED <<toAddQueue, toAddQueueM, freed, crossed, buffers, hIdx, given, adds>>
        /\ UNCHANGED <<storeVars, shutVars, binVars, mainVars, spurious>>
    BY <1>5 DEF GetUrl, queueVars
  <2>6. QED
    BY <2>2, <2>3, <2>4, <2>5 DEF TypeOK, storeVars, shutVars, binVars, mainVars
<1>6. CASE GetLock(h)
  BY <1>6 DEF TypeOK, GetLock, HandlerGoto, queueVars, shutVars, binVars, mainVars
<1>7. ASSUME NEW i \in DOMAIN toParse[hBin[h]], GetPick(h, i) PROVE TypeOK'
  <2>1. toParse[hBin[h]] \in Seq(Urls) /\ handed \in [Urls -> Nat]
        /\ hIdx \in [Handlers -> Nat]
    BY DEF TypeOK
  <2>2. toParse[hBin[h]][i] \in Urls /\ i \in Nat
    BY <1>7, <2>1
  <2>3. handed' \in [Urls -> Nat] /\ hIdx' \in [Handlers -> Nat]
    BY <1>7, <2>1, <2>2 DEF GetPick
  <2>4. QED
    BY <1>7, <2>3 DEF TypeOK, GetPick, HandlerGoto, queueVars, shutVars, binVars, mainVars
<1>8. CASE GetFill(h)
  <2>1. SwapRemove(toParse[hBin[h]], hIdx[h]) \in Seq(Urls)
    BY <1>8, SwapRemoved DEF TypeOK, GetFill, StoreInv, Filling, Distinct
  <2>2. hTries[h] - 1 \in Nat
    <3>1. hTries[h] \in Nat /\ hTries[h] > 0
      BY <1>8 DEF TypeOK, GetFill, StoreInv, Filling
    <3>2. QED
      BY <3>1
  <2>3. QED
    BY <1>8, <2>1, <2>2 DEF TypeOK, GetFill, HandlerGoto, queueVars, shutVars, binVars, mainVars
<1>9. CASE GetUnlock(h)
  BY <1>9, BinsAre DEF TypeOK, GetUnlock, HandlerGoto, queueVars, shutVars, binVars, mainVars
<1>10. QED
  BY <1>1, <1>2, <1>3, <1>4, <1>5, <1>6, <1>7, <1>8, <1>9 DEF HandlerThread, HandlerStep

LEMMA TypesMain ==
  ASSUME TypeOK, ShutdownLock \/ MainThread
  PROVE  TypeOK'
<1>1. CASE ShutdownSignal
  <2>1. binPc' \in [Bins -> BinPcs]
    BY <1>1 DEF TypeOK, ShutdownSignal, BinPcs
  <2>2. mBin' \in Bins /\ mPc' \in {mPc, "test"}
    BY <1>1, BinsAre DEF ShutdownSignal
  <2>3. QED
    BY <1>1, <2>1, <2>2 DEF TypeOK, ShutdownSignal, BinPcs, queueVars, storeVars, shutVars, handlerVars
<1>2. CASE ShutdownLock \/ ShutdownTest \/ ShutdownWait \/ ShutdownWoken
  BY <1>2 DEF TypeOK, ShutdownLock, ShutdownTest, ShutdownWait, ShutdownWoken, queueVars,
     storeVars, binVars, handlerVars
<1>3. QED
  BY <1>1, <1>2 DEF MainThread

-----------------------------------------------------------------------------
(* toParse, the Bloom filter and what was handed out                       *)

LEMMA InitStore == Init => StoreInv
<1> SUFFICES ASSUME Init PROVE StoreInv
  OBVIOUS
<1>1. StoreMutex /\ Filling /\ Distinct /\ InBin
  BY DEF Init, StoreMutex, Filling, Distinct, InBin, Getting
<1>2. Fresh
  BY DEF Init, Fresh, Live
<1>3. \A b \in Bins : Entered(b) = {}
  BY EmptySets DEF Init, Entered
<1>4. FilterKnows
  BY <1>3 DEF Init, FilterKnows
<1>5. QED
  BY <1>1, <1>2, <1>4 DEF StoreInv

(* A step that takes nobody to toParse or away from it                     *)
SameWorkers ==
  /\ \A b \in Bins : binPc'[b] = "add" <=> binPc[b] = "add"
  /\ \A h \in Handlers : hPc'[h] \in Getting <=> hPc[h] \in Getting
  /\ \A h \in Handlers : hPc[h] \in Getting =>
       hPc'[h] = hPc[h] /\ hBin'[h] = hBin[h] /\ hIdx'[h] = hIdx[h] /\ hTries'[h] = hTries[h]

LEMMA SameStore ==
  ASSUME StoreInv, UNCHANGED storeVars, SameWorkers
  PROVE  StoreInv'
<1>1. \A h \in Handlers : hPc'[h] = "get_fill" <=> hPc[h] = "get_fill"
  BY DEF SameWorkers, Getting
<1>2. \A h \in Handlers : hPc[h] = "get_fill" =>
        hBin'[h] = hBin[h] /\ hIdx'[h] = hIdx[h] /\ hTries'[h] = hTries[h]
  BY DEF SameWorkers, Getting
<1>3. StoreMutex'
  BY DEF StoreInv, StoreMutex, SameWorkers, storeVars
<1>4. Filling'
  BY <1>1, <1>2 DEF StoreInv, Filling, storeVars
<1>5. Distinct' /\ InBin'
  BY DEF StoreInv, Distinct, InBin, storeVars
<1>6. \A b \in Bins : Live(b)' = Live(b)
  BY <1>1, <1>2 DEF Live, storeVars
<1>7. Fresh'
  BY <1>6 DEF StoreInv, Fresh, storeVars
<1>8. FilterKnows'
  BY DEF StoreInv, FilterKnows, Entered, storeVars
<1>9. QED
  BY <1>3, <1>4, <1>5, <1>7, <1>8 DEF StoreInv

(* The mutex is taken or given back.                                       *)
LEMMA StoreBinLock ==
  ASSUME TypeOK, StoreInv, NEW b \in Bins, BinLockToParse(b) \/ BinUnlockToParse(b)
  PROVE  StoreInv'
<1>1. /\ UNCHANGED <<toParse, bloom, handed, hPc, hBin, hIdx, hTries>>
      /\ \A c \in Bins : c # b => binPc'[c] = binPc[c] /\ toParseM'[c] = toParseM[c]
  BY DEF TypeOK, BinLockToParse, BinUnlockToParse, BinGoto, handlerVars
<1>2. \/ ~toParseM[b] /\ toParseM'[b] = TRUE /\ binPc'[b] = "add"
      \/ binPc[b] = "add" /\ toParseM'[b] = FALSE /\ binPc'[b] = "batch"
  BY DEF TypeOK, BinLockToParse, BinUnlockToParse, BinGoto
<1>7. \A h \in Handlers : hBin[h] \in Bins
  BY DEF TypeOK
<1>3. StoreMutex'
  <2>1. CASE ~toParseM[b] /\ toParseM'[b] = TRUE /\ binPc'[b] = "add"
    <3>1. \A h \in Handlers : ~(hPc[h] \in Getting /\ hBin[h] = b)
      BY <2>1 DEF StoreInv, StoreMutex
    <3>2. QED
      BY <1>1, <1>7, <2>1, <3>1 DEF StoreInv, StoreMutex
  <2>2. CASE binPc[b] = "add" /\ toParseM'[b] = FALSE /\ binPc'[b] = "batch"
    <3>1. \A h \in Handlers : ~(hPc[h] \in Getting /\ hBin[h] = b)
      BY <2>2 DEF StoreInv, StoreMutex
    <3>2. QED
      BY <1>1, <1>7, <2>2, <3>1 DEF StoreInv, StoreMutex
  <2>3. QED
    BY <1>2, <2>1, <2>2
<1>4. Filling' /\ Distinct' /\ InBin'
  BY <1>1 DEF StoreInv, Filling, Distinct, InBin
<1>5. Fresh' /\ FilterKnows'
  BY <1>1 DEF StoreInv, Fresh, Live, FilterKnows, Entered
<1>6. QED
  BY <1>3, <1>4, <1>5 DEF StoreInv

LEMMA StoreGetLock ==
  ASSUME TypeOK, StoreInv, NEW h \in Handlers, GetLock(h) \/ GetUnlock(h)
  PROVE  StoreInv'
<1> DEFINE b == hBin[h]
<1>1. /\ UNCHANGED <<toParse, bloom, handed, binPc, hIdx>>
      /\ \A c \in Bins : c # b => toParseM'[c] = toParseM[c]
      /\ \A g \in Handlers : g # h => hPc'[g] = hPc[g] /\ hBin'[g] = hBin[g] /\ hTries'[g] = hTries[g]
  BY DEF TypeOK, GetLock, GetUnlock, HandlerGoto, binVars
<1>2. b \in Bins /\ \A g \in Handlers : hBin[g] \in Bins
  BY DEF TypeOK
<1>3. \/ /\ ~toParseM[b] /\ toParseM'[b] = TRUE
         /\ hPc[h] = "get_lock" /\ hPc'[h] = "get_pick" /\ hBin'[h] = b
      \/ toParseM'[b] = FALSE /\ hPc[h] = "get_pick" /\ hPc'[h] = "idle"
  <2>1. hBin \in [Handlers -> Bins] /\ toParseM \in [Bins -> BOOLEAN]
        /\ hPc \in [Handlers -> {"idle", "add_lock", "add_push", "add_unlock",
                                  "get_lock", "get_pick", "get_fill"}]
    BY DEF TypeOK
  <2>2. CASE GetLock(h)
    BY <2>1, <2>2 DEF GetLock, HandlerGoto
  <2>3. CASE GetUnlock(h)
    BY <2>1, <2>3 DEF GetUnlock, HandlerGoto
  <2>4. QED
    BY <2>2, <2>3
<1> HIDE DEF b
<1>4. StoreMutex'
  <2>1. CASE hPc'[h] = "get_pick"
    <3>1. /\ ~toParseM[b] /\ toParseM'[b] = TRUE
          /\ hPc[h] = "get_lock" /\ hBin'[h] = b
      BY <1>3, <2>1
    <3>2. /\ binPc[b] # "add"
          /\ \A g \in Handlers : ~(hPc[g] \in Getting /\ hBin[g] = b)
      BY <1>2, <3>1 DEF StoreInv, StoreMutex
    <3>3. hPc'[h] \in Getting /\ hPc[h] \notin Getting
      BY <2>1, <3>1 DEF Getting
    <3>4. QED
      BY <1>1, <1>2, <3>1, <3>2, <3>3 DEF StoreInv, StoreMutex
  <2>2. CASE hPc'[h] = "idle"
    <3>1. toParseM'[b] = FALSE /\ hPc[h] = "get_pick" /\ hBin[h] = b
      BY <1>3, <2>2 DEF b
    <3>2. hPc[h] \in Getting /\ hPc'[h] \notin Getting
      BY <2>2, <3>1 DEF Getting
    <3>3. /\ binPc[b] # "add"
          /\ \A g \in Handlers : g # h => ~(hPc[g] \in Getting /\ hBin[g] = b)
      BY <1>2, <3>1, <3>2 DEF StoreInv, StoreMutex
    <3>4. QED
      BY <1>1, <1>2, <3>1, <3>2, <3>3 DEF StoreInv, StoreMutex
  <2>3. QED
    BY <1>3, <2>1, <2>2
<1>5. \A g \in Handlers : hPc'[g] = "get_fill" <=> hPc[g] = "get_fill"
  BY <1>1, <1>3
<1>6. \A g \in Handlers : hPc[g] = "get_fill" => g # h
  BY <1>3
<1>7. Filling' /\ Distinct' /\ InBin'
  BY <1>1, <1>5, <1>6 DEF StoreInv, Filling, Distinct, InBin
<1>8. \A c \in Bins : Live(c)' = Live(c)
  BY <1>1, <1>5, <1>6 DEF Live
<1>9. Fresh' /\ FilterKnows'
  BY <1>1, <1>8 DEF StoreInv, Fresh, FilterKnows, Entered
<1>10. QED
  BY <1>4, <1>7, <1>9 DEF StoreInv

(* The entry that is drawn has not been handed out before.                 *)
LEMMA StoreGetPick ==
  ASSUME TypeOK, StoreInv, NEW h \in Handlers, NEW i \in DOMAIN toParse[hBin[h]], GetPick(h, i)
  PROVE  StoreInv'
<1> DEFINE b == hBin[h]
           u == toParse[b][i]
<1>1. /\ UNCHANGED <<toParse, toParseM, bloom, binPc, hBin, hTries>>
      /\ hPc[h] = "get_pick" /\ hPc'[h] = "get_fill" /\ hIdx'[h] = i /\ hTries[h] > 0
      /\ \A g \in Handlers : g # h => hPc'[g] = hPc[g] /\ hIdx'[g] = hIdx[g]
  BY DEF TypeOK, GetPick, HandlerGoto, binVars
<1>2. /\ b \in Bins /\ \A g \in Handlers : hBin[g] \in Bins
      /\ \A c \in Bins : \A j \in DOMAIN toParse[c] : toParse[c][j] \in Urls
  <2>1. toParse \in [Bins -> Seq(Urls)] /\ hBin \in [Handlers -> Bins]
    BY DEF TypeOK
  <2>2. QED
    BY <2>1
<1>3. u \in Urls /\ HashBin[u] = b
  BY <1>2 DEF StoreInv, InBin
<1>4. handed' = [handed EXCEPT ![u] = @ + 1] /\ handed \in [Urls -> Nat]
  BY DEF TypeOK, GetPick
<1>5. \A g \in Handlers : g # h /\ hPc[g] = "get_fill" => hBin[g] # b
  BY <1>1, <1>2 DEF StoreInv, StoreMutex, Getting
<1> HIDE DEF b
<1>6. i \in Live(b)
  BY <1>1, <1>5 DEF Live, b
<1>7. handed[u] = 0
  BY <1>2, <1>6 DEF StoreInv, Fresh
<1> HIDE DEF u
<1>8. handed'[u] = 1 /\ \A v \in Urls : v # u => handed'[v] = handed[v]
  BY <1>3, <1>4, <1>7
<1>9. StoreMutex'
  BY <1>1 DEF StoreInv, StoreMutex, Getting
<1>10. Filling'
  <2>1. ASSUME NEW g \in Handlers, g # h, hPc'[g] = "get_fill"
        PROVE  /\ hTries[g] > 0 /\ hIdx[g] \in DOMAIN toParse[hBin[g]]
               /\ handed'[toParse[hBin[g]][hIdx[g]]] = 1
    <3>1. /\ hPc[g] = "get_fill" /\ hTries[g] > 0 /\ hIdx[g] \in DOMAIN toParse[hBin[g]]
          /\ handed[toParse[hBin[g]][hIdx[g]]] = 1
      BY <1>1, <2>1 DEF StoreInv, Filling
    <3>2. toParse[hBin[g]][hIdx[g]] # u
      BY <1>7, <3>1
    <3>3. QED
      BY <1>2, <1>8, <3>1, <3>2
  <2>2. QED
    BY <1>1, <1>8, <2>1 DEF Filling, b, u
<1>11. Distinct' /\ InBin'
  BY <1>1 DEF StoreInv, Distinct, InBin
<1>12. Fresh'
  <2>1. \A v \in Urls : handed'[v] \in {0, 1}
    BY <1>8 DEF StoreInv, Fresh
  <2>2. ASSUME NEW c \in Bins, NEW j \in Live(c)' PROVE handed'[toParse[c][j]] = 0
    <3>1. j \in DOMAIN toParse[c] /\ ~(c = b /\ j = i)
      BY <1>1, <2>2 DEF Live, b
    <3>2. j \in Live(c)
      BY <1>1, <2>2 DEF Live
    <3>3. handed[toParse[c][j]] = 0
      BY <3>2 DEF StoreInv, Fresh
    <3>4. toParse[c][j] # u
      BY <1>2, <1>3, <3>1 DEF StoreInv, InBin, Distinct, u, b
    <3>5. QED
      BY <1>2, <1>8, <3>1, <3>3, <3>4
  <2>3. QED
    BY <1>1, <2>1, <2>2 DEF Fresh
<1>13. FilterKnows'
  <2>1. u \in ToSet(toParse[b])
    BY DEF ToSet, u, b
  <2>2. ASSUME NEW c \in Bins PROVE Entered(c)' = Entered(c)
    <3>1. ASSUME NEW v PROVE v \in Entered(c)' <=> v \in Entered(c)
      BY <1>1, <1>3, <1>7, <1>8, <2>1 DEF Entered
    <3>2. QED
      BY <3>1
  <2>3. QED
    BY <1>1, <2>2 DEF StoreInv, FilterKnows
<1>14. QED
  BY <1>9, <1>10, <1>11, <1>12, <1>13 DEF StoreInv

(* The entry that goes has been handed out, and all others stay.           *)
LEMMA StoreGetFill ==
  ASSUME TypeOK, StoreInv, NEW h \in Handlers, GetFill(h)
  PROVE  StoreInv'
<1> DEFINE b == hBin[h]
           i == hIdx[h]
           s == toParse[b]
           t == SwapRemove(s, i)
<1>1. /\ UNCHANGED <<toParseM, bloom, handed, binPc, hBin>>
      /\ hPc[h] = "get_fill" /\ hPc'[h] = "get_pick"
      /\ \A g \in Handlers : g # h =>
           hPc'[g] = hPc[g] /\ hIdx'[g] = hIdx[g] /\ hTries'[g] = hTries[g]
  BY DEF TypeOK, GetFill, HandlerGoto, binVars
<1>2. /\ b \in Bins /\ \A g \in Handlers : hBin[g] \in Bins
      /\ s \in Seq(Urls) /\ toParse \in [Bins -> Seq(Urls)]
  BY DEF TypeOK
<1>3. toParse'[b] = t /\ \A c \in Bins : c # b => toParse'[c] = toParse[c]
  BY <1>2 DEF GetFill
<1>4. \A g \in Handlers : g # h /\ hPc[g] = "get_fill" => hBin[g] # b
  BY <1>1, <1>2 DEF StoreInv, StoreMutex, Getting
<1>5. i \in DOMAIN s /\ handed[s[i]] = 1
  BY <1>1 DEF StoreInv, Filling
<1>6. \A j, k \in DOMAIN s : s[j] = s[k] => j = k
  BY <1>2 DEF StoreInv, Distinct
<1>7. /\ t \in Seq(Urls) /\ ToSet(t) = ToSet(s) \ {s[i]}
      /\ \A j, k \in DOMAIN t : t[j] = t[k] => j = k
  BY <1>2, <1>5, <1>6, SwapRemoved
<1>8. HashBin[s[i]] = b /\ s[i] \in Urls
  BY <1>2, <1>5 DEF StoreInv, InBin
<1> HIDE DEF b, i, s, t
<1>9. ASSUME NEW j \in DOMAIN t
      PROVE  \E k \in DOMAIN s : k # i /\ t[j] = s[k]
  <2>1. t[j] \in ToSet(s) \ {s[i]}
    BY <1>7 DEF ToSet
  <2>2. QED
    BY <2>1 DEF ToSet
<1>10. StoreMutex'
  BY <1>1 DEF StoreInv, StoreMutex, Getting
<1>11. Filling'
  BY <1>1, <1>2, <1>3, <1>4 DEF StoreInv, Filling, b
<1>12. Distinct'
  BY <1>3, <1>7 DEF StoreInv, Distinct
<1>13. InBin'
  BY <1>2, <1>3, <1>9 DEF StoreInv, InBin, s
<1>14. Fresh'
  <2>1. ASSUME NEW c \in Bins, NEW j \in Live(c)' PROVE handed[toParse'[c][j]] = 0
    <3>1. CASE c = b
      <4>1. PICK k \in DOMAIN s : k # i /\ t[j] = s[k]
        BY <1>3, <1>9, <2>1, <3>1 DEF Live
      <4>2. k \in Live(b)
        BY <1>4, <4>1 DEF Live, s, i, b
      <4>3. QED
        BY <1>2, <1>3, <3>1, <4>1, <4>2 DEF StoreInv, Fresh, s
    <3>2. CASE c # b
      <4>1. j \in Live(c)
        BY <1>1, <1>3, <2>1, <3>2 DEF Live, b
      <4>2. QED
        BY <1>3, <3>2, <4>1 DEF StoreInv, Fresh
    <3>3. QED
      BY <3>1, <3>2
  <2>2. QED
    BY <1>1, <2>1 DEF StoreInv, Fresh
<1>15. FilterKnows'
  <2>1. ASSUME NEW c \in Bins PROVE Entered(c)' = Entered(c)
    <3>1. CASE c = b
      <4>1. ASSUME NEW v PROVE v \in Entered(c)' <=> v \in Entered(c)
        BY <1>1, <1>3, <1>5, <1>7, <1>8, <3>1 DEF Entered, s
      <4>2. QED
        BY <4>1
    <3>2. CASE c # b
      BY <1>1, <1>3, <3>2 DEF Entered
    <3>3. QED
      BY <3>1, <3>2
  <2>2. QED
    BY <1>1, <2>1 DEF StoreInv, FilterKnows
<1>16. QED
  BY <1>10, <1>11, <1>12, <1>13, <1>14, <1>15 DEF StoreInv

(* What the filter lets in is neither in toParse nor handed out.           *)
LEMMA StoreAddNew ==
  ASSUME TypeOK, StoreInv, OwnBin, NEW b \in Bins, BinAddNew(b)
  PROVE  StoreInv'
<1> DEFINE u == Head(urls[b])
           s == toParse[b]
<1>1. /\ UNCHANGED <<toParseM, handed, binPc, hPc, hBin, hIdx, hTries>>
      /\ binPc[b] = "add" /\ urls[b] # <<>> /\ ~(HashBits[u] \subseteq bloom[b])
  BY DEF BinAddNew, handlerVars
<1>2. /\ s \in Seq(Urls) /\ \A g \in Handlers : hBin[g] \in Bins
      /\ urls[b] \in Seq(Urls)
  BY DEF TypeOK
<1>3. /\ toParse'[b] = Append(s, u) /\ bloom'[b] = bloom[b] \cup HashBits[u]
      /\ \A c \in Bins : c # b => toParse'[c] = toParse[c] /\ bloom'[c] = bloom[c]
  BY DEF TypeOK, BinAddNew
<1>4. u \in Urls /\ HashBin[u] = b
  <2>1. u \in Urls /\ u \in ToSet(urls[b])
    BY <1>1, <1>2, TailSet
  <2>2. QED
    BY <2>1 DEF OwnBin, Pending
<1>5. \A g \in Handlers : hPc[g] = "get_fill" => hBin[g] # b
  BY <1>1 DEF StoreInv, StoreMutex, Getting
<1> HIDE DEF u
<1>6. u \notin Entered(b)
  BY <1>1 DEF StoreInv, FilterKnows
<1>7. handed[u] = 0 /\ \A j \in DOMAIN s : s[j] # u
  <2>1. ~(handed[u] > 0) /\ u \notin ToSet(s)
    BY <1>4, <1>6 DEF Entered
  <2>2. handed[u] \in {0, 1}
    BY <1>4 DEF StoreInv, Fresh
  <2>3. QED
    BY <2>1, <2>2 DEF ToSet
<1> DEFINE t == Append(s, u)
           n == Len(s)
<1>8. /\ n \in Nat /\ DOMAIN s = 1 .. n /\ DOMAIN t = 1 .. n + 1
      /\ t[n + 1] = u /\ \A j \in 1 .. n : t[j] = s[j]
  BY <1>2, <1>4
<1>9. ToSet(t) = ToSet(s) \cup {u}
  BY <1>2, <1>4, AppendSet
<1> HIDE DEF s, t, n
<1>10. toParse'[b] = t
  BY <1>3 DEF t
<1>11. StoreMutex'
  BY <1>1 DEF StoreInv, StoreMutex
<1>12. Filling'
  BY <1>1, <1>2, <1>3, <1>5 DEF StoreInv, Filling
<1>13. Distinct'
  <2>1. \A j, k \in DOMAIN s : s[j] = s[k] => j = k
    BY DEF StoreInv, Distinct, s
  <2>2. \A j, k \in DOMAIN t : t[j] = t[k] => j = k
    BY <1>7, <1>8, <2>1
  <2>3. QED
    BY <1>3, <1>10, <2>2 DEF StoreInv, Distinct
<1>14. InBin'
  <2>1. \A j \in DOMAIN s : HashBin[s[j]] = b
    BY DEF StoreInv, InBin, s
  <2>2. \A j \in DOMAIN t : HashBin[t[j]] = b
    BY <1>4, <1>8, <2>1
  <2>3. QED
    BY <1>3, <1>10, <2>2 DEF StoreInv, InBin
<1>15. Fresh'
  <2>1. ASSUME NEW c \in Bins, NEW j \in Live(c)' PROVE handed[toParse'[c][j]] = 0
    <3>1. CASE c = b
      <4>1. j \in DOMAIN t
        BY <1>10, <2>1, <3>1 DEF Live
      <4>2. ASSUME j # n + 1 PROVE handed[t[j]] = 0
        <5>1. j \in DOMAIN s /\ t[j] = s[j]
          BY <1>8, <4>1, <4>2
        <5>2. j \in Live(b)
          BY <1>5, <5>1 DEF Live, s
        <5>3. QED
          BY <5>1, <5>2 DEF StoreInv, Fresh, s
      <4>3. QED
        BY <1>7, <1>8, <1>10, <3>1, <4>2
    <3>2. CASE c # b
      <4>1. j \in Live(c)
        BY <1>1, <1>3, <2>1, <3>2 DEF Live
      <4>2. QED
        BY <1>3, <3>2, <4>1 DEF StoreInv, Fresh
    <3>3. QED
      BY <3>1, <3>2
  <2>2. QED
    BY <1>1, <2>1 DEF StoreInv, Fresh
<1>16. FilterKnows'
  <2>1. Entered(b)' = Entered(b) \cup {u}
    BY <1>1, <1>9, <1>10 DEF Entered, s
  <2>2. bloom'[b] = UNION {HashBits[v] : v \in Entered(b) \cup {u}}
    BY <1>3 DEF StoreInv, FilterKnows
  <2>3. \A c \in Bins : c # b => Entered(c)' = Entered(c)
    BY <1>1, <1>3 DEF Entered
  <2>4. QED
    BY <1>3, <2>1, <2>2, <2>3 DEF StoreInv, FilterKnows
<1>17. QED
  BY <1>11, <1>12, <1>13, <1>14, <1>15, <1>16 DEF StoreInv

(* All other steps leave toParse and those who work on it alone.           *)
StoreBinSteps(b) ==
  BinLockToParse(b) \/ BinUnlockToParse(b) \/ BinAddNew(b)

LEMMA BinElsewhere ==
  ASSUME TypeOK, NEW b \in Bins, BinThread(b) \/ BinSpuriousWakeup(b), ~StoreBinSteps(b)
  PROVE  UNCHANGED storeVars /\ SameWorkers
<1>1. binPc \in [Bins -> BinPcs]
  BY DEF TypeOK, BinPcs
<1>2. UNCHANGED storeVars /\ UNCHANGED <<hPc, hBin, hIdx, hTries>>
  BY DEF BinThread, StoreBinSteps, BinLockQueue, BinTestQueue, BinLockShutdown,
     BinTestShutdown, BinCount, BinUnlockAgain, BinWait, BinSpuriousWakeup, BinLockTake,
     BinSwap, BinBatchesDone, BinSkipSeen, handlerVars
<1>3. \/ UNCHANGED binPc
      \/ /\ binPc[b] # "add"
         /\ \E l \in BinPcs \ {"add"} : binPc' = [binPc EXCEPT ![b] = l]
  <2>1. CASE BinLockQueue(b) \/ BinTestQueue(b) \/ BinLockShutdown(b) \/ BinTestShutdown(b)
    BY <2>1 DEF BinLockQueue, BinTestQueue, BinLockShutdown, BinTestShutdown, BinGoto, BinPcs
  <2>2. CASE BinCount(b) \/ BinUnlockAgain(b) \/ BinWait(b) \/ BinSpuriousWakeup(b)
    BY <2>2 DEF BinCount, BinUnlockAgain, BinWait, BinSpuriousWakeup, BinGoto, BinPcs
  <2>3. CASE BinLockTake(b) \/ BinSwap(b) \/ BinBatchesDone(b) \/ BinSkipSeen(b)
    BY <2>3 DEF BinLockTake, BinSwap, BinBatchesDone, BinSkipSeen, BinGoto, BinPcs
  <2>4. QED
    BY <2>1, <2>2, <2>3 DEF BinThread, StoreBinSteps
<1>4. \A c \in Bins : binPc'[c] = "add" <=> binPc[c] = "add"
  BY <1>1, <1>3
<1>5. QED
  BY <1>2, <1>4 DEF SameWorkers

LEMMA HandlerElsewhere ==
  ASSUME TypeOK, NEW h \in Handlers,
         \/ \E sorted \in Sorted : AddUrls(h, sorted)
         \/ AddLock(h) \/ AddPush(h) \/ AddUnlock(h) \/ GetUrl(h)
  PROVE  UNCHANGED storeVars /\ SameWorkers
<1>1. /\ binPc \in [Bins -> BinPcs] /\ hBin \in [Handlers -> Bins] /\ hTries \in [Handlers -> Nat]
      /\ hPc \in [Handlers -> {"idle", "add_lock", "add_push", "add_unlock",
                                "get_lock", "get_pick", "get_fill"}]
  BY DEF TypeOK, BinPcs
<1>2. /\ UNCHANGED storeVars /\ UNCHANGED hIdx
      /\ hPc[h] \notin Getting /\ hPc'[h] \notin Getting
      /\ \A g \in Handlers : g # h =>
           hPc'[g] = hPc[g] /\ hBin'[g] = hBin[g] /\ hTries'[g] = hTries[g]
  <2>1. CASE \E sorted \in Sorted : AddUrls(h, sorted)
    BY <1>1, <2>1 DEF AddUrls, HandlerGoto, Getting
  <2>2. CASE AddLock(h)
    BY <1>1, <2>2 DEF AddLock, HandlerGoto, Getting
  <2>3. CASE AddPush(h)
    BY <1>1, <2>3 DEF AddPush, HandlerGoto, Getting
  <2>4. CASE AddUnlock(h)
    BY <1>1, <2>4 DEF AddUnlock, HandlerGoto, Getting
  <2>5. CASE GetUrl(h)
    BY <1>1, <2>5 DEF GetUrl, HandlerGoto, Getting
  <2>6. QED
    BY <2>1, <2>2, <2>3, <2>4, <2>5
<1>3. \A c \in Bins : binPc'[c] = "add" <=> binPc[c] = "add"
  <2>1. CASE AddPush(h)
    BY <1>1, <2>1 DEF AddPush
  <2>2. CASE ~AddPush(h)
    BY <2>2 DEF AddUrls, AddLock, AddUnlock, GetUrl, binVars
  <2>3. QED
    BY <2>1, <2>2
<1>4. QED
  BY <1>2, <1>3 DEF SameWorkers

LEMMA MainElsewhere ==
  ASSUME TypeOK, ShutdownLock \/ MainThread \/ UNCHANGED vars
  PROVE  UNCHANGED storeVars /\ SameWorkers
<1>1. binPc \in [Bins -> BinPcs] /\ mBin \in Bins
  BY DEF TypeOK, BinPcs
<1>2. UNCHANGED storeVars /\ UNCHANGED <<hPc, hBin, hIdx, hTries>>
  BY DEF MainThread, ShutdownLock, ShutdownSignal, ShutdownTest, ShutdownWait,
     ShutdownWoken, handlerVars, vars
<1>3. \A c \in Bins : binPc'[c] = "add" <=> binPc[c] = "add"
  <2>1. CASE ShutdownSignal
    BY <1>1, <2>1 DEF ShutdownSignal
  <2>2. CASE ~ShutdownSignal
    BY <2>2 DEF MainThread, ShutdownLock, ShutdownTest, ShutdownWait, ShutdownWoken,
       binVars, vars
  <2>3. QED
    BY <2>1, <2>2
<1>4. QED
  BY <1>2, <1>3 DEF SameWorkers

LEMMA StoreNext ==
  ASSUME TypeOK, StoreInv, OwnBin, [Next]_vars
  PROVE  StoreInv'
<1>1. ASSUME NEW b \in Bins, BinThread(b) \/ BinSpuriousWakeup(b)
      PROVE  StoreInv'
  <2>1. CASE StoreBinSteps(b)
    BY <2>1, StoreBinLock, StoreAddNew DEF StoreBinSteps
  <2>2. CASE ~StoreBinSteps(b)
    BY <1>1, <2>2, BinElsewhere, SameStore
  <2>3. QED
    BY <2>1, <2>2
<1>2. ASSUME NEW h \in Handlers, HandlerThread(h)
      PROVE  StoreInv'
  <2>1. CASE GetLock(h) \/ GetUnlock(h)
    BY <2>1, StoreGetLock
  <2>2. CASE \E i \in DOMAIN toParse[hBin[h]] : GetPick(h, i)
    BY <2>2, StoreGetPick
  <2>3. CASE GetFill(h)
    BY <2>3, StoreGetFill
  <2>4. CASE \/ \E sorted \in Sorted : AddUrls(h, sorted)
             \/ AddLock(h) \/ AddPush(h) \/ AddUnlock(h) \/ GetUrl(h)
    <3>1. UNCHANGED storeVars /\ SameWorkers
      BY <2>4, HandlerElsewhere
    <3>2. QED
      BY <3>1, SameStore
  <2>5. QED
    BY <1>2, <2>1, <2>2, <2>3, <2>4 DEF HandlerThread, HandlerStep
<1>3. CASE ShutdownLock \/ MainThread \/ UNCHANGED vars
  BY <1>3, MainElsewhere, SameStore
<1>4. QED
  BY <1>1, <1>2, <1>3 DEF Next

-----------------------------------------------------------------------------
(* What is on its way to the Bloom filters                                 *)

OnWay(u, b) ==
  \/ u \in ToSet(urls[b])
  \/ u \in InBatches(temp[b])
  \/ u \in InBatches(toAddQueue[b])
  \/ \E h \in Handlers : u \in ToSet(buffers[h][b])

LEMMA PendingIs ==
  /\ \A u, b : u \in Pending(b) <=> OnWay(u, b)
  /\ \A u, b : u \in Pending(b)' <=> OnWay(u, b)'
<1>1. \A u, b : u \in Pending(b) <=> OnWay(u, b)
  BY DEF Pending, OnWay
<1>2. \A u, b : u \in Pending(b)' <=> OnWay(u, b)'
  BY DEF Pending, OnWay
<1>3. QED
  BY <1>1, <1>2

LEMMA InitQueue == Init => QueueInv
<1> SUFFICES ASSUME Init PROVE QueueInv
  OBVIOUS
<1>1. Emptied
  BY DEF Init, Emptied, Adding
<1>2. \A u, b : b \in Bins => ~OnWay(u, b)
  BY EmptySets DEF Init, OnWay
<1>3. OwnBin
  BY <1>2, PendingIs DEF Init, OwnBin
<1>4. UrlsKept
  BY DEF Init, UrlsKept
<1>5. QED
  BY <1>1, <1>3, <1>4 DEF QueueInv

(* A step that moves no URL                                                *)
SameQueue ==
  /\ UNCHANGED <<toAddQueue, temp, urls, buffers, given>> /\ crossed \subseteq crossed'
  /\ \A b \in Bins : bloom[b] \subseteq bloom'[b]
  /\ \A b \in Bins : binPc'[b] # "add" => binPc[b] # "add" \/ urls[b] = <<>>
  /\ \A b \in Bins :
       binPc'[b] \notin {"batch", "add"} => binPc[b] \notin {"batch", "add"} \/ temp[b] = <<>>
  /\ \A h \in Handlers : \/ hPc'[h] = hPc[h] /\ hBin'[h] = hBin[h]
                         \/ hPc[h] \notin Adding /\ hPc'[h] \notin Adding

LEMMA SameWay ==
  ASSUME TypeOK, QueueInv, SameQueue
  PROVE  QueueInv'
<1>1. \A b : Pending(b)' = Pending(b)
  BY DEF Pending, SameQueue
<1>2. \A h \in Handlers : hPc'[h] \in Adding <=> hPc[h] \in Adding
  BY DEF SameQueue
<1>3. \A h \in Handlers : hPc'[h] \in Adding => hPc'[h] = hPc[h] /\ hBin'[h] = hBin[h]
  BY DEF SameQueue
<1>5. Emptied'
  <2>1. /\ \A b \in Bins : binPc'[b] # "add" => urls'[b] = <<>>
        /\ \A b \in Bins : binPc'[b] \notin {"batch", "add"} => temp'[b] = <<>>
    BY DEF QueueInv, Emptied, SameQueue
  <2>2. \A h \in Handlers, b \in Bins :
          (\/ hPc'[h] \notin Adding
           \/ b < hBin'[h]
           \/ b = hBin'[h] /\ hPc'[h] = "add_unlock") => buffers'[h][b] = <<>>
    <3>1. UNCHANGED buffers
      BY DEF SameQueue
    <3>2. ASSUME NEW h \in Handlers, hPc'[h] \notin Adding
          PROVE  \A b \in Bins : buffers'[h][b] = <<>>
      BY <1>2, <3>1, <3>2 DEF QueueInv, Emptied
    <3>3. ASSUME NEW h \in Handlers, hPc'[h] \in Adding
          PROVE  hPc'[h] = hPc[h] /\ hBin'[h] = hBin[h]
      BY <1>3, <3>3
    <3>4. QED
      BY <3>1, <3>2, <3>3 DEF QueueInv, Emptied
  <2>3. QED
    BY <2>1, <2>2 DEF Emptied
<1>6. OwnBin'
  BY <1>1 DEF QueueInv, OwnBin
<1>7. UrlsKept'
  <2>1. \A u \in given : u \in Urls /\ HashBin[u] \in Bins
    BY HashAssumption DEF TypeOK
  <2>2. QED
    BY <1>1, <2>1 DEF QueueInv, UrlsKept, SameQueue
<1>8. QED
  BY <1>5, <1>6, <1>7 DEF QueueInv

(* A step of a bin that takes from the queue and keeps what it takes on    *)
(* its way, or inserts it.                                                 *)
LEMMA BinWay ==
  ASSUME TypeOK, QueueInv, NEW b \in Bins,
         UNCHANGED <<hPc, hBin, buffers, given, crossed>>,
         \A c \in Bins : bloom[c] \subseteq bloom'[c],
         \A c \in Bins : binPc'[c] # "add" => urls'[c] = <<>>,
         \A c \in Bins : binPc'[c] \notin {"batch", "add"} => temp'[c] = <<>>,
         \A c \in Bins : \A u : OnWay(u, c)' => OnWay(u, c),
         \A c \in Bins : \A u \in Urls :
           OnWay(u, c) => \/ OnWay(u, c)' \/ HashBits[u] \subseteq bloom'[c]
                          \/ c \in crossed
  PROVE  QueueInv'
<1>1. Emptied'
  BY DEF QueueInv, Emptied
<1>2. OwnBin'
  BY PendingIs DEF QueueInv, OwnBin
<1>3. UrlsKept'
  <2>1. \A u \in given : u \in Urls /\ HashBin[u] \in Bins
    BY HashAssumption DEF TypeOK
  <2>2. QED
    BY <2>1, PendingIs DEF QueueInv, UrlsKept
<1>4. QED
  BY <1>1, <1>2, <1>3 DEF QueueInv

LEMMA QueueSwap ==
  ASSUME TypeOK, QueueInv, NEW b \in Bins, BinSwap(b)
  PROVE  QueueInv'
<1>1. PICK some, left \in Seq(Seq(Urls)) :
        /\ toAddQueue' = [toAddQueue EXCEPT ![b] = left]
        /\ temp' = [temp EXCEPT ![b] = some]
        /\ InBatches(left) \subseteq InBatches(toAddQueue[b])
        /\ InBatches(some) \subseteq InBatches(toAddQueue[b])
        /\ b \notin crossed => some = toAddQueue[b]
  BY SwapShares
<1>2. /\ UNCHANGED <<hPc, hBin, buffers, given, crossed, bloom, urls>>
      /\ binPc[b] = "swap" /\ binPc'[b] = "batch"
      /\ \A c \in Bins : c # b => binPc'[c] = binPc[c]
  BY DEF TypeOK, BinSwap, BinGoto, handlerVars, storeVars
<1>3. /\ toAddQueue'[b] = left /\ temp'[b] = some
      /\ \A c \in Bins : c # b => temp'[c] = temp[c] /\ toAddQueue'[c] = toAddQueue[c]
  BY <1>1 DEF TypeOK
<1>4. temp[b] = <<>> /\ urls[b] = <<>>
  BY <1>2 DEF QueueInv, Emptied
<1>5. /\ \A c \in Bins : binPc'[c] # "add" => urls'[c] = <<>>
      /\ \A c \in Bins : binPc'[c] \notin {"batch", "add"} => temp'[c] = <<>>
  BY <1>2, <1>3, <1>4 DEF QueueInv, Emptied
<1>6. \A c \in Bins : \A u : OnWay(u, c)' => OnWay(u, c)
  BY <1>1, <1>2, <1>3 DEF OnWay
<1>7. ASSUME NEW c \in Bins, NEW u, OnWay(u, c)
      PROVE  OnWay(u, c)' \/ c \in crossed
  <2>1. CASE c # b
    BY <1>2, <1>3, <1>7, <2>1 DEF OnWay
  <2>2. CASE c = b
    BY <1>1, <1>2, <1>3, <1>4, <1>7, <2>2, EmptySets DEF OnWay
  <2>3. QED
    BY <2>1, <2>2
<1>8. QED
  BY <1>2, <1>5, <1>6, <1>7, BinWay

LEMMA QueueLockToParse ==
  ASSUME TypeOK, QueueInv, NEW b \in Bins, BinLockToParse(b)
  PROVE  QueueInv'
<1>1. /\ UNCHANGED <<hPc, hBin, buffers, given, crossed, bloom, toAddQueue>>
      /\ binPc[b] = "batch" /\ binPc'[b] = "add" /\ temp[b] # <<>>
      /\ temp'[b] = Front(temp[b]) /\ urls'[b] = Last(temp[b])
      /\ \A c \in Bins : c # b => /\ binPc'[c] = binPc[c] /\ temp'[c] = temp[c]
                                  /\ urls'[c] = urls[c]
  BY DEF TypeOK, BinLockToParse, BinGoto, handlerVars, queueVars
<1>2. urls[b] = <<>>
  BY <1>1 DEF QueueInv, Emptied
<1>3. /\ \A c \in Bins : binPc'[c] # "add" => urls'[c] = <<>>
      /\ \A c \in Bins : binPc'[c] \notin {"batch", "add"} => temp'[c] = <<>>
  BY <1>1, <1>2 DEF QueueInv, Emptied
<1>4. InBatches(temp[b]) = InBatches(temp'[b]) \cup ToSet(urls'[b])
  <2>1. temp[b] \in Seq(Seq(Urls))
    BY DEF TypeOK
  <2>2. QED
    BY <1>1, <2>1, FrontBatches
<1>5. \A c \in Bins : \A u : OnWay(u, c)' <=> OnWay(u, c)
  BY <1>1, <1>2, <1>4, EmptySets DEF OnWay
<1>6. QED
  BY <1>1, <1>3, <1>5, BinWay

LEMMA QueueInsert ==
  ASSUME TypeOK, QueueInv, NEW b \in Bins, BinAddNew(b) \/ BinSkipSeen(b)
  PROVE  QueueInv'
<1>1. /\ UNCHANGED <<hPc, hBin, buffers, given, crossed, toAddQueue, binPc, temp>>
      /\ binPc[b] = "add" /\ urls[b] # <<>> /\ urls'[b] = Tail(urls[b])
      /\ \A c \in Bins : c # b => urls'[c] = urls[c]
  BY DEF TypeOK, BinAddNew, BinSkipSeen, handlerVars, queueVars
<1>2. /\ \A c \in Bins : bloom[c] \subseteq bloom'[c]
      /\ HashBits[Head(urls[b])] \subseteq bloom'[b]
  <2>1. CASE BinAddNew(b)
    <3>1. bloom' = [bloom EXCEPT ![b] = bloom[b] \cup HashBits[Head(urls[b])]]
      BY <2>1 DEF BinAddNew
    <3>2. bloom \in [Bins -> SUBSET UNION {HashBits[u] : u \in Urls}]
      BY DEF TypeOK
    <3>3. QED
      BY <3>1, <3>2
  <2>2. CASE BinSkipSeen(b)
    BY <2>2 DEF BinSkipSeen, storeVars
  <2>3. QED
    BY <2>1, <2>2
<1>3. ToSet(urls[b]) = {Head(urls[b])} \cup ToSet(urls'[b])
  <2>1. urls[b] \in Seq(Urls)
    BY DEF TypeOK
  <2>2. QED
    BY <1>1, <2>1, TailSet
<1>4. /\ \A c \in Bins : binPc'[c] # "add" => urls'[c] = <<>>
      /\ \A c \in Bins : binPc'[c] \notin {"batch", "add"} => temp'[c] = <<>>
  BY <1>1 DEF QueueInv, Emptied
<1>5. \A c \in Bins : \A u : OnWay(u, c)' => OnWay(u, c)
  BY <1>1, <1>3 DEF OnWay
<1>6. \A c \in Bins : \A u \in Urls : OnWay(u, c) => OnWay(u, c)' \/ HashBits[u] \subseteq bloom'[c]
  BY <1>1, <1>2, <1>3 DEF OnWay
<1>7. QED
  BY <1>1, <1>2, <1>4, <1>5, <1>6, BinWay

HandlerPcs == {"idle", "add_lock", "add_push", "add_unlock", "get_lock", "get_pick", "get_fill"}

LEMMA QueueAddUrls ==
  ASSUME TypeOK, QueueInv, NEW h \in Handlers, NEW sorted \in Sorted, AddUrls(h, sorted)
  PROVE  QueueInv'
<1>1. /\ UNCHANGED <<crossed, toAddQueue, bloom, binPc, temp, urls>>
      /\ given' = given \cup UNION {ToSet(sorted[b]) : b \in Bins}
      /\ hPc[h] = "idle" /\ hPc'[h] = "add_lock" /\ hBin'[h] = 0 /\ buffers'[h] = sorted
      /\ \A g \in Handlers : g # h => /\ hPc'[g] = hPc[g] /\ hBin'[g] = hBin[g]
                                      /\ buffers'[g] = buffers[g]
  BY DEF TypeOK, AddUrls, HandlerGoto, queueVars, storeVars, binVars
<1>2. \A b \in Bins : buffers[h][b] = <<>>
  BY <1>1 DEF QueueInv, Emptied, Adding
<1>3. \A b \in Bins, u \in Urls : u \in ToSet(sorted[b]) => HashBin[u] = b
  BY DEF Sorted
<1>4. \A b \in Bins : ToSet(sorted[b]) \subseteq Urls
  <2>1. sorted \in [Bins -> Seq(Urls)]
    BY BoundsAssumption DEF Sorted, SeqOf
  <2>2. QED
    BY <2>1 DEF ToSet
<1>5. \A b \in Bins : \A u : OnWay(u, b)' <=> OnWay(u, b) \/ u \in ToSet(sorted[b])
  BY <1>1, <1>2, EmptySets DEF OnWay
<1>6. Emptied'
  <2>1. hPc'[h] = "add_lock" /\ hPc'[h] \in Adding /\ \A b \in Bins : ~(b < hBin'[h])
    <3>1. \A b \in Bins : b \in Nat
      BY BinsAre
    <3>2. \A b \in Bins : ~(b < 0)
      BY <3>1
    <3>3. QED
      BY <1>1, <3>2 DEF Adding
  <2>2. QED
    BY <1>1, <1>2, <2>1 DEF QueueInv, Emptied
<1>7. OwnBin'
  BY <1>3, <1>4, <1>5, PendingIs DEF QueueInv, OwnBin
<1>8. UrlsKept'
  <2>1. ASSUME NEW u \in given PROVE OnWay(u, HashBin[u])' \/ HashBits[u] \subseteq bloom'[HashBin[u]] \/ HashBin[u] \in crossed'
    <3>1. HashBin[u] \in Bins
      BY HashAssumption DEF TypeOK
    <3>2. QED
      BY <1>1, <1>5, <3>1, PendingIs DEF QueueInv, UrlsKept
  <2>2. ASSUME NEW b \in Bins, NEW u \in ToSet(sorted[b]) PROVE OnWay(u, HashBin[u])'
    BY <1>3, <1>4, <1>5
  <2>3. QED
    BY <1>1, <2>1, <2>2, PendingIs DEF UrlsKept
<1>9. QED
  BY <1>6, <1>7, <1>8 DEF QueueInv

LEMMA QueueAddLock ==
  ASSUME TypeOK, QueueInv, NEW h \in Handlers, AddLock(h)
  PROVE  QueueInv'
<1>1. /\ UNCHANGED <<hBin, buffers, toAddQueue, given, bloom, binPc, temp, urls>>
      /\ hPc[h] = "add_lock" /\ hPc'[h] = "add_push" /\ crossed \subseteq crossed'
      /\ \A g \in Handlers : g # h => hPc'[g] = hPc[g]
  BY DEF TypeOK, AddLock, HandlerGoto, queueVars, storeVars, binVars
<1>2. \A c : Pending(c)' = Pending(c)
  BY <1>1 DEF Pending
<1>3. Emptied'
  BY <1>1 DEF QueueInv, Emptied, Adding
<1>4. OwnBin'
  BY <1>2 DEF QueueInv, OwnBin
<1>5. UrlsKept'
  BY <1>1, <1>2 DEF QueueInv, UrlsKept
<1>6. QED
  BY <1>3, <1>4, <1>5 DEF QueueInv

LEMMA QueueAddPush ==
  ASSUME TypeOK, QueueInv, NEW h \in Handlers, AddPush(h)
  PROVE  QueueInv'
<1>1. PICK b \in Bins : b = hBin[h]
  BY DEF TypeOK
<1>2. PICK some \in Seq(Seq(Urls)) :
        /\ toAddQueue' = [toAddQueue EXCEPT ![b] = some]
        /\ InBatches(some) \subseteq InBatches(toAddQueue[b]) \cup ToSet(buffers[h][b])
        /\ b \notin crossed =>
             InBatches(some) = InBatches(toAddQueue[b]) \cup ToSet(buffers[h][b])
  BY <1>1, PushAppends
<1>3. /\ UNCHANGED <<hBin, given, crossed, bloom, temp, urls>>
      /\ hPc[h] = "add_push" /\ hPc'[h] = "add_unlock"
  BY DEF TypeOK, AddPush, HandlerGoto, storeVars
<1>4. /\ toAddQueue'[b] = some /\ buffers'[h][b] = <<>>
      /\ \A c \in Bins : c # b => /\ toAddQueue'[c] = toAddQueue[c]
                                  /\ buffers'[h][c] = buffers[h][c]
      /\ \A g \in Handlers : g # h => hPc'[g] = hPc[g] /\ buffers'[g] = buffers[g]
  <2>1. hPc \in [Handlers -> HandlerPcs] /\ toAddQueue \in [Bins -> Seq(Seq(Urls))]
        /\ buffers \in [Handlers -> [Bins -> Seq(Urls)]]
    BY DEF TypeOK, HandlerPcs
  <2>2. /\ buffers' = [buffers EXCEPT ![h][b] = <<>>]
        /\ hPc' = [hPc EXCEPT ![h] = "add_unlock"]
    BY <1>1 DEF AddPush, HandlerGoto
  <2>3. QED
    BY <1>2, <2>1, <2>2
<1>5. \A c \in Bins : binPc'[c] = binPc[c] \/ (binPc[c] = "waiting" /\ binPc'[c] = "woken")
  <2>1. binPc \in [Bins -> BinPcs]
    BY DEF TypeOK, BinPcs
  <2>2. binPc' = [binPc EXCEPT ![b] = IF binPc[b] = "waiting" THEN "woken" ELSE binPc[b]]
    BY <1>1 DEF AddPush
  <2>3. QED
    BY <2>1, <2>2
<1>6. UNCHANGED <<urls, temp>> /\ ToSet(buffers'[h][b]) = {}
      /\ \A g \in Handlers : g # h => buffers'[g] = buffers[g]
  BY <1>3, <1>4, EmptySets
<1>7. \A u : OnWay(u, b)' => OnWay(u, b)
  BY <1>2, <1>4, <1>6 DEF OnWay
<1>8. b \in crossed \/ \A u : OnWay(u, b) => OnWay(u, b)'
  BY <1>2, <1>4, <1>6 DEF OnWay
<1>9. \A c \in Bins : c # b => \A u : OnWay(u, c)' <=> OnWay(u, c)
  BY <1>3, <1>4 DEF OnWay
<1>10. Emptied'
  <2>1. /\ \A c \in Bins : binPc'[c] # "add" => urls'[c] = <<>>
        /\ \A c \in Bins : binPc'[c] \notin {"batch", "add"} => temp'[c] = <<>>
    BY <1>3, <1>5 DEF QueueInv, Emptied
  <2>2. ASSUME NEW g \in Handlers, NEW c \in Bins
        PROVE  (\/ hPc'[g] \notin Adding
                \/ c < hBin'[g]
                \/ c = hBin'[g] /\ hPc'[g] = "add_unlock") => buffers'[g][c] = <<>>
    <3>1. CASE g = h
      <4>1. hPc'[g] \in Adding /\ hPc[g] \in Adding /\ hBin'[g] = b
        BY <1>3, <3>1, <1>1 DEF Adding
      <4>2. c < b => c # b /\ buffers[h][c] = <<>>
        <5>1. c < b => buffers[h][c] = <<>>
          BY <1>1 DEF QueueInv, Emptied
        <5>2. c \in Nat /\ b \in Nat
          BY <1>1, BinsAre
        <5>3. QED
          BY <5>1, <5>2
      <4>3. QED
        BY <1>4, <3>1, <4>1, <4>2
    <3>2. CASE g # h
      BY <1>3, <1>4, <3>2 DEF QueueInv, Emptied
    <3>3. QED
      BY <3>1, <3>2
  <2>3. QED
    BY <2>1, <2>2 DEF Emptied
<1>11. OwnBin'
  BY <1>7, <1>9, PendingIs DEF QueueInv, OwnBin
<1>12. UrlsKept'
  <2>1. \A u \in given : HashBin[u] \in Bins
    BY HashAssumption DEF TypeOK
  <2>2. ASSUME NEW u \in given, HashBin[u] \notin crossed, OnWay(u, HashBin[u])
        PROVE  OnWay(u, HashBin[u])'
    BY <1>8, <1>9, <2>1, <2>2
  <2>3. UNCHANGED <<given, crossed, bloom>>
    BY <1>3
  <2>4. QED
    BY <2>2, <2>3, PendingIs DEF QueueInv, UrlsKept
<1>13. QED
  BY <1>10, <1>11, <1>12 DEF QueueInv

LEMMA QueueAddUnlock ==
  ASSUME TypeOK, QueueInv, NEW h \in Handlers, AddUnlock(h)
  PROVE  QueueInv'
<1> DEFINE b == hBin[h]
<1>1. /\ UNCHANGED <<toAddQueue, buffers, given, crossed, bloom, binPc, temp, urls>>
      /\ hPc[h] = "add_unlock"
      /\ \/ hPc'[h] = "add_lock" /\ hBin'[h] = b + 1
         \/ hPc'[h] = "idle" /\ b + 1 \notin Bins
      /\ \A g \in Handlers : g # h => hPc'[g] = hPc[g] /\ hBin'[g] = hBin[g]
  BY DEF TypeOK, AddUnlock, HandlerGoto, queueVars, storeVars, binVars
<1>2. b \in Bins
  BY DEF TypeOK
<1> HIDE DEF b
<1>3. \A c : Pending(c)' = Pending(c)
  BY <1>1 DEF Pending
<1>4. \A c \in Bins : c < b + 1 => buffers[h][c] = <<>>
  <2>1. \A c \in Bins : c < b + 1 => c < b \/ c = b
    BY <1>2, BinsAre
  <2>2. \A c \in Bins : c < b \/ c = b => buffers[h][c] = <<>>
    BY <1>1 DEF QueueInv, Emptied, b
  <2>3. QED
    BY <2>1, <2>2
<1>5. b + 1 \notin Bins => \A c \in Bins : c < b + 1
  BY <1>2, NumFrontierBinsAssumption DEF Bins
<1>6. ASSUME NEW c \in Bins
      PROVE  (\/ hPc'[h] \notin Adding
              \/ c < hBin'[h]
              \/ c = hBin'[h] /\ hPc'[h] = "add_unlock") => buffers[h][c] = <<>>
  <2>1. CASE hPc'[h] = "add_lock" /\ hBin'[h] = b + 1
    BY <1>4, <2>1 DEF Adding
  <2>2. CASE b + 1 \notin Bins
    BY <1>4, <1>5, <2>2
  <2>3. QED
    BY <1>1, <2>1, <2>2
<1>8. Emptied'
  <2>1. \A g \in Handlers, c \in Bins :
          (\/ hPc'[g] \notin Adding
           \/ c < hBin'[g]
           \/ c = hBin'[g] /\ hPc'[g] = "add_unlock") => buffers[g][c] = <<>>
    BY <1>1, <1>6 DEF QueueInv, Emptied
  <2>2. QED
    BY <1>1, <2>1 DEF QueueInv, Emptied
<1>9. OwnBin'
  BY <1>1, <1>3 DEF QueueInv, OwnBin
<1>10. UrlsKept'
  BY <1>1, <1>3 DEF QueueInv, UrlsKept
<1>11. QED
  BY <1>8, <1>9, <1>10 DEF QueueInv

(* All other steps move no URL.                                            *)
QueueBinSteps(b) ==
  BinSwap(b) \/ BinLockToParse(b) \/ BinAddNew(b) \/ BinSkipSeen(b)

LEMMA BinMovesNone ==
  ASSUME TypeOK, QueueInv, NEW b \in Bins, BinThread(b) \/ BinSpuriousWakeup(b),
         ~QueueBinSteps(b)
  PROVE  SameQueue
<1>1. binPc \in [Bins -> BinPcs]
  BY DEF TypeOK, BinPcs
<1>2. UNCHANGED <<toAddQueue, temp, urls, buffers, given, bloom, hPc, hBin>>
      /\ crossed \subseteq crossed'
  BY DEF BinThread, QueueBinSteps, BinLockQueue, BinTestQueue, BinLockShutdown,
     BinTestShutdown, BinCount, BinUnlockAgain, BinWait, BinSpuriousWakeup, BinLockTake,
     BinBatchesDone, BinUnlockToParse, handlerVars, queueVars, storeVars
<1>3. \/ /\ binPc[b] \notin {"batch", "add"}
         /\ \E l \in BinPcs \ {"batch", "add"} : binPc' = [binPc EXCEPT ![b] = l]
      \/ /\ binPc[b] = "batch" /\ temp[b] = <<>>
         /\ binPc' = [binPc EXCEPT ![b] = "lock"]
      \/ /\ binPc[b] = "add" /\ urls[b] = <<>>
         /\ binPc' = [binPc EXCEPT ![b] = "batch"]
  <2>1. CASE BinLockQueue(b) \/ BinTestQueue(b) \/ BinLockShutdown(b) \/ BinTestShutdown(b)
    BY <2>1 DEF BinLockQueue, BinTestQueue, BinLockShutdown, BinTestShutdown, BinGoto, BinPcs
  <2>2. CASE BinCount(b) \/ BinUnlockAgain(b) \/ BinWait(b) \/ BinSpuriousWakeup(b)
    BY <2>2 DEF BinCount, BinUnlockAgain, BinWait, BinSpuriousWakeup, BinGoto, BinPcs
  <2>3. CASE BinLockTake(b) \/ BinBatchesDone(b) \/ BinUnlockToParse(b)
    BY <2>3 DEF BinLockTake, BinBatchesDone, BinUnlockToParse, BinGoto, BinPcs
  <2>4. QED
    BY <2>1, <2>2, <2>3 DEF BinThread, QueueBinSteps
<1>4. /\ \A c \in Bins : binPc'[c] # "add" => binPc[c] # "add" \/ urls[c] = <<>>
      /\ \A c \in Bins : binPc'[c] \notin {"batch", "add"} =>
           binPc[c] \notin {"batch", "add"} \/ temp[c] = <<>>
  BY <1>1, <1>3
<1>5. QED
  BY <1>2, <1>4 DEF SameQueue

LEMMA HandlerMovesNone ==
  ASSUME TypeOK, NEW h \in Handlers,
         \/ GetUrl(h) \/ GetLock(h) \/ \E i \in DOMAIN toParse[hBin[h]] : GetPick(h, i)
         \/ GetFill(h) \/ GetUnlock(h)
  PROVE  SameQueue
<1>1. hBin \in [Handlers -> Bins] /\ hPc \in [Handlers -> HandlerPcs]
  BY DEF TypeOK, HandlerPcs
<1>2. UNCHANGED <<toAddQueue, temp, urls, buffers, given, crossed, bloom, binPc>>
  BY DEF GetUrl, GetLock, GetPick, GetFill, GetUnlock, binVars, queueVars, storeVars
<1>3. /\ hPc[h] \notin Adding /\ hPc'[h] \notin Adding
      /\ \A g \in Handlers : g # h => hPc'[g] = hPc[g] /\ hBin'[g] = hBin[g]
  BY <1>1 DEF GetUrl, GetLock, GetPick, GetFill, GetUnlock, HandlerGoto, Adding
<1>4. QED
  BY <1>2, <1>3 DEF SameQueue

LEMMA MainMovesNone ==
  ASSUME TypeOK, ShutdownLock \/ MainThread \/ UNCHANGED vars
  PROVE  SameQueue
<1>1. binPc \in [Bins -> BinPcs] /\ mBin \in Bins
  BY DEF TypeOK, BinPcs
<1>2. UNCHANGED <<toAddQueue, temp, urls, buffers, given, crossed, bloom, hPc, hBin>>
  BY DEF MainThread, ShutdownLock, ShutdownSignal, ShutdownTest, ShutdownWait,
     ShutdownWoken, handlerVars, queueVars, storeVars, binVars, vars
<1>3. /\ \A c \in Bins : binPc'[c] # "add" => binPc[c] # "add"
      /\ \A c \in Bins : binPc'[c] \notin {"batch", "add"} => binPc[c] \notin {"batch", "add"}
  <2>1. CASE ShutdownSignal
    BY <1>1, <2>1 DEF ShutdownSignal
  <2>2. CASE ~ShutdownSignal
    BY <2>2 DEF MainThread, ShutdownLock, ShutdownTest, ShutdownWait, ShutdownWoken,
       binVars, vars
  <2>3. QED
    BY <2>1, <2>2
<1>4. QED
  BY <1>2, <1>3 DEF SameQueue

LEMMA QueueNext ==
  ASSUME TypeOK, QueueInv, [Next]_vars
  PROVE  QueueInv'
<1>1. ASSUME NEW b \in Bins, BinThread(b) \/ BinSpuriousWakeup(b)
      PROVE  QueueInv'
  <2>1. CASE QueueBinSteps(b)
    BY <2>1, QueueSwap, QueueLockToParse, QueueInsert DEF QueueBinSteps
  <2>2. CASE ~QueueBinSteps(b)
    BY <1>1, <2>2, BinMovesNone, SameWay
  <2>3. QED
    BY <2>1, <2>2
<1>2. ASSUME NEW h \in Handlers, HandlerThread(h)
      PROVE  QueueInv'
  <2>1. CASE \E sorted \in Sorted : AddUrls(h, sorted)
    BY <2>1, QueueAddUrls
  <2>2. CASE AddLock(h) \/ AddPush(h) \/ AddUnlock(h)
    BY <2>2, QueueAddLock, QueueAddPush, QueueAddUnlock
  <2>3. CASE \/ GetUrl(h) \/ GetLock(h) \/ \E i \in DOMAIN toParse[hBin[h]] : GetPick(h, i)
             \/ GetFill(h) \/ GetUnlock(h)
    <3>1. SameQueue
      BY <2>3, HandlerMovesNone
    <3>2. QED
      BY <3>1, SameWay
  <2>4. QED
    BY <1>2, <2>1, <2>2, <2>3 DEF HandlerThread, HandlerStep
<1>3. CASE ShutdownLock \/ MainThread \/ UNCHANGED vars
  BY <1>3, MainMovesNone, SameWay
<1>4. QED
  BY <1>1, <1>2, <1>3 DEF Next

-----------------------------------------------------------------------------
(* Who holds toAddQueueM                                                   *)

LEMMA InitGuarded == Init => Guarded
BY DEF Init, Guarded, BinHolds, Holders

(* A step that takes nobody to toAddQueueM or away from it                 *)
SameHolders ==
  /\ UNCHANGED <<toAddQueueM, freed, crossed>>
  /\ \A b \in Bins : BinHolds(b)' <=> BinHolds(b)
  /\ \A b \in Bins : \A h \in Handlers : h \in Holders(b)' <=> h \in Holders(b)

LEMMA SameGuarded ==
  ASSUME Guarded, SameHolders
  PROVE  Guarded'
BY DEF Guarded, SameHolders

(* A thread locks toAddQueueM: a bin alone, or a handler.                  *)
LEMMA GuardedBinLock ==
  ASSUME TypeOK, Guarded, NEW b \in Bins, BinLockQueue(b) \/ BinLockTake(b)
  PROVE  Guarded'
<1>1. /\ ~toAddQueueM[b] /\ ~BinHolds(b) /\ BinHolds(b)' /\ toAddQueueM'[b]
      /\ UNCHANGED <<freed, hPc, hBin>>
      /\ \A c \in Bins : c # b => binPc'[c] = binPc[c] /\ toAddQueueM'[c] = toAddQueueM[c]
  BY DEF TypeOK, BinLockQueue, BinLockTake, BinGoto, BinHolds, handlerVars
<1>2. \A c : Holders(c)' = Holders(c)
  BY <1>1 DEF Holders
<1>3. \A c \in Bins : c # b => (BinHolds(c)' <=> BinHolds(c))
  BY <1>1 DEF BinHolds
<1>4. b \in freed \/ \A h \in Handlers : h \notin Holders(b)
  BY <1>1 DEF Guarded
<1>5. crossed' \subseteq freed
  <2>1. crossed' \subseteq crossed \cup {b} /\ (crossed' # crossed => Pushers(b) # {})
    BY DEF BinLockQueue, BinLockTake
  <2>2. \A h \in Handlers : h \in Pushers(b) => h \in Holders(b)
    BY DEF Pushers, Holders
  <2>3. Pushers(b) # {} => b \in freed
    BY <1>4, <2>2 DEF Pushers
  <2>4. QED
    BY <2>1, <2>3 DEF Guarded
<1>6. ASSUME NEW c \in Bins, c \notin freed
      PROVE  /\ BinHolds(c)' => toAddQueueM'[c] /\ \A h \in Handlers : h \notin Holders(c)
             /\ \A h \in Handlers : h \in Holders(c) => toAddQueueM'[c]
  BY <1>1, <1>3, <1>4, <1>6 DEF Guarded
<1>7. QED
  BY <1>1, <1>2, <1>5, <1>6 DEF Guarded

(* The holders after a step of a handler that keeps its bin                *)
LEMMA GuardedAddLock ==
  ASSUME TypeOK, Guarded, NEW h \in Handlers, AddLock(h)
  PROVE  Guarded'
<1>1. PICK b \in Bins : b = hBin[h]
  BY DEF TypeOK
<1>2. /\ ~toAddQueueM[b] /\ toAddQueueM'[b]
      /\ UNCHANGED <<freed, hBin, binPc>> /\ hPc[h] = "add_lock" /\ hPc'[h] = "add_push"
      /\ \A g \in Handlers : g # h => hPc'[g] = hPc[g]
      /\ \A c \in Bins : c # b => toAddQueueM'[c] = toAddQueueM[c]
  BY <1>1 DEF TypeOK, AddLock, HandlerGoto, binVars
<1>3. /\ \A c \in Bins : BinHolds(c)' <=> BinHolds(c)
      /\ \A c \in Bins : \A g \in Handlers :
           g \in Holders(c)' <=> g \in Holders(c) \/ (g = h /\ c = b)
  BY <1>1, <1>2 DEF BinHolds, Holders
<1>4. b \in freed \/ (~BinHolds(b) /\ \A g \in Handlers : g \notin Holders(b))
  BY <1>2 DEF Guarded
<1>5. crossed' \subseteq freed
  <2>1. /\ crossed' \subseteq crossed \cup {b}
        /\ crossed' # crossed => Pushers(b) # {} \/ binPc[b] = "swap"
    BY <1>1 DEF AddLock
  <2>2. \A g \in Handlers : g \in Pushers(b) => g \in Holders(b)
    BY DEF Pushers, Holders
  <2>3. Pushers(b) # {} \/ binPc[b] = "swap" => b \in freed
    BY <1>4, <2>2 DEF Pushers, BinHolds
  <2>4. QED
    BY <2>1, <2>3 DEF Guarded
<1>6. ASSUME NEW c \in Bins, c \notin freed
      PROVE  /\ BinHolds(c)' => toAddQueueM'[c] /\ \A g \in Handlers : g \notin Holders(c)'
             /\ \A g \in Handlers : g \in Holders(c)' => toAddQueueM'[c]
             /\ \A f, g \in Handlers : f \in Holders(c)' /\ g \in Holders(c)' => f = g
  <2>1. CASE c = b
    BY <1>2, <1>3, <1>4, <1>6, <2>1
  <2>2. CASE c # b
    BY <1>2, <1>3, <1>6, <2>2 DEF Guarded
  <2>3. QED
    BY <2>1, <2>2
<1>7. QED
  BY <1>2, <1>5, <1>6 DEF Guarded

(* A bin or a handler unlocks it.  If it guards the queue again after      *)
(* that, it was the last that had locked it.                               *)
LEMMA GuardedBinUnlock ==
  ASSUME TypeOK, Guarded, NEW b \in Bins, BinTestQueue(b) \/ BinSwap(b)
  PROVE  Guarded'
<1>1. /\ BinHolds(b) /\ ~BinHolds(b)' /\ UNCHANGED <<crossed, hPc, hBin>>
      /\ \A c \in Bins : c # b => binPc'[c] = binPc[c] /\ toAddQueueM'[c] = toAddQueueM[c]
  <2>1. /\ binPc[b] \in {"test", "swap"} /\ UNCHANGED <<crossed, hPc, hBin>>
        /\ \E l \in BinPcs \ {"test", "swap"} : binPc' = [binPc EXCEPT ![b] = l]
    BY DEF BinTestQueue, BinSwap, BinGoto, BinPcs, handlerVars
  <2>2. toAddQueueM' = [toAddQueueM EXCEPT ![b] = FALSE]
    BY DEF BinTestQueue, BinSwap, UnlockQueue
  <2>3. binPc \in [Bins -> BinPcs] /\ toAddQueueM \in [Bins -> BOOLEAN]
    BY DEF TypeOK, BinPcs
  <2>4. QED
    BY <2>1, <2>2, <2>3 DEF BinHolds
<1>2. freed' = IF Holders(b) = {} /\ b \notin crossed THEN freed \ {b} ELSE freed
  BY DEF BinTestQueue, BinSwap, UnlockQueue
<1>3. \A c : Holders(c)' = Holders(c)
  BY <1>1 DEF Holders
<1>4. \A c \in Bins : c # b => (BinHolds(c)' <=> BinHolds(c))
  BY <1>1 DEF BinHolds
<1>5. b \notin freed' => \A h \in Handlers : h \notin Holders(b)
  BY <1>1, <1>2 DEF Guarded
<1>6. ASSUME NEW c \in Bins, c \notin freed'
      PROVE  /\ BinHolds(c)' => toAddQueueM'[c] /\ \A h \in Handlers : h \notin Holders(c)
             /\ \A h \in Handlers : h \in Holders(c) => toAddQueueM'[c]
             /\ \A g, h \in Handlers : g \in Holders(c) /\ h \in Holders(c) => g = h
  <2>1. CASE c = b
    BY <1>1, <1>5, <1>6, <2>1
  <2>2. CASE c # b
    BY <1>1, <1>2, <1>4, <1>6, <2>2 DEF Guarded
  <2>3. QED
    BY <2>1, <2>2
<1>7. crossed' \subseteq freed'
  BY <1>1, <1>2 DEF Guarded
<1>8. QED
  BY <1>3, <1>6, <1>7 DEF Guarded

LEMMA GuardedAddUnlock ==
  ASSUME TypeOK, Guarded, NEW h \in Handlers, AddUnlock(h)
  PROVE  Guarded'
<1>1. PICK b \in Bins : b = hBin[h]
  BY DEF TypeOK
<1>2. /\ UNCHANGED <<crossed, binPc>>
      /\ hPc[h] = "add_unlock" /\ hPc'[h] \in {"add_lock", "idle"}
      /\ \A g \in Handlers : g # h => hPc'[g] = hPc[g] /\ hBin'[g] = hBin[g]
      /\ \A c \in Bins : c # b => toAddQueueM'[c] = toAddQueueM[c]
  BY <1>1 DEF TypeOK, AddUnlock, UnlockQueue, HandlerGoto, binVars
<1>3. freed' = IF Holders(b) = {h} /\ ~BinHolds(b) /\ b \notin crossed THEN freed \ {b} ELSE freed
  BY <1>1 DEF AddUnlock, UnlockQueue
<1>4. /\ h \in Holders(b) /\ \A c \in Bins : BinHolds(c)' <=> BinHolds(c)
      /\ \A c \in Bins : \A g \in Handlers :
           g \in Holders(c)' <=> g \in Holders(c) /\ g # h
      /\ \A c \in Bins : c # b => h \notin Holders(c)
  BY <1>1, <1>2 DEF BinHolds, Holders
<1>5. b \notin freed' => ~BinHolds(b) /\ \A g \in Handlers : g \in Holders(b) => g = h
  BY <1>3, <1>4 DEF Guarded
<1>6. ASSUME NEW c \in Bins, c \notin freed'
      PROVE  /\ BinHolds(c)' => toAddQueueM'[c] /\ \A g \in Handlers : g \notin Holders(c)'
             /\ \A g \in Handlers : g \in Holders(c)' => toAddQueueM'[c]
             /\ \A f, g \in Handlers : f \in Holders(c)' /\ g \in Holders(c)' => f = g
  <2>1. CASE c = b
    BY <1>4, <1>5, <1>6, <2>1
  <2>2. CASE c # b
    BY <1>2, <1>3, <1>4, <1>6, <2>2 DEF Guarded
  <2>3. QED
    BY <2>1, <2>2
<1>7. crossed' \subseteq freed'
  BY <1>2, <1>3 DEF Guarded
<1>8. QED
  BY <1>6, <1>7 DEF Guarded

(* A wait unlocks it whoever holds it.                                     *)
LEMMA GuardedWait ==
  ASSUME TypeOK, Guarded, NEW b \in Bins, BinWait(b)
  PROVE  Guarded'
<1>1. /\ ~BinHolds(b) /\ ~BinHolds(b)' /\ UNCHANGED <<crossed, hPc, hBin>>
      /\ freed' = IF toAddQueueM[b] THEN freed \cup {b} ELSE freed
      /\ \A c \in Bins : c # b => binPc'[c] = binPc[c] /\ toAddQueueM'[c] = toAddQueueM[c]
  BY DEF TypeOK, BinWait, BinGoto, BinHolds, handlerVars
<1>2. \A c : Holders(c)' = Holders(c)
  BY <1>1 DEF Holders
<1>3. \A c \in Bins : c # b => (BinHolds(c)' <=> BinHolds(c))
  BY <1>1 DEF BinHolds
<1>4. b \notin freed' => \A h \in Handlers : h \notin Holders(b)
  BY <1>1 DEF Guarded
<1>5. ASSUME NEW c \in Bins, c \notin freed'
      PROVE  /\ BinHolds(c)' => toAddQueueM'[c] /\ \A h \in Handlers : h \notin Holders(c)
             /\ \A h \in Handlers : h \in Holders(c) => toAddQueueM'[c]
             /\ \A g, h \in Handlers : g \in Holders(c) /\ h \in Holders(c) => g = h
  <2>1. CASE c = b
    BY <1>1, <1>4, <1>5, <2>1
  <2>2. CASE c # b
    BY <1>1, <1>3, <1>5, <2>2 DEF Guarded
  <2>3. QED
    BY <2>1, <2>2
<1>6. crossed' \subseteq freed'
  BY <1>1 DEF Guarded
<1>7. QED
  BY <1>2, <1>5, <1>6 DEF Guarded

(* All other steps leave it alone.                                         *)
LockBinSteps(b) ==
  BinLockQueue(b) \/ BinLockTake(b) \/ BinTestQueue(b) \/ BinSwap(b) \/ BinWait(b)

LEMMA BinLocksNone ==
  ASSUME TypeOK, NEW b \in Bins, BinThread(b) \/ BinSpuriousWakeup(b), ~LockBinSteps(b)
  PROVE  SameHolders
<1>1. UNCHANGED <<toAddQueueM, freed, crossed, hPc, hBin>>
  BY DEF BinThread, LockBinSteps, BinLockShutdown, BinTestShutdown, BinCount, BinUnlockAgain,
     BinSpuriousWakeup, BinLockToParse, BinBatchesDone, BinAddNew, BinSkipSeen,
     BinUnlockToParse, handlerVars, queueVars
<1>2. \/ UNCHANGED binPc
      \/ /\ binPc[b] \notin {"test", "swap"}
         /\ \E l \in BinPcs \ {"test", "swap"} : binPc' = [binPc EXCEPT ![b] = l]
  <2>1. CASE BinLockShutdown(b) \/ BinTestShutdown(b) \/ BinCount(b) \/ BinUnlockAgain(b)
    BY <2>1 DEF BinLockShutdown, BinTestShutdown, BinCount, BinUnlockAgain, BinGoto, BinPcs
  <2>2. CASE BinSpuriousWakeup(b) \/ BinLockToParse(b) \/ BinBatchesDone(b)
    BY <2>2 DEF BinSpuriousWakeup, BinLockToParse, BinBatchesDone, BinGoto, BinPcs
  <2>3. CASE BinAddNew(b) \/ BinSkipSeen(b) \/ BinUnlockToParse(b)
    BY <2>3 DEF BinAddNew, BinSkipSeen, BinUnlockToParse, BinGoto, BinPcs
  <2>4. QED
    BY <2>1, <2>2, <2>3 DEF BinThread, LockBinSteps
<1>3. \A c \in Bins : BinHolds(c)' <=> BinHolds(c)
  <2>1. binPc \in [Bins -> BinPcs]
    BY DEF TypeOK, BinPcs
  <2>2. QED
    BY <1>2, <2>1 DEF BinHolds
<1>4. \A c : Holders(c)' = Holders(c)
  BY <1>1 DEF Holders
<1>5. QED
  BY <1>1, <1>3, <1>4 DEF SameHolders

LEMMA HandlerLocksNone ==
  ASSUME TypeOK, NEW h \in Handlers, HandlerThread(h), ~AddLock(h), ~AddUnlock(h)
  PROVE  SameHolders
<1>1. hBin \in [Handlers -> Bins] /\ hPc \in [Handlers -> HandlerPcs]
      /\ binPc \in [Bins -> BinPcs]
  BY DEF TypeOK, HandlerPcs, BinPcs
<1>2. CASE AddPush(h)
  <2>1. UNCHANGED <<toAddQueueM, freed, crossed, hBin>>
    BY <1>2 DEF AddPush
  <2>2. /\ hPc[h] = "add_push" /\ hPc' = [hPc EXCEPT ![h] = "add_unlock"]
        /\ binPc' = [binPc EXCEPT ![hBin[h]] = IF @ = "waiting" THEN "woken" ELSE @]
    BY <1>2 DEF AddPush, HandlerGoto
  <2>3. \A c \in Bins : BinHolds(c)' <=> BinHolds(c)
    BY <1>1, <2>2 DEF BinHolds
  <2>4. \A c \in Bins : \A g \in Handlers : g \in Holders(c)' <=> g \in Holders(c)
    BY <1>1, <2>1, <2>2 DEF Holders
  <2>5. QED
    BY <2>1, <2>3, <2>4 DEF SameHolders
<1>3. CASE ~AddPush(h)
  <2>1. /\ UNCHANGED <<toAddQueueM, freed, crossed, binPc>>
        /\ hPc[h] \notin {"add_push", "add_unlock"} /\ hPc'[h] \notin {"add_push", "add_unlock"}
        /\ \A g \in Handlers : g # h => hPc'[g] = hPc[g] /\ hBin'[g] = hBin[g]
    <3>1. CASE (\E sorted \in Sorted : AddUrls(h, sorted)) \/ GetUrl(h)
      BY <1>1, <3>1 DEF AddUrls, GetUrl, HandlerGoto, queueVars, binVars
    <3>2. CASE GetLock(h) \/ GetFill(h) \/ GetUnlock(h)
      BY <1>1, <3>2 DEF GetLock, GetFill, GetUnlock, HandlerGoto, queueVars, binVars
    <3>3. CASE \E i \in DOMAIN toParse[hBin[h]] : GetPick(h, i)
      BY <1>1, <3>3 DEF GetPick, HandlerGoto, queueVars, binVars
    <3>4. QED
      BY <1>3, <3>1, <3>2, <3>3 DEF HandlerThread, HandlerStep
  <2>2. /\ \A c \in Bins : BinHolds(c)' <=> BinHolds(c)
        /\ \A c \in Bins : \A g \in Handlers : g \in Holders(c)' <=> g \in Holders(c)
    BY <2>1 DEF BinHolds, Holders
  <2>3. QED
    BY <2>1, <2>2 DEF SameHolders
<1>4. QED
  BY <1>2, <1>3

LEMMA MainLocksNone ==
  ASSUME TypeOK, ShutdownLock \/ MainThread \/ UNCHANGED vars
  PROVE  SameHolders
<1>1. binPc \in [Bins -> BinPcs] /\ mBin \in Bins
  BY DEF TypeOK, BinPcs
<1>2. UNCHANGED <<toAddQueueM, freed, crossed, hPc, hBin>>
  BY DEF MainThread, ShutdownLock, ShutdownSignal, ShutdownTest, ShutdownWait,
     ShutdownWoken, handlerVars, queueVars, vars
<1>3. \A c \in Bins : BinHolds(c)' <=> BinHolds(c)
  <2>1. CASE ShutdownSignal
    BY <1>1, <2>1 DEF ShutdownSignal, BinHolds
  <2>2. CASE ~ShutdownSignal
    BY <2>2 DEF MainThread, ShutdownLock, ShutdownTest, ShutdownWait, ShutdownWoken,
       binVars, vars, BinHolds
  <2>3. QED
    BY <2>1, <2>2
<1>4. \A c : Holders(c)' = Holders(c)
  BY <1>2 DEF Holders
<1>5. QED
  BY <1>2, <1>3, <1>4 DEF SameHolders

LEMMA GuardedNext ==
  ASSUME TypeOK, Guarded, [Next]_vars
  PROVE  Guarded'
<1>1. ASSUME NEW b \in Bins, BinThread(b) \/ BinSpuriousWakeup(b)
      PROVE  Guarded'
  <2>1. CASE LockBinSteps(b)
    BY <2>1, GuardedBinLock, GuardedBinUnlock, GuardedWait DEF LockBinSteps
  <2>2. CASE ~LockBinSteps(b)
    BY <1>1, <2>2, BinLocksNone, SameGuarded
  <2>3. QED
    BY <2>1, <2>2
<1>2. ASSUME NEW h \in Handlers, HandlerThread(h)
      PROVE  Guarded'
  <2>1. CASE AddLock(h) \/ AddUnlock(h)
    BY <2>1, GuardedAddLock, GuardedAddUnlock
  <2>2. CASE ~AddLock(h) /\ ~AddUnlock(h)
    BY <1>2, <2>2, HandlerLocksNone, SameGuarded
  <2>3. QED
    BY <2>1, <2>2
<1>3. CASE ShutdownLock \/ MainThread \/ UNCHANGED vars
  BY <1>3, MainLocksNone, SameGuarded
<1>4. QED
  BY <1>1, <1>2, <1>3 DEF Next

-----------------------------------------------------------------------------
(* The invariant                                                           *)

LEMMA InitTypes == Init => TypeOK
<1> SUFFICES ASSUME Init PROVE TypeOK
  OBVIOUS
<1>1. 0 \in Bins
  BY BinsAre
<1>2. /\ toAddQueue \in [Bins -> Seq(Seq(Urls))] /\ temp \in [Bins -> Seq(Seq(Urls))]
      /\ toParse \in [Bins -> Seq(Urls)] /\ urls \in [Bins -> Seq(Urls)]
      /\ buffers \in [Handlers -> [Bins -> Seq(Urls)]]
  BY DEF Init
<1>3. QED
  BY <1>1, <1>2 DEF Init, TypeOK

LEMMA NextPreserves ==
  ASSUME IInv, [Next]_vars
  PROVE  IInv'
<1>1. TypeOK'
  <2>1. CASE \E b \in Bins : BinThread(b) \/ BinSpuriousWakeup(b)
    BY <2>1, TypesBin DEF IInv
  <2>2. CASE \E h \in Handlers : HandlerThread(h)
    BY <2>2, TypesHandler DEF IInv
  <2>3. CASE ShutdownLock \/ MainThread
    BY <2>3, TypesMain DEF IInv
  <2>4. CASE UNCHANGED vars
    BY <2>4 DEF IInv, TypeOK, vars, queueVars, storeVars, shutVars, binVars, handlerVars, mainVars
  <2>5. QED
    BY <2>1, <2>2, <2>3, <2>4 DEF Next
<1>2. StoreInv'
  BY StoreNext DEF IInv, QueueInv
<1>3. QueueInv'
  BY QueueNext DEF IInv
<1>4. Guarded'
  BY GuardedNext DEF IInv
<1>5. QED
  BY <1>1, <1>2, <1>3, <1>4 DEF IInv

LEMMA Invariance == Spec => []IInv
<1>1. Init => IInv
  BY InitTypes, InitStore, InitQueue, InitGuarded DEF IInv
<1>2. IInv /\ [Next]_vars => IInv'
  BY NextPreserves
<1>3. QED
  BY <1>1, <1>2, PTL DEF Spec

(* The variables of the frontier keep their types: an index that getUrl    *)
(* drew, and the tries it has left, never go below zero, and every batch   *)
(* is a sequence of URLs.                                                  *)
THEOREM TypesHold == Spec => []TypeOK
<1>1. IInv => TypeOK
  BY DEF IInv
<1>2. QED
  BY <1>1, Invariance, PTL

(* toParseM excludes: the bin thread that inserts and the getUrl that      *)
(* samples and removes never work on the toParse of a bin at once.         *)
THEOREM ToParseGuarded == Spec => []StoreMutex
<1>1. IInv => StoreMutex
  BY DEF IInv, StoreInv
<1>2. QED
  BY <1>1, Invariance, PTL

(* addToFrontierFromQueue and getUrl never give a URL twice, whatever the  *)
(* number of bins and handlers, and the URLs and their positions in the    *)
(* filters.                                                                *)
THEOREM NoUrlTwice == Spec => []AtMostOnce
<1>1. ASSUME IInv, NEW u \in Urls
      PROVE  handed[u] + Cardinality(Waiting(u)) <= 1
  <2>1. HashBin[u] \in Bins /\ handed[u] \in {0, 1}
    BY <1>1, HashAssumption DEF IInv, StoreInv, Fresh
  <2>2. ASSUME NEW b \in Bins, NEW i \in Live(b), toParse[b][i] = u
        PROVE  b = HashBin[u] /\ i \in DOMAIN toParse[b] /\ handed[u] = 0
    BY <1>1, <2>2 DEF IInv, StoreInv, InBin, Fresh, Live
  <2>3. \A p \in Waiting(u) :
          \E b \in Bins : \E i \in Live(b) : p = <<b, i>> /\ toParse[b][i] = u
    BY DEF Waiting
  <2>4. CASE Waiting(u) = {}
    BY <2>1, <2>4, FS_EmptySet
  <2>5. CASE Waiting(u) # {}
    <3>1. PICK p : p \in Waiting(u)
      BY <2>5
    <3>2. handed[u] = 0
      BY <2>2, <2>3, <3>1
    <3>3. ASSUME NEW q \in Waiting(u) PROVE q = p
      <4>1. PICK b \in Bins : \E i \in Live(b) : p = <<b, i>> /\ toParse[b][i] = u
        BY <2>3, <3>1
      <4>2. PICK i \in Live(b) : p = <<b, i>> /\ toParse[b][i] = u
        BY <4>1
      <4>3. PICK c \in Bins : \E j \in Live(c) : q = <<c, j>> /\ toParse[c][j] = u
        BY <2>3, <3>3
      <4>4. PICK j \in Live(c) : q = <<c, j>> /\ toParse[c][j] = u
        BY <4>3
      <4>5. b = c /\ i \in DOMAIN toParse[b] /\ j \in DOMAIN toParse[b]
        BY <2>2, <4>2, <4>4
      <4>6. i = j
        BY <1>1, <4>2, <4>4, <4>5 DEF IInv, StoreInv, Distinct
      <4>7. QED
        BY <4>2, <4>4, <4>5, <4>6
    <3>4. Waiting(u) = {p}
      BY <3>1, <3>3
    <3>5. Cardinality(Waiting(u)) = 1
      BY <3>4, FS_Singleton
    <3>6. QED
      BY <3>2, <3>5
  <2>6. QED
    BY <2>4, <2>5
<1>2. IInv => AtMostOnce
  BY <1>1 DEF AtMostOnce
<1>3. QED
  BY <1>2, Invariance, PTL

(* What sets the bits of a Bloom filter is stored in toParse, or was       *)
(* handed out: no interleaving of a swap-remove and an insertion drops it. *)
THEOREM NoInsertionLost == Spec => []NothingForgotten
<1>1. ASSUME IInv, NEW b \in Bins
      PROVE  Kept(b) = Entered(b)
  <2>1. ASSUME NEW i \in DOMAIN toParse[b], i \notin Live(b)
        PROVE  toParse[b][i] \in Urls /\ HashBin[toParse[b][i]] = b /\ handed[toParse[b][i]] > 0
    <3>1. handed[toParse[b][i]] = 1
      BY <1>1, <2>1 DEF IInv, StoreInv, Filling, Live
    <3>2. toParse[b][i] \in Urls
      <4>1. toParse \in [Bins -> Seq(Urls)]
        BY <1>1 DEF IInv, TypeOK
      <4>2. QED
        BY <4>1
    <3>3. QED
      BY <1>1, <3>1, <3>2 DEF IInv, StoreInv, InBin
  <2>2. ASSUME NEW u PROVE u \in Kept(b) <=> u \in Entered(b)
    <3>1. u \in Kept(b) => u \in Entered(b)
      BY DEF Kept, Entered, Live, ToSet
    <3>2. u \in Entered(b) => u \in Kept(b)
      BY <2>1 DEF Kept, Entered, ToSet
    <3>3. QED
      BY <3>1, <3>2
  <2>3. QED
    BY <2>2
<1>2. IInv => NothingForgotten
  BY <1>1 DEF IInv, StoreInv, FilterKnows, NothingForgotten
<1>3. QED
  BY <1>2, Invariance, PTL

(* addUrls, addToQueue and addToFrontierFromQueue hand a URL over until it *)
(* is in the filter of its bin, but where two threads use the toAddQueue   *)
(* of the bin at once; and they do not before a wait of the bin has        *)
(* unlocked toAddQueueM while another thread held it.                      *)
THEOREM NoBatchLost == Spec => []GivenUrlsKept
<1>1. IInv => GivenUrlsKept
  BY DEF IInv, QueueInv, UrlsKept, Guarded, GivenUrlsKept
<1>2. QED
  BY <1>1, Invariance, PTL

-----------------------------------------------------------------------------
(* The shutdown                                                            *)

LEMMA PartsOfBins ==
  ASSUME NEW S \in SUBSET Bins
  PROVE  /\ IsFiniteSet(S) /\ Cardinality(S) \in Nat
         /\ Cardinality(S) >= NumFrontierBins => S = Bins
<1>1. IsFiniteSet(Bins) /\ Cardinality(Bins) = NumFrontierBins
  <2>1. 0 \in Int /\ NumFrontierBins - 1 \in Int /\ ~(0 > NumFrontierBins - 1)
        /\ NumFrontierBins - 1 - 0 + 1 = NumFrontierBins
    BY NumFrontierBinsAssumption
  <2>2. QED
    BY <2>1, FS_Interval DEF Bins
<1>2. /\ IsFiniteSet(S) /\ Cardinality(S) <= Cardinality(Bins)
      /\ Cardinality(Bins) = Cardinality(S) => S = Bins
  BY <1>1, FS_Subset
<1>3. Cardinality(S) \in Nat
  BY <1>2, FS_CardinalityType
<1>4. Cardinality(S) >= NumFrontierBins => Cardinality(Bins) = Cardinality(S)
  BY <1>1, <1>2, <1>3, NumFrontierBinsAssumption
<1>5. QED
  BY <1>2, <1>3, <1>4

(* The bound of the count                                                  *)
CountBound == numBinsShutdown <= Cardinality(Parked)

LEMMA BoundKept ==
  /\ TypeOK /\ CountBound /\ Parked \subseteq Parked' /\ UNCHANGED numBinsShutdown
       => CountBound'
  /\ numBinsShutdown' = 0 => CountBound'
<1>1. Parked \in SUBSET Bins /\ Parked' \in SUBSET Bins
  BY DEF Parked
<1>2. Cardinality(Parked) \in Nat /\ IsFiniteSet(Parked') /\ Cardinality(Parked') \in Nat
  BY <1>1, PartsOfBins
<1>3. numBinsShutdown' = 0 => CountBound'
  BY <1>2 DEF CountBound
<1>4. ASSUME TypeOK, CountBound, Parked \subseteq Parked', UNCHANGED numBinsShutdown
      PROVE  CountBound'
  <2>1. Cardinality(Parked) <= Cardinality(Parked')
    BY <1>2, <1>4, FS_Subset
  <2>2. numBinsShutdown \in Nat
    BY <1>4 DEF TypeOK
  <2>3. QED
    BY <1>2, <1>4, <2>1, <2>2 DEF CountBound
<1>5. QED
  BY <1>3, <1>4

LEMMA InitShutdown == Init => ShutdownInv
<1> SUFFICES ASSUME Init PROVE ShutdownInv
  OBVIOUS
<1>1. numBinsShutdown = 0 /\ Parked \in SUBSET Bins
  BY DEF Init, Parked
<1>2. Cardinality(Parked) \in Nat
  BY <1>1, PartsOfBins
<1>3. numBinsShutdown <= Cardinality(Parked)
  BY <1>1, <1>2
<1>4. QED
  BY <1>3 DEF Init, ShutdownInv

(* What a bin does that has nothing to do with the shutdown                *)
BinRound(b) ==
  \/ BinLockQueue(b) \/ BinTestQueue(b) \/ BinWait(b) \/ BinLockTake(b)
  \/ BinSwap(b) \/ BinLockToParse(b) \/ BinBatchesDone(b)
  \/ BinAddNew(b) \/ BinSkipSeen(b) \/ BinUnlockToParse(b)

LEMMA ShutdownRound ==
  ASSUME TypeOK, ShutdownInv, NEW b \in Bins, BinRound(b)
  PROVE  ShutdownInv'
<1>1. binPc \in [Bins -> BinPcs]
  BY DEF TypeOK, BinPcs
<1>2. UNCHANGED <<mPc, doShutdownM, doShutdown, numBinsShutdown, hPc>>
  BY DEF BinRound, BinLockQueue, BinTestQueue, BinWait, BinLockTake, BinSwap, BinLockToParse,
     BinBatchesDone, BinAddNew, BinSkipSeen, BinUnlockToParse, shutVars, mainVars, handlerVars
<1>3. \/ UNCHANGED binPc
      \/ /\ binPc[b] \notin {"shutdown_test", "count", "unlock_again", "waiting", "returned"}
         /\ \E l \in BinPcs \ {"shutdown_test", "count", "unlock_again", "returned"} :
              /\ binPc[b] = "wait" => l = "waiting"
              /\ binPc' = [binPc EXCEPT ![b] = l]
  <2>1. CASE BinLockQueue(b) \/ BinTestQueue(b)
    BY <2>1 DEF BinLockQueue, BinTestQueue, BinGoto, BinPcs
  <2>2. CASE BinWait(b) \/ BinLockTake(b)
    BY <2>2 DEF BinWait, BinLockTake, BinGoto, BinPcs
  <2>3. CASE BinSwap(b) \/ BinLockToParse(b) \/ BinBatchesDone(b) \/ BinUnlockToParse(b)
    BY <2>3 DEF BinSwap, BinLockToParse, BinBatchesDone, BinUnlockToParse, BinGoto, BinPcs
  <2>4. CASE BinAddNew(b) \/ BinSkipSeen(b)
    BY <2>4 DEF BinAddNew, BinSkipSeen
  <2>5. QED
    BY <2>1, <2>2, <2>3, <2>4 DEF BinRound
<1>4. Parked \subseteq Parked'
  BY <1>1, <1>3 DEF Parked
<1>5. CountBound'
  BY <1>2, <1>4, BoundKept DEF ShutdownInv, CountBound
<1>6. \A c \in Bins : \A l \in {"shutdown_test", "count", "unlock_again", "returned"} :
        binPc'[c] = l <=> binPc[c] = l
  BY <1>1, <1>3
<1>7. mPc' = "returned" => Parked' = Bins
  BY <1>2, <1>4 DEF ShutdownInv, Parked
<1>8. /\ \A c \in Bins : binPc'[c] = "shutdown_test" <=> binPc[c] = "shutdown_test"
      /\ \A c \in Bins : binPc'[c] \in {"count", "unlock_again", "returned"}
                           <=> binPc[c] \in {"count", "unlock_again", "returned"}
  BY <1>6
<1>9. QED
  BY <1>2, <1>5, <1>7, <1>8 DEF ShutdownInv, CountBound

LEMMA ShutdownBin ==
  ASSUME TypeOK, ShutdownInv, NEW b \in Bins,
         BinLockShutdown(b) \/ BinTestShutdown(b) \/ BinUnlockAgain(b)
  PROVE  ShutdownInv'
<1>1. binPc \in [Bins -> BinPcs]
  BY DEF TypeOK, BinPcs
<1>2. UNCHANGED <<mPc, doShutdown, numBinsShutdown, hPc>>
  BY DEF BinLockShutdown, BinTestShutdown, BinUnlockAgain, mainVars, handlerVars
<1>3. \/ /\ ~doShutdownM /\ doShutdownM' = TRUE
         /\ binPc[b] = "shutdown_lock" /\ binPc'[b] = "shutdown_test"
      \/ /\ binPc[b] = "shutdown_test" /\ ~doShutdown /\ doShutdownM' = FALSE
         /\ binPc'[b] = "wait"
      \/ /\ binPc[b] = "shutdown_test" /\ doShutdown /\ doShutdownM' = FALSE
         /\ binPc'[b] = "count"
      \/ binPc[b] = "unlock_again" /\ binPc'[b] = "wait"
  BY <1>1 DEF BinLockShutdown, BinTestShutdown, BinUnlockAgain, BinGoto
<1>4. \A c \in Bins : c # b => binPc'[c] = binPc[c]
  BY <1>1 DEF BinLockShutdown, BinTestShutdown, BinUnlockAgain, BinGoto
<1>5. Parked \subseteq Parked'
  BY <1>3, <1>4 DEF Parked
<1>6. CountBound'
  BY <1>2, <1>5, BoundKept DEF ShutdownInv, CountBound
<1>7. mPc' = "returned" => Parked' = Bins
  BY <1>2, <1>5 DEF ShutdownInv, Parked
<1>8. mPc = "running" =>
        /\ \A c \in Bins : binPc'[c] \notin {"count", "unlock_again", "returned"}
        /\ \A c \in Bins : binPc'[c] = "shutdown_test" =>
             doShutdownM' /\ \A d \in Bins : binPc'[d] = "shutdown_test" => d = c
  BY <1>3, <1>4 DEF ShutdownInv
<1>9. mPc # "signal"
  BY <1>3 DEF ShutdownInv
<1>10. QED
  BY <1>2, <1>6, <1>7, <1>8, <1>9 DEF ShutdownInv, CountBound

LEMMA ShutdownCount ==
  ASSUME TypeOK, ShutdownInv, NEW b \in Bins, BinCount(b)
  PROVE  ShutdownInv'
<1>1. binPc \in [Bins -> BinPcs] /\ numBinsShutdown \in Nat
  BY DEF TypeOK, BinPcs
<1>2. /\ UNCHANGED <<doShutdownM, doShutdown, hPc>>
      /\ numBinsShutdown' = numBinsShutdown + 1 /\ binPc[b] = "count"
      /\ mPc' = mPc \/ mPc' = "woken"
  BY DEF BinCount, handlerVars
<1>3. /\ binPc'[b] \in {"returned", "unlock_again"}
      /\ \A c \in Bins : c # b => binPc'[c] = binPc[c]
  BY <1>1 DEF BinCount, BinGoto
<1>4. b \notin Parked
  BY <1>2 DEF Parked
<1>5. Parked' = Parked \cup {b}
  <2>1. ASSUME NEW c PROVE c \in Parked' <=> c \in Parked \cup {b}
    BY <1>3 DEF Parked
  <2>2. QED
    BY <2>1
<1>6. mPc \notin {"running", "signal", "returned"}
  BY <1>2, <1>4 DEF ShutdownInv
<1>7. numBinsShutdown' <= Cardinality(Parked')
  <2>1. Parked \in SUBSET Bins
    BY DEF Parked
  <2>2. IsFiniteSet(Parked) /\ Cardinality(Parked) \in Nat
    BY <2>1, PartsOfBins
  <2>3. Cardinality(Parked') = Cardinality(Parked) + 1
    BY <1>4, <1>5, <2>2, FS_AddElement
  <2>4. numBinsShutdown <= Cardinality(Parked)
    BY DEF ShutdownInv
  <2>5. QED
    BY <1>1, <1>2, <2>2, <2>3, <2>4
<1>8. QED
  BY <1>2, <1>6, <1>7 DEF ShutdownInv

LEMMA ShutdownHandler ==
  ASSUME TypeOK, ShutdownInv, NEW h \in Handlers, HandlerThread(h)
  PROVE  ShutdownInv'
<1>1. mPc = "running"
  BY DEF HandlerThread, HandlerStep, ShutdownInv, AddUrls, AddLock, AddPush, AddUnlock, GetUrl,
     GetLock, GetPick, GetFill, GetUnlock
<1>2. UNCHANGED <<mPc, doShutdownM, doShutdown, numBinsShutdown>>
  BY DEF HandlerThread, HandlerStep, AddUrls, AddLock, AddPush, AddUnlock, GetUrl, GetLock,
     GetPick, GetFill, GetUnlock, shutVars, mainVars
<1>3. \A b \in Bins : binPc'[b] = binPc[b] \/ binPc'[b] = "woken"
  <2>1. binPc \in [Bins -> BinPcs] /\ hBin[h] \in Bins
    BY DEF TypeOK, BinPcs
  <2>2. CASE AddPush(h)
    BY <2>1, <2>2 DEF AddPush
  <2>3. CASE ~AddPush(h)
    BY <2>3 DEF HandlerThread, HandlerStep, AddUrls, AddLock, AddUnlock, GetUrl, GetLock,
       GetPick, GetFill, GetUnlock, binVars
  <2>4. QED
    BY <2>2, <2>3
<1>4. numBinsShutdown' = 0
  BY <1>1, <1>2 DEF ShutdownInv
<1>5. CountBound'
  BY <1>4, BoundKept
<1>6. QED
  BY <1>1, <1>2, <1>3, <1>4, <1>5 DEF ShutdownInv, CountBound

LEMMA ShutdownMain ==
  ASSUME TypeOK, ShutdownInv, ShutdownLock \/ MainThread
  PROVE  ShutdownInv'
<1>1. binPc \in [Bins -> BinPcs] /\ mBin \in Bins /\ numBinsShutdown \in Nat
  BY DEF TypeOK, BinPcs
<1>2. UNCHANGED <<hPc, numBinsShutdown>>
  BY DEF ShutdownLock, MainThread, ShutdownSignal, ShutdownTest, ShutdownWait, ShutdownWoken,
     shutVars, handlerVars
<1>3. CASE ShutdownLock
  <2>1. UNCHANGED binPc /\ mPc = "running" /\ mPc' = "signal" /\ doShutdownM' = TRUE
        /\ doShutdown' = TRUE /\ ~doShutdownM /\ \A h \in Handlers : hPc[h] = "idle"
    BY <1>3 DEF ShutdownLock, binVars
  <2>2. numBinsShutdown' = 0
    BY <1>2, <2>1 DEF ShutdownInv
  <2>3. CountBound'
    BY <2>2, BoundKept
  <2>4. QED
    BY <1>2, <2>1, <2>2, <2>3 DEF ShutdownInv, CountBound
<1>4. CASE ShutdownSignal
  <2>1. /\ UNCHANGED <<doShutdownM, doShutdown>> /\ mPc = "signal" /\ mPc' \in {"signal", "test"}
        /\ \A b \in Bins : binPc'[b] = binPc[b] \/ binPc'[b] = "woken"
    BY <1>1, <1>4 DEF ShutdownSignal, shutVars
  <2>2. numBinsShutdown' = 0
    BY <1>2, <2>1 DEF ShutdownInv
  <2>3. CountBound'
    BY <2>2, BoundKept
  <2>4. QED
    BY <1>2, <2>1, <2>2, <2>3 DEF ShutdownInv, CountBound
<1>5. CASE ShutdownTest
  <2>1. /\ UNCHANGED <<binPc, doShutdown>> /\ mPc = "test" /\ mPc' \in {"wait", "returned"}
        /\ mPc' = "returned" => numBinsShutdown = NumFrontierBins
    BY <1>5 DEF ShutdownTest, binVars
  <2>2. Parked' = Parked
    BY <2>1 DEF Parked
  <2>3. ASSUME mPc' = "returned" PROVE Parked = Bins
    <3>1. Parked \in SUBSET Bins
      BY DEF Parked
    <3>2. Cardinality(Parked) \in Nat /\ NumFrontierBins <= Cardinality(Parked)
      BY <2>1, <2>3, <3>1, PartsOfBins DEF ShutdownInv
    <3>3. Cardinality(Parked) >= NumFrontierBins
      BY <3>2, NumFrontierBinsAssumption
    <3>4. QED
      BY <3>1, <3>3, PartsOfBins
  <2>4. QED
    BY <1>2, <2>1, <2>2, <2>3 DEF ShutdownInv
<1>6. CASE ShutdownWait \/ ShutdownWoken
  <2>1. UNCHANGED <<binPc, doShutdown>> /\ mPc \in {"wait", "woken"} /\ mPc' \in {"waiting", "test"}
    BY <1>6 DEF ShutdownWait, ShutdownWoken, binVars
  <2>2. Parked' = Parked
    BY <2>1 DEF Parked
  <2>3. QED
    BY <1>2, <2>1, <2>2 DEF ShutdownInv
<1>7. QED
  BY <1>3, <1>4, <1>5, <1>6 DEF MainThread

LEMMA ShutdownNext ==
  ASSUME MaxSpurious = 0, TypeOK, ShutdownInv, [Next]_vars
  PROVE  ShutdownInv'
<1>1. ASSUME NEW b \in Bins, BinThread(b) \/ BinSpuriousWakeup(b)
      PROVE  ShutdownInv'
  <2>1. ~BinSpuriousWakeup(b)
    <3>1. spurious \in Nat
      BY DEF TypeOK
    <3>2. ~(spurious < MaxSpurious)
      BY <3>1
    <3>3. QED
      BY <3>2 DEF BinSpuriousWakeup
  <2>2. CASE BinRound(b)
    BY <2>2, ShutdownRound
  <2>3. CASE BinLockShutdown(b) \/ BinTestShutdown(b) \/ BinUnlockAgain(b) \/ BinCount(b)
    BY <2>3, ShutdownBin, ShutdownCount
  <2>4. QED
    BY <1>1, <2>1, <2>2, <2>3 DEF BinThread, BinRound
<1>2. CASE \E h \in Handlers : HandlerThread(h)
  BY <1>2, ShutdownHandler
<1>3. CASE ShutdownLock \/ MainThread
  BY <1>3, ShutdownMain
<1>4. CASE UNCHANGED vars
  BY <1>4 DEF ShutdownInv, Parked, vars, shutVars, binVars, mainVars, handlerVars
<1>5. QED
  BY <1>1, <1>2, <1>3, <1>4 DEF Next

(* When Frontier::shutdown has returned, all bins are parked and no        *)
(* handler runs, so no file of the frontier changes before the process     *)
(* ends.  A spurious wakeup could have a bin counted twice.                *)
THEOREM ShutdownIsQuiet ==
  ASSUME MaxSpurious = 0
  PROVE  Spec => ShutdownQuiesces
<1>1. Init => ShutdownInv
  BY InitShutdown
<1>2. TypeOK /\ ShutdownInv /\ [Next]_vars => ShutdownInv'
  BY ShutdownNext
<1>3. ASSUME TypeOK, ShutdownInv, [Next]_vars, mPc = "returned"
      PROVE  UNCHANGED <<bloom, toParse>>
  <2>1. CASE \E b \in Bins : BinThread(b) \/ BinSpuriousWakeup(b)
    <3>1. PICK b \in Bins : BinThread(b) \/ BinSpuriousWakeup(b)
      BY <2>1
    <3>2. binPc[b] # "add"
      BY <1>3 DEF ShutdownInv, Parked
    <3>3. ~BinAddNew(b)
      BY <3>2 DEF BinAddNew
    <3>4. QED
      BY <3>1, <3>3 DEF BinThread, BinLockQueue, BinTestQueue, BinLockShutdown,
         BinTestShutdown, BinCount, BinUnlockAgain, BinWait, BinSpuriousWakeup, BinLockTake,
         BinSwap, BinLockToParse, BinBatchesDone, BinSkipSeen, BinUnlockToParse, storeVars
  <2>2. ~ \E h \in Handlers : HandlerThread(h)
    BY <1>3 DEF HandlerThread, HandlerStep, ShutdownInv, AddUrls, AddLock, AddPush, AddUnlock,
       GetUrl, GetLock, GetPick, GetFill, GetUnlock
  <2>3. CASE ShutdownLock \/ MainThread \/ UNCHANGED vars
    BY <2>3, MainElsewhere, <1>3 DEF storeVars
  <2>4. QED
    BY <1>3, <2>1, <2>2, <2>3 DEF Next
<1>4. TypeOK /\ ShutdownInv /\ [Next]_vars => [mPc = "returned" => UNCHANGED <<bloom, toParse>>]_vars
  BY <1>3
<1>5. QED
  BY <1>1, <1>2, <1>4, TypesHold, PTL DEF Spec, ShutdownQuiesces

-----------------------------------------------------------------------------
(***************************************************************************)
(* Proofs about FrontierFiles as MCFrontier runs it, for any number of     *)
(* URLs, bins, positions of the filter, segments and crashes.              *)
(*                                                                         *)
(* FilesHold is not inductive.  Layout says that the strings of the URL    *)
(* store that a bin has or is going to put into its toParse are complete   *)
(* and lie apart from those that are being copied; so an entry is an       *)
(* offset of a whole string, or Dummy after a crash.  Costs counts: a URL  *)
(* is in one place, being stored, in toParse or taken out of it by getUrl  *)
(* (Given: in memory, returned, or lost from memory), and each crash adds  *)
(* at most one place to the URLs of a bin (Excess) and takes the last      *)
(* place from at most one (Missing).                                       *)
(*                                                                         *)
(* SeenRestored needs what a frontier that is being made has seen so far   *)
(* (Making): set_filter has computed the hashes of the entries before the  *)
(* one it is at, and of nothing else, and no bin is used meanwhile.        *)
(***************************************************************************)

Own(b) == {u \in FileUrls : FileBinOf[u] = b}

(* The whole string of u is at offset o of the store s.                    *)
Full(s, o, u) ==
  /\ o + 3 <= Len(s)
  /\ s[o + 1] = 2 * u /\ s[o + 2] = 2 * u + 1 /\ s[o + 3] = 0

Steps == {"idle", "set", "reserve", "copy", "push", "fill", "get", "overwrite", "pop"}
Inserting == {"set", "reserve", "copy", "push", "fill"}
Storing == {"copy", "push", "fill"}

GivenTypes ==
  took \in [FileUrls -> Nat] /\ returned \in [FileUrls -> Nat] /\ dropped \in [FileUrls -> Nat]
FileTypes ==
  /\ urlStore \in Seq(Nat) /\ Len(urlStore) >= 2 /\ urlStore[1] = 1
  /\ entries \in [FileBins -> Seq(Nat)]
  /\ cursor \in [FileBins -> Nat]
  /\ DOMAIN filter = FileBins
  /\ bPc \in [FileBins -> Steps]
  /\ bUrl \in [FileBins -> FileUrls \cup {0}] /\ bAt \in [FileBins -> Nat]
  /\ GivenTypes
  /\ crashes \in Nat

(* What a bin that does something has                                      *)
BusyAt(b) ==
  /\ cursor[b] <= Len(entries[b])
  /\ bPc[b] \in Inserting => bUrl[b] \in Own(b)
  /\ bPc[b] \notin Inserting => bUrl[b] = 0
  /\ bPc[b] = "set" => Files!Unset(bUrl[b], b) # {}
  /\ bPc[b] \in Storing => bAt[b] + 3 <= Len(urlStore) /\ urlStore[bAt[b] + 3] = 0
  /\ bPc[b] = "copy" =>
       urlStore[bAt[b] + 1] \in {0, 2 * bUrl[b]} /\ urlStore[bAt[b] + 2] = 0
  /\ bPc[b] \in {"push", "fill"} => Full(urlStore, bAt[b], bUrl[b])
  /\ bPc[b] \in {"fill", "pop"} => cursor[b] > 0
  /\ bPc[b] = "overwrite" => bAt[b] \in 1 .. cursor[b]
Busy == \A b \in FileBins : BusyAt(b)

(* What a bin has put into toParse                                         *)
ListedAt(b) ==
  \A i \in DOMAIN entries[b] :
    \/ \E u \in Own(b) : Full(urlStore, entries[b][i], u)
    \/ /\ entries[b][i] = 0
       /\ crashes > 0 \/ (bPc[b] = "fill" /\ i = cursor[b])
Listed == \A b \in FileBins : ListedAt(b)

(* What is being copied is not what others have.                           *)
Beside(o, p) == o + 3 <= p \/ p + 3 <= o
Apart ==
  \A b \in FileBins : bPc[b] = "copy" =>
    /\ \A c \in FileBins \ {b} : bPc[c] \in Storing => Beside(bAt[b], bAt[c])
    /\ \A c \in FileBins : \A i \in DOMAIN entries[c] :
         entries[c][i] = 0 \/ Beside(bAt[b], entries[c][i])

(* The filters are made while no bin does anything.                        *)
Resting == lost = "making" => \A b \in FileBins : bPc[b] = "idle"

Layout == FileTypes /\ Busy /\ Listed /\ Apart /\ Resting

(* The entry that is about to go, or is not yet there                      *)
Gone(b) ==
  IF bPc[b] = "overwrite" THEN bAt[b]
  ELSE IF bPc[b] \in {"pop", "fill"} THEN cursor[b] ELSE 0

(* The places of a URL: in toParse, being stored, and in the hands of      *)
(* getUrl, of those it returned it to, or of nobody since a crash          *)
Places(u) ==
  LET b == FileBinOf[u] IN
  {i \in 1 .. cursor[b] : i # Gone(b) /\ Full(urlStore, entries[b][i], u)}
Given(u) == took[u] + returned[u] + dropped[u]
Holding(u) == IF bUrl[FileBinOf[u]] = u THEN 1 ELSE 0
Count(u) == Given(u) + Cardinality(Places(u)) + Holding(u)

Excess(b) == {e \in Own(b) \X Nat : 2 <= e[2] /\ e[2] <= Count(e[1])}

Marked(u) ==
  \E k \in 1 .. numHashes : Files!Telling(u, k) /\ FileBitsOf[u][k] \in filter[FileBinOf[u]]
Lacking(u) == Given(u) = 0 /\ Places(u) = {} /\ bUrl[FileBinOf[u]] # u
Missing(b) == {u \in Own(b) : Marked(u) /\ Lacking(u)}

(* A URL that has a place is known to the filter.                          *)
Placed(u) ==
  LET b == FileBinOf[u] IN
  \/ Given(u) > 0
  \/ \E i \in DOMAIN entries[b] : Full(urlStore, entries[b][i], u)
  \/ bUrl[b] = u /\ bPc[b] # "set"
Known ==
  \A u \in FileUrls : Placed(u) =>
    \A k \in 1 .. numHashes : FileBitsOf[u][k] \in filter[FileBinOf[u]]

(* S has no more than n elements.                                          *)
AtMost(S, n) == IsFiniteSet(S) /\ Cardinality(S) <= n

Costs ==
  lost = "no" =>
    Known /\ \A b \in FileBins : AtMost(Excess(b), crashes) /\ AtMost(Missing(b), crashes)

FilesInv == Layout /\ Costs

-----------------------------------------------------------------------------
(* Strings of the store                                                    *)

(* A set of naturals that is not empty has a least element.                *)
LEMMA LeastExists ==
  ASSUME NEW S, S \subseteq Nat, S # {}
  PROVE  LET m == CHOOSE i \in S : \A j \in S : i <= j IN m \in S /\ \A j \in S : m <= j
<1>1. PICK m \in S : \A e \in S : ~ (<<e, m>> \in OpToRel(<, Nat))
  BY NatLessThanWellFounded, WFMin, Zenon
<1>2. ASSUME NEW e \in S
      PROVE  m <= e
  <2>1. e \in Nat /\ m \in Nat /\ ~ (<<e, m>> \in OpToRel(<, Nat))
    BY <1>1
  <2>2. QED
    BY <2>1 DEF OpToRel
<1>3. QED
  BY <1>2

(* Where the string at an offset ends                                      *)
Ends(s, o) == {k \in o + 1 .. Len(s) : s[k] = 0} \cup {Len(s) + 1}
EndOf(s, o) == CHOOSE k \in Ends(s, o) : \A l \in Ends(s, o) : k <= l

LEMMA EndIsLeast ==
  ASSUME NEW s \in Seq(Nat), NEW o \in Nat
  PROVE  EndOf(s, o) \in Ends(s, o) /\ \A l \in Ends(s, o) : EndOf(s, o) <= l
<1>1. Ends(s, o) \subseteq Nat /\ Ends(s, o) # {}
  BY DEF Ends
<1>2. QED
  BY <1>1, LeastExists DEF EndOf

LEMMA StringIsSubSeq ==
  ASSUME NEW s, NEW o
  PROVE  Files!StringAt(s, o) = SubSeq(s, o + 1, EndOf(s, o) - 1)
  BY DEF Files!StringAt, EndOf, Ends

(* What a string that has the name of u consists of                        *)
LEMMA NamesRead ==
  ASSUME NEW s \in Seq(Nat), NEW o \in Nat, NEW u, Files!Names(s, o, u)
  PROVE  o + 2 <= Len(s) /\ s[o + 1] = 2 * u /\ s[o + 2] = 2 * u + 1
<1> DEFINE e == EndOf(s, o)
           t == SubSeq(s, o + 1, e - 1)
<1>1. e \in Nat /\ e <= Len(s) + 1
  BY EndIsLeast DEF Ends
<1>2. t = <<2 * u, 2 * u + 1>>
  BY StringIsSubSeq DEF Files!Names, Files!Chars
<1>3. Len(t) = 2 /\ t[1] = 2 * u /\ t[2] = 2 * u + 1
  <2> HIDE DEF t
  <2>1. QED
    BY <1>2
<1> HIDE DEF e
<1>4. Len(t) = IF o + 1 <= e - 1 THEN e - 1 - o ELSE 0
  BY <1>1
<1>5. e = o + 3
  BY <1>1, <1>3, <1>4
<1>6. t[1] = s[o + 1] /\ t[2] = s[o + 2]
  BY <1>1, <1>5
<1>7. QED
  BY <1>1, <1>3, <1>5, <1>6

(* A whole string is read as its URL.                                      *)
LEMMA FullNames ==
  ASSUME urlStore \in Seq(Nat), NEW o \in Nat, NEW u \in FileUrls, Full(urlStore, o, u)
  PROVE  Files!Names(urlStore, o, u)
<1> DEFINE e == EndOf(urlStore, o)
           t == SubSeq(urlStore, o + 1, o + 2)
<1>1. u \in Nat /\ u > 0
  BY FilesAssumption
<1>2. o + 3 \in Ends(urlStore, o)
  BY DEF Full, Ends
<1>3. ASSUME NEW k \in Ends(urlStore, o)
      PROVE  k >= o + 3
  <2>1. k = Len(urlStore) + 1 \/ (k \in o + 1 .. Len(urlStore) /\ urlStore[k] = 0)
    BY DEF Ends
  <2>2. urlStore[o + 1] # 0 /\ urlStore[o + 2] # 0 /\ o + 3 <= Len(urlStore)
    BY <1>1 DEF Full
  <2>3. QED
    BY <2>1, <2>2, SMTT(30)
<1>4. e = o + 3
  BY <1>2, <1>3, EndIsLeast DEF Ends
<1>5. Files!StringAt(urlStore, o) = t
  <2>1. e - 1 = o + 2
    BY <1>4
  <2> HIDE DEF e
  <2>2. QED
    BY <2>1, StringIsSubSeq DEF e
<1>6. t = <<2 * u, 2 * u + 1>>
  <2> DEFINE w == <<2 * u, 2 * u + 1>>
  <2>1. o + 3 <= Len(urlStore) /\ urlStore[o + 1] = 2 * u /\ urlStore[o + 2] = 2 * u + 1
    BY DEF Full
  <2>2. t \in Seq(Nat) /\ Len(t) = 2 /\ t[1] = urlStore[o + 1] /\ t[2] = urlStore[o + 2]
    BY <2>1, SMTT(30)
  <2>3. w \in Seq(Nat) /\ Len(w) = 2 /\ w[1] = 2 * u /\ w[2] = 2 * u + 1
    BY <1>1
  <2> HIDE DEF t, w
  <2>4. \A i \in 1 .. 2 : t[i] = w[i]
    BY <2>1, <2>2, <2>3
  <2>5. t = w
    BY <2>2, <2>3, <2>4, SeqEqual
  <2>6. QED
    BY <2>5 DEF w
<1>7. QED
  BY <1>5, <1>6 DEF Files!Names, Files!Chars

(* A string is that of one URL.                                            *)
LEMMA FullOnce ==
  ASSUME NEW s, NEW o, NEW u \in FileUrls, NEW v \in FileUrls, Full(s, o, u), Full(s, o, v)
  PROVE  u = v
<1>1. u \in Nat /\ v \in Nat
  BY FilesAssumption
<1>2. 2 * u = 2 * v
  BY DEF Full
<1>3. QED
  BY <1>1, <1>2

(* Nothing but Dummy is at offset 0.                                       *)
LEMMA DummyIsNoUrl ==
  ASSUME FileTypes, NEW u \in FileUrls
  PROVE  ~Full(urlStore, 0, u) /\ ~Files!Names(urlStore, 0, u)
<1>1. u \in Nat /\ 2 * u # 1
  BY FilesAssumption
<1>2. urlStore[0 + 1] = 1 /\ urlStore \in Seq(Nat)
  BY DEF FileTypes
<1>3. ~Full(urlStore, 0, u)
  BY <1>1, <1>2 DEF Full
<1>4. ~Files!Names(urlStore, 0, u)
  BY <1>1, <1>2, NamesRead
<1>5. QED
  BY <1>3, <1>4

(* getUrl reads the URL that an entry stands for.                          *)
LEMMA EntryNames ==
  ASSUME Layout, NEW b \in FileBins, NEW i \in DOMAIN entries[b], NEW u \in FileUrls
  PROVE  Files!Names(urlStore, entries[b][i], u) <=> Full(urlStore, entries[b][i], u)
<1> DEFINE o == entries[b][i]
<1>1. o \in Nat /\ urlStore \in Seq(Nat)
  BY DEF Layout, FileTypes
<1>2. Full(urlStore, o, u) => Files!Names(urlStore, o, u)
  BY <1>1, FullNames
<1>3. ASSUME Files!Names(urlStore, o, u)
      PROVE  Full(urlStore, o, u)
  <2>1. CASE o = 0
    BY <1>3, <2>1, DummyIsNoUrl DEF Layout
  <2>2. CASE o # 0
    <3>1. PICK v \in Own(b) : Full(urlStore, o, v)
      BY <2>2 DEF Layout, Listed, ListedAt
    <3>2. v \in FileUrls
      BY DEF Own
    <3>3. urlStore[o + 1] = 2 * u /\ urlStore[o + 1] = 2 * v
      BY <1>1, <1>3, <3>1, NamesRead DEF Full
    <3>4. u = v
      BY <3>2, <3>3, FilesAssumption
    <3>5. QED
      BY <3>1, <3>4
  <2>3. QED
    BY <2>1, <2>2
<1>4. QED
  BY <1>2, <1>3


-----------------------------------------------------------------------------
(* Layout                                                                  *)

(* The character that Copy writes, and where                               *)
LEMMA CopyWrites ==
  ASSUME Layout, NEW b \in FileBins, Files!Copy(b)
  PROVE  /\ bUrl[b] \in Own(b) /\ bUrl[b] \in Nat \ {0}
         /\ bAt[b] \in Nat /\ bAt[b] > 0 /\ bAt[b] + 3 <= Len(urlStore) /\ urlStore[bAt[b] + 3] = 0
         /\ \/ /\ urlStore[bAt[b] + 1] = 0 /\ urlStore[bAt[b] + 2] = 0
               /\ urlStore' = [urlStore EXCEPT ![bAt[b] + 1] = 2 * bUrl[b]]
               /\ bPc' = [bPc EXCEPT ![b] = "copy"]
            \/ /\ urlStore[bAt[b] + 1] = 2 * bUrl[b] /\ urlStore[bAt[b] + 2] = 0
               /\ urlStore' = [urlStore EXCEPT ![bAt[b] + 2] = 2 * bUrl[b] + 1]
               /\ bPc' = [bPc EXCEPT ![b] = "push"]
<1>1. bPc[b] = "copy"
  BY DEF Files!Copy, Files!getting
<1>2. bUrl[b] \in Own(b) /\ bUrl[b] \in Nat \ {0}
  BY <1>1, FilesAssumption DEF Layout, Busy, BusyAt, Inserting, Own
<1>3. /\ bAt[b] + 3 <= Len(urlStore) /\ urlStore[bAt[b] + 3] = 0
      /\ urlStore[bAt[b] + 1] \in {0, 2 * bUrl[b]} /\ urlStore[bAt[b] + 2] = 0
  BY <1>1 DEF Layout, Busy, BusyAt, Storing
<1>4. bAt[b] \in Nat /\ urlStore[1] = 1
  BY DEF Layout, FileTypes
<1>5. bAt[b] > 0
  BY <1>2, <1>3, <1>4
<1>6. CASE urlStore[bAt[b] + 1] = 0
  <2>1. /\ urlStore' = [urlStore EXCEPT ![bAt[b] + 1 + 1 - 1] = 2 * bUrl[b]]
        /\ bPc' = [bPc EXCEPT ![b] = "copy"]
    BY <1>6 DEF Files!Copy, Files!getting, Files!Chars, Files!Goto
  <2>2. bAt[b] + 1 + 1 - 1 = bAt[b] + 1
    BY <1>4
  <2>3. QED
    BY <1>2, <1>3, <1>4, <1>5, <1>6, <2>1, <2>2
<1>7. CASE urlStore[bAt[b] + 1] # 0
  <2>1. /\ urlStore' = [urlStore EXCEPT ![bAt[b] + 1 + 2 - 1] = 2 * bUrl[b] + 1]
        /\ bPc' = [bPc EXCEPT ![b] = "push"]
    BY <1>7 DEF Files!Copy, Files!getting, Files!Chars, Files!Goto
  <2>2. bAt[b] + 1 + 2 - 1 = bAt[b] + 2
    BY <1>4
  <2>3. urlStore[bAt[b] + 1] = 2 * bUrl[b]
    BY <1>3, <1>7
  <2>4. QED
    BY <1>2, <1>3, <1>4, <1>5, <2>1, <2>2, <2>3
<1>8. QED
  BY <1>6, <1>7

(* A string that is written stays, for nothing is written into it.         *)
LEMMA FullGrows ==
  ASSUME urlStore \in Seq(Nat), NEW t \in Seq(Nat), urlStore' = urlStore \o t,
         NEW o \in Nat, NEW u \in FileUrls, Full(urlStore, o, u)
  PROVE  Full(urlStore', o, u)
<1> DEFINE s == urlStore
<1>1. o + 3 <= Len(s) /\ s[o + 1] = 2 * u /\ s[o + 2] = 2 * u + 1 /\ s[o + 3] = 0
  BY DEF Full
<1>2. Len(s \o t) = Len(s) + Len(t) /\ \A j \in 1 .. Len(s) : (s \o t)[j] = s[j]
  OBVIOUS
<1>3. Len(s) \in Nat /\ Len(t) \in Nat
  OBVIOUS
<1> HIDE DEF s
<1>4. /\ (s \o t)[o + 1] = s[o + 1] /\ (s \o t)[o + 2] = s[o + 2] /\ (s \o t)[o + 3] = s[o + 3]
      /\ o + 3 <= Len(s \o t)
  BY <1>1, <1>2, <1>3
<1>5. QED
  BY <1>1, <1>4 DEF Full, s

(* Nothing is being copied to offset o.                                    *)
Elsewhere(o) == \A b \in FileBins : bPc[b] = "copy" => Beside(bAt[b], o)

(* A whole string survives every step when nothing is being copied to it.  *)
LEMMA FullStays ==
  ASSUME Layout, Files!Next, NEW o \in Nat, NEW u \in FileUrls,
         Full(urlStore, o, u), Elsewhere(o)
  PROVE  Full(urlStore', o, u)
<1>1. urlStore \in Seq(Nat)
  BY DEF Layout, FileTypes
<1>2. CASE urlStore' = urlStore
  BY <1>2
<1>3. ASSUME NEW b \in FileBins, Files!Reserve(b)
      PROVE  Full(urlStore', o, u)
  <2>1. urlStore' = urlStore \o <<0, 0, 0>> /\ <<0, 0, 0>> \in Seq(Nat)
    BY <1>3 DEF Files!Reserve
  <2>2. QED
    BY <1>1, <2>1, FullGrows
<1>4. ASSUME NEW b \in FileBins, Files!Copy(b)
      PROVE  Full(urlStore', o, u)
  <2>1. bPc[b] = "copy" /\ bAt[b] \in Nat
    BY <1>4 DEF Files!Copy, Files!getting, Layout, FileTypes
  <2>2. Beside(bAt[b], o)
    BY <2>1 DEF Elsewhere
  <2>3. PICK w \in {bAt[b] + 1, bAt[b] + 2}, x \in Int : urlStore' = [urlStore EXCEPT ![w] = x]
    BY <1>4, CopyWrites
  <2>4. w \notin {o + 1, o + 2, o + 3}
    BY <2>1, <2>2 DEF Beside
  <2>5. /\ Len(urlStore') = Len(urlStore)
        /\ \A j \in {o + 1, o + 2, o + 3} : urlStore'[j] = urlStore[j]
    <3>1. o + 3 <= Len(urlStore)
      BY DEF Full
    <3>2. QED
      BY <1>1, <2>3, <2>4, <3>1
  <2>6. QED
    BY <2>5 DEF Full
<1>5. ASSUME NEW removed \in BOOLEAN, Files!Crash(removed)
      PROVE  Full(urlStore', o, u)
  <2>1. urlStore' = urlStore \o <<1, 0>> /\ <<1, 0>> \in Seq(Nat)
    BY <1>5 DEF Files!Crash, Files!DummyChars
  <2>2. QED
    BY <1>1, <2>1, FullGrows
<1>6. QED
  BY <1>2, <1>3, <1>4, <1>5
     DEF Files!Next, Files!Bin, Files!TryInsert, Files!SetBit, Files!Push, Files!Fill,
         Files!GetUrl, Files!Pick, Files!Overwrite, Files!PopBack, Files!Return,
         Files!MakeBloomFilter, Files!AddSeen,
         Files!FilterMade, Files!files

TypesOf(b) ==
  /\ urlStore \in Seq(Nat) /\ Len(urlStore) >= 2
  /\ entries[b] \in Seq(Nat) /\ cursor[b] \in Nat /\ cursor[b] <= Len(entries[b])
  /\ bUrl[b] \in FileUrls \cup {0} /\ bAt[b] \in Nat

LEMMA TypesHere ==
  ASSUME Layout, NEW b \in FileBins
  PROVE  TypesOf(b)
BY DEF Layout, FileTypes, Busy, BusyAt, TypesOf

(* What a bin has stays where nothing is copied into it.                   *)
LEMMA EntriesElsewhere ==
  ASSUME Layout, NEW b \in FileBins, NEW i \in DOMAIN entries[b]
  PROVE  entries[b][i] \in Nat /\ (entries[b][i] = 0 \/ Elsewhere(entries[b][i]))
BY DEF Layout, FileTypes, Apart, Elsewhere

(* An entry that stays names the same URL after a step.                    *)
LEMMA EntryStays ==
  ASSUME Layout, Files!Next, NEW b \in FileBins, NEW i \in DOMAIN entries[b],
         NEW u \in FileUrls, Full(urlStore, entries[b][i], u)
  PROVE  Full(urlStore', entries[b][i], u)
<1>1. entries[b][i] \in Nat
  BY EntriesElsewhere
<1>2. entries[b][i] # 0
  BY DummyIsNoUrl DEF Layout
<1>3. QED
  BY <1>1, <1>2, EntriesElsewhere, FullStays

(* What one bin does leaves the others alone.                              *)
Others(b) ==
  /\ entries' \in [FileBins -> Seq(Nat)] /\ cursor' \in [FileBins -> Nat]
  /\ bPc' \in [FileBins -> Steps] /\ bUrl' \in [FileBins -> FileUrls \cup {0}]
  /\ bAt' \in [FileBins -> Nat] /\ DOMAIN filter' = FileBins
  /\ GivenTypes' /\ crashes' = crashes /\ lost' = lost /\ lost # "making"
  /\ \A c \in FileBins \ {b} :
       /\ entries'[c] = entries[c] /\ cursor'[c] = cursor[c] /\ bPc'[c] = bPc[c]
       /\ bUrl'[c] = bUrl[c] /\ bAt'[c] = bAt[c] /\ filter'[c] = filter[c]

(* The positions that an insertion has still to set                        *)
LEMMA UnsetOf ==
  ASSUME NEW b, NEW u
  PROVE  Files!Unset(u, b) = {k \in DOMAIN FileBitsOf[u] : FileBitsOf[u][k] \notin filter[b]}
BY DEF Files!Unset

(* A step of one bin that does not write into the store                    *)
LEMMA StepInBin ==
  ASSUME Layout, Files!Next, NEW b \in FileBins, Others(b), urlStore' = urlStore,
         BusyAt(b)', ListedAt(b)', bPc'[b] # "copy",
         bPc'[b] \in Storing => bPc[b] \in Storing /\ bAt'[b] = bAt[b],
         \A i \in DOMAIN entries'[b] :
           \/ entries'[b][i] = 0
           \/ \E j \in DOMAIN entries[b] : entries'[b][i] = entries[b][j]
           \/ bPc[b] \in Storing /\ entries'[b][i] = bAt[b]
  PROVE  Layout'
<1>1. FileTypes'
  BY DEF Layout, FileTypes, Others, GivenTypes
<1>2. ASSUME NEW c \in FileBins \ {b}
      PROVE  BusyAt(c)' /\ ListedAt(c)'
  <2>1. BusyAt(c) /\ ListedAt(c)
    BY DEF Layout, Busy, Listed
  <2>2. /\ entries'[c] = entries[c] /\ cursor'[c] = cursor[c] /\ bPc'[c] = bPc[c]
        /\ bUrl'[c] = bUrl[c] /\ bAt'[c] = bAt[c] /\ filter'[c] = filter[c] /\ crashes' = crashes
    BY DEF Others
  <2>3. BusyAt(c)'
    BY <2>1, <2>2 DEF BusyAt, Files!Unset
  <2>4. ListedAt(c)'
    BY <2>1, <2>2 DEF ListedAt
  <2>5. QED
    BY <2>3, <2>4
<1>3. Apart'
  <2> SUFFICES ASSUME NEW c \in FileBins, bPc'[c] = "copy"
               PROVE  /\ \A d \in FileBins \ {c} : bPc'[d] \in Storing => Beside(bAt'[c], bAt'[d])
                      /\ \A d \in FileBins : \A i \in DOMAIN entries'[d] :
                           entries'[d][i] = 0 \/ Beside(bAt'[c], entries'[d][i])
    BY DEF Apart
  <2>1. c # b /\ bPc[c] = "copy" /\ bAt'[c] = bAt[c]
    BY DEF Others
  <2>2. /\ \A d \in FileBins \ {c} : bPc[d] \in Storing => Beside(bAt[c], bAt[d])
        /\ \A d \in FileBins : \A i \in DOMAIN entries[d] :
             entries[d][i] = 0 \/ Beside(bAt[c], entries[d][i])
    BY <2>1 DEF Layout, Apart
  <2>3. ASSUME NEW d \in FileBins \ {c}, bPc'[d] \in Storing
        PROVE  Beside(bAt'[c], bAt'[d])
    BY <2>1, <2>2, <2>3 DEF Others
  <2>4. ASSUME NEW d \in FileBins, NEW i \in DOMAIN entries'[d], entries'[d][i] # 0
        PROVE  Beside(bAt'[c], entries'[d][i])
    <3>1. CASE d = b
      BY <2>1, <2>2, <2>4, <3>1
    <3>2. CASE d # b
      BY <2>1, <2>2, <2>4, <3>2 DEF Others
    <3>3. QED
      BY <3>1, <3>2
  <2>5. QED
    BY <2>3, <2>4
<1>4. Resting'
  BY DEF Resting, Others
<1>5. Busy' /\ Listed'
  BY <1>2 DEF Busy, Listed
<1>6. QED
  BY <1>1, <1>3, <1>4, <1>5 DEF Layout

(* What Layout says of one bin                                             *)
TypesAt(b) ==
  /\ TypesOf(b) /\ BusyAt(b) /\ ListedAt(b) /\ lost # "making"
  /\ entries \in [FileBins -> Seq(Nat)] /\ cursor \in [FileBins -> Nat]
  /\ bPc \in [FileBins -> Steps] /\ bUrl \in [FileBins -> FileUrls \cup {0}]
  /\ bAt \in [FileBins -> Nat] /\ DOMAIN filter = FileBins
  /\ GivenTypes

(* What a step of a bin may rely on                                        *)
LEMMA LayoutOfBin ==
  ASSUME Layout, NEW b \in FileBins, lost # "making"
  PROVE  TypesAt(b)
BY TypesHere DEF TypesAt, Layout, FileTypes, Busy, Listed

(* Layout is kept by each action: the steps of an insertion, those of a    *)
(* pop, a crash and the making of the filters.                             *)
LEMMA TryInsertLayout ==
  ASSUME Layout, NEW b \in FileBins, Files!Next, lost # "making",
         NEW u \in FileUrls, Files!TryInsert(b, u)
  PROVE  Layout' /\ Others(b)
<1>1. TypesAt(b)
  BY LayoutOfBin
<1>2. /\ bPc[b] = "idle" /\ FileBinOf[u] = b /\ Files!Unset(u, b) # {}
      /\ bUrl' = [bUrl EXCEPT ![b] = u] /\ bPc' = [bPc EXCEPT ![b] = "set"]
      /\ UNCHANGED <<urlStore, entries, cursor, filter, bAt, took, returned, dropped, crashes, lost>>
  BY DEF Files!TryInsert, Files!getting, Files!Goto, Files!files
<1>3. bUrl'[b] = u /\ bPc'[b] = "set" /\ u \in Own(b)
  BY <1>1, <1>2 DEF TypesAt, Own
<1>4. Others(b)
  BY <1>1, <1>2 DEF Others, TypesAt, GivenTypes, Steps
<1>5. BusyAt(b)'
  BY <1>1, <1>2, <1>3 DEF BusyAt, TypesAt, Files!Unset, Inserting, Storing
<1>6. ListedAt(b)'
  BY <1>1, <1>2, <1>3 DEF ListedAt, TypesAt
<1>7. QED
  BY <1>2, <1>3, <1>4, <1>5, <1>6, StepInBin DEF Storing

LEMMA SetBitLayout ==
  ASSUME Layout, NEW b \in FileBins, Files!Next, lost # "making", Files!SetBit(b)
  PROVE  /\ Layout' /\ Others(b)
         /\ \E k \in Files!Unset(bUrl[b], b) :
              /\ filter'[b] = filter[b] \cup {FileBitsOf[bUrl[b]][k]}
              /\ bPc'[b] = "reserve" =>
                   \A l \in 1 .. numHashes : FileBitsOf[bUrl[b]][l] \in filter'[b]
<1>1. TypesAt(b)
  BY LayoutOfBin
<1> DEFINE u == bUrl[b]
           k == Files!Least(Files!Unset(u, b))
           x == FileBitsOf[u][k]
<1>2. /\ bPc[b] = "set"
      /\ filter' = [filter EXCEPT ![b] = @ \cup {x}]
      /\ bPc' = [bPc EXCEPT ![b] =
           IF \A i \in Files!Unset(u, b) : FileBitsOf[u][i] = x THEN "reserve" ELSE "set"]
      /\ UNCHANGED <<urlStore, entries, cursor, bUrl, bAt, took, returned, dropped, crashes, lost>>
  BY DEF Files!SetBit, Files!getting, Files!Goto
<1>3. u \in Own(b) /\ u \in FileUrls /\ Files!Unset(u, b) # {}
  BY <1>1, <1>2 DEF TypesAt, BusyAt, Inserting, Own
<1>4. DOMAIN FileBitsOf[u] = 1 .. numHashes
  BY <1>3, FilesAssumption
<1>5. Files!Unset(u, b) = {l \in 1 .. numHashes : FileBitsOf[u][l] \notin filter[b]}
  BY <1>4, UnsetOf
<1>6. k \in Files!Unset(u, b)
  <2>1. Files!Unset(u, b) \subseteq Nat
    BY <1>5, FilesAssumption
  <2>2. QED
    BY <1>3, <2>1, LeastExists DEF Files!Least
<1> HIDE DEF k
<1>7. filter'[b] = filter[b] \cup {x}
  BY <1>1, <1>2 DEF TypesAt
<1>8. bPc'[b] = IF \A i \in Files!Unset(u, b) : FileBitsOf[u][i] = x THEN "reserve" ELSE "set"
  BY <1>1, <1>2 DEF TypesAt
<1>9. bPc'[b] = "reserve" => \A l \in 1 .. numHashes : FileBitsOf[u][l] \in filter'[b]
  BY <1>5, <1>7, <1>8
<1>10. Others(b)
  BY <1>1, <1>2 DEF Others, TypesAt, GivenTypes, Steps
<1>11. bPc'[b] = "set" => Files!Unset(u, b)' # {}
  <2> SUFFICES ASSUME bPc'[b] = "set"
               PROVE  Files!Unset(u, b)' # {}
    OBVIOUS
  <2>1. PICK l \in 1 .. numHashes : FileBitsOf[u][l] \notin filter[b] /\ FileBitsOf[u][l] # x
    BY <1>5, <1>8
  <2>2. FileBitsOf[u][l] \notin filter'[b]
    BY <1>7, <2>1
  <2>3. u' = u
    BY <1>2
  <2>4. QED
    BY <1>4, <2>2, <2>3 DEF Files!Unset
<1>12. BusyAt(b)'
  BY <1>1, <1>2, <1>3, <1>8, <1>11 DEF BusyAt, TypesAt, Inserting, Storing
<1>13. ListedAt(b)'
  BY <1>1, <1>2, <1>8 DEF ListedAt, TypesAt
<1>14. Layout'
  BY <1>2, <1>8, <1>10, <1>12, <1>13, StepInBin DEF Storing
<1>15. QED
  BY <1>6, <1>7, <1>9, <1>10, <1>14

LEMMA PushLayout ==
  ASSUME Layout, NEW b \in FileBins, Files!Next, lost # "making", Files!Push(b)
  PROVE  /\ Layout' /\ Others(b)
         /\ cursor'[b] = cursor[b] + 1
         /\ \A i \in DOMAIN entries'[b] :
              \/ i \in DOMAIN entries[b] /\ entries'[b][i] = entries[b][i]
              \/ i = cursor'[b] /\ entries'[b][i] = 0
         /\ \A i \in DOMAIN entries[b] :
              i \in DOMAIN entries'[b] /\ entries'[b][i] = entries[b][i]
<1>1. TypesAt(b)
  BY LayoutOfBin
<1> DEFINE n == Len(entries[b])
<1>2. /\ bPc[b] = "push" /\ cursor' = [cursor EXCEPT ![b] = @ + 1]
      /\ bPc' = [bPc EXCEPT ![b] = "fill"]
      /\ UNCHANGED <<urlStore, filter, bUrl, bAt, took, returned, dropped, crashes, lost>>
  BY DEF Files!Push, Files!getting, Files!Goto
<1>3. cursor[b] \in Nat /\ cursor[b] <= n /\ n \in Nat /\ entries[b] \in Seq(Nat)
  BY <1>1 DEF TypesAt, TypesOf
<1>4. cursor'[b] = cursor[b] + 1 /\ bPc'[b] = "fill"
  BY <1>1, <1>2 DEF TypesAt
<1>5. /\ entries' \in [FileBins -> Seq(Nat)] /\ \A c \in FileBins \ {b} : entries'[c] = entries[c]
      /\ Len(entries'[b]) = IF cursor[b] = n THEN n + 1 ELSE n
      /\ \A i \in 1 .. n : entries'[b][i] = entries[b][i]
      /\ cursor[b] = n => entries'[b][n + 1] = 0
  <2>1. CASE cursor[b] = n
    <3>1. entries' = [entries EXCEPT ![b] = Append(entries[b], 0)]
      BY <2>1 DEF Files!Push, Files!Dummy
    <3>2. Append(entries[b], 0) \in Seq(Nat)
      BY <1>3
    <3>3. entries' \in [FileBins -> Seq(Nat)] /\ entries'[b] = Append(entries[b], 0)
          /\ \A c \in FileBins \ {b} : entries'[c] = entries[c]
      BY <1>1, <3>1, <3>2 DEF TypesAt
    <3>4. QED
      BY <1>3, <2>1, <3>3
  <2>2. CASE cursor[b] # n
    <3>1. entries' = entries
      BY <2>2 DEF Files!Push
    <3>2. QED
      BY <1>1, <2>2, <3>1 DEF TypesAt
  <2>3. QED
    BY <2>1, <2>2
<1>6. /\ \A i \in DOMAIN entries'[b] :
           \/ i \in DOMAIN entries[b] /\ entries'[b][i] = entries[b][i]
           \/ i = cursor'[b] /\ entries'[b][i] = 0
      /\ \A i \in DOMAIN entries[b] :
           i \in DOMAIN entries'[b] /\ entries'[b][i] = entries[b][i]
  <2>1. entries'[b] \in Seq(Nat) /\ DOMAIN entries[b] = 1 .. n
    BY <1>1, <1>5 DEF TypesAt
  <2>2. DOMAIN entries'[b] = 1 .. IF cursor[b] = n THEN n + 1 ELSE n
    BY <1>5, <2>1
  <2>3. ASSUME NEW i \in DOMAIN entries'[b], i \notin DOMAIN entries[b]
        PROVE  i = cursor'[b] /\ entries'[b][i] = 0
    <3>1. cursor[b] = n /\ i = n + 1
      BY <1>3, <2>1, <2>2, <2>3
    <3>2. QED
      BY <1>4, <1>5, <3>1
  <2>4. \A i \in DOMAIN entries[b] : i \in DOMAIN entries'[b] /\ entries'[b][i] = entries[b][i]
    <3> SUFFICES ASSUME NEW i \in DOMAIN entries[b]
                 PROVE  i \in DOMAIN entries'[b] /\ entries'[b][i] = entries[b][i]
      OBVIOUS
    <3>1. i \in 1 .. n
      BY <2>1
    <3>2. QED
      BY <1>3, <1>5, <2>2, <3>1
  <2>5. QED
    BY <2>3, <2>4
<1>7. cursor'[b] <= Len(entries'[b])
  BY <1>3, <1>4, <1>5
<1>8. Others(b)
  <2>1. cursor' \in [FileBins -> Nat] /\ \A c \in FileBins \ {b} : cursor'[c] = cursor[c]
    BY <1>1, <1>2, <1>3 DEF TypesAt
  <2>2. bPc' \in [FileBins -> Steps] /\ \A c \in FileBins \ {b} : bPc'[c] = bPc[c]
    BY <1>1, <1>2 DEF TypesAt, Steps
  <2>3. QED
    BY <1>1, <1>2, <1>5, <2>1, <2>2 DEF Others, TypesAt, GivenTypes
<1>9. BusyAt(b)'
  BY <1>1, <1>2, <1>3, <1>4, <1>7 DEF BusyAt, TypesAt, Inserting, Storing
<1>10. ListedAt(b)'
  BY <1>1, <1>2, <1>4, <1>6 DEF ListedAt, TypesAt
<1>11. Layout'
  BY <1>2, <1>4, <1>6, <1>8, <1>9, <1>10, StepInBin DEF Storing
<1>12. QED
  BY <1>4, <1>6, <1>8, <1>11

(* A write of an entry                                                     *)
Written(b, i, o) ==
  /\ i \in DOMAIN entries[b]
  /\ entries'[b] \in Seq(Nat) /\ DOMAIN entries'[b] = DOMAIN entries[b]
  /\ entries'[b][i] = o /\ \A j \in DOMAIN entries[b] \ {i} : entries'[b][j] = entries[b][j]

LEMMA EntryWritten ==
  ASSUME NEW b \in FileBins, TypesAt(b), NEW i \in 1 .. cursor[b], NEW o \in Nat,
         entries' = [entries EXCEPT ![b][i] = o]
  PROVE  /\ Written(b, i, o) /\ Len(entries'[b]) = Len(entries[b])
         /\ entries' \in [FileBins -> Seq(Nat)]
         /\ \A c \in FileBins \ {b} : entries'[c] = entries[c]
<1>1. entries[b] \in Seq(Nat) /\ i \in DOMAIN entries[b]
  BY DEF TypesAt, TypesOf
<1>2. entries' = [entries EXCEPT ![b] = [entries[b] EXCEPT ![i] = o]]
  BY DEF TypesAt
<1> DEFINE t == [entries[b] EXCEPT ![i] = o]
<1>3. t \in Seq(Nat) /\ DOMAIN t = DOMAIN entries[b] /\ Len(t) = Len(entries[b])
      /\ t[i] = o /\ \A j \in DOMAIN entries[b] \ {i} : t[j] = entries[b][j]
  BY <1>1
<1> HIDE DEF t
<1>4. entries'[b] = t /\ entries' \in [FileBins -> Seq(Nat)]
      /\ \A c \in FileBins \ {b} : entries'[c] = entries[c]
  BY <1>2, <1>3 DEF TypesAt, t
<1>5. QED
  BY <1>1, <1>3, <1>4 DEF Written

LEMMA FillLayout ==
  ASSUME Layout, NEW b \in FileBins, Files!Next, lost # "making", Files!Fill(b)
  PROVE  /\ Layout' /\ Others(b) /\ Written(b, cursor[b], bAt[b])
         /\ cursor[b] > 0 /\ bUrl[b] \in Own(b) /\ Full(urlStore, bAt[b], bUrl[b])
<1>1. TypesAt(b)
  BY LayoutOfBin
<1>2. /\ bPc[b] = "fill" /\ entries' = [entries EXCEPT ![b][cursor[b]] = bAt[b]]
      /\ bUrl' = [bUrl EXCEPT ![b] = 0] /\ bAt' = [bAt EXCEPT ![b] = 0]
      /\ bPc' = [bPc EXCEPT ![b] = "idle"]
      /\ UNCHANGED <<urlStore, cursor, filter, took, returned, dropped, crashes, lost>>
  BY DEF Files!Fill, Files!getting, Files!Goto
<1>3. /\ cursor[b] > 0 /\ cursor[b] \in 1 .. cursor[b] /\ bAt[b] \in Nat /\ bUrl[b] \in Own(b)
      /\ Full(urlStore, bAt[b], bUrl[b])
  BY <1>1, <1>2 DEF TypesAt, TypesOf, BusyAt, Inserting
<1>4. /\ Written(b, cursor[b], bAt[b]) /\ Len(entries'[b]) = Len(entries[b])
      /\ entries' \in [FileBins -> Seq(Nat)] /\ \A c \in FileBins \ {b} : entries'[c] = entries[c]
  BY <1>1, <1>2, <1>3, EntryWritten
<1>5. bPc'[b] = "idle" /\ bUrl'[b] = 0
  BY <1>1, <1>2 DEF TypesAt
<1>6. Others(b)
  BY <1>1, <1>2, <1>4 DEF Others, TypesAt, GivenTypes, Steps
<1>7. BusyAt(b)'
  BY <1>1, <1>2, <1>4, <1>5 DEF BusyAt, TypesAt, Inserting, Storing
<1>8. ListedAt(b)'
  BY <1>1, <1>2, <1>3, <1>4, <1>5 DEF ListedAt, TypesAt, Written
<1>9. Layout'
  BY <1>2, <1>4, <1>5, <1>6, <1>7, <1>8, StepInBin DEF Storing, Written
<1>10. QED
  BY <1>3, <1>4, <1>6, <1>9

LEMMA GetUrlLayout ==
  ASSUME Layout, NEW b \in FileBins, Files!Next, lost # "making", Files!GetUrl(b)
  PROVE  Layout' /\ Others(b)
<1>1. TypesAt(b)
  BY LayoutOfBin
<1>2. /\ bPc[b] = "idle" /\ bPc' = [bPc EXCEPT ![b] = "get"]
      /\ UNCHANGED <<urlStore, entries, cursor, filter, bUrl, bAt>>
      /\ UNCHANGED <<took, returned, dropped, crashes, lost>>
  BY DEF Files!GetUrl, Files!Goto, Files!files
<1>3. bPc'[b] = "get"
  BY <1>1, <1>2 DEF TypesAt
<1>4. Others(b)
  BY <1>1, <1>2 DEF Others, TypesAt, GivenTypes, Steps
<1>5. BusyAt(b)'
  BY <1>1, <1>2, <1>3 DEF BusyAt, TypesAt, Inserting, Storing
<1>6. ListedAt(b)'
  BY <1>1, <1>2, <1>3 DEF ListedAt, TypesAt
<1>7. QED
  BY <1>2, <1>3, <1>4, <1>5, <1>6, StepInBin DEF Storing

(* getUrl hands over what it has.                                          *)
LEMMA ReturnGives ==
  ASSUME GivenTypes, NEW b \in FileBins, Files!Return(b)
  PROVE  GivenTypes' /\ \A u \in FileUrls : Given(u)' = Given(u)
<1>1. /\ returned' = [u \in FileUrls |->
                        IF FileBinOf[u] = b THEN returned[u] + took[u] ELSE returned[u]]
      /\ took' = [u \in FileUrls |-> IF FileBinOf[u] = b THEN 0 ELSE took[u]]
      /\ dropped' = dropped
  BY DEF Files!Return
<1>2. \A u \in FileUrls : took[u] \in Nat /\ returned[u] \in Nat /\ dropped[u] \in Nat
  BY DEF GivenTypes
<1>3. GivenTypes'
  BY <1>1, <1>2 DEF GivenTypes
<1>4. ASSUME NEW u \in FileUrls
      PROVE  Given(u)' = Given(u)
  <2>1. Given(u)' = took'[u] + returned'[u] + dropped[u]
    BY <1>1 DEF Given
  <2>2. \/ took'[u] = 0 /\ returned'[u] = returned[u] + took[u]
        \/ took'[u] = took[u] /\ returned'[u] = returned[u]
    BY <1>1
  <2>3. QED
    BY <1>2, <2>1, <2>2 DEF Given
<1>5. QED
  BY <1>3, <1>4

LEMMA ReturnLayout ==
  ASSUME Layout, NEW b \in FileBins, Files!Next, lost # "making", Files!Return(b)
  PROVE  Layout' /\ Others(b)
<1>1. TypesAt(b)
  BY LayoutOfBin
<1>2. /\ bPc[b] = "get" /\ bPc' = [bPc EXCEPT ![b] = "idle"]
      /\ UNCHANGED <<urlStore, entries, cursor, filter, bUrl, bAt, crashes, lost>>
  BY DEF Files!Return, Files!Goto, Files!files
<1>3. bPc'[b] = "idle"
  BY <1>1, <1>2 DEF TypesAt
<1>4. Others(b)
  BY <1>1, <1>2, ReturnGives DEF Others, TypesAt, Steps
<1>5. BusyAt(b)'
  BY <1>1, <1>2, <1>3 DEF BusyAt, TypesAt, Inserting, Storing
<1>6. ListedAt(b)'
  BY <1>1, <1>2, <1>3 DEF ListedAt, TypesAt
<1>7. QED
  BY <1>2, <1>3, <1>4, <1>5, <1>6, StepInBin DEF Storing

LEMMA PickLayout ==
  ASSUME Layout, NEW b \in FileBins, Files!Next, lost # "making",
         NEW i \in Nat, Files!Pick(b, i)
  PROVE  /\ Layout' /\ Others(b)
         /\ i \in 1 .. cursor[b] /\ i \in DOMAIN entries[b] /\ bAt'[b] = i
         /\ \A u \in FileUrls :
              Given(u)' = Given(u) + (IF Full(urlStore, entries[b][i], u) THEN 1 ELSE 0)
<1>1. TypesAt(b)
  BY LayoutOfBin
<1>2. /\ bPc[b] = "get" /\ i \in 1 .. cursor[b]
      /\ took' = [u \in FileUrls |-> took[u] +
                    (IF Files!Names(urlStore, entries[b][i], u) THEN 1 ELSE 0)]
      /\ bAt' = [bAt EXCEPT ![b] = i] /\ bPc' = [bPc EXCEPT ![b] = "overwrite"]
      /\ UNCHANGED <<urlStore, entries, cursor, filter, bUrl, returned, dropped, crashes, lost>>
  BY DEF Files!Pick, Files!Goto, Files!files
<1>3. bAt'[b] = i /\ bPc'[b] = "overwrite" /\ i \in DOMAIN entries[b]
  BY <1>1, <1>2 DEF TypesAt, TypesOf
<1>4. \A u \in FileUrls :
        Given(u)' = Given(u) + (IF Full(urlStore, entries[b][i], u) THEN 1 ELSE 0)
  <2> SUFFICES ASSUME NEW u \in FileUrls
               PROVE  Given(u)' = Given(u) + (IF Full(urlStore, entries[b][i], u) THEN 1 ELSE 0)
    OBVIOUS
  <2>1. took'[u] = took[u] + (IF Full(urlStore, entries[b][i], u) THEN 1 ELSE 0)
    BY <1>2, <1>3, EntryNames
  <2>2. took[u] \in Nat /\ returned[u] \in Nat /\ dropped[u] \in Nat
    BY <1>1 DEF TypesAt, GivenTypes
  <2>3. Given(u)' = took'[u] + returned[u] + dropped[u]
    BY <1>2 DEF Given
  <2>4. QED
    BY <2>1, <2>2, <2>3 DEF Given
<1>5. Others(b)
  <2>1. took' \in [FileUrls -> Nat]
    <3>1. \A u \in FileUrls : took[u] \in Nat
      BY <1>1 DEF TypesAt, GivenTypes
    <3>2. QED
      BY <1>2, <3>1
  <2>2. QED
    BY <1>1, <1>2, <2>1 DEF Others, TypesAt, GivenTypes, Steps
<1>6. BusyAt(b)'
  BY <1>1, <1>2, <1>3 DEF BusyAt, TypesAt, Inserting, Storing
<1>7. ListedAt(b)'
  BY <1>1, <1>2, <1>3 DEF ListedAt, TypesAt
<1>8. Layout'
  BY <1>2, <1>3, <1>5, <1>6, <1>7, StepInBin DEF Storing
<1>9. QED
  BY <1>2, <1>3, <1>4, <1>5, <1>8

LEMMA OverwriteLayout ==
  ASSUME Layout, NEW b \in FileBins, Files!Next, lost # "making", Files!Overwrite(b)
  PROVE  /\ Layout' /\ Others(b)
         /\ bAt[b] \in 1 .. cursor[b] /\ cursor[b] \in DOMAIN entries[b]
         /\ Written(b, bAt[b], entries[b][cursor[b]])
<1>1. TypesAt(b)
  BY LayoutOfBin
<1>2. /\ bPc[b] = "overwrite"
      /\ entries' = [entries EXCEPT ![b][bAt[b]] = entries[b][cursor[b]]]
      /\ bAt' = [bAt EXCEPT ![b] = 0] /\ bPc' = [bPc EXCEPT ![b] = "pop"]
      /\ UNCHANGED <<urlStore, cursor, filter, bUrl, took, returned, dropped, crashes, lost>>
  BY DEF Files!Overwrite, Files!getting, Files!Goto
<1>3. /\ bAt[b] \in 1 .. cursor[b] /\ cursor[b] > 0 /\ cursor[b] \in DOMAIN entries[b]
      /\ entries[b][cursor[b]] \in Nat
  BY <1>1, <1>2 DEF TypesAt, TypesOf, BusyAt
<1>4. /\ Written(b, bAt[b], entries[b][cursor[b]]) /\ Len(entries'[b]) = Len(entries[b])
      /\ entries' \in [FileBins -> Seq(Nat)] /\ \A c \in FileBins \ {b} : entries'[c] = entries[c]
  BY <1>1, <1>2, <1>3, EntryWritten
<1>5. bPc'[b] = "pop"
  BY <1>1, <1>2 DEF TypesAt
<1>6. Others(b)
  BY <1>1, <1>2, <1>4 DEF Others, TypesAt, GivenTypes, Steps
<1>7. BusyAt(b)'
  BY <1>1, <1>2, <1>3, <1>4, <1>5 DEF BusyAt, TypesAt, Inserting, Storing
<1>8. ListedAt(b)'
  BY <1>1, <1>2, <1>3, <1>4, <1>5 DEF ListedAt, TypesAt, Written
<1>9. Layout'
  BY <1>2, <1>3, <1>4, <1>5, <1>6, <1>7, <1>8, StepInBin DEF Storing, Written
<1>10. QED
  BY <1>3, <1>4, <1>6, <1>9

LEMMA PopBackLayout ==
  ASSUME Layout, NEW b \in FileBins, Files!Next, lost # "making", Files!PopBack(b)
  PROVE  Layout' /\ Others(b) /\ cursor[b] > 0 /\ cursor'[b] = cursor[b] - 1
<1>1. TypesAt(b)
  BY LayoutOfBin
<1>2. /\ bPc[b] = "pop" /\ cursor' = [cursor EXCEPT ![b] = @ - 1]
      /\ bPc' = [bPc EXCEPT ![b] = "get"]
      /\ UNCHANGED <<urlStore, entries, filter, bUrl, bAt, took, returned, dropped, crashes, lost>>
  BY DEF Files!PopBack, Files!getting, Files!Goto
<1>3. cursor[b] \in Nat /\ cursor[b] > 0 /\ cursor[b] <= Len(entries[b])
  BY <1>1, <1>2 DEF TypesAt, TypesOf, BusyAt
<1>4. cursor'[b] = cursor[b] - 1 /\ bPc'[b] = "get"
  BY <1>1, <1>2 DEF TypesAt
<1>5. Others(b)
  <2>1. cursor' \in [FileBins -> Nat] /\ \A c \in FileBins \ {b} : cursor'[c] = cursor[c]
    BY <1>1, <1>2, <1>3 DEF TypesAt
  <2>2. QED
    BY <1>1, <1>2, <2>1 DEF Others, TypesAt, GivenTypes, Steps
<1>6. BusyAt(b)'
  BY <1>1, <1>2, <1>3, <1>4 DEF BusyAt, TypesAt, TypesOf, Inserting, Storing
<1>7. ListedAt(b)'
  BY <1>1, <1>2, <1>4 DEF ListedAt, TypesAt
<1>8. Layout'
  BY <1>2, <1>4, <1>5, <1>6, <1>7, StepInBin DEF Storing
<1>9. QED
  BY <1>3, <1>4, <1>5, <1>8

(* Entries stay good when nothing but the store changes for a bin.         *)
LEMMA ListedStays ==
  ASSUME Layout, Files!Next, NEW c \in FileBins, entries'[c] = entries[c],
         crashes' \in Nat, crashes' >= crashes,
         bPc[c] = "fill" => crashes' > 0 \/ (bPc'[c] = "fill" /\ cursor'[c] = cursor[c])
  PROVE  ListedAt(c)'
<1> SUFFICES ASSUME NEW i \in DOMAIN entries[c]
             PROVE  \/ \E u \in Own(c) : Full(urlStore', entries[c][i], u)
                    \/ /\ entries[c][i] = 0
                       /\ crashes' > 0 \/ (bPc'[c] = "fill" /\ i = cursor'[c])
  BY DEF ListedAt
<1>1. ListedAt(c) /\ crashes \in Nat
  BY DEF Layout, Listed, FileTypes
<1>2. CASE \E u \in Own(c) : Full(urlStore, entries[c][i], u)
  BY <1>2, EntryStays DEF Own
<1>3. CASE entries[c][i] = 0 /\ (crashes > 0 \/ (bPc[c] = "fill" /\ i = cursor[c]))
  BY <1>1, <1>3
<1>4. QED
  BY <1>1, <1>2, <1>3 DEF ListedAt

(* What a bin that is not the one copying has in the store stays.          *)
LEMMA BusyStays ==
  ASSUME Layout, Files!Next, NEW c \in FileBins, urlStore' \in Seq(Nat),
         entries'[c] = entries[c], cursor'[c] = cursor[c], bPc'[c] = bPc[c],
         bUrl'[c] = bUrl[c], bAt'[c] = bAt[c], filter'[c] = filter[c],
         Len(urlStore') >= Len(urlStore),
         bPc[c] \in Storing => /\ Elsewhere(bAt[c]) \/ bPc[c] = "copy"
                               /\ \A j \in bAt[c] + 1 .. bAt[c] + 3 : urlStore'[j] = urlStore[j]
  PROVE  BusyAt(c)'
<1>1. BusyAt(c) /\ bAt[c] \in Nat /\ bUrl[c] \in FileUrls \cup {0}
  BY DEF Layout, Busy, FileTypes
<1>2. bPc[c] \in {"push", "fill"} => Full(urlStore', bAt[c], bUrl[c])
  <2> SUFFICES ASSUME bPc[c] \in {"push", "fill"}
               PROVE  Full(urlStore', bAt[c], bUrl[c])
    OBVIOUS
  <2>1. Elsewhere(bAt[c]) /\ Full(urlStore, bAt[c], bUrl[c]) /\ bUrl[c] \in FileUrls
    BY <1>1 DEF Storing, BusyAt, Inserting, Own
  <2>2. QED
    BY <1>1, <2>1, FullStays
<1>3. /\ bPc[c] \in Storing => bAt[c] + 3 <= Len(urlStore') /\ urlStore'[bAt[c] + 3] = 0
      /\ bPc[c] = "copy" =>
           urlStore'[bAt[c] + 1] \in {0, 2 * bUrl[c]} /\ urlStore'[bAt[c] + 2] = 0
  <2> SUFFICES ASSUME bPc[c] \in Storing
               PROVE  /\ bAt[c] + 3 <= Len(urlStore') /\ urlStore'[bAt[c] + 3] = 0
                      /\ bPc[c] = "copy" =>
                           urlStore'[bAt[c] + 1] \in {0, 2 * bUrl[c]} /\ urlStore'[bAt[c] + 2] = 0
    BY DEF Storing
  <2>1. /\ urlStore'[bAt[c] + 1] = urlStore[bAt[c] + 1] /\ urlStore'[bAt[c] + 2] = urlStore[bAt[c] + 2]
        /\ urlStore'[bAt[c] + 3] = urlStore[bAt[c] + 3]
    <3>1. \A j \in bAt[c] + 1 .. bAt[c] + 3 : urlStore'[j] = urlStore[j]
      OBVIOUS
    <3>2. {bAt[c] + 1, bAt[c] + 2, bAt[c] + 3} \subseteq bAt[c] + 1 .. bAt[c] + 3
      BY <1>1
    <3>3. QED
      BY <3>1, <3>2
  <2>2. urlStore \in Seq(Nat)
    BY DEF Layout, FileTypes
  <2>3. QED
    BY <1>1, <2>1, <2>2 DEF BusyAt
<1>4. Files!Unset(bUrl[c], c)' = Files!Unset(bUrl[c], c)
  BY DEF Files!Unset
<1>5. QED
  BY <1>1, <1>2, <1>3, <1>4 DEF BusyAt

LEMMA ReserveLayout ==
  ASSUME Layout, NEW b \in FileBins, Files!Next, lost # "making", Files!Reserve(b)
  PROVE  Layout' /\ Others(b)
<1>1. TypesAt(b) /\ urlStore \in Seq(Nat) /\ Len(urlStore) >= 2 /\ urlStore[1] = 1
  BY LayoutOfBin DEF Layout, FileTypes
<1> DEFINE n == Len(urlStore)
<1>2. /\ bPc[b] = "reserve" /\ bAt' = [bAt EXCEPT ![b] = n] /\ urlStore' = urlStore \o <<0, 0, 0>>
      /\ bPc' = [bPc EXCEPT ![b] = "copy"]
      /\ UNCHANGED <<entries, cursor, filter, bUrl, took, returned, dropped, crashes, lost>>
  BY DEF Files!Reserve, Files!getting, Files!Goto
<1>3. bAt'[b] = n /\ bPc'[b] = "copy" /\ n \in Nat /\ n >= 2
  BY <1>1, <1>2 DEF TypesAt
<1>4. /\ urlStore' \in Seq(Nat) /\ Len(urlStore') = n + 3 /\ urlStore'[1] = 1
      /\ \A j \in 1 .. n : urlStore'[j] = urlStore[j]
      /\ urlStore'[n + 1] = 0 /\ urlStore'[n + 2] = 0 /\ urlStore'[n + 3] = 0
  BY <1>1, <1>2
<1>5. Others(b)
  BY <1>1, <1>2, <1>3 DEF Others, TypesAt, GivenTypes, Steps
<1>6. ASSUME NEW c \in FileBins
      PROVE  ListedAt(c)'
  <2>1. crashes' \in Nat /\ crashes' >= crashes /\ (bPc[c] = "fill" => bPc'[c] = "fill")
    BY <1>2, <1>5 DEF Others, Layout, FileTypes
  <2>2. QED
    BY <1>2, <2>1, ListedStays DEF Layout, FileTypes
<1>7. ASSUME NEW c \in FileBins \ {b}
      PROVE  BusyAt(c)'
  <2>1. /\ entries'[c] = entries[c] /\ cursor'[c] = cursor[c] /\ bPc'[c] = bPc[c]
        /\ bUrl'[c] = bUrl[c] /\ bAt'[c] = bAt[c] /\ filter'[c] = filter[c]
    BY <1>5 DEF Others
  <2>2. ASSUME bPc[c] \in Storing
        PROVE  /\ Elsewhere(bAt[c]) \/ bPc[c] = "copy"
               /\ \A j \in bAt[c] + 1 .. bAt[c] + 3 : urlStore'[j] = urlStore[j]
    <3>1. bAt[c] + 3 <= n /\ bAt[c] \in Nat
      BY <2>2 DEF Layout, Busy, BusyAt, FileTypes
    <3>2. Elsewhere(bAt[c]) \/ bPc[c] = "copy"
      BY <2>2 DEF Layout, Apart, Elsewhere
    <3>3. ASSUME NEW j \in bAt[c] + 1 .. bAt[c] + 3
          PROVE  urlStore'[j] = urlStore[j]
      <4>1. j \in 1 .. n
        BY <1>1, <3>1
      <4>2. QED
        BY <1>4, <4>1
    <3>4. QED
      BY <3>2, <3>3
  <2>3. QED
    BY <1>1, <1>4, <2>1, <2>2, BusyStays
<1>8. BusyAt(b)'
  <2>1. BusyAt(b) /\ bAt'[b] + 3 <= Len(urlStore') /\ urlStore'[bAt'[b] + 3] = 0
        /\ urlStore'[bAt'[b] + 1] = 0 /\ urlStore'[bAt'[b] + 2] = 0
    BY <1>1, <1>3, <1>4 DEF TypesAt
  <2>2. QED
    BY <1>2, <1>3, <2>1 DEF BusyAt, Inserting, Storing
<1>9. Apart'
  <2> SUFFICES ASSUME NEW c \in FileBins, bPc'[c] = "copy"
               PROVE  /\ \A d \in FileBins \ {c} : bPc'[d] \in Storing => Beside(bAt'[c], bAt'[d])
                      /\ \A d \in FileBins : \A i \in DOMAIN entries'[d] :
                           entries'[d][i] = 0 \/ Beside(bAt'[c], entries'[d][i])
    BY DEF Apart
  <2>1. \A d \in FileBins : bPc[d] \in Storing => bAt[d] \in Nat /\ bAt[d] + 3 <= n
    BY DEF Layout, Busy, BusyAt, FileTypes
  <2>2. \A d \in FileBins : \A i \in DOMAIN entries[d] :
          entries[d][i] \in Nat /\ (entries[d][i] = 0 \/ entries[d][i] + 3 <= n)
    <3> SUFFICES ASSUME NEW d \in FileBins, NEW i \in DOMAIN entries[d]
                 PROVE  entries[d][i] \in Nat /\ (entries[d][i] = 0 \/ entries[d][i] + 3 <= n)
      OBVIOUS
    <3>1. ListedAt(d) /\ entries[d][i] \in Nat
      BY EntriesElsewhere DEF Layout, Listed
    <3>2. QED
      BY <3>1 DEF ListedAt, Full
  <2>3. CASE c = b
    <3>1. \A d \in FileBins \ {b} : bPc'[d] = bPc[d] /\ bAt'[d] = bAt[d]
      BY <1>5 DEF Others
    <3>2. QED
      BY <1>2, <1>3, <2>1, <2>2, <2>3, <3>1 DEF Beside
  <2>4. CASE c # b
    <3>1. bPc[c] = "copy" /\ bAt'[c] = bAt[c] /\ bAt[c] \in Nat /\ bAt[c] + 3 <= n
      BY <1>5, <2>1, <2>4 DEF Others, Storing
    <3>2. /\ \A d \in FileBins \ {c} : bPc[d] \in Storing => Beside(bAt[c], bAt[d])
          /\ \A d \in FileBins : \A i \in DOMAIN entries[d] :
               entries[d][i] = 0 \/ Beside(bAt[c], entries[d][i])
      BY <3>1 DEF Layout, Apart
    <3>3. ASSUME NEW d \in FileBins \ {c}, bPc'[d] \in Storing
          PROVE  Beside(bAt'[c], bAt'[d])
      <4>1. CASE d = b
        BY <1>3, <3>1, <4>1 DEF Beside
      <4>2. CASE d # b
        <5>1. bPc'[d] = bPc[d] /\ bAt'[d] = bAt[d]
          BY <1>5, <4>2 DEF Others
        <5>2. QED
          BY <3>1, <3>2, <3>3, <5>1
      <4>3. QED
        BY <4>1, <4>2
    <3>4. QED
      BY <1>2, <3>1, <3>2, <3>3
  <2>5. QED
    BY <2>3, <2>4
<1>10. FileTypes'
  BY <1>1, <1>2, <1>4, <1>5 DEF Layout, FileTypes, Others
<1>11. Resting' /\ Busy' /\ Listed'
  BY <1>5, <1>6, <1>7, <1>8 DEF Resting, Others, Busy, Listed
<1>12. QED
  BY <1>5, <1>9, <1>10, <1>11 DEF Layout

LEMMA CopyLayout ==
  ASSUME Layout, NEW b \in FileBins, Files!Next, lost # "making", Files!Copy(b)
  PROVE  Layout' /\ Others(b)
<1>1. TypesAt(b) /\ urlStore \in Seq(Nat) /\ Len(urlStore) >= 2 /\ urlStore[1] = 1
  BY LayoutOfBin DEF Layout, FileTypes
<1> DEFINE u == bUrl[b]
           o == bAt[b]
<1>2. /\ bPc[b] = "copy" /\ UNCHANGED <<entries, cursor, filter, bUrl, bAt, took, returned, dropped, crashes, lost>>
  BY DEF Files!Copy, Files!getting
<1>3. /\ u \in Own(b) /\ u \in Nat \ {0} /\ o \in Nat /\ o > 0
      /\ o + 3 <= Len(urlStore) /\ urlStore[o + 3] = 0
  BY CopyWrites
<1>4. PICK w \in {o + 1, o + 2}, x \in Nat : urlStore' = [urlStore EXCEPT ![w] = x]
  BY <1>3, CopyWrites
<1>5. /\ urlStore' \in Seq(Nat) /\ Len(urlStore') = Len(urlStore) /\ urlStore'[1] = 1
      /\ \A j \in 1 .. Len(urlStore) : j # w => urlStore'[j] = urlStore[j]
  <2>1. w \in Nat /\ 1 < w /\ w <= Len(urlStore)
    BY <1>1, <1>3, SMTT(30)
  <2>2. QED
    BY <1>1, <1>4, <2>1
<1>6. bPc' \in [FileBins -> Steps] /\ bPc'[b] \in {"copy", "push"}
      /\ \A c \in FileBins \ {b} : bPc'[c] = bPc[c]
  <2>1. bPc' = [bPc EXCEPT ![b] = "copy"] \/ bPc' = [bPc EXCEPT ![b] = "push"]
    BY CopyWrites
  <2>2. QED
    BY <1>1, <2>1 DEF TypesAt, Steps
<1>7. Others(b)
  BY <1>1, <1>2, <1>6 DEF Others, TypesAt, GivenTypes
<1>8. ASSUME NEW c \in FileBins
      PROVE  ListedAt(c)'
  <2>1. crashes' \in Nat /\ crashes' >= crashes /\ (bPc[c] = "fill" => bPc'[c] = "fill")
    BY <1>2, <1>6 DEF Layout, FileTypes
  <2>2. QED
    BY <1>2, <2>1, ListedStays DEF Layout, FileTypes
<1>9. ASSUME NEW c \in FileBins \ {b}
      PROVE  BusyAt(c)'
  <2>1. ASSUME bPc[c] \in Storing
        PROVE  /\ Elsewhere(bAt[c]) \/ bPc[c] = "copy"
               /\ \A j \in bAt[c] + 1 .. bAt[c] + 3 : urlStore'[j] = urlStore[j]
    <3>1. bAt[c] + 3 <= Len(urlStore) /\ bAt[c] \in Nat
      BY <2>1 DEF Layout, Busy, BusyAt, FileTypes
    <3>2. Elsewhere(bAt[c]) \/ bPc[c] = "copy"
      BY <2>1 DEF Layout, Apart, Elsewhere
    <3>3. Beside(o, bAt[c])
      BY <1>2, <2>1 DEF Layout, Apart
    <3>4. ASSUME NEW j \in bAt[c] + 1 .. bAt[c] + 3
          PROVE  urlStore'[j] = urlStore[j]
      <4>1. j \in 1 .. Len(urlStore) /\ j # w
        <5>1. o + 3 <= bAt[c] \/ bAt[c] + 3 <= o
          BY <3>3 DEF Beside
        <5>2. w = o + 1 \/ w = o + 2
          OBVIOUS
        <5>3. j \in Int /\ bAt[c] + 1 <= j /\ j <= bAt[c] + 3 /\ o \in Nat /\ Len(urlStore) \in Nat
          BY <1>1, <1>3, <3>1
        <5> HIDE DEF o
        <5>4. QED
          BY <3>1, <5>1, <5>2, <5>3
      <4>2. QED
        BY <1>5, <4>1
    <3>5. QED
      BY <3>2, <3>4
  <2>2. Len(urlStore') >= Len(urlStore)
    BY <1>1, <1>5
  <2>3. QED
    BY <1>2, <1>5, <1>6, <2>1, <2>2, BusyStays
<1>10. BusyAt(b)'
  <2>1. BusyAt(b) /\ urlStore'[o + 3] = 0
    <3>1. o + 3 \in 1 .. Len(urlStore) /\ o + 3 # w
      BY <1>1, <1>3, SMTT(30)
    <3>2. QED
      BY <1>1, <1>3, <1>5, <3>1 DEF TypesAt
  <2>2. \/ bPc'[b] = "copy" /\ urlStore'[o + 1] = 2 * u /\ urlStore'[o + 2] = 0
        \/ bPc'[b] = "push" /\ urlStore'[o + 1] = 2 * u /\ urlStore'[o + 2] = 2 * u + 1
    <3>1. CASE /\ urlStore[o + 1] = 0 /\ urlStore[o + 2] = 0
               /\ urlStore' = [urlStore EXCEPT ![o + 1] = 2 * u]
               /\ bPc' = [bPc EXCEPT ![b] = "copy"]
      <4>1. o + 1 \in 1 .. Len(urlStore) /\ o + 2 \in 1 .. Len(urlStore) /\ o + 1 # o + 2
        <5>1. o \in Nat /\ Len(urlStore) \in Nat /\ o + 3 <= Len(urlStore)
          BY <1>1, <1>3
        <5> HIDE DEF o
        <5>2. QED
          BY <5>1
      <4>2. bPc'[b] = "copy" /\ urlStore'[o + 1] = 2 * u /\ urlStore'[o + 2] = 0
        BY <1>1, <3>1, <4>1, SMTT(30) DEF TypesAt
      <4>3. QED
        BY <4>2
    <3>2. CASE /\ urlStore[o + 1] = 2 * u /\ urlStore[o + 2] = 0
               /\ urlStore' = [urlStore EXCEPT ![o + 2] = 2 * u + 1]
               /\ bPc' = [bPc EXCEPT ![b] = "push"]
      <4>1. o + 1 \in 1 .. Len(urlStore) /\ o + 2 \in 1 .. Len(urlStore) /\ o + 1 # o + 2
        <5>1. o \in Nat /\ Len(urlStore) \in Nat /\ o + 3 <= Len(urlStore)
          BY <1>1, <1>3
        <5> HIDE DEF o
        <5>2. QED
          BY <5>1
      <4>2. bPc'[b] = "push" /\ urlStore'[o + 1] = 2 * u /\ urlStore'[o + 2] = 2 * u + 1
        BY <1>1, <3>2, <4>1 DEF TypesAt
      <4>3. QED
        BY <4>2
    <3>3. QED
      BY <3>1, <3>2, CopyWrites
  <2>3. bPc'[b] \in {"push", "fill"} => Full(urlStore', o, u)
    BY <1>3, <1>5, <2>1, <2>2 DEF Full
  <2>4. QED
    BY <1>2, <1>3, <1>5, <1>6, <2>1, <2>2, <2>3 DEF BusyAt, Inserting, Storing
<1>11. Apart'
  <2>1. \A c \in FileBins : bPc'[c] = "copy" => bPc[c] = "copy"
    BY <1>2, <1>6
  <2>2. \A c \in FileBins : bPc'[c] \in Storing => bPc[c] \in Storing
    BY <1>2, <1>6 DEF Storing
  <2>3. QED
    BY <1>2, <2>1, <2>2 DEF Layout, Apart
<1>12. FileTypes'
  BY <1>2, <1>5, <1>7 DEF Layout, FileTypes, Others
<1>13. Resting' /\ Busy' /\ Listed'
  BY <1>7, <1>8, <1>9, <1>10 DEF Resting, Others, Busy, Listed
<1>14. QED
  BY <1>7, <1>11, <1>12, <1>13 DEF Layout

LEMMA CrashLayout ==
  ASSUME Layout, Files!Next, NEW removed \in BOOLEAN, Files!Crash(removed)
  PROVE  Layout'
<1>1. FileTypes
  BY DEF Layout
<1>2. /\ crashes' = crashes + 1 /\ urlStore' = urlStore \o <<1, 0>>
      /\ bPc' = [c \in FileBins |-> "idle"] /\ bUrl' = [c \in FileBins |-> 0]
      /\ bAt' = [c \in FileBins |-> 0]
      /\ filter' = IF removed THEN [c \in FileBins |-> {}] ELSE filter
      /\ took' = [u \in FileUrls |-> 0] /\ dropped' = [u \in FileUrls |-> dropped[u] + took[u]]
      /\ UNCHANGED <<entries, cursor, returned>>
  BY DEF Files!Crash, Files!DummyChars
<1>3. urlStore' \in Seq(Nat) /\ Len(urlStore') >= 2 /\ urlStore'[1] = 1
  BY <1>1, <1>2 DEF FileTypes
<1>4. FileTypes'
  <2>1. \A u \in FileUrls : took[u] \in Nat /\ dropped[u] \in Nat
    BY <1>1 DEF FileTypes, GivenTypes
  <2>2. GivenTypes'
    BY <1>1, <1>2, <2>1 DEF FileTypes, GivenTypes
  <2>3. QED
    BY <1>1, <1>2, <1>3, <2>2 DEF FileTypes, Steps
<1>5. ASSUME NEW c \in FileBins
      PROVE  ListedAt(c)' /\ BusyAt(c)'
  <2>1. crashes' \in Nat /\ crashes' >= crashes /\ crashes' > 0
    BY <1>1, <1>2 DEF FileTypes
  <2>2. ListedAt(c)'
    BY <1>2, <2>1, ListedStays
  <2>3. BusyAt(c)'
    BY <1>1, <1>2 DEF Layout, Busy, BusyAt, Inserting, Storing
  <2>4. QED
    BY <2>2, <2>3
<1>6. Apart' /\ Resting'
  BY <1>2 DEF Apart, Resting
<1>7. QED
  BY <1>4, <1>5, <1>6 DEF Layout, Busy, Listed

(* Making the filters changes nothing but the filters.                     *)
LEMMA MakingLayout ==
  ASSUME Layout,
         \/ Files!MakeBloomFilter
         \/ (\E i \in Files!Segment : Files!AddSeen(i))
         \/ Files!FilterMade
  PROVE  Layout'
<1>1. /\ UNCHANGED <<urlStore, entries, cursor, bPc, bUrl, bAt, took, returned, dropped, crashes>>
      /\ \A c \in FileBins : bPc[c] = "idle"
  BY DEF Files!MakeBloomFilter, Files!AddSeen, Files!FilterMade, Files!files, Files!bins,
         Files!getting, Layout, Resting
<1>2. DOMAIN filter' = DOMAIN filter
  <2>1. CASE filter' = filter
    BY <2>1
  <2>2. ASSUME NEW i \in Files!Segment, Files!AddSeen(i)
        PROVE  DOMAIN filter' = DOMAIN filter
    BY <2>2 DEF Files!AddSeen
  <2>3. QED
    BY <2>1, <2>2 DEF Files!MakeBloomFilter, Files!FilterMade, Files!files
<1>3. FileTypes'
  BY <1>1, <1>2 DEF Layout, FileTypes, GivenTypes
<1>4. Busy'
  BY <1>1 DEF Layout, Busy, BusyAt, Inserting, Storing
<1>5. Listed'
  BY <1>1 DEF Layout, Listed, ListedAt
<1>6. Apart' /\ Resting'
  BY <1>1 DEF Apart, Resting
<1>7. QED
  BY <1>3, <1>4, <1>5, <1>6 DEF Layout

LEMMA LayoutInit ==
  ASSUME Files!Init
  PROVE  Layout
<1>1. /\ urlStore = <<1, 0>> /\ entries = [b \in FileBins |-> <<>>]
      /\ cursor = [b \in FileBins |-> 0] /\ filter = [b \in FileBins |-> {}]
      /\ bPc = [b \in FileBins |-> "idle"]
      /\ bUrl = [b \in FileBins |-> 0] /\ bAt = [b \in FileBins |-> 0]
      /\ took = [u \in FileUrls |-> 0] /\ returned = [u \in FileUrls |-> 0]
      /\ dropped = [u \in FileUrls |-> 0] /\ crashes = 0 /\ lost = "no"
  BY DEF Files!Init, Files!DummyChars
<1>2. FileTypes
  BY <1>1 DEF FileTypes, GivenTypes, Steps
<1>3. Busy /\ Listed
  BY <1>1 DEF Busy, BusyAt, Listed, ListedAt, Inserting, Storing
<1>4. Apart /\ Resting
  BY <1>1 DEF Apart, Resting
<1>5. QED
  BY <1>2, <1>3, <1>4 DEF Layout

BinLayout(b) == Layout' /\ Others(b)

LEMMA LayoutStep ==
  ASSUME Layout, Files!Next
  PROVE  Layout' /\ \A b \in FileBins : Files!Bin(b) => Others(b)
<1>1. ASSUME NEW b \in FileBins, Files!Bin(b)
      PROVE  BinLayout(b)
  <2>1. lost # "making"
    BY <1>1 DEF Files!Bin
  <2>2. ASSUME NEW u \in FileUrls, Files!TryInsert(b, u)
        PROVE  BinLayout(b)
    BY <2>1, <2>2, TryInsertLayout DEF BinLayout
  <2>3. CASE Files!SetBit(b)
    BY <2>1, <2>3, SetBitLayout DEF BinLayout
  <2>4. CASE Files!Reserve(b)
    BY <2>1, <2>4, ReserveLayout DEF BinLayout
  <2>5. CASE Files!Copy(b)
    BY <2>1, <2>5, CopyLayout DEF BinLayout
  <2>6. CASE Files!Push(b)
    BY <2>1, <2>6, PushLayout DEF BinLayout
  <2>7. CASE Files!Fill(b)
    BY <2>1, <2>7, FillLayout DEF BinLayout
  <2>8. ASSUME NEW i \in 1 .. MaxUrls, Files!Pick(b, i)
        PROVE  BinLayout(b)
    <3>1. i \in Nat
      BY FilesAssumption
    <3>2. QED
      BY <2>1, <2>8, <3>1, PickLayout DEF BinLayout
  <2>9. CASE Files!Overwrite(b)
    BY <2>1, <2>9, OverwriteLayout DEF BinLayout
  <2>10. CASE Files!PopBack(b)
    BY <2>1, <2>10, PopBackLayout DEF BinLayout
  <2>11. CASE Files!GetUrl(b)
    BY <2>1, <2>11, GetUrlLayout DEF BinLayout
  <2>12. CASE Files!Return(b)
    BY <2>1, <2>12, ReturnLayout DEF BinLayout
  <2>13. QED
    BY <1>1, <2>2, <2>3, <2>4, <2>5, <2>6, <2>7, <2>8, <2>9, <2>10, <2>11, <2>12, Zenon
    DEF Files!Bin
<1>2. ASSUME NEW removed \in BOOLEAN, Files!Crash(removed)
      PROVE  Layout'
  BY <1>2, CrashLayout
<1>3. QED
  BY <1>1, <1>2, MakingLayout, Zenon DEF Files!Next, BinLayout

-----------------------------------------------------------------------------
(* Costs                                                                   *)

(* Sets that lose elements, or get one more                                *)
LEMMA AtMostFewer ==
  ASSUME NEW n \in Nat, NEW S, NEW T, AtMost(S, n), T \subseteq S
  PROVE  AtMost(T, n)
<1>1. IsFiniteSet(T) /\ Cardinality(T) <= Cardinality(S)
  BY FS_Subset DEF AtMost
<1>2. Cardinality(S) \in Nat /\ Cardinality(T) \in Nat
  BY <1>1, FS_CardinalityType DEF AtMost
<1>3. QED
  BY <1>1, <1>2 DEF AtMost

LEMMA AtMostOneMore ==
  ASSUME NEW n \in Nat, NEW S, NEW T, NEW x, AtMost(S, n), T \subseteq S \cup {x}
  PROVE  AtMost(T, n + 1)
<1> DEFINE U == S \cup {x}
<1>1. IsFiniteSet(U) /\ (Cardinality(U) = Cardinality(S) \/ Cardinality(U) = Cardinality(S) + 1)
  BY FS_AddElement DEF AtMost
<1>2. Cardinality(S) \in Nat
  BY FS_CardinalityType DEF AtMost
<1>3. Cardinality(U) <= n + 1
  BY <1>1, <1>2 DEF AtMost
<1>4. AtMost(U, n + 1)
  BY <1>1, <1>3 DEF AtMost
<1> HIDE DEF U
<1>5. T \subseteq U
  BY DEF U
<1>6. QED
  BY <1>4, <1>5, AtMostFewer

(* The places of a URL are counted.                                        *)
LEMMA SomeOfInterval ==
  ASSUME NEW n \in Nat, NEW S, S \subseteq 1 .. n
  PROVE  IsFiniteSet(S) /\ Cardinality(S) \in Nat
<1>1. IsFiniteSet(1 .. n)
  BY FS_Interval
<1>2. QED
  BY <1>1, FS_Subset, FS_CardinalityType

LEMMA BinOfUrl ==
  ASSUME NEW u \in FileUrls
  PROVE  /\ FileBinOf[u] \in FileBins /\ u \in Own(FileBinOf[u])
         /\ u \in Nat /\ u # 0 /\ DOMAIN FileBitsOf[u] = 1 .. numHashes
BY FilesAssumption DEF Own

LEMMA CountType ==
  ASSUME FileTypes, NEW u \in FileUrls
  PROVE  /\ IsFiniteSet(Places(u)) /\ Cardinality(Places(u)) \in Nat
         /\ Holding(u) \in {0, 1} /\ Count(u) \in Nat /\ Given(u) \in Nat
<1>1. cursor[FileBinOf[u]] \in Nat /\ Given(u) \in Nat
  BY BinOfUrl DEF FileTypes, GivenTypes, Given
<1>2. IsFiniteSet(Places(u)) /\ Cardinality(Places(u)) \in Nat
  BY <1>1, SomeOfInterval DEF Places
<1>3. QED
  BY <1>1, <1>2 DEF Holding, Count

LEMMA CountTypeAfter ==
  ASSUME FileTypes', NEW u \in FileUrls
  PROVE  /\ IsFiniteSet(Places(u)') /\ Cardinality(Places(u)') \in Nat /\ Count(u)' \in Nat
<1>1. cursor'[FileBinOf[u]] \in Nat /\ Given(u)' \in Nat
  BY BinOfUrl DEF FileTypes, GivenTypes, Given
<1>2. Places(u)' \subseteq 1 .. cursor'[FileBinOf[u]]
  BY DEF Places
<1>3. IsFiniteSet(Places(u)') /\ Cardinality(Places(u)') \in Nat
  BY <1>1, <1>2, SomeOfInterval
<1>4. Count(u)' = Given(u)' + Cardinality(Places(u)') + Holding(u)'
  BY DEF Count
<1>5. Holding(u)' \in {0, 1}
  BY DEF Holding
<1>6. QED
  BY <1>1, <1>3, <1>4, <1>5

(* An entry that stays names no other URL after a step.                    *)
LEMMA EntrySame ==
  ASSUME Layout, Files!Next, NEW b \in FileBins, NEW i \in DOMAIN entries[b], NEW u \in FileUrls
  PROVE  Full(urlStore', entries[b][i], u) <=> Full(urlStore, entries[b][i], u)
<1>1. Full(urlStore, entries[b][i], u) => Full(urlStore', entries[b][i], u)
  BY EntryStays
<1>2. ASSUME Full(urlStore', entries[b][i], u)
      PROVE  Full(urlStore, entries[b][i], u)
  <2>1. FileTypes'
    BY LayoutStep DEF Layout
  <2>2. urlStore'[1] = 1 /\ u \in Nat
    BY <2>1, BinOfUrl DEF FileTypes
  <2>3. entries[b][i] # 0
    BY <1>2, <2>2 DEF Full
  <2>4. PICK v \in FileUrls : Full(urlStore, entries[b][i], v)
    BY <2>3 DEF Layout, Listed, ListedAt, Own
  <2>5. Full(urlStore', entries[b][i], v)
    BY <2>4, EntryStays
  <2>6. QED
    BY <1>2, <2>4, <2>5, FullOnce
<1>3. QED
  BY <1>1, <1>2

(* What a step may do to a URL: it has no more places than before, or one; *)
(* it is missing only if it was; and the filter knows it if it has one.    *)
Pays(u) ==
  /\ Count(u)' <= Count(u) \/ Count(u)' <= 1
  /\ Marked(u)' /\ Lacking(u)' => Marked(u) /\ Lacking(u)
  /\ Placed(u)' => \A k \in 1 .. numHashes : FileBitsOf[u][k] \in filter'[FileBinOf[u]]

(* A step in which every URL pays for its own changes costs nothing.       *)
LEMMA CostsStep ==
  ASSUME Layout, FileTypes', Costs, crashes' = crashes, lost' = lost, \A u \in FileUrls : Pays(u)
  PROVE  Costs'
<1> SUFFICES ASSUME lost = "no"
             PROVE  /\ Known'
                    /\ \A b \in FileBins :
                         AtMost(Excess(b)', crashes) /\ AtMost(Missing(b)', crashes)
  BY DEF Costs
<1>1. \A b \in FileBins : AtMost(Excess(b), crashes) /\ AtMost(Missing(b), crashes)
  BY DEF Costs
<1>2. crashes \in Nat
  BY DEF Layout, FileTypes
<1>3. Known'
  BY DEF Known, Pays
<1>4. ASSUME NEW b \in FileBins
      PROVE  Excess(b)' \subseteq Excess(b)
  <2> SUFFICES ASSUME NEW e \in Own(b) \X Nat, 2 <= e[2], e[2] <= Count(e[1])'
               PROVE  e[2] <= Count(e[1])
    BY DEF Excess
  <2>1. e[1] \in FileUrls /\ e[2] \in Nat
    BY DEF Own
  <2>2. PICK u \in FileUrls : u = e[1]
    BY <2>1
  <2>3. Count(u) \in Nat /\ Count(u)' \in Nat
    BY CountType, CountTypeAfter DEF Layout
  <2>4. Count(u)' <= Count(u) \/ Count(u)' <= 1
    BY DEF Pays
  <2>5. e[2] <= Count(u)'
    BY <2>2
  <2>6. e[2] <= Count(u)
    BY <2>1, <2>3, <2>4, <2>5
  <2>7. QED
    BY <2>2, <2>6
<1>5. ASSUME NEW b \in FileBins
      PROVE  Missing(b)' \subseteq Missing(b)
  BY DEF Missing, Own, Pays
<1>6. QED
  BY <1>1, <1>2, <1>3, <1>4, <1>5, AtMostFewer

(* A step that leaves a bin alone leaves the places of its URLs.           *)
LEMMA PlacesSame ==
  ASSUME Layout, Files!Next, NEW u \in FileUrls, NEW b, b = FileBinOf[u],
         cursor'[b] = cursor[b], entries'[b] = entries[b], Gone(b)' = Gone(b)
  PROVE  Places(u)' = Places(u)
<1>1. b \in FileBins
  BY BinOfUrl
<1>2. \A i \in 1 .. cursor[b] : i \in DOMAIN entries[b]
  BY <1>1, TypesHere DEF TypesOf
<1>3. \A i \in 1 .. cursor[b] :
        Full(urlStore', entries[b][i], u) <=> Full(urlStore, entries[b][i], u)
  BY <1>1, <1>2, EntrySame
<1>4. Places(u)' = {i \in 1 .. cursor'[b] : i # Gone(b)' /\ Full(urlStore', entries'[b][i], u)}
  BY DEF Places
<1>5. Places(u) = {i \in 1 .. cursor[b] : i # Gone(b) /\ Full(urlStore, entries[b][i], u)}
  BY DEF Places
<1>6. QED
  BY <1>3, <1>4, <1>5

(* A URL is placed after a step only by what it had before, or is stored.  *)
LEMMA PlacedBefore ==
  ASSUME Layout, Files!Next, Known, NEW u \in FileUrls, NEW b, b = FileBinOf[u],
         filter[b] \subseteq filter'[b], Placed(u)',
         Given(u)' > 0 => Placed(u),
         \A i \in DOMAIN entries'[b] :
           Full(urlStore', entries'[b][i], u) =>
             \/ Placed(u)
             \/ \E j \in DOMAIN entries[b] : entries'[b][i] = entries[b][j],
         bUrl'[b] = u /\ bPc'[b] # "set" =>
           \/ Placed(u)
           \/ \A k \in 1 .. numHashes : FileBitsOf[u][k] \in filter'[b]
  PROVE  \A k \in 1 .. numHashes : FileBitsOf[u][k] \in filter'[FileBinOf[u]]
<1>1. b \in FileBins
  BY BinOfUrl
<1>2. CASE Placed(u)
  BY <1>2 DEF Known
<1>3. CASE ~Placed(u) /\ \E i \in DOMAIN entries'[b] : Full(urlStore', entries'[b][i], u)
  <2>1. PICK j \in DOMAIN entries[b] : Full(urlStore', entries[b][j], u)
    BY <1>3
  <2>2. Full(urlStore, entries[b][j], u)
    BY <1>1, <2>1, EntrySame
  <2>3. Placed(u)
    BY <2>2 DEF Placed
  <2>4. QED
    BY <1>3, <2>3
<1>4. CASE bUrl'[b] = u /\ bPc'[b] # "set"
  BY <1>2, <1>4
<1>5. CASE Given(u)' > 0
  BY <1>2, <1>5
<1>6. QED
  BY <1>2, <1>3, <1>4, <1>5 DEF Placed

(* A step that leaves the places of a URL alone                            *)
LEMMA PaysSame ==
  ASSUME Layout, Files!Next, Known, NEW u \in FileUrls, NEW b, b = FileBinOf[u],
         cursor'[b] = cursor[b], entries'[b] = entries[b], Gone(b)' = Gone(b),
         Given(u)' = Given(u), bUrl'[b] = bUrl[b], filter[b] \subseteq filter'[b],
         Marked(u)' => Marked(u) \/ bUrl[b] = u,
         bUrl[b] = u /\ bPc[b] = "set" /\ bPc'[b] # "set" =>
           \A k \in 1 .. numHashes : FileBitsOf[u][k] \in filter'[b]
  PROVE  Pays(u)
<1>1. Places(u)' = Places(u)
  BY PlacesSame
<1>2. Count(u) \in Nat
  BY CountType DEF Layout
<1>3. Count(u)' = Count(u)
  BY <1>1 DEF Count, Holding
<1>4. Marked(u)' /\ Lacking(u)' => Marked(u) /\ Lacking(u)
  BY <1>1 DEF Lacking
<1>5. ASSUME Placed(u)'
      PROVE  \A k \in 1 .. numHashes : FileBitsOf[u][k] \in filter'[FileBinOf[u]]
  <2>1. Given(u)' > 0 => Placed(u)
    BY DEF Placed
  <2>2. bUrl'[b] = u /\ bPc'[b] # "set" =>
          \/ Placed(u)
          \/ \A k \in 1 .. numHashes : FileBitsOf[u][k] \in filter'[b]
    BY DEF Placed
  <2>3. QED
    BY <1>5, <2>1, <2>2, PlacedBefore
<1>6. QED
  BY <1>2, <1>3, <1>4, <1>5 DEF Pays

(* The URLs of the other bins                                              *)
LEMMA PaysElsewhere ==
  ASSUME Layout, Files!Next, Known, NEW b \in FileBins, Others(b),
         NEW u \in FileUrls, FileBinOf[u] # b, Given(u)' = Given(u)
  PROVE  Pays(u)
<1> DEFINE c == FileBinOf[u]
<1>1. c \in FileBins \ {b}
  BY BinOfUrl
<1> HIDE DEF c
<1>2. /\ entries'[c] = entries[c] /\ cursor'[c] = cursor[c] /\ bPc'[c] = bPc[c]
      /\ bUrl'[c] = bUrl[c] /\ bAt'[c] = bAt[c] /\ filter'[c] = filter[c]
  BY <1>1 DEF Others
<1>3. Gone(c)' = Gone(c)
  BY <1>2 DEF Gone
<1>4. Marked(u)' => Marked(u)
  BY <1>2 DEF Marked, c
<1>5. QED
  BY <1>2, <1>3, <1>4, PaysSame DEF c

(* What a step of one bin costs: nothing                                   *)
CostsNothing == \A u \in FileUrls : Pays(u)

(* No action but a crash costs anything.                                   *)
LEMMA TryInsertCosts ==
  ASSUME Layout, Known, NEW b \in FileBins, Files!Next, lost # "making",
         NEW w \in FileUrls, Files!TryInsert(b, w)
  PROVE  CostsNothing
<1>1. Layout' /\ Others(b) /\ TypesAt(b)
  BY TryInsertLayout, LayoutOfBin
<1>2. /\ bPc[b] = "idle" /\ FileBinOf[w] = b /\ Files!Unset(w, b) # {}
      /\ bUrl'[b] = w /\ bPc'[b] = "set"
      /\ UNCHANGED <<urlStore, entries, cursor, filter, bAt, crashes, lost>>
      /\ \A v \in FileUrls : Given(v)' = Given(v)
  BY <1>1 DEF Files!TryInsert, Files!getting, Files!Goto, Files!files, TypesAt, Given
<1>3. bUrl[b] = 0 /\ Gone(b) = 0 /\ Gone(b)' = 0
  BY <1>1, <1>2 DEF TypesAt, BusyAt, Gone, Inserting
<1> SUFFICES ASSUME NEW u \in FileUrls
             PROVE  Pays(u)
  BY DEF CostsNothing
<1>4. CASE FileBinOf[u] # b
  BY <1>1, <1>2, <1>4, PaysElsewhere
<1>5. CASE FileBinOf[u] = b
  <2>1. u # 0 /\ Places(u)' = Places(u)
    BY <1>2, <1>3, <1>5, PlacesSame, BinOfUrl
  <2>2. Placed(u)' => Placed(u)
    <3>1. Placed(u)' => Given(u) > 0 \/ \E i \in DOMAIN entries[b] : Full(urlStore, entries[b][i], u)
      BY <1>2, <1>5 DEF Placed
    <3>2. QED
      BY <1>5, <3>1 DEF Placed
  <2>3. Placed(u)' => \A k \in 1 .. numHashes : FileBitsOf[u][k] \in filter'[FileBinOf[u]]
    BY <1>2, <2>2 DEF Known
  <2>4. CASE u # w
    <3>1. Holding(u)' = 0 /\ Holding(u) = 0 /\ (Lacking(u)' => Lacking(u))
      BY <1>2, <1>3, <1>5, <2>1, <2>4 DEF Holding, Lacking
    <3>2. Count(u)' = Count(u) /\ Count(u) \in Nat
      <4>1. Count(u)' = Count(u)
        BY <1>2, <2>1, <3>1 DEF Count
      <4>2. QED
        BY <4>1, CountType DEF Layout
    <3>3. Marked(u)' => Marked(u)
      BY <1>2 DEF Marked
    <3>4. Count(u)' <= Count(u) /\ (Marked(u)' /\ Lacking(u)' => Marked(u) /\ Lacking(u))
      BY <3>1, <3>2, <3>3
    <3>5. QED
      BY <2>3, <3>4 DEF Pays
  <2>5. CASE u = w
    <3>1. PICK k \in 1 .. numHashes : FileBitsOf[u][k] \notin filter[b]
      BY <1>2, <2>5, UnsetOf, BinOfUrl
    <3>2. ~Placed(u)
      BY <1>5, <3>1 DEF Known
    <3>3. Given(u) = 0
      BY <3>2, CountType DEF Placed, Layout
    <3>4. Places(u) = {}
      <4>1. \A i \in 1 .. cursor[b] : i \in DOMAIN entries[b]
        BY <1>1 DEF TypesAt, TypesOf
      <4>2. \A i \in DOMAIN entries[b] : ~Full(urlStore, entries[b][i], u)
        BY <1>5, <3>2 DEF Placed
      <4>3. QED
        BY <1>5, <4>1, <4>2 DEF Places
    <3>5. Count(u)' = 1
      <4>1. Holding(u)' = 1
        BY <1>2, <1>5, <2>5 DEF Holding
      <4>2. Places(u)' = {} /\ Cardinality({}) = 0 /\ Given(u)' = 0
        BY <1>2, <2>1, <3>3, <3>4, FS_EmptySet
      <4>3. QED
        BY <4>1, <4>2 DEF Count
    <3>6. ~Lacking(u)'
      BY <1>2, <1>5, <2>5 DEF Lacking
    <3>7. QED
      BY <2>3, <3>5, <3>6 DEF Pays
  <2>6. QED
    BY <2>4, <2>5
<1>6. QED
  BY <1>4, <1>5

LEMMA SetBitCosts ==
  ASSUME Layout, Known, NEW b \in FileBins, Files!Next, lost # "making", Files!SetBit(b)
  PROVE  CostsNothing
<1>1. Layout' /\ Others(b) /\ TypesAt(b)
  BY SetBitLayout, LayoutOfBin
<1> DEFINE w == bUrl[b]
<1>2. /\ bPc[b] = "set" /\ UNCHANGED <<urlStore, entries, cursor, bUrl, bAt, crashes, lost>>
      /\ \A v \in FileUrls : Given(v)' = Given(v)
  BY DEF Files!SetBit, Files!getting, Given
<1>3. bPc'[b] \in {"set", "reserve"}
  <2>1. bPc' = [bPc EXCEPT ![b] = "set"] \/ bPc' = [bPc EXCEPT ![b] = "reserve"]
    BY DEF Files!SetBit, Files!Goto
  <2>2. QED
    BY <1>1, <2>1 DEF TypesAt
<1>4. PICK k \in Files!Unset(w, b) :
        /\ filter'[b] = filter[b] \cup {FileBitsOf[w][k]}
        /\ bPc'[b] = "reserve" => \A l \in 1 .. numHashes : FileBitsOf[w][l] \in filter'[b]
  BY SetBitLayout
<1>5. w \in FileUrls /\ FileBinOf[w] = b
  BY <1>1, <1>2 DEF TypesAt, BusyAt, Inserting, Own
<1>6. k \in 1 .. numHashes
  BY <1>5, UnsetOf, BinOfUrl
<1>7. Gone(b)' = Gone(b)
  BY <1>2, <1>3 DEF Gone
<1> SUFFICES ASSUME NEW u \in FileUrls
             PROVE  Pays(u)
  BY DEF CostsNothing
<1>8. CASE FileBinOf[u] # b
  BY <1>1, <1>2, <1>8, PaysElsewhere
<1>9. CASE FileBinOf[u] = b
  <2>1. Marked(u)' => Marked(u) \/ w = u
    <3> SUFFICES ASSUME NEW l \in 1 .. numHashes, Files!Telling(u, l), FileBitsOf[u][l] \in filter'[b],
                        w # u
                 PROVE  FileBitsOf[u][l] \in filter[b]
      BY <1>9 DEF Marked
    <3>1. FileBitsOf[w][k] # FileBitsOf[u][l]
      BY <1>5, <1>6, <1>9, BinOfUrl DEF Files!Telling
    <3>2. QED
      BY <1>4, <3>1
  <2>2. filter[b] \subseteq filter'[b]
    BY <1>4
  <2>3. w = u /\ bPc'[b] # "set" => \A l \in 1 .. numHashes : FileBitsOf[u][l] \in filter'[b]
    BY <1>3, <1>4
  <2>4. QED
    BY <1>2, <1>7, <1>9, <2>1, <2>2, <2>3, PaysSame
<1>10. QED
  BY <1>8, <1>9

LEMMA StoreCosts ==
  ASSUME Layout, Known, NEW b \in FileBins, Files!Next, lost # "making",
         Files!Reserve(b) \/ Files!Copy(b)
  PROVE  CostsNothing
<1>1. Layout' /\ Others(b) /\ TypesAt(b)
  BY ReserveLayout, CopyLayout, LayoutOfBin
<1>2. /\ bPc[b] \in {"reserve", "copy"} /\ UNCHANGED <<entries, cursor, filter, bUrl>>
      /\ \A v \in FileUrls : Given(v)' = Given(v)
  BY DEF Files!Reserve, Files!Copy, Files!getting, Given
<1>3. bPc'[b] \in {"copy", "push"}
  <2>1. bPc' = [bPc EXCEPT ![b] = "copy"] \/ bPc' = [bPc EXCEPT ![b] = "push"]
    BY DEF Files!Reserve, Files!Copy, Files!Goto
  <2>2. QED
    BY <1>1, <2>1 DEF TypesAt
<1>4. Gone(b)' = Gone(b)
  BY <1>2, <1>3 DEF Gone
<1> SUFFICES ASSUME NEW u \in FileUrls
             PROVE  Pays(u)
  BY DEF CostsNothing
<1>5. CASE FileBinOf[u] # b
  BY <1>1, <1>2, <1>5, PaysElsewhere
<1>6. CASE FileBinOf[u] = b
  <2>1. Marked(u)' => Marked(u)
    BY <1>2 DEF Marked
  <2>2. QED
    BY <1>2, <1>4, <1>6, <2>1, PaysSame
<1>7. QED
  BY <1>5, <1>6

LEMMA PopBackCosts ==
  ASSUME Layout, Known, NEW b \in FileBins, Files!Next, lost # "making", Files!PopBack(b)
  PROVE  CostsNothing
<1>1. Layout' /\ Others(b) /\ TypesAt(b) /\ cursor[b] > 0 /\ cursor'[b] = cursor[b] - 1
  BY PopBackLayout, LayoutOfBin
<1>2. /\ bPc[b] = "pop" /\ UNCHANGED <<urlStore, entries, filter, bUrl>>
      /\ \A v \in FileUrls : Given(v)' = Given(v)
  BY DEF Files!PopBack, Files!getting, Given
<1>3. bPc'[b] = "get"
  BY <1>1 DEF Files!PopBack, Files!getting, Files!Goto, TypesAt
<1>4. Gone(b) = cursor[b] /\ Gone(b)' = 0 /\ cursor[b] \in Nat
  BY <1>1, <1>2, <1>3 DEF Gone, TypesAt, TypesOf
<1> SUFFICES ASSUME NEW u \in FileUrls
             PROVE  Pays(u)
  BY DEF CostsNothing
<1>5. CASE FileBinOf[u] # b
  BY <1>1, <1>2, <1>5, PaysElsewhere
<1>6. CASE FileBinOf[u] = b
  <2>1. Places(u)' = {i \in 1 .. cursor[b] - 1 : i # 0 /\ Full(urlStore, entries[b][i], u)}
    BY <1>1, <1>2, <1>4, <1>6 DEF Places
  <2>2. Places(u) = {i \in 1 .. cursor[b] : i # cursor[b] /\ Full(urlStore, entries[b][i], u)}
    BY <1>4, <1>6 DEF Places
  <2>3. Places(u)' = Places(u)
    BY <1>1, <1>4, <2>1, <2>2
  <2>4. Count(u)' = Count(u) /\ Count(u) \in Nat
    BY <1>2, <2>3, CountType DEF Count, Holding, Layout
  <2>5. Marked(u)' /\ Lacking(u)' => Marked(u) /\ Lacking(u)
    BY <1>2, <2>3 DEF Lacking, Marked
  <2>6. Placed(u)' => Placed(u)
    <3>1. bUrl[b] = 0 /\ u # 0
      BY <1>1, <1>2, BinOfUrl DEF TypesAt, BusyAt, Inserting
    <3>2. QED
      BY <1>2, <1>6, <3>1 DEF Placed
  <2>7. Placed(u)' => \A k \in 1 .. numHashes : FileBitsOf[u][k] \in filter'[FileBinOf[u]]
    BY <1>2, <2>6 DEF Known
  <2>8. QED
    BY <2>4, <2>5, <2>7 DEF Pays
<1>7. QED
  BY <1>5, <1>6

LEMMA PushCosts ==
  ASSUME Layout, Known, NEW b \in FileBins, Files!Next, lost # "making", Files!Push(b)
  PROVE  CostsNothing
<1>1. Layout' /\ Others(b) /\ TypesAt(b) /\ cursor'[b] = cursor[b] + 1
  BY PushLayout, LayoutOfBin
<1>2. /\ bPc[b] = "push" /\ UNCHANGED <<urlStore, filter, bUrl, bAt>>
      /\ \A v \in FileUrls : Given(v)' = Given(v)
  BY DEF Files!Push, Files!getting, Given
<1>3. bPc'[b] = "fill"
  BY <1>1 DEF Files!Push, Files!getting, Files!Goto, TypesAt
<1>4. Gone(b) = 0 /\ Gone(b)' = cursor[b] + 1 /\ cursor[b] \in Nat
  BY <1>1, <1>2, <1>3 DEF Gone, TypesAt, TypesOf
<1>5. \A i \in DOMAIN entries'[b] :
        \/ i \in DOMAIN entries[b] /\ entries'[b][i] = entries[b][i]
        \/ i = cursor'[b] /\ entries'[b][i] = 0
  BY PushLayout
<1>6. \A i \in 1 .. cursor[b] : entries'[b][i] = entries[b][i]
  <2>1. \A i \in DOMAIN entries[b] : entries'[b][i] = entries[b][i]
    BY PushLayout
  <2>2. QED
    BY <1>1, <2>1 DEF TypesAt, TypesOf
<1> SUFFICES ASSUME NEW u \in FileUrls
             PROVE  Pays(u)
  BY DEF CostsNothing
<1>7. CASE FileBinOf[u] # b
  BY <1>1, <1>2, <1>7, PaysElsewhere
<1>8. CASE FileBinOf[u] = b
  <2>1. Places(u)' =
          {i \in 1 .. cursor[b] + 1 : i # cursor[b] + 1 /\ Full(urlStore, entries'[b][i], u)}
    BY <1>1, <1>2, <1>4, <1>8 DEF Places
  <2>2. Places(u) = {i \in 1 .. cursor[b] : i # 0 /\ Full(urlStore, entries[b][i], u)}
    BY <1>4, <1>8 DEF Places
  <2>3. Places(u)' = Places(u)
    <3>1. \A i : i \in 1 .. cursor[b] + 1 /\ i # cursor[b] + 1 <=> i \in 1 .. cursor[b] /\ i # 0
      BY <1>4
    <3>2. QED
      BY <1>6, <2>1, <2>2, <3>1
  <2>4. Count(u)' = Count(u) /\ Count(u) \in Nat
    BY <1>2, <2>3, CountType DEF Count, Holding, Layout
  <2>5. Marked(u)' /\ Lacking(u)' => Marked(u) /\ Lacking(u)
    BY <1>2, <2>3 DEF Lacking, Marked
  <2>6. Placed(u)' => Placed(u)
    <3>1. ~Full(urlStore, 0, u)
      BY DummyIsNoUrl DEF Layout
    <3>2. QED
      BY <1>2, <1>5, <1>8, <3>1 DEF Placed
  <2>7. Placed(u)' => \A k \in 1 .. numHashes : FileBitsOf[u][k] \in filter'[FileBinOf[u]]
    BY <1>2, <2>6 DEF Known
  <2>8. QED
    BY <2>4, <2>5, <2>7 DEF Pays
<1>9. QED
  BY <1>7, <1>8

LEMMA FillCosts ==
  ASSUME Layout, Known, NEW b \in FileBins, Files!Next, lost # "making", Files!Fill(b)
  PROVE  CostsNothing
<1> DEFINE n == cursor[b]
           w == bUrl[b]
<1>1. /\ Layout' /\ Others(b) /\ TypesAt(b) /\ Written(b, n, bAt[b])
      /\ n > 0 /\ n \in Nat /\ w \in FileUrls /\ FileBinOf[w] = b /\ Full(urlStore, bAt[b], w)
  BY FillLayout, LayoutOfBin DEF TypesAt, TypesOf, Own
<1>2. /\ bPc[b] = "fill" /\ UNCHANGED <<urlStore, cursor, filter>>
      /\ \A v \in FileUrls : Given(v)' = Given(v)
  BY DEF Files!Fill, Files!getting, Given
<1>3. bPc'[b] = "idle" /\ bUrl'[b] = 0
  BY <1>1 DEF Files!Fill, Files!getting, Files!Goto, TypesAt
<1>4. Gone(b) = n /\ Gone(b)' = 0
  BY <1>2, <1>3 DEF Gone
<1>5. /\ \A i \in 1 .. n : i # n => entries'[b][i] = entries[b][i]
      /\ entries'[b][n] = bAt[b]
  <2>1. 1 .. n \subseteq DOMAIN entries[b]
    BY <1>1 DEF TypesAt, TypesOf
  <2>2. QED
    BY <1>1, <2>1 DEF Written
<1> SUFFICES ASSUME NEW u \in FileUrls
             PROVE  Pays(u)
  BY DEF CostsNothing
<1>6. CASE FileBinOf[u] # b
  BY <1>1, <1>2, <1>6, PaysElsewhere
<1>7. CASE FileBinOf[u] = b
  <2>1. Places(u)' = {i \in 1 .. n : i # 0 /\ Full(urlStore, entries'[b][i], u)}
    BY <1>2, <1>4, <1>7 DEF Places
  <2>2. Places(u) = {i \in 1 .. n : i # n /\ Full(urlStore, entries[b][i], u)}
    BY <1>4, <1>7 DEF Places
  <2>3. Full(urlStore, entries'[b][n], u) <=> u = w
    BY <1>1, <1>5, FullOnce
  <2>4. Placed(u)' => Placed(u)
    <3>1. CASE u = w
      BY <1>2, <1>7, <3>1 DEF Placed
    <3>2. CASE u # w
      <4>1. \A i \in DOMAIN entries'[b] : Full(urlStore, entries'[b][i], u) =>
              i \in DOMAIN entries[b] /\ entries'[b][i] = entries[b][i]
        BY <1>1, <2>3, <3>2 DEF Written
      <4>2. bUrl'[b] # u
        BY <1>3, BinOfUrl
      <4>3. QED
        BY <1>2, <1>7, <4>1, <4>2 DEF Placed
    <3>3. QED
      BY <3>1, <3>2
  <2>5. Placed(u)' => \A k \in 1 .. numHashes : FileBitsOf[u][k] \in filter'[FileBinOf[u]]
    BY <1>2, <2>4 DEF Known
  <2>6. CASE u = w
    <3>1. Places(u)' = Places(u) \cup {n} /\ n \notin Places(u)
      BY <1>1, <1>5, <2>1, <2>2, <2>3, <2>6
    <3>2. Cardinality(Places(u)') = Cardinality(Places(u)) + 1
      BY <3>1, CountType, FS_AddElement DEF Layout
    <3>3. Holding(u)' = 0 /\ Holding(u) = 1
      BY <1>3, <1>7, <2>6, BinOfUrl DEF Holding
    <3>4. Count(u)' <= Count(u)
      <4>1. /\ Count(u)' = Given(u)' + Cardinality(Places(u)') + 0
            /\ Count(u) = Given(u) + Cardinality(Places(u)) + 1
        BY <3>3 DEF Count
      <4>2. Given(u) \in Nat /\ Cardinality(Places(u)) \in Nat
        BY CountType DEF Layout
      <4>3. QED
        BY <1>2, <3>2, <4>1, <4>2
    <3>5. ~Lacking(u)'
      BY <3>1 DEF Lacking
    <3>6. QED
      BY <2>5, <3>4, <3>5 DEF Pays
  <2>7. CASE u # w
    <3>1. Places(u)' = Places(u)
      BY <1>1, <1>5, <2>1, <2>2, <2>3, <2>7
    <3>2. Holding(u)' = 0 /\ Holding(u) = 0 /\ (Lacking(u)' => Lacking(u))
      BY <1>2, <1>3, <1>7, <2>7, <3>1, BinOfUrl DEF Holding, Lacking
    <3>3. Count(u)' = Count(u) /\ Count(u) \in Nat
      <4>1. Count(u)' = Count(u)
        BY <1>2, <3>1, <3>2 DEF Count
      <4>2. QED
        BY <4>1, CountType DEF Layout
    <3>4. Marked(u)' => Marked(u)
      BY <1>2 DEF Marked
    <3>5. Count(u)' <= Count(u) /\ (Marked(u)' /\ Lacking(u)' => Marked(u) /\ Lacking(u))
      BY <3>2, <3>3, <3>4
    <3>6. QED
      BY <2>5, <3>5 DEF Pays
  <2>8. QED
    BY <2>6, <2>7
<1>8. QED
  BY <1>6, <1>7

LEMMA GetCosts ==
  ASSUME Layout, Known, NEW b \in FileBins, Files!Next, lost # "making",
         Files!GetUrl(b) \/ Files!Return(b)
  PROVE  CostsNothing
<1>1. Layout' /\ Others(b) /\ TypesAt(b)
  BY GetUrlLayout, ReturnLayout, LayoutOfBin
<1>2. bPc[b] \in {"idle", "get"} /\ UNCHANGED <<urlStore, entries, cursor, filter, bUrl>>
  BY DEF Files!GetUrl, Files!Return, Files!files
<1>3. bPc'[b] \in {"idle", "get"}
  <2>1. bPc' = [bPc EXCEPT ![b] = "get"] \/ bPc' = [bPc EXCEPT ![b] = "idle"]
    BY DEF Files!GetUrl, Files!Return, Files!Goto
  <2>2. QED
    BY <1>1, <2>1 DEF TypesAt
<1>4. Gone(b)' = Gone(b)
  BY <1>2, <1>3 DEF Gone
<1>5. ASSUME NEW u \in FileUrls
      PROVE  Given(u)' = Given(u)
  <2>1. CASE Files!GetUrl(b)
    BY <2>1 DEF Files!GetUrl, Given
  <2>2. CASE Files!Return(b)
    BY <1>1, <2>2, ReturnGives DEF TypesAt
  <2>3. QED
    BY <2>1, <2>2
<1> SUFFICES ASSUME NEW u \in FileUrls
             PROVE  Pays(u)
  BY DEF CostsNothing
<1>6. CASE FileBinOf[u] # b
  BY <1>1, <1>5, <1>6, PaysElsewhere
<1>7. CASE FileBinOf[u] = b
  <2>1. Marked(u)' => Marked(u)
    BY <1>2 DEF Marked
  <2>2. QED
    BY <1>2, <1>4, <1>5, <1>7, <2>1, PaysSame
<1>8. QED
  BY <1>6, <1>7

LEMMA PickCosts ==
  ASSUME Layout, Known, NEW b \in FileBins, Files!Next, lost # "making",
         NEW i \in Nat, Files!Pick(b, i)
  PROVE  CostsNothing
<1> DEFINE n == cursor[b]
<1>1. /\ Layout' /\ Others(b) /\ TypesAt(b)
      /\ i \in 1 .. n /\ i \in DOMAIN entries[b] /\ bAt'[b] = i /\ n \in Nat
  BY PickLayout, LayoutOfBin DEF TypesAt, TypesOf
<1>2. bPc[b] = "get" /\ UNCHANGED <<urlStore, entries, cursor, filter, bUrl>>
  BY DEF Files!Pick, Files!files
<1>3. bPc'[b] = "overwrite" /\ bUrl[b] = 0
  BY <1>1, <1>2 DEF Files!Pick, Files!Goto, TypesAt, BusyAt, Inserting
<1>4. Gone(b) = 0 /\ Gone(b)' = i
  BY <1>1, <1>2, <1>3 DEF Gone
<1> SUFFICES ASSUME NEW u \in FileUrls
             PROVE  Pays(u)
  BY DEF CostsNothing
<1>5. /\ Full(urlStore, entries[b][i], u) => Given(u)' = Given(u) + 1
      /\ ~Full(urlStore, entries[b][i], u) => Given(u)' = Given(u)
      /\ Given(u) \in Nat
  BY PickLayout, CountType DEF Layout
<1>6. CASE FileBinOf[u] # b
  <2>1. ~Full(urlStore, entries[b][i], u)
    <3> SUFFICES ASSUME Full(urlStore, entries[b][i], u)
                 PROVE  FALSE
      OBVIOUS
    <3>1. entries[b][i] # 0
      BY DummyIsNoUrl DEF Layout
    <3>2. PICK v \in Own(b) : Full(urlStore, entries[b][i], v)
      BY <1>1, <3>1 DEF TypesAt, ListedAt
    <3>3. QED
      BY <1>6, <3>2, FullOnce DEF Own
  <2>2. QED
    BY <1>1, <1>5, <1>6, <2>1, PaysElsewhere
<1>7. CASE FileBinOf[u] = b
  <2>1. Places(u)' = {j \in 1 .. n : j # i /\ Full(urlStore, entries[b][j], u)}
    BY <1>2, <1>4, <1>7 DEF Places
  <2>2. Places(u) = {j \in 1 .. n : j # 0 /\ Full(urlStore, entries[b][j], u)}
    BY <1>4, <1>7 DEF Places
  <2>3. Holding(u)' = Holding(u) /\ Marked(u)' = Marked(u) /\ bUrl'[b] # u
    BY <1>2, <1>3, BinOfUrl DEF Holding, Marked
  <2>4. Placed(u)' => Placed(u)
    BY <1>1, <1>2, <1>5, <1>7, <2>3 DEF Placed
  <2>5. Placed(u)' => \A k \in 1 .. numHashes : FileBitsOf[u][k] \in filter'[FileBinOf[u]]
    BY <1>2, <2>4 DEF Known
  <2>6. CASE Full(urlStore, entries[b][i], u)
    <3>1. Places(u)' = Places(u) \ {i} /\ i \in Places(u)
      BY <1>1, <2>1, <2>2, <2>6
    <3>2. Cardinality(Places(u)') = Cardinality(Places(u)) - 1
      BY <3>1, CountType, FS_RemoveElement DEF Layout
    <3>3. Count(u)' = Count(u) /\ Count(u) \in Nat
      <4>1. /\ Count(u)' = Given(u)' + Cardinality(Places(u)') + Holding(u)'
            /\ Count(u) = Given(u) + Cardinality(Places(u)) + Holding(u)
        BY DEF Count
      <4>2. Holding(u) \in Nat /\ Cardinality(Places(u)) \in Nat
        BY CountType DEF Layout
      <4>3. QED
        BY <1>5, <2>3, <2>6, <3>2, <4>1, <4>2
    <3>4. ~Lacking(u)'
      BY <1>5, <2>6 DEF Lacking
    <3>5. QED
      BY <2>5, <3>3, <3>4 DEF Pays
  <2>7. CASE ~Full(urlStore, entries[b][i], u)
    <3>1. Places(u)' = Places(u)
      BY <1>1, <2>1, <2>2, <2>7
    <3>2. Count(u)' = Count(u) /\ Count(u) \in Nat
      <4>1. Count(u)' = Count(u)
        BY <1>5, <2>3, <2>7, <3>1 DEF Count
      <4>2. QED
        BY <4>1, CountType DEF Layout
    <3>3. Lacking(u)' => Lacking(u)
      BY <1>2, <1>5, <2>7, <3>1 DEF Lacking
    <3>4. Count(u)' <= Count(u) /\ (Marked(u)' /\ Lacking(u)' => Marked(u) /\ Lacking(u))
      BY <2>3, <3>2, <3>3
    <3>5. QED
      BY <2>5, <3>4 DEF Pays
  <2>8. QED
    BY <2>6, <2>7
<1>8. QED
  BY <1>6, <1>7

LEMMA OverwriteCosts ==
  ASSUME Layout, Known, NEW b \in FileBins, Files!Next, lost # "making", Files!Overwrite(b)
  PROVE  CostsNothing
<1> DEFINE n == cursor[b]
           k == bAt[b]
<1>1. /\ Layout' /\ Others(b) /\ TypesAt(b) /\ n \in Nat /\ n > 0 /\ k \in 1 .. n
      /\ n \in DOMAIN entries[b] /\ Written(b, k, entries[b][n])
  BY OverwriteLayout, LayoutOfBin DEF TypesAt, TypesOf
<1>2. /\ bPc[b] = "overwrite" /\ UNCHANGED <<urlStore, cursor, filter, bUrl>>
      /\ \A v \in FileUrls : Given(v)' = Given(v)
  BY DEF Files!Overwrite, Files!getting, Given
<1>3. bPc'[b] = "pop" /\ bUrl[b] = 0
  BY <1>1, <1>2 DEF Files!Overwrite, Files!Goto, TypesAt, BusyAt, Inserting
<1>4. Gone(b) = k /\ Gone(b)' = n
  BY <1>2, <1>3 DEF Gone
<1>5. entries'[b][k] = entries[b][n] /\ \A i \in 1 .. n : i # k => entries'[b][i] = entries[b][i]
  <2>1. 1 .. n \subseteq DOMAIN entries[b]
    BY <1>1 DEF TypesAt, TypesOf
  <2>2. QED
    BY <1>1, <2>1 DEF Written
<1> SUFFICES ASSUME NEW u \in FileUrls
             PROVE  Pays(u)
  BY DEF CostsNothing
<1>6. CASE FileBinOf[u] # b
  BY <1>1, <1>2, <1>6, PaysElsewhere
<1>7. CASE FileBinOf[u] = b
  <2> DEFINE X == {i \in 1 .. n : i # n /\ i # k /\ Full(urlStore, entries[b][i], u)}
  <2>1. Places(u)' = {i \in 1 .. n : i # n /\ Full(urlStore, entries'[b][i], u)}
    BY <1>2, <1>4, <1>7 DEF Places
  <2>2. Places(u) = {i \in 1 .. n : i # k /\ Full(urlStore, entries[b][i], u)}
    BY <1>4, <1>7 DEF Places
  <2>3. Holding(u)' = Holding(u) /\ Marked(u)' = Marked(u) /\ bUrl'[b] # u
    BY <1>2, <1>3, BinOfUrl DEF Holding, Marked
  <2>4. Placed(u)' => Placed(u)
    BY <1>1, <1>2, <1>7, <2>3 DEF Placed, Written
  <2>5. Placed(u)' => \A l \in 1 .. numHashes : FileBitsOf[u][l] \in filter'[FileBinOf[u]]
    BY <1>2, <2>4 DEF Known
  <2>6. IsFiniteSet(X) /\ Cardinality(X) \in Nat
    BY <1>1, SomeOfInterval
  <2>7. \/ Places(u)' = X /\ Places(u) = X
        \/ Places(u)' = X \cup {k} /\ Places(u) = X \cup {n}
    <3>1. CASE k = n
      BY <1>1, <1>5, <2>1, <2>2, <3>1
    <3>2. CASE k # n /\ Full(urlStore, entries[b][n], u)
      <4>1. Places(u)' = X \cup {k}
        BY <1>1, <1>5, <2>1, <3>2
      <4>2. Places(u) = X \cup {n}
        BY <1>1, <2>2, <3>2
      <4>3. QED
        BY <4>1, <4>2
    <3>3. CASE k # n /\ ~Full(urlStore, entries[b][n], u)
      <4>1. Places(u)' = X
        BY <1>1, <1>5, <2>1, <3>3
      <4>2. Places(u) = X
        BY <1>1, <2>2, <3>3
      <4>3. QED
        BY <4>1, <4>2
    <3>4. QED
      BY <3>1, <3>2, <3>3
  <2>8. k \notin X /\ n \notin X
    OBVIOUS
  <2> HIDE DEF X
  <2>9. Cardinality(Places(u)') = Cardinality(Places(u))
    <3>1. Cardinality(X \cup {k}) = Cardinality(X) + 1 /\ Cardinality(X \cup {n}) = Cardinality(X) + 1
      BY <2>6, <2>8, FS_AddElement
    <3>2. QED
      BY <2>7, <3>1
  <2>10. Places(u)' = {} => Places(u) = {}
    BY <2>7
  <2>11. Count(u)' = Count(u) /\ Count(u) \in Nat
    <3>1. Count(u)' = Count(u)
      BY <1>2, <2>3, <2>9 DEF Count
    <3>2. QED
      BY <3>1, CountType DEF Layout
  <2>12. Marked(u)' /\ Lacking(u)' => Marked(u) /\ Lacking(u)
    BY <1>2, <2>3, <2>10 DEF Lacking
  <2>13. QED
    BY <2>5, <2>11, <2>12 DEF Pays
<1>8. QED
  BY <1>6, <1>7

LEMMA BinCosts ==
  ASSUME Layout, Costs, NEW b \in FileBins, Files!Next, Files!Bin(b)
  PROVE  Costs'
<1>1. Layout' /\ Others(b)
  BY LayoutStep
<1>2. lost # "making"
  BY DEF Files!Bin
<1>3. CASE lost # "no"
  BY <1>1, <1>3 DEF Others, Costs
<1>4. CASE lost = "no"
  <2>1. Known
    BY <1>4 DEF Costs
  <2> SUFFICES CostsNothing
    BY <1>1, CostsStep DEF CostsNothing, Others, Layout
  <2>2. ASSUME NEW u \in FileUrls, Files!TryInsert(b, u)
        PROVE  CostsNothing
    BY <1>2, <2>1, <2>2, TryInsertCosts
  <2>3. CASE Files!SetBit(b)
    BY <1>2, <2>1, <2>3, SetBitCosts
  <2>4. CASE Files!Reserve(b) \/ Files!Copy(b)
    BY <1>2, <2>1, <2>4, StoreCosts
  <2>5. CASE Files!Push(b)
    BY <1>2, <2>1, <2>5, PushCosts
  <2>6. CASE Files!Fill(b)
    BY <1>2, <2>1, <2>6, FillCosts
  <2>7. ASSUME NEW i \in 1 .. MaxUrls, Files!Pick(b, i)
        PROVE  CostsNothing
    <3>1. i \in Nat
      BY FilesAssumption
    <3>2. QED
      BY <1>2, <2>1, <2>7, <3>1, PickCosts
  <2>8. CASE Files!Overwrite(b)
    BY <1>2, <2>1, <2>8, OverwriteCosts
  <2>9. CASE Files!PopBack(b)
    BY <1>2, <2>1, <2>9, PopBackCosts
  <2>10. CASE Files!GetUrl(b) \/ Files!Return(b)
    BY <1>2, <2>1, <2>10, GetCosts
  <2>11. QED
    BY <2>2, <2>3, <2>4, <2>5, <2>6, <2>7, <2>8, <2>9, <2>10, Zenon DEF Files!Bin
<1>5. QED
  BY <1>3, <1>4

(* A crash takes the last place from the URL that is being stored, and     *)
(* gives back the one that was about to go.                                *)
LEMMA CrashCosts ==
  ASSUME Layout, Costs, NEW removed \in BOOLEAN, Files!Next, Files!Crash(removed)
  PROVE  Costs'
<1> SUFFICES ASSUME lost' = "no"
             PROVE  /\ Known'
                    /\ \A b \in FileBins :
                         AtMost(Excess(b)', crashes') /\ AtMost(Missing(b)', crashes')
  BY DEF Costs
<1>1. lost = "no" /\ ~removed
  BY DEF Files!Crash
<1>2. /\ crashes' = crashes + 1 /\ bPc' = [c \in FileBins |-> "idle"]
      /\ bUrl' = [c \in FileBins |-> 0]
      /\ UNCHANGED <<entries, cursor, filter>>
  BY <1>1 DEF Files!Crash
<1>0. ASSUME NEW u \in FileUrls
      PROVE  Given(u)' = Given(u)
  <2>1. /\ took' = [v \in FileUrls |-> 0] /\ dropped' = [v \in FileUrls |-> dropped[v] + took[v]]
        /\ returned' = returned
    BY DEF Files!Crash
  <2>2. Given(u)' = 0 + returned[u] + (dropped[u] + took[u])
    BY <2>1 DEF Given
  <2>3. took[u] \in Nat /\ returned[u] \in Nat /\ dropped[u] \in Nat
    BY DEF Layout, FileTypes, GivenTypes
  <2>4. QED
    BY <2>2, <2>3 DEF Given
<1>3. Known /\ crashes \in Nat /\ Layout'
  BY <1>1, CrashLayout DEF Costs, Layout, FileTypes
<1>4. ASSUME NEW b \in FileBins, NEW i \in DOMAIN entries[b], NEW u \in FileUrls
      PROVE  Full(urlStore', entries'[b][i], u) <=> Full(urlStore, entries[b][i], u)
  BY <1>2, EntrySame
<1>5. Known'
  <2> SUFFICES ASSUME NEW u \in FileUrls, Placed(u)'
               PROVE  \A k \in 1 .. numHashes : FileBitsOf[u][k] \in filter'[FileBinOf[u]]
    BY DEF Known
  <2>1. Placed(u)
    BY <1>0, <1>2, <1>4, BinOfUrl DEF Placed
  <2>2. QED
    BY <1>2, <1>3, <2>1 DEF Known
<1>6. ASSUME NEW u \in FileUrls
      PROVE  LET b == FileBinOf[u] IN
             /\ Places(u) \subseteq Places(u)' /\ Places(u)' \subseteq Places(u) \cup {Gone(b)}
             /\ Gone(b) \in Places(u)' => Gone(b) \in DOMAIN entries[b] /\ Full(urlStore, entries[b][Gone(b)], u)
             /\ Holding(u)' = 0
  <2> DEFINE b == FileBinOf[u]
  <2>1. b \in FileBins /\ u # 0
    BY BinOfUrl
  <2> HIDE DEF b
  <2>2. Gone(b)' = 0 /\ bUrl'[b] = 0
    BY <1>2, <2>1 DEF Gone
  <2>3. cursor[b] \in Nat /\ \A i \in 1 .. cursor[b] : i \in DOMAIN entries[b]
    BY <2>1, TypesHere DEF TypesOf
  <2>4. Places(u)' = {i \in 1 .. cursor[b] : i # 0 /\ Full(urlStore, entries[b][i], u)}
    BY <1>2, <1>4, <2>1, <2>2, <2>3 DEF Places, b
  <2>5. Places(u) = {i \in 1 .. cursor[b] : i # Gone(b) /\ Full(urlStore, entries[b][i], u)}
    BY DEF Places, b
  <2>6. Holding(u)' = 0
    BY <2>1, <2>2 DEF Holding, b
  <2>7. QED
    BY <2>3, <2>4, <2>5, <2>6 DEF b
<1>7. ASSUME NEW b \in FileBins
      PROVE  \E x : Excess(b)' \subseteq Excess(b) \cup {x}
  <2>1. ASSUME NEW u \in Own(b), Gone(b) \notin Places(u)'
        PROVE  Count(u)' <= Count(u)
    <3>1. u \in FileUrls /\ FileBinOf[u] = b
      BY DEF Own
    <3>2. Places(u)' = Places(u) /\ Holding(u)' = 0
      BY <1>6, <2>1, <3>1
    <3>3. /\ Count(u)' = Given(u) + Cardinality(Places(u)) + 0
          /\ Count(u) = Given(u) + Cardinality(Places(u)) + Holding(u)
      BY <1>0, <1>2, <3>1, <3>2 DEF Count
    <3>4. Given(u) \in Nat /\ Cardinality(Places(u)) \in Nat /\ Holding(u) \in {0, 1}
      BY <3>1, CountType DEF Layout
    <3>5. QED
      BY <3>3, <3>4
  <2>2. CASE \A u \in Own(b) : Gone(b) \notin Places(u)'
    <3>1. ASSUME NEW e \in Own(b) \X Nat, e[2] <= Count(e[1])'
          PROVE  e[2] <= Count(e[1])
      <4>1. PICK u \in Own(b) : u = e[1]
        OBVIOUS
      <4>2. u \in FileUrls
        BY DEF Own
      <4>3. Count(u)' <= Count(u) /\ Count(u) \in Nat /\ Count(u)' \in Nat
        BY <1>3, <2>1, <2>2, <4>2, CountType, CountTypeAfter DEF Layout
      <4>4. e[2] <= Count(u)' /\ e[2] \in Nat
        BY <3>1, <4>1
      <4>5. e[2] <= Count(u)
        BY <4>3, <4>4
      <4>6. QED
        BY <4>1, <4>5
    <3>2. Excess(b)' \subseteq Excess(b)
      BY <3>1 DEF Excess
    <3>3. QED
      BY <3>2
  <2>3. ASSUME NEW v \in Own(b), Gone(b) \in Places(v)'
        PROVE  \E x : Excess(b)' \subseteq Excess(b) \cup {x}
    <3> DEFINE x == <<v, Count(v) + 1>>
    <3>1. v \in FileUrls /\ FileBinOf[v] = b
      BY DEF Own
    <3>2. Count(v)' <= Count(v) + 1 /\ Count(v) \in Nat /\ Count(v)' \in Nat
      <4>1. Places(v)' \subseteq Places(v) \cup {Gone(b)} /\ Holding(v)' = 0
        BY <1>6, <3>1
      <4>2. IsFiniteSet(Places(v)) /\ Cardinality(Places(v)) \in Nat /\ Given(v) \in Nat
            /\ Holding(v) \in {0, 1} /\ Count(v) \in Nat /\ Count(v)' \in Nat
            /\ Cardinality(Places(v)') \in Nat
        BY <1>3, <3>1, CountType, CountTypeAfter DEF Layout
      <4>3. AtMost(Places(v)', Cardinality(Places(v)) + 1)
        <5>1. AtMost(Places(v), Cardinality(Places(v)))
          BY <4>2 DEF AtMost
        <5>2. QED
          BY <4>1, <4>2, <5>1, AtMostOneMore
      <4>4. Cardinality(Places(v)') <= Cardinality(Places(v)) + 1
        BY <4>3 DEF AtMost
      <4>5. /\ Count(v)' = Given(v) + Cardinality(Places(v)') + 0
            /\ Count(v) = Given(v) + Cardinality(Places(v)) + Holding(v)
        BY <1>0, <1>2, <3>1, <4>1 DEF Count
      <4>6. QED
        BY <4>2, <4>4, <4>5
    <3>3. ASSUME NEW e \in Own(b) \X Nat, 2 <= e[2], e[2] <= Count(e[1])'
          PROVE  e \in Excess(b) \/ e = x
      <4>1. PICK u \in Own(b) : u = e[1]
        OBVIOUS
      <4>2. u \in FileUrls /\ FileBinOf[u] = b
        BY DEF Own
      <4>3. e[2] <= Count(u)' /\ e[2] \in Nat /\ Count(u) \in Nat /\ Count(u)' \in Nat
        BY <1>3, <3>3, <4>1, <4>2, CountType, CountTypeAfter DEF Layout
      <4>4. CASE u = v
        <5>1. e[2] <= Count(u) \/ e[2] = Count(u) + 1
          BY <3>2, <4>3, <4>4
        <5>2. e[2] <= Count(e[1]) \/ e[2] = Count(v) + 1
          BY <4>1, <4>4, <5>1
        <5>3. e = <<e[1], e[2]>>
          OBVIOUS
        <5>4. QED
          BY <3>3, <4>1, <4>4, <5>2, <5>3 DEF Excess
      <4>5. CASE u # v
        <5>1. Gone(b) \notin Places(u)'
          <6> SUFFICES ASSUME Gone(b) \in Places(u)'
                       PROVE  FALSE
            OBVIOUS
          <6>1. Full(urlStore, entries[b][Gone(b)], u) /\ Full(urlStore, entries[b][Gone(b)], v)
            BY <1>6, <2>3, <3>1, <4>2
          <6>2. QED
            BY <3>1, <4>2, <4>5, <6>1, FullOnce
        <5>2. e[2] <= Count(u)
          BY <2>1, <4>3, <5>1
        <5>3. QED
          BY <3>3, <4>1, <5>2 DEF Excess
      <4>6. QED
        BY <4>4, <4>5
    <3>4. Excess(b)' = {e \in Own(b) \X Nat : 2 <= e[2] /\ e[2] <= Count(e[1])'}
      BY DEF Excess
    <3> HIDE DEF x
    <3>5. Excess(b)' \subseteq Excess(b) \cup {x}
      BY <3>3, <3>4
    <3>6. QED
      BY <3>5
  <2>4. QED
    BY <2>2, <2>3
<1>8. ASSUME NEW b \in FileBins
      PROVE  Missing(b)' \subseteq Missing(b) \cup {bUrl[b]}
  <2> SUFFICES ASSUME NEW u \in Own(b), Marked(u)', Lacking(u)', bUrl[b] # u
               PROVE  Marked(u) /\ Lacking(u)
    BY DEF Missing
  <2>1. u \in FileUrls /\ FileBinOf[u] = b
    BY DEF Own
  <2>2. Places(u) = {}
    BY <1>6, <2>1 DEF Lacking
  <2>3. QED
    BY <1>0, <1>2, <2>1, <2>2 DEF Lacking, Marked
<1>9. ASSUME NEW b \in FileBins
      PROVE  AtMost(Excess(b)', crashes') /\ AtMost(Missing(b)', crashes')
  <2>1. AtMost(Excess(b), crashes) /\ AtMost(Missing(b), crashes)
    BY <1>1 DEF Costs
  <2>2. AtMost(Missing(b)', crashes + 1)
    BY <1>3, <1>8, <2>1, AtMostOneMore
  <2>3. PICK x : Excess(b)' \subseteq Excess(b) \cup {x}
    BY <1>7
  <2>4. AtMost(Excess(b)', crashes + 1)
    BY <1>3, <2>1, <2>3, AtMostOneMore
  <2>5. QED
    BY <1>2, <2>2, <2>4
<1>10. QED
  BY <1>5, <1>9

LEMMA FilesInit ==
  ASSUME Files!Init
  PROVE  FilesInv
<1>1. Layout
  BY LayoutInit
<1>2. /\ entries = [b \in FileBins |-> <<>>] /\ cursor = [b \in FileBins |-> 0]
      /\ filter = [b \in FileBins |-> {}] /\ bUrl = [b \in FileBins |-> 0]
      /\ took = [u \in FileUrls |-> 0] /\ returned = [u \in FileUrls |-> 0]
      /\ dropped = [u \in FileUrls |-> 0] /\ crashes = 0
  BY DEF Files!Init
<1>3. ASSUME NEW u \in FileUrls
      PROVE  Count(u) = 0 /\ ~Placed(u) /\ ~Marked(u)
  <2>1. FileBinOf[u] \in FileBins /\ u # 0
    BY BinOfUrl
  <2>2. Places(u) = {} /\ Holding(u) = 0 /\ Given(u) = 0
    BY <1>2, <2>1 DEF Places, Holding, Given
  <2>3. Count(u) = 0
    BY <2>2, FS_EmptySet DEF Count
  <2>4. ~Placed(u) /\ ~Marked(u)
    BY <1>2, <2>1, <2>2 DEF Placed, Marked
  <2>5. QED
    BY <2>3, <2>4
<1>4. ASSUME NEW b \in FileBins
      PROVE  Excess(b) = {} /\ Missing(b) = {}
  <2>1. Missing(b) = {}
    BY <1>3 DEF Missing, Own
  <2>2. ASSUME NEW e \in Own(b) \X Nat, 2 <= e[2], e[2] <= Count(e[1])
        PROVE  FALSE
    <3>1. e[1] \in FileUrls
      BY DEF Own
    <3>2. Count(e[1]) = 0
      BY <1>3, <3>1
    <3>3. QED
      BY <2>2, <3>2
  <2>3. QED
    BY <2>1, <2>2 DEF Excess
<1>5. AtMost({}, 0)
  BY FS_EmptySet DEF AtMost
<1>6. Costs
  BY <1>2, <1>3, <1>4, <1>5 DEF Costs, Known
<1>7. QED
  BY <1>1, <1>6 DEF FilesInv

LEMMA FilesStep ==
  ASSUME FilesInv, Files!Next
  PROVE  FilesInv'
<1>1. Layout /\ Costs /\ Layout'
  BY LayoutStep DEF FilesInv
<1>2. ASSUME NEW b \in FileBins, Files!Bin(b)
      PROVE  Costs'
  BY <1>1, <1>2, BinCosts
<1>3. ASSUME NEW removed \in BOOLEAN, Files!Crash(removed)
      PROVE  Costs'
  BY <1>1, <1>3, CrashCosts
<1>4. ASSUME \/ Files!MakeBloomFilter
             \/ (\E i \in Files!Segment : Files!AddSeen(i))
             \/ Files!FilterMade
      PROVE  Costs'
  BY <1>4 DEF Costs, Files!MakeBloomFilter, Files!AddSeen, Files!FilterMade
<1>5. Costs'
  BY <1>2, <1>3, <1>4, Zenon DEF Files!Next
<1>6. QED
  BY <1>1, <1>5 DEF FilesInv

(* Cardinality as the instance of FrontierFiles knows it                   *)
LEMMA FilesCardinality ==
  ASSUME NEW S
  PROVE  Files!Cardinality(S) = Cardinality(S)
BY Zenon DEF Files!Cardinality, Cardinality

(* The invariant says what FilesHold asks for.                             *)
LEMMA FilesHoldNow ==
  ASSUME FilesInv
  PROVE  FilesHold
<1>1. Layout /\ Costs /\ crashes \in Nat
  BY DEF FilesInv, Layout, FileTypes
<1>2. ASSUME NEW b \in FileBins, NEW i \in 1 .. cursor[b]
      PROVE  i \in DOMAIN entries[b]
  BY <1>1, TypesHere DEF TypesOf
<1>3. Files!OffsetsStored
  <2> SUFFICES ASSUME NEW b \in FileBins, NEW i \in 1 .. cursor[b]
               PROVE  \/ bPc[b] = "fill" /\ i = cursor[b]
                      \/ \E u \in FileUrls : FileBinOf[u] = b /\ Files!Names(urlStore, entries[b][i], u)
                      \/ crashes > 0 /\ entries[b][i] = 0
    BY DEF Files!OffsetsStored, Files!Dummy
  <2>1. i \in DOMAIN entries[b] /\ ListedAt(b)
    BY <1>1, <1>2 DEF Layout, Listed
  <2>2. CASE \E u \in Own(b) : Full(urlStore, entries[b][i], u)
    BY <1>1, <2>1, <2>2, EntryNames DEF Own
  <2>3. CASE ~\E u \in Own(b) : Full(urlStore, entries[b][i], u)
    BY <2>1, <2>3 DEF ListedAt
  <2>4. QED
    BY <2>2, <2>3
<1>4. Files!CrashCosts
  <2> DEFINE Of(b) == {u \in FileUrls : FileBinOf[u] = b}
             D(b) == {u \in Of(b) : Files!Distinct(u) /\ Files!Forgotten(u) /\ dropped[u] = 0}
             R(b) == Files!Repeats(Of(b))
  <2> SUFFICES ASSUME lost = "no", NEW b \in FileBins
               PROVE  Cardinality(D(b)) <= crashes /\ Cardinality(R(b)) <= crashes
    BY FilesCardinality DEF Files!CrashCosts
  <2>0. Of(b) = Own(b)
    BY DEF Own
  <2> HIDE DEF Of
  <2>1. AtMost(Excess(b), crashes) /\ AtMost(Missing(b), crashes)
    BY <1>1 DEF Costs
  <2>2. R(b) \subseteq Excess(b)
    <3> SUFFICES ASSUME NEW e \in Own(b) \X (2 .. MaxUrls + MaxCrashes), e[2] <= returned[e[1]]
                 PROVE  e \in Excess(b)
      BY <2>0 DEF Files!Repeats
    <3>1. e[2] \in Nat /\ 2 <= e[2] /\ e \in Own(b) \X Nat
      BY FilesAssumption
    <3>2. PICK u \in FileUrls : u = e[1]
      BY DEF Own
    <3>3. /\ Given(u) \in Nat /\ Cardinality(Places(u)) \in Nat /\ Holding(u) \in {0, 1}
          /\ Count(u) = Given(u) + Cardinality(Places(u)) + Holding(u)
      BY <1>1, CountType DEF Layout, Count
    <3>4. returned[u] <= Given(u)
      BY <1>1 DEF Layout, FileTypes, GivenTypes, Given
    <3>5. returned[u] \in Nat
      BY <1>1 DEF Layout, FileTypes, GivenTypes
    <3>6. e[2] <= Count(u)
      BY <3>1, <3>2, <3>3, <3>4, <3>5
    <3>7. QED
      BY <3>1, <3>2, <3>6 DEF Excess
  <2>3. D(b) \subseteq Missing(b)
    <3> SUFFICES ASSUME NEW u \in Own(b), Files!Distinct(u), Files!Forgotten(u), dropped[u] = 0
                 PROVE  Marked(u) /\ Lacking(u)
      BY <2>0 DEF Missing
    <3>1. u \in FileUrls /\ FileBinOf[u] = b /\ DOMAIN FileBitsOf[u] = 1 .. numHashes
      BY BinOfUrl DEF Own
    <3>2. Marked(u)
      BY <3>1, UnsetOf DEF Files!Distinct, Files!Forgotten, Marked
    <3>3. ASSUME NEW i \in Places(u)
          PROVE  FALSE
      <4>1. i \in 1 .. cursor[b] /\ Full(urlStore, entries[b][i], u)
        BY <3>1 DEF Places
      <4>2. Files!Names(urlStore, entries[b][i], u)
        BY <1>1, <1>2, <3>1, <4>1, EntryNames
      <4>3. QED
        BY <3>1, <4>1, <4>2 DEF Files!Forgotten, Files!Queued
    <3>4. Lacking(u)
      <4>1. Given(u) = 0
        BY <1>1, <3>1 DEF Layout, FileTypes, GivenTypes, Given, Files!Forgotten
      <4>2. QED
        BY <3>1, <3>3, <4>1 DEF Lacking, Files!Forgotten
    <3>5. QED
      BY <3>2, <3>4
  <2>4. QED
    BY <1>1, <2>1, <2>2, <2>3, AtMostFewer DEF AtMost
<1>5. QED
  BY <1>3, <1>4 DEF FilesHold

LEMMA FilesStutter ==
  ASSUME FilesInv, UNCHANGED filesVars
  PROVE  FilesInv'
<1>1. /\ UNCHANGED <<urlStore, entries, cursor, filter, bPc, bUrl, bAt, took, returned, dropped, crashes>>
      /\ UNCHANGED lost
  BY DEF filesVars
<1>2. Layout'
  <2>1. FileTypes'
    BY <1>1 DEF FilesInv, Layout, FileTypes, GivenTypes
  <2>2. Busy'
    BY <1>1 DEF FilesInv, Layout, Busy, BusyAt, Files!Unset
  <2>3. Listed'
    BY <1>1 DEF FilesInv, Layout, Listed, ListedAt
  <2>4. Apart' /\ Resting'
    BY <1>1 DEF FilesInv, Layout, Apart, Resting
  <2>5. QED
    BY <2>1, <2>2, <2>3, <2>4 DEF Layout
<1>3. Costs'
  <2>1. ASSUME NEW u \in FileUrls
        PROVE  /\ Count(u)' = Count(u) /\ (Lacking(u)' <=> Lacking(u))
               /\ (Marked(u)' <=> Marked(u)) /\ (Placed(u)' <=> Placed(u))
    <3>1. Places(u)' = Places(u) /\ Holding(u)' = Holding(u)
      BY <1>1 DEF Places, Gone, Holding
    <3>2. QED
      BY <1>1, <3>1 DEF Count, Given, Lacking, Marked, Placed
  <2>2. ASSUME NEW b \in FileBins
        PROVE  Excess(b)' = Excess(b) /\ Missing(b)' = Missing(b)
    BY <2>1 DEF Excess, Missing, Own
  <2>3. Known' <=> Known
    BY <1>1, <2>1 DEF Known
  <2>4. QED
    BY <1>1, <2>2, <2>3 DEF FilesInv, Costs
<1>4. QED
  BY <1>2, <1>3 DEF FilesInv

(* What may be handed out names a URL that was stored in full, and a crash *)
(* loses what getUrl calls have taken out and not returned, and costs a    *)
(* bin no more than one URL besides that is forgotten and one that is      *)
(* handed out again, for any number of URLs, bins, positions, tries and    *)
(* crashes.                                                                *)
THEOREM FilesAreSound == MCSpec => []FilesHold
<1>1. MCInit => FilesInv
  BY FilesInit DEF MCInit
<1>2. FilesInv /\ [MCNext]_mcVars => FilesInv'
  <2> SUFFICES ASSUME FilesInv, [MCNext]_mcVars
               PROVE  FilesInv'
    OBVIOUS
  <2>1. CASE Files!Next
    BY <2>1, FilesStep
  <2>2. CASE UNCHANGED filesVars
    BY <2>2, FilesStutter
  <2>3. QED
    BY <2>1, <2>2 DEF MCNext, mcVars
<1>3. FilesInv => FilesHold
  BY FilesHoldNow
<1>4. QED
  BY <1>1, <1>2, <1>3, PTL DEF MCSpec

-----------------------------------------------------------------------------
(* make_bloom_filter.  While the filters are made, a URL that was found is *)
(* still to be added, or it is in the filter, or two threads raced for it  *)
(* (Added).  What a thread that is alone in addSeen has computed is in the *)
(* array (Computed), and two that are in it at once have raced (Alone).    *)

InAddSeen(i) == adders[i].step > 0
MakingTypes ==
  /\ hashes \in [FileBins -> [1 .. numHashes -> Nat]]
  /\ lost = "making" =>
       adders \in [Files!Segment -> [todo : SUBSET Nat, step : 0 .. 2 * numHashes - 1]]
Finding ==
  \A i \in Files!Segment :
    adders[i].todo \subseteq Files!Seen(i) /\ (InAddSeen(i) => adders[i].todo # {})
FilterHas(u) == \A k \in 1 .. numHashes : FileBitsOf[u][k] \in filter[FileBinOf[u]]
Added ==
  \A i \in Files!Segment : \A o \in Files!Seen(i) \ adders[i].todo : \A u \in FileUrls \ raced :
    Files!Names(urlStore, o, u) => FilterHas(u)
ComputedBy(i) ==
  LET u == Files!Adding(i)
      b == FileBinOf[u] IN
  InAddSeen(i) /\ u \notin raced =>
    \A k \in 1 .. numHashes :
      /\ k <= adders[i].step => hashes[b][k] = FileBitsOf[u][k]
      /\ k + numHashes <= adders[i].step => FileBitsOf[u][k] \in filter[b]
Computed == \A i \in Files!Segment : ComputedBy(i)
Alone ==
  \A i \in Files!Segment : InAddSeen(i) =>
    \A j \in Files!Inside(i) : Files!Adding(i) \in raced /\ Files!Adding(j) \in raced
Making == MakingTypes /\ (lost = "making" => Finding /\ Added /\ Computed /\ Alone)

(* Two facts about naturals that the provers find only by themselves       *)
LEMMA Product ==
  ASSUME NEW a \in Nat, NEW b \in Nat
  PROVE  a * b \in Nat
OBVIOUS

LEMMA Quotient ==
  ASSUME NEW a \in Nat, NEW m \in Nat \ {0}
  PROVE  a \div m \in Nat
BY SMT

(* What make_bloom_filter finds are places of URLs.                        *)
LEMMA SeenPlaces ==
  ASSUME urlStore \in Seq(Nat), NEW i \in Files!Segment
  PROVE  /\ Files!Seen(i) \subseteq Nat
         /\ \A o \in Files!Seen(i) : \E u \in FileUrls : Files!Names(urlStore, o, u)
<1>1. i \in Nat /\ Len(urlStore) \in Nat /\ Segments \in Nat \ {0}
  BY FilesAssumption DEF Files!Segment
<1>2. Files!SegmentStart(i) \in Nat
  <2>1. i * Len(urlStore) \in Nat
    BY <1>1, Product
  <2>2. QED
    BY <1>1, <2>1, Quotient DEF Files!SegmentStart
<1>3. Files!Found(i) \subseteq Nat
  BY <1>2 DEF Files!Found
<1>4. QED
  BY <1>3 DEF Files!Seen

(* A place names one URL.                                                  *)
LEMMA NamesOnce ==
  ASSUME NEW s, NEW o, NEW u \in FileUrls, NEW v \in FileUrls,
         Files!Names(s, o, u), Files!Names(s, o, v)
  PROVE  u = v
<1>1. u \in Nat /\ v \in Nat /\ <<2 * u, 2 * u + 1>> = <<2 * v, 2 * v + 1>>
  BY BinOfUrl DEF Files!Names, Files!Chars
<1>2. 2 * u = 2 * v
  BY <1>1
<1>3. QED
  BY <1>1, <1>2

(* The URL that a thread adds is the one at the first of its places.       *)
LEMMA AddingIs ==
  ASSUME Making, lost = "making", urlStore \in Seq(Nat),
         NEW i \in Files!Segment, adders[i].todo # {}
  PROVE  LET o == Files!Least(adders[i].todo) IN
         /\ o \in adders[i].todo /\ Files!Adding(i) \in FileUrls
         /\ \A u \in FileUrls : Files!Names(urlStore, o, u) => u = Files!Adding(i)
<1> DEFINE o == Files!Least(adders[i].todo)
<1>1. adders[i].todo \subseteq Files!Seen(i)
  BY DEF Making, Finding
<1>2. o \in adders[i].todo
  BY <1>1, SeenPlaces, LeastExists DEF Files!Least
<1>3. \E u \in FileUrls : Files!Names(urlStore, o, u)
  BY <1>1, <1>2, SeenPlaces
<1> HIDE DEF o
<1>4. Files!Adding(i) = CHOOSE u \in FileUrls : Files!Names(urlStore, o, u)
  BY DEF Files!Adding, o
<1>5. Files!Adding(i) \in FileUrls /\ Files!Names(urlStore, o, Files!Adding(i))
  BY <1>3, <1>4
<1>6. QED
  BY <1>2, <1>5, NamesOnce DEF o

(* What a step of addSeen does to the array, the filter and the threads    *)
LEMMA AddSeenStep ==
  ASSUME Making, FileTypes, NEW i \in Files!Segment, Files!AddSeen(i)
  PROVE  LET u == Files!Adding(i)
             b == FileBinOf[u]
             k == adders[i].step + 1 IN
         /\ lost = "making" /\ lost' = "making" /\ urlStore' = urlStore
         /\ u \in FileUrls /\ b \in FileBins /\ k \in 1 .. 2 * numHashes
         /\ adders[i].todo # {} /\ raced \subseteq raced'
         /\ k = 1 => \A j \in Files!Inside(i) : u \in raced' /\ Files!Adding(j) \in raced'
         /\ hashes' \in [FileBins -> [1 .. numHashes -> Nat]]
         /\ \A c \in FileBins : \A l \in 1 .. numHashes :
              hashes'[c][l] = IF c = b /\ l = k THEN FileBitsOf[u][k] ELSE hashes[c][l]
         /\ \A c \in FileBins : filter[c] \subseteq filter'[c]
         /\ k > numHashes => hashes[b][k - numHashes] \in filter'[b]
         /\ adders' \in [Files!Segment -> [todo : SUBSET Nat, step : 0 .. 2 * numHashes - 1]]
         /\ \A j \in Files!Segment \ {i} : adders'[j] = adders[j]
         /\ k < 2 * numHashes => adders'[i].todo = adders[i].todo /\ adders'[i].step = k
         /\ k = 2 * numHashes =>
              /\ adders'[i].todo = adders[i].todo \ {Files!Least(adders[i].todo)}
              /\ adders'[i].step = 0
<1> DEFINE u == Files!Adding(i)
           b == FileBinOf[u]
           k == adders[i].step + 1
           T == [todo : SUBSET Nat, step : 0 .. 2 * numHashes - 1]
           a == IF k < 2 * numHashes THEN [adders[i] EXCEPT !.step = k]
                ELSE [todo |-> adders[i].todo \ {Files!Least(adders[i].todo)}, step |-> 0]
<1>1. /\ lost = "making" /\ lost' = lost /\ urlStore' = urlStore /\ adders[i].todo # {}
      /\ adders' = [adders EXCEPT ![i] = a]
  BY DEF Files!AddSeen
<1>2. /\ IF k <= numHashes
           THEN hashes' = [hashes EXCEPT ![b][k] = FileBitsOf[u][k]] /\ UNCHANGED filter
           ELSE /\ filter' = [filter EXCEPT ![b] = @ \cup {hashes[b][k - numHashes]}]
                /\ UNCHANGED hashes
      /\ raced' = IF k > 1 \/ Files!Inside(i) = {} THEN raced
                  ELSE raced \cup {u} \cup {Files!Adding(j) : j \in Files!Inside(i)}
  BY DEF Files!AddSeen
<1>3. urlStore \in Seq(Nat) /\ DOMAIN filter = FileBins
  BY DEF FileTypes
<1>4. u \in FileUrls /\ b \in FileBins
  BY <1>1, <1>3, AddingIs, BinOfUrl
<1>5. numHashes \in Nat \ {0} /\ FileBitsOf[u] \in [1 .. numHashes -> Nat]
  BY <1>4, FilesAssumption
<1>6. adders \in [Files!Segment -> T] /\ hashes \in [FileBins -> [1 .. numHashes -> Nat]]
  BY <1>1 DEF Making, MakingTypes
<1>7. adders[i] \in T /\ k \in 1 .. 2 * numHashes
  BY <1>5, <1>6
<1> HIDE DEF u, b
<1>8. /\ hashes' \in [FileBins -> [1 .. numHashes -> Nat]]
      /\ \A c \in FileBins : \A l \in 1 .. numHashes :
           hashes'[c][l] = IF c = b /\ l = k THEN FileBitsOf[u][k] ELSE hashes[c][l]
  <2>1. CASE k <= numHashes
    <3> DEFINE h == [hashes[b] EXCEPT ![k] = FileBitsOf[u][k]]
    <3>1. hashes' = [hashes EXCEPT ![b] = h]
      BY <1>2, <2>1
    <3>2. k \in 1 .. numHashes
      BY <1>7, <2>1
    <3>3. h \in [1 .. numHashes -> Nat] /\ \A l \in 1 .. numHashes :
            h[l] = IF l = k THEN FileBitsOf[u][k] ELSE hashes[b][l]
      BY <1>4, <1>5, <1>6, <3>2
    <3> HIDE DEF h, k
    <3>4. QED
      BY <1>4, <1>6, <3>1, <3>3
  <2>2. CASE ~(k <= numHashes)
    <3>1. \A l \in 1 .. numHashes : l # k
      BY <1>5, <1>7, <2>2
    <3>2. QED
      BY <1>2, <1>6, <2>2, <3>1
  <2>3. QED
    BY <2>1, <2>2
<1>9. /\ \A c \in FileBins : filter[c] \subseteq filter'[c]
      /\ k > numHashes => hashes[b][k - numHashes] \in filter'[b]
  <2>1. CASE k <= numHashes
    BY <1>2, <1>5, <1>7, <2>1
  <2>2. CASE ~(k <= numHashes)
    BY <1>2, <1>3, <1>4, <2>2
  <2>3. QED
    BY <2>1, <2>2
<1>10. raced \subseteq raced' /\ (k = 1 => \A j \in Files!Inside(i) : u \in raced' /\ Files!Adding(j) \in raced')
  BY <1>2
<1>11. a \in T /\ (k < 2 * numHashes => a.todo = adders[i].todo /\ a.step = k)
       /\ (k = 2 * numHashes =>
             a.todo = adders[i].todo \ {Files!Least(adders[i].todo)} /\ a.step = 0)
  <2>1. CASE k < 2 * numHashes
    <3>1. a = [adders[i] EXCEPT !.step = k]
      BY <2>1
    <3>2. k \in 0 .. 2 * numHashes - 1
      BY <1>5, <1>7, <2>1
    <3> HIDE DEF a, k
    <3>3. QED
      BY <1>5, <1>7, <2>1, <3>1, <3>2
  <2>2. CASE ~(k < 2 * numHashes)
    <3>1. a = [todo |-> adders[i].todo \ {Files!Least(adders[i].todo)}, step |-> 0]
      BY <2>2
    <3>2. 0 \in 0 .. 2 * numHashes - 1
      BY <1>5
    <3> HIDE DEF a, k
    <3>3. QED
      BY <1>7, <2>2, <3>1, <3>2
  <2>3. QED
    BY <2>1, <2>2
<1> HIDE DEF a, T
<1>12. adders' \in [Files!Segment -> T] /\ adders'[i] = a
       /\ \A j \in Files!Segment \ {i} : adders'[j] = adders[j]
  BY <1>1, <1>6, <1>11
<1>13. QED
  BY <1>1, <1>4, <1>7, <1>8, <1>9, <1>10, <1>11, <1>12 DEF u, b, T

(* addSeen keeps the invariant: what it has computed stays in the array    *)
(* unless another thread is in addSeen for the same filter.                *)
LEMMA AddSeenMaking ==
  ASSUME Making, FileTypes, NEW i \in Files!Segment, Files!AddSeen(i)
  PROVE  Making'
<1> DEFINE u == Files!Adding(i)
           b == FileBinOf[u]
           k == adders[i].step + 1
<1>1. /\ lost = "making" /\ lost' = "making" /\ urlStore' = urlStore
      /\ u \in FileUrls /\ b \in FileBins /\ k \in 1 .. 2 * numHashes
      /\ adders[i].todo # {} /\ raced \subseteq raced'
      /\ k = 1 => \A j \in Files!Inside(i) : u \in raced' /\ Files!Adding(j) \in raced'
      /\ hashes' \in [FileBins -> [1 .. numHashes -> Nat]]
      /\ \A c \in FileBins : \A l \in 1 .. numHashes :
           hashes'[c][l] = IF c = b /\ l = k THEN FileBitsOf[u][k] ELSE hashes[c][l]
      /\ \A c \in FileBins : filter[c] \subseteq filter'[c]
      /\ k > numHashes => hashes[b][k - numHashes] \in filter'[b]
  BY AddSeenStep
<1>2. /\ adders' \in [Files!Segment -> [todo : SUBSET Nat, step : 0 .. 2 * numHashes - 1]]
      /\ \A j \in Files!Segment \ {i} : adders'[j] = adders[j]
      /\ k < 2 * numHashes => adders'[i].todo = adders[i].todo /\ adders'[i].step = k
      /\ k = 2 * numHashes =>
           /\ adders'[i].todo = adders[i].todo \ {Files!Least(adders[i].todo)}
           /\ adders'[i].step = 0
  BY AddSeenStep
<1>3. /\ urlStore \in Seq(Nat) /\ numHashes \in Nat \ {0}
      /\ Finding /\ Added /\ Computed /\ Alone
      /\ adders \in [Files!Segment -> [todo : SUBSET Nat, step : 0 .. 2 * numHashes - 1]]
  BY <1>1, FilesAssumption DEF FileTypes, Making, MakingTypes
<1>4. ASSUME NEW j \in Files!Segment
      PROVE  Files!Seen(j)' = Files!Seen(j)
  BY <1>1 DEF Files!Seen, Files!Found, Files!SegmentStart, Files!SegmentSize
<1>5. ASSUME NEW j \in Files!Segment \ {i}
      PROVE  Files!Adding(j)' = Files!Adding(j) /\ (InAddSeen(j)' <=> InAddSeen(j))
  BY <1>1, <1>2 DEF Files!Adding, InAddSeen
<1>6. k < 2 * numHashes => Files!Adding(i)' = u /\ InAddSeen(i)'
  BY <1>1, <1>2 DEF Files!Adding, InAddSeen
<1>7. k = 2 * numHashes => ~InAddSeen(i)'
  BY <1>2 DEF InAddSeen
<1>8. k < 2 * numHashes \/ k = 2 * numHashes
  <2>1. k \in 1 .. 2 * numHashes /\ numHashes \in Nat
    BY <1>1, <1>3
  <2> HIDE DEF k
  <2>2. QED
    BY <2>1
<1>9. k > 1 <=> InAddSeen(i)
  BY <1>3 DEF InAddSeen
<1> DEFINE o == Files!Least(adders[i].todo)
<1>10. /\ o \in adders[i].todo
       /\ \A v \in FileUrls : Files!Names(urlStore, o, v) => v = u
  BY <1>1, <1>3, AddingIs
<1> HIDE DEF u, b, k, o
<1>11. MakingTypes'
  BY <1>1, <1>2 DEF MakingTypes
<1>12. Finding'
  <2> SUFFICES ASSUME NEW j \in Files!Segment
               PROVE  adders'[j].todo \subseteq Files!Seen(j) /\ (InAddSeen(j)' => adders'[j].todo # {})
    BY <1>4 DEF Finding
  <2>1. adders[j].todo \subseteq Files!Seen(j) /\ (InAddSeen(j) => adders[j].todo # {})
    BY <1>3 DEF Finding
  <2>2. CASE j = i
    BY <1>1, <1>2, <1>7, <1>8, <2>1, <2>2
  <2>3. CASE j # i
    BY <1>2, <1>5, <2>1, <2>3
  <2>4. QED
    BY <2>2, <2>3
(* What thread i has computed, as long as nobody else is in the bin        *)
<1>13. ASSUME u \notin raced'
       PROVE  \A l \in 1 .. numHashes :
                /\ l <= k => hashes'[b][l] = FileBitsOf[u][l]
                /\ l + numHashes <= k => FileBitsOf[u][l] \in filter'[b]
  <2>1. u \notin raced
    BY <1>1, <1>13
  <2>2. adders[i].step = k - 1 /\ k \in Nat
    BY <1>1, <1>3 DEF k
  <2>3. k > 1 => \A l \in 1 .. numHashes :
                   /\ l <= k - 1 => hashes[b][l] = FileBitsOf[u][l]
                   /\ l + numHashes <= k - 1 => FileBitsOf[u][l] \in filter[b]
    <3>1. ComputedBy(i)
      BY <1>3 DEF Computed
    <3>2. QED
      BY <1>9, <2>1, <2>2, <3>1 DEF ComputedBy, u, b
  <2> SUFFICES ASSUME NEW l \in 1 .. numHashes
               PROVE  /\ l <= k => hashes'[b][l] = FileBitsOf[u][l]
                      /\ l + numHashes <= k => FileBitsOf[u][l] \in filter'[b]
    OBVIOUS
  <2>4. l <= k => hashes'[b][l] = FileBitsOf[u][l]
    <3>1. CASE l = k
      BY <1>1, <3>1
    <3>2. CASE l # k
      <4>1. l <= k => k > 1 /\ l <= k - 1
        BY <2>2, <3>2
      <4>2. hashes'[b][l] = hashes[b][l]
        BY <1>1, <3>2
      <4>3. QED
        BY <2>3, <4>1, <4>2
    <3>3. QED
      BY <3>1, <3>2
  <2>5. l + numHashes <= k => FileBitsOf[u][l] \in filter'[b]
    <3>1. CASE l + numHashes = k
      <4>1. k > numHashes /\ k - numHashes = l /\ k > 1 /\ l <= k - 1
        BY <1>3, <2>2, <3>1
      <4>2. hashes[b][l] = FileBitsOf[u][l] /\ hashes[b][k - numHashes] \in filter'[b]
        BY <1>1, <2>3, <4>1
      <4>3. QED
        BY <4>1, <4>2
    <3>2. CASE l + numHashes # k
      <4>1. l + numHashes <= k => k > 1 /\ l + numHashes <= k - 1
        BY <1>3, <2>2, <3>2
      <4>2. QED
        BY <1>1, <2>3, <4>1
    <3>3. QED
      BY <3>1, <3>2
  <2>6. QED
    BY <2>4, <2>5
<1>14. Added'
  <2> SUFFICES ASSUME NEW j \in Files!Segment, NEW p \in Files!Seen(j) \ adders'[j].todo,
                      NEW v \in FileUrls \ raced', Files!Names(urlStore, p, v)
               PROVE  FilterHas(v)'
    BY <1>1, <1>4 DEF Added
  <2>1. FileBinOf[v] \in FileBins /\ v \notin raced
    BY <1>1, BinOfUrl
  <2>2. CASE p \notin adders[j].todo
    <3>1. FilterHas(v)
      BY <1>3, <2>1, <2>2 DEF Added
    <3>2. QED
      BY <1>1, <2>1, <3>1 DEF FilterHas
  <2>3. CASE p \in adders[j].todo
    <3>1. j = i /\ k = 2 * numHashes /\ p = o
      BY <1>2, <1>8, <2>3 DEF o
    <3>2. v = u
      BY <1>10, <3>1
    <3>3. \A l \in 1 .. numHashes : l + numHashes <= k
      BY <1>3, <3>1
    <3>4. QED
      BY <1>13, <3>2, <3>3 DEF FilterHas, b
  <2>4. QED
    BY <2>2, <2>3
<1>15. Alone'
  <2> SUFFICES ASSUME NEW j \in Files!Segment, InAddSeen(j)', NEW h \in Files!Inside(j)'
               PROVE  Files!Adding(j)' \in raced' /\ Files!Adding(h)' \in raced'
    BY DEF Alone
  <2>1. /\ h \in Files!Segment \ {j} /\ InAddSeen(h)'
        /\ FileBinOf[Files!Adding(h)'] = FileBinOf[Files!Adding(j)']
    BY DEF Files!Inside, InAddSeen
  (* Both may change places: i is one of them, or neither.                 *)
  <2>2. ASSUME NEW g \in Files!Segment \ {i}, InAddSeen(g), InAddSeen(i)',
               FileBinOf[Files!Adding(g)] = FileBinOf[Files!Adding(i)']
        PROVE  Files!Adding(g) \in raced' /\ Files!Adding(i)' \in raced'
    <3>1. Files!Adding(i)' = u
      BY <1>6, <1>7, <1>8, <2>2
    <3>2. g \in Files!Inside(i)
      BY <2>2, <3>1 DEF Files!Inside, InAddSeen, u
    <3>3. CASE k = 1
      BY <1>1, <3>1, <3>2, <3>3
    <3>4. CASE k # 1
      <4>1. InAddSeen(i)
        BY <1>1, <1>9, <3>4
      <4>2. u \in raced /\ Files!Adding(g) \in raced
        BY <1>3, <3>2, <4>1 DEF Alone, u
      <4>3. QED
        BY <1>1, <3>1, <4>2
    <3>5. QED
      BY <3>3, <3>4
  <2>3. CASE j = i
    <3>1. h \in Files!Segment \ {i} /\ InAddSeen(h) /\ Files!Adding(h)' = Files!Adding(h)
      BY <1>5, <2>1, <2>3
    <3>2. QED
      BY <2>1, <2>2, <2>3, <3>1
  <2>4. CASE h = i
    <3>1. j \in Files!Segment \ {i} /\ InAddSeen(j) /\ Files!Adding(j)' = Files!Adding(j)
      BY <1>5, <2>1, <2>4
    <3>2. QED
      BY <2>1, <2>2, <2>4, <3>1
  <2>5. CASE j # i /\ h # i
    <3>1. /\ Files!Adding(j)' = Files!Adding(j) /\ InAddSeen(j)
          /\ Files!Adding(h)' = Files!Adding(h) /\ InAddSeen(h)
      BY <1>5, <2>1, <2>5
    <3>2. h \in Files!Inside(j)
      BY <2>1, <3>1 DEF Files!Inside, InAddSeen
    <3>3. QED
      BY <1>1, <1>3, <3>1, <3>2 DEF Alone
  <2>6. QED
    BY <2>3, <2>4, <2>5
<1>16. Computed'
  <2> SUFFICES ASSUME NEW j \in Files!Segment
               PROVE  ComputedBy(j)'
    BY DEF Computed
  <2>1. CASE j = i
    <3> SUFFICES ASSUME InAddSeen(i)', Files!Adding(i)' \notin raced'
                 PROVE  \A l \in 1 .. numHashes :
                          /\ l <= adders'[i].step => hashes'[b][l] = FileBitsOf[u][l]
                          /\ l + numHashes <= adders'[i].step => FileBitsOf[u][l] \in filter'[b]
      BY <1>6, <1>7, <1>8, <2>1 DEF ComputedBy, b
    <3>1. Files!Adding(i)' = u /\ adders'[i].step = k
      BY <1>2, <1>6, <1>7, <1>8
    <3>2. QED
      BY <1>13, <3>1
  <2>2. CASE j # i
    <3> DEFINE v == Files!Adding(j)
               c == FileBinOf[v]
    <3>1. /\ Files!Adding(j)' = v /\ (InAddSeen(j)' <=> InAddSeen(j)) /\ adders'[j] = adders[j]
      BY <1>2, <1>5, <2>2
    <3> SUFFICES ASSUME InAddSeen(j), v \notin raced', NEW l \in 1 .. numHashes
                 PROVE  /\ l <= adders[j].step => hashes'[c][l] = FileBitsOf[v][l]
                        /\ l + numHashes <= adders[j].step => FileBitsOf[v][l] \in filter'[c]
      BY <3>1 DEF ComputedBy
    <3>2. v \in FileUrls /\ c \in FileBins /\ v \notin raced
      <4>1. adders[j].todo # {}
        BY <1>3 DEF Finding
      <4>2. v \in FileUrls
        BY <1>1, <1>3, <4>1, AddingIs
      <4>3. QED
        BY <1>1, <4>2, BinOfUrl
    <3>3. /\ l <= adders[j].step => hashes[c][l] = FileBitsOf[v][l]
          /\ l + numHashes <= adders[j].step => FileBitsOf[v][l] \in filter[c]
      <4>1. ComputedBy(j)
        BY <1>3 DEF Computed
      <4>2. QED
        BY <3>2, <4>1 DEF ComputedBy
    <3> HIDE DEF v, c
    <3>4. c # b
      <4> SUFFICES ASSUME c = b
                   PROVE  FALSE
        OBVIOUS
      <4>1. j \in Files!Inside(i)
        BY <2>2, <1>1 DEF Files!Inside, InAddSeen, u, v, b, c
      <4>2. CASE k = 1
        BY <1>1, <4>1, <4>2 DEF v
      <4>3. CASE k # 1
        <5>1. InAddSeen(i)
          BY <1>1, <1>9, <4>3
        <5>2. QED
          BY <1>3, <3>2, <4>1, <5>1 DEF Alone, v
      <4>4. QED
        BY <4>2, <4>3
    <3>5. hashes'[c][l] = hashes[c][l] /\ filter[c] \subseteq filter'[c]
      BY <1>1, <3>2, <3>4
    <3>6. QED
      BY <3>3, <3>5
  <2>3. QED
    BY <2>1, <2>2
<1>17. QED
  BY <1>11, <1>12, <1>14, <1>15, <1>16 DEF Making

LEMMA MakingInit ==
  ASSUME Files!Init
  PROVE  Making
<1>1. lost = "no" /\ hashes = [b \in FileBins |-> [k \in 1 .. numHashes |-> 0]]
  BY DEF Files!Init, Files!NoHashes
<1>2. QED
  BY <1>1 DEF Making, MakingTypes

LEMMA MakeStarts ==
  ASSUME Making, FileTypes, Files!MakeBloomFilter
  PROVE  Making'
<1>1. /\ adders' = [i \in Files!Segment |-> [todo |-> Files!Seen(i), step |-> 0]]
      /\ urlStore' = urlStore /\ hashes' = hashes
  BY DEF Files!MakeBloomFilter, Files!files
<1>2. urlStore \in Seq(Nat) /\ numHashes \in Nat \ {0}
  BY FilesAssumption DEF FileTypes
<1>3. MakingTypes'
  <2>1. 0 \in 0 .. 2 * numHashes - 1 /\ \A i \in Files!Segment : Files!Seen(i) \in SUBSET Nat
    BY <1>2, SeenPlaces
  <2>2. QED
    BY <1>1, <2>1 DEF Making, MakingTypes
<1>4. ASSUME NEW i \in Files!Segment
      PROVE  adders'[i].todo = Files!Seen(i)' /\ ~InAddSeen(i)'
  <2>1. Files!Seen(i)' = Files!Seen(i)
    BY <1>1 DEF Files!Seen, Files!Found, Files!SegmentStart, Files!SegmentSize
  <2>2. QED
    BY <1>1, <2>1 DEF InAddSeen
<1>5. Finding' /\ Added'
  BY <1>4 DEF Finding, Added
<1>6. Computed' /\ Alone'
  BY <1>4 DEF Computed, ComputedBy, Alone
<1>7. QED
  BY <1>3, <1>5, <1>6 DEF Making

LEMMA MakingStep ==
  ASSUME Making, FileTypes, Files!Next
  PROVE  Making'
<1>1. CASE Files!MakeBloomFilter
  BY <1>1, MakeStarts
<1>2. ASSUME NEW i \in Files!Segment, Files!AddSeen(i)
      PROVE  Making'
  BY <1>2, AddSeenMaking
<1>3. ASSUME NEW removed \in BOOLEAN, Files!Crash(removed)
      PROVE  Making'
  <2>1. lost' # "making" /\ hashes' = [b \in FileBins |-> [k \in 1 .. numHashes |-> 0]]
    BY <1>3 DEF Files!Crash, Files!NoHashes
  <2>2. QED
    BY <2>1 DEF Making, MakingTypes
<1>4. CASE Files!FilterMade
  <2>1. lost' # "making" /\ hashes' = [b \in FileBins |-> [k \in 1 .. numHashes |-> 0]]
    BY <1>4 DEF Files!FilterMade, Files!NoHashes
  <2>2. QED
    BY <2>1 DEF Making, MakingTypes
<1>5. ASSUME NEW b \in FileBins, Files!Bin(b)
      PROVE  Making'
  <2>1. lost' = lost /\ lost # "making" /\ hashes' = hashes
    BY <1>5 DEF Files!Bin, Files!making, Files!TryInsert, Files!SetBit, Files!Reserve, Files!Copy,
                Files!Push, Files!Fill, Files!GetUrl, Files!Pick, Files!Overwrite, Files!PopBack,
                Files!Return
  <2>2. QED
    BY <2>1 DEF Making, MakingTypes
<1>6. QED
  BY <1>1, <1>2, <1>3, <1>4, <1>5, Zenon DEF Files!Next

LEMMA MakingStutter ==
  ASSUME Making, UNCHANGED filesVars
  PROVE  Making'
<1>1. UNCHANGED <<urlStore, filter, lost, adders, hashes, raced>>
  BY DEF filesVars
<1>2. ASSUME NEW i \in Files!Segment
      PROVE  /\ Files!Seen(i)' = Files!Seen(i) /\ Files!Adding(i)' = Files!Adding(i)
             /\ (InAddSeen(i)' <=> InAddSeen(i))
  BY <1>1 DEF Files!Seen, Files!Found, Files!SegmentStart, Files!SegmentSize, Files!Adding, InAddSeen
<1>3. ASSUME NEW i \in Files!Segment
      PROVE  Files!Inside(i)' = Files!Inside(i)
  BY <1>1, <1>2 DEF Files!Inside
<1>4. MakingTypes' <=> MakingTypes
  BY <1>1 DEF MakingTypes
<1>5. (Finding' <=> Finding) /\ (Added' <=> Added)
  BY <1>1, <1>2 DEF Finding, Added, FilterHas
<1>6. (Computed' <=> Computed) /\ (Alone' <=> Alone)
  <2>1. Computed' <=> Computed
    BY <1>1, <1>2 DEF Computed, ComputedBy
  <2>2. ASSUME NEW i \in Files!Segment
        PROVE  \A j \in Files!Inside(i) : Files!Adding(j)' = Files!Adding(j)
    BY <1>2 DEF Files!Inside
  <2>3. Alone' <=> Alone
    BY <1>1, <1>2, <1>3, <2>2 DEF Alone
  <2>4. QED
    BY <2>1, <2>3
<1>7. QED
  BY <1>1, <1>4, <1>5, <1>6 DEF Making

(* When all threads have finished, what they found is in the filters.      *)
LEMMA MadeRestores ==
  ASSUME Making, FileTypes, Files!FilterMade,
         NEW u \in FileUrls \ raced, NEW o \in 1 .. Len(urlStore) - 2,
         Files!Names(urlStore, o, u), urlStore[o] = 0,
         NEW i \in 0 .. Segments - 1,
         o \in Files!SegmentStart(i) + 1 .. Files!SegmentStart(i) + Files!SegmentSize - 1
  PROVE  \A k \in DOMAIN FileBitsOf[u] : FileBitsOf[u][k] \in filter'[FileBinOf[u]]
<1>1. lost = "making" /\ filter' = filter /\ \A j \in Files!Segment : adders[j].todo = {}
  BY DEF Files!FilterMade, Files!files
<1>2. i \in Files!Segment
  BY DEF Files!Segment
<1>3. /\ Files!SegmentStart(i) \in Int /\ Files!SegmentSize \in Int /\ o \in Int
      /\ urlStore \in Seq(Nat)
  <2>1. i \in Nat /\ Len(urlStore) \in Nat /\ Segments \in Nat \ {0} /\ urlStore \in Seq(Nat)
    BY FilesAssumption DEF FileTypes
  <2>2. i * Len(urlStore) \in Nat
    BY <2>1, Product
  <2>3. QED
    BY <2>1, <2>2, Quotient DEF Files!SegmentStart, Files!SegmentSize
<1>4. o \in Files!Seen(i)
  <2>1. o - 1 \in Files!SegmentStart(i) .. Files!SegmentStart(i) + Files!SegmentSize - 2
    BY <1>3
  <2>2. o - 1 + 1 = o
    BY <1>3
  <2>3. o - 1 \in Files!Found(i)
    BY <2>1, <2>2 DEF Files!Found
  <2>4. QED
    BY <2>2, <2>3 DEF Files!Seen
<1>5. FilterHas(u)
  BY <1>1, <1>2, <1>4 DEF Making, Added
<1>6. QED
  BY <1>1, <1>5, BinOfUrl DEF FilterHas

(* When the filters are made again, they have every URL whose string       *)
(* make_bloom_filter can find, but for those that were added at once, for  *)
(* any number of threads, URLs, bins and positions.                        *)
THEOREM FiltersAreRestored == MCSpec => SeenRestored
<1> DEFINE Inv == FilesInv /\ Making
           A == Files!FilterMade =>
                  \A u \in FileUrls \ raced : \A o \in 1 .. Len(urlStore) - 2 :
                    (/\ Files!Names(urlStore, o, u) /\ urlStore[o] = 0
                     /\ \E i \in 0 .. Segments - 1 :
                          o \in Files!SegmentStart(i) + 1
                                  .. Files!SegmentStart(i) + Files!SegmentSize - 1)
                    => \A k \in DOMAIN FileBitsOf[u] : FileBitsOf[u][k] \in filter'[FileBinOf[u]]
<1>1. MCInit => Inv
  BY FilesInit, MakingInit DEF MCInit
<1>2. Inv /\ [MCNext]_mcVars => Inv'
  <2> SUFFICES ASSUME Inv, [MCNext]_mcVars
               PROVE  Inv'
    OBVIOUS
  <2>1. FileTypes
    BY DEF FilesInv, Layout
  <2>2. CASE Files!Next
    BY <2>1, <2>2, FilesStep, MakingStep
  <2>3. CASE UNCHANGED filesVars
    <3>1. FilesInv'
      BY <2>3, FilesStutter
    <3>2. Making'
      BY <2>3, MakingStutter
    <3>3. QED
      BY <3>1, <3>2
  <2>4. QED
    BY <2>2, <2>3 DEF MCNext, mcVars
<1>3. Inv => [A]_Files!vars
  BY MadeRestores DEF FilesInv, Layout
<1>4. QED
  BY <1>1, <1>2, <1>3, PTL DEF MCSpec, SeenRestored, Files!SeenRestored

=============================================================================
