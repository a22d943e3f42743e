------------------------------ MODULE Frontier ------------------------------
(***************************************************************************)
(* The master's URL frontier (src/frontier.cpp, include/disk/frontier.hpp, *)
(* include/fb/bloom_filter.hpp, include/disk/disk_vec.hpp).                *)
(*                                                                         *)
(* Handler threads add the links of parsed pages to the bins' toAddQueue   *)
(* and take URLs out of the bins' toParse vector.  Every bin has a thread  *)
(* that moves the queued batches through its Bloom filter into toParse.    *)
(* The main thread shuts the bins down.  A step is what a thread does      *)
(* between two operations on a mutex or a condition variable.              *)
(*                                                                         *)
(* fb::Mutex is a pthread mutex without error checking, so unlocking it    *)
(* frees it whoever holds it: a mutex is a Boolean and has no owner.       *)
(* fb::CV::wait on a mutex the caller does not hold does the same, and so  *)
(* two threads may use a toAddQueue at once.  What is left of the vector   *)
(* then is undefined, and any of its batches may be gone from then on      *)
(* (crossed, Only).  That may also kill the process; it takes no more      *)
(* steps then, as Spec allows, and FairSpec speaks of one that lives.      *)
(***************************************************************************)
EXTENDS Naturals, Sequences, FiniteSets, SequencesExt

CONSTANTS NumFrontierBins,  \* number of bins
          Urls,             \* the URLs that links can name
          HashBin,          \* [Urls -> Bins], fnvHash(url) % NumFrontierBins
          HashBits,         \* [Urls -> sets of Bloom filter positions]
          Handlers,         \* the handle_socket_helper threads of the master
          NumPicks,         \* NUM_TRY - NUM_SAMPLE, tries of one getUrl
          MaxLinks,         \* bound: links of one call of addUrls for one bin
          MaxAdds,          \* bound: calls of addUrls
          MaxSpurious       \* bound: spurious wakeups of the bin threads

Bins == 0 .. NumFrontierBins - 1

ASSUME NumFrontierBinsAssumption == NumFrontierBins \in Nat \ {0}
ASSUME HashAssumption == /\ HashBin \in [Urls -> Bins]
                         /\ DOMAIN HashBits = Urls
ASSUME BoundsAssumption == /\ NumPicks \in Nat
                           /\ MaxLinks \in Nat
                           /\ MaxAdds \in Nat
                           /\ MaxSpurious \in Nat

VARIABLES
  toAddQueue,       \* [Bins -> Seq(batches)], a batch is a sequence of URLs
  toAddQueueM,      \* [Bins -> BOOLEAN], is the mutex of toAddQueue locked?
  toParse,          \* [Bins -> Seq(Urls)]
  toParseM,         \* [Bins -> BOOLEAN]
  bloom,            \* [Bins -> set of Bloom filter positions that are set]
  doShutdownM,      \* is the mutex of doShutdown locked?
  doShutdown,
  numBinsShutdown,
  binPc,            \* where the thread of each bin is
  temp,             \* the batches it took from the queue, popped from the back
  urls,             \* what is left of the batch it is adding
  hPc,              \* where each handler thread is
  hBin,             \* the bin it works on
  buffers,          \* [Handlers -> [Bins -> Seq(Urls)]], buffers of addUrls
  hIdx,             \* the index getUrl drew
  hTries,           \* the tries getUrl has left
  getCounter,       \* modulo the number of bins, its only use
  mPc,              \* where the main thread is in Frontier::shutdown
  mBin,             \* the next bin it signals
  given,            \* history: URLs that addUrls was called with
  freed,            \* history: bins whose wait unlocked toAddQueueM while
                    \* another thread held it, until none holds it any more
  crossed,          \* history: bins whose toAddQueue two threads used at once
  handed,           \* history: [Urls -> Nat], how often getUrl returned a URL
  adds, spurious    \* counters of the bounds

queueVars   == <<toAddQueue, toAddQueueM, freed, crossed>>
storeVars   == <<toParse, toParseM, bloom, handed>>
shutVars    == <<doShutdownM, doShutdown, numBinsShutdown>>
binVars     == <<binPc, temp, urls>>
handlerVars == <<hPc, hBin, buffers, hIdx, hTries, getCounter, given, adds>>
mainVars    == <<mPc, mBin>>
vars == <<queueVars, storeVars, shutVars, binVars, handlerVars, mainVars,
          spurious>>

(* The links of one call of addUrls, in the buffers of their bins          *)
Sorted ==
  {sorted \in [Bins -> SeqOf(Urls, MaxLinks)] :
     \A b \in Bins, u \in Urls : u \in ToSet(sorted[b]) => HashBin[u] = b}

(* Everything starts when Frontier::init has created the bins and their    *)
(* threads on fresh files.                                                 *)
Init ==
  /\ toAddQueue = [b \in Bins |-> <<>>]
  /\ toAddQueueM = [b \in Bins |-> FALSE]
  /\ toParse = [b \in Bins |-> <<>>]
  /\ toParseM = [b \in Bins |-> FALSE]
  /\ bloom = [b \in Bins |-> {}]
  /\ doShutdownM = FALSE
  /\ doShutdown = FALSE
  /\ numBinsShutdown = 0
  /\ binPc = [b \in Bins |-> "lock"]
  /\ temp = [b \in Bins |-> <<>>]
  /\ urls = [b \in Bins |-> <<>>]
  /\ hPc = [h \in Handlers |-> "idle"]
  /\ hBin = [h \in Handlers |-> 0]
  /\ buffers = [h \in Handlers |-> [b \in Bins |-> <<>>]]
  /\ hIdx = [h \in Handlers |-> 0]
  /\ hTries = [h \in Handlers |-> 0]
  /\ getCounter = 0
  /\ mPc = "running"
  /\ mBin = 0
  /\ given = {}
  /\ freed = {} /\ crossed = {}
  /\ handed = [u \in Urls |-> 0]
  /\ adds = 0
  /\ spurious = 0

-----------------------------------------------------------------------------
(* The thread of a bin: addQueueToToParsed                                 *)

BinGoto(b, l) == binPc' = [binPc EXCEPT ![b] = l]

(* The handlers that have locked toAddQueueM and not unlocked it yet, and  *)
(* those of them that are in pushBack                                      *)
Holders(b) ==
  {h \in Handlers : hPc[h] \in {"add_push", "add_unlock"} /\ hBin[h] = b}
Pushers(b) == {h \in Handlers : hPc[h] = "add_push" /\ hBin[h] = b}
BinHolds(b) == binPc[b] \in {"test", "swap"}

(* A thread unlocks toAddQueueM, and it is the last that has locked it.    *)
UnlockQueue(b, last) ==
  /\ toAddQueueM' = [toAddQueueM EXCEPT ![b] = FALSE]
  /\ freed' = IF last /\ b \notin crossed THEN freed \ {b} ELSE freed

(* keepAddingFromQueue takes the lock of the queue, and takes it back when *)
(* its wait ends.                                                          *)
BinLockQueue(b) ==
  /\ binPc[b] \in {"lock", "woken"}
  /\ ~toAddQueueM[b]
  /\ toAddQueueM' = [toAddQueueM EXCEPT ![b] = TRUE]
  /\ BinGoto(b, "test")
  /\ UNCHANGED <<toAddQueue, freed, crossed, storeVars, shutVars, temp, urls,
                 handlerVars, mainVars, spurious>>

(* The loop test, which reads only the size of the queue.  Either way the  *)
(* queue is unlocked next.                                                 *)
BinTestQueue(b) ==
  /\ binPc[b] = "test"
  /\ UnlockQueue(b, Holders(b) = {})
  /\ BinGoto(b, IF toAddQueue[b] = <<>> THEN "shutdown_lock" ELSE "take_lock")
  /\ UNCHANGED <<toAddQueue, crossed, storeVars, shutVars, temp, urls,
                 handlerVars, mainVars, spurious>>

BinLockShutdown(b) ==
  /\ binPc[b] = "shutdown_lock"
  /\ ~doShutdownM
  /\ doShutdownM' = TRUE
  /\ BinGoto(b, "shutdown_test")
  /\ UNCHANGED <<doShutdown, numBinsShutdown, queueVars, storeVars, temp,
                 urls, handlerVars, mainVars, spurious>>

BinTestShutdown(b) ==
  /\ binPc[b] = "shutdown_test"
  /\ doShutdownM' = FALSE
  /\ BinGoto(b, IF doShutdown THEN "count" ELSE "wait")
  /\ UNCHANGED <<doShutdown, numBinsShutdown, queueVars, storeVars, temp,
                 urls, handlerVars, mainVars, spurious>>

(* Mutant of BinCount: the last bin does not signal.                       *)
BinCountSilent(b) ==
  /\ binPc[b] = "count"
  /\ numBinsShutdown' = numBinsShutdown + 1
  /\ IF numBinsShutdown + 1 = NumFrontierBins
       THEN /\ BinGoto(b, "returned")
            /\ UNCHANGED mPc
       ELSE /\ BinGoto(b, "unlock_again")
            /\ UNCHANGED mPc
  /\ UNCHANGED <<doShutdownM, doShutdown, queueVars, storeVars, temp, urls,
                 handlerVars, mBin, spurious>>

(* Only the bin that makes the count full signals the main thread and      *)
(* returns.  The count is an atomic that no mutex guards.                  *)
BinCount(b) ==
  /\ binPc[b] = "count"
  /\ numBinsShutdown' = numBinsShutdown + 1
  /\ IF numBinsShutdown + 1 = NumFrontierBins
       THEN /\ BinGoto(b, "returned")
            /\ mPc' = IF mPc = "waiting" THEN "woken" ELSE mPc
       ELSE /\ BinGoto(b, "unlock_again")
            /\ UNCHANGED mPc
  /\ UNCHANGED <<doShutdownM, doShutdown, queueVars, storeVars, temp, urls,
                 handlerVars, mBin, spurious>>

(* Mutant of BinUnlockAgain: the bin goes round without waiting, and is    *)
(* counted again.                                                          *)
BinUnlockAgainAwake(b) ==
  /\ binPc[b] = "unlock_again"
  /\ doShutdownM' = FALSE
  /\ BinGoto(b, "lock")
  /\ UNCHANGED <<doShutdown, numBinsShutdown, queueVars, storeVars, temp,
                 urls, handlerVars, mainVars, spurious>>

(* The other bins unlock doShutdownM a second time.                        *)
BinUnlockAgain(b) ==
  /\ binPc[b] = "unlock_again"
  /\ doShutdownM' = FALSE
  /\ BinGoto(b, "wait")
  /\ UNCHANGED <<doShutdown, numBinsShutdown, queueVars, storeVars, temp,
                 urls, handlerVars, mainVars, spurious>>

(* toAddQueueCV.wait(toAddQueueM) by a thread that no longer holds         *)
(* toAddQueueM: the mutex ends up free.                                    *)
BinWait(b) ==
  /\ binPc[b] = "wait"
  /\ toAddQueueM' = [toAddQueueM EXCEPT ![b] = FALSE]
  /\ freed' = IF toAddQueueM[b] THEN freed \cup {b} ELSE freed
  /\ BinGoto(b, "waiting")
  /\ UNCHANGED <<toAddQueue, crossed, storeVars, shutVars, temp, urls,
                 handlerVars, mainVars, spurious>>

(* POSIX lets pthread_cond_wait return without a signal.                   *)
BinSpuriousWakeup(b) ==
  /\ binPc[b] = "waiting"
  /\ spurious < MaxSpurious
  /\ spurious' = spurious + 1
  /\ BinGoto(b, "woken")
  /\ UNCHANGED <<queueVars, storeVars, shutVars, temp, urls, handlerVars,
                 mainVars>>

(* addToFrontierFromQueue takes the whole queue under its lock, ...        *)
BinLockTake(b) ==
  /\ binPc[b] = "take_lock"
  /\ ~toAddQueueM[b]
  /\ toAddQueueM' = [toAddQueueM EXCEPT ![b] = TRUE]
  /\ crossed' = IF Pushers(b) # {} THEN crossed \cup {b} ELSE crossed
  /\ BinGoto(b, "swap")
  /\ UNCHANGED <<toAddQueue, freed, storeVars, shutVars, temp, urls,
                 handlerVars, mainVars, spurious>>

(* A vector of which only the batches at K are left                        *)
Only(batches, K) ==
  [i \in DOMAIN batches |-> IF i \in K THEN batches[i] ELSE <<>>]

(* Each batch of a vector that was used by two threads at once is in temp, *)
(* or nowhere, or still in the queue if the other thread is not done.      *)
BinSwap(b) ==
  /\ binPc[b] = "swap"
  /\ \E taken, left \in SUBSET DOMAIN toAddQueue[b] :
       /\ taken \cap left = {}
       /\ b \notin crossed => taken = DOMAIN toAddQueue[b]
       /\ Holders(b) = {} => left = {}
       /\ temp' = [temp EXCEPT ![b] = Only(toAddQueue[b], taken)]
       /\ toAddQueue' = [toAddQueue EXCEPT ![b] =
                           IF left = {} THEN <<>> ELSE Only(@, left)]
  /\ UnlockQueue(b, Holders(b) = {})
  /\ BinGoto(b, "batch")
  /\ UNCHANGED <<crossed, storeVars, shutVars, urls, handlerVars,
                 mainVars, spurious>>

(* ... and adds one batch after the other, the last one first.             *)
BinLockToParse(b) ==
  /\ binPc[b] = "batch"
  /\ temp[b] # <<>>
  /\ ~toParseM[b]
  /\ toParseM' = [toParseM EXCEPT ![b] = TRUE]
  /\ urls' = [urls EXCEPT ![b] = Last(temp[b])]
  /\ temp' = [temp EXCEPT ![b] = Front(temp[b])]
  /\ BinGoto(b, "add")
  /\ UNCHANGED <<toParse, bloom, handed, queueVars, shutVars, handlerVars,
                 mainVars, spurious>>

BinBatchesDone(b) ==
  /\ binPc[b] = "batch"
  /\ temp[b] = <<>>
  /\ BinGoto(b, "lock")
  /\ UNCHANGED <<queueVars, storeVars, shutVars, temp, urls, handlerVars,
                 mainVars, spurious>>

(* bloom.tryInsert finds a position that is not set, sets them all and the *)
(* URL is appended to toParse ...                                          *)
BinAddNew(b) ==
  /\ binPc[b] = "add"
  /\ urls[b] # <<>>
  /\ ~(HashBits[Head(urls[b])] \subseteq bloom[b])
  /\ bloom' = [bloom EXCEPT ![b] = @ \cup HashBits[Head(urls[b])]]
  /\ toParse' = [toParse EXCEPT ![b] = Append(@, Head(urls[b]))]
  /\ urls' = [urls EXCEPT ![b] = Tail(@)]
  /\ UNCHANGED <<toParseM, handed, queueVars, shutVars, binPc, temp,
                 handlerVars, mainVars, spurious>>

(* ... or it finds them all set, and the URL is skipped.                   *)
BinSkipSeen(b) ==
  /\ binPc[b] = "add"
  /\ urls[b] # <<>>
  /\ HashBits[Head(urls[b])] \subseteq bloom[b]
  /\ urls' = [urls EXCEPT ![b] = Tail(@)]
  /\ UNCHANGED <<storeVars, queueVars, shutVars, binPc, temp, handlerVars,
                 mainVars, spurious>>

BinUnlockToParse(b) ==
  /\ binPc[b] = "add"
  /\ urls[b] = <<>>
  /\ toParseM' = [toParseM EXCEPT ![b] = FALSE]
  /\ BinGoto(b, "batch")
  /\ UNCHANGED <<toParse, bloom, handed, queueVars, shutVars, temp, urls,
                 handlerVars, mainVars, spurious>>

BinThread(b) ==
  \/ BinLockQueue(b)    \/ BinTestQueue(b)
  \/ BinLockShutdown(b) \/ BinTestShutdown(b)
  \/ BinCount(b)        \/ BinUnlockAgain(b)
  \/ BinWait(b)
  \/ BinLockTake(b)     \/ BinSwap(b)
  \/ BinLockToParse(b)  \/ BinBatchesDone(b)
  \/ BinAddNew(b)       \/ BinSkipSeen(b)
  \/ BinUnlockToParse(b)

-----------------------------------------------------------------------------
(* The handler threads.  terminate_workers has ended them all before the   *)
(* main thread calls Frontier::shutdown (module HandleSocket).             *)

HandlerGoto(h, l) == hPc' = [hPc EXCEPT ![h] = l]

(* addUrls sorts the links of the received pages into one buffer per bin.  *)
AddUrls(h, sorted) ==
  /\ hPc[h] = "idle"
  /\ mPc = "running"
  /\ adds < MaxAdds
  /\ adds' = adds + 1
  /\ given' = given \cup UNION {ToSet(sorted[b]) : b \in Bins}
  /\ buffers' = [buffers EXCEPT ![h] = sorted]
  /\ hBin' = [hBin EXCEPT ![h] = 0]
  /\ HandlerGoto(h, "add_lock")
  /\ UNCHANGED <<hIdx, hTries, getCounter, queueVars,
                 storeVars, shutVars, binVars, mainVars, spurious>>

(* addToQueue: the lock, ...                                              *)
AddLock(h) ==
  LET b == hBin[h] IN
  /\ hPc[h] = "add_lock"
  /\ ~toAddQueueM[b]
  /\ toAddQueueM' = [toAddQueueM EXCEPT ![b] = TRUE]
  /\ crossed' = IF Pushers(b) # {} \/ binPc[b] = "swap"
                  THEN crossed \cup {b} ELSE crossed
  /\ HandlerGoto(h, "add_push")
  /\ UNCHANGED <<toAddQueue, freed, hBin, buffers, hIdx, hTries, getCounter,
                 given, adds, storeVars, shutVars, binVars, mainVars, spurious>>

(* Mutant of AddPush: the batch replaces the queue.                        *)
AddPushOver(h) ==
  LET b == hBin[h] IN
  /\ hPc[h] = "add_push"
  /\ toAddQueue' = [toAddQueue EXCEPT ![b] = <<buffers[h][b]>>]
  /\ buffers' = [buffers EXCEPT ![h][b] = <<>>]
  /\ binPc' = [binPc EXCEPT ![b] = IF @ = "waiting" THEN "woken" ELSE @]
  /\ HandlerGoto(h, "add_unlock")
  /\ UNCHANGED <<toAddQueueM, freed, crossed, hBin, hIdx, hTries, getCounter,
                 given, adds, storeVars, shutVars, temp, urls, mainVars,
                 spurious>>

(* Mutant of AddPush: no signal.                                           *)
AddPushSilent(h) ==
  LET b == hBin[h] IN
  /\ hPc[h] = "add_push"
  /\ toAddQueue' = [toAddQueue EXCEPT ![b] = Append(@, buffers[h][b])]
  /\ buffers' = [buffers EXCEPT ![h][b] = <<>>]
  /\ HandlerGoto(h, "add_unlock")
  /\ UNCHANGED <<toAddQueueM, freed, crossed, hBin, hIdx, hTries, getCounter,
                 given, adds, storeVars, shutVars, binVars, mainVars, spurious>>

(* ... the pushBack, the signal and the unlock.                            *)
AddPush(h) ==
  LET b == hBin[h] IN
  /\ hPc[h] = "add_push"
  /\ \E K \in SUBSET (1 .. Len(toAddQueue[b]) + 1) :
       /\ b \notin crossed => K = 1 .. Len(toAddQueue[b]) + 1
       /\ toAddQueue' = [toAddQueue EXCEPT ![b] = Only(Append(@, buffers[h][b]), K)]
  /\ buffers' = [buffers EXCEPT ![h][b] = <<>>]
  /\ binPc' = [binPc EXCEPT ![b] = IF @ = "waiting" THEN "woken" ELSE @]
  /\ HandlerGoto(h, "add_unlock")
  /\ UNCHANGED <<toAddQueueM, freed, crossed, hBin, hIdx, hTries, getCounter,
                 given, adds, storeVars, shutVars, temp, urls, mainVars,
                 spurious>>

AddUnlock(h) ==
  LET b == hBin[h] IN
  /\ hPc[h] = "add_unlock"
  /\ UnlockQueue(b, Holders(b) = {h} /\ ~BinHolds(b))
  /\ IF b + 1 \in Bins
       THEN /\ hBin' = [hBin EXCEPT ![h] = b + 1]
            /\ HandlerGoto(h, "add_lock")
       ELSE /\ hBin' = [hBin EXCEPT ![h] = 0]
            /\ HandlerGoto(h, "idle")
  /\ UNCHANGED <<toAddQueue, crossed, buffers, hIdx, hTries,
                 getCounter, given, adds, storeVars, shutVars, binVars,
                 mainVars, spurious>>

(* getUrl goes round the bins.                                             *)
GetUrl(h) ==
  /\ hPc[h] = "idle"
  /\ mPc = "running"
  /\ getCounter' = (getCounter + 1) % NumFrontierBins
  /\ hBin' = [hBin EXCEPT ![h] = (getCounter + 1) % NumFrontierBins]
  /\ hTries' = [hTries EXCEPT ![h] = NumPicks]
  /\ HandlerGoto(h, "get_lock")
  /\ UNCHANGED <<buffers, hIdx, given, adds, queueVars,
                 storeVars, shutVars, binVars, mainVars, spurious>>

(* Mutant of GetLock: toParseM is not waited for.                          *)
GetLockUnguarded(h) ==
  /\ hPc[h] = "get_lock"
  /\ toParseM' = [toParseM EXCEPT ![hBin[h]] = TRUE]
  /\ HandlerGoto(h, "get_pick")
  /\ UNCHANGED <<toParse, bloom, handed, hBin, buffers, hIdx, hTries,
                 getCounter, given, adds, queueVars, shutVars,
                 binVars, mainVars, spurious>>

GetLock(h) ==
  /\ hPc[h] = "get_lock"
  /\ ~toParseM[hBin[h]]
  /\ toParseM' = [toParseM EXCEPT ![hBin[h]] = TRUE]
  /\ HandlerGoto(h, "get_pick")
  /\ UNCHANGED <<toParse, bloom, handed, hBin, buffers, hIdx, hTries,
                 getCounter, given, adds, queueVars, shutVars,
                 binVars, mainVars, spurious>>

(* A try copies the entry at a random index to urls_to_return, ...         *)
GetPick(h, i) ==
  LET b == hBin[h] IN
  /\ hPc[h] = "get_pick"
  /\ hTries[h] > 0
  /\ i \in 1 .. Len(toParse[b])
  /\ handed' = [handed EXCEPT ![toParse[b][i]] = @ + 1]
  /\ hIdx' = [hIdx EXCEPT ![h] = i]
  /\ HandlerGoto(h, "get_fill")
  /\ UNCHANGED <<toParse, toParseM, bloom, hBin, buffers, hTries,
                 getCounter, given, adds, queueVars, shutVars,
                 binVars, mainVars, spurious>>

SwapRemove(s, i) ==
  [k \in 1 .. Len(s) - 1 |-> IF k = i THEN s[Len(s)] ELSE s[k]]

(* Mutant of GetFill: the entry beside the one drawn is overwritten.       *)
GetFillBeside(h) ==
  LET b == hBin[h] IN
  /\ hPc[h] = "get_fill"
  /\ toParse' = [toParse EXCEPT ![b] = SwapRemove(@, hIdx[h] + 1)]
  /\ hTries' = [hTries EXCEPT ![h] = @ - 1]
  /\ hIdx' = [hIdx EXCEPT ![h] = 0]
  /\ HandlerGoto(h, "get_pick")
  /\ UNCHANGED <<toParseM, bloom, handed, hBin, buffers, getCounter,
                 given, adds, queueVars, shutVars, binVars,
                 mainVars, spurious>>

(* ... overwrites it with the last entry, and pops that.                   *)
GetFill(h) ==
  LET b == hBin[h] IN
  /\ hPc[h] = "get_fill"
  /\ toParse' = [toParse EXCEPT ![b] = SwapRemove(@, hIdx[h])]
  /\ hTries' = [hTries EXCEPT ![h] = @ - 1]
  /\ hIdx' = [hIdx EXCEPT ![h] = 0]
  /\ HandlerGoto(h, "get_pick")
  /\ UNCHANGED <<toParseM, bloom, handed, hBin, buffers, getCounter,
                 given, adds, queueVars, shutVars, binVars,
                 mainVars, spurious>>

GetUnlock(h) ==
  LET b == hBin[h] IN
  /\ hPc[h] = "get_pick"
  /\ hTries[h] = 0 \/ toParse[b] = <<>>
  /\ toParseM' = [toParseM EXCEPT ![b] = FALSE]
  /\ hTries' = [hTries EXCEPT ![h] = 0]
  /\ hBin' = [hBin EXCEPT ![h] = 0]
  /\ HandlerGoto(h, "idle")
  /\ UNCHANGED <<toParse, bloom, handed, buffers, hIdx, getCounter,
                 given, adds, queueVars, shutVars, binVars,
                 mainVars, spurious>>

(* What a handler thread does once it is in addUrls or getUrl.             *)
HandlerStep(h) ==
  \/ AddLock(h)  \/ AddPush(h) \/ AddUnlock(h)
  \/ GetLock(h)  \/ \E i \in DOMAIN toParse[hBin[h]] : GetPick(h, i)
  \/ GetFill(h)  \/ GetUnlock(h)

HandlerThread(h) ==
  \/ \E sorted \in Sorted : AddUrls(h, sorted)
  \/ GetUrl(h)
  \/ HandlerStep(h)

-----------------------------------------------------------------------------
(* The main thread: Frontier::shutdown                                     *)

ShutdownLock ==
  /\ mPc = "running"
  /\ \A h \in Handlers : hPc[h] = "idle"
  /\ ~doShutdownM
  /\ doShutdownM' = TRUE
  /\ doShutdown' = TRUE
  /\ mPc' = "signal"
  /\ UNCHANGED <<numBinsShutdown, mBin, queueVars, storeVars, binVars,
                 handlerVars, spurious>>

ShutdownSignal ==
  /\ mPc = "signal"
  /\ binPc' = [binPc EXCEPT ![mBin] = IF @ = "waiting" THEN "woken" ELSE @]
  /\ IF mBin + 1 \in Bins
       THEN mBin' = mBin + 1 /\ UNCHANGED mPc
       ELSE mBin' = 0 /\ mPc' = "test"
  /\ UNCHANGED <<shutVars, queueVars, storeVars, temp, urls, handlerVars,
                 spurious>>

(* The test and the wait both happen under doShutdownM, but the bins count *)
(* without it.                                                             *)
ShutdownTest ==
  /\ mPc = "test"
  /\ IF numBinsShutdown # NumFrontierBins
       THEN mPc' = "wait" /\ UNCHANGED doShutdownM
       ELSE mPc' = "returned" /\ doShutdownM' = FALSE
  /\ UNCHANGED <<doShutdown, numBinsShutdown, mBin, queueVars, storeVars,
                 binVars, handlerVars, spurious>>

ShutdownWait ==
  /\ mPc = "wait"
  /\ doShutdownM' = FALSE
  /\ mPc' = "waiting"
  /\ UNCHANGED <<doShutdown, numBinsShutdown, mBin, queueVars, storeVars,
                 binVars, handlerVars, spurious>>

ShutdownWoken ==
  /\ mPc = "woken"
  /\ ~doShutdownM
  /\ doShutdownM' = TRUE
  /\ mPc' = "test"
  /\ UNCHANGED <<doShutdown, numBinsShutdown, mBin, queueVars, storeVars,
                 binVars, handlerVars, spurious>>

MainThread ==
  ShutdownSignal \/ ShutdownTest \/ ShutdownWait \/ ShutdownWoken

Next ==
  \/ \E b \in Bins : BinThread(b) \/ BinSpuriousWakeup(b)
  \/ \E h \in Handlers : HandlerThread(h)
  \/ ShutdownLock
  \/ MainThread

Spec == Init /\ [][Next]_vars

(* A thread that can take a step takes one.  Nothing makes the operator    *)
(* shut the master down, or a worker send pages or ask for URLs.           *)
Fairness ==
  /\ \A b \in Bins : WF_vars(BinThread(b))
  /\ \A h \in Handlers : WF_vars(HandlerStep(h))
  /\ WF_vars(MainThread)

FairSpec == Spec /\ Fairness

-----------------------------------------------------------------------------
TypeOK ==
  /\ toAddQueue \in [Bins -> Seq(Seq(Urls))]
  /\ toAddQueueM \in [Bins -> BOOLEAN]
  /\ toParse \in [Bins -> Seq(Urls)]
  /\ toParseM \in [Bins -> BOOLEAN]
  /\ bloom \in [Bins -> SUBSET UNION {HashBits[u] : u \in Urls}]
  /\ doShutdownM \in BOOLEAN
  /\ doShutdown \in BOOLEAN
  /\ numBinsShutdown \in Nat
  /\ binPc \in [Bins -> {"lock", "test", "shutdown_lock", "shutdown_test",
                         "count", "unlock_again", "wait", "waiting", "woken",
                         "take_lock", "swap", "batch", "add", "returned"}]
  /\ temp \in [Bins -> Seq(Seq(Urls))]
  /\ urls \in [Bins -> Seq(Urls)]
  /\ hPc \in [Handlers -> {"idle", "add_lock", "add_push", "add_unlock",
                           "get_lock", "get_pick", "get_fill"}]
  /\ hBin \in [Handlers -> Bins]
  /\ buffers \in [Handlers -> [Bins -> Seq(Urls)]]
  /\ hIdx \in [Handlers -> Nat]
  /\ hTries \in [Handlers -> Nat]
  /\ getCounter \in Bins
  /\ mPc \in {"running", "signal", "test", "wait", "waiting", "woken",
              "returned"}
  /\ mBin \in Bins
  /\ given \in SUBSET Urls
  /\ freed \in SUBSET Bins /\ crossed \in SUBSET Bins
  /\ handed \in [Urls -> Nat]
  /\ adds \in Nat
  /\ spurious \in Nat

(* The entries of toParse that no getUrl has copied out yet.               *)
Live(b) ==
  {i \in DOMAIN toParse[b] :
     ~ \E h \in Handlers : hPc[h] = "get_fill" /\ hBin[h] = b /\ hIdx[h] = i}

(* Where a URL waits in toParse                                            *)
Waiting(u) ==
  UNION {{<<b, i>> : i \in {j \in Live(b) : toParse[b][j] = u}} : b \in Bins}

(* Over the whole life of the frontier a URL is handed to a worker at most *)
(* once, and while it is waiting in toParse it has not been handed out and *)
(* waits there once: the Bloom filter test-and-set of the bin threads and  *)
(* the swap-remove of concurrent getUrl calls never duplicate an entry.    *)
AtMostOnce == \A u \in Urls : handed[u] + Cardinality(Waiting(u)) <= 1

(* The URLs of a bin that wait in toParse or were handed out               *)
Kept(b) ==
  {toParse[b][i] : i \in Live(b)} \cup {u \in Urls : HashBin[u] = b /\ handed[u] > 0}

(* No insertion is lost: the bits of a bin's Bloom filter are those of the *)
(* URLs that wait in its toParse or were handed out.  A bit that no such   *)
(* URL explains would make the frontier refuse a URL it never kept.        *)
NothingForgotten ==
  \A b \in Bins : bloom[b] = UNION {HashBits[u] : u \in Kept(b)}

(* Where a URL that addUrls was called with can be before the Bloom filter *)
(* has seen it.                                                            *)
InBatches(batches) == UNION {ToSet(batches[i]) : i \in DOMAIN batches}

Pending(b) ==
  ToSet(urls[b]) \cup InBatches(temp[b]) \cup InBatches(toAddQueue[b])
    \cup UNION {ToSet(buffers[h][b]) : h \in Handlers}

(* A URL that addUrls was called with is on its way until the filter has   *)
(* its bits: no batch is dropped between the handlers and the bins, unless *)
(* two threads have used the toAddQueue of its bin at once, and that only  *)
(* after a wait of the bin has unlocked toAddQueueM while another thread   *)
(* held it.                                                                *)
GivenUrlsKept ==
  /\ \A u \in given :
       \/ u \in Pending(HashBin[u])
       \/ HashBits[u] \subseteq bloom[HashBin[u]]
       \/ HashBin[u] \in crossed
  /\ crossed \subseteq freed

(* Once Frontier::shutdown has returned, and the process is about to exit, *)
(* no bin thread is between setting the bits of a URL and storing it: the  *)
(* files do not change any more.  Every bin is counted once and only after *)
(* it has emptied temp, if no wakeup is spurious.                          *)
ShutdownQuiesces == [][mPc = "returned" => UNCHANGED <<bloom, toParse>>]_vars

(* A batch that a lost signal left behind is picked up when the next batch *)
(* for that bin is queued while the bin waits, if no two threads use the   *)
(* queue at once.                                                          *)
LaterAddRescues ==
  \A b \in Bins :
    (binPc[b] = "waiting" /\ toAddQueue[b] # <<>> /\ Pushers(b) # {})
      ~> (toAddQueue[b] = <<>> \/ b \in crossed)

(* If every bin waits when the main thread begins to signal the shutdown,  *)
(* Frontier::shutdown returns.                                             *)
ParkedShutdownReturns ==
  (mPc = "signal" /\ mBin = 0 /\ \A b \in Bins : binPc[b] = "waiting")
    ~> (mPc = "returned")

=============================================================================
