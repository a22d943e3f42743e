------------------------------ MODULE PageStore ------------------------------
(***************************************************************************)
(* The page store of a crawl worker (src/page_store.cpp) with the threads  *)
(* around it (src/worker_driver.cpp).                                      *)
(*                                                                         *)
(* Parser threads add pages to a queue in memory and start a bin thread    *)
(* with every numPages-th page.  A bin thread moves up to numPages pages   *)
(* from the queue to a file of its own.  The main thread tells the bins to *)
(* shut down, waits for them, and ends the process.                        *)
(*                                                                         *)
(* A file is shared memory over the disk: a crash of the process leaves it *)
(* as the last store to it did.  Pages are numbered as they are added.     *)
(***************************************************************************)
EXTENDS Naturals, Sequences, FiniteSets, SequencesExt

CONSTANTS Parsers,
          Main,           \* the main thread, and "nobody" for the mutex
          Pools,          \* sets of parsers: a worker starts those of one
          numPages,       \* pages in one file
          MaxPages,       \* bound: pages that are ever added
          MaxShared,      \* bound: the same, if there are several parsers
          MaxBins,        \* bound: bin threads of a process, and files
          MaxUpsets       \* bound: crashes of the process and spurious
                          \* wakeups of bin threads, together

ASSUME ParsersAssumption == IsFiniteSet(Parsers) /\ Main \notin Parsers
ASSUME PoolsAssumption == Pools \subseteq SUBSET Parsers
ASSUME NumPagesAssumption == numPages \in Nat /\ numPages > 1
ASSUME BoundsAssumption ==
  /\ MaxPages \in Nat /\ MaxShared \in Nat /\ MaxBins \in Nat /\ MaxUpsets \in Nat

Pages == 1 .. MaxPages
Bins == 1 .. MaxBins
NoPage == 0
NoBin == 0

VARIABLES
  PagesToAdd,         \* Seq(Pages)
  QueueMtx,           \* the bin thread that holds the mutex, or NoBin
  PagesCounter,
  NumThreads,
  need_to_shutdown,
  shutting_down,      \* of worker_url_tcp.cpp: the parsers get no more URLs
  pPc,                \* a parser thread; "none" if it is not in the pool
  bPc, P, Index, i,   \* a bin thread: its page, its file, the pages it wrote
  mPc,
  counter,            \* on disk: the files that PageStoreCounter has given out
  file,               \* on disk: [1 .. counter -> a file]
  parsed,             \* how many pages have been added
  lost,               \* history: the pages in memory when the process crashed
  crashes, spurious

queue   == <<PagesToAdd, QueueMtx>>
parsers == <<pPc, PagesCounter>>
bins    == <<bPc, P, Index, i>>
flags   == <<need_to_shutdown, shutting_down>>
disk    == <<counter, file>>
bounds  == <<parsed, lost, crashes, spurious>>
vars == <<queue, parsers, bins, NumThreads, flags, mPc, disk, bounds>>

MemoryInit ==
  /\ PagesToAdd = <<>> /\ QueueMtx = NoBin
  /\ PagesCounter = 0 /\ NumThreads = 0
  /\ need_to_shutdown = FALSE /\ shutting_down = FALSE
  /\ \E pool \in Pools :
       pPc = [p \in Parsers |-> IF p \in pool THEN "get_url" ELSE "none"]
  /\ bPc = [b \in Bins |-> "none"] /\ P = [b \in Bins |-> NoPage]
  /\ Index = [b \in Bins |-> 0] /\ i = [b \in Bins |-> 0]
  /\ mPc = "running"

Init ==
  /\ MemoryInit
  /\ counter = 0 /\ file = <<>>
  /\ parsed = 0 /\ lost = {} /\ crashes = 0 /\ spurious = 0

Running == mPc # "exited"

-----------------------------------------------------------------------------
(* A parser thread: the loop of parsePages and addPage                     *)

ParserGoto(p, l) == pPc' = [pPc EXCEPT ![p] = l]

(* get_url_to_parse gives the empty URL to a parser that sees the worker   *)
(* shut down.                                                              *)
ParserEnds(p) ==
  /\ Running /\ pPc[p] = "get_url" /\ shutting_down
  /\ ParserGoto(p, "ended")
  /\ UNCHANGED <<queue, PagesCounter, bins, NumThreads, flags, mPc, disk,
                 bounds>>

Alone(p) == \A q \in Parsers \ {p} : pPc[q] = "none"

ParserParses(p) ==
  /\ Running /\ pPc[p] = "get_url" /\ ~shutting_down
  /\ LET pages == parsed + Cardinality({q \in Parsers : pPc[q] = "push"}) IN
       pages < MaxPages /\ (pages < MaxShared \/ Alone(p))
  /\ ParserGoto(p, "push")
  /\ UNCHANGED <<queue, PagesCounter, bins, NumThreads, flags, mPc, disk,
                 bounds>>

(* There is no URL, and the worker does not shut down: the parser is about *)
(* to wait for one.  WorkerUrls has the requests that go on meanwhile.     *)
ParserFindsNone(p) ==
  /\ Running /\ pPc[p] = "get_url" /\ ~shutting_down
  /\ ParserGoto(p, "sleep")
  /\ UNCHANGED <<queue, PagesCounter, bins, NumThreads, flags, mPc, disk,
                 bounds>>

(* shutting_down is written without to_parse_m, so it may change, and its  *)
(* broadcast go by, between that test and the wait.                        *)
ParserSleeps(p) ==
  /\ Running /\ pPc[p] = "sleep"
  /\ ParserGoto(p, "asleep")
  /\ UNCHANGED <<queue, PagesCounter, bins, NumThreads, flags, mPc, disk,
                 bounds>>

(* Another parser's request to the master brings URLs.  Nobody has to.     *)
ParserWoken(p) ==
  /\ Running /\ pPc[p] = "asleep"
  /\ ParserGoto(p, "get_url")
  /\ UNCHANGED <<queue, PagesCounter, bins, NumThreads, flags, mPc, disk,
                 bounds>>

(* The push is all that happens under the mutex.                           *)
AddPush(p) ==
  /\ Running /\ pPc[p] = "push" /\ QueueMtx = NoBin
  /\ parsed' = parsed + 1
  /\ PagesToAdd' = Append(PagesToAdd, parsed + 1)
  /\ ParserGoto(p, "count")
  /\ UNCHANGED <<QueueMtx, PagesCounter, bins, NumThreads, flags, mPc, disk,
                 lost, crashes, spurious>>

AddCount(p) ==
  /\ Running /\ pPc[p] = "count"
  /\ PagesCounter' = PagesCounter + 1
  /\ ParserGoto(p, "test")
  /\ UNCHANGED <<queue, bins, NumThreads, flags, mPc, disk, bounds>>

(* Mutant of AddTest: a thread is started one page late.                   *)
AddTestZero(p) ==
  /\ Running /\ pPc[p] = "test"
  /\ ParserGoto(p, IF PagesCounter % numPages = 0 THEN "spawn" ELSE "signal")
  /\ UNCHANGED <<queue, PagesCounter, bins, NumThreads, flags, mPc, disk,
                 bounds>>

(* PagesCounter is read again: other parsers may have counted meanwhile.   *)
AddTest(p) ==
  /\ Running /\ pPc[p] = "test"
  /\ ParserGoto(p, IF PagesCounter % numPages = 1 THEN "spawn" ELSE "signal")
  /\ UNCHANGED <<queue, PagesCounter, bins, NumThreads, flags, mPc, disk,
                 bounds>>

AddSpawn(p) ==
  /\ Running /\ pPc[p] = "spawn"
  /\ NumThreads' = NumThreads + 1
  /\ \E b \in Bins :
       /\ bPc[b] = "none"
       /\ \A c \in 1 .. b - 1 : bPc[c] # "none"
       /\ bPc' = [bPc EXCEPT ![b] = "open"]
  /\ ParserGoto(p, "signal")
  /\ UNCHANGED <<queue, PagesCounter, P, Index, i, flags, mPc, disk,
                 bounds>>

(* QueueNECV.signal() wakes one of the bins that wait, if any does.        *)
AddSignal(p) ==
  /\ Running /\ pPc[p] = "signal"
  /\ \/ \E b \in Bins : bPc[b] = "waiting" /\ bPc' = [bPc EXCEPT ![b] = "woken"]
     \/ (\A b \in Bins : bPc[b] # "waiting") /\ UNCHANGED bPc
  /\ ParserGoto(p, "get_url")
  /\ UNCHANGED <<queue, PagesCounter, P, Index, i, NumThreads, flags, mPc,
                 disk, bounds>>

Parser(p) ==
  \/ ParserEnds(p) \/ ParserParses(p) \/ ParserFindsNone(p) \/ ParserSleeps(p)
  \/ AddPush(p) \/ AddCount(p) \/ AddTest(p) \/ AddSpawn(p) \/ AddSignal(p)

-----------------------------------------------------------------------------
(* A bin thread: runBin and PageBin::addPage                               *)

BinGoto(b, l) == bPc' = [bPc EXCEPT ![b] = l]

EmptyFile == [text |-> <<>>, vec |-> <<>>, headers |-> <<>>, count |-> 0]

(* Mutant of BinOpen: the file numbers begin again with the process.       *)
BinOpenAgain(b) ==
  /\ Running /\ bPc[b] = "open"
  /\ counter < MaxBins
  /\ counter' = counter + 1
  /\ LET f == Cardinality({c \in Bins : Index[c] # 0}) + 1 IN
       file' = [g \in 1 .. counter + 1 |->
                  IF g \in {f, counter + 1} THEN EmptyFile ELSE file[g]]
  /\ Index' = [Index EXCEPT ![b] = counter + 1]
  /\ BinGoto(b, "loop")
  /\ UNCHANGED <<queue, parsers, P, i, NumThreads, flags, mPc, bounds>>

(* PageStoreCounter's index() reserves a number on disk: the file is new.  *)
BinOpen(b) ==
  /\ Running /\ bPc[b] = "open"
  /\ counter < MaxBins
  /\ counter' = counter + 1
  /\ file' = Append(file, EmptyFile)
  /\ Index' = [Index EXCEPT ![b] = counter + 1]
  /\ BinGoto(b, "loop")
  /\ UNCHANGED <<queue, parsers, P, i, NumThreads, flags, mPc, bounds>>

BinLock(b) ==
  /\ Running /\ bPc[b] \in {"loop", "woken"} /\ QueueMtx = NoBin
  /\ QueueMtx' = b
  /\ BinGoto(b, "empty")
  /\ UNCHANGED <<PagesToAdd, parsers, P, Index, i, NumThreads, flags, mPc, disk,
                 bounds>>

(* Mutant of BinTake: the page is not popped.                              *)
BinTakeFront(b) ==
  /\ Running /\ bPc[b] = "empty" /\ PagesToAdd # <<>>
  /\ P' = [P EXCEPT ![b] = Head(PagesToAdd)]
  /\ PagesToAdd' = PagesToAdd
  /\ QueueMtx' = NoBin
  /\ BinGoto(b, "text")
  /\ UNCHANGED <<parsers, Index, i, NumThreads, flags, mPc, disk, bounds>>

BinTake(b) ==
  /\ Running /\ bPc[b] = "empty" /\ PagesToAdd # <<>>
  /\ P' = [P EXCEPT ![b] = Head(PagesToAdd)]
  /\ PagesToAdd' = Tail(PagesToAdd)
  /\ QueueMtx' = NoBin
  /\ BinGoto(b, "text")
  /\ UNCHANGED <<parsers, Index, i, NumThreads, flags, mPc, disk, bounds>>

(* need_to_shutdown is written without the mutex, so it may change between *)
(* this test and the wait.                                                 *)
BinTestShutdown(b) ==
  /\ Running /\ bPc[b] = "empty" /\ PagesToAdd = <<>>
  /\ IF need_to_shutdown
       THEN QueueMtx' = NoBin /\ BinGoto(b, "exit")
       ELSE UNCHANGED QueueMtx /\ BinGoto(b, "wait")
  /\ UNCHANGED <<PagesToAdd, parsers, P, Index, i, NumThreads, flags, mPc, disk,
                 bounds>>

BinWait(b) ==
  /\ Running /\ bPc[b] = "wait"
  /\ QueueMtx' = NoBin
  /\ BinGoto(b, "waiting")
  /\ UNCHANGED <<PagesToAdd, parsers, P, Index, i, NumThreads, flags, mPc, disk,
                 bounds>>

BinSpuriousWakeup(b) ==
  /\ Running /\ bPc[b] = "waiting" /\ crashes + spurious < MaxUpsets
  /\ spurious' = spurious + 1
  /\ BinGoto(b, "woken")
  /\ UNCHANGED <<queue, parsers, P, Index, i, NumThreads, flags, mPc, disk,
                 parsed, lost, crashes>>

(* PageBin::addPage: text, descriptors, header and count, in this order.   *)
WriteText(b) ==
  /\ Running /\ bPc[b] = "text"
  /\ file' = [file EXCEPT ![Index[b]].text = Append(@, P[b])]
  /\ BinGoto(b, "vec")
  /\ UNCHANGED <<queue, parsers, P, Index, i, NumThreads, flags, mPc, counter,
                 bounds>>

(* Mutant of WriteVec: the count is written before the header.             *)
WriteVecCounted(b) ==
  /\ Running /\ bPc[b] = "vec"
  /\ file' = [file EXCEPT ![Index[b]].vec = Append(@, P[b]),
                          ![Index[b]].count = i[b] + 1]
  /\ BinGoto(b, "header")
  /\ UNCHANGED <<queue, parsers, P, Index, i, NumThreads, flags, mPc, counter,
                 bounds>>

WriteVec(b) ==
  /\ Running /\ bPc[b] = "vec"
  /\ file' = [file EXCEPT ![Index[b]].vec = Append(@, P[b])]
  /\ BinGoto(b, "header")
  /\ UNCHANGED <<queue, parsers, P, Index, i, NumThreads, flags, mPc, counter,
                 bounds>>

(* The header holds the places of the two, and the page's URL.             *)
WriteHeader(b) ==
  /\ Running /\ bPc[b] = "header"
  /\ LET f == file[Index[b]] IN
       file' = [file EXCEPT ![Index[b]].headers =
                  Append(@, [text |-> Len(f.text), vec |-> Len(f.vec),
                             url |-> P[b]])]
  /\ BinGoto(b, "pagecount")
  /\ UNCHANGED <<queue, parsers, P, Index, i, NumThreads, flags, mPc, counter,
                 bounds>>

(* Mutant of WriteCount: a file takes one page too many.                   *)
WriteCountFurther(b) ==
  /\ Running /\ bPc[b] = "pagecount"
  /\ i' = [i EXCEPT ![b] = @ + 1]
  /\ file' = [file EXCEPT ![Index[b]].count = i[b] + 1]
  /\ P' = [P EXCEPT ![b] = NoPage]
  /\ BinGoto(b, IF i[b] < numPages THEN "loop" ELSE "exit")
  /\ UNCHANGED <<queue, parsers, Index, NumThreads, flags, mPc, counter,
                 bounds>>

(* With the last page that the file has room for, runBin's loop ends.       *)
WriteCount(b) ==
  /\ Running /\ bPc[b] = "pagecount"
  /\ i' = [i EXCEPT ![b] = @ + 1]
  /\ file' = [file EXCEPT ![Index[b]].count = i[b] + 1]
  /\ P' = [P EXCEPT ![b] = NoPage]
  /\ BinGoto(b, IF i[b] + 1 < numPages THEN "loop" ELSE "exit")
  /\ UNCHANGED <<queue, parsers, Index, NumThreads, flags, mPc, counter,
                 bounds>>

(* Mutant of BinExit: the last bin does not signal.                        *)
BinExitSilent(b) ==
  /\ Running /\ bPc[b] = "exit"
  /\ NumThreads' = NumThreads - 1
  /\ BinGoto(b, "ended")
  /\ UNCHANGED <<queue, parsers, P, Index, i, flags, mPc, disk, bounds>>

(* --NumThreads and, at zero, a signal, without numThreadsMtx              *)
BinExit(b) ==
  /\ Running /\ bPc[b] = "exit"
  /\ NumThreads' = NumThreads - 1
  /\ BinGoto(b, IF NumThreads - 1 = 0 THEN "signal" ELSE "ended")
  /\ UNCHANGED <<queue, parsers, P, Index, i, flags, mPc, disk, bounds>>

BinSignal(b) ==
  /\ Running /\ bPc[b] = "signal"
  /\ mPc' = IF mPc = "waiting" THEN "test" ELSE mPc
  /\ BinGoto(b, "ended")
  /\ UNCHANGED <<queue, parsers, P, Index, i, NumThreads, flags, disk, bounds>>

Bin(b) ==
  \/ BinOpen(b) \/ BinLock(b) \/ BinTake(b) \/ BinTestShutdown(b)
  \/ BinWait(b) \/ WriteText(b) \/ WriteVec(b) \/ WriteHeader(b)
  \/ WriteCount(b) \/ BinExit(b) \/ BinSignal(b)

-----------------------------------------------------------------------------
(* The main thread: the end of worker_driver's main                        *)

MainGoto(from, to) == mPc = from /\ mPc' = to

InitiateShutDown ==
  /\ MainGoto("running", "wake_parsers")
  /\ shutting_down' = TRUE
  /\ UNCHANGED <<queue, parsers, bins, NumThreads, need_to_shutdown, disk,
                 bounds>>

(* to_parse_cv.broadcast(), without the mutex                              *)
WakeParsers ==
  /\ MainGoto("wake_parsers", "stop_store")
  /\ pPc' = [p \in Parsers |-> IF pPc[p] = "asleep" THEN "get_url" ELSE pPc[p]]
  /\ UNCHANGED <<queue, PagesCounter, bins, NumThreads, flags, disk, bounds>>

(* page_store_shutdown                                                     *)
SetNeedToShutdown ==
  /\ MainGoto("stop_store", "broadcast")
  /\ need_to_shutdown' = TRUE
  /\ UNCHANGED <<queue, parsers, bins, NumThreads, shutting_down, disk, bounds>>

Broadcast ==
  /\ MainGoto("broadcast", "test")
  /\ bPc' = [b \in Bins |-> IF bPc[b] = "waiting" THEN "woken" ELSE bPc[b]]
  /\ UNCHANGED <<queue, parsers, P, Index, i, NumThreads, flags, disk, bounds>>

TestThreads ==
  /\ mPc = "test"
  /\ mPc' = IF NumThreads # 0 THEN "wait" ELSE "join"
  /\ UNCHANGED <<queue, parsers, bins, NumThreads, flags, disk, bounds>>

WaitThreads ==
  /\ MainGoto("wait", "waiting")
  /\ UNCHANGED <<queue, parsers, bins, NumThreads, flags, disk, bounds>>

(* The parsers are joined last.  When main returns the process is over.    *)
JoinParsers ==
  /\ \A p \in Parsers : pPc[p] \in {"ended", "none"}
  /\ MainGoto("join", "exited")
  /\ UNCHANGED <<queue, parsers, bins, NumThreads, flags, disk, bounds>>

MainThread ==
  \/ WakeParsers \/ SetNeedToShutdown \/ Broadcast
  \/ TestThreads \/ WaitThreads \/ JoinParsers

-----------------------------------------------------------------------------
StoredIn(f) ==
  {file[f].headers[h].url : h \in 1 .. file[f].count}
Stored == UNION {StoredIn(f) : f \in 1 .. counter}

(* The process dies and is started again with as many parsers: only the    *)
(* files are left.                                                         *)
Crash ==
  /\ Running /\ crashes + spurious < MaxUpsets
  /\ crashes' = crashes + 1
  /\ lost' = 1 .. parsed \ Stored
  /\ PagesToAdd' = <<>> /\ QueueMtx' = NoBin
  /\ PagesCounter' = 0 /\ NumThreads' = 0
  /\ need_to_shutdown' = FALSE /\ shutting_down' = FALSE
  /\ pPc' = [p \in Parsers |-> IF pPc[p] = "none" THEN "none" ELSE "get_url"]
  /\ bPc' = [b \in Bins |-> "none"] /\ P' = [b \in Bins |-> NoPage]
  /\ Index' = [b \in Bins |-> 0] /\ i' = [b \in Bins |-> 0]
  /\ mPc' = "running"
  /\ UNCHANGED <<disk, parsed, spurious>>

Next ==
  \/ \E p \in Parsers : Parser(p) \/ ParserWoken(p)
  \/ \E b \in Bins : Bin(b) \/ BinSpuriousWakeup(b)
  \/ InitiateShutDown \/ MainThread
  \/ Crash

Spec == Init /\ [][Next]_vars

(* Threads run, and none starves at QueueMtx.  Nobody has to shut down.    *)
Fairness ==
  /\ \A p \in Parsers : WF_vars(Parser(p)) /\ SF_vars(AddPush(p))
  /\ \A b \in Bins : WF_vars(Bin(b)) /\ SF_vars(BinLock(b))
  /\ WF_vars(MainThread)

FairSpec == Spec /\ Fairness

-----------------------------------------------------------------------------
ParserPcs == {"none", "get_url", "sleep", "asleep", "push", "count", "test",
              "spawn", "signal", "ended"}
Holding == {"empty", "wait"}
Writing == {"text", "vec", "header", "pagecount"}
BinPcs == {"none", "open", "loop", "waiting", "woken", "exit", "signal",
           "ended"} \union Holding \union Writing
MainPcs == {"running", "wake_parsers", "stop_store", "broadcast", "test", "wait", "waiting",
            "join", "exited"}

(* Types, and what the program counters say of the rest of the state.      *)
TypeOK ==
  /\ PagesToAdd \in Seq(Pages)
  /\ QueueMtx \in Bins \union {NoBin}
  /\ \A b \in Bins : bPc[b] \in Holding <=> QueueMtx = b
  /\ PagesCounter \in 0 .. MaxPages
  /\ need_to_shutdown \in BOOLEAN /\ shutting_down \in BOOLEAN
  /\ pPc \in [Parsers -> ParserPcs] /\ bPc \in [Bins -> BinPcs]
  /\ P \in [Bins -> Pages \union {NoPage}]
  /\ \A b \in Bins : P[b] # NoPage <=> bPc[b] \in Writing
  /\ NumThreads = Cardinality({b \in Bins :
                                 bPc[b] \notin {"none", "signal", "ended"}})
  /\ i \in [Bins -> 0 .. numPages]
  /\ mPc \in MainPcs
  /\ counter \in 0 .. MaxBins /\ Len(file) = counter
  /\ Index \in [Bins -> 0 .. counter]
  /\ parsed \in 0 .. MaxPages

(* The header that stored_pages_format.txt describes: the first `count`    *)
(* headers are written, each for a page whose text and descriptors are     *)
(* complete.  This holds between any two stores, so after any crash.       *)
CountIsCrashSafe ==
  \A f \in 1 .. counter :
    /\ file[f].count <= Len(file[f].headers)
    /\ \A h \in 1 .. file[f].count :
         LET hdr == file[f].headers[h] IN
           /\ hdr.text <= Len(file[f].text) /\ file[f].text[hdr.text] = hdr.url
           /\ hdr.vec <= Len(file[f].vec)   /\ file[f].vec[hdr.vec] = hdr.url

(* No file has more headers than PageBin's constructor reserved room for:  *)
(* one more would overwrite the text of the first page.                    *)
HeadersFit == \A f \in 1 .. counter : Len(file[f].headers) <= numPages

(* Every page that was added is in one place: in the queue, with a bin, or *)
(* in one file, once, unless the process died with it.                     *)
Copies(u) ==
  Cardinality({n \in DOMAIN PagesToAdd : PagesToAdd[n] = u})
  + Cardinality({b \in Bins : P[b] = u})
  + Cardinality(UNION {{<<f, h>> : h \in {k \in 1 .. file[f].count :
                                            file[f].headers[k].url = u}} :
                       f \in 1 .. counter})

OneCopy ==
  \A u \in 1 .. parsed : Copies(u) = IF u \in lost THEN 0 ELSE 1

(* Every page that was added is in one place, and no file has more pages   *)
(* than its headers were given room for.                                   *)
PagesPlaced == HeadersFit /\ OneCopy

(* A page that is stored stays where it is, across crashes too: a process  *)
(* that starts again never writes to a file of an earlier one.             *)
StoredStays ==
  [][\A f \in 1 .. counter :
       /\ file'[f].count >= file[f].count
       /\ \A h \in 1 .. file[f].count :
            file'[f].headers[h] = file[f].headers[h]]_vars

(* PagesCounter is counted and read in two steps.  If another parser       *)
(* counts between the two of the parser whose page is the first of a file, *)
(* none of them reads the number that starts a bin, and pages stay queued. *)
CountsCross ==
  /\ PagesCounter % numPages # 1
  /\ Cardinality({p \in Parsers : pPc[p] = "test"}) > 1

(* A page that a parser adds is stored, as long as nobody shuts the worker *)
(* down and it does not die, and two parsers never count before either     *)
(* looks at the count.  Two that both start a bin do no harm.              *)
Queued(u) == u \in ToSet(PagesToAdd)
AddedStored ==
  []~CountsCross =>
    \A u \in Pages : Queued(u) ~> (u \in Stored \/ shutting_down \/ u \in lost)

(* page_store_shutdown and the worker's main return: unless main           *)
(* broadcasts while a parser is between its test of shutting_down and its  *)
(* wait, or a bin between its test of need_to_shutdown and its wait, or    *)
(* the last bin signals while main is between its test of NumThreads and   *)
(* its wait.  All three signals are sent without the mutex, and whoever    *)
(* misses one sleeps for ever.  A crash takes the shutdown back.           *)
ParserMissesBroadcast ==
  mPc = "wake_parsers" /\ \E p \in Parsers : pPc[p] = "sleep"
BinMissesBroadcast == mPc = "broadcast" /\ \E b \in Bins : bPc[b] = "wait"
MainMissesSignal == mPc = "wait" /\ \E b \in Bins : bPc[b] = "signal"

ShutdownReturns ==
  [](~ParserMissesBroadcast /\ ~BinMissesBroadcast /\ ~MainMissesSignal)
    => (shutting_down ~> (mPc = "exited" \/ ~shutting_down))

=============================================================================
