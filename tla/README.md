# Verification project for the search engine

TLA+ modules, TLC configurations and TLAPS proofs for the crawler, the page
store, the index and its readers, the query servers and the containers under
them. Paths below are
relative to the root of the repository; a module is written `Module`.

## 1. The system

```
             seeds                      pages (files)           index chunks
               |                             ^                       |
   master: frontier <--TCP--> worker: parser threads        query worker: readers,
   (one process)              page store bins               solver, ranker, TopPages
               ^                                                     ^ TCP
               |                                                     v
          master's console                          query server <--TCP-- web server
```

### Components, their state and operations

| Component | State | Operations | Interacts with |
|---|---|---|---|
| **Frontier** `src/frontier.cpp`, `include/disk/frontier.hpp`, `bloom_filter.hpp` | per bin: a queue of offsets to add and its mutex and condition variable, the file `toParse`, the Bloom filter; `shutDown`, `numBinsShutdown` | `addUrls`, `getUrl`, `startBins`/`runBin` (a thread per bin), `shutdown` | called by handlers and by the console; files and URL store below |
| **Frontier files, URL store** `disk_vec.hpp`, `url_store.*` | mapped files with a cursor | `reserve`, `insert`, `pushBack` | frontier, page store, query server |
| **Master's sockets** `src/handle_socket.cpp`, `master_url_tcp.cpp` | `num_threads`, `do_terminate`, one detached thread per connection | accept loop, `handle_request` (R), `handle_send` (S), `terminate_workers` | workers by TCP, frontier by calls |
| **Master's console** `src/master_driver.cpp` | - | commands, the order of the shutdown | both of the above |
| **Worker's URL buffer** `src/worker_url_tcp.cpp` | `urls_to_parse`, `requesting`, `shutting_down`, mutexes and condition variables, `parsed_pages` | `get_url_to_parse`, `get_more_urls_from_master`, `add_parsed`, `initiate_shut_down` | called by parsers, master by TCP |
| **Worker** `src/worker_driver.cpp` | blocked hosts, parser threads | the parser loop, the order of the shutdown | URL buffer, downloader, page store |
| **Page store** `src/page_store.cpp`, `include/disk/page_store.hpp` | `PagesToAdd`, `PagesCounter`, `NumThreads`, the files, the persistent counter of files | `addPage`, `runBin`, `PageBin::addPage`, `page_store_shutdown` | called by parsers; files read by the index builder |
| **Query results** `include/query/query_result.hpp` | heap, size bound, `min_allowed_rank` | `push` from a thread per index, `send_and_reset` | query worker, query server |
| **Query worker** `src/query_worker_driver.cpp` | index readers, connection to the server | connect, receive, rank in threads, answer | query server by TCP |
| **Query server** `src/query_server_driver.cpp` | the set `socketsToWorkers` | accept, `handle_query`, `ask_workers` (thread per worker), `handle_new_worker` | query workers and web servers by TCP |
| **Web server** `src/server.cpp`, `src/bolt/` | the globals `resultCounter`, `resultOptions`, `queryResult` that all users share, `sockMtx`, a thread per request | accept and read, `results`, `next`, `previous`, `ask_query` | query server by TCP |
| **Index** `include/index/`, `src/index_reader.cpp` | chunk files: posting lists, seek tables, dictionary | build, merge, read | page files, ISRs |
| **ISRs and solver** `include/isr/` | positions in posting lists | `Next`, `NextDocument`, `Seek` of AND, OR, phrase, container | index, query parser |
| **Query parser** `include/parse/` | token stream | recursive descent to an expression, evaluated to an ISR | query server and worker |
| **Ranker** `src/ranker.cpp` | - | tf-idf, snippet window | solver |
| **Containers** `include/fb/` | hash set and maps, tree, queue, heap, vector, string, owning and counting pointers | - | everywhere |
| **URL tables and link stores** `UrlTables.hpp`, `offset_lookup.hpp`, `anchor_store.hpp` | on-disk hash tables | - | offline commands |
| **Downloading and HTML** `include/http/`, `include/parse/parser.hpp` | - | HTTP, robots, HTML to words | parser threads |

### Behaviours that are hard

* *Threads.* Bin threads, handlers, parsers and ranking threads share queues
  under mutexes, with condition variables that are signalled with and without
  the mutex, and atomics that are read twice. Tests start one thread.
* *Shutdown.* Three processes end by setting a flag, waking sleepers and waiting
  for counts of detached threads.
* *Files and crashes.* Page files and the frontier are mapped memory that
  survives a killed process between any two stores.
* *Connections.* They break in the middle of messages; a worker may be slower
  than the 60 seconds the query server allows; descriptors are copied and
  numbers reused.
* *Data structures.* Open addressing with ghosts; a bounded heap that several
  threads fill; posting lists with seek tables.

### What makes each component correct

* Frontier: a URL is handed out at most once; what the Bloom filter knows is in
  the frontier, in somebody's hands or handed out; queued URLs are not dropped
  while one thread at a time uses a queue;
  when `shutdown` returns no thread touches the files.
* Master's sockets: `terminate_workers` returns, and then no handler uses the
  frontier.
* URL buffer: one thread at a time asks the master; nobody takes from an empty
  queue; URLs are neither lost nor given twice; sleepers end at the shutdown;
  until then somebody is awake; parsed pages are sent once.
* Page store: the count in a file covers complete pages only, in spite of
  crashes; a page is in one file; added pages get stored while parsers count
  one at a time; the worker ends when nobody misses a signal.
* Query results: whatever the threads do, the answer is the best N of this query
  in increasing order, and nothing is left over for the next query.
* Query server: its sockets are distinct and open; results belong to the query;
  no worker that answered in time is left out; every query is answered; a failed
  socket is not asked again.
* Index and search: the documents that the solver finds in a chunk are the pages
  of which the chunk was built that match the query, each once, unless a phrase of
  the query repeats a word; a query that the grammar describes is understood.
* Frontier files: an offset that may be handed out names a stored URL; a crash
  loses the batches that `getUrl` has in memory, and no more than one URL of a bin
  besides; a lost Bloom filter is found again from the store.
* Web server: pages follow each other; rows are read in range; a request that
  was read is answered.
* Index merger: merging chunks is building one from all their pages.
* Ranker: a snippet shows words of its page and of the query.
* Downloading and parsing: a ring of redirects ends, the content is what was
  sent, no socket stays open; every word has one flag.
* Containers: a set is a set, a map a partial function, a queue a sequence;
  objects are made and destroyed once and owned as they should be.

## 2. Modules

| Module | Models | Kind |
|---|---|---|
| `Frontier`, `MCFrontier`, `MCFrontierProofs` | `addUrls`, `getUrl`, `runBin`, `shutdown` of the frontier, with handlers and the main thread | state machine, proofs (of `FrontierFiles` too) |
| `HandleSocket`, `HandleSocketProofs` | accepting thread, handlers, `terminate_workers` | state machine, proofs |
| `WorkerUrls`, `MCWorkerUrls`, `WorkerUrlsProofs` | the URL buffer of a worker with its parsers | state machine, proofs (of the next module too) |
| `ParsedPages` | handing parsed pages over to the master, again after a failure, and the master's side of it | state machine |
| `PageStore`, `PageStoreProofs` | parsers that add pages, bin threads, the bytes of a page file as far as count, headers and pages go, the file counter, shutdown, crashes | state machine, proofs |
| `TopN` | what a list of results promises | abstract specification |
| `TopNQueue`, `MCTopNQueue`, `MCTopNQueueProofs` | the queue with its threads; implements `TopN` | state machine, refinement, proofs (of `WebServer` too) |
| `HashBuckets`, `LookupProofs` | probing, ghosts and iteration of the hash set | operators, lemmas |
| `UnorderedSet` | sequences of calls on `fb::UnorderedSet`; implements `KeyMap`, a set being a map of its keys to themselves | state machine, refinement |
| `KeyMap` | what a map, and a set, promises | abstract specification |
| `HashTable`, `UnorderedMap`, `NoDeleteUnorderedMap`, `OffsetLookup` | what the hash maps have in common, and calls on each; implement `KeyMap` | operators, state machines, refinement |
| `SearchTree` | `fb::Set` and an iterator; implements `KeyMap` | state machine, refinement |
| `ItemSeqs` | what containers of sequences promise | abstract specification |
| `Queue`, `Vector`, `BasicString` | calls on them; implement `ItemSeqs` | state machines, refinement |
| `PriorityQueue`, `Pointers` | the heap; `UniquePtr`, `SharedPtr`, `WeakPtr` | state machines |
| `FrontierFiles` | the URL store and each bin's `toParse` and Bloom filter in steps of one write, crashes, `make_bloom_filter` | state machine |
| `WebServer` | accepting thread, threads of requests, the globals they share (run as a part of `MCTopNQueue`) | state machine |
| `IndexMerger` | the merger, with the dictionaries it reads and writes; over `PostingList` | state machine |
| `Ranker` | snippet and title of a document | state machine |
| `HtmlParser`, `Downloader` | the parser on any page; a download from a server that may do anything | state machines |
| `SequentialParts`, `SequentialProofs` | parser, downloader, ranker and vectors as instances, with what is assumed of their constants and the properties of each | instance, proofs of `HtmlParser`, `Downloader`, `Ranker` and `Vector` |
| `MCSequential` | these three and the other parts that one thread runs alone, one of which `Init` chooses | instance |
| `QueryServer`, `QueryServerProofs` | query server, askers, query workers and clients over `HashBuckets` | state machine that composes three processes, proofs |
| `PostingList`, `LookupProofs` | posting lists and their skip tables, as written and as sought in | operators, proof |
| `QueryParser` | token stream and recursive descent | recursive operators |
| `Isr` | `Seek` of the readers of words, documents, phrases, AND, OR, exclusion, and how an expression becomes readers | recursive operators |
| `Search`, `MCSearch` | building a chunk from pages, then queries: parse, make readers, solve; composes the three above | state machine |

An action is one step of one thread between two points where another thread can
act: a critical section, a wait, a store that others read, a message. The
program counters (`hPc`, `bPc`, `wPc`, ...) name those points, and a comment
names the line where it matters. A wait is two steps, releasing the mutex and
taking it again; wakeups without a signal are actions of their own (bounded, so
that they do not hide a lost signal). A mutant of a definition stands directly
above it and is not part of the specification.

### Abstractions

* URLs, pages and results are small numbers; what is in them does not matter to
  the properties. The Bloom filter is exact: a false positive only refuses a
  URL, which `addUrls` is documented to do sometimes.
* `Frontier`: two offsets of a bin's file are what `getUrl`'s random choice and
  its swap-remove tell apart. The handlers have ended when `shutdown` is
  called, which `HandleSocket` shows of the master's main loop. A call of `addUrls`
  is given its links as they fall into the bins (`Sorted`), up to `MaxLinks` for a
  bin. The mutex of a queue does not exclude: a bin waits on its condition variable
  after unlocking it, and the wait unlocks it once more, whoever holds it then
  (`freed`). So a push and a swap are two steps, and `crossed` marks the bins whose
  queue two threads have used at once. One handler is enough: the wait of the bin
  frees the mutex the handler holds, the handler's push wakes the bin, which takes
  the mutex to swap, and the handler's unlock frees it for the next call of
  `addUrls`, which pushes while the bin swaps. What the vector holds then is
  undefined: from there on each of its batches may be gone, and `GivenUrlsKept`
  claims nothing of that bin. The process may also be killed by it, which is no
  step of the model.
* `TopNQueue`: the heap is a set with its minimum; ranks may be equal.
  `LocalMode` stands for the console mode of the query worker, where the queue
  is emptied by `GetTopResults` and not reset, so that the rank below which
  results are refused is the one of the query before: `KeepsTop` and the
  refinement are claimed for the server mode only.
* `PageStore`: a store to the mapped file is one step, and a crash keeps what has
  been stored (a killed process; not a power failure, for which nothing is
  synchronised in the code). Of `get_url_to_parse` it has what the shutdown needs:
  a parser gets a URL, waits for one, or sees the worker shut down; `WorkerUrls`
  has the rest. A parser's test of `shutting_down` and its wait are two steps, so it
  may miss the broadcast and sleep for ever, as a bin and main may miss theirs.
  `ShutdownReturns` excepts these three.
* `QueryServer`: a worker's reply is a number and that many results; a time
  limit that passes in the middle of a reply is left out, one that passes before
  it is not. The set keeps its size (it has 65536 buckets); `UnorderedSet` has
  the growth. Merging the results is `TopNQueue` once more. The query worker
  dies after a failed receive, because it goes on with an empty query, for which
  `Parse` returns a null pointer that the ranking threads follow.
* `UnorderedSet`: a hash value is given by a table with collisions. Walks over an
  empty set are excluded from `WalkExact` (a part of `TablesSound`): there `begin()` is bucket 0 and not
  `end()`, so that the body of a loop runs once with the default key. The query
  server then asks the descriptor -1, which fails and is caught (modelled in
  `QueryServer`); the parser of a page without links adds the empty URL.
* `Search`: a page is a sequence of words as `read_word` and the stemmer give
  them, a text a sequence of words and control characters. A chunk is read by
  threads that share nothing, so one reader is modelled, and its steps are those
  of the solver's loop. Posts are numbered instead of encoded in bytes, and the
  dictionary is a function. The readers of words and documents begin every
  `Seek` at the skip table, so they keep no position; AND, exclusion and phrase
  keep their `isAtEnd`, which is never reset. `wild` marks a reader that has
  left its skip table: nothing is claimed of what it finds. What a query means
  (`Matches`) is stated over the pages, without positions.
* `ParsedPages`: a page is a number and a message the sequence of its pages; the
  master adds a message when it has all its pages, at any time after they were sent.
  A connection that broke may still take pages, which are lost. In this commit no
  parser hands pages over, because `Parser::addUrls` is `false`.
* `FrontierFiles`: a bin does one thing at a time, as `toParseM` makes it do
  (the threads are in `Frontier`). A URL is stored as two characters. `getUrl` takes
  up to `NumPicks` entries into memory (`took`) before it returns any; a crash loses
  them (`dropped`). What it has returned counts as handed out: that a handler still
  holds it when the process dies or its connection breaks is not counted. A crash
  may be followed by the loss of the filters, which the master's command
  `make_bloom_filter` rebuilds; its threads share the array of hashes of a
  filter, and `raced` marks the URLs that were added at once. That two threads
  set bits of one byte and one bit is lost is left out.
* `WebServer`: a query is the number of its request, a result its query and
  index, and assignments of the globals are one step. `alone` and `trail` follow
  one user between whose requests nobody else's fall, `stale` the threads whose
  check was overtaken. The test whether there are results left (`Check`), the
  number of rows (`CountRows`) and each row read the globals anew. Sizes count
  modulo `SizeMod`, for 2^64.
* `IndexMerger`: chunks are as the builder writes them (the dictionary has the
  words in `WordOrder`); posts are numbers, shifted as the merger does.
  Of the two counts of a list `MergedExact` claims that of the occurrences only:
  the other, of the documents, becomes the sum of the bits of the skip tables.
* `Ranker`: the ranks do not occur, the window of a page's words does. Numbers
  wrap at `Wide`; `"hung"` is the loop of 2^64 reads (see the findings).
* `HtmlParser`: a tag is one token and a run of letters one letter; quotes are
  characters like others, because `handleQuote` returns at once. URLs are not
  collected: `addUrls` is a constant `false`.
* `Downloader`: the server chooses its answer when asked and sends it byte by
  byte, and may stop at any. Failed, closed and timed-out reads are the same to
  the code. TLS is a step that may fail.
* `HashTable` and the maps: tables of 4 and 8 buckets, one size of `rehash` that
  is no power of two. Tables of one or two buckets, which may fill up so that the
  search for an absent key never ends, are outside the bounds.
* `SearchTree`: a node is named by its value. `crashed` marks a read through
  `nullptr`: `erase` of the last value, `begin()` of an empty set; nothing is
  claimed behind it.
* `Vector`, `BasicString`: a cell is raw, unset or holds a value; what a call
  reads from a raw cell would violate `LifetimesExact`. `Pointers`: what an
  object is does not matter, only that a `UniquePtr` is in it.

## 3. What the runs show

| Run | Bounds | Shows |
|---|---|---|
| `frontier_store` | 1 bin, 2 handlers, 2 picks, a spurious wakeup; files of 2 bins, 3 URLs that share positions of a filter, a crash, a filter in 2 segments | `AtMostOnce`, `NothingForgotten`: swap-remove and append under concurrent `getUrl`; `GivenUrlsKept`: what `addUrls` was given is on its way or in the filter of its bin, but for bins that are `crossed`, and only bins whose wait freed a held mutex are; the handlers are symmetric; `FilesHold`: the files over a crash between any two writes; `SeenRestored`: the filter is found again |
| `frontier_queue` | 2 bins, 1 handler that adds twice and takes nothing (a `getUrl` of no tries), fair | `LaterAddRescues`: a lost signal is repaired by the next batch; `ParkedShutdownReturns`, `ShutdownQuiesces`: the shutdown returns and is quiet |
| `handle_socket` | 3 connections, fair | `terminate_workers` returns, no conversation afterwards |
| `top_n_queue` | 3 threads, 5 results with a tie, N = 2, several queries | every answer is a best two; implements `TopN`; then the web server, 2 threads and 4 requests, results of 0 or 3 on pages of 2, fair: `RowsShown`, `RequestsEnd` |
| `worker_urls` | 2 parsers, a broken connection, a spurious wakeup, fair | `RequestsGuarded`: one requester, no pop from an empty queue; sleepers end; 5 parsed pages in batches of 2, 2 failures, fair: `add_parsed` returns (`ParsersReturn`); no URL is lost or given twice, every page is in one message (`TransfersKept`) |
| `page_store` | 1 parser with 3 pages, and 2 parsers with 2 pages; files of 2 pages, 2 bins, a crash at any store or a spurious wakeup, fair | files stay readable and keep their pages; `PagesPlaced`: one copy, headers in their place; `AddedStored`: all pages are stored, unless two parsers count before either looks (`CountsCross`); the worker ends unless a signal is missed |
| `sequential` | fourteen parts, one chosen by `Init`: 3 to 5 keys that collide in tables of 4 to 16 buckets, trees of 5 values, queues of 5 items in nodes of 2, heaps of 7, two vectors and strings of 3 and 4 items, 5 pointers at 3 objects; pages of 5 tokens; downloads with 3 redirects; merges of 2 and 3 files of up to 2 pages of 2 words; documents of up to 7 words | `TablesSound`, `ContainersSound`: counters, order, pointers and lifetimes after any calls; `ImplementsMaps`, `ImplementsSequences`, `CallsExact`: every call returns and leaves what the abstract container does; `FlagsAligned`, `DownloadExact`, `MergedIsBuilt`, `SnippetsShow` as above |
| `query_server` | 2 workers, 2 connections, 2 queries, replies of 0 or 1 result, 5 descriptors, fair | `SetOfSockets`: sockets are distinct, open and always have a place; `AnswersComplete`: an answer has the results of its query, all that came in time; every query is answered |
| `search` | 64 files of one to three pages of up to two words and one with a word three times, 76 expressions written with and without spaces, all texts of up to four symbols | `AnswersExact`: the answers are the matching pages with the positions of the words (from 1), each once; seeks stay in the table, but for the two cases of `SeeksInTable`; expressions are understood |
| `worker_urls_asleep` | | violation: all parsers asleep |
| `query_server_failed_asked` | | violation: a failed socket stays in the set |
| `search_repeated_word` | phrases `"a a"`, `"a b b"` | violation: the match begins in the page before |

The bounds are the smallest in which the hazard can occur: two threads for each
race, one more element than a capacity, one crash or failure at every point (a
second one starts from a state that the first has reached, since the crash
actions return to the initial program counters with the files as they are), a
ghost that is used again. In `page_store` two parsers add fewer pages (`MaxShared`)
than one does, and a crash and a spurious wakeup exclude each other (`MaxUpsets`), to
keep the temporal check small; that one page starts two bin threads, which takes
three pages of two parsers, is left to `PagesKept`. Where a second actor of the same kind only multiplies
states it is left to a proof (any number of connections, threads, results).

In `search` the skip tables have more entries than they would have for so few
posts (`SkipBitsLess` is 0, in the code 6), so that targets meet empty intervals,
intervals that begin in the middle of a page and the end of the table. Two words
are enough for a phrase that begins in one page and would end in the next, for
conjunctions whose terms are in different pages, and for exclusions that skip
several pages.

Three runs have a second part beside the first: `Init` chooses which of them
moves. The parts share no state; they share a run because they are about the
same data (the frontier's bins and their files; results as they are collected
and as they are shown; what a worker gets from the master and gives back). `sequential` does the same for the code without threads:
there is nothing between its parts to interleave. Its bounds let every branch
fire: a table grows and drops ghosts, probes wrap around; a node of the tree has
two children and its predecessor is not its child; a node of the queue is
emptied and followed; a merge shifts positions twice and deletes a word behind a
deleted one; a redirect leads back; a page closes tags that are not open; a
window touches either end of its page.

### Findings

1. *All parsers asleep* (`worker_urls_asleep`). The thread that asked the master
   from inside the loop waits without looking at the queue, and the end of a
   request wakes nobody.
2. *Failed sockets are asked again* (`query_server_failed_asked`). The set stores
   a `dup` of the accepted socket in the bucket of the accepted number, and
   `erase` hashes the number of the `dup`. The late reply of such a worker is
   taken for the reply to the next query, which is why `AnswersOwnQuery`, a part of
   `AnswersComplete`, makes an exception for sockets that were given up.
3. *Phrases with a repeated word* (`search_repeated_word`). `PhraseISR` takes the
   position of the term it found last for the position of the last term. At the
   beginning of a page the match is reported in the page before, which is saved,
   and `NextDocument` finds it again for ever. `EachDocumentOnce` and
   `AnswersExact` except queries with such a phrase (`Repeats`). With two
   repeated words, as in `"a a a"` at the beginning of the first page, the match
   seems to begin before the first position, near 2^32, and what seeks there
   leaves the skip tables (`SeeksInTable`).

Seen and not made a run: a batch that comes between a bin's test of its queue
and its wait is signalled to nobody and stays until the next batch for the bin
(`LaterAddRescues` is what does hold); a batch may be lost, and worse, when two threads
use the queue of a bin at once (`GivenUrlsKept` excepts it); a crash in or behind
`getUrl`, which takes up to 99997 URLs out of a file before it returns, loses them
all, for the filter refuses them from then on; the page store's counter is incremented
and read in two steps, so that of two parsers that count before either looks
none starts the bin thread and the pages stay in the queue (`AddedStored` excepts
this); a parser, a bin thread or main that misses a signal of the shutdown sleeps
for ever, because all three are sent without the mutex (`ShutdownReturns` excepts
it); `notes/stored_pages_format.txt` still says that a file has at most 50000
headers, where `numPages` is 100000; an exclusion within a conjunction,
`a (b \ c)`, can find pages that have `c` (`MatchesExact` excepts them);
`a "b"`, `"a" b`, `"a" "b"`, `"a" (b)` and `(a) (b)` are refused as invalid
(`GrammarUnderstood` excepts them); an excluded word in the last page makes the
readers seek behind the last position, and outside the skip table if the
positions fill all values of their bits (`SeeksInTable` excepts this and the
phrase of Finding 3, and nothing else);
`include/ranker/isr_snippet_rank_info.txt` asks for word offsets that are "zero
indexed" and for a `total_term_count` that is the "doc length", where
`saveMatch` counts offsets from 1 (its `docStart` is the position of the end
before) and the length includes the end: `OccurrencesExact` states what the code
does, `MergeVectors` takes the 1 off again, and the ranker's term frequency
divides by one too many;
`WordImplISR::GetDocumentCount` returns the number of bits of the skip table and
not the number of documents; the console mode of the query worker keeps
`min_allowed_rank` across queries; walks over an empty set (above);
`page_store_shutdown` runs before the parsers are joined, so a page added after
it may be lost at the exit (`AddedStored` excepts it).
`MatchesExact` and `OccurrencesExact` are the parts of `AnswersExact`.

Of the other parts, in the same way:

* *Bloom filter.* `make_bloom_filter` adds from 16 threads by `addSeen`, which the
  source says is not safe: of two URLs of one bin added at once, either may be
  missed. A URL whose preceding 0 ends a segment, and one in the remainder of the
  division, are missed too. `SeenRestored` excepts all three.
* *Web server.* All users share one page counter and one result: `next` of one user
  turns the page of another, and a query that arrives between the check and the
  rows makes them read out of range (`RowsInRange` says that nothing else does).
  A silent client keeps the accepting thread; one that closes leaks its handle; a
  request that ends right after its path ends the process.
* *Ranker.* Positions that `MergeVectors` has counted from 0 are reduced once more: a
  window that begins at a page's first word makes the reader loop 2^64 times. A
  window may reach one word past its page, and a page without a title leaves its
  file open.
* *Index merger.* Line 195 lacks a `<<` and does not compile as it stands; the message
  of `WordExists` is inverted; a merged list has the sum of the bits of the skip
  tables where the number of its documents belongs, because that is what
  `WordImplISR::GetDocumentCount` returns.
* *Parser.* `&` without `;` swallows the text behind it; unclosed tags without
  content keep counting; text of an anchor after a nested tag is dropped; the last
  word may have no flag (`FlagsAlign` counts words that ended).
* *Downloading.* A connection that is cut counts as complete; a header that pauses
  makes its rest content (`ContentExact` states it); the size of a read is that of a
  pointer; blocked hosts are tested for the first URL only.
* *Containers.* Every node that a `Queue` has consumed owns itself and leaks; its copy
  has the first node only. `Set::erase` of the last value and `begin()` of an empty
  set read `nullptr`, and what `erase` returns for a node with children may not
  be the next (`CallsExact` excepts it). A `SharedPtr` that is reset counts down
  twice. `resize` of a `String` leaves the old 0 in the text. `Map`, `Vector::at`,
  `swap` of `Set` and `String`, and `OffsetLookup::at` do not compile when used.

## 4. Fairness

Every temporal property is checked under a specification that states its
fairness.

* Threads run: weak fairness of each step of a thread that is not waiting for
  its environment. The operating system schedules every thread, and mutexes are
  held for a few statements.
* Taking a mutex is strongly fair where the module says so: the holders release
  it again and again, and pthread mutexes do not starve a waiter for ever in
  practice.
* `HandleSocket`: a worker goes on with a message it has begun, or its
  connection ends; without this `terminate_workers` waits for ever, as the code
  does.
* `QueryServer`: the askers run, the 60 seconds of `SO_RCVTIMEO` pass, and a
  worker that has begun a reply goes on with it. Nothing is assumed about
  how long a worker ranks.
* `ParsedPages`: the threads run; a bounded number of connections breaks or is
  refused. When the master has stopped listening, `add_parsed` tries for ever, and
  `AddReturns` claims nothing.
* `WebServer`: a thread that has a request goes on, and the query server answers or
  its socket breaks. Nothing makes a client send what it announced.
* No fairness for failures, crashes, spurious wakeups, arrivals of links,
  connections or queries.

## 5. What is proved

| Theorem | States | Rests on |
|---|---|---|
| `MCTopNQueueProofs!TopKept` | `Spec => []KeepsTop` | `~LocalMode`; `Limit`, `Pushers`, `Phases` |
| `MCTopNQueueProofs!SentIncreasing` | `Spec => []SentInOrder` | the same |
| `MCTopNQueueProofs!Refinement` | `TopNQueue` implements `TopN` | the same |
| `HandleSocketProofs!TypesHold`, `FrontierIsUnused`, `ReturnsAfterConversations` | types, `FrontierUnused`, `ConversationsEnd` | `Counted`, `Asked`, `Told`, `AcceptedNew` |
| `MCFrontierProofs!NoUrlTwice` | `Spec => []AtMostOnce` | `StoreInv` (with `ToParseGuarded`, that `toParseM` excludes) |
| `MCFrontierProofs!NoInsertionLost` | `Spec => []NothingForgotten` | `StoreInv` |
| `MCFrontierProofs!NoBatchLost` | `Spec => []GivenUrlsKept` | `StoreInv`, `QueueInv` |
| `MCFrontierProofs!ShutdownIsQuiet` | `ShutdownQuiesces`, a step property | `MaxSpurious = 0`; `ShutdownInv` |
| `MCFrontierProofs!FilesAreSound` | `MCSpec => []FilesHold` | `FilesInv`: `Layout`, `Costs` |
| `MCFrontierProofs!FiltersAreRestored` | `MCSpec => []SeenRestored` | `FilesInv`, `Making` |
| `PageStoreProofs!CountedIsComplete` | `Spec => []CountIsCrashSafe` | `FilesInv`, `Counts`, `Mutex`, `Types` |
| `PageStoreProofs!PagesKept` | `Spec => []PagesPlaced` | these and `PagesInv` |
| `PageStoreProofs!StoredIsKept` | `StoredStays`, a step property | `FilesInv` |
| `WorkerUrlsProofs!OneAsks` | `MCSpec => []RequestsGuarded` | `UrlsInv` |
| `WorkerUrlsProofs!TransfersAreKept` | `MCSpec => []TransfersKept` | `UrlsInv`, `PagesInv` |
| `QueryServerProofs!SetOfSocketsSound` (from `SocketsStayDistinct`, `InsertAlwaysSucceeds`) | `SetOfSockets` | `KeysOpen`, `KeysOnce`, `OneEach`, `Accepted`, `BacklogNew`, `Serving` |
| `QueryServerProofs!AnswersAreComplete` | `Spec => []AnswersComplete` | the same and `AnswersInv` |
| `MCTopNQueueProofs!RowsAreShown` | `MCSpec => []RowsShown` | `WebInv`; no number of rows or pages wraps (`WebAssumption`) |
| `SequentialProofs!FlagsAreAligned` | `Spec => []FlagsAligned` of `HtmlParser` | `HtmlInv`: `Aligned`, `Matched`; no tag is named as the bottom of the stack |
| `SequentialProofs!DownloadsAreExact` | `Spec => []DownloadExact` of `Downloader` | `DownloadInv`: `AskedOK`, `ContentOK`; bytes are numbers, a line end has no digit (`DownloadAssumption`) |
| `SequentialProofs!SnippetsAreShown` | `Spec => []SnippetsShow` of `Ranker` | `RankInv`; a page is shorter than a `SizeT` can count (`RankAssumption`) |
| `SequentialProofs!ObjectsLiveOnce` | `Spec => []LifetimesExact` of `Vector` | `VecInv`; raw memory is told from an object (`VectorAssumption`) |
| `SequentialProofs!VectorsAreSequences` | `Vector` implements `ItemSeqs` | `VecInv`; `InsertedOK`, `ErasedOK`, `ResizedOK`, `CopiedOK`, `Alloc` |
| `LookupProofs!SeekFindsFirst` | a seek inside the skip table finds the first post that is not before the target | monotone division, least elements |
| `LookupProofs!FreeIndexFree` | probing for a place ends at an unused bucket | linear probing reaches every bucket |

*Query results.* A push decides with a value of `min_allowed_rank` that may be
stale; `Limit` says that the value is never above the lowest result of a full
queue, so what is refused would have been evicted, and `Pushers` what a thread
between two steps may assume.

*Master's sockets.* `num_threads` counts exactly the handlers between
constructing and destroying their tracker (`Counted`), and a handler that starts
when `do_terminate` is set (`Asked`) never begins a conversation; therefore the
zero that `terminate_workers` sees stays meaningful (`Told`).

*Frontier.* `AtMostOnce` is not inductive: a `getUrl` that has counted a URL as handed
out has not yet removed it. `StoreInv` says that who works on a bin's `toParse` holds
`toParseM` and is alone (`StoreMutex`), that a `getUrl` between its two steps points at
the entry it has handed out (`Filling`), that entries are distinct (`Distinct`), in
their bin (`InBin`) and not handed out (`Fresh`), and that the filter has exactly the
bits of what is in the file or was handed out (`FilterKnows`). So a URL that the filter lets
in is new. For the URLs on their way `QueueInv` adds that nothing is overwritten when
queue, `temp` and `urls` are filled one from the other (`Emptied`), that these hold
only URLs of their bin (`OwnBin`) and, in `Guarded`, that the mutex of a queue is held by the one who has
locked it, and by nobody else, until the bin's wait frees it; so two threads are in a
queue only after that (`crossed` within `freed`), and then `GivenUrlsKept` is
inductive. For the shutdown,
`ShutdownInv` bounds the count of the bins by those that are past their test of
`doShutdown`: when it is full all bins wait or have returned. A spurious wakeup lets a
bin count twice, which is why the theorem assumes that there is none.

*Frontier's files.* That offsets name stored URLs is a matter of layout: every entry
of `toParse` is the offset of a string that is complete (`Listed`; after a crash or
inside `pushBack` also 0, which names the dummy), and the three characters that a bin
copies lie beside those of every other offset (`Apart`), so that no step disturbs what
another bin has stored. What a crash costs is counted per bin (`Costs`). A URL that
`getUrl` has taken out is in memory, returned or dropped by a crash (`Given`), and a
crash that drops it only moves it from the first to the last. The URLs that
the filter of a bin tells apart and that are nowhere, not even dropped (`Missing`), and
the copies beyond the first (`Excess`), are never more than the crashes. Only a crash between reserving and
pushing, or between the two writes of the swap-remove, adds one to either. A filter
has no false negatives (`Known`); as positions may be shared it has false positives,
and the theorem says nothing of a URL of which all positions belong to others. For
`SeenRestored`, `Making` says of the threads of `make_bloom_filter` that what a thread
alone in `addSeen` has computed is in the array it shares (`Computed`), and that a URL
it is done with is in the filter (`Added`) unless two threads were in `addSeen` for
one bin at once (`Alone`, `raced`): the code gives them one array per bin and no lock.

*Page store.* A bin alone writes to its file (`Owners`) and does so in an order in
which each store finds what it needs (`Progress`): text, descriptors, header, count.
Hence at any point, and after a crash at any point, what is counted is complete
(`Complete`). A page is in the queue, in the hands of one bin, in one file, or died in
a crash (`Partition`, `Apart`); that the counters keep their types needs the numbers
of parsers and bins at each step (`Counts`).

*Worker's URLs.* `requesting` is set under the mutex by a thread that saw it unset,
and only that thread resets it (`Asking`); what a thread saw of the buffer under the
mutex stays true until it pops (`Full`). URLs in the answer, in the buffer and in the
hands of a parser are disjoint (`Kept`). The pages that the buffer, the senders' rest
and the messages hold are disjoint and together all that were parsed (`Parted`); what
a message lacks is what its sender still has (`Sent`), so the master never adds a
message of which pages are missing. The theorems are stated of `MCSpec`, the
specification of the run, in which `Init` chooses one of the two; its constants are
those of both, unbounded.

*Query server.* A connection has one descriptor at a time (`OneEach`): insertion
dups the accepted one and then closes it. Descriptors that the table knows, also
in ghosts, are open (`KeysOpen`) and stand once (`KeysOnce`); so accept and dup,
which return numbers that are closed, never return one of them, and replacing a
ghost closes nothing else. That an insertion finds a free bucket follows from
the pigeonhole principle: fewer connections than buckets.

An answer is complete for a stronger reason than the set's soundness: `AnswersInv`
follows a query through its thread, the connection and the worker. The iterator
reaches every socket in use although threads erase theirs under it (`AllReached`,
`Reached`), each has one thread (`Threads`, `Working`), a connection that is not
given up carries at most one query and its reply (`Channels`), and its thread
expects exactly the results that are under way or still with the worker; between
queries nothing is under way (`Conversations`, split into `Replying`, `Ranking` and
`Begun`). So the results of an earlier query are never read as this one's, and what
the thread adds is all that the worker found (`Collected`, `AnswersOwnQuery`).

*Web server.* `kthResults` tests an unsigned difference, and `next` and `previous` of
many users can make the shared counter negative. A request moves it by at most one
however its load and store interleave with others (`Counting`), so with 64 bits no
product wraps onto a row, and the test is right for every counter (`FirstIsBefore`):
a thread takes rows only from where there are rows, unless another request changes a
global between its check and the row, which makes it `stale` (`Building`). A user who
is alone on the server finds what the last page has left: for each step of such a
request `Paging` says which page the globals stand for, and `Between` what they stand
for when no request runs. That the next page begins with the result after the last
row, and the previous one ends before the first, is then arithmetic of `c *
numResults` (`NextFollows`, `PreviousFollows`, `RefusedFollows`). `MCTopNQueue` states
the assumption that the products fit into `SizeT`. The counter itself is an `int`: the
theorem speaks of fewer than 2^31 requests, whose products are far within it.

*Parser.* A flag is pushed by the same call that adds the separator behind a word, so
the flags are as many as the places where a word ended (`Aligned`). A tag that is
popped is counted down by the class it was counted up for, as long as the stack is not
empty (`Matched`): the bottom is never popped by the name of a tag.

*Downloader.* The content is exact because the writer is, at every byte of a body, where
the encoding says: the `o`-th byte of what is sent for the `i`-th chunk (`Decoding`).
`Writing` gives the chunk size and the string of sizes at each `o`: the digits read so
far, the bytes of the chunk still to come, the line ends around them; the truncated
line end in front of the next size is the one behind the chunk before. That the size
is read back as it was written needs `Stoi` and `HexDigits` to be inverse
(`HexDigitsRead`), and the place of a chunk in the text needs what `FlattenSeq`
returns (`Spans`). These definitions recurse over data; the prover's induction
theorems cannot be used, so each is unfolded at a least counterexample (`NoLeast`): a
set of numbers up to a bound without a least element is empty. A body that is not in
chunks and one with a late header are copied (`Copying`). The URL that is asked for
next was not asked for, because a redirect goes to one that is not visited (`AskedOK`).

*Ranker.* What the scan keeps as best are two occurrences at most `max_window_size`
apart (`BestOK`); nothing depends on their being sorted. The window that is widened
stays within its size and the page, and when it is no longer widened its end is behind
the first occurrence, so the snippet shows it (`Around`); the window of an occurrence
at the first word wraps around and stays far behind any page (`Wrapped`), which is
where the program hangs. Title and snippet are read by positions (`WordsRead`).

*Vectors.* A buffer is right (`BufferOK`) when its first `size_` cells hold objects and
no other does; each call is shown to keep it so and to make of the objects what the
call of `ItemSeqs` makes of a sequence (`Splice`, `Without`). A reallocation keeps the
objects in their order (`Alloc`), which is why reserving memory is a stutter. The
sizes are unbounded: no lemma needs the limit of the run.

*Posting lists.* The entry of an interval is the first post that lies in it or
behind it, and division is monotone, so all posts that are not before the target
come at or after the entry of its interval. This holds for every width and size
of the table; the list need not even be sorted. Runs check that the seeks of
queries stay inside the table (`SeeksInTable`).

The constants' assumptions are the named `ASSUME`s of the modules; every one is
evaluated by a run. What parser, downloader, ranker and vectors assume stands in
`SequentialParts`, which takes those modules as instances.

*Only model-checked:*

* all liveness properties (fairness and ENABLED are outside the prover);
* `Search`, `PriorityQueue` and `Pointers`, whose readers, parser, sifting and
  destruction are recursive operators;
* the refinements of the hash tables, whose rehash is a fold over the buckets, of
  `String`, whose constructors are a fold over the characters, of `Queue`, whose items
  are those of a chain of nodes put end to end, and of the tree;
* `MergedIsBuilt`: merging is a recursion over dictionaries of dictionaries.

## 6. Not modelled

* Stemming, robots, the splitting of URLs, regular expressions, entities and
  attributes: character by character text processing of single threads.
* Formatting of pages, the front end, the header map of a request, static files,
  the configuration of sockets, TLS.
* tf-idf and static ranks: floating point without branches.
* The variable-length encoding of posts: `PostingList` has their numbers.
* The anchor and adjacency stores: records of fixed size, one writer.
* `UrlTables.hpp`, which is commented out as a whole, and what does not compile.
* `Vector`'s erasure of a range and insertion of an own element, `assign`, views.
* Power failures; several masters.
* Offline commands that copy files or print.

## 7. Plan

1. Crawler and query path under threads (done): `Frontier`, `HandleSocket`,
   `WorkerUrls`, `PageStore`, `TopNQueue`, `QueryServer`, with `HashBuckets` and
   `UnorderedSet`.
2. Searching (done): `PostingList`, `QueryParser`, `Isr`, `Search`.
3. Merging, dictionaries, snippets (done): `IndexMerger`, `Ranker`.
4. Containers (done): maps, tree, queue, heap, vector, string, pointers.
5. Files of the frontier, web server, downloading, parsing (done):
   `FrontierFiles`, `ParsedPages`, `WebServer`, `Downloader`, `HtmlParser`.
6. Theorems (done): `TopNQueue` and its refinement, `HandleSocket`, `Frontier`,
   `FrontierFiles`, `PageStore`, `WorkerUrls`, `QueryServer`, `WebServer`,
   `HtmlParser`, `Downloader`, `Ranker`, `Vector` and its refinement, seeking, probing.
7. `Crawl`, composing frontier, connections and buffer, if its states fit.
