---------------------------- MODULE MCSequential -----------------------------
(***************************************************************************)
(* The code that one thread runs alone, each part on its own: Init chooses *)
(* the part, and only its variables change.  The containers are driven by  *)
(* any sequence of calls within the bounds.                                *)
(***************************************************************************)
EXTENDS UnorderedSet, SequentialParts

CONSTANTS Values, Default, NoVal, RehashSizes, MaxStore,
          PtrVars, PtrObjects, PtrShares

(* Keys 1 and 2 collide in the last of four buckets, and of eight; their   *)
(* probes wrap around to those of keys 4 and 3, which have buckets of      *)
(* their own.                                                              *)
MCHash == [k \in Keys |-> CASE k = 1 -> 7 [] k = 2 -> 15
                            [] k = 3 -> 10 [] OTHER -> 17]

VARIABLES part,
          mapTable, mapValid, mapResult,
          wordTable, wordValid, wordResult,
          urlTable, urlStore, urlResult,
          input, readers, offsets, bucket, merged, mPhase,
          tree, nodes, iter, treeResult, crashed,
          chain, numElements, leaked, queueResult,
          data, popped,
          strs, strResult,
          owner, alive, counter, first, second, counters, weak

MapKeys == Keys \ {4}

Map == INSTANCE UnorderedMap WITH
         Keys <- MapKeys, MaxSize <- 8, table <- mapTable, valid <- mapValid, result <- mapResult
Word == INSTANCE NoDeleteUnorderedMap WITH
         Keys <- MapKeys, MaxSize <- 8, table <- wordTable, valid <- wordValid, result <- wordResult
Lookup == INSTANCE OffsetLookup WITH
         Keys <- MapKeys, MaxSize <- 8, table <- urlTable, store <- urlStore, result <- urlResult

MCNames == {"b", "hr", "p"}

(* A URL with a port of its own, one without, and a path alone             *)
Link(service, host, port) ==
  [service |-> service, host |-> host, port |-> port, path |-> "x"]
MCStart == Link("http", "h", "8080")
Links == {MCStart, Link("https", "i", "443"), Link("https", "", "443")}

Answer(status, location, html, chunked, chunks) ==
  [status |-> status, location |-> location, html |-> html, chunked |-> chunked,
   chunks |-> chunks]
MCResponses ==
  {Answer(3, l, FALSE, FALSE, <<>>) : l \in Links}
  \cup {Answer(2, Link("http", "", "80"), html, chunked, <<c, <<17, 18>>, d>>) :
          html \in BOOLEAN, chunked \in BOOLEAN,
          c \in {<<99>>, <<17, 18, 3>>}, d \in {<<99, 18>>, [i \in 1 .. 17 |-> 99]}}
  \cup {Answer(4, Link("http", "", "80"), TRUE, FALSE, <<>>)}

(* Indices of one or two files of short pages; the words a and b have the  *)
(* same hash, and the next bucket is that of c.                            *)
MCWords == {"a", "b", "c"}
MCWordHash == [w \in MCWords |-> IF w = "c" THEN 4 ELSE 3]
ShortPages == UNION {[1 .. k -> MCWords] : k \in 0 .. 2}
MCFiles ==
  {<<p>> : p \in ShortPages}
  \cup {<<p, q>> : p \in {<<"a", "b">>, <<>>}, q \in {<<"b">>, <<"c", "b">>}}
MCInputs ==
  {<<f, g>> : f, g \in MCFiles}
  \cup {<<<<p>>, <<q>>, <<r>>>> : p, r \in {<<"b">>, <<"c", "a">>}, q \in ShortPages}

Merge == INSTANCE IndexMerger WITH
           Words <- MCWords, HashOf <- MCWordHash, WordOrder <- <<"a", "b", "c">>,
           Inputs <- MCInputs, BucketCount <- 6, SkipBitsLess <- 0

Tree == INSTANCE SearchTree WITH Keys <- 1 .. 5, Nil <- NoKey, result <- treeResult
Items == INSTANCE Queue WITH
           ArraySize <- 2, MaxElements <- 5, MaxLeaked <- 3, result <- queueResult
Heap == INSTANCE PriorityQueue WITH Ranks <- 1 .. 3, MaxSize <- 7, result <- popped
Str == INSTANCE BasicString WITH
         Values <- Contained, Names <- Holders, Raw <- NoKey, Unset <- NoVal, MaxTotal <- 4,
         vecs <- strs, result <- strResult
Ptr == INSTANCE Pointers WITH
         Vars <- PtrVars, Objects <- PtrObjects, Shares <- PtrShares, Null <- NoKey

(* Pages with up to seven words, and one or two words of the query in them *)
MCDocuments ==
  UNION {{[words |-> n, title |-> t, last |-> l,
           occurrences |-> <<SelectSeq([i \in 1 .. n |-> i], LAMBDA i : i \in s)>> \o o] :
            t \in {u \in SUBSET (0 .. n - 1) : n <= 3 \/ u = {} \/ u = {1, n - 1}},
            s \in SUBSET (1 .. n) \ {{}}, l \in BOOLEAN,
            o \in {<<>>, <<<<1, n>>>>, <<<<2>>>>}} : n \in {2, 3, 7}}

mapVars == <<mapTable, mapValid, mapResult>>
wordVars == <<wordTable, wordValid, wordResult>>
urlVars == <<urlTable, urlStore, urlResult>>

htmlVars == <<mode, tagStack, flagCounter, page, anchorText, read>>
downloadVars == <<pc, url, visitedURLs, response, wire, writer, held, asked>>
mergeVars == <<input, readers, offsets, bucket, merged, mPhase>>

treeVars == <<tree, nodes, iter, treeResult, crashed>>
queueVars == <<chain, numElements, leaked, queueResult>>
heapVars == <<data, popped>>
vecVars == <<vecs, vecResult>>
strVars == <<strs, strResult>>
ptrVars == <<owner, alive, counter, first, second, counters, weak>>
rankVars ==
  <<doc, positions, left, right, current_value, best, window, snippet, title, open, rPhase>>

mcVars ==
  <<part, vars, mapVars, wordVars, urlVars, htmlVars, downloadVars, mergeVars, treeVars,
    queueVars, heapVars, vecVars, strVars, ptrVars, rankVars>>

(* The other parts have nothing to merge and no document: Init of a part   *)
(* that chooses its input would multiply the states of the others.         *)
MergeIdle ==
  /\ input = <<>> /\ readers = <<>> /\ offsets = <<0>> /\ bucket = 0
  /\ merged = [eods |-> <<>>] /\ mPhase = "idle"

RankIdle ==
  /\ doc = [words |-> 0] /\ positions = <<>> /\ left = 0 /\ right = 0 /\ current_value = 0
  /\ best = [left |-> 0] /\ window = <<0, 0>> /\ snippet = <<>> /\ title = <<>> /\ open = 0
  /\ rPhase = "idle"

MCInit ==
  /\ part \in {"set", "map", "words", "offsets", "html", "download", "merge",
              "tree", "queue", "heap", "vector", "string", "pointers", "rank"}
  /\ Init /\ Map!Init /\ Word!Init /\ Lookup!Init /\ Html!Init /\ Download!Init
  /\ IF part = "merge" THEN Merge!Init ELSE MergeIdle
  /\ Tree!Init /\ Items!Init /\ Heap!Init /\ Vec!Init /\ Str!StringInit /\ Ptr!Init
  /\ IF part = "rank" THEN Rank!Init ELSE RankIdle

(* Only the chosen part changes.                                           *)
Only(p) ==
  /\ part = p /\ UNCHANGED part
  /\ IF p = "set" THEN TRUE ELSE UNCHANGED vars
  /\ IF p = "map" THEN TRUE ELSE UNCHANGED mapVars
  /\ IF p = "words" THEN TRUE ELSE UNCHANGED wordVars
  /\ IF p = "offsets" THEN TRUE ELSE UNCHANGED urlVars
  /\ IF p = "html" THEN TRUE ELSE UNCHANGED htmlVars
  /\ IF p = "download" THEN TRUE ELSE UNCHANGED downloadVars
  /\ IF p = "merge" THEN TRUE ELSE UNCHANGED mergeVars
  /\ IF p = "tree" THEN TRUE ELSE UNCHANGED treeVars
  /\ IF p = "queue" THEN TRUE ELSE UNCHANGED queueVars
  /\ IF p = "heap" THEN TRUE ELSE UNCHANGED heapVars
  /\ IF p = "vector" THEN TRUE ELSE UNCHANGED vecVars
  /\ IF p = "string" THEN TRUE ELSE UNCHANGED strVars
  /\ IF p = "pointers" THEN TRUE ELSE UNCHANGED ptrVars
  /\ IF p = "rank" THEN TRUE ELSE UNCHANGED rankVars

MCNext ==
  \/ Only("set") /\ Next
  \/ Only("map") /\ Map!Next
  \/ Only("words") /\ Word!Next
  \/ Only("offsets") /\ Lookup!Next
  \/ Only("html") /\ Html!Next
  \/ Only("download") /\ Download!Next
  \/ Only("merge") /\ Merge!Next
  \/ Only("tree") /\ Tree!Next
  \/ Only("queue") /\ Items!Next
  \/ Only("heap") /\ Heap!Next
  \/ Only("vector") /\ Vec!Next
  \/ Only("string") /\ Str!StringNext
  \/ Only("pointers") /\ Ptr!Next
  \/ Only("rank") /\ Rank!Next

MCSpec == MCInit /\ [][MCNext]_mcVars

(* The hash set and the tree return what a set of keys does, and the hash  *)
(* maps what partial functions do.                                         *)
ImplementsMaps ==
  /\ Abstract!Init /\ Map!Abstract!Init /\ Word!Abstract!Init /\ Lookup!Abstract!Init /\ Tree!Abstract!Init
  /\ [][/\ part = "set" => [Abstract!Next]_(Abstract!vars)
        /\ part = "map" => [Map!Abstract!Next]_(Map!Abstract!vars)
        /\ part = "words" => [Word!Abstract!Next]_(Word!Abstract!vars)
        /\ part = "offsets" => [Lookup!Abstract!Next]_(Lookup!Abstract!vars)
        /\ part = "tree" => [Tree!Abstract!Next]_(Tree!Abstract!vars)]_mcVars

(* Queues, vectors and strings hold and return what sequences do.          *)
ImplementsSequences ==
  /\ Items!Abstract!Init /\ Vec!Abstract!Init /\ Str!Texts!Init
  /\ [][/\ part = "queue" => [Items!Abstract!Next]_(Items!Abstract!vars)
        /\ part = "vector" => [Vec!Abstract!Next]_(Vec!Abstract!vars)
        /\ part = "string" => [Str!Texts!Next]_(Str!Texts!vars)]_mcVars

(* What an erase from the tree returns, and what pop takes from the heap   *)
CallsExact ==
  [][/\ part = "tree" => \A val \in 1 .. 5 : Tree!ReturnsNext(val)
     /\ part = "heap" => Heap!KeepsItems]_mcVars

(* In every hash table the counters count, every search ends, and a walk   *)
(* meets what it should.                                                   *)
TablesSound ==
  /\ SearchesEnd /\ WalkExact
  /\ Map!Sound(mapTable) /\ Map!Sound(wordTable) /\ Map!Sound(urlTable)

(* The tree keeps its order and its pointers, the heap its highest item at *)
(* the top; objects are made and destroyed once, strings end with a 0, and *)
(* pointers own what they should.                                          *)
ContainersSound ==
  /\ Tree!TreeSound /\ Tree!IteratorLives /\ Heap!TopIsHighest
  /\ Vec!LifetimesExact /\ Str!LifetimesExact /\ Str!Terminated /\ Items!CounterExact
  /\ Ptr!OwnersExact /\ Ptr!LeaksAreCycles

(* Merging chunks gives what building one from all the pages would.        *)
MergedIsBuilt == Merge!MergedExact /\ Merge!MergedSeeks

=============================================================================
