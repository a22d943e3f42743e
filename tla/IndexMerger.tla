----------------------------- MODULE IndexMerger ----------------------------
(***************************************************************************)
(* Merging index chunks into one (include/index/index_merger.hpp), with    *)
(* the dictionaries of chunks (IndexChunkBuilder::addWord writes them, and *)
(* src/index_reader.cpp searches them and deletes words from the merger's  *)
(* private copy).                                                          *)
(*                                                                         *)
(* A dictionary maps buckets to posting lists; here a bucket has the word  *)
(* of its list.  A list has posts, a skip table (module PostingList) with  *)
(* 2^bits entries, and in front of it the two numbers rankingData and      *)
(* bits.                                                                   *)
(***************************************************************************)
EXTENDS PostingList, SequencesExt, FiniteSetsExt

CONSTANTS Words, HashOf,      \* HashOf: [Words -> Nat]
          WordOrder,          \* the words as the builder's map iterates them
          Inputs,             \* what is merged: sequences of page files,
                              \* which are sequences of pages
          BucketCount,        \* of the map of a builder
          SkipBitsLess        \* 6: a table has a 64th of the posts as entries

NoWord == ""
DeletedWord == "UINT32_MAX"

VARIABLES input, readers, offsets, bucket, merged, mPhase

vars == <<input, readers, offsets, bucket, merged, mPhase>>

NoList == [posts |-> <<>>]

(* Linear probing: the buckets from that of a word on, and around, until   *)
(* one of stops                                                            *)
Size(dict) == Cardinality(DOMAIN dict)
Probe(dict, w, k) == (HashOf[w] + k) % Size(dict)
FirstProbe(dict, w, stops) ==
  Probe(dict, w, Min({k \in 0 .. Size(dict) : k = Size(dict) \/ dict[Probe(dict, w, k)] \in stops}))

NewDict(size) == [i \in 0 .. size - 1 |-> NoWord]

(* addWord of the chunk builder, writePostingListLocation of the merger    *)
DictAdd(dict, w) ==
  [dict EXCEPT ![FirstProbe(dict, w, {NoWord})] = w]

(* wordExists of the merger                                                *)
WordExists(dict, w) ==
  dict[FirstProbe(dict, w, {NoWord, w})] = w

(* Mutant of GetBucket: the search stops at a deleted word.                *)
GetBucketDeleted(dict, w) ==
  LET b == FirstProbe(dict, w, {NoWord, DeletedWord, w}) IN
  IF dict[b] = NoWord THEN -1 ELSE b

(* getBucket of a reader goes past deleted words.  A search that comes     *)
(* round finds the bucket where it began.                                  *)
GetBucket(dict, w) ==
  LET b == FirstProbe(dict, w, {NoWord, w}) IN
  IF dict[b] = NoWord THEN -1 ELSE b

DeleteWord(dict, w) ==
  IF GetBucket(dict, w) = -1 THEN dict
  ELSE [dict EXCEPT ![GetBucket(dict, w)] = DeletedWord]

(* OpenPlainWordISR does not stop when it comes round.                     *)
OpenWord(reader, w) ==
  LET b == FirstProbe(reader.dict, w, {NoWord, w}) IN
  IF reader.dict[b] = w THEN reader.lists[w]
  ELSE [posts |-> <<>>, ranking |-> <<0, 0>>, bits |-> 0]

(* The rankingData of a reader begins two numbers before the skip table,   *)
(* and the second of these is how many bits the table's index has: the     *)
(* first is the builder's second.                                          *)
GetNumberOfOccurrences(l) == l.ranking[2]
GetDocumentCount(l) == l.bits

-----------------------------------------------------------------------------
(* A chunk as the builder writes it, from the pages of a file: positions   *)
(* count words and ends of documents from 1.                               *)

EndOf(pages, d) == FoldLeft(LAMBDA n, p : n + Len(p) + 1, 0, SubSeq(pages, 1, d))

PositionsOf(pages, w) ==
  SetToSortSeq(UNION {{EndOf(pages, d - 1) + i : i \in {j \in DOMAIN pages[d] : pages[d][j] = w}}
                        : d \in DOMAIN pages}, <)

List(posts, ranking, tokenBits, entries) ==
  LET bits == NumSkipTableBits(entries, SkipBitsLess)
      width == 2^(tokenBits - bits)
  IN [posts |-> posts, ranking |-> ranking, bits |-> bits, width |-> width,
      size |-> 2^bits, table |-> SkipTable(posts, width, 2^bits)]

(* rankingData: the documents with the word, and how often it occurs       *)
Chunk(pages) ==
  LET bits == HighestBit(EndOf(pages, Len(pages)))
      ends == [d \in DOMAIN pages |-> EndOf(pages, d)]
      docs(w) == Cardinality({d \in DOMAIN pages : w \in ToSet(pages[d])})
      Seen(w) == docs(w) > 0
      posts(w) == PositionsOf(pages, w)
  IN [dict |-> FoldLeft(DictAdd, NewDict(BucketCount), SelectSeq(WordOrder, Seen)),
      lists |-> [w \in {v \in Words : Seen(v)} |->
                   List(posts(w), <<docs(w), Len(posts(w))>>, bits, Len(posts(w)))],
      eods |-> List(ends, <<Len(ends), Len(ends)>>, bits, Len(ends))]

-----------------------------------------------------------------------------
(* The readers are opened, and the chunks lie one behind the other: each   *)
(* begins where the last document of the one before ends.                  *)
Init ==
  /\ input \in Inputs
  /\ readers = [j \in DOMAIN input |-> Chunk(input[j])]
  /\ offsets = <<0>>
  /\ bucket = 0
  /\ merged = [dict |-> NewDict(BucketCount * Len(input)), lists |-> <<>>,
               eods |-> NoList]
  /\ mPhase = "open"

(* The constructor reads the documents of every index in turn.             *)
OpenIndex ==
  /\ mPhase = "open" /\ Len(offsets) <= Len(readers)
  /\ offsets' = Append(offsets, Last(offsets) + Last(readers[Len(offsets)].eods.posts))
  /\ UNCHANGED <<input, readers, bucket, merged, mPhase>>

TokenBits == HighestBit(Last(offsets))

Shifted(posts, j) == [i \in DOMAIN posts |-> posts[i] + offsets[j]]

(* writeEODList.  DocumentISR has the same two numbers, and calls the      *)
(* first of them the count of the documents, which it is.                  *)
WriteEODList ==
  LET n == FoldLeft(LAMBDA m, r : m + r.eods.ranking[2], 0, readers)
      posts == FlattenSeq([j \in DOMAIN readers |-> Shifted(readers[j].eods.posts, j)]) IN
  /\ mPhase = "open" /\ Len(offsets) = Len(readers) + 1
  /\ merged' = [merged EXCEPT !.eods = List(posts, <<n, n>>, TokenBits, n)]
  /\ mPhase' = "words"
  /\ UNCHANGED <<input, readers, offsets, bucket>>

(* Mutant of Combined: the positions of a reader are not shifted by those  *)
(* of the readers before it.                                               *)
CombinedUnshifted(w) ==
  LET opened == [j \in DOMAIN readers |-> OpenWord(readers[j], w)]
      num_occurences == FoldLeft(LAMBDA m, l : m + GetNumberOfOccurrences(l), 0, opened)
      num_docs == FoldLeft(LAMBDA m, l : m + GetDocumentCount(l), 0, opened)
      posts == FlattenSeq([j \in DOMAIN readers |-> opened[j].posts]) IN
  List(posts, <<num_docs, num_occurences>>, TokenBits, num_occurences)

(* writeWordList: the word's posts in all the indices that are left.  What *)
(* it writes as the number of documents is the sum of the bits of the skip *)
(* tables.                                                                 *)
Combined(w) ==
  LET opened == [j \in DOMAIN readers |-> OpenWord(readers[j], w)]
      num_occurences == FoldLeft(LAMBDA m, l : m + GetNumberOfOccurrences(l), 0, opened)
      num_docs == FoldLeft(LAMBDA m, l : m + GetDocumentCount(l), 0, opened)
      posts == FlattenSeq([j \in DOMAIN readers |-> Shifted(opened[j].posts, j)]) IN
  List(posts, <<num_docs, num_occurences>>, TokenBits, num_occurences)

Present(dict) == {i \in DOMAIN dict : dict[i] \notin {NoWord, DeletedWord} /\ i >= bucket}

(* processNextWord, for the next word that is left in the last index: it   *)
(* is written once and deleted from all.  exit(1) on a duplicate           *)
ProcessWord ==
  /\ mPhase = "words" /\ readers # <<>>
  /\ LET dict == Last(readers).dict
         next == Min(Present(dict))
         w == dict[next] IN
       /\ Present(dict) # {}
       /\ IF WordExists(merged.dict, w)
            THEN mPhase' = "exit" /\ UNCHANGED <<readers, bucket, merged>>
            ELSE /\ merged' = [merged EXCEPT
                      !.dict = DictAdd(@, w),
                      !.lists = (w :> Combined(w)) @@ @]
                 /\ readers' = [j \in DOMAIN readers |->
                      [readers[j] EXCEPT !.dict = DeleteWord(@, w)]]
                 /\ bucket' = next + 1
                 /\ UNCHANGED mPhase
  /\ UNCHANGED <<input, offsets>>

(* An index without words that are left is dropped.                        *)
DropIndex ==
  /\ mPhase = "words" /\ readers # <<>>
  /\ Present(Last(readers).dict) = {}
  /\ readers' = Front(readers) /\ bucket' = 0
  /\ UNCHANGED <<input, offsets, merged, mPhase>>

Finish ==
  /\ mPhase = "words" /\ readers = <<>>
  /\ mPhase' = "done"
  /\ UNCHANGED <<input, readers, offsets, bucket, merged>>

Next == OpenIndex \/ WriteEODList \/ ProcessWord \/ DropIndex \/ Finish

Spec == Init /\ [][Next]_vars

-----------------------------------------------------------------------------
(* What is merged is what a builder would have made of all the pages in    *)
(* their order: the same ends of documents, and for every word the same    *)
(* posts and the number of them, found where its hash is, once.  Of the    *)
(* number of documents with the word nothing is said: it is not merged.    *)
(* No word is met twice on the way.                                        *)
MergedExact ==
  LET pages == FlattenSeq(input) IN
  /\ mPhase # "exit"
  /\ mPhase = "done" =>
       /\ merged.eods.posts = [d \in DOMAIN pages |-> EndOf(pages, d)]
       /\ merged.eods.ranking = <<Len(pages), Len(pages)>>
       /\ DOMAIN merged.lists = UNION {ToSet(pages[d]) : d \in DOMAIN pages}
       /\ \A w \in DOMAIN merged.lists :
            LET l == merged.lists[w] IN
            /\ l.posts = PositionsOf(pages, w)
            /\ GetNumberOfOccurrences(l) = Len(l.posts)
            /\ WordExists(merged.dict, w)
       /\ Cardinality({b \in DOMAIN merged.dict : merged.dict[b] # NoWord})
            = Cardinality(DOMAIN merged.lists)

(* A seek in a merged list finds the first post that is not before its     *)
(* target, for every position of the merged index.                         *)
MergedSeeks ==
  mPhase = "done" =>
    \A l \in {merged.eods} \cup {merged.lists[w] : w \in DOMAIN merged.lists} :
      \A t \in 1 .. Last(offsets) :
        InTable(l, t) /\ Seek(l, t) = LeastOrZero({i \in DOMAIN l.posts : l.posts[i] >= t})

=============================================================================
