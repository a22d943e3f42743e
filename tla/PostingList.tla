---------------------------- MODULE PostingList -----------------------------
(***************************************************************************)
(* Posting lists with their skip tables                                    *)
(* (include/index/posting_list_builder.hpp writes them,                    *)
(* src/word_impl_isr.cpp and src/document_isr.cpp seek in them).           *)
(*                                                                         *)
(* A list holds increasing token positions.  Its skip table cuts the       *)
(* positions of the chunk into intervals of equal width and says for each  *)
(* interval with which post to begin.                                      *)
(***************************************************************************)
EXTENDS Naturals, Sequences

(* The least element of a set of numbers, and 0 if there is none           *)
LeastOrZero(S) ==
  IF S = {} THEN 0 ELSE CHOOSE i \in S : \A j \in S : i <= j

(* getHighestBit: how many bits a number has                               *)
HighestBit(n) == CHOOSE k \in 0 .. n : n < 2^k /\ \A j \in 0 .. k - 1 : 2^j <= n

(* A table has 2 to 1024 entries; below 64 posts it has two.               *)
NumSkipTableBits(posts, less) ==
  LET bits == HighestBit(posts) IN
  IF bits <= less + 1 THEN 1 ELSE IF bits - less > 10 THEN 10 ELSE bits - less

(* Mutant of SkipEntry: an interval in which no post lies gets no entry.   *)
SkipEntryExact(posts, width, k) ==
  LeastOrZero({i \in DOMAIN posts : posts[i] \div width = k})

(* addPost enters the post it is about to write for its own interval and   *)
(* for all before it that have no entry.  Those after the last post stay   *)
(* zero.                                                                   *)
SkipEntry(posts, width, k) ==
  LeastOrZero({i \in DOMAIN posts : posts[i] \div width >= k})

SkipTable(posts, width, size) ==
  [k \in 0 .. size - 1 |-> SkipEntry(posts, width, k)]

(* The list of a word, or of the ends of documents, in a chunk whose       *)
(* number of tokens has tokenBits bits                                     *)
PostingList(posts, tokenBits, less) ==
  LET bits == NumSkipTableBits(Len(posts), less)
      width == 2^(tokenBits - bits)
  IN [posts |-> posts, width |-> width, size |-> 2^bits,
      table |-> SkipTable(posts, width, 2^bits)]

(* The index of the skip table that Seek computes is not compared with its *)
(* size.                                                                   *)
InTable(l, target) == target \div l.width < l.size

(* Seek: the post with which the interval of the target begins, and from   *)
(* there one post after the other until one is not before the target.  The *)
(* result is the number of the post, and 0 where the interval has no entry *)
(* or no such post is left.  A reader of words returns the null pointer    *)
(* for it.  A reader of documents does not see that an interval has no     *)
(* entry, because it tests a pointer that is never null, and reads the     *)
(* head of the list as a post: nobody may use that 0 of its list (Isr).    *)
Seek(l, target) ==
  LET from == l.table[target \div l.width] IN
  IF from = 0 THEN 0
  ELSE LeastOrZero({i \in from .. Len(l.posts) : l.posts[i] >= target})

=============================================================================
