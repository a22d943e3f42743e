------------------------------- MODULE Search -------------------------------
(***************************************************************************)
(* From pages to answers: an index chunk is built from the pages of a page *)
(* file (include/index/index_builder.hpp, index_chunk_builder.hpp), then   *)
(* queries are parsed (module QueryParser), made into ISRs (module Isr)    *)
(* and solved (include/isr/constraint_solver.hpp, as RankPages in          *)
(* src/query_worker_driver.cpp calls it), one after the other.             *)
(*                                                                         *)
(* A page is a sequence of words, as read_word and the stemmer give them.  *)
(***************************************************************************)
EXTENDS Isr

CONSTANTS Words,            \* the words of the pages
          PageFiles,        \* the page files: sequences of pages
          Exprs,            \* the expressions that are asked,
          MoreTexts(_),     \* and further texts, for a page file
          SkipBitsLess      \* 6: a table has a 64th of the posts as entries

ASSUME WordsAssumption == Words \cap Controls = {}
ASSUME PagesAssumption ==
  \A pages \in PageFiles : pages \in Seq(Seq(Words)) /\ pages # <<>>
ASSUME SkipAssumption == SkipBitsLess \in Nat

VARIABLES
  pages,                 \* the page file
  doc_num,               \* the pages that are read
  tokenCount,            \* words and ends of documents so far
  wordCountsPositions,   \* [Words -> documents with the word, its positions]
  documents,             \* the positions of the ends of documents
  chunk,                 \* the index, or <<>> before it is written
  phase,
  text, expr,            \* the query
  mainIsr,
  documents_to_rank      \* the matches

buildVars == <<pages, doc_num, tokenCount, wordCountsPositions, documents,
               chunk>>
queryVars == <<phase, text, expr, mainIsr, documents_to_rank>>
vars == <<buildVars, queryVars>>

NoIsr == Ended(Node("empty", <<>>))

Init ==
  /\ pages \in PageFiles
  /\ doc_num = 0
  /\ tokenCount = 0
  /\ wordCountsPositions = [w \in Words |-> [docs |-> 0, positions |-> <<>>]]
  /\ documents = <<>>
  /\ chunk = <<>>
  /\ phase = "build"
  /\ text = <<>>
  /\ expr = <<"null">>
  /\ mainIsr = NoIsr
  /\ documents_to_rank = <<>>

-----------------------------------------------------------------------------
(* The positions of a word in a page                                       *)
PositionsIn(w, page) == SetToSortSeq({i \in DOMAIN page : page[i] = w}, <)

(* build_single_doc: every word takes a position, and so does the end.     *)
BuildSingleDoc ==
  LET page == pages[doc_num + 1] IN
  /\ phase = "build"
  /\ doc_num < Len(pages)
  /\ wordCountsPositions' =
       [w \in Words |->
          LET here == PositionsIn(w, page) IN
          [docs |-> wordCountsPositions[w].docs + (IF here = <<>> THEN 0 ELSE 1),
           positions |-> wordCountsPositions[w].positions \o
                           [i \in DOMAIN here |-> tokenCount + here[i]]]]
  /\ tokenCount' = tokenCount + Len(page) + 1
  /\ documents' = Append(documents, tokenCount')
  /\ doc_num' = doc_num + 1
  /\ UNCHANGED <<pages, chunk, queryVars>>

(* flushToDisk writes the chunk: the ends of the documents and a posting   *)
(* list for each word that was seen.                                       *)
FlushToDisk ==
  LET bits == HighestBit(tokenCount)
      ListOf(posts) == PostingList(posts, bits, SkipBitsLess)
      seen == {w \in Words : wordCountsPositions[w].positions # <<>>}
  IN
  /\ phase = "build"
  /\ doc_num = Len(pages)
  /\ chunk' = [eods   |-> ListOf(documents),
               words  |-> [w \in seen |->
                             ListOf(wordCountsPositions[w].positions)],
               tokens |-> tokenCount, bits |-> bits]
  /\ tokenCount' = 1
  /\ phase' = "ready"
  /\ UNCHANGED <<pages, doc_num, wordCountsPositions, documents, text, expr,
                 mainIsr, documents_to_rank>>

-----------------------------------------------------------------------------
(* The expressions are written without and with spaces.                    *)
Written == [e \in Exprs |-> {Text(e, gap) : gap \in {<<>>, <<" ">>}}]

Queries == UNION {Written[e] : e \in Exprs} \cup MoreTexts(pages)

(* A query arrives.  The query server does not pass on what it cannot      *)
(* parse.                                                                  *)
ParseQuery ==
  /\ phase = "ready"
  /\ \E q \in Queries :
       /\ text' = q
       /\ expr' = Parse(q)
  /\ phase' = IF expr' = <<"null">> THEN "done" ELSE "parsed"
  /\ UNCHANGED <<buildVars, mainIsr, documents_to_rank>>

Constraints ==
  /\ phase = "parsed"
  /\ mainIsr' = Eval(chunk, expr)
  /\ phase' = "solve"
  /\ UNCHANGED <<buildVars, text, expr, documents_to_rank>>

(* Mutant of Occurrences: all that follow in the chunk                     *)
OccurrencesOnwards(w, docStart, docEnd) ==
  LET posts == chunk.words[w].posts
      from == Seek(chunk.words[w], docStart)
      inside == SubSeq(posts, from, Len(posts))
  IN IF w \notin DOMAIN chunk.words \/ from = 0 THEN <<>>
     ELSE [i \in DOMAIN inside |-> inside[i] - docStart]

(* Where a word occurs between two positions, relative to the first one    *)
Occurrences(w, docStart, docEnd) ==
  LET posts == chunk.words[w].posts
      from == Seek(chunk.words[w], docStart)
      inside == SelectSeq(SubSeq(posts, from, Len(posts)),
                          LAMBDA p : p < docEnd)
  IN IF w \notin DOMAIN chunk.words \/ from = 0 THEN <<>>
     ELSE [i \in DOMAIN inside |-> inside[i] - docStart]

(* saveMatch: the document in which the match begins, and where the words  *)
(* of the query occur in it                                                *)
SaveMatch ==
  LET d == DocAt(chunk, mainIsr.start)
      docEnd == DocEnd(chunk, d)
      docStart == docEnd - DocLength(chunk, d)
      words == WordsOf(expr)
  IN
  /\ phase = "solve"
  /\ ~ mainIsr.atEnd
  /\ documents_to_rank' =
       Append(documents_to_rank,
              [docId |-> d - 1,
               total_term_count |-> DocLength(chunk, d),
               occurrences |-> [i \in DOMAIN words |->
                                  Occurrences(words[i], docStart, docEnd)]])
  /\ phase' = "saved"
  /\ UNCHANGED <<buildVars, text, expr, mainIsr>>

(* Mutant of NextDocument: from the last position.                         *)
NextDocumentAgain ==
  /\ phase = "saved"
  /\ mainIsr' = SeekIn(chunk, mainIsr, mainIsr.start)
  /\ phase' = "solve"
  /\ UNCHANGED <<buildVars, text, expr, documents_to_rank>>

(* OrISR::NextDocument: from the end of the document of the nearest match  *)
NextDocument ==
  /\ phase = "saved"
  /\ mainIsr' = SeekIn(chunk, mainIsr,
                       DocEnd(chunk, DocAt(chunk, mainIsr.start)))
  /\ phase' = "solve"
  /\ UNCHANGED <<buildVars, text, expr, documents_to_rank>>

Solved ==
  /\ phase = "solve"
  /\ mainIsr.atEnd
  /\ phase' = "done"
  /\ UNCHANGED <<buildVars, text, expr, mainIsr, documents_to_rank>>

(* The answer is sent, and the index waits for the next query.             *)
Answer ==
  /\ phase = "done"
  /\ phase' = "ready"
  /\ text' = <<>>
  /\ expr' = <<"null">>
  /\ mainIsr' = NoIsr
  /\ documents_to_rank' = <<>>
  /\ UNCHANGED buildVars

Work ==
  \/ BuildSingleDoc \/ FlushToDisk
  \/ Constraints \/ SaveMatch \/ NextDocument \/ Solved \/ Answer

Next == Work \/ ParseQuery

Spec == Init /\ [][Next]_vars

-----------------------------------------------------------------------------
(* What a query means: the pages that match an expression                  *)
RECURSIVE Matches(_, _)
Matches(page, e) ==
  CASE e[1] = "word" -> Contains(page, e[2])
    [] e[1] = "phrase" ->
         \E i \in 0 .. Len(page) - Len(e[2]) :
           \A k \in DOMAIN e[2] : <<page[i + k]>> = e[2][k]
    [] e[1] = "and" -> \A i \in DOMAIN e[2] : Matches(page, e[2][i])
    [] e[1] = "or"  -> \E i \in DOMAIN e[2] : Matches(page, e[2][i])
    [] e[1] = "sm"  -> Matches(page, e[2]) /\ ~ Matches(page, e[3])
    [] e[1] = "null" -> FALSE

Answered == phase = "done" /\ ~ mainIsr.wild

RECURSIVE Excludes(_)
Excludes(e) ==
  CASE e[1] = "sm" -> e[3] # <<"null">> \/ Excludes(e[2])
    [] e[1] \in {"and", "or"} -> \E i \in DOMAIN e[2] : Excludes(e[2][i])
    [] OTHER -> FALSE

(* An exclusion in parentheses with other factors: a (b \ c)               *)
RECURSIVE ExcludesWithin(_)
ExcludesWithin(e) ==
  CASE e[1] = "and" -> Len(e[2]) > 1 /\ Excludes(e)
    [] e[1] = "or"  -> \E i \in DOMAIN e[2] : ExcludesWithin(e[2][i])
    [] e[1] = "sm"  -> ExcludesWithin(e[2])
    [] OTHER -> FALSE

(* The phrases of an expression, and whether n words of one are repeated   *)
RECURSIVE PhrasesOf(_)
PhrasesOf(e) ==
  CASE e[1] = "phrase" -> {e[2]}
    [] e[1] = "sm" -> PhrasesOf(e[2]) \cup PhrasesOf(e[3])
    [] e[1] \in {"and", "or"} -> UNION {PhrasesOf(e[2][i]) : i \in DOMAIN e[2]}
    [] OTHER -> {}

Repeats(e, n) ==
  \E p \in PhrasesOf(e) : Len(p) >= Cardinality(ToSet(p)) + n

(* The solver saves the documents in their order and each of them once,    *)
(* also when its ISRs go back, as AndISR does, or forward over excluded    *)
(* documents: its loop ends after at most as many matches as there are     *)
(* pages.  A query with a phrase in which a word is repeated is excepted:  *)
(* NextDocument may find its match again for ever (MatchInOneDocument).    *)
EachDocumentOnce ==
  ~ Repeats(expr, 1) =>
    \A i, j \in DOMAIN documents_to_rank :
      i < j => documents_to_rank[i].docId < documents_to_rank[j].docId

(* When the solver is done, over all readers, skip tables and loops of the *)
(* ISRs, every page that matches the query is among the documents.  No     *)
(* other page is, unless the query has an exclusion within a conjunction:  *)
(* the excluded AndISR that was at its end when the ContainerISR was made  *)
(* stays there when the outer AndISR seeks again from the first position.  *)
MatchesExact ==
  LET found == {documents_to_rank[i].docId + 1 : i \in DOMAIN documents_to_rank}
      matching == {d \in DOMAIN pages : Matches(pages[d], expr)}
  IN Answered =>
       /\ matching \subseteq found
       /\ ~ ExcludesWithin(expr) => found \subseteq matching

(* What the ranker and the snippets get to know of a document.  The words  *)
(* of the query are where the page has them, counted from 1: docStart is   *)
(* the position of the end before the document.  total_term_count is the   *)
(* number of the words and one more for the end.  (The description in      *)
(* include/ranker/isr_snippet_rank_info.txt has "zero indexed" words and   *)
(* "doc length"; MergeVectors in src/ranker.cpp subtracts the 1.)          *)
OccurrencesExact ==
  \A i \in DOMAIN documents_to_rank :
    LET match == documents_to_rank[i]
        page == pages[match.docId + 1]
        words == WordsOf(expr)
    IN ~ mainIsr.wild =>
         /\ match.total_term_count = Len(page) + 1
         /\ match.occurrences = [k \in DOMAIN words |-> PositionsIn(words[k], page)]

(* A seek leaves a skip table in two cases only.  One goes on behind the   *)
(* last document, because an excluded word is in it, when the positions of *)
(* the chunk fill all values of their bits.  The other begins before the   *)
(* first position, that is near 2^32, where a phrase has two repeated      *)
(* words: PhraseISR subtracts its length from the position of the term it  *)
(* found last, which may be the first one ("a a a" at the beginning).      *)
SeeksInTable ==
  mainIsr.wild =>
    \/ Excludes(expr) /\ chunk.tokens + 1 = 2^chunk.bits
    \/ Repeats(expr, 2)

(* Parsing drops and adds nothing: what is parsed, written as a text       *)
(* again, is the text that the tokens made.                                *)
ParseFaithful ==
  phase = "parsed" => Text(expr, <<>>) = TokenStream(text)

(* Two neighbours between which TokenStream keeps no space although they   *)
(* are two factors                                                         *)
Glued(l, r) ==
  \/ IsWord(l) /\ r = "\""
  \/ l = "\"" /\ (IsWord(r) \/ r \in {"\"", "("})
  \/ l = ")" /\ r = "("

(* An expression of the grammar, written with any or no spaces around its  *)
(* operators, is taken up as this expression, unless a quote, or a pair of *)
(* parentheses, stands where TokenStream forgets the AND: a "b", "a" b,    *)
(* "a" "b", "a" (b) and (a) (b) find nothing.                              *)
GrammarUnderstood ==
  phase \in {"parsed", "done"} =>
    \A e \in Exprs :
      text \in Written[e] =>
        \/ expr = e
        \/ \E i \in 2 .. Len(text) - 1 :
             text[i] = " " /\ Glued(text[i - 1], text[i + 1])

(* AndISR brings all its terms "past the document begin" of the document   *)
(* of the farthest one: a match begins and ends in one document.           *)
MatchInOneDocument ==
  \A k \in DOMAIN mainIsr.kids :
    LET all == mainIsr.kids[k].kids[1] IN
    (phase = "solve" /\ all.kind = "and" /\ ~ all.atEnd) =>
      DocAt(chunk, all.start) = DocAt(chunk, all.end)

=============================================================================
