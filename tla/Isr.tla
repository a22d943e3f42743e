-------------------------------- MODULE Isr ---------------------------------
(***************************************************************************)
(* The index stream readers (include/isr/*.hpp).  An ISR is a position in  *)
(* a chunk; Seek moves it to its first match that begins at a target.  The *)
(* ISR of an expression is a tree, and what Seek returns is the tree after *)
(* the call.                                                               *)
(*                                                                         *)
(* A chunk is a record: the posting list "eods" of the ends of the         *)
(* documents, and for each of its words a posting list.  The ISRs of words *)
(* and of documents begin at the skip table with every Seek, so where they *)
(* were does not matter.                                                   *)
(***************************************************************************)
EXTENDS PostingList, QueryParser, FiniteSetsExt

(* A node: start and end of its match, whether AtEnd says so, whether the  *)
(* last Seek returned a match, and whether a Seek in it left a skip table. *)
Node(kind, kids) ==
  [kind |-> kind, kids |-> kids, start |-> 0, end |-> 0, atEnd |-> FALSE,
   got |-> FALSE, wild |-> FALSE]

Ended(n) == [n EXCEPT !.atEnd = TRUE, !.got = FALSE]
Wild(n) == [Ended(n) EXCEPT !.wild = TRUE]
At(n, s, e) == [n EXCEPT !.start = s, !.end = e, !.got = TRUE]

(* The end of document d; document 0 is what lies before the first one.    *)
DocEnd(ch, d) == IF d = 0 THEN 0 ELSE ch.eods.posts[d]

(* DocumentISR::Seek: the first document that ends at or after a position. *)
(* GetDocumentLength counts its words and its end.                         *)
DocAt(ch, target) == Seek(ch.eods, target)
DocLength(ch, d) == DocEnd(ch, d) - DocEnd(ch, d - 1)

(* An ISR for a word: EmptyISR if the dictionary does not have it          *)
SeekWord(ch, n, target) ==
  IF n.kids \notin DOMAIN ch.words THEN Ended(n)
  ELSE LET l == ch.words[n.kids] IN
       IF ~ InTable(l, target) THEN Wild(n)
       ELSE LET i == Seek(l, target) IN
            IF i = 0 THEN Ended(n)
            ELSE [At(n, l.posts[i], l.posts[i]) EXCEPT !.atEnd = FALSE]

-----------------------------------------------------------------------------
(* PhraseISR: the word at index "far" is at "location"; the first other    *)
(* word that is not where it should be becomes the next one.  Locations    *)
(* are unsigned: below zero they are large numbers.  Like AndISR and       *)
(* ContainerISR, PhraseISR stays at its end once it was there.             *)
RECURSIVE PhraseFrom(_, _, _, _)
PhraseFrom(ch, n, location, far) ==
  LET target(i) == location + i - far
      word(i) == SeekWord(ch, n.kids[i], target(i))
      lost(i) == target(i) < 0 \/ word(i).wild
      misplaced == {i \in DOMAIN n.kids \ {far} :
                      lost(i) \/ ~ word(i).got \/ word(i).start # target(i)}
      next == Min(misplaced)
  IN IF misplaced = {}
       THEN IF location < Len(n.kids) - 1 THEN Wild(n)
            ELSE [At(n, location - (Len(n.kids) - 1), location)
                    EXCEPT !.got = ~ n.atEnd]
     ELSE IF lost(next) THEN Wild(n)
     ELSE IF ~ word(next).got THEN Ended(n)
     ELSE PhraseFrom(ch, n, word(next).start, next)

SeekPhrase(ch, n, target) ==
  LET words == [i \in DOMAIN n.kids |-> SeekWord(ch, n.kids[i], target)]
      farthest == Max({words[i].start : i \in DOMAIN words})
      far == Min({i \in DOMAIN words : words[i].start = farthest})
      missing == {i \in DOMAIN words : ~ words[i].got}
  IN IF missing # {}
       THEN IF words[Min(missing)].wild THEN Wild(n) ELSE Ended(n)
     ELSE PhraseFrom(ch, n, farthest, far)

-----------------------------------------------------------------------------
RECURSIVE SeekIn(_, _, _)
RECURSIVE AndFrom(_, _, _)
RECURSIVE ContainerFrom(_, _, _)

(* AndISR: seekAllPast, which stops at the first term without a match, and *)
(* updateLocationInfo, which asks the terms where they are, not what Seek  *)
(* has returned                                                            *)
SeekAllPast(ch, n, target) ==
  LET kids == [i \in DOMAIN n.kids |-> SeekIn(ch, n.kids[i], target)]
      missing == {i \in DOMAIN kids : ~ kids[i].got}
  IN
  IF missing # {}
    THEN IF kids[Min(missing)].wild THEN Wild(n)
         ELSE Ended([n EXCEPT !.kids = kids])
  ELSE IF \E i \in DOMAIN kids : kids[i].atEnd
    THEN Ended([n EXCEPT !.kids = kids])
  ELSE At([n EXCEPT !.kids = kids],
          Min({kids[i].start : i \in DOMAIN kids}),
          Max({kids[i].end : i \in DOMAIN kids}))

(* The first word of document d                                            *)
DocStart(ch, d) == DocEnd(ch, d) - (DocLength(ch, d) - 1)

(* Mutant of InDocument: the beginning of the match is compared.           *)
InDocumentStart(n, docEnd) == n.start <= docEnd

(* The loop test of AndISR::Seek: no term is past the end of the document. *)
InDocument(n, docEnd) == n.end <= docEnd

(* All terms go to the document of the farthest one until they agree.      *)
AndFrom(ch, n, docEnd) ==
  IF n.atEnd \/ InDocument(n, docEnd) THEN n
  ELSE LET d == DocAt(ch, n.end) IN
       AndFrom(ch, SeekAllPast(ch, n, DocStart(ch, d)), DocEnd(ch, d))

(* isAtEnd is never reset.  Where no document is left DocumentISR::Seek    *)
(* reads the head of the list as a post.                                   *)
SeekAnd(ch, n, target) ==
  LET d == DocAt(ch, target)
      past == SeekAllPast(ch, n, target)
  IN IF ~ InTable(ch.eods, target) THEN Wild(n)
     ELSE IF d = 0 /\ ~ past.atEnd THEN Wild(n)
     ELSE LET m == AndFrom(ch, past, DocEnd(ch, d))
          IN [m EXCEPT !.got = ~ m.atEnd]

(* ContainerISR: the first match of the first kid in a document where the  *)
(* second has none.                                                        *)
ContainerFrom(ch, n, target) ==
  LET include == SeekIn(ch, n.kids[1], target)
      d       == DocAt(ch, include.start)
      exclude == SeekIn(ch, n.kids[2], DocEnd(ch, d) - DocLength(ch, d))
      moved   == [n EXCEPT !.kids = <<include, exclude>>]
  IN IF include.wild THEN Wild(n)
     ELSE IF ~ include.got
       THEN Ended([n EXCEPT !.kids = <<include, n.kids[2]>>])
     ELSE IF exclude.wild THEN Wild(n)
     ELSE IF ~ exclude.got THEN At(moved, include.start, include.end)
     ELSE IF exclude.start <= DocEnd(ch, d)
       THEN ContainerFrom(ch, moved, DocEnd(ch, DocAt(ch, exclude.start)) + 1)
     ELSE [At(moved, include.start, include.end) EXCEPT !.got = ~ n.atEnd]

(* OrISR: the nearest match of all terms                                   *)
SeekOr(ch, n, target) ==
  LET kids == [i \in DOMAIN n.kids |-> SeekIn(ch, n.kids[i], target)]
      starts == {kids[i].start : i \in {j \in DOMAIN kids : kids[j].got}}
      moved == [n EXCEPT !.kids = kids]
  IN IF \E i \in DOMAIN kids : kids[i].wild THEN Wild(n)
     ELSE IF starts = {} THEN Ended(moved)
     ELSE [At(moved, Min(starts), Min(starts)) EXCEPT !.atEnd = FALSE]

SeekIn(ch, n, target) ==
  CASE n.kind = "word"      -> SeekWord(ch, n, target)
    [] n.kind = "phrase"    -> SeekPhrase(ch, n, target)
    [] n.kind = "and"       -> SeekAnd(ch, n, target)
    [] n.kind = "container" -> ContainerFrom(ch, n, target)
    [] n.kind = "or"        -> SeekOr(ch, n, target)
    [] n.kind = "empty"     -> Ended(n)

-----------------------------------------------------------------------------
(* The constructors, by way of Expression::Eval.  All but OrISR and the    *)
(* ISRs of words seek the first position.                                  *)
RECURSIVE Eval(_, _)

WordNode(w) == Node("word", w)

(* The words of a phrase are pieces of the text.  One with a control       *)
(* character in it is no word of any page.                                 *)
PhraseNode(pieces) ==
  Node("phrase", [i \in DOMAIN pieces |->
                    IF Len(pieces[i]) = 1 THEN WordNode(pieces[i][1])
                    ELSE Node("empty", <<>>)])

OrNode(kids) ==
  LET starts == {kids[i].start : i \in {j \in DOMAIN kids : ~ kids[j].atEnd}}
      n == [Node("or", kids) EXCEPT
              !.wild = \E i \in DOMAIN kids : kids[i].wild]
  IN IF starts = {} THEN Ended(n) ELSE At(n, Min(starts), Min(starts))

Eval(ch, e) ==
  CASE e[1] = "word"   -> SeekIn(ch, WordNode(e[2]), 1)
    [] e[1] = "phrase" -> SeekIn(ch, PhraseNode(e[2]), 1)
    [] e[1] = "and" ->
         LET n == Node("and", [i \in DOMAIN e[2] |-> Eval(ch, e[2][i])]) IN
         IF \E i \in DOMAIN n.kids : n.kids[i].wild THEN Wild(n)
         ELSE IF \E i \in DOMAIN n.kids : n.kids[i].atEnd THEN Ended(n)
         ELSE SeekIn(ch, n, 1)
    [] e[1] = "sm" ->
         LET n == Node("container", <<Eval(ch, e[2]), Eval(ch, e[3])>>) IN
         IF \E i \in 1 .. 2 : n.kids[i].wild THEN Wild(n)
         ELSE SeekIn(ch, n, 1)
    [] e[1] = "or"     -> OrNode([i \in DOMAIN e[2] |-> Eval(ch, e[2][i])])
    [] e[1] = "null"   -> Ended(Node("empty", <<>>))

(* Expression::Words: the words that are searched for, not the excluded    *)
(* ones.                                                                   *)
RECURSIVE WordsOf(_)
WordsOf(e) ==
  CASE e[1] = "word"   -> <<e[2]>>
    [] e[1] = "phrase" -> [i \in DOMAIN e[2] |-> e[2][i][1]]
    [] e[1] = "sm"     -> WordsOf(e[2])
    [] e[1] \in {"and", "or"} ->
         FlattenSeq([i \in DOMAIN e[2] |-> WordsOf(e[2][i])])

=============================================================================
