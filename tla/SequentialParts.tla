--------------------------- MODULE SequentialParts ---------------------------
(***************************************************************************)
(* What one thread runs alone of the way of a page: it is downloaded and   *)
(* parsed, and shown when it is found; and Vector, in which most of it is  *)
(* kept.  Each part has its own variables; MCSequential runs them, with    *)
(* the other containers, one at a time.                                    *)
(***************************************************************************)
EXTENDS Integers, Sequences

CONSTANTS Names, BoldTags, HTags, Title, MaxTokens,
          Start, Responses, MaxContent, CR, LF,
          Documents, max_window_size, TitleSpan, Wide,
          Contained, Holders, NoCell, UnsetItem, NoCall, MaxHeld

VARIABLES mode, tagStack, flagCounter, page, anchorText, read,
          pc, url, visitedURLs, response, wire, writer, held, asked,
          doc, positions, left, right, current_value, best, window, snippet, title, open, rPhase,
          vecs, vecResult

Html == INSTANCE HtmlParser
Download == INSTANCE Downloader
Rank == INSTANCE Ranker
Vec == INSTANCE Vector WITH
         Values <- Contained, Names <- Holders, Raw <- NoCell, Unset <- UnsetItem,
         NoResult <- NoCall, MaxTotal <- MaxHeld, result <- vecResult

(* No tag is called as the bottom of the parser's stack.                   *)
ASSUME HtmlAssumption == "DEFAULT" \notin {Title} \cup BoldTags \cup HTags

(* Bytes are numbers, and those of a line end are no digits.               *)
ASSUME DownloadAssumption ==
  /\ CR \in Nat \ (0 .. 15) /\ LF \in Nat \ (0 .. 15) /\ CR # LF
  /\ \A r \in Responses : r.chunks \in Seq(Seq(Nat)) /\ r.chunked \in BOOLEAN

(* A page as the index and the file describe it: a word of the query       *)
(* occurs in it, and positions count from 1.                               *)
IsDocument(d) ==
  /\ d.words \in Nat /\ d.title \subseteq 0 .. d.words - 1
  /\ d.occurrences \in Seq(Seq(1 .. d.words))
  /\ \E j \in DOMAIN d.occurrences : d.occurrences[j] # <<>>

(* The snippet is wider than a word, and no page is as long as the largest *)
(* number.                                                                 *)
ASSUME RankAssumption ==
  /\ max_window_size \in Nat /\ max_window_size >= 2
  /\ TitleSpan \in Nat /\ Wide \in Nat
  /\ \A d \in Documents : IsDocument(d) /\ d.words + max_window_size + 2 < Wide

(* Raw memory is told from an object.                                      *)
ASSUME VectorAssumption ==
  NoCell \notin Contained /\ UnsetItem # NoCell /\ MaxHeld \in Nat

(* The flags of a page are those of its words.                             *)
FlagsAligned == Html!FlagsAligned

(* A download asks no URL twice, returns what was sent, and leaves no      *)
(* socket open.                                                            *)
DownloadExact == Download!DownloadExact

(* Snippets and titles show words of their own pages.                      *)
SnippetsShow == Rank!SnippetsShow

=============================================================================
