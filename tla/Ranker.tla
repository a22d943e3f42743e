-------------------------------- MODULE Ranker --------------------------------
(***************************************************************************)
(* What becomes of one document that matches (src/ranker.cpp, called by    *)
(* RankPages of src/query_worker_driver.cpp): the window of its words for  *)
(* the snippet is chosen from the positions of the query's words, then     *)
(* snippet and title are read from the file of the page.  The ranks        *)
(* themselves are numbers nothing here depends on.                         *)
(*                                                                         *)
(* A page has words, of which some are flagged as title; behind its last   *)
(* word lies the vector of its flags, behind that the next page's text, or *)
(* zeros behind the last page of a file.                                   *)
(***************************************************************************)
EXTENDS Integers, SequencesExt, FiniteSetsExt

CONSTANTS Documents,        \* records: words (their number), title (positions
                            \* from 0), occurrences (vectors of positions from
                            \* 1), last (is it the last page of its file?)
          max_window_size,  \* MAX_SNIP_WINDOW
          TitleSpan,        \* 50: the flags that are looked at
          Wide              \* 2^64, the numbers of a SizeT

VARIABLES doc,
          positions,        \* the merged positions, from 0
          left, right, current_value,
          best,             \* best_left, best_right, best_delta, max_value
          window,           \* start_word_index and end_word_index
          snippet, title,   \* sequences of positions; what is not a word of
                            \* the page is Blank
          open,             \* files that are open
          rPhase

scan == <<positions, left, right, current_value, best>>
vars == <<doc, scan, window, snippet, title, open, rPhase>>

Blank == -1

doc_length == doc.words + 1     \* as the index counts: with its end

(* MergeVectors: the positions of all words, counted from 0 and sorted:    *)
(* the k-th is the first up to which there are k of them.                  *)
MergeVectors(occurrences) ==
  LET slots == UNION {{j} \X DOMAIN occurrences[j] : j \in DOMAIN occurrences}
      UpTo(p) == Cardinality({s \in slots : occurrences[s[1]][s[2]] - 1 <= p})
  IN [k \in 1 .. Cardinality(slots) |-> Min({p \in 0 .. doc.words - 1 : UpTo(p) >= k})]

Init ==
  /\ doc \in Documents
  /\ positions = MergeVectors(doc.occurrences)
  /\ left = 0 /\ right = 0 /\ current_value = 0
  /\ best = [left |-> 0, right |-> 0, delta |-> 0, value |-> 0]
  /\ window = <<0, 0>> /\ snippet = <<>> /\ title = <<>> /\ open = 0
  /\ rPhase = "scan"

At(i) == positions[i + 1]

(* The next occurrence on the right; on the left those are given up that   *)
(* are too far from it.  A window replaces the best if it has as many      *)
(* occurrences and is wider.                                               *)
Slide ==
  LET l == Min({k \in left .. right : At(right) - At(k) <= max_window_size})
      value == current_value + 1 - (l - left)
      delta == At(right) - At(l)
  IN
    /\ rPhase = "scan" /\ right < Len(positions)
    /\ best' = IF value >= best.value /\ delta > best.delta
                 THEN [left |-> l, right |-> right, delta |-> delta, value |-> value]
                 ELSE best
    /\ left' = l /\ right' = right + 1 /\ current_value' = value
    /\ UNCHANGED <<doc, positions, window, snippet, title, open, rPhase>>

(* "Note: off by one error in index": the word before the first            *)
(* occurrence, which wraps around if that is the first word of the page    *)
Choose ==
  /\ rPhase = "scan" /\ right = Len(positions)
  /\ window' = <<(At(best.left) - 1) % Wide, At(best.right)>>
  /\ rPhase' = "extend"
  /\ UNCHANGED <<doc, scan, snippet, title, open>>

(* Mutant of Wider: the right end is not compared with the document's.     *)
WiderUnbound(w) == <<IF w[1] > 0 THEN w[1] - 1 ELSE 0, w[2] + 1>>

Wider(w) ==
  <<IF w[1] > 0 THEN w[1] - 1 ELSE 0, IF w[2] < doc_length THEN w[2] + 1 ELSE w[2]>>

(* One word more on both sides, until the window is large enough           *)
Extend ==
  LET more == (window[2] - window[1]) % Wide < max_window_size /\ Wider(window) # window IN
  /\ rPhase = "extend"
  /\ window' = IF more THEN Wider(window) ELSE window
  /\ rPhase' = IF more THEN "extend" ELSE "open"
  /\ UNCHANGED <<doc, scan, snippet, title, open>>

(* Without the file the document gets a blank title and snippet.           *)
OpenFails ==
  /\ rPhase = "open"
  /\ snippet' = <<Blank>> /\ title' = <<Blank>> /\ rPhase' = "done"
  /\ UNCHANGED <<doc, scan, window, open>>

OpenFile ==
  /\ rPhase = "open"
  /\ open' = open + 1 /\ rPhase' = "snippet"
  /\ UNCHANGED <<doc, scan, window, snippet, title>>

(* fscanf of the words from a position on: behind the page it finds a 0,   *)
(* and what it adds is empty.                                              *)
Words(from, to) == [k \in 1 .. to - from |-> IF from + k <= doc.words THEN from + k - 1 ELSE Blank]

(* A window that has wrapped around is read past by 2^64 calls of fscanf,  *)
(* which nobody waits for.                                                 *)
ReadSnippet ==
  /\ rPhase = "snippet"
  /\ IF window[1] > doc_length
       THEN rPhase' = "hung" /\ UNCHANGED snippet
       ELSE /\ snippet' = IF window[2] > window[1] THEN Words(window[1], window[2]) ELSE <<Blank>>
            /\ rPhase' = "title"
  /\ UNCHANGED <<doc, scan, window, title, open>>

(* Mutant of Flagged: the flags are not those of this page only.           *)
FlaggedBeyond ==
  {i \in 0 .. TitleSpan - 1 : IF i < doc.words THEN i \in doc.title ELSE ~doc.last}

(* The flags that are read: up to the next page, or into the zeros         *)
Flagged ==
  {i \in 0 .. TitleSpan - 1 : i < doc.words /\ i \in doc.title}

(* The words from the first that is flagged to the last; the file is not   *)
(* closed if there is none.                                                *)
ReadTitle ==
  /\ rPhase = "title"
  /\ IF Flagged = {}
       THEN title' = <<Blank>> /\ UNCHANGED open
       ELSE title' = Words(Min(Flagged), Max(Flagged) + 1) /\ open' = open - 1
  /\ rPhase' = "done"
  /\ UNCHANGED <<doc, scan, window, snippet>>

Next ==
  Slide \/ Choose \/ Extend \/ OpenFails \/ OpenFile \/ ReadSnippet \/ ReadTitle

Spec == Init /\ [][Next]_vars

-----------------------------------------------------------------------------
(* The snippet shows a word of the query, is not longer than it may be (by *)
(* one word at most), and has only words of the page, but for one at the   *)
(* end.  It is not read at all exactly if its window begins at the first   *)
(* word of the page.                                                       *)
SnippetShows ==
  /\ rPhase = "hung" => At(best.left) = 0
  /\ (rPhase \in {"title", "done"} /\ At(best.left) = 0) => (snippet = <<Blank>> /\ open = 0)
  /\ (rPhase \in {"title", "done"} /\ snippet # <<Blank>>) =>
       /\ \E i \in DOMAIN snippet : snippet[i] \in ToSet(positions)
       /\ Len(snippet) <= max_window_size + 1
       /\ Blank \notin ToSet(Front(snippet))
       /\ \A i \in 2 .. Len(snippet) : snippet[i] \in {Blank, snippet[i - 1] + 1}

(* The title has every flagged word of the first TitleSpan, begins and     *)
(* ends with one, and has no word of another page.  A file is left open    *)
(* exactly for a page without a title.                                     *)
TitleExact ==
  rPhase = "done" =>
    LET flagged == {i \in doc.title : i < TitleSpan} IN
    /\ title # <<Blank>> =>
         /\ flagged \subseteq ToSet(title)
         /\ {title[1], Last(title)} \subseteq flagged
         /\ Blank \notin ToSet(title)
    /\ (open = 1) <=> (flagged = {} /\ snippet # <<Blank>>)

(* What a reader sees of a page is what it has.                            *)
SnippetsShow == SnippetShows /\ TitleExact

=============================================================================
