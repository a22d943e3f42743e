------------------------------ MODULE HtmlParser ------------------------------
(***************************************************************************)
(* Parser (include/parse/parser.hpp), which a crawler thread runs on a     *)
(* page it downloaded.  The page is a sequence of tokens, which the        *)
(* environment chooses: a tag is one token, and a run of letters is one    *)
(* letter.  Looking for the end of something is a mode; when the page ends *)
(* in one, contentEqual throws and what was parsed so far is the result.   *)
(*                                                                         *)
(* handleQuote looks for the closing quotation mark where the opening one  *)
(* is, and so returns at once: quotes are characters like any other, and   *)
(* no mode.                                                                *)
(***************************************************************************)
EXTENDS Naturals, Sequences, SequencesExt, FiniteSets

CONSTANTS Names,       \* names of tags without a treatment of their own
          BoldTags,    \* boldTags, as a subset of Names
          HTags,       \* names of two letters that begin with h: h1, hr
          Title,       \* title
          MaxTokens    \* bound: tokens of a page

VARIABLES mode,         \* what the parser looks for; done or failed at the end
          tagStack,
          flagCounter,
          page,         \* parsedResult, wordFlags and inSpecialCharacter
          anchorText,
          read          \* tokens read

vars == <<mode, tagStack, flagCounter, page, anchorText, read>>

Classes == {"title", "bold", "header"}

Tag(kind, name) == [kind |-> kind, name |-> name]
Text(c) == Tag("text", c)

Chars ==
  {"w", "space", "&", "semicolon", "open_brace", "close_brace",
   "//", "/*", "*/", "eol", "-->", "]]>"}

Tokens ==
  {Text(c) : c \in Chars}
  \cup {Tag(kind, n) : kind \in {"open", "close"}, n \in Names \cup {"script", "style", "a"}}
  \cup {Tag("open", "html"), Tag("open", "html_lang"), Tag("selfclosed", "p"),
        Tag("comment", "<!--"), Tag("cdata", "<![CDATA")}

Init ==
  /\ mode = "text"
  /\ tagStack = <<"DEFAULT">>
  /\ flagCounter = [c \in Classes |-> 0]
  /\ page = [result |-> <<"space">>, flags |-> <<>>, special |-> FALSE]
  /\ anchorText = <<>>
  /\ read = 0

-----------------------------------------------------------------------------
(* parsedResult and wordFlags                                              *)

(* getWordFlag                                                             *)
WordFlag(counter) == {c \in Classes : counter[c] > 0}

(* Mutant of addWord: every separator ends a word.                         *)
addEveryWord(p, c, flag) ==
  IF c = "w" THEN [p EXCEPT !.result = Append(@, "w")]
  ELSE [p EXCEPT !.result = Append(@, "space"), !.flags = Append(@, flag)]

(* A separator ends a word if there is one, and gives it its flag: that of *)
(* the tags around the separator.  The last word of a page may have none.  *)
addWord(p, c, flag) ==
  IF c = "w" THEN IF Last(p.result) = "w" THEN p ELSE [p EXCEPT !.result = Append(@, "w")]
  ELSE IF Last(p.result) = "space" THEN p
  ELSE [p EXCEPT !.result = Append(@, "space"), !.flags = Append(@, flag)]

(* An ampersand swallows everything up to the next semicolon.              *)
addToResult(p, c, flag) ==
  IF c = "&" THEN [p EXCEPT !.special = TRUE]
  ELSE IF p.special THEN [p EXCEPT !.special = (c # "semicolon")]
  ELSE addWord(p, c, flag)

(* A tag is a separator, after it was handled.                             *)
Separated(counter) == page' = addToResult(page, "space", WordFlag(counter))

-----------------------------------------------------------------------------
(* Tags                                                                    *)

Class(name) ==
  CASE name = Title -> "title"
    [] name \in BoldTags -> "bold"
    [] name \in HTags -> "header"
    [] OTHER -> "none"

Count(counter, name, change) ==
  IF Class(name) = "none" THEN counter
  ELSE [counter EXCEPT ![Class(name)] = IF change = 1 THEN @ + 1 ELSE @ - 1]

Push(name) ==
  /\ tagStack' = Append(tagStack, name)
  /\ flagCounter' = Count(flagCounter, name, 1)

(* Mutant of Pop: a closing tag counts whether or not it matches.          *)
PopAny(name) ==
  IF tagStack # <<>> /\ Last(tagStack) = name
    THEN tagStack' = Front(tagStack) /\ flagCounter' = Count(flagCounter, name, 0)
    ELSE UNCHANGED tagStack /\ flagCounter' = Count(flagCounter, name, 1)

(* A closing tag that does not match the last open one is ignored: a tag   *)
(* that is never closed keeps those below it open for good.                *)
Pop(name) ==
  IF tagStack # <<>> /\ Last(tagStack) = name
    THEN tagStack' = Front(tagStack) /\ flagCounter' = Count(flagCounter, name, 0)
    ELSE UNCHANGED <<tagStack, flagCounter>>

(* handleTag on the tags that are only separators or move the stack        *)
PlainTag(t) ==
  /\ CASE t.kind = "open" /\ t.name # "html" -> Push(t.name)
       [] t.kind = "close" -> Pop(t.name)
       [] OTHER -> UNCHANGED <<tagStack, flagCounter>>
  /\ Separated(flagCounter')
  /\ UNCHANGED <<mode, anchorText>>

(* The modes that an opening begins                                        *)
Begins(t) ==
  CASE t.kind = "comment" -> "comment"
    [] t = Tag("open", "script") -> "script_begin"
    [] t = Tag("open", "style") -> "style"
    [] t = Tag("open", "a") -> "anchor"
    [] t = Text("open_brace") -> "brace"
    [] t = Tag("open", "html_lang") -> "failed"    \* language not english
    [] OTHER -> "text"

(* One iteration of parse                                                  *)
Parse(t) ==
  /\ mode = "text" /\ t.kind # "cdata"
  /\ CASE Begins(t) # "text" ->
            mode' = Begins(t) /\ UNCHANGED <<tagStack, flagCounter, page, anchorText>>
       [] Begins(t) = "text" /\ t.kind = "text" ->
            /\ page' = addToResult(page, t.name, WordFlag(flagCounter))
            /\ UNCHANGED <<mode, tagStack, flagCounter, anchorText>>
       [] OTHER -> PlainTag(t)

-----------------------------------------------------------------------------
(* Ends                                                                    *)

(* Back in parse: a brace is added itself, anything else is a separator.   *)
Found(c) ==
  /\ mode' = "text"
  /\ page' = addToResult(page, c, WordFlag(flagCounter))
  /\ anchorText' = <<>>
  /\ UNCHANGED <<tagStack, flagCounter>>

Seek(m) == mode' = m /\ UNCHANGED <<tagStack, flagCounter, page, anchorText>>

(* seekSubstr and handleStyle                                              *)
Skip(t) ==
  \/ mode = "brace" /\ IF t = Text("close_brace") THEN Found("close_brace") ELSE Seek(mode)
  \/ mode = "comment" /\ IF t = Text("-->") THEN Found("space") ELSE Seek(mode)
  \/ mode = "style" /\ IF t = Tag("close", "style") THEN Found("space") ELSE Seek(mode)

(* handleScript: comments are skipped, a line comment ends with the line   *)
(* or with the script, a block comment hides the end of the script, and    *)
(* after one CDATA in it nothing but its end is looked for.  The character *)
(* after a block comment is not looked at.                                 *)
Script(t) ==
  \/ /\ mode \in {"script_begin", "script", "line", "after_block"}
     /\ t = Tag("close", "script")
     /\ Found("space")
  \/ /\ mode \in {"script_begin", "script"} /\ t # Tag("close", "script")
     /\ Seek(CASE t = Text("//") -> "line" [] t = Text("/*") -> "block" [] OTHER -> "script")
  \/ /\ mode = "line" /\ t # Tag("close", "script")
     /\ Seek(CASE t = Text("eol") -> "script" [] t.kind = "cdata" -> "line_cdata"
               [] OTHER -> "line")
  \/ /\ mode = "block"
     /\ Seek(CASE t = Text("*/") -> "after_block" [] t.kind = "cdata" -> "block_cdata"
               [] OTHER -> "block")
  \/ mode = "after_block" /\ t # Tag("close", "script") /\ Seek("script")
  \/ mode = "line_cdata" /\ Seek(IF t = Text("]]>") THEN "line" ELSE mode)
  \/ mode = "block_cdata" /\ Seek(IF t = Text("]]>") THEN "block_end" ELSE mode)
  \/ mode = "block_end" /\ Seek(IF t = Text("*/") THEN "after_block" ELSE mode)

(* handleAnchor: the text up to the first tag is added, between two        *)
(* separators, and what follows up to the closing tag is not.              *)
Anchor(t) ==
  \/ /\ mode = "anchor" /\ t.kind = "text"
     /\ anchorText' = Append(anchorText, t.name)
     /\ UNCHANGED <<mode, tagStack, flagCounter, page>>
  \/ /\ mode = "anchor" /\ t.kind # "text"
     /\ mode' = IF t = Tag("close", "a") THEN "add_last" ELSE "add"
     /\ anchorText' = <<"space">> \o anchorText \o <<"space">>
     /\ UNCHANGED <<tagStack, flagCounter, page>>
  \/ mode = "anchor_end" /\ IF t = Tag("close", "a") THEN Found("space") ELSE Seek(mode)

(* Its loop over the text, which reads no token                            *)
AddAnchorText ==
  /\ mode \in {"add", "add_last"}
  /\ IF anchorText # <<>>
       THEN /\ page' = addToResult(page, Head(anchorText), WordFlag(flagCounter))
            /\ anchorText' = Tail(anchorText)
            /\ UNCHANGED <<mode, tagStack, flagCounter>>
       ELSE IF mode = "add" THEN Seek("anchor_end") ELSE Found("space")
  /\ UNCHANGED read

(* The page ends.  The loop of handleScript is not entered behind the last *)
(* character, and its tag is then a separator like any other.              *)
EndOfPage ==
  /\ mode \notin {"done", "failed", "add", "add_last"}
  /\ mode' = IF mode \in {"text", "script_begin"} THEN "done" ELSE "failed"
  /\ IF mode = "script_begin" THEN Separated(flagCounter) ELSE UNCHANGED page
  /\ UNCHANGED <<tagStack, flagCounter, anchorText, read>>

Next ==
  \/ /\ read < MaxTokens
     /\ read' = read + 1
     /\ \E t \in Tokens : Parse(t) \/ Skip(t) \/ Script(t) \/ Anchor(t)
  \/ AddAnchorText
  \/ EndOfPage

Spec == Init /\ [][Next]_vars

-----------------------------------------------------------------------------
CompleteWords == {i \in 2 .. Len(page.result) : page.result[i - 1] = "w" /\ page.result[i] = "space"}

(* Every word that ended has one flag and nothing else has, whichever way  *)
(* the page ends.                                                          *)
FlagsAlign == Len(page.flags) = Cardinality(CompleteWords)

(* The counters behind the flags are those of the tags on the stack.       *)
CountersMatchStack ==
  \A c \in Classes :
    flagCounter[c] = Cardinality({i \in DOMAIN tagStack : Class(tagStack[i]) = c})

FlagsAligned == FlagsAlign /\ CountersMatchStack

=============================================================================
