-------------------------- MODULE SequentialProofs ---------------------------
(***************************************************************************)
(* Proofs about SequentialParts: the parser's flags and counters, what a   *)
(* download asks for and returns, what the ranker shows of a page, and     *)
(* that vectors are sequences whose objects live once.                     *)
(***************************************************************************)
EXTENDS SequentialParts, LookupProofs, SequenceTheorems, FunctionTheorems
-----------------------------------------------------------------------------
(* HtmlParser: flags and counters                                          *)

htmlVars == <<mode, tagStack, flagCounter, page, anchorText, read>>

TagNames == Names \cup {"DEFAULT", "script", "style", "a", "html", "html_lang", "p",
                        "<!--", "<![CDATA"}

Pages == [result : Seq({"w", "space"}), flags : Seq(SUBSET Html!Classes), special : BOOLEAN]

(* The words of a text that ended                                          *)
EndedIn(r) == {i \in 2 .. Len(r) : r[i - 1] = "w" /\ r[i] = "space"}

Aligned(p) ==
  /\ p \in Pages /\ p.result # <<>>
  /\ Len(p.flags) = Cardinality(EndedIn(p.result))

(* The tags of a stack that belong to a class                              *)
OfClass(s, c) == {i \in DOMAIN s : Html!Class(s[i]) = c}

Matched(s, counter) ==
  /\ s \in Seq(TagNames) /\ counter \in [Html!Classes -> Nat]
  /\ \A c \in Html!Classes : counter[c] = Cardinality(OfClass(s, c))

HtmlInv == Aligned(page) /\ Matched(tagStack, flagCounter)

(* Cardinality inside the instance is that of the library.                 *)
LEMMA HtmlCardinality ==
  ASSUME NEW S
  PROVE  Html!Cardinality(S) = Cardinality(S)
BY Zenon DEF Html!Cardinality, Cardinality

(* Sets of positions are finite.                                           *)
LEMMA IndicesFinite ==
  ASSUME NEW n \in Nat, NEW S, S \subseteq 1 .. n
  PROVE  IsFiniteSet(S) /\ Cardinality(S) \in Nat
<1>1. IsFiniteSet(1 .. n)
  BY FS_Interval
<1>2. QED
  BY <1>1, FS_Subset, FS_CardinalityType

(* A character more ends a word exactly if it separates one.               *)
LEMMA EndedAppend ==
  ASSUME NEW r \in Seq({"w", "space"}), r # <<>>, NEW c \in {"w", "space"}
  PROVE  LET q == Append(r, c) IN
         /\ q \in Seq({"w", "space"}) /\ q # <<>>
         /\ Cardinality(EndedIn(r)) \in Nat
         /\ Cardinality(EndedIn(q)) =
              IF c = "space" /\ Html!Last(r) = "w" THEN Cardinality(EndedIn(r)) + 1
              ELSE Cardinality(EndedIn(r))
<1> DEFINE q == Append(r, c)
           n == Len(r)
<1>1. /\ n \in Nat /\ n # 0
      /\ q \in Seq({"w", "space"}) /\ q # <<>> /\ Len(q) = n + 1
      /\ q[n + 1] = c /\ \A i \in 1 .. n : q[i] = r[i]
  <2>1. n \in Nat /\ n # 0
    OBVIOUS
  <2>2. QED
    BY <2>1, AppendProperties
<1>2. Html!Last(r) = r[n]
  BY DEF Html!Last
<1>3. EndedIn(r) \subseteq 2 .. n
  BY DEF EndedIn
<1> HIDE DEF q, n
<1>4. n + 1 \notin 2 .. n /\ 2 .. n \subseteq 1 .. n
  BY <1>1
<1>5. IsFiniteSet(EndedIn(r)) /\ Cardinality(EndedIn(r)) \in Nat
  BY <1>1, <1>3, <1>4, IndicesFinite
<1>6. 2 .. n + 1 = (2 .. n) \cup {n + 1} /\ \A i \in 2 .. n : i \in 1 .. n /\ i - 1 \in 1 .. n
  BY <1>1
<1>7. n \in 1 .. n /\ (n + 1) - 1 = n
  BY <1>1
<1>8. EndedIn(q) = {i \in 2 .. n + 1 : q[i - 1] = "w" /\ q[i] = "space"}
      /\ EndedIn(r) = {i \in 2 .. n : r[i - 1] = "w" /\ r[i] = "space"}
  BY <1>1 DEF EndedIn, n
<1>9. CASE c = "space" /\ r[n] = "w"
  <2>1. EndedIn(q) = EndedIn(r) \cup {n + 1}
    BY <1>1, <1>6, <1>7, <1>8, <1>9
  <2>2. Cardinality(EndedIn(q)) = Cardinality(EndedIn(r)) + 1
    BY <1>3, <1>4, <1>5, <2>1, FS_AddElement
  <2>3. QED
    BY <1>1, <1>2, <1>5, <1>9, <2>2 DEF q
<1>10. CASE ~(c = "space" /\ r[n] = "w")
  <2>1. EndedIn(q) = EndedIn(r)
    BY <1>1, <1>6, <1>7, <1>8, <1>10
  <2>2. QED
    BY <1>1, <1>2, <1>5, <1>10, <2>1 DEF q
<1>11. QED
  BY <1>9, <1>10

(* addToResult keeps one flag for each word that ended.                    *)
LEMMA AddKeepsAligned ==
  ASSUME NEW p, Aligned(p), NEW c, NEW flag \in SUBSET Html!Classes
  PROVE  Aligned(Html!addToResult(p, c, flag))
<1> DEFINE a == Html!addToResult(p, c, flag)
           d == IF c = "w" THEN "w" ELSE "space"
           q == Append(p.result, d)
<1>1. /\ p \in Pages /\ p.result \in Seq({"w", "space"}) /\ p.result # <<>>
      /\ p.flags \in Seq(SUBSET Html!Classes)
      /\ Len(p.flags) = Cardinality(EndedIn(p.result))
  BY DEF Aligned, Pages
<1>2. /\ p = [result |-> p.result, flags |-> p.flags, special |-> p.special]
      /\ p.special \in BOOLEAN
  BY <1>1 DEF Pages
<1>3. \E b \in BOOLEAN :
        \/ a = [p EXCEPT !.special = b]
        \/ a = p
        \/ c = "w" /\ a = [p EXCEPT !.result = q]
        \/ c # "w" /\ Html!Last(p.result) # "space"
             /\ a = [p EXCEPT !.result = q, !.flags = Append(@, flag)]
  BY <1>2 DEF Html!addToResult, Html!addWord
<1>4. q \in Seq({"w", "space"}) /\ q # <<>>
      /\ Cardinality(EndedIn(q)) =
           IF d = "space" /\ Html!Last(p.result) = "w" THEN Cardinality(EndedIn(p.result)) + 1
           ELSE Cardinality(EndedIn(p.result))
  BY <1>1, EndedAppend
<1>5. Html!Last(p.result) \in {"w", "space"}
  <2>1. Len(p.result) \in 1 .. Len(p.result)
    BY <1>1
  <2>2. QED
    BY <1>1, <2>1 DEF Html!Last
<1>6. PICK b \in BOOLEAN :
        \/ a = [p EXCEPT !.special = b]
        \/ a = p
        \/ c = "w" /\ a = [p EXCEPT !.result = q]
        \/ c # "w" /\ Html!Last(p.result) # "space"
             /\ a = [p EXCEPT !.result = q, !.flags = Append(@, flag)]
  BY <1>3
<1> HIDE DEF a, q
<1>7. CASE a = [p EXCEPT !.special = b] \/ a = p
  BY <1>1, <1>2, <1>7 DEF Aligned, Pages, a
<1>8. CASE c = "w" /\ a = [p EXCEPT !.result = q]
  BY <1>1, <1>2, <1>4, <1>8 DEF Aligned, Pages, a
<1>9. CASE /\ c # "w" /\ Html!Last(p.result) # "space"
           /\ a = [p EXCEPT !.result = q, !.flags = Append(@, flag)]
  <2>1. a = [result |-> q, flags |-> Append(p.flags, flag), special |-> p.special]
    BY <1>2, <1>9
  <2>2. /\ Append(p.flags, flag) \in Seq(SUBSET Html!Classes)
        /\ Len(Append(p.flags, flag)) = Len(p.flags) + 1
    BY <1>1, AppendProperties
  <2>3. Cardinality(EndedIn(q)) = Cardinality(EndedIn(p.result)) + 1
    BY <1>4, <1>5, <1>9
  <2>4. a \in Pages
    BY <1>2, <1>4, <2>1, <2>2 DEF Pages
  <2>5. a.result = q /\ a.flags = Append(p.flags, flag)
    BY <2>1
  <2>6. QED
    BY <1>1, <1>4, <2>2, <2>3, <2>4, <2>5 DEF Aligned, a
<1>10. QED
  BY <1>6, <1>7, <1>8, <1>9

(* A class of a tag is one that is counted, or none.                       *)
LEMMA ClassType ==
  ASSUME NEW n
  PROVE  Html!Class(n) \in Html!Classes \cup {"none"} /\ "none" \notin Html!Classes
BY DEF Html!Class, Html!Classes

(* The counters follow the stack.                                          *)
LEMMA PushMatches ==
  ASSUME NEW s, NEW counter, Matched(s, counter), NEW n \in TagNames
  PROVE  Matched(Append(s, n), Html!Count(counter, n, 1))
<1> DEFINE q == Append(s, n)
           m == Len(s)
           k == Html!Class(n)
           after == Html!Count(counter, n, 1)
<1>1. s \in Seq(TagNames) /\ counter \in [Html!Classes -> Nat]
      /\ \A c \in Html!Classes : counter[c] = Cardinality(OfClass(s, c))
  BY DEF Matched
<1>2. /\ m \in Nat /\ q \in Seq(TagNames) /\ Len(q) = m + 1
      /\ q[m + 1] = n /\ \A i \in 1 .. m : q[i] = s[i]
      /\ DOMAIN s = 1 .. m /\ DOMAIN q = 1 .. m + 1
  <2>1. m \in Nat /\ DOMAIN s = 1 .. m /\ DOMAIN q = 1 .. Len(q)
    BY <1>1
  <2>2. QED
    BY <1>1, <2>1, AppendProperties
<1> HIDE DEF q, m
<1>3. 1 .. m + 1 = (1 .. m) \cup {m + 1} /\ m + 1 \notin 1 .. m
  BY <1>2
<1>4. ASSUME NEW c \in Html!Classes
      PROVE  /\ Cardinality(OfClass(q, c)) = IF c = k THEN counter[c] + 1 ELSE counter[c]
             /\ counter[c] \in Nat
  <2>1. OfClass(s, c) \subseteq 1 .. m /\ m + 1 \notin OfClass(s, c)
    BY <1>2, <1>3 DEF OfClass
  <2>2. /\ IsFiniteSet(OfClass(s, c))
        /\ Cardinality(OfClass(s, c)) = counter[c] /\ counter[c] \in Nat
    BY <1>1, <1>2, <2>1, IndicesFinite
  <2>3. OfClass(q, c) = IF c = k THEN OfClass(s, c) \cup {m + 1} ELSE OfClass(s, c)
    BY <1>2, <1>3 DEF OfClass
  <2>4. Cardinality(OfClass(s, c) \cup {m + 1}) = Cardinality(OfClass(s, c)) + 1
    BY <2>1, <2>2, FS_AddElement
  <2>5. QED
    BY <2>2, <2>3, <2>4
<1>5. after = IF k = "none" THEN counter ELSE [counter EXCEPT ![k] = @ + 1]
  BY DEF Html!Count
<1>6. k \in Html!Classes \cup {"none"}
  BY ClassType
<1> HIDE DEF k, after
<1>7. after \in [Html!Classes -> Nat]
      /\ \A c \in Html!Classes : after[c] = IF c = k THEN counter[c] + 1 ELSE counter[c]
  BY <1>1, <1>5, <1>6, ClassType
<1>8. QED
  BY <1>2, <1>4, <1>7 DEF Matched, q, after

(* A tag that is taken from the stack is no longer counted.                *)
LEMMA PopMatches ==
  ASSUME NEW s, NEW counter, Matched(s, counter), s # <<>>, NEW n, Html!Last(s) = n
  PROVE  Matched(Html!Front(s), Html!Count(counter, n, 0))
<1> DEFINE m == Len(s)
           q == SubSeq(s, 1, m - 1)
           k == Html!Class(n)
           after == Html!Count(counter, n, 0)
<1>1. s \in Seq(TagNames) /\ counter \in [Html!Classes -> Nat]
      /\ \A c \in Html!Classes : counter[c] = Cardinality(OfClass(s, c))
  BY DEF Matched
<1>2. m \in Nat \ {0} /\ DOMAIN s = 1 .. m
  BY <1>1
<1>3. Html!Front(s) = q /\ s[m] = n
  BY DEF Html!Front, Html!Last
<1>4. q \in Seq(TagNames) /\ DOMAIN q = 1 .. m - 1 /\ \A i \in 1 .. m - 1 : q[i] = s[i]
  <2>1. m - 1 \in Nat /\ m - 1 <= m
    BY <1>2
  <2>2. \A i \in 1 .. m - 1 : s[i] \in TagNames
    <3>1. \A i \in 1 .. m - 1 : i \in 1 .. m
      BY <1>2
    <3>2. QED
      BY <1>1, <1>2, <3>1
  <2>3. q = [i \in 1 .. m - 1 |-> s[i]]
    BY <1>1, <2>1
  <2>4. QED
    BY <2>1, <2>2, <2>3
<1> HIDE DEF q, m
<1>5. 1 .. m - 1 = (1 .. m) \ {m} /\ m \in 1 .. m
  BY <1>2
<1>6. ASSUME NEW c \in Html!Classes
      PROVE  /\ Cardinality(OfClass(q, c)) = IF c = k THEN counter[c] - 1 ELSE counter[c]
             /\ counter[c] \in Nat /\ (c = k => counter[c] > 0)
  <2>1. OfClass(s, c) \subseteq 1 .. m
    BY <1>2 DEF OfClass
  <2>2. /\ IsFiniteSet(OfClass(s, c))
        /\ Cardinality(OfClass(s, c)) = counter[c] /\ counter[c] \in Nat
    BY <1>1, <1>2, <2>1, IndicesFinite
  <2>3. OfClass(q, c) = OfClass(s, c) \ {m}
    BY <1>2, <1>4, <1>5 DEF OfClass
  <2>4. m \in OfClass(s, c) <=> c = k
    BY <1>2, <1>3, <1>5 DEF OfClass
  <2>5. CASE c = k
    <3>1. Cardinality(OfClass(s, c) \ {m}) = Cardinality(OfClass(s, c)) - 1
      BY <2>2, <2>4, <2>5, FS_RemoveElement
    <3>2. Cardinality(OfClass(s, c) \ {m}) \in Nat
      <4>1. OfClass(s, c) \ {m} \subseteq 1 .. m
        BY <2>1
      <4>2. QED
        BY <1>2, <4>1, IndicesFinite
    <3>3. QED
      BY <2>2, <2>3, <2>5, <3>1, <3>2
  <2>6. CASE c # k
    <3>1. OfClass(q, c) = OfClass(s, c)
      BY <2>3, <2>4, <2>6
    <3>2. QED
      BY <2>2, <2>6, <3>1
  <2>7. QED
    BY <2>5, <2>6
<1>7. after = IF k = "none" THEN counter ELSE [counter EXCEPT ![k] = @ - 1]
  BY DEF Html!Count
<1>8. k \in Html!Classes \cup {"none"}
  BY ClassType
<1> HIDE DEF k, after
<1>9. after \in [Html!Classes -> Nat]
      /\ \A c \in Html!Classes : after[c] = IF c = k THEN counter[c] - 1 ELSE counter[c]
  <2>1. k \in Html!Classes => counter[k] - 1 \in Nat
    BY <1>6
  <2>2. QED
    BY <1>1, <1>7, <1>8, <2>1, ClassType
<1>10. QED
  BY <1>3, <1>4, <1>6, <1>9 DEF Matched, after

-----------------------------------------------------------------------------
(* What a step does to the page and to the tags                            *)
Adds == page' = page \/ \E c : page' = Html!addToResult(page, c, Html!WordFlag(flagCounter'))

Moves ==
  \/ UNCHANGED <<tagStack, flagCounter>>
  \/ \E n \in TagNames : Html!Push(n) \/ Html!Pop(n)

(* What a token opens or closes is the name of a tag.                      *)
LEMMA TokensNamed ==
  ASSUME NEW t \in Html!Tokens
  PROVE  t.kind \in {"open", "close"} => t.name \in TagNames
BY DEF Html!Tokens, Html!Text, Html!Tag, TagNames

(* A token of the text moves the stack by one tag and adds one character.  *)
LEMMA ParseSteps ==
  ASSUME NEW t \in Html!Tokens, Html!Parse(t)
  PROVE  Adds /\ Moves
<1>1. CASE Html!Begins(t) # "text"
  BY <1>1 DEF Html!Parse, Adds, Moves
<1>2. CASE Html!Begins(t) = "text" /\ t.kind = "text"
  BY <1>2 DEF Html!Parse, Adds, Moves
<1>3. CASE Html!Begins(t) = "text" /\ t.kind # "text"
  <2>1. Html!PlainTag(t)
    BY <1>3 DEF Html!Parse
  <2>2. Adds
    BY <2>1 DEF Html!PlainTag, Html!Separated, Adds
  <2>3. Moves
    BY <2>1, TokensNamed DEF Html!PlainTag, Moves
  <2>4. QED
    BY <2>2, <2>3
<1>4. QED
  BY <1>1, <1>2, <1>3

(* So does the end of what was skipped.                                    *)
LEMMA FoundSteps ==
  ASSUME NEW c, Html!Found(c)
  PROVE  Adds /\ Moves
<1>1. UNCHANGED <<tagStack, flagCounter>>
  BY DEF Html!Found
<1>2. page' = Html!addToResult(page, c, Html!WordFlag(flagCounter'))
  BY <1>1 DEF Html!Found
<1>3. QED
  BY <1>1, <1>2 DEF Adds, Moves

(* Skipping changes neither.                                               *)
LEMMA SeekSteps ==
  ASSUME NEW m, Html!Seek(m)
  PROVE  Adds /\ Moves
BY DEF Html!Seek, Adds, Moves

(* Every step adds at most one character and moves the stack by one tag.   *)
LEMMA HtmlSteps ==
  ASSUME Html!Next
  PROVE  Adds /\ Moves
<1>1. CASE Html!AddAnchorText
  <2>1. CASE anchorText # <<>>
    <3>1. UNCHANGED <<tagStack, flagCounter>>
          /\ page' = Html!addToResult(page, Head(anchorText), Html!WordFlag(flagCounter))
      BY <1>1, <2>1 DEF Html!AddAnchorText
    <3>2. page' = Html!addToResult(page, Head(anchorText), Html!WordFlag(flagCounter'))
      BY <3>1
    <3>3. QED
      BY <3>1, <3>2 DEF Adds, Moves
  <2>2. CASE anchorText = <<>>
    <3>1. Html!Seek("anchor_end") \/ Html!Found("space")
      BY <1>1, <2>2 DEF Html!AddAnchorText
    <3>2. QED
      BY <3>1, FoundSteps, SeekSteps
  <2>3. QED
    BY <2>1, <2>2
<1>2. CASE Html!EndOfPage
  <2>1. UNCHANGED <<tagStack, flagCounter>>
    BY <1>2 DEF Html!EndOfPage
  <2>2. \/ UNCHANGED page
        \/ page' = Html!addToResult(page, "space", Html!WordFlag(flagCounter'))
    BY <1>2, <2>1 DEF Html!EndOfPage, Html!Separated
  <2>3. QED
    BY <2>1, <2>2 DEF Adds, Moves
<1>3. ASSUME NEW t \in Html!Tokens,
             Html!Parse(t) \/ Html!Skip(t) \/ Html!Script(t) \/ Html!Anchor(t)
      PROVE  Adds /\ Moves
  <2>1. CASE Html!Parse(t)
    BY <2>1, ParseSteps
  <2>2. CASE Html!Skip(t)
    <3>1. \E c : Html!Found(c) \/ Html!Seek(c)
      BY <2>2 DEF Html!Skip
    <3>2. QED
      BY <3>1, FoundSteps, SeekSteps
  <2>3. CASE Html!Script(t)
    <3>1. \E c : Html!Found(c) \/ Html!Seek(c)
      BY <2>3, Zenon DEF Html!Script
    <3>2. QED
      BY <3>1, FoundSteps, SeekSteps
  <2>4. CASE Html!Anchor(t)
    <3>1. CASE mode = "anchor"
      BY <2>4, <3>1 DEF Html!Anchor, Adds, Moves
    <3>2. CASE mode # "anchor"
      <4>1. \E c : Html!Found(c) \/ Html!Seek(c)
        BY <2>4, <3>2 DEF Html!Anchor
      <4>2. QED
        BY <4>1, FoundSteps, SeekSteps
    <3>3. QED
      BY <3>1, <3>2
  <2>5. QED
    BY <1>3, <2>1, <2>2, <2>3, <2>4
<1>4. QED
  BY <1>1, <1>2, <1>3 DEF Html!Next

(* The parser keeps flags and counters.                                    *)
LEMMA HtmlInvStep ==
  ASSUME HtmlInv, [Html!Next]_htmlVars
  PROVE  HtmlInv'
<1>1. CASE UNCHANGED htmlVars
  BY <1>1 DEF htmlVars, HtmlInv, Aligned, Matched, OfClass, EndedIn
<1>2. CASE Html!Next
  <2>1. Adds /\ Moves
    BY <1>2, HtmlSteps
  <2>2. Matched(tagStack', flagCounter')
    <3>1. CASE UNCHANGED <<tagStack, flagCounter>>
      BY <3>1 DEF HtmlInv
    <3>2. ASSUME NEW n \in TagNames, Html!Push(n)
          PROVE  Matched(tagStack', flagCounter')
      BY <3>2, PushMatches DEF HtmlInv, Html!Push
    <3>3. ASSUME NEW n \in TagNames, Html!Pop(n)
          PROVE  Matched(tagStack', flagCounter')
      <4>1. CASE tagStack # <<>> /\ Html!Last(tagStack) = n
        BY <3>3, <4>1, PopMatches DEF HtmlInv, Html!Pop
      <4>2. CASE ~(tagStack # <<>> /\ Html!Last(tagStack) = n)
        BY <3>3, <4>2 DEF HtmlInv, Html!Pop
      <4>3. QED
        BY <4>1, <4>2
    <3>4. QED
      BY <2>1, <3>1, <3>2, <3>3 DEF Moves
  <2>3. Aligned(page')
    <3>1. CASE page' = page
      BY <3>1 DEF HtmlInv
    <3>2. ASSUME NEW c, page' = Html!addToResult(page, c, Html!WordFlag(flagCounter'))
          PROVE  Aligned(page')
      <4>1. Html!WordFlag(flagCounter') \in SUBSET Html!Classes
        BY DEF Html!WordFlag
      <4>2. QED
        BY <3>2, <4>1, AddKeepsAligned DEF HtmlInv
    <3>3. QED
      BY <2>1, <3>1, <3>2 DEF Adds
  <2>4. QED
    BY <2>2, <2>3 DEF HtmlInv
<1>3. QED
  BY <1>1, <1>2

(* It begins with no words and no tags.                                    *)
LEMMA HtmlInvInit ==
  ASSUME Html!Init, Html!Class("DEFAULT") = "none"
  PROVE  HtmlInv
<1>1. Aligned(page)
  <2>1. page = [result |-> <<"space">>, flags |-> <<>>, special |-> FALSE]
    BY DEF Html!Init
  <2>2. EndedIn(<<"space">>) = {}
    BY DEF EndedIn
  <2>3. Cardinality({}) = 0
    BY FS_EmptySet
  <2>4. QED
    BY <2>1, <2>2, <2>3, SMTT(30) DEF Aligned, Pages
<1>2. Matched(tagStack, flagCounter)
  <2>1. tagStack = <<"DEFAULT">> /\ flagCounter = [c \in Html!Classes |-> 0]
    BY DEF Html!Init
  <2>2. \A c \in Html!Classes : OfClass(<<"DEFAULT">>, c) = {}
    BY ClassType DEF OfClass
  <2>3. Cardinality({}) = 0
    BY FS_EmptySet
  <2>4. QED
    BY <2>1, <2>2, <2>3 DEF Matched, TagNames
<1>3. QED
  BY <1>1, <1>2 DEF HtmlInv

(* Whatever a page consists of and wherever it ends, every word that ended *)
(* has one flag, and the counters behind the flags are those of the open   *)
(* tags, for any names of tags.                                            *)
THEOREM FlagsAreAligned == Html!Spec => []FlagsAligned
<1>1. Html!Init => HtmlInv
  <2>1. Html!Class("DEFAULT") = "none"
    BY HtmlAssumption DEF Html!Class
  <2>2. QED
    BY <2>1, HtmlInvInit
<1>2. HtmlInv /\ [Html!Next]_htmlVars => HtmlInv'
  BY HtmlInvStep
<1>3. HtmlInv => FlagsAligned
  BY HtmlCardinality DEF HtmlInv, Aligned, Matched, EndedIn, OfClass, FlagsAligned,
     Html!FlagsAligned,
     Html!FlagsAlign, Html!CountersMatchStack, Html!CompleteWords
<1>4. QED
  BY <1>1, <1>2, <1>3, PTL DEF Html!Spec, Html!vars, htmlVars

-----------------------------------------------------------------------------
(* Ranker: the window of a snippet                                         *)

rankVars == <<doc, Rank!scan, window, snippet, title, open, rPhase>>

Inner == Rank!At(best.left)
Outer == Rank!At(best.right)

PositionsOK ==
  /\ doc \in Documents
  /\ positions \in Seq(0 .. doc.words - 1) /\ Len(positions) \in Nat \ {0}

BestOK ==
  /\ left \in Nat /\ right \in Nat /\ left <= right
  /\ best.left \in 0 .. Len(positions) - 1 /\ best.right \in 0 .. Len(positions) - 1
  /\ best.delta = Outer - Inner /\ best.delta \in 0 .. max_window_size

(* The window never shrinks and does not grow by more than it may; one     *)
(* that has wrapped around stays far behind the page.                      *)
Wrapped ==
  /\ window[2] \in 0 .. doc.words + 1
  /\ \E j \in 0 .. max_window_size : window[1] = Wide - 1 - j

Around ==
  /\ window[1] \in Nat /\ window[1] <= Inner - 1
  /\ window[2] \in Nat /\ window[2] <= doc.words + 1 /\ Outer <= window[2]
  /\ window[2] - window[1] <= max_window_size + 1
  /\ Outer < window[2] \/ (window[1] = Inner - 1 /\ window[2] = Outer)

WindowOK ==
  rPhase # "scan" =>
    /\ window = <<window[1], window[2]>>
    /\ Inner = 0 => Wrapped
    /\ Inner # 0 => Around
    /\ (rPhase # "extend" /\ Inner # 0) => Inner < window[2]

OpenOK ==
  /\ rPhase \in {"scan", "extend", "open"} => open = 0
  /\ rPhase \in {"snippet", "title"} => open = 1
  /\ rPhase = "title" => snippet # <<Rank!Blank>> /\ Inner # 0
  /\ rPhase \in {"scan", "extend", "open", "snippet", "title", "done", "hung"}

RankInv == PositionsOK /\ BestOK /\ WindowOK /\ OpenOK /\ Rank!SnippetShows /\ Rank!TitleExact

(* The least of a set of naturals                                          *)
LEMMA MinLeast ==
  ASSUME NEW S, S \subseteq Nat, S # {}
  PROVE  Rank!Min(S) \in S /\ \A y \in S : Rank!Min(S) <= y
<1>1. PICK m \in S : \A y \in S : m <= y
  BY SomeLeast
<1>2. QED
  BY <1>1 DEF Rank!Min

(* The greatest of a set that is bounded                                   *)
LEMMA MaxGreatest ==
  ASSUME NEW n \in Nat, NEW S, S \subseteq 0 .. n, S # {}
  PROVE  Rank!Max(S) \in S /\ \A y \in S : y <= Rank!Max(S)
<1> DEFINE T == {m \in 0 .. n : n - m \in S}
<1>1. T \subseteq Nat /\ T # {}
  <2>1. PICK y \in S : TRUE
    OBVIOUS
  <2>2. n - y \in 0 .. n /\ n - (n - y) = y
    BY <2>1
  <2>3. n - y \in T
    BY <2>1, <2>2
  <2>4. T \subseteq Nat
    OBVIOUS
  <2>5. QED
    BY <2>3, <2>4
<1>2. PICK m \in T : \A k \in T : m <= k
  BY <1>1, SomeLeast
<1>3. n - m \in S
  OBVIOUS
<1>4. ASSUME NEW y \in S
      PROVE  n - m >= y
  <2>1. n - y \in 0 .. n /\ n - (n - y) = y /\ y \in Int
    OBVIOUS
  <2>2. m <= n - y
    BY <1>2, <2>1
  <2>3. QED
    BY <2>1, <2>2
<1>5. Rank!Max(S) \in S /\ \A y \in S : Rank!Max(S) >= y
  BY <1>3, <1>4 DEF Rank!Max
<1>6. QED
  BY <1>5

(* A difference of unsigned numbers is the number, or wraps around once.   *)
LEMMA WrapAround ==
  ASSUME NEW w \in Nat, NEW x \in Int
  PROVE  /\ (0 <= x /\ x < w) => x % w = x
         /\ (-w <= x /\ x < 0) => x % w = x + w
OBVIOUS

(* Cardinality inside the instance is that of the library.                 *)
LEMMA RankCardinality ==
  ASSUME NEW S
  PROVE  Rank!Cardinality(S) = Cardinality(S)
BY Zenon DEF Rank!Cardinality, Cardinality

(* The merged positions are positions of the page, and there is one.       *)
LEMMA MergedPositions ==
  ASSUME IsDocument(doc)
  PROVE  LET p == Rank!MergeVectors(doc.occurrences) IN
         p \in Seq(0 .. doc.words - 1) /\ Len(p) \in Nat \ {0}
<1> DEFINE occ == doc.occurrences
           words == doc.words
           slots == UNION {{j} \X DOMAIN occ[j] : j \in DOMAIN occ}
           Below(p) == {s \in slots : occ[s[1]][s[2]] - 1 <= p}
           Places(k) == {p \in 0 .. words - 1 : Cardinality(Below(p)) >= k}
           N == Cardinality(slots)
<1>1. PICK n \in Nat : /\ DOMAIN occ = 1 .. n
                       /\ \A j \in 1 .. n : occ[j] \in Seq(1 .. words)
  <2>1. occ \in Seq(Seq(1 .. words))
    BY DEF IsDocument
  <2>2. DOMAIN occ = 1 .. Len(occ) /\ Len(occ) \in Nat
    BY <2>1
  <2>3. \A j \in 1 .. Len(occ) : occ[j] \in Seq(1 .. words)
    BY <2>1, ElementOfSeq
  <2>4. QED
    BY <2>2, <2>3
<1>2. words \in Nat
  BY DEF IsDocument
<1>3. PICK j0 \in 1 .. n : occ[j0] # <<>>
  BY <1>1 DEF IsDocument
<1>4. IsFiniteSet(slots)
  <2> DEFINE T == {{j} \X DOMAIN occ[j] : j \in 1 .. n}
             f == [j \in 1 .. n |-> {j} \X DOMAIN occ[j]]
  <2>1. f \in Surjection(1 .. n, T)
    BY Fun_IsSurj
  <2>2. IsFiniteSet(1 .. n)
    BY FS_Interval
  <2>3. IsFiniteSet(T)
    BY <2>1, <2>2, FS_Surjection
  <2>4. ASSUME NEW j \in 1 .. n
        PROVE  IsFiniteSet({j} \X DOMAIN occ[j])
    <3>1. occ[j] \in Seq(1 .. words)
      BY <1>1
    <3>2. DOMAIN occ[j] = 1 .. Len(occ[j]) /\ Len(occ[j]) \in Nat
      BY <3>1
    <3>3. IsFiniteSet(DOMAIN occ[j])
      BY <3>2, FS_Interval
    <3>4. QED
      BY <3>3, FS_Singleton, FS_Product
  <2>5. \A t \in T : IsFiniteSet(t)
    BY <2>4
  <2>6. IsFiniteSet(UNION T)
    BY <2>3, <2>5, FS_UNION
  <2>7. slots = UNION T
    BY <1>1
  <2>8. QED
    BY <2>6, <2>7
<1>5. <<j0, 1>> \in slots
  <2>1. occ[j0] \in Seq(1 .. words)
    BY <1>1
  <2>2. 1 \in DOMAIN occ[j0]
    BY <1>3, <2>1
  <2>3. QED
    BY <1>1, <2>2
<1>6. ASSUME NEW s \in slots
      PROVE  occ[s[1]][s[2]] \in 1 .. words
  <2>1. PICK j \in 1 .. n : s \in {j} \X DOMAIN occ[j]
    BY <1>1
  <2>2. PICK i \in DOMAIN occ[j] : s = <<j, i>>
    BY <2>1
  <2>3. occ[j] \in Seq(1 .. words)
    BY <1>1
  <2>4. occ[j][i] \in 1 .. words
    <3> HIDE DEF occ, words
    <3>1. DOMAIN occ[j] = 1 .. Len(occ[j])
      BY <2>3
    <3>2. QED
      BY <2>3, <3>1, ElementOfSeq
  <2>5. QED
    BY <2>2, <2>4
<1>7. N \in Nat /\ N # 0
  BY <1>4, <1>5, FS_CardinalityType, FS_EmptySet
<1>8. words - 1 \in 0 .. words - 1 /\ Below(words - 1) = slots
  <2>1. words >= 1
    BY <1>2, <1>5, <1>6
  <2>2. \A s \in slots : occ[s[1]][s[2]] - 1 <= words - 1
    BY <1>2, <1>6
  <2>3. QED
    BY <1>2, <2>1, <2>2
<1>9. ASSUME NEW k \in 1 .. N
      PROVE  Rank!Min(Places(k)) \in 0 .. words - 1
  <2>1. Cardinality(Below(words - 1)) >= k
    <3> HIDE DEF slots
    <3>1. Cardinality(Below(words - 1)) = N
      BY <1>8
    <3>2. QED
      BY <1>7, <3>1
  <2>2. Places(k) \subseteq Nat /\ Places(k) # {}
    <3> HIDE DEF Below
    <3>1. words - 1 \in Places(k)
      BY <1>8, <2>1
    <3>2. Places(k) \subseteq Nat
      OBVIOUS
    <3>3. QED
      BY <3>1, <3>2
  <2>3. Rank!Min(Places(k)) \in Places(k)
    BY <2>2, MinLeast
  <2>4. QED
    BY <2>3
<1>10. Rank!MergeVectors(occ) = [k \in 1 .. N |-> Rank!Min(Places(k))]
  BY RankCardinality DEF Rank!MergeVectors
<1> HIDE DEF N, Places
<1>11. QED
  BY <1>7, <1>9, <1>10

(* The words from a position on, of which only the last may be missing     *)
LEMMA WordsRead ==
  ASSUME doc.words \in Nat,
         NEW from \in Nat, NEW to \in Nat, from < to, to <= doc.words + 1
  PROVE  LET s == Rank!Words(from, to) IN
         /\ DOMAIN s = 1 .. to - from /\ Len(s) = to - from
         /\ \A q \in from .. to - 1 : q < doc.words => s[q - from + 1] = q
         /\ Rank!Blank \notin Rank!ToSet(Rank!Front(s))
         /\ \A i \in 2 .. Len(s) : s[i] \in {Rank!Blank, s[i - 1] + 1}
<1> DEFINE s == Rank!Words(from, to)
           n == to - from
           word(k) == IF from + k <= doc.words THEN from + k - 1 ELSE Rank!Blank
<1>1. n \in Nat /\ n >= 1 /\ from + n <= doc.words + 1
  OBVIOUS
<1>2. s = [k \in 1 .. n |-> word(k)]
  BY DEF Rank!Words
<1>3. DOMAIN s = 1 .. n /\ Len(s) = n /\ \A k \in 1 .. n : s[k] = word(k)
  BY <1>1, <1>2
<1>4. s \in Seq(Int)
  BY <1>1, <1>2 DEF Rank!Blank
<1>5. \A q \in from .. to - 1 : q < doc.words => s[q - from + 1] = q
  <2>1. SUFFICES ASSUME NEW q \in from .. to - 1, q < doc.words
                 PROVE  s[q - from + 1] = q
    OBVIOUS
  <2>2. q - from + 1 \in 1 .. n
    OBVIOUS
  <2>3. s[q - from + 1] = word(q - from + 1)
    BY <1>3, <2>2
  <2>4. from + (q - from + 1) <= doc.words /\ from + (q - from + 1) - 1 = q
    BY <2>1
  <2>5. QED
    BY <2>3, <2>4
<1>6. \A k \in 1 .. n - 1 : s[k] = from + k - 1 /\ s[k] # Rank!Blank
  BY <1>1, <1>3 DEF Rank!Blank
<1>7. Rank!Blank \notin Rank!ToSet(Rank!Front(s))
  <2>1. Rank!Front(s) = SubSeq(s, 1, n - 1)
    BY <1>3 DEF Rank!Front
  <2>2. /\ DOMAIN SubSeq(s, 1, n - 1) = 1 .. n - 1
        /\ \A k \in 1 .. n - 1 : SubSeq(s, 1, n - 1)[k] = s[k]
    <3> HIDE DEF s, n
    <3>1. 1 \in 1 .. n + 1 /\ n - 1 \in 0 .. n
      BY <1>1
    <3>2. QED
      BY <1>1, <1>3, <1>4, <3>1, SubSeqProperties
  <2> HIDE DEF s, n
  <2>3. QED
    BY <1>6, <2>1, <2>2 DEF Rank!ToSet
<1>8. \A i \in 2 .. n : s[i] \in {Rank!Blank, s[i - 1] + 1}
  <2>1. SUFFICES ASSUME NEW i \in 2 .. n
                 PROVE  s[i] \in {Rank!Blank, s[i - 1] + 1}
    OBVIOUS
  <2>2. i \in 1 .. n /\ i - 1 \in 1 .. n - 1
    BY <1>1
  <2>3. s[i - 1] = from + (i - 1) - 1
    BY <1>6, <2>2
  <2>4. s[i] = word(i)
    BY <1>3, <2>2
  <2> HIDE DEF s
  <2>5. QED
    BY <2>2, <2>3, <2>4
<1> HIDE DEF s
<1>9. QED
  BY <1>3, <1>5, <1>7, <1>8 DEF s

(* Behind every window the scan keeps lie two occurrences that are close.  *)
LEMMA SlideKeeps ==
  ASSUME RankInv, Rank!Slide
  PROVE  RankInv'
<1> DEFINE K == {k \in left .. right : Rank!At(right) - Rank!At(k) <= max_window_size}
           l == Rank!Min(K)
           value == current_value + 1 - (l - left)
           delta == Rank!At(right) - Rank!At(l)
<1>1. /\ rPhase = "scan" /\ rPhase' = "scan" /\ right < Len(positions)
      /\ best' = IF value >= best.value /\ delta > best.delta
                   THEN [left |-> l, right |-> right, delta |-> delta, value |-> value]
                   ELSE best
      /\ left' = l /\ right' = right + 1
      /\ doc' = doc /\ positions' = positions /\ open' = open
  BY DEF Rank!Slide
<1>2. /\ left \in Nat /\ right \in Nat /\ left <= right
      /\ \A k \in 0 .. Len(positions) - 1 : Rank!At(k) \in Nat
      /\ max_window_size \in Nat /\ Len(positions) \in Nat
  <2>1. \A k \in 0 .. Len(positions) - 1 : k + 1 \in 1 .. Len(positions)
    BY DEF RankInv, PositionsOK
  <2>2. \A k \in 1 .. Len(positions) : positions[k] \in 0 .. doc.words - 1
    BY ElementOfSeq DEF RankInv, PositionsOK
  <2>3. QED
    BY <2>1, <2>2, RankAssumption DEF RankInv, BestOK, PositionsOK, Rank!At
<1>3. right \in K
  BY <1>1, <1>2
<1>4. l \in K
  <2>1. K \subseteq Nat /\ K # {}
    BY <1>2, <1>3
  <2>2. QED
    BY <2>1, MinLeast
<1>5. l \in left .. right /\ delta <= max_window_size /\ delta \in Int
      /\ l \in 0 .. Len(positions) - 1 /\ right \in 0 .. Len(positions) - 1
  BY <1>1, <1>2, <1>4, SMTT(30)
<1> HIDE DEF l, value
<1>6. BestOK'
  <2>1. left' \in Nat /\ right' \in Nat /\ left' <= right'
    BY <1>1, <1>2, <1>5
  <2>2. CASE best' = best
    BY <1>1, <2>1, <2>2 DEF RankInv, BestOK, Inner, Outer, Rank!At
  <2>3. CASE best' # best
    <3>1. /\ best'.left = l /\ best'.right = right /\ best'.delta = delta
          /\ delta > best.delta
      BY <1>1, <2>3
    <3>2. best.delta \in Nat
      BY <1>2 DEF RankInv, BestOK
    <3>3. Inner' = Rank!At(l) /\ Outer' = Rank!At(right)
      BY <1>1, <3>1 DEF Inner, Outer, Rank!At
    <3>4. QED
      BY <1>1, <1>2, <1>5, <2>1, <3>1, <3>2, <3>3 DEF BestOK
  <2>4. QED
    BY <2>2, <2>3
<1>7. PositionsOK' /\ OpenOK' /\ WindowOK'
  BY <1>1 DEF RankInv, PositionsOK, OpenOK, WindowOK
<1>8. Rank!SnippetShows' /\ Rank!TitleExact'
  BY <1>1 DEF Rank!SnippetShows, Rank!TitleExact
<1>9. QED
  BY <1>6, <1>7, <1>8 DEF RankInv

(* What the steps behind the scan know                                     *)
LEMMA RankTypes ==
  ASSUME RankInv
  PROVE  /\ Inner \in 0 .. doc.words - 1 /\ Outer \in 0 .. doc.words - 1
         /\ Outer - Inner \in 0 .. max_window_size
         /\ doc.words \in Nat /\ max_window_size \in Nat /\ max_window_size >= 2
         /\ Wide \in Nat /\ doc.words + max_window_size + 2 < Wide
         /\ doc.title \subseteq 0 .. doc.words - 1 /\ TitleSpan \in Nat
         /\ Inner \in Rank!ToSet(positions)
<1>1. /\ positions \in Seq(0 .. doc.words - 1)
      /\ best.left + 1 \in 1 .. Len(positions) /\ best.right + 1 \in 1 .. Len(positions)
  BY DEF RankInv, PositionsOK, BestOK
<1>2. Inner \in 0 .. doc.words - 1 /\ Outer \in 0 .. doc.words - 1
  BY <1>1, ElementOfSeq DEF Inner, Outer, Rank!At
<1>3. best.left + 1 \in DOMAIN positions
  BY <1>1
<1>4. Inner \in Rank!ToSet(positions)
  BY <1>3 DEF Inner, Rank!At, Rank!ToSet
<1>5. QED
  BY <1>2, <1>4, RankAssumption DEF IsDocument, RankInv, PositionsOK, BestOK

(* A step that leaves the scan's result alone                              *)
LEMMA ScanKept ==
  ASSUME RankInv, doc' = doc, UNCHANGED Rank!scan
  PROVE  PositionsOK' /\ BestOK' /\ Inner' = Inner /\ Outer' = Outer
         /\ positions' = positions /\ best' = best
BY DEF RankInv, PositionsOK, BestOK, Inner, Outer, Rank!At, Rank!scan

(* The window that is chosen lies around them, or wraps around.            *)
LEMMA ChooseKeeps ==
  ASSUME RankInv, Rank!Choose
  PROVE  RankInv'
<1>1. /\ rPhase = "scan" /\ rPhase' = "extend"
      /\ window' = <<(Inner - 1) % Wide, Outer>>
      /\ doc' = doc /\ UNCHANGED Rank!scan /\ open' = open
  BY DEF Rank!Choose, Inner, Outer
<1>2. PositionsOK' /\ BestOK' /\ Inner' = Inner /\ Outer' = Outer
  BY <1>1, ScanKept
<1>3. /\ window'[1] = (Inner - 1) % Wide /\ window'[2] = Outer
      /\ window' = <<window'[1], window'[2]>>
  BY <1>1
<1>4. CASE Inner = 0
  <2>1. (Inner - 1) % Wide = Wide - 1 - 0
    <3>1. /\ Inner - 1 \in Int /\ -Wide <= Inner - 1 /\ Inner - 1 < 0 /\ Wide \in Nat
          /\ Inner - 1 + Wide = Wide - 1 - 0
      BY <1>4, RankTypes
    <3>2. QED
      BY <3>1, WrapAround
  <2>2. 0 \in 0 .. max_window_size /\ Outer \in 0 .. doc.words + 1
    BY RankTypes
  <2>3. Wrapped'
    BY <1>1, <1>3, <2>1, <2>2 DEF Wrapped
  <2>4. QED
    BY <1>1, <1>2, <1>3, <1>4, <2>3 DEF WindowOK, RankInv, OpenOK, Rank!SnippetShows,
       Rank!TitleExact
<1>5. CASE Inner # 0
  <2>1. (Inner - 1) % Wide = Inner - 1
    <3>1. Inner - 1 \in Int /\ 0 <= Inner - 1 /\ Inner - 1 < Wide /\ Wide \in Nat
      BY <1>5, RankTypes
    <3>2. QED
      BY <3>1, WrapAround
  <2>2. Around'
    BY <1>1, <1>2, <1>3, <1>5, <2>1, RankTypes DEF Around
  <2>3. QED
    BY <1>1, <1>2, <1>3, <1>5, <2>2 DEF WindowOK, RankInv, OpenOK, Rank!SnippetShows,
       Rank!TitleExact
<1>6. QED
  BY <1>4, <1>5

(* Widening a window keeps it within its size and the page.                *)
LEMMA ExtendKeeps ==
  ASSUME RankInv, Rank!Extend
  PROVE  RankInv'
<1> DEFINE w == Rank!Wider(window)
           width == (window[2] - window[1]) % Wide
           more == width < max_window_size /\ w # window
           one == IF window[1] > 0 THEN window[1] - 1 ELSE 0
           two == IF window[2] < doc.words + 1 THEN window[2] + 1 ELSE window[2]
<1>1. /\ rPhase = "extend"
      /\ window' = IF more THEN w ELSE window
      /\ rPhase' = IF more THEN "extend" ELSE "open"
      /\ doc' = doc /\ UNCHANGED Rank!scan /\ open' = open
  BY DEF Rank!Extend
<1>2. /\ PositionsOK' /\ BestOK' /\ Inner' = Inner /\ Outer' = Outer
  BY <1>1, ScanKept
<1>3. w = <<one, two>>
  BY DEF Rank!Wider, Rank!doc_length
<1>4. /\ window = <<window[1], window[2]>>
      /\ Inner = 0 => Wrapped
      /\ Inner # 0 => Around
  BY <1>1 DEF RankInv, WindowOK
<1>5. OpenOK' /\ Rank!SnippetShows' /\ Rank!TitleExact'
  BY <1>1 DEF RankInv, OpenOK, Rank!SnippetShows, Rank!TitleExact
<1>6. window' = <<window'[1], window'[2]>>
  BY <1>1, <1>3, <1>4
<1>7. CASE Inner = 0
  <2>1. PICK j \in 0 .. max_window_size : window[1] = Wide - 1 - j
    BY <1>4, <1>7 DEF Wrapped
  <2>2. window[2] \in 0 .. doc.words + 1
    BY <1>4, <1>7 DEF Wrapped
  <2>3. CASE more
    <3>1. -Wide <= window[2] - window[1] /\ window[2] - window[1] < 0
          /\ window[2] - window[1] \in Int
      BY <2>1, <2>2, RankTypes
    <3>2. width = window[2] - window[1] + Wide
      BY <3>1, RankTypes, WrapAround
    <3>3. width = window[2] + 1 + j
      BY <2>1, <2>2, <3>2, RankTypes
    <3>4. j + 1 \in 0 .. max_window_size
      <4> HIDE DEF width, w
      <4>1. QED
        BY <2>1, <2>2, <2>3, <3>3, RankTypes
    <3>5. window'[1] = one /\ window'[2] = two
      BY <1>1, <1>3, <2>3
    <3>6. one = Wide - 1 - (j + 1) /\ two \in 0 .. doc.words + 1
      BY <2>1, <2>2, RankTypes
    <3>7. Wrapped'
      BY <1>1, <3>4, <3>5, <3>6 DEF Wrapped
    <3>8. QED
      BY <1>2, <1>5, <1>6, <1>7, <3>7 DEF RankInv, WindowOK
  <2>4. CASE ~more
    <3>1. window' = window /\ Wrapped'
      BY <1>1, <1>4, <1>7, <2>4 DEF Wrapped
    <3>2. QED
      BY <1>2, <1>5, <1>6, <1>7, <3>1 DEF RankInv, WindowOK
  <2>5. QED
    BY <2>3, <2>4
<1>8. CASE Inner # 0
  <2>1. /\ window[1] \in Nat /\ window[1] <= Inner - 1
        /\ window[2] \in Nat /\ window[2] <= doc.words + 1 /\ Outer <= window[2]
        /\ window[2] - window[1] <= max_window_size + 1
        /\ Outer < window[2] \/ (window[1] = Inner - 1 /\ window[2] = Outer)
    BY <1>4, <1>8 DEF Around
  <2>2. width = window[2] - window[1]
    <3>1. 0 <= window[2] - window[1] /\ window[2] - window[1] < Wide
          /\ window[2] - window[1] \in Int
      BY <2>1, RankTypes
    <3>2. QED
      BY <3>1, RankTypes, WrapAround
  <2>3. CASE more
    <3>1. window'[1] = one /\ window'[2] = two
      BY <1>1, <1>3, <2>3
    <3>2. window[2] - window[1] < max_window_size
      <4> HIDE DEF width, w
      <4>1. QED
        BY <2>2, <2>3
    <3>3. one \in Nat /\ one <= window[1] /\ window[1] - 1 <= one
          /\ two \in Nat /\ window[2] <= two /\ two <= doc.words + 1 /\ two <= window[2] + 1
          /\ (Outer < two)
      BY <2>1, RankTypes
    <3>4. one <= Inner - 1 /\ Outer <= two /\ two - one <= max_window_size + 1
      <4> HIDE DEF one, two
      <4>1. QED
        BY <2>1, <3>2, <3>3, RankTypes
    <3>5. Around'
      <4> HIDE DEF one, two
      <4>1. QED
        BY <1>1, <1>2, <3>1, <3>3, <3>4 DEF Around
    <3>6. rPhase' = "extend"
      BY <1>1, <2>3
    <3>7. QED
      BY <1>2, <1>5, <1>6, <1>8, <3>5, <3>6 DEF RankInv, WindowOK
  <2>4. CASE ~more
    <3>1. window' = window /\ Around'
      BY <1>1, <1>2, <1>4, <1>8, <2>4 DEF Around
    <3>2. Inner < window[2]
      <4>1. CASE Outer < window[2]
        BY <2>1, <4>1, RankTypes
      <4>2. CASE window[1] = Inner - 1 /\ window[2] = Outer
        <5>1. w[2] # window[2]
          BY <1>3, <4>2, RankTypes
        <5>2. ~(width < max_window_size)
          BY <2>4, <5>1
        <5> HIDE DEF width, w
        <5>3. Outer - (Inner - 1) >= max_window_size
          BY <2>2, <4>2, <5>2, RankTypes
        <5>4. QED
          BY <4>2, <5>3, RankTypes
      <4>3. QED
        BY <2>1, <4>1, <4>2
    <3>3. QED
      BY <1>2, <1>5, <1>6, <1>8, <3>1, <3>2 DEF RankInv, WindowOK
  <2>5. QED
    BY <2>3, <2>4
<1>9. QED
  BY <1>7, <1>8

(* Opening the file, or failing to                                         *)
LEMMA OpenKeeps ==
  ASSUME RankInv, Rank!OpenFails \/ Rank!OpenFile
  PROVE  RankInv'
<1>1. /\ rPhase = "open" /\ doc' = doc /\ UNCHANGED Rank!scan /\ window' = window
  BY DEF Rank!OpenFails, Rank!OpenFile
<1>2. PositionsOK' /\ BestOK' /\ Inner' = Inner /\ Outer' = Outer
  BY <1>1, ScanKept
<1>3. rPhase' \in {"snippet", "done"} /\ open = 0
  BY <1>1 DEF Rank!OpenFails, Rank!OpenFile, RankInv, OpenOK
<1>4. WindowOK'
  BY <1>1, <1>2, <1>3 DEF RankInv, WindowOK, Wrapped, Around
<1>5. CASE Rank!OpenFails
  <2>1. /\ snippet' = <<Rank!Blank>> /\ title' = <<Rank!Blank>>
        /\ rPhase' = "done" /\ open' = 0
    BY <1>3, <1>5 DEF Rank!OpenFails
  <2>2. Rank!Blank' = Rank!Blank
    BY DEF Rank!Blank
  <2>3. Rank!SnippetShows'
    BY <2>1, <2>2 DEF Rank!SnippetShows
  <2>4. Rank!TitleExact'
    BY <2>1, <2>2 DEF Rank!TitleExact
  <2>5. QED
    BY <1>2, <1>4, <2>1, <2>3, <2>4 DEF RankInv, OpenOK
<1>6. CASE Rank!OpenFile
  <2>1. rPhase' = "snippet" /\ open' = 1
    BY <1>3, <1>6 DEF Rank!OpenFile
  <2>2. QED
    BY <1>2, <1>4, <2>1 DEF RankInv, OpenOK, Rank!SnippetShows, Rank!TitleExact
<1>7. QED
  BY <1>5, <1>6

(* The snippet has the first occurrence of its window.                     *)
LEMMA ReadSnippetKeeps ==
  ASSUME RankInv, Rank!ReadSnippet
  PROVE  RankInv'
<1>1. /\ rPhase = "snippet" /\ doc' = doc /\ UNCHANGED Rank!scan /\ window' = window
      /\ open' = open
      /\ IF window[1] > doc.words + 1
           THEN rPhase' = "hung"
           ELSE /\ rPhase' = "title"
                /\ snippet' = IF window[2] > window[1] THEN Rank!Words(window[1], window[2])
                              ELSE <<Rank!Blank>>
  BY DEF Rank!ReadSnippet, Rank!doc_length
<1>2. /\ PositionsOK' /\ BestOK' /\ Inner' = Inner /\ Outer' = Outer
      /\ positions' = positions /\ best' = best
  BY <1>1, ScanKept
<1>3. open = 1
  BY <1>1 DEF RankInv, OpenOK
<1>4. WindowOK'
  BY <1>1, <1>2 DEF RankInv, WindowOK, Wrapped, Around
<1>5. Rank!TitleExact'
  BY <1>1 DEF Rank!TitleExact
<1>6. CASE Inner = 0
  <2>1. PICK j \in 0 .. max_window_size : window[1] = Wide - 1 - j
    BY <1>1, <1>6 DEF RankInv, WindowOK, Wrapped
  <2>2. window[1] > doc.words + 1
    BY <2>1, RankTypes
  <2>3. rPhase' = "hung"
    BY <1>1, <2>2
  <2>4. Rank!SnippetShows'
    BY <1>2, <1>6, <2>3 DEF Rank!SnippetShows, Inner
  <2>5. QED
    BY <1>2, <1>4, <1>5, <2>3, <2>4 DEF RankInv, OpenOK
<1>7. CASE Inner # 0
  <2>1. /\ window[1] \in Nat /\ window[1] <= Inner - 1
        /\ window[2] \in Nat /\ window[2] <= doc.words + 1
        /\ window[2] - window[1] <= max_window_size + 1
        /\ Inner < window[2]
    BY <1>1, <1>7 DEF RankInv, WindowOK, Around
  <2>2. window[1] < window[2] /\ ~(window[1] > doc.words + 1)
    BY <2>1, RankTypes
  <2>3. rPhase' = "title" /\ snippet' = Rank!Words(window[1], window[2])
    BY <1>1, <2>1, <2>2
  <2>4. /\ DOMAIN snippet' = 1 .. window[2] - window[1]
        /\ Len(snippet') = window[2] - window[1]
        /\ \A q \in window[1] .. window[2] - 1 :
             q < doc.words => snippet'[q - window[1] + 1] = q
        /\ Rank!Blank \notin Rank!ToSet(Rank!Front(snippet'))
        /\ \A i \in 2 .. Len(snippet') : snippet'[i] \in {Rank!Blank, snippet'[i - 1] + 1}
    BY <2>1, <2>2, <2>3, RankTypes, WordsRead
  <2>5. PICK i \in DOMAIN snippet' : snippet'[i] = Inner /\ i # 1
    <3>1. Inner \in window[1] .. window[2] - 1 /\ Inner < doc.words
          /\ Inner - window[1] + 1 \in 1 .. window[2] - window[1]
          /\ Inner - window[1] + 1 # 1
      BY <2>1, RankTypes
    <3>2. QED
      BY <2>4, <3>1
  <2>6. snippet' # <<Rank!Blank>>
    BY <2>5
  <2>7. Rank!Blank' = Rank!Blank /\ Rank!ToSet(positions') = Rank!ToSet(positions)
    BY <1>2 DEF Rank!Blank
  <2>8. \E k \in DOMAIN snippet' : snippet'[k] \in Rank!ToSet(positions)
    BY <2>5, RankTypes
  <2>9. Rank!SnippetShows'
    <3>1. Inner = Rank!At(best.left) /\ Rank!At(best.left)' = Rank!At(best.left)
      BY <1>2 DEF Inner, Rank!At
    <3>2. Rank!Blank \notin Rank!ToSet(Rank!Front(snippet))'
      BY <2>4 DEF Rank!ToSet, Rank!Front
    <3>3. \E k \in DOMAIN snippet' : snippet'[k] \in Rank!ToSet(positions)'
      BY <1>2, <2>8 DEF Rank!ToSet
    <3>4. Len(snippet') <= max_window_size + 1
      BY <2>1, <2>4
    <3>5. QED
      BY <1>7, <2>3, <2>4, <2>7, <3>1, <3>2, <3>3, <3>4 DEF Rank!SnippetShows
  <2>10. QED
    BY <1>1, <1>2, <1>3, <1>4, <1>5, <1>7, <2>3, <2>6, <2>7, <2>9 DEF RankInv, OpenOK
<1>8. QED
  BY <1>6, <1>7

(* The title has the flagged words and ends with them.                     *)
LEMMA ReadTitleKeeps ==
  ASSUME RankInv, Rank!ReadTitle
  PROVE  RankInv'
<1> DEFINE F == Rank!Flagged
           flagged == {i \in doc.title : i < TitleSpan}
           from == Rank!Min(F)
           to == Rank!Max(F) + 1
<1>1. /\ rPhase = "title" /\ rPhase' = "done"
      /\ doc' = doc /\ UNCHANGED Rank!scan /\ window' = window /\ snippet' = snippet
      /\ IF F = {} THEN title' = <<Rank!Blank>> /\ open' = open
         ELSE title' = Rank!Words(from, to) /\ open' = open - 1
  BY DEF Rank!ReadTitle
<1>2. /\ PositionsOK' /\ BestOK' /\ Inner' = Inner /\ Outer' = Outer
      /\ positions' = positions /\ best' = best
  BY <1>1, ScanKept
<1>3. open = 1 /\ snippet # <<Rank!Blank>> /\ Inner # 0
  BY <1>1 DEF RankInv, OpenOK
<1>4. WindowOK'
  BY <1>1, <1>2 DEF RankInv, WindowOK, Wrapped, Around
<1>5. Rank!SnippetShows'
  BY <1>1, <1>2, <1>3 DEF RankInv, Rank!SnippetShows, Rank!Blank, Rank!ToSet, Rank!Front,
     Rank!At, Inner
<1>6. F = flagged /\ F \subseteq 0 .. doc.words - 1
  BY RankTypes DEF Rank!Flagged
<1>7. Rank!TitleExact'
  <2>1. CASE F = {}
    <3>1. title' = <<Rank!Blank>> /\ open' = 1
      BY <1>1, <1>3, <2>1
    <3>2. QED
      BY <1>1, <1>3, <1>6, <2>1, <3>1 DEF Rank!TitleExact, Rank!Blank
  <2>2. CASE F # {}
    <3>1. from \in F /\ \A y \in F : from <= y
      BY <1>6, <2>2, MinLeast
    <3>2. Rank!Max(F) \in F /\ \A y \in F : y <= Rank!Max(F)
      <4>1. doc.words - 1 \in Nat
        BY <1>6, <2>2, RankTypes
      <4>2. QED
        BY <1>6, <2>2, <4>1, MaxGreatest
    <3> HIDE DEF F
    <3>3. from \in Nat /\ to \in Nat /\ from < to /\ to <= doc.words /\ to - 1 = Rank!Max(F)
      BY <1>6, <3>1, <3>2, RankTypes
    <3>4. title' = Rank!Words(from, to) /\ open' = 0
      BY <1>1, <1>3, <2>2
    <3> HIDE DEF from, to
    <3>5. /\ DOMAIN title' = 1 .. to - from /\ Len(title') = to - from
          /\ \A q \in from .. to - 1 : q < doc.words => title'[q - from + 1] = q
      <4>1. doc.words \in Nat /\ to <= doc.words + 1
        BY <3>3, RankTypes
      <4>2. QED
        BY <3>3, <3>4, <4>1, WordsRead
    <3>6. \A k \in 1 .. to - from : title'[k] = from + k - 1
      <4>1. SUFFICES ASSUME NEW k \in 1 .. to - from
                     PROVE  title'[k] = from + k - 1
        OBVIOUS
      <4>2. /\ from + k - 1 \in from .. to - 1 /\ from + k - 1 < doc.words
            /\ (from + k - 1) - from + 1 = k
        BY <3>3, RankTypes
      <4>3. QED
        BY <3>5, <4>2
    <3>7. title'[1] = from /\ title'[Len(title')] = to - 1
      BY <3>3, <3>5, <3>6
    <3>8. {title'[1], title'[Len(title')]} \subseteq F
      BY <3>1, <3>2, <3>3, <3>7
    <3>9. \A q \in F : \E k \in DOMAIN title' : title'[k] = q
      <4>1. SUFFICES ASSUME NEW q \in F
                     PROVE  \E k \in DOMAIN title' : title'[k] = q
        OBVIOUS
      <4>2. q \in 0 .. doc.words - 1 /\ from <= q /\ q <= to - 1
        BY <1>6, <3>1, <3>2, <3>3
      <4>3. q - from + 1 \in 1 .. to - from /\ q \in from .. to - 1 /\ q < doc.words
        BY <3>3, <4>2, RankTypes
      <4>4. QED
        BY <3>5, <4>3
    <3>10. \A k \in DOMAIN title' : title'[k] # -1
      BY <3>3, <3>5, <3>6
    <3>11. flagged # {}
      BY <1>6, <2>2
    <3>12. /\ flagged \subseteq Rank!ToSet(title')
           /\ Rank!Blank \notin Rank!ToSet(title')
      BY <1>6, <3>9, <3>10 DEF Rank!ToSet, Rank!Blank
    <3>13. QED
      BY <1>1, <1>6, <3>4, <3>8, <3>11, <3>12 DEF Rank!TitleExact, Rank!Last, Rank!ToSet,
         Rank!Blank
  <2>3. QED
    BY <2>1, <2>2
<1>8. QED
  BY <1>1, <1>2, <1>4, <1>5, <1>7 DEF RankInv, OpenOK

(* The scan begins at the first occurrence.                                *)
LEMMA RankInvInit ==
  ASSUME Rank!Init
  PROVE  RankInv
<1>1. /\ doc \in Documents /\ positions = Rank!MergeVectors(doc.occurrences)
      /\ left = 0 /\ right = 0 /\ best.left = 0 /\ best.right = 0 /\ best.delta = 0
      /\ open = 0 /\ rPhase = "scan"
  BY DEF Rank!Init
<1>2. positions \in Seq(0 .. doc.words - 1) /\ Len(positions) \in Nat \ {0}
  BY <1>1, MergedPositions, RankAssumption
<1>3. Rank!At(0) \in 0 .. doc.words - 1
  <2>1. 0 + 1 \in 1 .. Len(positions)
    BY <1>2
  <2>2. QED
    BY <1>2, <2>1, ElementOfSeq DEF Rank!At
<1>4. BestOK
  BY <1>1, <1>2, <1>3, RankAssumption DEF BestOK, Inner, Outer
<1>5. QED
  BY <1>1, <1>2, <1>4 DEF RankInv, PositionsOK, WindowOK, OpenOK, Rank!SnippetShows,
     Rank!TitleExact

(* No step of the ranker breaks the invariant.                             *)
LEMMA RankInvStep ==
  ASSUME RankInv, [Rank!Next]_rankVars
  PROVE  RankInv'
<1>1. CASE UNCHANGED rankVars
  BY <1>1, SMTT(30) DEF rankVars, Rank!scan, RankInv, PositionsOK, BestOK, WindowOK, Wrapped,
     Around, Inner, Outer, OpenOK, Rank!At, Rank!SnippetShows, Rank!TitleExact, Rank!Blank,
     Rank!ToSet, Rank!Front, Rank!Last
<1>2. CASE Rank!Next
  BY <1>2, SlideKeeps, ChooseKeeps, ExtendKeeps, OpenKeeps, ReadSnippetKeeps, ReadTitleKeeps
  DEF Rank!Next
<1>3. QED
  BY <1>1, <1>2

(* For pages of any length and words of a query anywhere in them: the      *)
(* snippet shows a word of the query and nothing of another page, title    *)
(* and snippet are cut where they should, and the program hangs only for   *)
(* a window that begins with the page.                                     *)
THEOREM SnippetsAreShown == Rank!Spec => []SnippetsShow
<1>1. Rank!Init => RankInv
  BY RankInvInit
<1>2. RankInv /\ [Rank!Next]_rankVars => RankInv'
  BY RankInvStep
<1>3. RankInv => SnippetsShow
  BY DEF RankInv, SnippetsShow, Rank!SnippetsShow
<1>4. QED
  BY <1>1, <1>2, <1>3, PTL DEF Rank!Spec, Rank!vars, rankVars

-----------------------------------------------------------------------------
(* Downloader: texts that are made of pieces                               *)

(* F is what is left of the recursion of FlattenSeq: F[i] is made of the   *)
(* first i pieces.                                                         *)
Joins(F, pieces) ==
  /\ F[0] = <<>>
  /\ \A i \in 1 .. Len(pieces) : F[i] = F[i - 1] \o pieces[i]

(* A set of numbers from 0 to n that is without a least element is empty.  *)
LEMMA NoLeast ==
  ASSUME NEW n \in Nat, NEW Bad, Bad \subseteq 0 .. n,
         \A m \in Bad : \E k \in Bad : k < m
  PROVE  Bad = {}
<1>1. SUFFICES ASSUME Bad # {}
               PROVE  FALSE
  OBVIOUS
<1>2. Bad \subseteq Nat
  OBVIOUS
<1>3. PICK m \in Bad : \A k \in Bad : m <= k
  BY <1>1, <1>2, SomeLeast
<1>4. PICK k \in Bad : k < m
  BY <1>3
<1>5. QED
  BY <1>2, <1>3, <1>4

(* The recursion of FlattenSeq defines a function.                         *)
LEMMA FlattenDefined ==
  ASSUME NEW pieces, NEW n \in Nat
  PROVE  \E g : g = [i \in 1 .. n |-> IF i = 1 THEN pieces[i] ELSE g[i - 1] \o pieces[i]]
<1> DEFINE next(g, i) == IF i = 1 THEN pieces[i] ELSE g[i - 1] \o pieces[i]
           P(m) == \E g : g = [i \in 1 .. m |-> next(g, i)]
           Bad == {m \in 0 .. n : ~P(m)}
<1>1. P(0)
  <2>1. [i \in 1 .. 0 |-> next(<<>>, i)] =
          [i \in 1 .. 0 |-> next([j \in 1 .. 0 |-> next(<<>>, j)], i)]
    OBVIOUS
  <2>2. QED
    BY <2>1
<1>2. ASSUME NEW m \in 1 .. n, P(m - 1)
      PROVE  P(m)
  <2>1. PICK g : g = [i \in 1 .. m - 1 |-> next(g, i)]
    BY <1>2
  <2> DEFINE h == [i \in 1 .. m |-> IF i < m THEN g[i] ELSE next(g, i)]
  <2>2. ASSUME NEW i \in 1 .. m
        PROVE  h[i] = next(h, i)
    <3>1. h[i] = next(g, i)
      <4>1. CASE i < m
        <5>1. i \in 1 .. m - 1
          BY <4>1
        <5> HIDE DEF next
        <5>2. g[i] = next(g, i)
          BY <2>1, <5>1
        <5>3. QED
          BY <4>1, <5>2
      <4>2. CASE ~(i < m)
        BY <4>2
      <4>3. QED
        BY <4>1, <4>2
    <3>2. i # 1 => i - 1 \in 1 .. m /\ i - 1 < m
      OBVIOUS
    <3>3. i # 1 => h[i - 1] = g[i - 1]
      BY <3>2
    <3>4. QED
      BY <3>1, <3>3
  <2> HIDE DEF next
  <2>3. h = [i \in 1 .. m |-> h[i]]
    OBVIOUS
  <2> HIDE DEF h
  <2>4. h = [i \in 1 .. m |-> next(h, i)]
    BY <2>2, <2>3
  <2>5. QED
    BY <2>4
<1> HIDE DEF P
<1>3. \A m \in Bad : \E k \in Bad : k < m
  <2>1. SUFFICES ASSUME NEW m \in Bad
                 PROVE  m - 1 \in Bad /\ m - 1 < m
    BY Zenon
  <2>2. m \in 0 .. n /\ ~P(m)
    OBVIOUS
  <2>3. m \in 1 .. n
    BY <1>1, <2>2
  <2>4. ~P(m - 1)
    BY <1>2, <2>2, <2>3
  <2>5. QED
    BY <2>3, <2>4
<1>4. Bad = {}
  <2>1. Bad \subseteq 0 .. n
    OBVIOUS
  <2> HIDE DEF Bad
  <2>2. QED
    BY <1>3, <2>1, NoLeast
<1>5. P(n)
  BY <1>4
<1>6. QED
  BY <1>5 DEF P

(* What FlattenSeq returns is the last of these texts.                     *)
LEMMA FlattenJoins ==
  ASSUME NEW A, NEW pieces \in Seq(Seq(A))
  PROVE  \E F : Joins(F, pieces) /\ Download!FlattenSeq(pieces) = F[Len(pieces)]
<1> DEFINE n == Len(pieces)
           next(g, i) == IF i = 1 THEN pieces[i] ELSE g[i - 1] \o pieces[i]
           f == CHOOSE g : g = [i \in 1 .. n |-> next(g, i)]
           F == [i \in 0 .. n |-> IF i = 0 THEN <<>> ELSE f[i]]
<1>1. n \in Nat
  OBVIOUS
<1>2. f = [i \in 1 .. n |-> next(f, i)]
  <2>1. \E g : g = [i \in 1 .. n |-> next(g, i)]
    BY <1>1, FlattenDefined
  <2> HIDE DEF next
  <2>2. QED
    BY <2>1
<1>3. Download!FlattenSeq(pieces) = IF n = 0 THEN pieces ELSE f[n]
  BY DEF Download!FlattenSeq
<1> HIDE DEF f
<1>4. \A i \in 1 .. n : f[i] = next(f, i)
  BY <1>2
<1>5. \A i \in 1 .. n : pieces[i] \in Seq(A)
  BY ElementOfSeq
<1>6. \A i \in 1 .. n : F[i] = F[i - 1] \o pieces[i]
  <2>1. SUFFICES ASSUME NEW i \in 1 .. n
                 PROVE  F[i] = F[i - 1] \o pieces[i]
    OBVIOUS
  <2>2. CASE i = 1
    <3>1. 1 \in 1 .. n /\ f[1] = pieces[1]
      BY <1>4, <2>2
    <3>2. F[1] = pieces[1] /\ F[0] = <<>>
      BY <1>1, <3>1
    <3>3. pieces[1] \in Seq(A)
      BY <1>5, <2>2
    <3>4. <<>> \o pieces[1] = pieces[1]
      BY <3>3, ConcatEmptySeq
    <3>5. F[i] = pieces[1] /\ F[i - 1] = <<>> /\ pieces[i] = pieces[1]
      <4>1. i - 1 = 0
        BY <2>2
      <4> HIDE DEF F
      <4>2. QED
        BY <2>2, <3>2, <4>1
    <3> HIDE DEF F
    <3>6. QED
      BY <3>4, <3>5
  <2>3. CASE i # 1
    <3>1. i - 1 \in 1 .. n /\ i - 1 # 0
      BY <1>1, <2>3
    <3>2. F[i] = f[i] /\ F[i - 1] = f[i - 1]
      BY <3>1
    <3>3. QED
      BY <1>4, <2>3, <3>2
  <2>4. QED
    BY <2>2, <2>3
<1>7. F[0] = <<>>
  BY <1>1
<1>8. Download!FlattenSeq(pieces) = F[n]
  <2>1. CASE n = 0
    <3>1. pieces = <<>>
      BY <2>1
    <3>2. Download!FlattenSeq(pieces) = <<>> /\ F[n] = <<>>
      BY <1>3, <1>7, <2>1, <3>1
    <3>3. QED
      BY <3>2
  <2>2. CASE n # 0
    BY <1>1, <1>3, <2>2
  <2>3. QED
    BY <2>1, <2>2
<1> HIDE DEF F
<1>9. QED
  BY <1>6, <1>7, <1>8 DEF Joins

(* A text of F begins with all that come before it.                        *)
Grows(F, n) ==
  /\ \A i \in 0 .. n : F[i] \in Seq(Nat)
  /\ \A i \in 0 .. n : \A m \in i .. n :
       Len(F[i]) <= Len(F[m]) /\ \A k \in 1 .. Len(F[i]) : F[m][k] = F[i][k]

(* Every text that is joined is a prefix of the longer ones.               *)
LEMMA JoinsPrefixes ==
  ASSUME NEW pieces \in Seq(Seq(Nat)), NEW F, Joins(F, pieces)
  PROVE  Grows(F, Len(pieces))
<1> DEFINE n == Len(pieces)
           Bad == {i \in 0 .. n : F[i] \notin Seq(Nat)}
<1>1. n \in Nat /\ \A i \in 1 .. n : pieces[i] \in Seq(Nat)
  BY ElementOfSeq
<1>2. \A i \in 0 .. n : F[i] \in Seq(Nat)
  <2>1. \A m \in Bad : \E k \in Bad : k < m
    <3>1. SUFFICES ASSUME NEW m \in 0 .. n, F[m] \notin Seq(Nat)
                   PROVE  m - 1 \in 0 .. n /\ F[m - 1] \notin Seq(Nat) /\ m - 1 < m
      BY Zenon
    <3>2. m # 0
      BY <3>1, EmptySeq DEF Joins
    <3>3. m \in 1 .. n /\ m - 1 \in 0 .. n
      BY <1>1, <3>2
    <3>4. pieces[m] \in Seq(Nat) /\ F[m] = F[m - 1] \o pieces[m]
      BY <1>1, <3>3 DEF Joins
    <3>5. F[m - 1] \in Seq(Nat) => F[m] \in Seq(Nat)
      BY <3>4, ConcatProperties
    <3>6. QED
      BY <3>1, <3>3, <3>5
  <2>2. Bad \subseteq 0 .. n
    OBVIOUS
  <2> HIDE DEF Bad
  <2>3. Bad = {}
    BY <1>1, <2>1, <2>2, NoLeast
  <2>4. QED
    BY <2>3 DEF Bad
<1> DEFINE Pre(i, m) ==
             Len(F[i]) <= Len(F[m]) /\ \A k \in 1 .. Len(F[i]) : F[m][k] = F[i][k]
<1>3. ASSUME NEW i \in 0 .. n
      PROVE  \A m \in i .. n : Pre(i, m)
  <2> DEFINE Worse == {m \in i .. n : ~Pre(i, m)}
  <2>1. Pre(i, i)
    <3>1. Len(F[i]) \in Nat
      BY <1>2, LenProperties
    <3>2. QED
      BY <3>1
  <2>2. ASSUME NEW m \in i .. n, m # i, Pre(i, m - 1)
        PROVE  Pre(i, m)
    <3>1. m \in 1 .. n /\ m - 1 \in 0 .. n
      BY <1>1, <2>2
    <3>2. F[m] = F[m - 1] \o pieces[m] /\ F[m - 1] \in Seq(Nat) /\ pieces[m] \in Seq(Nat)
          /\ F[i] \in Seq(Nat)
      BY <1>1, <1>2, <3>1 DEF Joins
    <3> DEFINE short == F[m - 1]
               long == F[m]
               first == F[i]
    <3>3. /\ Len(first) \in Nat /\ Len(short) \in Nat /\ Len(pieces[m]) \in Nat
          /\ Len(long) = Len(short) + Len(pieces[m])
          /\ \A k \in 1 .. Len(short) + Len(pieces[m]) :
               long[k] = IF k <= Len(short) THEN short[k] ELSE pieces[m][k - Len(short)]
      <4>1. /\ Len(F[m - 1] \o pieces[m]) = Len(F[m - 1]) + Len(pieces[m])
            /\ \A k \in 1 .. Len(F[m - 1]) + Len(pieces[m]) : (F[m - 1] \o pieces[m])[k] =
                 IF k <= Len(F[m - 1]) THEN F[m - 1][k] ELSE pieces[m][k - Len(F[m - 1])]
        BY <3>2, ConcatProperties
      <4>2. Len(first) \in Nat /\ Len(short) \in Nat /\ Len(pieces[m]) \in Nat
        BY <3>2, LenProperties
      <4>3. QED
        BY <3>2, <4>1, <4>2
    <3>4. Len(first) <= Len(short) /\ \A k \in 1 .. Len(first) : short[k] = first[k]
      BY <2>2, Zenon
    <3> HIDE DEF short, long, first
    <3>5. Len(first) <= Len(long) /\ \A k \in 1 .. Len(first) : long[k] = first[k]
      <4>1. Len(first) <= Len(long)
        BY <3>3, <3>4
      <4>2. \A k \in 1 .. Len(first) :
              k \in 1 .. Len(short) + Len(pieces[m]) /\ k <= Len(short)
        BY <3>3, <3>4
      <4>3. QED
        BY <3>3, <3>4, <4>1, <4>2
    <3>6. QED
      BY <3>5 DEF long, first
  <2> HIDE DEF Pre
  <2>3. \A m \in Worse : \E k \in Worse : k < m
    <3>1. SUFFICES ASSUME NEW m \in i .. n, ~Pre(i, m)
                   PROVE  m - 1 \in i .. n /\ ~Pre(i, m - 1) /\ m - 1 < m
      BY Zenon
    <3>2. m # i
      BY <2>1, <3>1
    <3>3. QED
      BY <1>1, <2>2, <3>1, <3>2
  <2>4. Worse \subseteq 0 .. n
    OBVIOUS
  <2> HIDE DEF Worse
  <2>5. Worse = {}
    BY <1>1, <2>3, <2>4, NoLeast
  <2>6. QED
    BY <2>5 DEF Worse
<1>4. QED
  BY <1>2, <1>3 DEF Grows

(* The size of a chunk.  V is what is left of the recursion of Stoi: V[i]  *)
(* is the number that the first i digits are.                              *)
Reads(V, s) ==
  /\ V[0] = 0
  /\ \A i \in 1 .. Len(s) : V[i] = 16 * V[i - 1] + s[i]

(* The recursion of Stoi defines a function.                               *)
LEMMA ValueDefined ==
  ASSUME NEW s, NEW n \in Nat
  PROVE  \E g : g = [i \in 0 .. n |-> IF i = 0 THEN 0 ELSE 16 * g[i - 1] + s[i]]
<1> DEFINE next(g, i) == IF i = 0 THEN 0 ELSE 16 * g[i - 1] + s[i]
           P(m) == \E g : g = [i \in 0 .. m |-> next(g, i)]
           Bad == {m \in 0 .. n : ~P(m)}
<1>1. P(0)
  <2> DEFINE h == [i \in 0 .. 0 |-> 0]
  <2>1. h = [i \in 0 .. 0 |-> next(h, i)]
    OBVIOUS
  <2>2. QED
    BY <2>1
<1>2. ASSUME NEW m \in 1 .. n, P(m - 1)
      PROVE  P(m)
  <2>1. PICK g : g = [i \in 0 .. m - 1 |-> next(g, i)]
    BY <1>2
  <2> DEFINE h == [i \in 0 .. m |-> IF i < m THEN g[i] ELSE next(g, i)]
  <2>2. ASSUME NEW i \in 0 .. m
        PROVE  h[i] = next(h, i)
    <3>1. h[i] = next(g, i)
      <4>1. CASE i < m
        <5>1. i \in 0 .. m - 1
          BY <4>1
        <5> HIDE DEF next
        <5>2. g[i] = next(g, i)
          BY <2>1, <5>1
        <5>3. QED
          BY <4>1, <5>2
      <4>2. CASE ~(i < m)
        BY <4>2
      <4>3. QED
        BY <4>1, <4>2
    <3>2. i # 0 => i - 1 \in 0 .. m /\ i - 1 < m
      OBVIOUS
    <3>3. i # 0 => h[i - 1] = g[i - 1]
      BY <3>2
    <3>4. QED
      BY <3>1, <3>3
  <2> HIDE DEF next
  <2>3. h = [i \in 0 .. m |-> h[i]]
    OBVIOUS
  <2> HIDE DEF h
  <2>4. h = [i \in 0 .. m |-> next(h, i)]
    BY <2>2, <2>3
  <2>5. QED
    BY <2>4
<1> HIDE DEF P
<1>3. \A m \in Bad : \E k \in Bad : k < m
  <2>1. SUFFICES ASSUME NEW m \in Bad
                 PROVE  m - 1 \in Bad /\ m - 1 < m
    BY Zenon
  <2>2. m \in 0 .. n /\ ~P(m)
    OBVIOUS
  <2>3. m \in 1 .. n
    BY <1>1, <2>2
  <2>4. ~P(m - 1)
    BY <1>2, <2>2, <2>3
  <2>5. QED
    BY <2>3, <2>4
<1>4. Bad = {}
  <2>1. Bad \subseteq 0 .. n
    OBVIOUS
  <2> HIDE DEF Bad
  <2>2. QED
    BY <1>3, <2>1, NoLeast
<1>5. P(n)
  BY <1>4
<1>6. QED
  BY <1>5 DEF P

(* What Stoi returns is the last of these values.                          *)
LEMMA StoiReads ==
  ASSUME NEW s \in Seq(0 .. 15)
  PROVE  \E V : Reads(V, s) /\ Download!Stoi(s) = V[Len(s)]
<1> DEFINE n == Len(s)
           next(g, i) == IF i = 0 THEN 0 ELSE 16 * g[i - 1] + s[i]
           V == CHOOSE g : g = [i \in 0 .. n |-> next(g, i)]
<1>1. n \in Nat /\ \A i \in 1 .. n : s[i] \in 0 .. 15
  BY ElementOfSeq
<1>2. V = [i \in 0 .. n |-> next(V, i)]
  <2>1. \E g : g = [i \in 0 .. n |-> next(g, i)]
    BY <1>1, ValueDefined
  <2> HIDE DEF next
  <2>2. QED
    BY <2>1
<1>3. {i \in 1 .. Len(s) : s[i] \notin 0 .. 15} = {}
  BY <1>1
<1>4. Download!Stoi(s) = V[n]
  BY <1>3 DEF Download!Stoi, Download!SelectInSeq
<1> HIDE DEF V
<1>5. \A i \in 0 .. n : V[i] = next(V, i)
  BY <1>2
<1>6. Reads(V, s)
  <2>1. V[0] = 0
    BY <1>1, <1>5
  <2>2. \A i \in 1 .. n : i \in 0 .. n /\ i # 0
    BY <1>1
  <2>3. QED
    BY <1>5, <2>1, <2>2 DEF Reads
<1>7. QED
  BY <1>4, <1>6

(* Strings that begin alike are read alike.                                *)
LEMMA ReadAlike ==
  ASSUME NEW s \in Seq(0 .. 15), NEW t \in Seq(0 .. 15), NEW V, Reads(V, s),
         NEW W, Reads(W, t),
         NEW n \in 0 .. Len(s), n <= Len(t), \A i \in 1 .. n : s[i] = t[i]
  PROVE  V[n] = W[n] /\ V[n] \in Nat
<1> DEFINE Bad == {i \in 0 .. n : ~(V[i] = W[i] /\ V[i] \in Nat)}
<1>1. Len(s) \in Nat /\ Len(t) \in Nat /\ n \in Nat
      /\ \A i \in 1 .. n : s[i] \in 0 .. 15 /\ s[i] \in Nat
  BY ElementOfSeq
<1>2. \A m \in Bad : \E k \in Bad : k < m
  <2>1. SUFFICES ASSUME NEW m \in 0 .. n, ~(V[m] = W[m] /\ V[m] \in Nat)
                 PROVE  /\ m - 1 \in 0 .. n /\ m - 1 < m
                        /\ ~(V[m - 1] = W[m - 1] /\ V[m - 1] \in Nat)
    BY Zenon
  <2>2. m # 0
    BY <2>1 DEF Reads
  <2>3. m \in 1 .. n /\ m \in 1 .. Len(s) /\ m \in 1 .. Len(t)
    BY <1>1, <2>2
  <2>4. V[m] = 16 * V[m - 1] + s[m] /\ W[m] = 16 * W[m - 1] + s[m] /\ s[m] \in Nat
    BY <1>1, <2>3 DEF Reads
  <2>5. QED
    BY <2>1, <2>3, <2>4
<1>3. Bad \subseteq 0 .. n
  OBVIOUS
<1> HIDE DEF Bad
<1>4. Bad = {}
  BY <1>1, <1>2, <1>3, NoLeast
<1>5. n \in 0 .. n
  BY <1>1
<1>6. QED
  BY <1>4, <1>5 DEF Bad

(* Stoi of one digit                                                       *)
LEMMA StoiDigit ==
  ASSUME NEW d \in 0 .. 15
  PROVE  Download!Stoi(<<d>>) = d
<1>1. <<d>> \in Seq(0 .. 15) /\ Len(<<d>>) = 1 /\ <<d>>[1] = d
  OBVIOUS
<1>2. PICK V : Reads(V, <<d>>) /\ Download!Stoi(<<d>>) = V[Len(<<d>>)]
  BY <1>1, StoiReads
<1>3. V[0] = 0 /\ V[1] = 16 * V[1 - 1] + d
  BY <1>1, <1>2 DEF Reads
<1>4. QED
  BY <1>1, <1>2, <1>3

(* A digit more multiplies the value by 16.                                *)
LEMMA StoiAppend ==
  ASSUME NEW s \in Seq(0 .. 15), NEW d \in 0 .. 15
  PROVE  Download!Stoi(Append(s, d)) = 16 * Download!Stoi(s) + d /\ Download!Stoi(s) \in Nat
<1> DEFINE t == Append(s, d)
           n == Len(s)
<1>1. /\ t \in Seq(0 .. 15) /\ n \in Nat /\ Len(t) = n + 1
      /\ t[n + 1] = d /\ \A i \in 1 .. n : s[i] = t[i]
  BY AppendProperties, LenProperties
<1>2. PICK V : Reads(V, s) /\ Download!Stoi(s) = V[n]
  BY StoiReads
<1> HIDE DEF t
<1>3. PICK W : Reads(W, t) /\ Download!Stoi(t) = W[Len(t)]
  BY <1>1, StoiReads
<1>4. V[n] = W[n] /\ V[n] \in Nat
  <2>1. n \in 0 .. Len(s) /\ n <= Len(t)
    BY <1>1
  <2> HIDE DEF n
  <2>2. QED
    BY <1>1, <1>2, <1>3, <2>1, ReadAlike
<1>5. n + 1 \in 1 .. Len(t) /\ (n + 1) - 1 = n
  BY <1>1
<1>6. W[n + 1] = 16 * W[n] + d
  <2>1. W[n + 1] = 16 * W[(n + 1) - 1] + t[n + 1]
    BY <1>3, <1>5 DEF Reads
  <2>2. QED
    BY <1>1, <1>5, <2>1
<1>7. QED
  BY <1>1, <1>2, <1>3, <1>4, <1>6 DEF t

(* The recursion of HexDigits defines a function.                          *)
LEMMA DigitsDefined ==
  ASSUME NEW n \in Nat
  PROVE  \E g : g = [m \in 0 .. n |-> IF m < 16 THEN <<m>> ELSE Append(g[m \div 16], m % 16)]
<1> DEFINE next(g, i) == IF i < 16 THEN <<i>> ELSE Append(g[i \div 16], i % 16)
           P(m) == \E g : g = [i \in 0 .. m |-> next(g, i)]
           Bad == {m \in 0 .. n : ~P(m)}
<1>1. P(0)
  <2> DEFINE h == [i \in 0 .. 0 |-> <<i>>]
  <2>1. h = [i \in 0 .. 0 |-> next(h, i)]
    OBVIOUS
  <2>2. QED
    BY <2>1
<1>2. ASSUME NEW m \in 1 .. n, P(m - 1)
      PROVE  P(m)
  <2>1. PICK g : g = [i \in 0 .. m - 1 |-> next(g, i)]
    BY <1>2
  <2> DEFINE h == [i \in 0 .. m |-> IF i < m THEN g[i] ELSE next(g, i)]
  <2>2. ASSUME NEW i \in 0 .. m
        PROVE  h[i] = next(h, i)
    <3>1. h[i] = next(g, i)
      <4>1. CASE i < m
        <5>1. i \in 0 .. m - 1
          BY <4>1
        <5> HIDE DEF next
        <5>2. g[i] = next(g, i)
          BY <2>1, <5>1
        <5>3. QED
          BY <4>1, <5>2
      <4>2. CASE ~(i < m)
        BY <4>2
      <4>3. QED
        BY <4>1, <4>2
    <3>2. ~(i < 16) => i \div 16 \in 0 .. m /\ i \div 16 < m
      OBVIOUS
    <3> DEFINE k == i \div 16
    <3> HIDE DEF k
    <3>3. ~(i < 16) => h[k] = g[k]
      BY <3>2 DEF k
    <3>4. h[i] = IF i < 16 THEN <<i>> ELSE Append(g[k], i % 16)
      BY <3>1 DEF k
    <3> HIDE DEF h
    <3>5. h[i] = IF i < 16 THEN <<i>> ELSE Append(h[k], i % 16)
      BY <3>3, <3>4
    <3>6. QED
      BY <3>5 DEF k
  <2> HIDE DEF next
  <2>3. h = [i \in 0 .. m |-> h[i]]
    OBVIOUS
  <2> HIDE DEF h
  <2>4. h = [i \in 0 .. m |-> next(h, i)]
    BY <2>2, <2>3
  <2>5. QED
    BY <2>4
<1> HIDE DEF P
<1>3. \A m \in Bad : \E k \in Bad : k < m
  <2>1. SUFFICES ASSUME NEW m \in Bad
                 PROVE  m - 1 \in Bad /\ m - 1 < m
    BY Zenon
  <2>2. m \in 0 .. n /\ ~P(m)
    OBVIOUS
  <2>3. m \in 1 .. n
    BY <1>1, <2>2
  <2>4. ~P(m - 1)
    BY <1>2, <2>2, <2>3
  <2>5. QED
    BY <2>3, <2>4
<1>4. Bad = {}
  <2>1. Bad \subseteq 0 .. n
    OBVIOUS
  <2> HIDE DEF Bad
  <2>2. QED
    BY <1>3, <2>1, NoLeast
<1>5. P(n)
  BY <1>4
<1>6. QED
  BY <1>5 DEF P

(* A server writes a size so that Stoi reads it.                           *)
LEMMA HexDigitsRead ==
  ASSUME NEW n \in Nat
  PROVE  /\ Download!HexDigits(n) \in Seq(0 .. 15)
         /\ Len(Download!HexDigits(n)) >= 1
         /\ Download!Stoi(Download!HexDigits(n)) = n
<1> DEFINE next(g, m) == IF m < 16 THEN <<m>> ELSE Append(g[m \div 16], m % 16)
           g == CHOOSE f : f = [m \in 0 .. n |-> next(f, m)]
           OK(s, m) == s \in Seq(0 .. 15) /\ Len(s) >= 1 /\ Download!Stoi(s) = m
           Bad == {m \in 0 .. n : ~OK(g[m], m)}
<1>1. g = [m \in 0 .. n |-> next(g, m)]
  <2>1. \E f : f = [m \in 0 .. n |-> next(f, m)]
    BY DigitsDefined
  <2> HIDE DEF next
  <2>2. QED
    BY <2>1
<1>2. Download!HexDigits(n) = g[n]
  BY DEF Download!HexDigits
<1> HIDE DEF g
<1>3. \A m \in 0 .. n : g[m] = next(g, m)
  BY <1>1
<1>4. \A m \in 0 .. n : m < 16 => OK(g[m], m)
  <2>1. SUFFICES ASSUME NEW m \in 0 .. n, m < 16
                 PROVE  OK(g[m], m)
    OBVIOUS
  <2>2. m \in 0 .. 15 /\ g[m] = <<m>>
    <3>1. g[m] = next(g, m)
      BY <1>3
    <3>2. next(g, m) = <<m>>
      BY <2>1
    <3> HIDE DEF next
    <3>3. QED
      BY <2>1, <3>1, <3>2
  <2>3. <<m>> \in Seq(0 .. 15) /\ Len(<<m>>) = 1
    BY <2>2
  <2>4. QED
    BY <2>2, <2>3, StoiDigit
<1>5. ASSUME NEW m \in 0 .. n, ~(m < 16), OK(g[m \div 16], m \div 16)
      PROVE  OK(g[m], m)
  <2> DEFINE q == m \div 16
             d == m % 16
             s == g[q]
  <2>1. q \in Nat /\ d \in 0 .. 15 /\ m = 16 * q + d
    OBVIOUS
  <2>2. g[m] = Append(s, d)
    BY <1>3, <1>5
  <2>3. s \in Seq(0 .. 15) /\ Len(s) >= 1 /\ Download!Stoi(s) = q
    BY <1>5
  <2> HIDE DEF q, d, s
  <2>4. Append(s, d) \in Seq(0 .. 15) /\ Len(Append(s, d)) = Len(s) + 1
    BY <2>1, <2>3, AppendProperties
  <2>5. Download!Stoi(Append(s, d)) = 16 * q + d
    BY <2>1, <2>3, StoiAppend
  <2>6. Len(s) \in Nat
    BY <2>3, LenProperties
  <2>7. QED
    BY <2>1, <2>2, <2>3, <2>4, <2>5, <2>6
<1> HIDE DEF OK
<1>6. \A m \in Bad : \E k \in Bad : k < m
  <2>1. SUFFICES ASSUME NEW m \in 0 .. n, ~OK(g[m], m)
                 PROVE  m \div 16 \in 0 .. n /\ ~OK(g[m \div 16], m \div 16) /\ m \div 16 < m
    BY Zenon
  <2>2. ~(m < 16)
    BY <1>4, <2>1
  <2>3. m \div 16 \in 0 .. n /\ m \div 16 < m
    BY <2>2
  <2>4. QED
    BY <1>5, <2>1, <2>2, <2>3
<1>7. Bad = {}
  <2>1. Bad \subseteq 0 .. n
    OBVIOUS
  <2> HIDE DEF Bad
  <2>2. QED
    BY <1>6, <2>1, NoLeast
<1>8. OK(g[n], n)
  BY <1>7
<1>9. QED
  BY <1>2, <1>8 DEF OK

-----------------------------------------------------------------------------
(* Downloader: the bytes of a chunk                                        *)

(* The bytes of a line end are two and no digits.                          *)
LEMMA LineEndIs ==
  /\ CR \in Nat /\ LF \in Nat /\ CR # LF /\ CR \notin 0 .. 15 /\ LF \notin 0 .. 15
  /\ Download!LineEnd \in Seq(Nat) /\ Len(Download!LineEnd) = 2
  /\ Download!LineEnd[1] = CR /\ Download!LineEnd[2] = LF
<1>1. CR \in Nat /\ LF \in Nat /\ CR # LF /\ CR \notin 0 .. 15 /\ LF \notin 0 .. 15
  BY DownloadAssumption
<1>2. QED
  BY <1>1 DEF Download!LineEnd

(* What a prefix is, by position.                                          *)
LEMMA PrefixByPosition ==
  ASSUME NEW A, NEW s \in Seq(A), NEW t \in Seq(A)
  PROVE  Download!IsPrefix(s, t) <=> Len(s) <= Len(t) /\ \A i \in 1 .. Len(s) : s[i] = t[i]
<1>1. /\ Len(s) \in Nat /\ Len(t) \in Nat
      /\ \A i \in 1 .. Len(s) : s[i] \in A
      /\ \A i \in 1 .. Len(t) : t[i] \in A
  BY ElementOfSeq
<1>2. SubSeq(s, 1, Len(s)) = s
  BY SubSeqFull
<1>3. SUFFICES ASSUME Len(s) <= Len(t)
               PROVE  SubSeq(t, 1, Len(s)) = s <=> \A i \in 1 .. Len(s) : s[i] = t[i]
  BY <1>2 DEF Download!IsPrefix
<1> DEFINE u == SubSeq(t, 1, Len(s))
<1>4. u \in Seq(A) /\ Len(u) = Len(s) /\ \A i \in 1 .. Len(s) : u[i] = t[i]
  <2>1. \A i \in 1 .. Len(s) : t[i] \in A
    BY <1>1, <1>3
  <2>2. /\ u \in Seq(A) /\ Len(u) = IF 1 <= Len(s) THEN Len(s) - 1 + 1 ELSE 0
        /\ \A i \in 1 .. Len(s) - 1 + 1 : u[i] = t[1 + i - 1]
    BY <1>1, <2>1, SubSeqProperties
  <2> HIDE DEF u
  <2>3. QED
    BY <1>1, <2>2
<1> HIDE DEF u
<1>5. (\A i \in 1 .. Len(s) : s[i] = t[i]) => u = s
  BY <1>4, SeqEqual
<1>6. QED
  BY <1>4, <1>5 DEF u

(* A text begins with a line end exactly if its first two bytes are one.   *)
LEMMA BeginsWithLineEnd ==
  ASSUME NEW s \in Seq(Nat)
  PROVE  Download!IsPrefix(Download!LineEnd, s) <=> Len(s) >= 2 /\ s[1] = CR /\ s[2] = LF
<1>1. Len(s) \in Nat
  BY LenProperties
<1> DEFINE e == Download!LineEnd
<1>2. e \in Seq(Nat) /\ Len(e) = 2 /\ e[1] = CR /\ e[2] = LF
  BY LineEndIs
<1> HIDE DEF e
<1>3. Download!IsPrefix(e, s) <=> Len(e) <= Len(s) /\ \A i \in 1 .. Len(e) : e[i] = s[i]
  <2>1. e \in Seq(Nat)
    BY <1>2
  <2>2. QED
    BY <2>1, PrefixByPosition
<1>4. (\A i \in 1 .. 2 : e[i] = s[i]) <=> e[1] = s[1] /\ e[2] = s[2]
  OBVIOUS
<1>5. QED
  BY <1>1, <1>2, <1>3, <1>4 DEF e

(* A text ends with a line end exactly if its last two bytes are one.      *)
LEMMA EndsWithLineEnd ==
  ASSUME NEW s \in Seq(Nat)
  PROVE  Download!IsSuffix(Download!LineEnd, s)
         <=> Len(s) >= 2 /\ s[Len(s) - 1] = CR /\ s[Len(s)] = LF
<1> DEFINE n == Len(s)
           back == [i \in 1 .. n |-> s[(n - i) + 1]]
           end == Download!LineEnd
           backEnd == [i \in 1 .. Len(end) |-> end[(Len(end) - i) + 1]]
<1>1. n \in Nat /\ \A i \in 1 .. n : s[i] \in Nat
  BY ElementOfSeq
<1>2. back \in Seq(Nat) /\ Len(back) = n /\ \A i \in 1 .. n : back[i] = s[(n - i) + 1]
  <2>1. \A i \in 1 .. n : s[(n - i) + 1] \in Nat
    BY <1>1
  <2>2. back \in Seq(Nat)
    BY <1>1, <2>1, IsASeq
  <2>3. QED
    BY <1>1, <2>2
<1>3. backEnd \in Seq(Nat) /\ Len(backEnd) = 2 /\ backEnd[1] = LF /\ backEnd[2] = CR
  <2>1. Len(end) = 2 /\ end[1] = CR /\ end[2] = LF /\ CR \in Nat /\ LF \in Nat
    BY LineEndIs
  <2> HIDE DEF end
  <2>2. \A i \in 1 .. 2 : end[(2 - i) + 1] \in Nat
    BY <2>1
  <2>3. backEnd \in Seq(Nat)
    BY <2>1, <2>2, IsASeq
  <2>4. QED
    BY <2>1, <2>3
<1>4. Download!IsSuffix(end, s) <=> Download!IsPrefix(backEnd, back)
  BY Zenon DEF Download!IsSuffix, Download!Reverse
<1> HIDE DEF back, backEnd
<1>5. Download!IsPrefix(backEnd, back)
      <=> Len(backEnd) <= Len(back) /\ \A i \in 1 .. Len(backEnd) : backEnd[i] = back[i]
  <2>1. backEnd \in Seq(Nat) /\ back \in Seq(Nat)
    BY <1>2, <1>3
  <2>2. QED
    BY <2>1, PrefixByPosition
<1>6. (\A i \in 1 .. 2 : backEnd[i] = back[i]) <=> backEnd[1] = back[1] /\ backEnd[2] = back[2]
  OBVIOUS
<1>7. n >= 2 => back[1] = s[n] /\ back[2] = s[n - 1]
  BY <1>1, <1>2, SMTT(30)
<1>8. QED
  BY <1>1, <1>2, <1>3, <1>4, <1>5, <1>6, <1>7

(* The digits of a chunk's size, and their number                          *)
Digits(c) == Download!HexDigits(Len(c))
Wide16(c) == Len(Digits(c))

(* The bytes that a server sends for a chunk.                              *)
LEMMA BlockBytes ==
  ASSUME NEW c \in Seq(Nat)
  PROVE  /\ Wide16(c) \in Nat /\ Wide16(c) >= 1 /\ Len(c) \in Nat
         /\ Digits(c) \in Seq(0 .. 15) /\ Download!Stoi(Digits(c)) = Len(c)
         /\ Download!Block(c) \in Seq(Nat)
         /\ Len(Download!Block(c)) = Wide16(c) + Len(c) + 4
         /\ \A k \in 1 .. Wide16(c) : Download!Block(c)[k] = Digits(c)[k]
         /\ Download!Block(c)[Wide16(c) + 1] = CR /\ Download!Block(c)[Wide16(c) + 2] = LF
         /\ \A k \in 1 .. Len(c) : Download!Block(c)[Wide16(c) + 2 + k] = c[k]
         /\ Download!Block(c)[Wide16(c) + Len(c) + 3] = CR
         /\ Download!Block(c)[Wide16(c) + Len(c) + 4] = LF
<1> DEFINE h == Digits(c)
           d == Wide16(c)
           e == Download!LineEnd
           one == h \o e
           two == one \o c
           all == two \o e
           n == Len(c)
<1>1. n \in Nat /\ d \in Nat /\ d >= 1 /\ h \in Seq(0 .. 15) /\ Download!Stoi(h) = n
  <2>1. n \in Nat
    BY LenProperties
  <2> HIDE DEF n
  <2>2. Download!HexDigits(n) \in Seq(0 .. 15) /\ Len(Download!HexDigits(n)) >= 1
        /\ Download!Stoi(Download!HexDigits(n)) = n
    BY <2>1, HexDigitsRead
  <2>3. Len(Download!HexDigits(n)) \in Nat
    BY <2>2, LenProperties
  <2>4. QED
    BY <2>1, <2>2, <2>3 DEF Digits, Wide16, n
<1>14. d = Len(h)
  BY DEF Wide16
<1> HIDE DEF h, d
<1>2. h \in Seq(Nat)
  <2>1. 0 .. 15 \subseteq Nat
    OBVIOUS
  <2>2. QED
    BY <1>1, <2>1, SeqMonotonic, Zenon
<1>3. e \in Seq(Nat) /\ Len(e) = 2 /\ e[1] = CR /\ e[2] = LF
  BY LineEndIs
<1>4. Download!Block(c) = all
  BY Zenon DEF Download!Block, h, Digits
<1> HIDE DEF e
<1>5. /\ one \in Seq(Nat) /\ Len(one) = d + 2
      /\ \A k \in 1 .. d + 2 : one[k] = IF k <= d THEN h[k] ELSE e[k - d]
  <2>1. /\ h \o e \in Seq(Nat) /\ Len(h \o e) = Len(h) + Len(e)
        /\ \A k \in 1 .. Len(h) + Len(e) : (h \o e)[k] =
             IF k <= Len(h) THEN h[k] ELSE e[k - Len(h)]
    BY <1>2, <1>3, ConcatProperties
  <2>2. QED
    BY <1>1, <1>2, <1>3, <1>14, <2>1
<1> HIDE DEF one
<1>6. /\ two \in Seq(Nat) /\ Len(two) = d + 2 + n
      /\ \A k \in 1 .. d + 2 + n : two[k] = IF k <= d + 2 THEN one[k] ELSE c[k - (d + 2)]
  <2>1. /\ one \o c \in Seq(Nat) /\ Len(one \o c) = Len(one) + Len(c)
        /\ \A k \in 1 .. Len(one) + Len(c) : (one \o c)[k] =
             IF k <= Len(one) THEN one[k] ELSE c[k - Len(one)]
    BY <1>5, ConcatProperties
  <2>2. QED
    BY <1>1, <1>5, <2>1
<1> HIDE DEF two
<1>7. /\ all \in Seq(Nat) /\ Len(all) = d + 2 + n + 2
      /\ \A k \in 1 .. d + 2 + n + 2 :
           all[k] = IF k <= d + 2 + n THEN two[k] ELSE e[k - (d + 2 + n)]
  <2>1. /\ two \o e \in Seq(Nat) /\ Len(two \o e) = Len(two) + Len(e)
        /\ \A k \in 1 .. Len(two) + Len(e) : (two \o e)[k] =
             IF k <= Len(two) THEN two[k] ELSE e[k - Len(two)]
    BY <1>3, <1>6, ConcatProperties
  <2>2. QED
    BY <1>1, <1>3, <1>6, <2>1
<1> HIDE DEF all, n
<1>8. \A k \in 1 .. d : all[k] = h[k]
  <2>1. SUFFICES ASSUME NEW k \in 1 .. d
                 PROVE  all[k] = h[k]
    OBVIOUS
  <2>2. k \in 1 .. d + 2 /\ k \in 1 .. d + 2 + n /\ k \in 1 .. d + 2 + n + 2
        /\ k <= d /\ k <= d + 2 /\ k <= d + 2 + n
    BY <1>1
  <2>3. one[k] = h[k] /\ two[k] = one[k] /\ all[k] = two[k]
    BY <1>5, <1>6, <1>7, <2>2
  <2>4. QED
    BY <2>3
<1>9. all[d + 1] = CR /\ all[d + 2] = LF
  <2>1. one[d + 1] = CR /\ one[d + 2] = LF
    <3>1. /\ d + 1 \in 1 .. d + 2 /\ ~(d + 1 <= d) /\ (d + 1) - d = 1
          /\ d + 2 \in 1 .. d + 2 /\ ~(d + 2 <= d) /\ (d + 2) - d = 2
      BY <1>1
    <3>2. QED
      BY <1>3, <1>5, <3>1
  <2> DEFINE k == d + 1
             l == d + 2
  <2>5. /\ k \in 1 .. d + 2 + n /\ k <= d + 2 /\ k \in 1 .. d + 2 + n + 2 /\ k <= d + 2 + n
        /\ l \in 1 .. d + 2 + n /\ l <= d + 2 /\ l \in 1 .. d + 2 + n + 2 /\ l <= d + 2 + n
    BY <1>1
  <2> HIDE DEF k, l
  <2>2. two[k] = one[k] /\ two[l] = one[l]
    BY <1>6, <2>5
  <2>3. all[k] = two[k] /\ all[l] = two[l]
    BY <1>7, <2>5
  <2>4. QED
    BY <2>1, <2>2, <2>3 DEF k, l
<1>10. \A k \in 1 .. n : all[d + 2 + k] = c[k]
  <2>1. SUFFICES ASSUME NEW k \in 1 .. n
                 PROVE  all[d + 2 + k] = c[k]
    OBVIOUS
  <2>2. d + 2 + k \in 1 .. d + 2 + n /\ (d + 2 + k) - (d + 2) = k /\ ~(d + 2 + k <= d + 2)
    BY <1>1
  <2>3. two[d + 2 + k] = c[k]
    BY <1>6, <2>2
  <2>4. all[d + 2 + k] = two[d + 2 + k]
    <3> DEFINE i == d + 2 + k
    <3>1. i \in 1 .. d + 2 + n + 2 /\ i <= d + 2 + n
      BY <1>1
    <3> HIDE DEF i
    <3>2. all[i] = two[i]
      BY <1>7, <3>1
    <3>3. QED
      BY <3>2 DEF i
  <2>5. QED
    BY <2>3, <2>4
<1>11. all[d + n + 3] = CR /\ all[d + n + 4] = LF
  <2>1. /\ d + n + 3 \in 1 .. d + 2 + n + 2 /\ ~(d + n + 3 <= d + 2 + n)
        /\ (d + n + 3) - (d + 2 + n) = 1
        /\ d + n + 4 \in 1 .. d + 2 + n + 2 /\ ~(d + n + 4 <= d + 2 + n)
        /\ (d + n + 4) - (d + 2 + n) = 2
    BY <1>1
  <2>2. QED
    BY <1>3, <1>7, <2>1
<1>12. d + 2 + n + 2 = d + n + 4
  BY <1>1
<1>13. QED
  BY <1>1, <1>4, <1>7, <1>8, <1>9, <1>10, <1>11, <1>12 DEF n, h, d

-----------------------------------------------------------------------------
(* Downloader: decoding                                                    *)

(* The three writers: of a page that comes in chunks, of one that does     *)
(* not, and after a late header                                            *)
InChunks(content, size, string) ==
  [content |-> content, chunked |-> TRUE, chunkSize |-> size, sizeString |-> string,
   late |-> FALSE]
AsSent(content) ==
  [content |-> content, chunked |-> FALSE, chunkSize |-> 0, sizeString |-> <<>>,
   late |-> FALSE]
AsLate(content) ==
  [content |-> content, chunked |-> FALSE, chunkSize |-> 0, sizeString |-> <<>>,
   late |-> TRUE]

(* A body that is not in chunks grows by the byte.                         *)
LEMMA PrintPlain ==
  ASSUME NEW c, NEW b
  PROVE  /\ Download!print(AsSent(c), b) = AsSent(Append(c, b))
         /\ Download!print(AsLate(c), b) = AsLate(Append(c, b))
BY DEF Download!print, AsSent, AsLate

(* So does one in chunks, while its chunk has bytes to come.               *)
LEMMA PrintChunk ==
  ASSUME NEW c, NEW n \in Nat, n > 0, NEW s, NEW b
  PROVE  Download!print(InChunks(c, n, s), b) = InChunks(Append(c, b), n - 1, s)
BY DEF Download!print, InChunks

(* Between chunks the byte goes to the string with the next size.          *)
LEMMA PrintSize ==
  ASSUME NEW c, NEW s, NEW b
  PROVE  LET t == Download!truncateFront(Append(s, b)) IN
         Download!print(InChunks(c, 0, s), b) =
           IF Download!IsSuffix(Download!LineEnd, t)
             THEN InChunks(c, Download!Stoi(SubSeq(t, 1, Len(t) - 2)), <<>>)
             ELSE InChunks(c, 0, t)
<1> DEFINE w == InChunks(c, 0, s)
           t == Download!truncateFront(Append(s, b))
           size == Download!Stoi(SubSeq(t, 1, Len(t) - 2))
<1>1. w.chunked = TRUE /\ w.chunkSize = 0 /\ w.sizeString = s
  BY DEF InChunks
<1>2. w = InChunks(c, 0, s)
  OBVIOUS
<1> HIDE DEF w
<1>4. Download!print(w, b) =
        IF Download!IsSuffix(Download!LineEnd, t)
          THEN [w EXCEPT !.chunkSize = size, !.sizeString = <<>>]
          ELSE [w EXCEPT !.sizeString = t]
  BY <1>1 DEF Download!print
<1> HIDE DEF t, size
<1> DEFINE both == [w EXCEPT !.chunkSize = size, !.sizeString = <<>>]
           one == [w EXCEPT !.sizeString = t]
<1>3. both = [f \in DOMAIN both |-> both[f]] /\ one = [f \in DOMAIN one |-> one[f]]
  OBVIOUS
<1>5. both = InChunks(c, size, <<>>)
  <2>1. DOMAIN both = {"content", "chunked", "chunkSize", "sizeString", "late"}
    BY <1>2 DEF InChunks
  <2>2. /\ both.content = c /\ both.chunked = TRUE /\ both.chunkSize = size
        /\ both.sizeString = <<>> /\ both.late = FALSE
    BY <1>2 DEF InChunks
  <2> HIDE DEF both
  <2>3. QED
    BY <1>3, <2>1, <2>2 DEF InChunks
<1>6. one = InChunks(c, 0, t)
  <2>1. DOMAIN one = {"content", "chunked", "chunkSize", "sizeString", "late"}
    BY <1>2 DEF InChunks
  <2>2. /\ one.content = c /\ one.chunked = TRUE /\ one.chunkSize = 0
        /\ one.sizeString = t /\ one.late = FALSE
    BY <1>2 DEF InChunks
  <2> HIDE DEF one
  <2>3. QED
    BY <1>3, <2>1, <2>2 DEF InChunks
<1>7. Download!print(w, b) =
        IF Download!IsSuffix(Download!LineEnd, t) THEN InChunks(c, size, <<>>)
        ELSE InChunks(c, 0, t)
  BY <1>4, <1>5, <1>6, Zenon
<1>8. QED
  BY <1>7, Zenon DEF w, t, size

(* The same, for a string that is known.                                   *)
LEMMA PrintOn ==
  ASSUME NEW c, NEW s, NEW b, NEW t, Download!truncateFront(Append(s, b)) = t
  PROVE  /\ ~Download!IsSuffix(Download!LineEnd, t) =>
              Download!print(InChunks(c, 0, s), b) = InChunks(c, 0, t)
         /\ Download!IsSuffix(Download!LineEnd, t) =>
              Download!print(InChunks(c, 0, s), b) =
                InChunks(c, Download!Stoi(SubSeq(t, 1, Len(t) - 2)), <<>>)
<1> DEFINE w == InChunks(c, 0, s)
           size == Download!Stoi(SubSeq(t, 1, Len(t) - 2))
<1>1. Download!print(w, b) =
        IF Download!IsSuffix(Download!LineEnd, t) THEN InChunks(c, size, <<>>)
        ELSE InChunks(c, 0, t)
  BY PrintSize
<1> HIDE DEF w, size
<1>2. QED
  BY <1>1 DEF w, size

(* The writer after the first o bytes of what is sent for the chunk c:     *)
(* the size is being read, the chunk is, or the line end behind it is.     *)
Writing(c, o, size, string) ==
  LET h == Digits(c)
      d == Wide16(c) IN
  \/ o \in 0 .. d /\ size = 0 /\ string = SubSeq(h, 1, o)
  \/ o = d + 1 /\ size = 0 /\ string = Append(h, CR)
  \/ o \in d + 2 .. d + 2 + Len(c) /\ size = Len(c) - (o - d - 2) /\ string = <<>>
  \/ o = d + Len(c) + 3 /\ size = 0 /\ string = <<CR>>
  \/ o = d + Len(c) + 4 /\ size = 0 /\ string = <<>>

(* How much of the chunk they hold                                         *)
Got(c, o) ==
  LET d == Wide16(c) IN
  IF o <= d + 2 THEN 0 ELSE IF o <= d + 2 + Len(c) THEN o - d - 2 ELSE Len(c)

(* After a digit of the size, or the first byte of its line end            *)
LEMMA WriteSize ==
  ASSUME NEW c \in Seq(Nat), NEW o \in 0 .. Wide16(c), NEW content
  PROVE  Download!print(InChunks(content, 0, SubSeq(Digits(c), 1, o)),
                        Download!Block(c)[o + 1]) =
           InChunks(content, 0,
              IF o < Wide16(c) THEN SubSeq(Digits(c), 1, o + 1) ELSE Append(Digits(c), CR))
<1> DEFINE h == Digits(c)
           d == Wide16(c)
           b == Download!Block(c)[o + 1]
           s == SubSeq(h, 1, o)
           t == Append(s, b)
<1>14. d = Len(h)
  BY DEF Wide16
<1>1. /\ d \in Nat /\ d >= 1 /\ h \in Seq(0 .. 15) /\ o \in 0 .. d
      /\ \A k \in 1 .. d : Download!Block(c)[k] = h[k]
      /\ Download!Block(c)[d + 1] = CR
  BY BlockBytes
<1> HIDE DEF h, d
<1>2. b = IF o < d THEN h[o + 1] ELSE CR
  BY <1>1
<1> HIDE DEF b
<1>3. \A i \in 1 .. d : h[i] \in 0 .. 15
  BY <1>1, <1>14, ElementOfSeq
<1>4. CR \in Nat /\ LF \in Nat /\ CR # LF /\ CR \notin 0 .. 15 /\ LF \notin 0 .. 15
  BY LineEndIs
<1>5. /\ s \in Seq(0 .. 15) /\ Len(s) = o /\ \A i \in 1 .. o : s[i] = h[i]
  <2>1. \A i \in 1 .. o : h[i] \in 0 .. 15
    BY <1>1, <1>3
  <2>2. /\ s \in Seq(0 .. 15) /\ Len(s) = IF 1 <= o THEN o - 1 + 1 ELSE 0
        /\ \A i \in 1 .. o - 1 + 1 : s[i] = h[1 + i - 1]
    BY <1>1, <2>1, SubSeqProperties
  <2> HIDE DEF s
  <2>3. QED
    BY <1>1, <2>2
<1>6. t = IF o < d THEN SubSeq(h, 1, o + 1) ELSE Append(h, CR)
  <2>1. CASE o < d
    <3>1. o + 1 \in 1 .. d /\ (o + 1) - 1 = o /\ 1 \in 1 .. d /\ o + 1 \in 1 .. o + 1
      BY <1>1, <2>1
    <3>2. SubSeq(h, 1, o + 1) = s \o <<h[o + 1]>>
      <4>1. SubSeq(h, 1, o + 1) = SubSeq(h, 1, (o + 1) - 1) \o <<h[o + 1]>>
        BY <1>1, <1>14, <3>1, SubSeqRecursiveSecond
      <4>2. QED
        BY <3>1, <4>1
    <3>3. t = s \o <<b>>
      BY <1>2, <1>3, <1>5, <2>1, <3>1, AppendIsConcat
    <3> HIDE DEF s, t
    <3>4. QED
      BY <1>2, <2>1, <3>2, <3>3
  <2>2. CASE ~(o < d)
    <3>1. o = d
      BY <1>1, <2>2
    <3>2. s = h
      BY <1>1, <1>14, <3>1, SubSeqFull
    <3> HIDE DEF s
    <3>3. QED
      BY <1>2, <2>2, <3>2
  <2>3. QED
    BY <2>1, <2>2
<1> HIDE DEF s
<1>7. s \in Seq(Nat) /\ b \in Nat /\ b # LF /\ (o = 0 => b # CR)
  <2>1. 0 .. 15 \subseteq Nat
    OBVIOUS
  <2>2. s \in Seq(Nat)
    BY <1>5, <2>1, SeqMonotonic
  <2>3. CASE o < d
    <3>1. b \in 0 .. 15
      BY <1>1, <1>2, <1>3, <2>3
    <3>2. b \in Nat /\ b # LF /\ b # CR
      BY <1>4, <2>1, <3>1
    <3>3. QED
      BY <2>2, <3>2
  <2>4. CASE ~(o < d)
    <3>1. b = CR /\ o # 0
      BY <1>1, <1>2, <2>4
    <3>2. QED
      BY <1>4, <2>2, <3>1
  <2>5. QED
    BY <2>3, <2>4
<1>8. /\ t \in Seq(Nat) /\ Len(t) = o + 1 /\ t[o + 1] = b
      /\ \A i \in 1 .. o : t[i] = s[i]
  BY <1>5, <1>7, AppendProperties
<1> HIDE DEF t
<1>9. ~Download!IsPrefix(Download!LineEnd, t)
  <2>1. t[1] # CR
    <3>1. CASE o = 0
      BY <1>7, <1>8, <3>1
    <3>2. CASE o # 0
      <4>1. 1 \in 1 .. o /\ 1 \in 1 .. d
        BY <1>1, <3>2
      <4>2. t[1] = h[1] /\ h[1] \in 0 .. 15
        BY <1>3, <1>5, <1>8, <4>1
      <4>3. QED
        BY <1>4, <4>2
    <3>3. QED
      BY <3>1, <3>2
  <2>2. QED
    BY <1>8, <2>1, BeginsWithLineEnd
<1>10. ~Download!IsSuffix(Download!LineEnd, t)
  BY <1>7, <1>8, EndsWithLineEnd
<1>11. Download!truncateFront(t) = t
  BY <1>9 DEF Download!truncateFront
<1>15. Download!truncateFront(Append(s, b)) = t
  BY <1>11 DEF t
<1>12. Download!print(InChunks(content, 0, s), b) = InChunks(content, 0, t)
  BY <1>10, <1>15, PrintOn
<1>13. QED
  BY <1>6, <1>12, Zenon DEF s, b, d, h

(* After the end of the size's line                                        *)
LEMMA WriteSizeEnd ==
  ASSUME NEW c \in Seq(Nat), NEW content
  PROVE  Download!print(InChunks(content, 0, Append(Digits(c), CR)), LF) =
           InChunks(content, Len(c), <<>>)
<1> DEFINE h == Digits(c)
           d == Wide16(c)
           s == Append(h, CR)
           t == Append(s, LF)
<1>1. d \in Nat /\ d >= 1 /\ h \in Seq(0 .. 15) /\ Download!Stoi(h) = Len(c)
  BY BlockBytes
<1>14. d = Len(h)
  BY DEF Wide16
<1> HIDE DEF h, d
<1>2. h \in Seq(Nat) /\ \A i \in 1 .. d : h[i] \in 0 .. 15 /\ h[i] \in Nat
  <2>1. 0 .. 15 \subseteq Nat
    OBVIOUS
  <2>2. h \in Seq(Nat)
    BY <1>1, <2>1, SeqMonotonic
  <2>3. \A i \in 1 .. d : h[i] \in 0 .. 15
    BY <1>1, <1>14, ElementOfSeq
  <2>4. QED
    BY <2>1, <2>2, <2>3
<1>3. CR \in Nat /\ LF \in Nat /\ CR # LF /\ CR \notin 0 .. 15 /\ LF \notin 0 .. 15
  BY LineEndIs
<1>4. s \in Seq(Nat) /\ Len(s) = d + 1 /\ s[d + 1] = CR /\ \A i \in 1 .. d : s[i] = h[i]
  BY <1>2, <1>3, <1>14, AppendProperties
<1> HIDE DEF s
<1>5. t \in Seq(Nat) /\ Len(t) = d + 2 /\ t[d + 2] = LF /\ \A i \in 1 .. d + 1 : t[i] = s[i]
  <2>1. /\ t \in Seq(Nat) /\ Len(t) = Len(s) + 1 /\ t[Len(s) + 1] = LF
        /\ \A i \in 1 .. Len(s) : t[i] = s[i]
    BY <1>3, <1>4, AppendProperties
  <2>2. (d + 1) + 1 = d + 2
    BY <1>1
  <2> HIDE DEF t
  <2>3. QED
    BY <1>4, <2>1, <2>2
<1> HIDE DEF t
<1>6. t[d + 1] = CR /\ t[1] # CR
  <2>1. d + 1 \in 1 .. d + 1 /\ 1 \in 1 .. d + 1 /\ 1 \in 1 .. d
    BY <1>1
  <2>2. t[d + 1] = CR /\ t[1] = h[1] /\ h[1] \in 0 .. 15
    BY <1>2, <1>4, <1>5, <2>1
  <2>3. QED
    BY <1>3, <2>2
<1>7. ~Download!IsPrefix(Download!LineEnd, t)
  BY <1>5, <1>6, BeginsWithLineEnd
<1>8. Download!IsSuffix(Download!LineEnd, t)
  <2>1. Len(t) - 1 = d + 1 /\ Len(t) >= 2
    BY <1>1, <1>5
  <2>2. QED
    BY <1>5, <1>6, <2>1, EndsWithLineEnd
<1>9. Download!truncateFront(t) = t
  BY <1>7 DEF Download!truncateFront
<1>10. SubSeq(t, 1, Len(t) - 2) = h
  <2> DEFINE u == SubSeq(t, 1, d)
  <2>1. \A i \in 1 .. d : t[i] = h[i]
    BY <1>1, <1>4, <1>5
  <2>2. \A i \in 1 .. d : t[i] \in Nat
    BY <1>1, <1>2, <2>1
  <2>3. u \in Seq(Nat) /\ Len(u) = d /\ \A i \in 1 .. d : u[i] = t[i]
    <3>1. /\ u \in Seq(Nat) /\ Len(u) = IF 1 <= d THEN d - 1 + 1 ELSE 0
          /\ \A i \in 1 .. d - 1 + 1 : u[i] = t[1 + i - 1]
      BY <1>1, <2>2, SubSeqProperties
    <3> HIDE DEF u
    <3>2. QED
      BY <1>1, <3>1
  <2> HIDE DEF u
  <2>4. u = h
    BY <1>2, <1>14, <2>1, <2>3, SeqEqual
  <2>5. Len(t) - 2 = d
    BY <1>1, <1>5
  <2>6. QED
    BY <2>4, <2>5 DEF u
<1>13. Download!truncateFront(Append(s, LF)) = t
  BY <1>9 DEF t
<1>11. Download!print(InChunks(content, 0, s), LF) =
         InChunks(content, Download!Stoi(SubSeq(t, 1, Len(t) - 2)), <<>>)
  BY <1>8, <1>13, PrintOn
<1>12. QED
  BY <1>1, <1>10, <1>11 DEF s, h

(* After the line end behind a chunk                                       *)
LEMMA WriteChunkEnd ==
  ASSUME NEW content
  PROVE  /\ Download!print(InChunks(content, 0, <<>>), CR) = InChunks(content, 0, <<CR>>)
         /\ Download!print(InChunks(content, 0, <<CR>>), LF) = InChunks(content, 0, <<>>)
<1>1. CR \in Nat /\ LF \in Nat /\ CR # LF
  BY LineEndIs
<1> DEFINE one == <<CR>>
           two == <<CR, LF>>
<1>2. /\ one \in Seq(Nat) /\ Len(one) = 1 /\ one[1] = CR
      /\ two \in Seq(Nat) /\ Len(two) = 2 /\ two[1] = CR /\ two[2] = LF
      /\ <<>> \in Seq(Nat) /\ Len(<<>>) = 0
  BY <1>1
<1> HIDE DEF one, two
<1>3. Append(<<>>, CR) = one
  <2> DEFINE t == Append(<<>>, CR)
  <2>1. t \in Seq(Nat) /\ Len(t) = Len(<<>>) + 1 /\ t[Len(<<>>) + 1] = CR
    BY <1>1, <1>2, AppendProperties
  <2> HIDE DEF t
  <2>2. Len(t) = Len(one) /\ \A i \in 1 .. Len(t) : t[i] = one[i]
    BY <1>2, <2>1
  <2>3. t = one
    BY <1>2, <2>1, <2>2, SeqEqual
  <2>4. QED
    BY <2>3 DEF t
<1>4. Append(one, LF) = two
  <2> DEFINE t == Append(one, LF)
  <2>1. /\ t \in Seq(Nat) /\ Len(t) = Len(one) + 1 /\ t[Len(one) + 1] = LF
        /\ \A i \in 1 .. Len(one) : t[i] = one[i]
    <3>1. one \in Seq(Nat) /\ LF \in Nat
      BY <1>1, <1>2
    <3>2. QED
      BY <3>1, AppendProperties
  <2> HIDE DEF t
  <2>2. Len(t) = Len(two) /\ \A i \in 1 .. Len(t) : t[i] = two[i]
    BY <1>2, <2>1
  <2>3. t = two
    BY <1>2, <2>1, <2>2, SeqEqual
  <2>4. QED
    BY <2>3 DEF t
<1>5. ~Download!IsPrefix(Download!LineEnd, one) /\ ~Download!IsSuffix(Download!LineEnd, one)
  BY <1>2, BeginsWithLineEnd, EndsWithLineEnd
<1>6. Download!IsPrefix(Download!LineEnd, two)
  BY <1>2, BeginsWithLineEnd
<1>7. ~Download!IsSuffix(Download!LineEnd, <<>>)
  <2>1. ~(Len(<<>>) >= 2)
    BY <1>2
  <2>2. QED
    BY <1>2, <2>1, EndsWithLineEnd
<1>8. SubSeq(two, 3, Len(two)) = <<>>
  BY <1>2, SubSeqEmpty
<1>9. Download!truncateFront(Append(<<>>, CR)) = one
  BY <1>3, <1>5 DEF Download!truncateFront
<1>10. Download!truncateFront(Append(one, LF)) = <<>>
  BY <1>4, <1>6, <1>8 DEF Download!truncateFront
<1>11. Download!print(InChunks(content, 0, <<>>), CR) = InChunks(content, 0, one)
  BY <1>5, <1>9, PrintOn
<1>12. Download!print(InChunks(content, 0, one), LF) = InChunks(content, 0, <<>>)
  BY <1>7, <1>10, PrintOn
<1>13. QED
  BY <1>11, <1>12 DEF one

(* What the writer holds after byte o + 1 of the chunk c was read.         *)
OneByte(c, o, content, w) ==
  \E n, s :
    /\ Writing(c, o + 1, n, s)
    /\ \/ Got(c, o + 1) = Got(c, o) /\ w = InChunks(content, n, s)
       \/ /\ Got(c, o) + 1 = Got(c, o + 1) /\ Got(c, o) + 1 \in 1 .. Len(c)
          /\ w = InChunks(Append(content, c[Got(c, o) + 1]), n, s)

(* A byte of what is sent for the chunk c is read.                         *)
LEMMA WriteStep ==
  ASSUME NEW c \in Seq(Nat), NEW o \in Nat, o < Len(Download!Block(c)), NEW content,
         NEW size, NEW string, Writing(c, o, size, string)
  PROVE  OneByte(c, o, content,
                 Download!print(InChunks(content, size, string), Download!Block(c)[o + 1]))
<1> DEFINE h == Digits(c)
           d == Wide16(c)
           k == Len(c)
           block == Download!Block(c)
           b == block[o + 1]
           Goal(n, s) ==
             /\ Writing(c, o + 1, n, s)
             /\ \/ /\ Got(c, o + 1) = Got(c, o)
                   /\ Download!print(InChunks(content, size, string), b) =
                        InChunks(content, n, s)
                \/ /\ Got(c, o) + 1 = Got(c, o + 1) /\ Got(c, o) + 1 \in 1 .. Len(c)
                   /\ Download!print(InChunks(content, size, string), b) =
                        InChunks(Append(content, c[Got(c, o) + 1]), n, s)
<1>1. /\ d \in Nat /\ d >= 1 /\ k \in Nat /\ Len(block) = d + k + 4
      /\ \A i \in 1 .. d : block[i] = h[i]
      /\ block[d + 1] = CR /\ block[d + 2] = LF
      /\ \A i \in 1 .. k : block[d + 2 + i] = c[i]
      /\ block[d + k + 3] = CR /\ block[d + k + 4] = LF
  BY BlockBytes
<1> HIDE DEF d, k
<1>12. d \in Nat /\ d >= 1 /\ k \in Nat
  BY <1>1
<1>2. \/ o \in 0 .. d /\ size = 0 /\ string = SubSeq(h, 1, o)
      \/ o = d + 1 /\ size = 0 /\ string = Append(h, CR)
      \/ o \in d + 2 .. d + 2 + k /\ size = k - (o - d - 2) /\ string = <<>>
      \/ o = d + k + 3 /\ size = 0 /\ string = <<CR>>
  <2>1. o # d + k + 4
    BY <1>1
  <2>2. QED
    BY <2>1 DEF Writing, d, k
<1>3. \A i \in Nat : Got(c, i) =
        IF i <= d + 2 THEN 0 ELSE IF i <= d + 2 + k THEN i - d - 2 ELSE k
  BY DEF Got, d, k
<1>4. \A i \in Nat : \A n, s :
        Writing(c, i, n, s) <=>
          \/ i \in 0 .. d /\ n = 0 /\ s = SubSeq(h, 1, i)
          \/ i = d + 1 /\ n = 0 /\ s = Append(h, CR)
          \/ i \in d + 2 .. d + 2 + k /\ n = k - (i - d - 2) /\ s = <<>>
          \/ i = d + k + 3 /\ n = 0 /\ s = <<CR>>
          \/ i = d + k + 4 /\ n = 0 /\ s = <<>>
  BY Zenon DEF Writing, d, k
<1> HIDE DEF h, block
<1>5. CASE o \in 0 .. d /\ size = 0 /\ string = SubSeq(h, 1, o)
  <2> DEFINE next == IF o < d THEN SubSeq(h, 1, o + 1) ELSE Append(h, CR)
  <2>1. Download!print(InChunks(content, 0, SubSeq(Digits(c), 1, o)),
                       Download!Block(c)[o + 1]) =
           InChunks(content, 0,
              IF o < Wide16(c) THEN SubSeq(Digits(c), 1, o + 1) ELSE Append(Digits(c), CR))
    BY <1>5, WriteSize DEF d
  <2>2. Download!print(InChunks(content, size, string), b) = InChunks(content, 0, next)
    BY <1>5, <2>1 DEF d, h, block
  <2>3. Writing(c, o + 1, 0, next)
    <3>1. o + 1 \in Nat
      OBVIOUS
    <3>2. o < d => next = SubSeq(h, 1, o + 1)
      OBVIOUS
    <3>3. ~(o < d) => next = Append(h, CR)
      OBVIOUS
    <3> HIDE DEF next
    <3>5. (o < d => o + 1 \in 0 .. d) /\ (~(o < d) => o + 1 = d + 1)
      BY <1>5, <1>12
    <3>4. QED
      BY <1>4, <3>1, <3>2, <3>3, <3>5
  <2>4. Got(c, o) = 0 /\ Got(c, o + 1) = 0
    BY <1>1, <1>3, <1>5
  <2> HIDE DEF next, b
  <2>5. Goal(0, next)
    BY <2>2, <2>3, <2>4
  <2>6. QED
    BY <2>5 DEF b, block, OneByte
<1>6. CASE o = d + 1 /\ size = 0 /\ string = Append(h, CR)
  <2>1. b = LF
    <3>1. o + 1 = d + 2
      BY <1>1, <1>6
    <3>2. QED
      BY <1>1, <3>1
  <2> HIDE DEF b
  <2>2. Download!print(InChunks(content, 0, Append(Digits(c), CR)), LF) =
          InChunks(content, k, <<>>)
    BY WriteSizeEnd DEF k
  <2>3. Download!print(InChunks(content, size, string), b) = InChunks(content, k, <<>>)
    BY <1>6, <2>1, <2>2 DEF h
  <2>4. Writing(c, o + 1, k, <<>>)
    <3>1. o + 1 \in Nat /\ o + 1 \in d + 2 .. d + 2 + k /\ k = k - ((o + 1) - d - 2)
      BY <1>6, <1>12
    <3>2. QED
      BY <1>4, <3>1
  <2>5. Got(c, o) = 0 /\ Got(c, o + 1) = 0
    BY <1>1, <1>3, <1>6
  <2>6. Goal(k, <<>>)
    BY <2>3, <2>4, <2>5
  <2>7. QED
    BY <2>6 DEF b, block, OneByte
<1>7. CASE o \in d + 2 .. d + 1 + k /\ size = k - (o - d - 2) /\ string = <<>>
  <2> DEFINE i == o - d - 1
  <2>1. i \in 1 .. k /\ o + 1 = d + 2 + i /\ size \in Nat /\ size > 0 /\ size - 1 = k - i
    BY <1>7, <1>12
  <2>2. b = c[i]
    BY <1>1, <2>1
  <2> HIDE DEF b
  <2>3. Download!print(InChunks(content, size, string), b) =
          InChunks(Append(content, b), size - 1, string)
    BY <2>1, PrintChunk
  <2>4. Writing(c, o + 1, size - 1, <<>>)
    <3>1. o + 1 \in Nat /\ o + 1 \in d + 2 .. d + 2 + k /\ size - 1 = k - ((o + 1) - d - 2)
      BY <1>1, <1>7
    <3>2. QED
      BY <1>4, <3>1
  <2>5. Got(c, o) + 1 = i /\ Got(c, o + 1) = i
    <3>1. /\ ~(o + 1 <= d + 2) /\ o + 1 <= d + 2 + k /\ (o + 1) - d - 2 = i
          /\ o <= d + 2 + k /\ o + 1 \in Nat
          /\ (o <= d + 2 => i = 1) /\ (~(o <= d + 2) => (o - d - 2) + 1 = i)
      BY <1>7, <1>12
    <3>2. Got(c, o + 1) = i
      BY <1>3, <3>1
    <3>3. Got(c, o) = IF o <= d + 2 THEN 0 ELSE o - d - 2
      BY <1>3, <3>1
    <3>4. Got(c, o) + 1 = i
      BY <3>1, <3>3
    <3>5. QED
      BY <3>2, <3>4
  <2> HIDE DEF i
  <2>6. Goal(size - 1, <<>>)
    BY <1>7, <2>1, <2>2, <2>3, <2>4, <2>5 DEF k
  <2>7. QED
    BY <2>6 DEF b, block, OneByte
<1>8. CASE o = d + 2 + k /\ size = k - (o - d - 2) /\ string = <<>>
  <2>1. size = 0 /\ o + 1 = d + k + 3
    BY <1>8, <1>12
  <2>2. b = CR
    BY <1>1, <2>1
  <2> HIDE DEF b
  <2>3. Download!print(InChunks(content, size, string), b) = InChunks(content, 0, <<CR>>)
    BY <1>8, <2>1, <2>2, WriteChunkEnd
  <2>4. Writing(c, o + 1, 0, <<CR>>)
    <3>1. o + 1 \in Nat
      OBVIOUS
    <3>2. QED
      BY <1>4, <2>1, <3>1
  <2>5. Got(c, o) = k /\ Got(c, o + 1) = k
    BY <1>1, <1>3, <1>8
  <2>6. Goal(0, <<CR>>)
    BY <2>3, <2>4, <2>5
  <2>7. QED
    BY <2>6 DEF b, block, OneByte
<1>9. CASE o = d + k + 3 /\ size = 0 /\ string = <<CR>>
  <2>1. o + 1 = d + k + 4
    BY <1>1, <1>9
  <2>2. b = LF
    BY <1>1, <2>1
  <2> HIDE DEF b
  <2>3. Download!print(InChunks(content, size, string), b) = InChunks(content, 0, <<>>)
    BY <1>9, <2>2, WriteChunkEnd
  <2>4. Writing(c, o + 1, 0, <<>>)
    <3>1. o + 1 \in Nat
      OBVIOUS
    <3>2. QED
      BY <1>4, <2>1, <3>1
  <2>5. Got(c, o) = k /\ Got(c, o + 1) = k
    BY <1>1, <1>3, <1>9
  <2>6. Goal(0, <<>>)
    BY <2>3, <2>4, <2>5
  <2>7. QED
    BY <2>6 DEF b, block, OneByte
<1>10. o \in d + 2 .. d + 2 + k => (o \in d + 2 .. d + 1 + k \/ o = d + 2 + k)
  BY <1>12
<1>11. QED
  BY <1>2, <1>5, <1>6, <1>7, <1>8, <1>9, <1>10

(* What is left of a text after p bytes of it                              *)
LEMMA TakeOne ==
  ASSUME NEW text \in Seq(Nat), NEW p \in Nat
  PROVE  /\ SubSeq(text, p + 1, Len(text)) = <<>> <=> p >= Len(text)
         /\ p < Len(text) =>
              /\ Head(SubSeq(text, p + 1, Len(text))) = text[p + 1]
              /\ Tail(SubSeq(text, p + 1, Len(text))) = SubSeq(text, (p + 1) + 1, Len(text))
<1>1. Len(text) \in Nat
  BY LenProperties
<1>2. CASE p >= Len(text)
  <2>1. Len(text) < p + 1 /\ ~(p < Len(text)) /\ p + 1 \in Int /\ Len(text) \in Int
    BY <1>1, <1>2
  <2>2. SubSeq(text, p + 1, Len(text)) = <<>>
    BY <2>1, SubSeqEmpty
  <2>3. QED
    BY <1>2, <2>1, <2>2
<1>3. CASE ~(p >= Len(text))
  <2>1. p + 1 \in 1 .. Len(text) /\ Len(text) \in p + 1 .. Len(text) /\ p < Len(text)
        /\ p + 1 \in Int /\ Len(text) \in Int /\ p + 1 <= Len(text)
    BY <1>1, <1>3
  <2>2. /\ Head(SubSeq(text, p + 1, Len(text))) = text[p + 1]
        /\ Tail(SubSeq(text, p + 1, Len(text))) = SubSeq(text, (p + 1) + 1, Len(text))
    BY <2>1, HeadTailOfSubSeq
  <2>3. Len(SubSeq(text, p + 1, Len(text))) = Len(text) - (p + 1) + 1
    <3>1. \A i \in p + 1 .. Len(text) : text[i] \in Nat
      BY <1>1, ElementOfSeq
    <3>2. QED
      BY <2>1, <3>1, SubSeqProperties
  <2>4. SubSeq(text, p + 1, Len(text)) # <<>>
    <3> DEFINE rest == SubSeq(text, p + 1, Len(text))
    <3> HIDE DEF rest
    <3>1. Len(rest) = Len(text) - (p + 1) + 1
      BY <2>3 DEF rest
    <3>2. rest # <<>>
      BY <1>1, <2>1, <3>1
    <3>3. QED
      BY <3>2 DEF rest
  <2>5. QED
    BY <1>3, <2>2, <2>4
<1>4. QED
  BY <1>2, <1>3

(* What was written of a text grows by its next byte.                      *)
LEMMA GrowOne ==
  ASSUME NEW text \in Seq(Nat), NEW q \in Nat, q < Len(text)
  PROVE  Append(SubSeq(text, 1, q), text[q + 1]) = SubSeq(text, 1, q + 1)
<1>1. Len(text) \in Nat
  BY LenProperties
<1>2. 1 \in 1 .. Len(text) /\ q + 1 \in 1 .. Len(text) /\ (q + 1) - 1 = q
  BY <1>1
<1>3. SubSeq(text, 1, q + 1) = SubSeq(text, 1, (q + 1) - 1) \o <<text[q + 1]>>
  BY <1>2, SubSeqRecursiveSecond
<1>4. SubSeq(text, 1, q) \in Seq(Nat) /\ text[q + 1] \in Nat
  <2>1. \A i \in 1 .. q : text[i] \in Nat
    BY <1>1, ElementOfSeq
  <2>2. SubSeq(text, 1, q) \in Seq(Nat)
    BY <2>1, SubSeqProperties
  <2>3. text[q + 1] \in Nat
    BY <1>2, ElementOfSeq
  <2>4. QED
    BY <2>2, <2>3
<1>5. Append(SubSeq(text, 1, q), text[q + 1]) = SubSeq(text, 1, q) \o <<text[q + 1]>>
  BY <1>4, AppendIsConcat
<1>6. QED
  BY <1>2, <1>3, <1>5

(* The first q bytes of a text are a prefix of it.                         *)
LEMMA BeginningIsPrefix ==
  ASSUME NEW text \in Seq(Nat), NEW q \in Nat, q <= Len(text)
  PROVE  Download!IsPrefix(SubSeq(text, 1, q), text)
<1> DEFINE s == SubSeq(text, 1, q)
<1>1. Len(text) \in Nat
  BY LenProperties
<1>2. \A i \in 1 .. q : text[i] \in Nat
  BY <1>1, ElementOfSeq
<1>3. /\ s \in Seq(Nat) /\ Len(s) = IF 1 <= q THEN q - 1 + 1 ELSE 0
      /\ \A i \in 1 .. q - 1 + 1 : s[i] = text[1 + i - 1]
  BY <1>2, SubSeqProperties
<1> HIDE DEF s
<1>4. s \in Seq(Nat)
  BY <1>3
<1>5. Len(s) = q /\ \A i \in 1 .. q : s[i] = text[i]
  BY <1>3
<1>6. Len(s) <= Len(text) /\ \A i \in 1 .. Len(s) : s[i] = text[i]
  BY <1>5
<1>7. Download!IsPrefix(s, text) <=>
        Len(s) <= Len(text) /\ \A i \in 1 .. Len(s) : s[i] = text[i]
  BY <1>4, PrefixByPosition
<1>8. QED
  BY <1>6, <1>7 DEF s

(* How far the first pieces of a text reach                                *)
Upto(pieces) ==
  CHOOSE F : Joins(F, pieces) /\ Download!FlattenSeq(pieces) = F[Len(pieces)]
Reach(pieces, i) == Len(Upto(pieces)[i])

(* The text is the pieces one after the other, each where Reach says.      *)
Spans(pieces, text) ==
  /\ text \in Seq(Nat) /\ Len(text) = Reach(pieces, Len(pieces))
  /\ Reach(pieces, 0) = 0
  /\ \A i \in 0 .. Len(pieces) : Reach(pieces, i) \in Nat /\ Reach(pieces, i) <= Len(text)
  /\ \A i \in 1 .. Len(pieces) :
       /\ Reach(pieces, i) = Reach(pieces, i - 1) + Len(pieces[i])
       /\ \A k \in 1 .. Len(pieces[i]) : text[Reach(pieces, i - 1) + k] = pieces[i][k]

(* FlattenSeq puts the pieces one after the other.                         *)
LEMMA ReachAt ==
  ASSUME NEW pieces \in Seq(Seq(Nat))
  PROVE  Spans(pieces, Download!FlattenSeq(pieces))
<1> DEFINE n == Len(pieces)
           F == Upto(pieces)
           text == Download!FlattenSeq(pieces)
<1>1. n \in Nat /\ \A i \in 1 .. n : pieces[i] \in Seq(Nat)
  BY ElementOfSeq
<1>2. Joins(F, pieces) /\ text = F[n]
  <2>1. \E G : Joins(G, pieces) /\ Download!FlattenSeq(pieces) = G[Len(pieces)]
    BY FlattenJoins
  <2>2. QED
    BY <2>1 DEF Upto
<1> HIDE DEF F, text
<1>3. /\ \A i \in 0 .. n : F[i] \in Seq(Nat)
      /\ \A i \in 0 .. n : \A m \in i .. n :
           Len(F[i]) <= Len(F[m]) /\ \A k \in 1 .. Len(F[i]) : F[m][k] = F[i][k]
  <2>1. Joins(F, pieces)
    BY <1>2
  <2>2. Grows(F, Len(pieces))
    BY <2>1, JoinsPrefixes
  <2>3. QED
    BY <2>2, Zenon DEF Grows
<1>4. \A i : Reach(pieces, i) = Len(F[i])
  BY DEF Reach, F
<1>5. F[0] = <<>> /\ \A i \in 1 .. n : F[i] = F[i - 1] \o pieces[i]
  BY <1>2 DEF Joins
<1>6. text \in Seq(Nat) /\ Len(text) = Reach(pieces, n)
  <2>1. n \in 0 .. n
    BY <1>1
  <2>2. QED
    BY <1>2, <1>3, <1>4, <2>1
<1>7. Reach(pieces, 0) = 0
  BY <1>4, <1>5
<1>8. \A i \in 0 .. n : Reach(pieces, i) \in Nat /\ Reach(pieces, i) <= Len(text)
  <2>1. SUFFICES ASSUME NEW i \in 0 .. n
                 PROVE  Len(F[i]) \in Nat /\ Len(F[i]) <= Len(F[n])
    BY <1>2, <1>4
  <2>2. n \in i .. n
    BY <1>1
  <2>3. Len(F[i]) \in Nat
    BY <1>3, LenProperties
  <2>4. QED
    BY <1>3, <2>2, <2>3
<1>9. ASSUME NEW i \in 1 .. n
      PROVE  /\ Len(F[i]) = Len(F[i - 1]) + Len(pieces[i])
             /\ \A k \in 1 .. Len(pieces[i]) : text[Len(F[i - 1]) + k] = pieces[i][k]
  <2> DEFINE short == F[i - 1]
             long == F[i]
             piece == pieces[i]
  <2>1. i - 1 \in 0 .. n /\ i \in 0 .. n /\ n \in i .. n
    BY <1>1
  <2>2. short \in Seq(Nat) /\ piece \in Seq(Nat) /\ long = short \o piece
    BY <1>1, <1>3, <1>5, <2>1
  <2>3. /\ Len(long) = Len(short) + Len(piece)
        /\ \A k \in 1 .. Len(short) + Len(piece) :
             long[k] = IF k <= Len(short) THEN short[k] ELSE piece[k - Len(short)]
    <3> HIDE DEF short, long, piece
    <3>1. /\ Len(short \o piece) = Len(short) + Len(piece)
          /\ \A k \in 1 .. Len(short) + Len(piece) :
             (short \o piece)[k] = IF k <= Len(short) THEN short[k] ELSE piece[k - Len(short)]
      BY <2>2, ConcatProperties
    <3>2. QED
      BY <2>2, <3>1
  <2>4. \A k \in 1 .. Len(long) : text[k] = long[k]
    BY <1>2, <1>3, <2>1
  <2>5. Len(short) \in Nat /\ Len(piece) \in Nat
    BY <2>2, LenProperties
  <2> HIDE DEF short, long, piece
  <2>6. \A k \in 1 .. Len(piece) : text[Len(short) + k] = piece[k]
    <3>1. SUFFICES ASSUME NEW k \in 1 .. Len(piece)
                   PROVE  text[Len(short) + k] = piece[k]
      OBVIOUS
    <3> DEFINE j == Len(short) + k
    <3>2. j \in 1 .. Len(short) + Len(piece) /\ ~(j <= Len(short)) /\ j - Len(short) = k
      BY <2>5
    <3> HIDE DEF j
    <3>3. text[j] = piece[k]
      BY <2>3, <2>4, <3>2
    <3>4. QED
      BY <3>3 DEF j
  <2>7. QED
    BY <2>3, <2>6 DEF short, long, piece
<1>10. \A i \in 1 .. n :
         /\ Reach(pieces, i) = Reach(pieces, i - 1) + Len(pieces[i])
         /\ \A k \in 1 .. Len(pieces[i]) : text[Reach(pieces, i - 1) + k] = pieces[i][k]
  <2>1. SUFFICES ASSUME NEW i \in 1 .. n
                 PROVE  /\ Reach(pieces, i) = Reach(pieces, i - 1) + Len(pieces[i])
                        /\ \A k \in 1 .. Len(pieces[i]) :
                             text[Reach(pieces, i - 1) + k] = pieces[i][k]
    OBVIOUS
  <2>2. Reach(pieces, i) = Len(F[i]) /\ Reach(pieces, i - 1) = Len(F[i - 1])
    BY <1>4
  <2>3. QED
    BY <1>9, <2>2
<1>11. QED
  BY <1>6, <1>7, <1>8, <1>10 DEF Spans, text

-----------------------------------------------------------------------------
(* Downloader: the body of an answer                                       *)

Sizes(chunks) == Append(chunks, <<>>)
Blocks(chunks) == [i \in DOMAIN Sizes(chunks) |-> Download!Block(Sizes(chunks)[i])]

(* Of a body in chunks, o bytes of the i-th were read, and rest is still   *)
(* to come: the content is what they hold, with all of the chunks before.  *)
DecodingAt(chunks, w, rest, i, o) ==
  \E n, s :
    LET c == Sizes(chunks)[i]
        text == Download!Encoded(chunks)
        sent == Download!FlattenSeq(chunks) IN
    /\ o < Len(Download!Block(c)) \/ (o = Len(Download!Block(c)) /\ i = Len(chunks) + 1)
    /\ Writing(c, o, n, s)
    /\ rest = SubSeq(text, (Reach(Blocks(chunks), i - 1) + o) + 1, Len(text))
    /\ w = InChunks(SubSeq(sent, 1, Reach(chunks, i - 1) + Got(c, o)), n, s)
Decoding(chunks, w, rest) ==
  \E i \in 1 .. Len(chunks) + 1, o \in Nat : DecodingAt(chunks, w, rest, i, o)

(* Of another body, the content is what was read.                          *)
Copying(text, content, rest) ==
  \E p \in 0 .. Len(text) :
    rest = SubSeq(text, p + 1, Len(text)) /\ content = SubSeq(text, 1, p)

(* Before anything was read, all is still to come.                         *)
LEMMA CopyingStarts ==
  ASSUME NEW text \in Seq(Nat)
  PROVE  Copying(text, <<>>, text)
<1>1. Len(text) \in Nat /\ 0 \in 0 .. Len(text) /\ 0 + 1 = 1
  BY LenProperties
<1>2. SubSeq(text, 1, Len(text)) = text
  BY SubSeqFull
<1>3. SubSeq(text, 1, 0) = <<>>
  BY SubSeqEmpty
<1>4. text = SubSeq(text, 0 + 1, Len(text)) /\ <<>> = SubSeq(text, 1, 0)
  BY <1>1, <1>2, <1>3
<1>5. QED
  BY <1>1, <1>4, Zenon DEF Copying

(* A byte that is copied keeps it so.                                      *)
LEMMA CopyingSteps ==
  ASSUME NEW text \in Seq(Nat), NEW content, NEW rest, Copying(text, content, rest),
         rest # <<>>
  PROVE  Copying(text, Append(content, Head(rest)), Tail(rest))
<1>1. PICK p \in 0 .. Len(text) :
        rest = SubSeq(text, p + 1, Len(text)) /\ content = SubSeq(text, 1, p)
  BY Zenon DEF Copying
<1>2. Len(text) \in Nat
  BY LenProperties
<1>3. p \in Nat /\ p < Len(text)
  <2>1. p \in Nat
    BY <1>2
  <2>2. ~(p >= Len(text))
    BY <1>1, <2>1, TakeOne
  <2>3. QED
    BY <1>2, <2>1, <2>2
<1>4. Head(rest) = text[p + 1] /\ Tail(rest) = SubSeq(text, (p + 1) + 1, Len(text))
  BY <1>1, <1>3, TakeOne
<1>5. Append(content, Head(rest)) = SubSeq(text, 1, p + 1)
  BY <1>1, <1>3, <1>4, GrowOne
<1>6. p + 1 \in 0 .. Len(text)
  BY <1>2, <1>3
<1>7. QED
  BY <1>4, <1>5, <1>6, Zenon DEF Copying

(* What was copied is a prefix, and all when nothing is still to come.     *)
LEMMA CopyingMeans ==
  ASSUME NEW text \in Seq(Nat), NEW content, NEW rest, Copying(text, content, rest)
  PROVE  Download!IsPrefix(content, text) /\ (rest = <<>> => content = text)
<1>1. PICK p \in 0 .. Len(text) :
        rest = SubSeq(text, p + 1, Len(text)) /\ content = SubSeq(text, 1, p)
  BY Zenon DEF Copying
<1>2. Len(text) \in Nat /\ p \in Nat /\ p <= Len(text)
  BY LenProperties
<1>3. Download!IsPrefix(content, text)
  BY <1>1, <1>2, BeginningIsPrefix
<1>4. ASSUME rest = <<>> PROVE content = text
  <2>1. p = Len(text)
    <3>1. SubSeq(text, p + 1, Len(text)) = <<>>
      BY <1>1, <1>4
    <3>2. p >= Len(text)
      BY <1>2, <3>1, TakeOne
    <3>3. QED
      BY <1>2, <3>2
  <2>2. QED
    BY <1>1, <2>1, SubSeqFull
<1>5. QED
  BY <1>3, <1>4

(* The blocks of a body in chunks: one for each chunk, and an empty one.   *)
LEMMA BlocksAre ==
  ASSUME NEW chunks \in Seq(Seq(Nat))
  PROVE  /\ Len(chunks) \in Nat
         /\ Blocks(chunks) \in Seq(Seq(Nat)) /\ Len(Blocks(chunks)) = Len(chunks) + 1
         /\ Download!Encoded(chunks) = Download!FlattenSeq(Blocks(chunks))
         /\ \A i \in 1 .. Len(chunks) + 1 :
              /\ Sizes(chunks)[i] \in Seq(Nat)
              /\ Blocks(chunks)[i] = Download!Block(Sizes(chunks)[i])
         /\ \A i \in 1 .. Len(chunks) : Sizes(chunks)[i] = chunks[i]
         /\ Sizes(chunks)[Len(chunks) + 1] = <<>>
<1> DEFINE all == Sizes(chunks)
           n == Len(chunks)
<1>1. n \in Nat /\ \A i \in 1 .. n : chunks[i] \in Seq(Nat)
  BY ElementOfSeq
<1>2. <<>> \in Seq(Nat)
  OBVIOUS
<1>3. /\ all \in Seq(Seq(Nat)) /\ Len(all) = n + 1 /\ all[n + 1] = <<>>
      /\ \A i \in 1 .. n : all[i] = chunks[i]
  BY <1>2, AppendProperties DEF Sizes
<1> HIDE DEF all
<1>4. DOMAIN all = 1 .. n + 1
  BY <1>3, LenProperties
<1>5. \A i \in 1 .. n + 1 : all[i] \in Seq(Nat)
  BY <1>3, ElementOfSeq
<1>6. \A i \in 1 .. n + 1 : Download!Block(all[i]) \in Seq(Nat)
  BY <1>5, BlockBytes
<1> DEFINE blocks == [i \in 1 .. n + 1 |-> Download!Block(all[i])]
<1>7. blocks \in Seq(Seq(Nat)) /\ Len(blocks) = n + 1
  <2>1. n + 1 \in Nat
    BY <1>1
  <2>2. blocks \in Seq(Seq(Nat))
    BY <1>6, <2>1, IsASeq
  <2>3. QED
    BY <2>1, <2>2
<1>8. Blocks(chunks) = blocks
  BY <1>4 DEF Blocks, all
<1>9. Download!Encoded(chunks) = Download!FlattenSeq(Blocks(chunks))
  BY Zenon DEF Download!Encoded, Blocks, Sizes
<1>10. QED
  BY <1>1, <1>3, <1>5, <1>7, <1>8, <1>9 DEF all

(* A download in chunks begins at the size of the first.                   *)
LEMMA DecodingStarts ==
  ASSUME NEW chunks \in Seq(Seq(Nat))
  PROVE  Decoding(chunks, InChunks(<<>>, 0, <<>>), Download!Encoded(chunks))
<1> DEFINE c == Sizes(chunks)[1]
           text == Download!Encoded(chunks)
           sent == Download!FlattenSeq(chunks)
<1>1. /\ Len(chunks) \in Nat /\ 1 \in 1 .. Len(chunks) + 1 /\ c \in Seq(Nat)
      /\ Blocks(chunks) \in Seq(Seq(Nat)) /\ text = Download!FlattenSeq(Blocks(chunks))
  BY BlocksAre
<1>2. Wide16(c) \in Nat /\ 0 < Len(Download!Block(c)) /\ 0 \in 0 .. Wide16(c)
  <2> HIDE DEF c
  <2>1. /\ Wide16(c) \in Nat /\ Len(c) \in Nat
        /\ Len(Download!Block(c)) = Wide16(c) + Len(c) + 4
    BY <1>1, BlockBytes
  <2>2. QED
    BY <2>1
<1>3. SubSeq(Digits(c), 1, 0) = <<>>
  BY SubSeqEmpty
<1>4. Writing(c, 0, 0, <<>>)
  BY <1>2, <1>3 DEF Writing
<1>5. Got(c, 0) = 0
  BY <1>2 DEF Got
<1>6. Reach(Blocks(chunks), 0) = 0 /\ Reach(chunks, 0) = 0 /\ text \in Seq(Nat)
  BY <1>1, ReachAt DEF Spans
<1> HIDE DEF c, text, sent
<1>7. text = SubSeq(text, (Reach(Blocks(chunks), 1 - 1) + 0) + 1, Len(text))
  <2>1. SubSeq(text, 1, Len(text)) = text
    BY <1>6, SubSeqFull
  <2>2. 1 - 1 = 0 /\ (0 + 0) + 1 = 1
    OBVIOUS
  <2>3. QED
    BY <1>6, <2>1, <2>2
<1>8. <<>> = SubSeq(sent, 1, Reach(chunks, 1 - 1) + Got(c, 0))
  <2>1. Reach(chunks, 1 - 1) + Got(c, 0) = 0
    BY <1>5, <1>6
  <2>2. SubSeq(sent, 1, 0) = <<>>
    BY SubSeqEmpty
  <2>3. QED
    BY <2>1, <2>2
<1>9. InChunks(<<>>, 0, <<>>)
      = InChunks(SubSeq(sent, 1, Reach(chunks, 1 - 1) + Got(c, 0)), 0, <<>>)
  BY <1>8
<1>10. 0 \in Nat
  OBVIOUS
<1>11. QED
  BY <1>1, <1>2, <1>4, <1>7, <1>9, <1>10, Zenon DEF Decoding, DecodingAt, c, text, sent

(* What was decoded is a prefix of the chunks, and all of them when        *)
(* nothing is still to come.                                               *)
LEMMA DecodingMeans ==
  ASSUME NEW chunks \in Seq(Seq(Nat)), NEW w, NEW rest, Decoding(chunks, w, rest)
  PROVE  /\ Download!IsPrefix(w.content, Download!FlattenSeq(chunks))
         /\ rest = <<>> => w.content = Download!FlattenSeq(chunks)
<1> DEFINE text == Download!Encoded(chunks)
           sent == Download!FlattenSeq(chunks)
           blocks == Blocks(chunks)
           N == Len(chunks)
<1>0. PICK i \in 1 .. Len(chunks) + 1, o \in Nat : DecodingAt(chunks, w, rest, i, o)
  BY Zenon DEF Decoding
<1>1. PICK n, s :
        LET c == Sizes(chunks)[i] IN
        /\ o < Len(Download!Block(c)) \/ (o = Len(Download!Block(c)) /\ i = Len(chunks) + 1)
        /\ Writing(c, o, n, s)
        /\ rest = SubSeq(text, (Reach(Blocks(chunks), i - 1) + o) + 1, Len(text))
        /\ w = InChunks(SubSeq(sent, 1, Reach(chunks, i - 1) + Got(c, o)), n, s)
  BY <1>0, Zenon DEF DecodingAt
<1> DEFINE c == Sizes(chunks)[i]
           q == Reach(chunks, i - 1) + Got(c, o)
<1>2. /\ N \in Nat /\ c \in Seq(Nat) /\ blocks \in Seq(Seq(Nat)) /\ Len(blocks) = N + 1
      /\ text = Download!FlattenSeq(blocks) /\ blocks[i] = Download!Block(c)
      /\ (i <= N => c = chunks[i]) /\ (i = N + 1 => c = <<>>)
  <2>1. i \in 1 .. N + 1
    OBVIOUS
  <2>2. /\ N \in Nat /\ blocks \in Seq(Seq(Nat)) /\ Len(blocks) = N + 1
        /\ text = Download!FlattenSeq(blocks)
        /\ Sizes(chunks)[N + 1] = <<>>
    BY BlocksAre
  <2>3. c \in Seq(Nat) /\ blocks[i] = Download!Block(c)
    BY <2>1, BlocksAre
  <2>4. i <= N => c = chunks[i]
    <3>1. i <= N => i \in 1 .. N
      BY <2>1, <2>2
    <3>2. QED
      BY <3>1, BlocksAre
  <2> HIDE DEF blocks, text
  <2>5. QED
    BY <2>1, <2>2, <2>3, <2>4
<1>3. /\ Wide16(c) \in Nat /\ Len(c) \in Nat /\ Len(Download!Block(c)) = Wide16(c) + Len(c) + 4
  BY <1>2, BlockBytes
<1>4. Got(c, o) \in Nat /\ Got(c, o) <= Len(c)
      /\ (o = Wide16(c) + Len(c) + 4 => Got(c, o) = Len(c))
  BY <1>3, SMTT(30) DEF Got
<1> HIDE DEF c, blocks, text, sent, N
<1>5. /\ sent \in Seq(Nat) /\ Len(sent) = Reach(chunks, N)
      /\ \A j \in 0 .. N : Reach(chunks, j) \in Nat /\ Reach(chunks, j) <= Len(sent)
      /\ \A j \in 1 .. N : Reach(chunks, j) = Reach(chunks, j - 1) + Len(chunks[j])
  BY ReachAt DEF Spans, sent, N
<1>6. /\ text \in Seq(Nat) /\ Len(text) = Reach(blocks, N + 1)
      /\ \A j \in 0 .. N + 1 : Reach(blocks, j) \in Nat /\ Reach(blocks, j) <= Len(text)
      /\ \A j \in 1 .. N + 1 : Reach(blocks, j) = Reach(blocks, j - 1) + Len(blocks[j])
  BY <1>2, ReachAt DEF Spans
<1>7. i \in 1 .. N + 1 /\ i - 1 \in 0 .. N /\ i - 1 \in 0 .. N + 1 /\ i \in 0 .. N + 1
      /\ (i <= N => i \in 0 .. N /\ i \in 1 .. N)
  BY <1>2 DEF N
<1>8. q \in Nat /\ q <= Len(sent)
  <2>1. Reach(chunks, i - 1) \in Nat /\ Reach(chunks, i - 1) <= Len(sent)
    BY <1>5, <1>7
  <2>2. Len(sent) \in Nat
    BY <1>5, LenProperties
  <2>3. CASE i <= N
    <3>1. Reach(chunks, i) = Reach(chunks, i - 1) + Len(c) /\ Reach(chunks, i) <= Len(sent)
      BY <1>2, <1>5, <1>7, <2>3
    <3>2. QED
      BY <1>3, <1>4, <2>1, <2>2, <3>1, SMTT(30)
  <2>4. CASE ~(i <= N)
    <3>1. i = N + 1
      BY <1>2, <1>7, <2>4
    <3>2. Len(c) = 0
      BY <1>2, <3>1
    <3>3. QED
      BY <1>3, <1>4, <2>1, <2>2, <3>2
  <2>5. QED
    BY <2>3, <2>4
<1> HIDE DEF q
<1>9. w.content = SubSeq(sent, 1, q)
  BY <1>1 DEF InChunks, q, c
<1>10. Download!IsPrefix(w.content, sent)
  BY <1>5, <1>8, <1>9, BeginningIsPrefix
<1>11. ASSUME rest = <<>> PROVE w.content = sent
  <2> DEFINE p == Reach(blocks, i - 1) + o
  <2>1. rest = SubSeq(text, p + 1, Len(text))
    BY <1>1 DEF blocks
  <2>2. /\ Reach(blocks, i - 1) \in Nat /\ Reach(blocks, i) \in Nat
        /\ Reach(blocks, i) <= Len(text)
        /\ Reach(blocks, i) = Reach(blocks, i - 1) + Wide16(c) + Len(c) + 4
    <3>1. /\ Reach(blocks, i - 1) \in Nat /\ Reach(blocks, i) \in Nat
          /\ Reach(blocks, i) <= Len(text)
      BY <1>6, <1>7
    <3>2. Reach(blocks, i) = Reach(blocks, i - 1) + Len(Download!Block(c))
      BY <1>2, <1>6, <1>7
    <3>3. QED
      BY <1>3, <3>1, <3>2
  <2>3. p \in Nat
    BY <2>2
  <2> HIDE DEF p
  <2>4. p >= Len(text)
    BY <1>6, <1>11, <2>1, <2>3, TakeOne
  <2>5. Len(text) \in Nat
    BY <1>6, LenProperties
  <2>6. ~(o < Wide16(c) + Len(c) + 4)
    BY <1>3, <2>2, <2>4, <2>5, SMTT(30) DEF p
  <2>7. o = Wide16(c) + Len(c) + 4 /\ i = N + 1
    BY <1>1, <1>3, <2>6 DEF c, N
  <2>8. i - 1 = N /\ Len(c) = 0
    BY <1>2, <2>7
  <2>9. q = Len(sent)
    BY <1>4, <1>5, <1>7, <2>7, <2>8 DEF q
  <2>10. QED
    BY <1>5, <1>9, <2>9, SubSeqFull
<1>12. QED
  BY <1>10, <1>11 DEF sent

(* A byte is decoded: of the same chunk, or it was its last and the next   *)
(* chunk begins.                                                           *)
LEMMA DecodingSteps ==
  ASSUME NEW chunks \in Seq(Seq(Nat)), NEW w, NEW rest, Decoding(chunks, w, rest), rest # <<>>
  PROVE  Decoding(chunks, Download!print(w, Head(rest)), Tail(rest))
<1> DEFINE text == Download!Encoded(chunks)
           sent == Download!FlattenSeq(chunks)
           blocks == Blocks(chunks)
           N == Len(chunks)
           next == Download!print(w, Head(rest))
<1>0. PICK i \in 1 .. Len(chunks) + 1, o \in Nat : DecodingAt(chunks, w, rest, i, o)
  BY Zenon DEF Decoding
<1>1. PICK n, s :
        LET c == Sizes(chunks)[i] IN
        /\ o < Len(Download!Block(c)) \/ (o = Len(Download!Block(c)) /\ i = Len(chunks) + 1)
        /\ Writing(c, o, n, s)
        /\ rest = SubSeq(text, (Reach(Blocks(chunks), i - 1) + o) + 1, Len(text))
        /\ w = InChunks(SubSeq(sent, 1, Reach(chunks, i - 1) + Got(c, o)), n, s)
  BY <1>0, Zenon DEF DecodingAt
<1> DEFINE c == Sizes(chunks)[i]
           block == Download!Block(c)
           before == Reach(blocks, i - 1)
           p == before + o
           kept == Reach(chunks, i - 1)
           q == kept + Got(c, o)
           content == SubSeq(sent, 1, q)
<1>2. /\ N \in Nat /\ c \in Seq(Nat) /\ blocks \in Seq(Seq(Nat)) /\ Len(blocks) = N + 1
      /\ text = Download!FlattenSeq(blocks) /\ blocks[i] = block
      /\ (i <= N => c = chunks[i]) /\ (i = N + 1 => c = <<>>)
      /\ i \in 1 .. N + 1
  <2>1. i \in 1 .. N + 1
    OBVIOUS
  <2>2. /\ N \in Nat /\ blocks \in Seq(Seq(Nat)) /\ Len(blocks) = N + 1
        /\ text = Download!FlattenSeq(blocks)
        /\ Sizes(chunks)[N + 1] = <<>>
    BY BlocksAre
  <2>3. c \in Seq(Nat) /\ blocks[i] = Download!Block(c)
    BY <2>1, BlocksAre
  <2>4. i <= N => c = chunks[i]
    <3>1. i <= N => i \in 1 .. N
      BY <2>1, <2>2
    <3>2. QED
      BY <3>1, BlocksAre
  <2> HIDE DEF blocks, text
  <2>5. QED
    BY <2>1, <2>2, <2>3, <2>4
<1>3. /\ block \in Seq(Nat) /\ Wide16(c) \in Nat /\ Len(c) \in Nat
      /\ Len(block) = Wide16(c) + Len(c) + 4
  BY <1>2, BlockBytes
<1>4. Got(c, o) \in Nat
  BY <1>3 DEF Got
<1>5. /\ o < Len(block) \/ (o = Len(block) /\ i = N + 1)
      /\ Writing(c, o, n, s) /\ rest = SubSeq(text, p + 1, Len(text))
      /\ w = InChunks(content, n, s)
  BY <1>1, Zenon DEF c, block, text, sent, blocks, N, before, p, kept, q, content
<1> HIDE DEF c, blocks, text, sent, N, block
<1>6. /\ sent \in Seq(Nat) /\ Len(sent) = Reach(chunks, N) /\ Reach(chunks, 0) = 0
      /\ \A j \in 0 .. N : Reach(chunks, j) \in Nat /\ Reach(chunks, j) <= Len(sent)
      /\ \A j \in 1 .. N : Reach(chunks, j) = Reach(chunks, j - 1) + Len(chunks[j])
      /\ \A j \in 1 .. N : \A k \in 1 .. Len(chunks[j]) :
           sent[Reach(chunks, j - 1) + k] = chunks[j][k]
  BY ReachAt DEF Spans, sent, N
<1>7. /\ text \in Seq(Nat) /\ Len(text) = Reach(blocks, N + 1) /\ Len(text) \in Nat
      /\ \A j \in 0 .. N + 1 : Reach(blocks, j) \in Nat /\ Reach(blocks, j) <= Len(text)
      /\ \A j \in 1 .. N + 1 : Reach(blocks, j) = Reach(blocks, j - 1) + Len(blocks[j])
      /\ \A j \in 1 .. N + 1 : \A k \in 1 .. Len(blocks[j]) :
           text[Reach(blocks, j - 1) + k] = blocks[j][k]
  <2>1. blocks \in Seq(Seq(Nat)) /\ text = Download!FlattenSeq(blocks)
    BY <1>2
  <2>2. /\ text \in Seq(Nat) /\ Len(text) = Reach(blocks, Len(blocks))
        /\ \A j \in 0 .. Len(blocks) :
             Reach(blocks, j) \in Nat /\ Reach(blocks, j) <= Len(text)
        /\ \A j \in 1 .. Len(blocks) :
             /\ Reach(blocks, j) = Reach(blocks, j - 1) + Len(blocks[j])
             /\ \A k \in 1 .. Len(blocks[j]) : text[Reach(blocks, j - 1) + k] = blocks[j][k]
    BY <2>1, ReachAt DEF Spans
  <2>3. Len(text) \in Nat
    BY <2>2, LenProperties
  <2>4. Len(blocks) = N + 1
    BY <1>2
  <2>5. QED
    BY <2>2, <2>3, <2>4
<1>8. /\ i - 1 \in 0 .. N /\ i - 1 \in 0 .. N + 1 /\ i \in 0 .. N + 1
      /\ (i <= N => i \in 0 .. N /\ i \in 1 .. N)
  BY <1>2
<1>9. /\ before \in Nat /\ Reach(blocks, i) = before + Len(block)
      /\ Reach(blocks, i) <= Len(text)
      /\ kept \in Nat
  BY <1>2, <1>6, <1>7, <1>8
<1>10. \A k \in 1 .. Len(block) : text[before + k] = block[k]
  BY <1>2, <1>7
<1>11. i <= N => Reach(chunks, i) = kept + Len(c) /\ Reach(chunks, i) <= Len(sent)
  BY <1>2, <1>6, <1>8
<1>12. i <= N => \A k \in 1 .. Len(c) : sent[kept + k] = c[k]
  BY <1>2, <1>6, <1>8
<1> HIDE DEF before, kept
<1>13. p \in Nat /\ q \in Nat /\ p < Len(text)
  <2>1. p \in Nat /\ q \in Nat
    BY <1>4, <1>9
  <2> HIDE DEF p
  <2>2. ~(p >= Len(text))
    BY <1>5, <1>7, <2>1, TakeOne
  <2>3. QED
    BY <1>7, <2>1, <2>2
<1>14. o < Len(block)
  <2>1. ASSUME o = Len(block), i = N + 1
        PROVE  FALSE
    <3>1. p = Len(text)
      BY <1>7, <1>9, <2>1
    <3>2. QED
      BY <1>7, <1>13, <3>1
  <2>2. QED
    BY <1>5, <2>1
<1>15. Head(rest) = block[o + 1] /\ Tail(rest) = SubSeq(text, (p + 1) + 1, Len(text))
  <2>1. o + 1 \in 1 .. Len(block) /\ before + (o + 1) = p + 1
    BY <1>3, <1>9, <1>14
  <2>2. text[before + (o + 1)] = block[o + 1]
    BY <1>10, <2>1
  <2> HIDE DEF p
  <2>3. Head(rest) = text[p + 1] /\ Tail(rest) = SubSeq(text, (p + 1) + 1, Len(text))
    BY <1>5, <1>7, <1>13, TakeOne
  <2>4. QED
    BY <2>1, <2>2, <2>3
<1> HIDE DEF content, q
<1>16. PICK m, t :
         /\ Writing(c, o + 1, m, t)
         /\ \/ /\ Got(c, o + 1) = Got(c, o)
               /\ Download!print(InChunks(content, n, s), block[o + 1]) =
                    InChunks(content, m, t)
            \/ /\ Got(c, o) + 1 = Got(c, o + 1) /\ Got(c, o) + 1 \in 1 .. Len(c)
               /\ Download!print(InChunks(content, n, s), block[o + 1]) =
                    InChunks(Append(content, c[Got(c, o) + 1]), m, t)
  <2>1. c \in Seq(Nat) /\ o < Len(Download!Block(c)) /\ Writing(c, o, n, s)
    BY <1>2, <1>5, <1>14 DEF block
  <2> HIDE DEF c, content
  <2>2. OneByte(c, o, content,
                Download!print(InChunks(content, n, s), Download!Block(c)[o + 1]))
    BY <2>1, WriteStep
  <2>3. OneByte(c, o, content, Download!print(InChunks(content, n, s), block[o + 1]))
    BY <2>2 DEF block
  <2>4. QED
    BY <2>3, Zenon DEF OneByte
<1>17. next = InChunks(SubSeq(sent, 1, kept + Got(c, o + 1)), m, t)
  <2>1. CASE /\ Got(c, o + 1) = Got(c, o)
             /\ Download!print(InChunks(content, n, s), block[o + 1]) = InChunks(content, m, t)
    BY <1>5, <1>15, <2>1 DEF content, q
  <2>2. CASE /\ Got(c, o) + 1 = Got(c, o + 1) /\ Got(c, o) + 1 \in 1 .. Len(c)
             /\ Download!print(InChunks(content, n, s), block[o + 1]) =
                  InChunks(Append(content, c[Got(c, o) + 1]), m, t)
    <3>1. i <= N
      <4>1. ASSUME ~(i <= N) PROVE FALSE
        <5>1. i = N + 1
          BY <1>2, <4>1
        <5>2. Len(c) = 0
          BY <1>2, <5>1
        <5>3. QED
          BY <2>2, <5>2
      <4>2. QED
        BY <4>1
    <3>2. kept + (Got(c, o) + 1) = q + 1 /\ q < Len(sent) /\ kept + Got(c, o + 1) = q + 1
      <4>1. Len(sent) \in Nat
        BY <1>6, LenProperties
      <4>2. Reach(chunks, i) = kept + Len(c) /\ Reach(chunks, i) <= Len(sent)
        BY <1>11, <3>1
      <4>3. QED
        <5> DEFINE g == Got(c, o)
        <5>1. g \in Nat /\ g + 1 <= Len(c) /\ Got(c, o + 1) = g + 1 /\ q = kept + g
          BY <1>3, <1>4, <2>2 DEF q
        <5> HIDE DEF g
        <5>2. kept + (g + 1) = q + 1 /\ q < Len(sent) /\ kept + Got(c, o + 1) = q + 1
          <6> DEFINE size == Len(c)
                     all == Len(sent)
          <6>1. size \in Nat /\ all \in Nat /\ kept \in Nat /\ kept + size <= all
                /\ g \in Nat /\ g + 1 <= size /\ q = kept + g
            BY <1>3, <1>9, <4>1, <4>2, <5>1
          <6> HIDE DEF size, all
          <6>2. kept + (g + 1) = q + 1 /\ q < all
            BY <6>1
          <6>3. QED
            BY <5>1, <6>2 DEF all
        <5>3. QED
          BY <5>2 DEF g
    <3>3. sent[q + 1] = c[Got(c, o) + 1]
      BY <1>12, <2>2, <3>1, <3>2
    <3>4. Append(content, c[Got(c, o) + 1]) = SubSeq(sent, 1, q + 1)
      BY <1>6, <1>13, <3>2, <3>3, GrowOne DEF content
    <3>5. QED
      BY <1>5, <1>15, <2>2, <3>2, <3>4
  <2>3. QED
    BY <1>16, <2>1, <2>2
<1>18. CASE o + 1 < Len(block) \/ i = N + 1
  <2>1. o + 1 \in Nat /\ (o + 1 < Len(block) \/ (o + 1 = Len(block) /\ i = N + 1))
    BY <1>3, <1>14, <1>18
  <2>2. Tail(rest) = SubSeq(text, (before + (o + 1)) + 1, Len(text))
    <3>1. before + (o + 1) = p + 1
      BY <1>9
    <3>2. QED
      BY <1>15, <3>1
  <2>3. i \in 1 .. Len(chunks) + 1
    OBVIOUS
  <2> HIDE DEF next
  <2>4. Decoding(chunks, next, Tail(rest))
    BY <1>16, <1>17, <2>1, <2>2, <2>3, Zenon
       DEF Decoding, DecodingAt, c, block, text, sent, blocks, N, before, kept
  <2>5. QED
    BY <2>4 DEF next
<1>19. CASE ~(o + 1 < Len(block) \/ i = N + 1)
  <2> DEFINE d == Sizes(chunks)[i + 1]
  <2>1. o + 1 = Len(block) /\ i <= N /\ i + 1 \in 1 .. N + 1 /\ (i + 1) - 1 = i
    BY <1>2, <1>3, <1>14, <1>19
  <2>2. d \in Seq(Nat)
    BY <2>1, BlocksAre DEF N
  <2> HIDE DEF d
  <2>3. /\ Wide16(d) \in Nat /\ Len(d) \in Nat
        /\ Len(Download!Block(d)) = Wide16(d) + Len(d) + 4
    BY <2>2, BlockBytes
  <2>4. 0 \in Nat /\ 0 < Len(Download!Block(d)) /\ 0 \in 0 .. Wide16(d)
    BY <2>3
  <2>5. m = 0 /\ t = <<>> /\ Got(c, o + 1) = Len(c)
    <3>1. o + 1 = Wide16(c) + Len(c) + 4
      BY <1>3, <2>1
    <3> DEFINE e == o + 1
    <3>2. e = Wide16(c) + Len(c) + 4 /\ Writing(c, e, m, t)
      BY <1>16, <3>1
    <3> HIDE DEF e
    <3>3. m = 0 /\ t = <<>>
      <4> DEFINE d16 == Wide16(c)
                 k == Len(c)
      <4>1. /\ ~(e \in 0 .. d16) /\ e # d16 + 1 /\ ~(e \in d16 + 2 .. d16 + 2 + k)
            /\ e # d16 + k + 3
        <5>1. d16 \in Nat /\ k \in Nat /\ e = d16 + k + 4
          BY <1>3, <3>2
        <5> HIDE DEF d16, k
        <5>2. QED
          BY <5>1
      <4>2. QED
        BY <3>2, <4>1, Zenon DEF Writing
    <3>4. Got(c, e) = Len(c)
      BY <1>3, <3>2 DEF Got
    <3>5. QED
      BY <3>3, <3>4 DEF e
  <2>6. SubSeq(Digits(d), 1, 0) = <<>>
    BY SubSeqEmpty
  <2>7. Writing(d, 0, m, t)
    BY <2>4, <2>5, <2>6 DEF Writing
  <2>8. Got(d, 0) = 0
    BY <2>3 DEF Got
  <2>9. next = InChunks(SubSeq(sent, 1, Reach(chunks, (i + 1) - 1) + Got(d, 0)), m, t)
    <3>1. Reach(chunks, (i + 1) - 1) + Got(d, 0) = kept + Len(c)
      BY <1>3, <1>9, <1>11, <2>1, <2>8
    <3>2. QED
      BY <1>17, <2>5, <3>1
  <2>10. Tail(rest) = SubSeq(text, (Reach(blocks, (i + 1) - 1) + 0) + 1, Len(text))
    <3>1. Reach(blocks, (i + 1) - 1) + 0 = p + 1
      BY <1>3, <1>9, <2>1
    <3>2. QED
      BY <1>15, <3>1
  <2> HIDE DEF next
  <2>11. Decoding(chunks, next, Tail(rest))
    BY <2>1, <2>4, <2>7, <2>9, <2>10, Zenon DEF Decoding, DecodingAt, d, text, sent, blocks, N
  <2>12. QED
    BY <2>11 DEF next
<1>20. QED
  BY <1>18, <1>19

-----------------------------------------------------------------------------
(* Downloader: a download                                                  *)

downloadVars == <<pc, url, visitedURLs, response, wire, writer, held, asked>>

(* What the answer r sends after a header that came too late               *)
LateText(r) == Download!LineEnd \o Download!LineEnd \o Download!Body(r)

(* What was read of the answer r, when rest is still to come               *)
WasRead(r, w, rest) ==
  \/ \E content : w = AsLate(content) /\ Copying(LateText(r), content, rest)
  \/ /\ r.status = 2 /\ r.html
     /\ r.chunked /\ Decoding(r.chunks, w, rest)
  \/ /\ r.status = 2 /\ r.html /\ ~r.chunked
     /\ \E content : /\ w = AsSent(content)
                     /\ Copying(Download!FlattenSeq(r.chunks), content, rest)

(* The bytes of an answer                                                  *)
LEMMA Texts ==
  ASSUME NEW r \in Responses
  PROVE  /\ r.chunks \in Seq(Seq(Nat)) /\ r.chunked \in BOOLEAN
         /\ Download!FlattenSeq(r.chunks) \in Seq(Nat)
         /\ Download!Body(r) \in Seq(Nat) /\ LateText(r) \in Seq(Nat)
<1>1. r.chunks \in Seq(Seq(Nat)) /\ r.chunked \in BOOLEAN
  BY DownloadAssumption
<1>2. Download!FlattenSeq(r.chunks) \in Seq(Nat)
  BY <1>1, ReachAt DEF Spans
<1>3. Blocks(r.chunks) \in Seq(Seq(Nat))
      /\ Download!Encoded(r.chunks) = Download!FlattenSeq(Blocks(r.chunks))
  BY <1>1, BlocksAre
<1>4. Download!Encoded(r.chunks) \in Seq(Nat)
  BY <1>3, ReachAt DEF Spans
<1>5. Download!Body(r) \in Seq(Nat)
  BY <1>2, <1>4 DEF Download!Body
<1>6. Download!LineEnd \in Seq(Nat)
  BY DownloadAssumption DEF Download!LineEnd
<1>7. LateText(r) \in Seq(Nat)
  <2>1. Download!LineEnd \o Download!LineEnd \in Seq(Nat)
    BY <1>6, ConcatProperties
  <2>2. QED
    BY <1>5, <2>1, ConcatProperties DEF LateText
<1>8. QED
  BY <1>1, <1>2, <1>5, <1>7

(* Whatever was read is the beginning of what was sent.                    *)
LEMMA ReadsMeans ==
  ASSUME NEW r \in Responses, NEW w, NEW rest, WasRead(r, w, rest)
  PROVE  IF w.late THEN Download!IsPrefix(w.content, LateText(r))
         ELSE /\ Download!IsPrefix(w.content, Download!FlattenSeq(r.chunks))
              /\ rest = <<>> => w.content = Download!FlattenSeq(r.chunks)
              /\ r.status = 2 /\ r.html
<1> DEFINE sent == Download!FlattenSeq(r.chunks)
<1>1. /\ r.chunks \in Seq(Seq(Nat)) /\ r.chunked \in BOOLEAN
      /\ sent \in Seq(Nat) /\ LateText(r) \in Seq(Nat)
  BY Texts
<1> HIDE DEF sent
<1>2. CASE \E content : w = AsLate(content) /\ Copying(LateText(r), content, rest)
  <2>1. PICK content : w = AsLate(content) /\ Copying(LateText(r), content, rest)
    BY <1>2
  <2>2. Download!IsPrefix(content, LateText(r))
    BY <1>1, <2>1, CopyingMeans
  <2>3. w.late /\ w.content = content
    BY <2>1 DEF AsLate
  <2>4. QED
    BY <2>2, <2>3
<1>3. CASE r.status = 2 /\ r.html /\ r.chunked /\ Decoding(r.chunks, w, rest)
  <2>1. Download!IsPrefix(w.content, sent) /\ (rest = <<>> => w.content = sent)
    BY <1>1, <1>3, DecodingMeans DEF sent
  <2>2. PICK content, n, s : w = InChunks(content, n, s)
    BY <1>3, Zenon DEF Decoding, DecodingAt
  <2>3. ~w.late
    BY <2>2 DEF InChunks
  <2>4. QED
    BY <1>3, <2>1, <2>3 DEF sent
<1>4. CASE /\ r.status = 2 /\ r.html /\ ~r.chunked
           /\ \E content : w = AsSent(content) /\ Copying(sent, content, rest)
  <2>1. PICK content : w = AsSent(content) /\ Copying(sent, content, rest)
    BY <1>4
  <2>2. Download!IsPrefix(content, sent) /\ (rest = <<>> => content = sent)
    BY <1>1, <2>1, CopyingMeans
  <2>3. ~w.late /\ w.content = content
    BY <2>1 DEF AsSent
  <2>4. QED
    BY <1>4, <2>2, <2>3 DEF sent
<1>5. QED
  BY <1>2, <1>3, <1>4 DEF WasRead, sent

(* One more byte is read.                                                  *)
LEMMA ReadsStep ==
  ASSUME NEW r \in Responses, NEW w, NEW rest, WasRead(r, w, rest), rest # <<>>
  PROVE  WasRead(r, Download!print(w, Head(rest)), Tail(rest))
<1> DEFINE sent == Download!FlattenSeq(r.chunks)
           b == Head(rest)
<1>1. /\ r.chunks \in Seq(Seq(Nat)) /\ r.chunked \in BOOLEAN
      /\ sent \in Seq(Nat) /\ LateText(r) \in Seq(Nat)
  BY Texts
<1> HIDE DEF sent
<1>2. CASE \E content : w = AsLate(content) /\ Copying(LateText(r), content, rest)
  <2>1. PICK content : w = AsLate(content) /\ Copying(LateText(r), content, rest)
    BY <1>2
  <2>2. Copying(LateText(r), Append(content, b), Tail(rest))
    BY <1>1, <2>1, CopyingSteps
  <2>3. Download!print(w, b) = AsLate(Append(content, b))
    BY <2>1, PrintPlain
  <2>4. QED
    BY <2>2, <2>3, Zenon DEF WasRead, b
<1>3. CASE r.status = 2 /\ r.html /\ r.chunked /\ Decoding(r.chunks, w, rest)
  <2>1. Decoding(r.chunks, Download!print(w, Head(rest)), Tail(rest))
    BY <1>1, <1>3, DecodingSteps
  <2>2. QED
    BY <1>3, <2>1, Zenon DEF WasRead
<1>4. CASE /\ r.status = 2 /\ r.html /\ ~r.chunked
           /\ \E content : w = AsSent(content) /\ Copying(sent, content, rest)
  <2>1. PICK content : w = AsSent(content) /\ Copying(sent, content, rest)
    BY <1>4
  <2>2. Copying(sent, Append(content, b), Tail(rest))
    BY <1>1, <2>1, CopyingSteps
  <2>3. Download!print(w, b) = AsSent(Append(content, b))
    BY <2>1, PrintPlain
  <2>4. QED
    BY <1>4, <2>2, <2>3, Zenon DEF WasRead, b, sent
<1>5. QED
  BY <1>2, <1>3, <1>4 DEF WasRead, sent

Asking == pc \in {"connect", "connecting", "ssl", "write"}

(* The URLs that were asked for are visited, each was asked for once, and  *)
(* the next one was not.                                                   *)
AskedOK ==
  /\ asked \in Seq(visitedURLs) /\ url \in visitedURLs
  /\ \A i, j \in DOMAIN asked : asked[i] = asked[j] => i = j
  /\ Asking => \A i \in DOMAIN asked : asked[i] # url

(* The content, at each place of the download                              *)
ContentOK ==
  /\ response \in Responses \cup {Download!NoResponse}
  /\ pc \in {"header", "body"} => response \in Responses
  /\ (Asking \/ pc = "header") => writer = AsSent(<<>>)
  /\ pc = "header" => wire = Download!Body(response)
  /\ pc = "body" => WasRead(response, writer, wire)

DownloadInv ==
  AskedOK /\ ContentOK /\ Download!ContentExact /\ Download!SocketsClosed

(* Nothing is the beginning of any answer.                                 *)
LEMMA NothingIsExact ==
  ASSUME NEW r \in Responses \cup {Download!NoResponse}
  PROVE  /\ Download!IsPrefix(AsSent(<<>>).content, Download!FlattenSeq(r.chunks))
         /\ AsSent(<<>>).content = <<>> /\ ~AsSent(<<>>).late
<1>1. r.chunks \in Seq(Seq(Nat))
  <2>1. CASE r \in Responses
    BY <2>1, DownloadAssumption
  <2>2. CASE r = Download!NoResponse
    <3>1. r.chunks = <<>>
      BY <2>2 DEF Download!NoResponse
    <3>2. QED
      BY <3>1
  <2>3. QED
    BY <2>1, <2>2
<1> DEFINE sent == Download!FlattenSeq(r.chunks)
<1>2. sent \in Seq(Nat)
  BY <1>1, ReachAt DEF Spans
<1> HIDE DEF sent
<1>3. Copying(sent, <<>>, sent)
  BY <1>2, CopyingStarts
<1>4. Download!IsPrefix(<<>>, sent)
  BY <1>2, <1>3, CopyingMeans
<1>5. AsSent(<<>>).content = <<>> /\ ~AsSent(<<>>).late
  BY DEF AsSent
<1>6. QED
  BY <1>4, <1>5 DEF sent

(* With nothing read the content is exact.                                 *)
LEMMA ExactWithNothing ==
  ASSUME response \in Responses \cup {Download!NoResponse}, writer = AsSent(<<>>), pc # "body"
  PROVE  Download!ContentExact
<1>1. /\ Download!IsPrefix(writer.content, Download!FlattenSeq(response.chunks))
      /\ writer.content = <<>> /\ ~writer.late
  BY NothingIsExact
<1>2. QED
  BY <1>1 DEF Download!ContentExact

(* At the start nothing was asked for.                                     *)
LEMMA DownloadInvInit ==
  ASSUME Download!Init
  PROVE  DownloadInv
<1>1. /\ pc = "connect" /\ url = Start /\ visitedURLs = {Start} /\ asked = <<>>
      /\ response = Download!NoResponse /\ writer = AsSent(<<>>)
  BY DEF Download!Init, Download!Writer, AsSent
<1>2. AskedOK
  <2>1. asked \in Seq(visitedURLs) /\ DOMAIN asked = {}
    BY <1>1
  <2>2. QED
    BY <1>1, <2>1 DEF AskedOK
<1>3. ContentOK
  BY <1>1 DEF ContentOK
<1>4. Download!ContentExact
  BY <1>1, ExactWithNothing
<1>5. Download!SocketsClosed
  BY <1>1 DEF Download!SocketsClosed, Download!Ended
<1>6. QED
  BY <1>2, <1>3, <1>4, <1>5 DEF DownloadInv

(* A step before the request: a connection is opened, or it failed.        *)
LEMMA ConnectingKeeps ==
  ASSUME DownloadInv, Asking, Download!Keep,
         Asking' \/ (pc' = "failed" /\ "socket" \notin held')
  PROVE  DownloadInv'
<1>1. /\ url' = url /\ visitedURLs' = visitedURLs /\ response' = response /\ wire' = wire
      /\ writer' = writer /\ asked' = asked
  BY DEF Download!Keep
<1>2. AskedOK'
  BY <1>1 DEF DownloadInv, AskedOK
<1>3. /\ response' \in Responses \cup {Download!NoResponse} /\ writer' = AsSent(<<>>)
      /\ pc' \notin {"header", "body", "done"}
  BY <1>1 DEF DownloadInv, ContentOK, Asking
<1>4. ContentOK'
  BY <1>3 DEF ContentOK
<1>5. Download!ContentExact'
  <2>1. /\ Download!IsPrefix(writer'.content, Download!FlattenSeq(response'.chunks))
        /\ writer'.content = <<>> /\ ~writer'.late
    BY <1>3, NothingIsExact
  <2>2. QED
    BY <1>3, <2>1 DEF Download!ContentExact
<1>6. Download!SocketsClosed'
  BY DEF Download!SocketsClosed, Download!Ended, Asking
<1>7. QED
  BY <1>2, <1>4, <1>5, <1>6 DEF DownloadInv

(* The socket is closed whatever is thrown.                                *)
LEMMA ThrowCloses ==
  ASSUME Download!Throw
  PROVE  pc' = "failed" /\ "socket" \notin held'
BY DEF Download!Throw, Download!Close

(* The request is sent, and the server chooses its answer.                 *)
LEMMA WriteKeeps ==
  ASSUME DownloadInv, Download!Write
  PROVE  DownloadInv'
<1>1. CASE Download!Throw /\ Download!Keep
  BY <1>1, ThrowCloses, ConnectingKeeps DEF Download!Write, Asking
<1>2. CASE \E r \in Responses :
             /\ response' = r
             /\ wire' = Download!Body(r)
             /\ writer' = Download!Writer(FALSE)
             /\ asked' = Append(asked, url)
             /\ pc' = "header" /\ UNCHANGED <<url, visitedURLs, held>>
  <2>1. /\ response' \in Responses /\ wire' = Download!Body(response')
        /\ writer' = AsSent(<<>>) /\ asked' = Append(asked, url) /\ pc' = "header"
        /\ url' = url /\ visitedURLs' = visitedURLs
    BY <1>2 DEF Download!Writer, AsSent
  <2>2. AskedOK'
    <3>1. /\ asked \in Seq(visitedURLs) /\ url \in visitedURLs
          /\ \A i, j \in DOMAIN asked : asked[i] = asked[j] => i = j
          /\ \A i \in DOMAIN asked : asked[i] # url
      BY DEF DownloadInv, AskedOK, Download!Write, Asking
    <3> DEFINE n == Len(asked)
               more == Append(asked, url)
    <3>2. /\ n \in Nat /\ more \in Seq(visitedURLs) /\ Len(more) = n + 1
          /\ \A i \in 1 .. n : more[i] = asked[i]
          /\ more[n + 1] = url /\ DOMAIN more = 1 .. n + 1 /\ DOMAIN asked = 1 .. n
      BY <3>1
    <3> HIDE DEF n, more
    <3>3. ASSUME NEW i \in DOMAIN more, NEW j \in DOMAIN more, more[i] = more[j]
          PROVE  i = j
      <4>1. (i \in 1 .. n \/ i = n + 1) /\ (j \in 1 .. n \/ j = n + 1)
        BY <3>2
      <4>2. QED
        BY <3>1, <3>2, <3>3, <4>1
    <3>4. asked' = more
      BY <2>1 DEF more
    <3>5. QED
      BY <2>1, <3>1, <3>2, <3>3, <3>4 DEF AskedOK, Asking
  <2>3. ContentOK'
    BY <2>1 DEF ContentOK, Asking
  <2>4. Download!ContentExact'
    <3>1. /\ Download!IsPrefix(writer'.content, Download!FlattenSeq(response'.chunks))
          /\ writer'.content = <<>> /\ ~writer'.late
      BY <2>1, NothingIsExact
    <3>2. QED
      BY <2>1, <3>1 DEF Download!ContentExact
  <2>5. Download!SocketsClosed'
    BY <2>1 DEF Download!SocketsClosed, Download!Ended
  <2>6. QED
    BY <2>2, <2>3, <2>4, <2>5 DEF DownloadInv
<1>3. QED
  BY <1>1, <1>2 DEF Download!Write

(* A step after the request that reads nothing: the next request, or the   *)
(* end of the download.                                                    *)
LEMMA AnswerKeeps ==
  ASSUME DownloadInv, pc = "header", UNCHANGED <<response, wire, writer, asked>>,
         url' \in visitedURLs', visitedURLs \subseteq visitedURLs',
         Asking' => url' \notin visitedURLs,
         Asking' \/ (pc' \in {"done", "failed"} /\ "socket" \notin held')
  PROVE  DownloadInv'
<1>1. /\ response \in Responses /\ writer = AsSent(<<>>)
      /\ response' = response /\ writer' = writer /\ asked' = asked
  BY DEF DownloadInv, ContentOK
<1>2. AskedOK'
  <2>1. /\ asked \in Seq(visitedURLs)
        /\ \A i, j \in DOMAIN asked : asked[i] = asked[j] => i = j
    BY DEF DownloadInv, AskedOK
  <2>2. /\ DOMAIN asked = 1 .. Len(asked) /\ Len(asked) \in Nat
        /\ \A i \in DOMAIN asked : asked[i] \in visitedURLs
    BY <2>1, ElementOfSeq, LenProperties
  <2>3. asked' \in Seq(visitedURLs')
    <3>1. asked \in [1 .. Len(asked) -> visitedURLs']
      BY <2>1, <2>2, LenProperties
    <3>2. asked \in Seq(visitedURLs')
      BY <2>2, <3>1, SeqDef
    <3>3. QED
      BY <1>1, <3>2
  <2>4. Asking' => \A i \in DOMAIN asked : asked[i] # url'
    BY <2>2
  <2>5. QED
    BY <1>1, <2>1, <2>3, <2>4 DEF AskedOK
<1>3. pc' \notin {"header", "body"}
  BY DEF Asking
<1>4. ContentOK'
  BY <1>1, <1>3 DEF ContentOK
<1>5. Download!ContentExact'
  <2>1. /\ Download!IsPrefix(writer'.content, Download!FlattenSeq(response'.chunks))
        /\ writer'.content = <<>> /\ ~writer'.late
    BY <1>1, NothingIsExact
  <2>2. QED
    BY <1>3, <2>1 DEF Download!ContentExact
<1>6. Download!SocketsClosed'
  BY DEF Download!SocketsClosed, Download!Ended, Asking
<1>7. QED
  BY <1>2, <1>4, <1>5, <1>6 DEF DownloadInv

(* The body is read, or the end of it was.                                 *)
LEMMA BodyKeeps ==
  ASSUME DownloadInv, UNCHANGED <<url, visitedURLs, response, asked>>, response \in Responses,
         WasRead(response', writer', wire'),
         pc' = "body" \/ (pc' \in {"done", "failed"} /\ "socket" \notin held')
  PROVE  DownloadInv'
<1>1. pc' \in {"body", "done", "failed"} /\ response' \in Responses
  OBVIOUS
<1>2. AskedOK'
  BY <1>1 DEF DownloadInv, AskedOK, Asking
<1>3. ContentOK'
  BY <1>1 DEF ContentOK, Asking
<1>4. Download!ContentExact'
  <2>1. IF writer'.late THEN Download!IsPrefix(writer'.content, LateText(response'))
        ELSE /\ Download!IsPrefix(writer'.content, Download!FlattenSeq(response'.chunks))
             /\ wire' = <<>> => writer'.content = Download!FlattenSeq(response'.chunks)
             /\ response'.status = 2 /\ response'.html
    BY <1>1, ReadsMeans
  <2>2. QED
    BY <2>1 DEF Download!ContentExact, LateText
<1>5. Download!SocketsClosed'
  BY DEF Download!SocketsClosed, Download!Ended
<1>6. QED
  BY <1>2, <1>3, <1>4, <1>5 DEF DownloadInv

(* The header is understood, and its answer followed.                      *)
LEMMA HeaderKeeps ==
  ASSUME DownloadInv, Download!parseHeader
  PROVE  DownloadInv'
<1>1. /\ pc = "header" /\ UNCHANGED <<response, wire, asked>>
      /\ response \in Responses /\ wire = Download!Body(response) /\ writer = AsSent(<<>>)
      /\ url \in visitedURLs
  BY DEF Download!parseHeader, DownloadInv, ContentOK, AskedOK
<1>2. CASE /\ Download!Redirect(Download!addHost(response.location, url))
           /\ UNCHANGED writer
  <2> DEFINE target == Download!addHost(response.location, url)
  <2> HIDE DEF target
  <2>1. /\ url' = target /\ held' = {}
        /\ IF target \in visitedURLs THEN pc' = "failed" /\ visitedURLs' = visitedURLs
           ELSE pc' = "connect" /\ visitedURLs' = visitedURLs \cup {target}
    BY <1>2 DEF Download!Redirect, target
  <2>2. /\ url' \in visitedURLs' /\ visitedURLs \subseteq visitedURLs'
        /\ Asking' => url' \notin visitedURLs
        /\ Asking' \/ (pc' \in {"done", "failed"} /\ "socket" \notin held')
    BY <2>1 DEF Asking
  <2>3. QED
    BY <1>1, <1>2, <2>2, AnswerKeeps
<1>3. CASE Download!Throw /\ UNCHANGED <<url, visitedURLs, writer>>
  <2>1. pc' = "failed" /\ "socket" \notin held'
    BY <1>3, ThrowCloses
  <2>2. /\ url' \in visitedURLs' /\ visitedURLs \subseteq visitedURLs'
        /\ Asking' => url' \notin visitedURLs
        /\ Asking' \/ (pc' \in {"done", "failed"} /\ "socket" \notin held')
    BY <1>1, <1>3, <2>1 DEF Asking
  <2>3. QED
    BY <1>1, <1>3, <2>2, AnswerKeeps
<1>4. CASE /\ response.status = 2 /\ response.html
           /\ writer' = [writer EXCEPT !.chunked = response.chunked]
           /\ pc' = "body"
           /\ UNCHANGED <<url, visitedURLs, held>>
  <2>1. /\ response.chunks \in Seq(Seq(Nat)) /\ response.chunked \in BOOLEAN
        /\ Download!FlattenSeq(response.chunks) \in Seq(Nat)
    BY <1>1, Texts
  <2>2. WasRead(response, writer', wire)
    <3>1. CASE response.chunked
      <4>1. writer' = InChunks(<<>>, 0, <<>>)
        BY <1>1, <1>4, <2>1, <3>1 DEF AsSent, InChunks
      <4>2. wire = Download!Encoded(response.chunks)
        BY <1>1, <3>1 DEF Download!Body
      <4>3. Decoding(response.chunks, writer', wire)
        BY <2>1, <4>1, <4>2, DecodingStarts
      <4>4. QED
        BY <1>4, <3>1, <4>3, Zenon DEF WasRead
    <3>2. CASE ~response.chunked
      <4>1. writer' = AsSent(<<>>)
        BY <1>1, <1>4, <2>1, <3>2 DEF AsSent
      <4>2. wire = Download!FlattenSeq(response.chunks)
        BY <1>1, <3>2 DEF Download!Body
      <4>3. Copying(Download!FlattenSeq(response.chunks), <<>>, wire)
        BY <2>1, <4>2, CopyingStarts
      <4>4. QED
        BY <1>4, <3>2, <4>1, <4>3, Zenon DEF WasRead
    <3>3. QED
      BY <3>1, <3>2
  <2>3. WasRead(response', writer', wire')
    BY <1>1, <2>2
  <2>4. QED
    BY <1>1, <1>4, <2>3, BodyKeeps
<1>5. QED
  BY <1>2, <1>3, <1>4 DEF Download!parseHeader

(* The header pauses too long, and what is left of it is taken for a body. *)
LEMMA HeaderLateKeeps ==
  ASSUME DownloadInv, Download!HeaderLate
  PROVE  DownloadInv'
<1>1. /\ response \in Responses /\ wire = Download!Body(response) /\ writer = AsSent(<<>>)
  BY DEF Download!HeaderLate, DownloadInv, ContentOK
<1>2. /\ UNCHANGED <<url, visitedURLs, response, asked>> /\ pc' = "body"
      /\ writer' = [writer EXCEPT !.late = TRUE]
      /\ wire' = Download!LineEnd \o Download!LineEnd \o wire
  BY DEF Download!HeaderLate
<1>3. writer' = AsLate(<<>>)
  BY <1>1, <1>2 DEF AsSent, AsLate
<1>4. wire' = LateText(response)
  BY <1>1, <1>2 DEF LateText
<1>5. Copying(LateText(response), <<>>, wire')
  <2>1. LateText(response) \in Seq(Nat)
    BY <1>1, Texts
  <2>2. QED
    BY <1>4, <2>1, CopyingStarts
<1>6. WasRead(response, writer', wire')
  BY <1>3, <1>5, Zenon DEF WasRead
<1>7. WasRead(response', writer', wire')
  BY <1>2, <1>6
<1>8. QED
  BY <1>1, <1>2, <1>7, BodyKeeps

(* A byte of the body is read, and the size of the page tested.            *)
LEMMA ReadKeeps ==
  ASSUME DownloadInv, Download!Read
  PROVE  DownloadInv'
<1>1. /\ pc = "body" /\ wire # <<>> /\ UNCHANGED <<url, visitedURLs, response, asked>>
      /\ writer' = Download!print(writer, Head(wire)) /\ wire' = Tail(wire)
  BY DEF Download!Read
<1>2. response \in Responses /\ WasRead(response, writer, wire)
  BY <1>1 DEF DownloadInv, ContentOK
<1>3. WasRead(response, Download!print(writer, Head(wire)), Tail(wire))
  BY <1>1, <1>2, ReadsStep
<1>4. WasRead(response', writer', wire')
  BY <1>1, <1>3
<1>5. pc' = "body" \/ (pc' \in {"done", "failed"} /\ "socket" \notin held')
  <2>1. Download!Throw \/ pc' = pc
    BY DEF Download!Read
  <2>2. QED
    BY <1>1, <2>1, ThrowCloses
<1>6. QED
  BY <1>1, <1>2, <1>4, <1>5, BodyKeeps

(* The connection ends, before the header does or after it.                *)
LEMMA EndKeeps ==
  ASSUME DownloadInv, Download!HeaderCut \/ Download!BodyEnd
  PROVE  DownloadInv'
<1>1. /\ UNCHANGED <<url, visitedURLs, response, wire, writer, asked>>
      /\ pc' = "done" /\ held' = {} /\ url \in visitedURLs
  BY DEF Download!HeaderCut, Download!BodyEnd, Download!Keep, DownloadInv, AskedOK
<1>2. CASE pc = "header"
  <2>1. /\ url' \in visitedURLs' /\ visitedURLs \subseteq visitedURLs'
        /\ Asking' => url' \notin visitedURLs
        /\ Asking' \/ (pc' \in {"done", "failed"} /\ "socket" \notin held')
    BY <1>1 DEF Asking
  <2>2. QED
    BY <1>1, <1>2, <2>1, AnswerKeeps
<1>3. CASE pc = "body"
  <2>1. response \in Responses /\ WasRead(response, writer, wire)
    BY <1>3 DEF DownloadInv, ContentOK
  <2>2. WasRead(response', writer', wire')
    BY <1>1, <2>1
  <2>3. pc' \in {"done", "failed"} /\ "socket" \notin held'
    BY <1>1
  <2>4. QED
    BY <1>1, <2>1, <2>2, <2>3, BodyKeeps
<1>4. QED
  BY <1>2, <1>3 DEF Download!HeaderCut, Download!BodyEnd

(* A connection is opened, or it fails.                                    *)
LEMMA OpeningKeeps ==
  ASSUME DownloadInv,
         Download!Resolve \/ Download!OpenSocket \/ Download!Connect \/ Download!ConnectSSL
  PROVE  DownloadInv'
<1>1. Asking /\ Download!Keep
  BY DEF Download!Resolve, Download!OpenSocket, Download!Connect, Download!ConnectSSL, Asking
<1>2. Asking' \/ (pc' = "failed" /\ "socket" \notin held')
  <2>1. CASE Download!Throw
    BY <2>1, ThrowCloses
  <2>2. CASE ~Download!Throw
    BY <2>2 DEF Download!Resolve, Download!OpenSocket, Download!Connect, Download!ConnectSSL,
       Asking
  <2>3. QED
    BY <2>1, <2>2
<1>3. QED
  BY <1>1, <1>2, ConnectingKeeps

(* No step of a download breaks the invariant.                             *)
LEMMA DownloadInvStep ==
  ASSUME DownloadInv, [Download!Next]_downloadVars
  PROVE  DownloadInv'
<1>1. CASE UNCHANGED downloadVars
  BY <1>1 DEF downloadVars, DownloadInv, AskedOK, ContentOK, Asking, Download!ContentExact,
     Download!SocketsClosed, Download!Ended
<1>2. CASE Download!Next
  BY <1>2, OpeningKeeps, WriteKeeps, HeaderKeeps, HeaderLateKeeps, ReadKeeps, EndKeeps
  DEF Download!Next
<1>3. QED
  BY <1>1, <1>2

(* For every server and whatever it answers: a download asks no URL twice, *)
(* its content is the beginning of what the server put into chunks, and    *)
(* all of it when all of it came, and no socket is left open.              *)
THEOREM DownloadsAreExact == Download!Spec => []DownloadExact
<1>1. Download!Init => DownloadInv
  BY DownloadInvInit
<1>2. DownloadInv /\ [Download!Next]_downloadVars => DownloadInv'
  BY DownloadInvStep
<1>3. DownloadInv => DownloadExact
  BY DEF DownloadInv, AskedOK, DownloadExact, Download!DownloadExact, Download!NeverAskedTwice,
     Download!IsInjective
<1>4. QED
  BY <1>1, <1>2, <1>3, PTL DEF Download!Spec, Download!vars, downloadVars

-----------------------------------------------------------------------------
(* Vector: sequences that are changed in one place                         *)

(* A function on 1 .. n is a sequence.                                     *)
LEMMA MadeSeq ==
  ASSUME NEW S, NEW n \in Nat, NEW f \in [1 .. n -> S]
  PROVE  f \in Seq(S) /\ Len(f) = n /\ DOMAIN f = 1 .. n
<1>1. f \in Seq(S)
  BY SeqDef
<1>2. Len(f) \in Nat /\ DOMAIN f = 1 .. Len(f)
  BY <1>1, LenProperties
<1>3. DOMAIN f = 1 .. n
  OBVIOUS
<1>4. Len(f) = n
  BY <1>2, <1>3
<1>5. QED
  BY <1>1, <1>3, <1>4

(* The first items of a sequence                                           *)
LEMMA Beginning ==
  ASSUME NEW S, NEW c \in Seq(S), NEW i \in 0 .. Len(c)
  PROVE  /\ SubSeq(c, 1, i) \in Seq(S) /\ Len(SubSeq(c, 1, i)) = i
         /\ \A k \in 1 .. i : SubSeq(c, 1, i)[k] = c[k]
<1>1. Len(c) \in Nat /\ 1 \in Int /\ i \in Int /\ i \in Nat
  BY LenProperties
<1>2. \A k \in 1 .. i : c[k] \in S
  BY <1>1, ElementOfSeq
<1>3. /\ SubSeq(c, 1, i) \in Seq(S)
      /\ Len(SubSeq(c, 1, i)) = IF 1 <= i THEN i - 1 + 1 ELSE 0
      /\ \A k \in 1 .. i - 1 + 1 : SubSeq(c, 1, i)[k] = c[1 + k - 1]
  BY <1>1, <1>2, SubSeqProperties
<1>4. QED
  BY <1>1, <1>3

(* The items of a sequence behind the first i                              *)
LEMMA Ending ==
  ASSUME NEW S, NEW c \in Seq(S), NEW i \in 0 .. Len(c)
  PROVE  /\ SubSeq(c, i + 1, Len(c)) \in Seq(S)
         /\ Len(SubSeq(c, i + 1, Len(c))) = Len(c) - i
         /\ \A k \in 1 .. Len(c) - i : SubSeq(c, i + 1, Len(c))[k] = c[i + k]
<1> DEFINE n == Len(c)
           m == i + 1
<1>1. n \in Nat /\ n \in Int /\ m \in Int /\ i \in Nat /\ m \in Nat /\ m >= 1
  BY LenProperties
<1>2. \A k \in m .. n : c[k] \in S
  BY <1>1, ElementOfSeq
<1> HIDE DEF n
<1>3. /\ SubSeq(c, m, n) \in Seq(S)
      /\ Len(SubSeq(c, m, n)) = IF m <= n THEN n - m + 1 ELSE 0
      /\ \A k \in 1 .. n - m + 1 : SubSeq(c, m, n)[k] = c[m + k - 1]
  <2> HIDE DEF m
  <2>1. QED
    BY <1>1, <1>2, SubSeqProperties
<1>4. i <= n
  BY DEF n
<1>5. Len(SubSeq(c, m, n)) = n - i
  BY <1>1, <1>3, <1>4
<1>6. \A k \in 1 .. n - i : SubSeq(c, m, n)[k] = c[i + k]
  <2>1. SUFFICES ASSUME NEW k \in 1 .. n - i
                 PROVE  SubSeq(c, m, n)[k] = c[i + k]
    OBVIOUS
  <2>2. k \in 1 .. n - m + 1 /\ m + k - 1 = i + k
    BY <1>1
  <2> HIDE DEF m
  <2>3. QED
    BY <1>3, <2>2
<1>7. QED
  BY <1>3, <1>5, <1>6 DEF n

(* A sequence with s inserted behind the first i items                     *)
Splice(c, i, s) == SubSeq(c, 1, i) \o s \o SubSeq(c, i + 1, Len(c))

(* Its length, and each of its items                                       *)
LEMMA Spliced ==
  ASSUME NEW S, NEW c \in Seq(S), NEW i \in 0 .. Len(c), NEW s \in Seq(S)
  PROVE  /\ Splice(c, i, s) \in Seq(S) /\ Len(Splice(c, i, s)) = Len(c) + Len(s)
         /\ \A k \in 1 .. Len(c) + Len(s) :
              Splice(c, i, s)[k] = IF k <= i THEN c[k]
                                   ELSE IF k <= i + Len(s) THEN s[k - i] ELSE c[k - Len(s)]
<1> DEFINE a == SubSeq(c, 1, i)
           b == SubSeq(c, i + 1, Len(c))
           ab == a \o s
           n == Len(c)
           l == Len(s)
<1>1. n \in Nat /\ l \in Nat /\ i \in Nat /\ i <= n
  BY LenProperties
<1>2. a \in Seq(S) /\ Len(a) = i /\ \A k \in 1 .. i : a[k] = c[k]
  BY Beginning
<1>3. b \in Seq(S) /\ Len(b) = n - i /\ \A k \in 1 .. n - i : b[k] = c[i + k]
  BY Ending
<1> HIDE DEF a, b, n
<1>4. /\ ab \in Seq(S) /\ Len(ab) = Len(a) + l
      /\ \A k \in 1 .. Len(a) + l : ab[k] = IF k <= Len(a) THEN a[k] ELSE s[k - Len(a)]
  BY <1>2, ConcatProperties
<1> HIDE DEF ab
<1>5. /\ ab \o b \in Seq(S) /\ Len(ab \o b) = Len(ab) + Len(b)
      /\ \A k \in 1 .. Len(ab) + Len(b) :
           (ab \o b)[k] = IF k <= Len(ab) THEN ab[k] ELSE b[k - Len(ab)]
  BY <1>3, <1>4, ConcatProperties, SMTT(30)
<1> DEFINE t == ab \o b
<1>6. t = Splice(c, i, s)
  BY DEF Splice, a, b, ab
<1> HIDE DEF t, l
<1>7. t \in Seq(S) /\ Len(t) = n + l
  <2>1. Len(t) = Len(ab) + Len(b)
    BY <1>5 DEF t
  <2>2. QED
    BY <1>1, <1>2, <1>3, <1>4, <1>5, <2>1 DEF t
<1>8. ASSUME NEW k \in 1 .. n + l
      PROVE  t[k] = IF k <= i THEN c[k] ELSE IF k <= i + l THEN s[k - i] ELSE c[k - l]
  <2>1. t[k] = IF k <= i + l THEN ab[k] ELSE b[k - (i + l)]
    <3>1. Len(ab) = i + l /\ Len(b) = n - i
      BY <1>2, <1>3, <1>4
    <3>2. k \in 1 .. (i + l) + (n - i)
      BY <1>1
    <3>3. QED
      BY <1>5, <3>1, <3>2 DEF t
  <2>2. CASE k <= i
    BY <1>1, <1>2, <1>4, <2>1, <2>2
  <2>3. CASE ~(k <= i) /\ k <= i + l
    BY <1>1, <1>2, <1>4, <2>1, <2>3
  <2>4. CASE ~(k <= i + l)
    <3>1. k - (i + l) \in 1 .. n - i /\ i + (k - (i + l)) = k - l /\ ~(k <= i)
      BY <1>1, <2>4
    <3>2. QED
      BY <1>3, <2>1, <2>4, <3>1
  <2>5. QED
    BY <2>2, <2>3, <2>4
<1>9. QED
  BY <1>6, <1>7, <1>8 DEF n, l

(* A sequence without the item behind the first i                          *)
Without(c, i) == SubSeq(c, 1, i) \o SubSeq(c, i + 2, Len(c))

(* Its length, and each of its items                                       *)
LEMMA Cut ==
  ASSUME NEW S, NEW c \in Seq(S), NEW i \in 0 .. Len(c) - 1
  PROVE  /\ Without(c, i) \in Seq(S) /\ Len(Without(c, i)) = Len(c) - 1
         /\ \A k \in 1 .. Len(c) - 1 :
              Without(c, i)[k] = IF k <= i THEN c[k] ELSE c[k + 1]
<1> DEFINE n == Len(c)
           a == SubSeq(c, 1, i)
           b == SubSeq(c, (i + 1) + 1, Len(c))
           t == a \o b
<1>1. n \in Nat /\ i \in Nat /\ i + 1 <= n /\ i \in 0 .. n /\ i + 1 \in 0 .. n
  BY LenProperties
<1>2. a \in Seq(S) /\ Len(a) = i /\ \A k \in 1 .. i : a[k] = c[k]
  BY <1>1, Beginning
<1>3. /\ b \in Seq(S) /\ Len(b) = n - (i + 1)
      /\ \A k \in 1 .. n - (i + 1) : b[k] = c[(i + 1) + k]
  <2> DEFINE j == i + 1
  <2>1. j \in 0 .. Len(c)
    BY <1>1
  <2> HIDE DEF j
  <2>2. /\ SubSeq(c, j + 1, Len(c)) \in Seq(S)
        /\ Len(SubSeq(c, j + 1, Len(c))) = Len(c) - j
        /\ \A k \in 1 .. Len(c) - j : SubSeq(c, j + 1, Len(c))[k] = c[j + k]
    BY <2>1, Ending
  <2>3. QED
    BY <2>2 DEF j
<1>4. t = Without(c, i)
  <2>1. (i + 1) + 1 = i + 2
    BY <1>1
  <2>2. QED
    BY <2>1 DEF Without
<1> HIDE DEF a, b, n
<1>5. /\ t \in Seq(S) /\ Len(t) = Len(a) + Len(b)
      /\ \A k \in 1 .. Len(a) + Len(b) : t[k] = IF k <= Len(a) THEN a[k] ELSE b[k - Len(a)]
  BY <1>2, <1>3, ConcatProperties
<1> HIDE DEF t
<1>6. t \in Seq(S) /\ Len(t) = n - 1
  BY <1>1, <1>2, <1>3, <1>5
<1>7. ASSUME NEW k \in 1 .. n - 1
      PROVE  t[k] = IF k <= i THEN c[k] ELSE c[k + 1]
  <2>1. k \in 1 .. i + (n - (i + 1))
    BY <1>1
  <2>2. t[k] = IF k <= i THEN a[k] ELSE b[k - i]
    BY <1>2, <1>3, <1>5, <2>1
  <2>3. CASE k <= i
    BY <1>1, <1>2, <2>2, <2>3
  <2>4. CASE ~(k <= i)
    <3>1. k - i \in 1 .. n - (i + 1) /\ (i + 1) + (k - i) = k + 1
      BY <1>1, <2>4
    <3>2. QED
      BY <1>3, <2>2, <2>4, <3>1
  <2>5. QED
    BY <2>3, <2>4
<1>8. QED
  BY <1>4, <1>6, <1>7 DEF n

-----------------------------------------------------------------------------
(* Vector: what the calls make of a buffer                                 *)

(* What a cell may be                                                      *)
CellValues == Contained \cup {UnsetItem, NoCell}

(* A buffer of which the first size cells hold objects                     *)
BufferOK(v) ==
  /\ v \in [cells : Seq(CellValues), size : Nat]
  /\ v.size <= Len(v.cells)
  /\ \A i \in 1 .. Len(v.cells) : (v.cells[i] # NoCell) <=> i <= v.size

(* What a buffer holds                                                     *)
LEMMA ContentsAre ==
  ASSUME NEW v, BufferOK(v)
  PROVE  /\ Vec!Contents(v) \in Seq(CellValues) /\ Len(Vec!Contents(v)) = v.size
         /\ \A k \in 1 .. v.size : Vec!Contents(v)[k] = v.cells[k]
         /\ v.size \in Nat /\ Len(v.cells) \in Nat /\ v.size <= Len(v.cells)
<1>1. v.cells \in Seq(CellValues) /\ v.size \in Nat /\ v.size <= Len(v.cells)
  BY DEF BufferOK
<1>2. Len(v.cells) \in Nat
  BY <1>1, LenProperties
<1> DEFINE c == v.cells
           n == v.size
<1>3. c \in Seq(CellValues) /\ n \in 0 .. Len(c)
  BY <1>1, <1>2
<1> HIDE DEF c, n
<1>4. /\ SubSeq(c, 1, n) \in Seq(CellValues) /\ Len(SubSeq(c, 1, n)) = n
      /\ \A k \in 1 .. n : SubSeq(c, 1, n)[k] = c[k]
  BY <1>3, Beginning
<1>5. QED
  BY <1>1, <1>2, <1>4 DEF Vec!Contents, c, n

(* A buffer with other cells, of which the first n hold objects            *)
LEMMA MadeBuffer ==
  ASSUME NEW m \in Nat, NEW n \in 0 .. m, NEW f \in [1 .. m -> CellValues],
         \A i \in 1 .. m : (f[i] # NoCell) <=> i <= n
  PROVE  /\ BufferOK([cells |-> f, size |-> n]) /\ Len(f) = m
         /\ Len(Vec!Contents([cells |-> f, size |-> n])) = n
         /\ \A k \in 1 .. n : Vec!Contents([cells |-> f, size |-> n])[k] = f[k]
<1> DEFINE v == [cells |-> f, size |-> n]
<1>1. f \in Seq(CellValues) /\ Len(f) = m
  BY MadeSeq
<1>2. v.cells = f /\ v.size = n /\ v \in [cells : Seq(CellValues), size : Nat]
  BY <1>1
<1> HIDE DEF v
<1>3. BufferOK(v)
  BY <1>1, <1>2 DEF BufferOK
<1>4. Len(Vec!Contents(v)) = v.size /\ \A k \in 1 .. v.size : Vec!Contents(v)[k] = v.cells[k]
  BY <1>3, ContentsAre
<1>5. QED
  BY <1>1, <1>2, <1>3, <1>4 DEF v

(* Reallocation moves the objects, all of them and in their order.         *)
LEMMA Alloc ==
  ASSUME NEW v, BufferOK(v), NEW mem \in Nat
  PROVE  LET u == Vec!AllocMem(v, mem) IN
         /\ BufferOK(u) /\ u.size = v.size /\ Len(u.cells) \in Nat /\ Len(u.cells) >= mem
         /\ \A k \in 1 .. v.size : u.cells[k] = v.cells[k]
         /\ Vec!Contents(u) = Vec!Contents(v)
<1> DEFINE u == Vec!AllocMem(v, mem)
           c == Vec!Contents(v)
           n == v.size
           more == (3 * mem) \div 2 - n
           raw == [i \in 1 .. more |-> NoCell]
<1>1. /\ c \in Seq(CellValues) /\ Len(c) = n /\ \A k \in 1 .. n : c[k] = v.cells[k]
      /\ n \in Nat /\ Len(v.cells) \in Nat /\ n <= Len(v.cells)
  BY ContentsAre
<1>2. CASE Len(v.cells) >= mem
  <2>1. u = v
    BY <1>2 DEF Vec!AllocMem
  <2>2. QED
    BY <1>1, <1>2, <2>1
<1>3. CASE ~(Len(v.cells) >= mem)
  <2>1. u = [v EXCEPT !.cells = c \o raw]
    BY <1>3, Zenon DEF Vec!AllocMem, Vec!Cells
  <2>2. u = [cells |-> c \o raw, size |-> n]
    BY <2>1 DEF BufferOK
  <2>3. more \in Nat /\ n + more >= mem
    <3> HIDE DEF n
    <3>1. n < mem
      BY <1>1, <1>3
    <3>2. QED
      BY <1>1, <3>1
  <2> HIDE DEF more
  <2>4. raw \in Seq(CellValues) /\ Len(raw) = more
    <3>1. raw \in [1 .. more -> CellValues]
      BY DEF CellValues
    <3> HIDE DEF raw
    <3>2. QED
      BY <2>3, <3>1, MadeSeq
  <2>5. \A i \in 1 .. more : raw[i] = NoCell
    OBVIOUS
  <2> DEFINE t == c \o raw
  <2> HIDE DEF raw, c
  <2>6. /\ t \in Seq(CellValues) /\ Len(t) = Len(c) + Len(raw)
        /\ \A k \in 1 .. Len(c) + Len(raw) :
             t[k] = IF k <= Len(c) THEN c[k] ELSE raw[k - Len(c)]
    BY <1>1, <2>4, ConcatProperties
  <2> HIDE DEF t
  <2>7. /\ t \in Seq(CellValues) /\ Len(t) = n + more
        /\ \A k \in 1 .. n : t[k] = v.cells[k]
        /\ \A k \in 1 .. n + more : ~(k <= n) => t[k] = NoCell
    <3> HIDE DEF n
    <3>1. \A k \in 1 .. n : t[k] = v.cells[k]
      BY <1>1, <2>3, <2>4, <2>6
    <3>2. ASSUME NEW k \in 1 .. n + more, ~(k <= n)
          PROVE  t[k] = NoCell
      <4>1. k - n \in 1 .. more
        BY <1>1, <2>3, <3>2
      <4>2. QED
        BY <1>1, <2>4, <2>5, <2>6, <3>2, <4>1
    <3>3. QED
      BY <1>1, <2>4, <2>6, <3>1, <3>2
  <2>8. \A k \in 1 .. n : v.cells[k] # NoCell
    BY <1>1 DEF BufferOK
  <2>9. u.cells = t /\ u.size = n /\ u \in [cells : Seq(CellValues), size : Nat]
    BY <1>1, <2>2, <2>7 DEF t
  <2> HIDE DEF u, n
  <2>10. \A k \in 1 .. n + more : (t[k] # NoCell) <=> k <= n
    BY <1>1, <2>7, <2>8
  <2>11. BufferOK(u)
    BY <1>1, <2>3, <2>7, <2>9, <2>10 DEF BufferOK
  <2>12. /\ Vec!Contents(u) \in Seq(CellValues) /\ Len(Vec!Contents(u)) = u.size
         /\ \A k \in 1 .. u.size : Vec!Contents(u)[k] = u.cells[k]
    BY <2>11, ContentsAre
  <2>13. Vec!Contents(u) = c
    BY <1>1, <2>7, <2>9, <2>12, SeqEqual
  <2>14. QED
    BY <1>1, <2>3, <2>7, <2>9, <2>11, <2>13 DEF n, c, u
<1>4. QED
  BY <1>2, <1>3

(* Objects are inserted, and all behind them move up.                      *)
LEMMA InsertedOK ==
  ASSUME NEW v, BufferOK(v), NEW idx \in 0 .. v.size, NEW items \in Seq(Contained)
  PROVE  /\ BufferOK(Vec!Inserted(v, idx, items))
         /\ Vec!Contents(Vec!Inserted(v, idx, items)) = Splice(Vec!Contents(v), idx, items)
<1> DEFINE k == Len(items)
           n == v.size
           u == Vec!AllocMem(v, n + k)
           m == Len(u.cells)
           f == [i \in 1 .. m |-> CASE i <= idx \/ i > n + k -> u.cells[i]
                                    [] i > idx /\ i <= idx + k -> items[i - idx]
                                    [] OTHER -> u.cells[i - k]]
           w == [cells |-> f, size |-> n + k]
           c == Vec!Contents(v)
           s == Splice(c, idx, items)
<1>1. /\ c \in Seq(CellValues) /\ Len(c) = n /\ \A j \in 1 .. n : c[j] = v.cells[j]
      /\ n \in Nat
  BY ContentsAre
<1>2. k \in Nat /\ \A j \in 1 .. k : items[j] \in Contained
  BY ElementOfSeq, LenProperties
<1>3. n + k \in Nat /\ idx \in Nat /\ idx <= n
  BY <1>1, <1>2
<1>4. /\ BufferOK(u) /\ u.size = n /\ m \in Nat /\ m >= n + k
      /\ \A j \in 1 .. n : u.cells[j] = v.cells[j]
  <2> HIDE DEF n, k
  <2>1. LET a == Vec!AllocMem(v, n + k) IN
        /\ BufferOK(a) /\ a.size = v.size /\ Len(a.cells) \in Nat /\ Len(a.cells) >= n + k
        /\ \A j \in 1 .. v.size : a.cells[j] = v.cells[j]
    BY <1>3, Alloc
  <2>2. QED
    BY <2>1 DEF n
<1>5. /\ u.cells \in Seq(CellValues) /\ DOMAIN u.cells = 1 .. m
      /\ \A i \in 1 .. m : /\ u.cells[i] \in CellValues
                           /\ (u.cells[i] # NoCell) <=> i <= n
  <2>1. u.cells \in Seq(CellValues)
    BY <1>4 DEF BufferOK
  <2>2. \A i \in 1 .. m : u.cells[i] \in CellValues
    BY <2>1, ElementOfSeq
  <2>3. DOMAIN u.cells = 1 .. m
    BY <2>1, LenProperties
  <2>4. \A i \in 1 .. m : (u.cells[i] # NoCell) <=> i <= n
    <3> HIDE DEF n, u
    <3>1. QED
      BY <1>4 DEF BufferOK
  <2>5. QED
    BY <2>1, <2>2, <2>3, <2>4
<1>6. Vec!Inserted(v, idx, items) = w
  BY <1>5, Zenon DEF Vec!Inserted
<1> HIDE DEF u, m, n, k, c
<1>7. ASSUME NEW i \in 1 .. m
      PROVE  f[i] \in CellValues /\ ((f[i] # NoCell) <=> i <= n + k)
  <2>1. CASE i <= idx \/ i > n + k
    <3>1. f[i] = u.cells[i]
      BY <1>1, <1>2, <1>3, <2>1
    <3>2. i <= n <=> i <= n + k
      BY <1>1, <1>2, <1>3, <2>1
    <3> HIDE DEF f
    <3>3. QED
      BY <1>5, <3>1, <3>2
  <2>2. CASE i > idx /\ i <= idx + k
    <3>1. f[i] = items[i - idx]
      BY <1>1, <1>2, <1>3, <2>2
    <3>2. i - idx \in 1 .. k /\ i <= n + k
      BY <1>1, <1>2, <1>3, <2>2
    <3> HIDE DEF f
    <3>3. f[i] \in Contained
      BY <1>2, <3>1, <3>2
    <3>4. QED
      BY <3>2, <3>3, VectorAssumption DEF CellValues
  <2>3. CASE i > idx + k /\ i <= n + k
    <3>1. f[i] = u.cells[i - k]
      BY <1>1, <1>2, <1>3, <2>3
    <3>2. i - k \in 1 .. m /\ i - k <= n
      BY <1>1, <1>2, <1>3, <1>4, <2>3
    <3> HIDE DEF f
    <3>3. QED
      BY <1>5, <2>3, <3>1, <3>2
  <2>4. QED
    BY <1>1, <1>2, <1>3, <2>1, <2>2, <2>3
<1>8. n + k \in 0 .. m /\ f \in [1 .. m -> CellValues]
  <2>1. n + k \in 0 .. m
    BY <1>3, <1>4
  <2>2. f \in [1 .. m -> CellValues]
    BY <1>7
  <2>3. QED
    BY <2>1, <2>2
<1>9. \A i \in 1 .. n + k :
        f[i] = IF i <= idx THEN c[i] ELSE IF i <= idx + k THEN items[i - idx] ELSE c[i - k]
  <2>1. SUFFICES ASSUME NEW i \in 1 .. n + k
                 PROVE  f[i] = IF i <= idx THEN c[i]
                               ELSE IF i <= idx + k THEN items[i - idx] ELSE c[i - k]
    OBVIOUS
  <2>2. i \in 1 .. m
    BY <1>3, <1>4
  <2>3. CASE i <= idx
    <3>1. i \in 1 .. n
      BY <1>1, <1>3, <2>3
    <3>2. QED
      BY <1>1, <1>4, <2>2, <2>3, <3>1
  <2>4. CASE ~(i <= idx) /\ i <= idx + k
    <3>1. ~(i <= idx \/ i > n + k) /\ i > idx
      BY <1>1, <1>2, <1>3, <2>4
    <3>2. QED
      BY <2>2, <2>4, <3>1
  <2>5. CASE ~(i <= idx + k)
    <3>1. /\ i - k \in 1 .. n /\ ~(i <= idx)
          /\ ~(i <= idx \/ i > n + k) /\ ~(i > idx /\ i <= idx + k)
      BY <1>1, <1>2, <1>3, <2>5
    <3>2. f[i] = u.cells[i - k]
      BY <2>2, <3>1
    <3> HIDE DEF f
    <3>3. QED
      BY <1>1, <1>4, <2>5, <3>1, <3>2
  <2>6. QED
    BY <2>3, <2>4, <2>5
<1> HIDE DEF f
<1>10. \A i \in 1 .. m : (f[i] # NoCell) <=> i <= n + k
  BY <1>7
<1>11. /\ BufferOK(w) /\ Len(Vec!Contents(w)) = n + k
       /\ \A i \in 1 .. n + k : Vec!Contents(w)[i] = f[i]
  <2> DEFINE size == n + k
  <2>1. size \in 0 .. m /\ \A i \in 1 .. m : (f[i] # NoCell) <=> i <= size
    BY <1>8, <1>10
  <2> HIDE DEF size
  <2>2. /\ BufferOK([cells |-> f, size |-> size])
        /\ Len(Vec!Contents([cells |-> f, size |-> size])) = size
        /\ \A i \in 1 .. size : Vec!Contents([cells |-> f, size |-> size])[i] = f[i]
    BY <1>4, <1>8, <2>1, MadeBuffer
  <2>3. QED
    BY <2>2 DEF size
<1>12. /\ s \in Seq(CellValues) /\ Len(s) = n + k
       /\ \A i \in 1 .. n + k :
            s[i] = IF i <= idx THEN c[i] ELSE IF i <= idx + k THEN items[i - idx] ELSE c[i - k]
  <2>1. items \in Seq(CellValues)
    <3>1. items \in [1 .. k -> CellValues]
      <4>1. items \in [1 .. k -> Contained]
        BY LenProperties DEF k
      <4>2. QED
        BY <4>1 DEF CellValues
    <3>2. QED
      BY <1>2, <3>1, MadeSeq
  <2>2. idx \in 0 .. Len(c)
    BY <1>1 DEF n
  <2> HIDE DEF s
  <2>3. /\ Splice(c, idx, items) \in Seq(CellValues)
        /\ Len(Splice(c, idx, items)) = Len(c) + Len(items)
        /\ \A i \in 1 .. Len(c) + Len(items) :
             Splice(c, idx, items)[i] = IF i <= idx THEN c[i]
                                        ELSE IF i <= idx + Len(items) THEN items[i - idx]
                                        ELSE c[i - Len(items)]
    BY <1>1, <2>1, <2>2, Spliced
  <2>4. QED
    BY <1>1, <2>3 DEF k, s
<1> HIDE DEF w, s
<1>13. Vec!Contents(w) \in Seq(CellValues)
  BY <1>11, ContentsAre
<1>14. Vec!Contents(w) = s
  BY <1>9, <1>11, <1>12, <1>13, SeqEqual
<1>15. QED
  BY <1>6, <1>11, <1>14 DEF s, c

(* An object is erased, and all behind it move down.                       *)
LEMMA ErasedOK ==
  ASSUME NEW v, BufferOK(v), NEW idx \in 0 .. v.size - 1
  PROVE  /\ BufferOK(Vec!Erased(v, idx))
         /\ Vec!Contents(Vec!Erased(v, idx)) = Without(Vec!Contents(v), idx)
<1> DEFINE n == v.size
           m == Len(v.cells)
           f == [i \in 1 .. m |-> CASE i <= idx \/ i > n -> v.cells[i]
                                    [] i = n -> NoCell
                                    [] OTHER -> v.cells[i + 1]]
           size == n - 1
           w == [cells |-> f, size |-> size]
           c == Vec!Contents(v)
           s == Without(c, idx)
<1>1. /\ c \in Seq(CellValues) /\ Len(c) = n /\ \A j \in 1 .. n : c[j] = v.cells[j]
      /\ n \in Nat /\ m \in Nat /\ n <= m
  BY ContentsAre
<1>2. /\ DOMAIN v.cells = 1 .. m
      /\ \A i \in 1 .. m : /\ v.cells[i] \in CellValues
                           /\ (v.cells[i] # NoCell) <=> i <= n
  <2>1. v.cells \in Seq(CellValues)
    BY DEF BufferOK
  <2>2. QED
    BY <2>1, ElementOfSeq, LenProperties DEF BufferOK
<1>3. idx \in Nat /\ idx < n /\ size \in Nat /\ size \in 0 .. m
  BY <1>1
<1>4. Vec!Erased(v, idx) = w
  BY <1>2, Zenon DEF Vec!Erased
<1> HIDE DEF n, m, c
<1>5. ASSUME NEW i \in 1 .. m
      PROVE  f[i] \in CellValues /\ ((f[i] # NoCell) <=> i <= size)
  <2>1. CASE i <= idx \/ i > n
    <3>1. f[i] = v.cells[i]
      BY <1>1, <1>3, <2>1
    <3>2. i <= n <=> i <= size
      BY <1>1, <1>3, <2>1
    <3> HIDE DEF f, size
    <3>3. QED
      BY <1>2, <3>1, <3>2
  <2>2. CASE i = n
    <3>1. f[i] = NoCell
      BY <1>3, <2>2
    <3>2. ~(i <= size)
      BY <1>1, <2>2
    <3> HIDE DEF f, size
    <3>3. QED
      BY <3>1, <3>2 DEF CellValues
  <2>3. CASE ~(i <= idx) /\ i < n
    <3>1. f[i] = v.cells[i + 1]
      BY <1>1, <1>3, <2>3
    <3>2. i + 1 \in 1 .. m /\ i + 1 <= n /\ i <= size
      BY <1>1, <2>3
    <3> HIDE DEF f, size
    <3>3. QED
      BY <1>2, <3>1, <3>2
  <2>4. QED
    BY <1>1, <2>1, <2>2, <2>3
<1>6. \A i \in 1 .. size : f[i] = IF i <= idx THEN c[i] ELSE c[i + 1]
  <2>1. SUFFICES ASSUME NEW i \in 1 .. size
                 PROVE  f[i] = IF i <= idx THEN c[i] ELSE c[i + 1]
    OBVIOUS
  <2>2. i \in 1 .. m /\ i < n /\ i \in 1 .. n /\ i + 1 \in 1 .. n
    BY <1>1, <1>3
  <2>3. CASE i <= idx
    BY <1>1, <2>2, <2>3
  <2>4. CASE ~(i <= idx)
    BY <1>1, <2>2, <2>4
  <2>5. QED
    BY <2>3, <2>4
<1> HIDE DEF f
<1>7. f \in [1 .. m -> CellValues] /\ \A i \in 1 .. m : (f[i] # NoCell) <=> i <= size
  <2>1. DOMAIN f = 1 .. m /\ f = [i \in 1 .. m |-> f[i]]
    BY DEF f
  <2>2. QED
    BY <1>5, <2>1
<1> HIDE DEF size
<1>8. /\ BufferOK(w) /\ Len(Vec!Contents(w)) = size
      /\ \A i \in 1 .. size : Vec!Contents(w)[i] = f[i]
  BY <1>1, <1>3, <1>7, MadeBuffer
<1>9. /\ s \in Seq(CellValues) /\ Len(s) = n - 1
      /\ \A i \in 1 .. n - 1 : s[i] = IF i <= idx THEN c[i] ELSE c[i + 1]
  <2>1. idx \in 0 .. Len(c) - 1
    BY <1>1, <1>3
  <2>2. QED
    BY <1>1, <2>1, Cut
<1> HIDE DEF w, s
<1>10. Vec!Contents(w) \in Seq(CellValues)
  BY <1>8, ContentsAre
<1>11. Vec!Contents(w) = s
  <2>1. \A i \in 1 .. size : Vec!Contents(w)[i] = s[i]
    BY <1>6, <1>8, <1>9 DEF size
  <2>2. Len(s) = size
    BY <1>9 DEF size
  <2>3. QED
    BY <1>8, <1>9, <1>10, <2>1, <2>2, SeqEqual
<1>12. QED
  BY <1>4, <1>8, <1>11 DEF s, c

(* The size is changed: what is kept of the objects stays.                 *)
LEMMA ResizedOK ==
  ASSUME NEW v, BufferOK(v), NEW count \in Nat
  PROVE  /\ BufferOK(Vec!Resized(v, count)) /\ Len(Vec!Contents(Vec!Resized(v, count))) = count
         /\ \A i \in 1 .. count : i <= Len(Vec!Contents(v)) =>
              Vec!Contents(Vec!Resized(v, count))[i] = Vec!Contents(v)[i]
<1> DEFINE n == v.size
           u == Vec!AllocMem(v, count)
           m == Len(u.cells)
           f == [i \in 1 .. m |-> IF i > count THEN NoCell
                                  ELSE IF i > n THEN UnsetItem ELSE u.cells[i]]
           w == [cells |-> f, size |-> count]
           c == Vec!Contents(v)
<1>1. Len(c) = n /\ n \in Nat /\ \A j \in 1 .. n : c[j] = v.cells[j]
  BY ContentsAre
<1>2. /\ BufferOK(u) /\ u.size = n /\ m \in Nat /\ m >= count
      /\ \A j \in 1 .. n : u.cells[j] = v.cells[j]
  BY Alloc
<1>3. /\ DOMAIN u.cells = 1 .. m
      /\ \A i \in 1 .. m : /\ u.cells[i] \in CellValues
                           /\ (u.cells[i] # NoCell) <=> i <= n
  <2> HIDE DEF u, n
  <2>1. u.cells \in Seq(CellValues) /\ \A i \in 1 .. m : (u.cells[i] # NoCell) <=> i <= n
    BY <1>2 DEF BufferOK
  <2>2. QED
    BY <2>1, ElementOfSeq, LenProperties
<1>4. Vec!Resized(v, count) = w
  BY <1>3, Zenon DEF Vec!Resized
<1> HIDE DEF u, n, m, c
<1>5. ASSUME NEW i \in 1 .. m
      PROVE  f[i] \in CellValues /\ ((f[i] # NoCell) <=> i <= count)
  <2>1. CASE i > count
    BY <2>1 DEF CellValues
  <2>2. CASE ~(i > count) /\ i > n
    BY <1>1, <2>2, VectorAssumption DEF CellValues
  <2>3. CASE ~(i > count) /\ ~(i > n)
    BY <1>1, <1>3, <2>3
  <2>4. QED
    BY <2>1, <2>2, <2>3
<1>6. f \in [1 .. m -> CellValues] /\ \A i \in 1 .. m : (f[i] # NoCell) <=> i <= count
  BY <1>5
<1>7. \A i \in 1 .. count : i <= n => f[i] = c[i]
  <2>1. SUFFICES ASSUME NEW i \in 1 .. count, i <= n
                 PROVE  f[i] = c[i]
    OBVIOUS
  <2>2. i \in 1 .. m /\ i \in 1 .. n /\ ~(i > count) /\ ~(i > n)
    BY <1>1, <1>2, <2>1
  <2>3. QED
    BY <1>1, <1>2, <2>2
<1> HIDE DEF f
<1>8. count \in 0 .. m
  BY <1>2
<1>9. /\ BufferOK(w) /\ Len(Vec!Contents(w)) = count
      /\ \A i \in 1 .. count : Vec!Contents(w)[i] = f[i]
  BY <1>2, <1>6, <1>8, MadeBuffer
<1> HIDE DEF w
<1>10. \A i \in 1 .. count : i <= Len(c) => Vec!Contents(w)[i] = c[i]
  BY <1>1, <1>7, <1>9
<1>11. QED
  BY <1>4, <1>9, <1>10 DEF c

(* All objects are destroyed, the memory stays.                            *)
LEMMA ClearedOK ==
  ASSUME NEW v, BufferOK(v)
  PROVE  BufferOK(Vec!Cleared(v)) /\ Len(Vec!Contents(Vec!Cleared(v))) = 0
<1> DEFINE m == Len(v.cells)
           f == [i \in 1 .. m |-> NoCell]
<1>1. m \in Nat
  BY ContentsAre
<1>2. Vec!Cleared(v) = [cells |-> f, size |-> 0]
  BY Zenon DEF Vec!Cleared, Vec!Cells
<1>3. /\ f \in [1 .. m -> CellValues] /\ 0 \in 0 .. m
      /\ \A i \in 1 .. m : (f[i] # NoCell) <=> i <= 0
  BY <1>1 DEF CellValues
<1> HIDE DEF f, m
<1>4. /\ BufferOK([cells |-> f, size |-> 0])
      /\ Len(Vec!Contents([cells |-> f, size |-> 0])) = 0
  BY <1>1, <1>3, MadeBuffer
<1>5. QED
  BY <1>2, <1>4

(* A vector without memory                                                 *)
LEMMA EmptyOK ==
  /\ BufferOK(Vec!Empty) /\ Vec!Contents(Vec!Empty) = <<>> /\ Vec!Empty.size = 0
<1>1. Vec!Empty = [cells |-> <<>>, size |-> 0]
  BY DEF Vec!Empty
<1>2. Len(<<>>) = 0 /\ <<>> \in Seq(CellValues)
  BY EmptySeq
<1>3. SubSeq(<<>>, 1, 0) = <<>>
  BY SubSeqEmpty
<1>4. QED
  BY <1>1, <1>2, <1>3 DEF BufferOK, Vec!Contents

(* A copy is made in memory of its own.                                    *)
LEMMA CopiedOK ==
  ASSUME NEW v, BufferOK(v)
  PROVE  BufferOK(Vec!Copied(v)) /\ Vec!Contents(Vec!Copied(v)) = Vec!Contents(v)
<1> DEFINE n == v.size
           c == Vec!Contents(v)
           u == Vec!AllocMem(Vec!Empty, n)
           m == Len(u.cells)
           raw == SubSeq(u.cells, n + 1, Len(u.cells))
           t == c \o raw
           w == [cells |-> t, size |-> n]
<1>1. c \in Seq(CellValues) /\ Len(c) = n /\ n \in Nat
  BY ContentsAre
<1>2. BufferOK(u) /\ u.size = 0 /\ m \in Nat /\ m >= n
  <2> DEFINE e == Vec!Empty
  <2>1. BufferOK(e) /\ e.size = 0
    BY EmptyOK
  <2> HIDE DEF e, n
  <2>2. LET a == Vec!AllocMem(e, n) IN
        BufferOK(a) /\ a.size = e.size /\ Len(a.cells) \in Nat /\ Len(a.cells) >= n
    BY <1>1, <2>1, Alloc
  <2>3. QED
    BY <2>1, <2>2 DEF e
<1>3. u.cells \in Seq(CellValues) /\ \A i \in 1 .. m : u.cells[i] = NoCell
  <2> HIDE DEF u
  <2>1. u.cells \in Seq(CellValues) /\ \A i \in 1 .. m : (u.cells[i] # NoCell) <=> i <= 0
    BY <1>2 DEF BufferOK
  <2>2. QED
    BY <1>2, <2>1
<1>4. Vec!Copied(v) = w
  <2>1. u \in [cells : Seq(CellValues), size : Nat]
    BY <1>2 DEF BufferOK
  <2>2. Vec!Copied(v) = [u EXCEPT !.cells = c \o SubSeq(@, n + 1, Len(@)), !.size = n]
    BY Zenon DEF Vec!Copied
  <2> HIDE DEF u, c, n
  <2>3. QED
    BY <2>1, <2>2
<1> HIDE DEF c, u, n
<1>5. /\ raw \in Seq(CellValues) /\ Len(raw) = m - n
      /\ \A k \in 1 .. m - n : raw[k] = NoCell
  <2>1. n \in 0 .. Len(u.cells)
    BY <1>1, <1>2
  <2>2. /\ raw \in Seq(CellValues) /\ Len(raw) = m - n
        /\ \A k \in 1 .. m - n : raw[k] = u.cells[n + k]
    BY <1>3, <2>1, Ending
  <2> HIDE DEF raw, m
  <2>3. \A k \in 1 .. m - n : n + k \in 1 .. m
    BY <1>1, <1>2
  <2>4. QED
    BY <1>3, <2>2, <2>3 DEF m
<1> HIDE DEF raw, m
<1>6. /\ t \in Seq(CellValues) /\ Len(t) = Len(c) + Len(raw)
      /\ \A k \in 1 .. Len(c) + Len(raw) :
           t[k] = IF k <= Len(c) THEN c[k] ELSE raw[k - Len(c)]
  BY <1>1, <1>5, ConcatProperties
<1> HIDE DEF t
<1>7. \A k \in 1 .. n : c[k] \in CellValues /\ c[k] # NoCell
  <2>1. \A k \in 1 .. v.size : v.cells[k] # NoCell
    BY ContentsAre DEF BufferOK
  <2>2. \A k \in 1 .. n : c[k] # NoCell
    BY <2>1, ContentsAre DEF n, c
  <2>3. QED
    BY <1>1, <2>2, ElementOfSeq
<1>8. Len(t) = m
  BY <1>1, <1>2, <1>5, <1>6
<1>9. \A i \in 1 .. n : t[i] = c[i]
  BY <1>1, <1>2, <1>5, <1>6
<1>10. ASSUME NEW i \in 1 .. m
       PROVE  (t[i] # NoCell) <=> i <= n
  <2>1. CASE i <= n
    BY <1>1, <1>7, <1>9, <2>1
  <2>2. CASE ~(i <= n)
    <3>1. i - n \in 1 .. m - n /\ i \in 1 .. n + (m - n)
      BY <1>1, <1>2, <2>2
    <3>2. QED
      BY <1>1, <1>5, <1>6, <2>2, <3>1
  <2>3. QED
    BY <2>1, <2>2
<1>11. t \in [1 .. m -> CellValues] /\ n \in 0 .. m
  <2>1. t \in [1 .. Len(t) -> CellValues]
    BY <1>6, LenProperties
  <2>2. QED
    BY <1>1, <1>2, <1>8, <2>1
<1>12. /\ BufferOK(w) /\ Len(Vec!Contents(w)) = n
       /\ \A i \in 1 .. n : Vec!Contents(w)[i] = t[i]
  BY <1>2, <1>10, <1>11, MadeBuffer
<1> HIDE DEF w
<1>13. Vec!Contents(w) \in Seq(CellValues)
  BY <1>12, ContentsAre
<1>14. Vec!Contents(w) = c
  BY <1>1, <1>9, <1>12, <1>13, SeqEqual
<1>15. QED
  BY <1>4, <1>12, <1>14 DEF c

-----------------------------------------------------------------------------
(* Vector: every call                                                      *)

(* Every vector has a buffer that is right.                                *)
VecInv == vecs \in [Holders -> [cells : Seq(CellValues), size : Nat]]
          /\ \A n \in Holders : BufferOK(vecs[n])

(* What the vectors hold, as ItemSeqs has it                               *)
Held == [n \in Holders |-> Vec!Contents(vecs[n])]

(* A call that changes one vector                                          *)
LEMMA BecomeOK ==
  ASSUME VecInv, NEW n \in Holders, NEW v, BufferOK(v), vecs' = [vecs EXCEPT ![n] = v]
  PROVE  VecInv' /\ Held' = [Held EXCEPT ![n] = Vec!Contents(v)]
<1>1. v \in [cells : Seq(CellValues), size : Nat]
  BY DEF BufferOK
<1>2. /\ vecs' \in [Holders -> [cells : Seq(CellValues), size : Nat]]
      /\ \A m \in Holders : vecs'[m] = IF m = n THEN v ELSE vecs[m]
  BY <1>1 DEF VecInv
<1>3. VecInv'
  BY <1>2 DEF VecInv
<1>4. \A m \in Holders : Vec!Contents(vecs'[m]) =
        IF m = n THEN Vec!Contents(v) ELSE Vec!Contents(vecs[m])
  BY <1>2
<1>5. Held' = [Held EXCEPT ![n] = Vec!Contents(v)]
  BY <1>4, Zenon DEF Held
<1>6. QED
  BY <1>3, <1>5

(* A call that changes two                                                 *)
Both(f, n, m, v, w) == [f EXCEPT ![n] = v, ![m] = w]

(* The buffers stay right, and what is held changes for both.              *)
LEMMA BecomeBothOK ==
  ASSUME VecInv, NEW n \in Holders, NEW m \in Holders, NEW v, BufferOK(v), NEW w, BufferOK(w),
         vecs' = Both(vecs, n, m, v, w)
  PROVE  VecInv' /\ Held' = Both(Held, n, m, Vec!Contents(v), Vec!Contents(w))
<1>1. /\ v \in [cells : Seq(CellValues), size : Nat]
      /\ w \in [cells : Seq(CellValues), size : Nat]
  BY DEF BufferOK
<1>2. /\ vecs' \in [Holders -> [cells : Seq(CellValues), size : Nat]]
      /\ \A k \in Holders : vecs'[k] = IF k = m THEN w ELSE IF k = n THEN v ELSE vecs[k]
  BY <1>1 DEF VecInv, Both
<1>3. VecInv'
  BY <1>2 DEF VecInv
<1>4. \A k \in Holders : Vec!Contents(vecs'[k]) =
        IF k = m THEN Vec!Contents(w) ELSE IF k = n THEN Vec!Contents(v)
        ELSE Vec!Contents(vecs[k])
  BY <1>2
<1>5. Held' = Both(Held, n, m, Vec!Contents(v), Vec!Contents(w))
  BY <1>4, Zenon DEF Held, Both
<1>6. QED
  BY <1>3, <1>5

(* One or two values are a sequence of values.                             *)
LEMMA FewItems ==
  ASSUME NEW s \in UNION {[1 .. k -> Contained] : k \in 1 .. 2}
  PROVE  s \in Seq(Contained)
<1>1. PICK k \in 1 .. 2 : s \in [1 .. k -> Contained]
  OBVIOUS
<1>2. QED
  BY <1>1, MadeSeq

(* What a vector holds is what Held says.                                  *)
LEMMA HeldAre ==
  ASSUME VecInv, NEW n \in Holders
  PROVE  /\ BufferOK(vecs[n]) /\ Held[n] = Vec!Contents(vecs[n])
         /\ Held[n] \in Seq(CellValues) /\ Len(Held[n]) = vecs[n].size
         /\ vecs[n].size \in Nat
<1>1. BufferOK(vecs[n]) /\ Held[n] = Vec!Contents(vecs[n])
  BY DEF VecInv, Held
<1>2. QED
  BY <1>1, ContentsAre

(* Every call does to its vectors what it does to sequences: insert puts   *)
(* items between two others.                                               *)
LEMMA InsertIsOne ==
  ASSUME VecInv, NEW n \in Holders, NEW i \in 0 .. MaxHeld,
         NEW s \in UNION {[1 .. k -> Contained] : k \in 1 .. 2}, Vec!Insert(n, i, s)
  PROVE  VecInv' /\ Vec!Abstract!Insert(n, i, s)
<1> DEFINE v == vecs[n]
           w == Vec!Inserted(v, i, s)
<1>1. BufferOK(v) /\ Held[n] = Vec!Contents(v) /\ Len(Held[n]) = v.size /\ v.size \in Nat
  BY HeldAre
<1>2. i <= v.size /\ vecs' = [vecs EXCEPT ![n] = w] /\ vecResult' = <<"insert", n, i, s>>
  BY Zenon DEF Vec!Insert, Vec!Become
<1>3. i \in 0 .. v.size /\ s \in Seq(Contained)
  BY <1>1, <1>2, FewItems, VectorAssumption
<1>4. BufferOK(w) /\ Vec!Contents(w) = Splice(Vec!Contents(v), i, s)
  BY <1>1, <1>3, InsertedOK
<1> HIDE DEF v, w
<1>5. VecInv' /\ Held' = [Held EXCEPT ![n] = Vec!Contents(w)]
  BY <1>2, <1>4, BecomeOK
<1>6. Held' = [Held EXCEPT ![n] = SubSeq(@, 1, i) \o s \o SubSeq(@, i + 1, Len(@))]
  BY <1>1, <1>4, <1>5, Zenon DEF Splice
<1>7. Vec!Abstract!Insert(n, i, s)
  BY <1>1, <1>2, <1>6, Zenon DEF Held, Vec!Abstract!Insert, Vec!Abstract!Call
<1>8. QED
  BY <1>5, <1>7

(* erase takes one item out.                                               *)
LEMMA EraseIsOne ==
  ASSUME VecInv, NEW n \in Holders, NEW i \in 0 .. MaxHeld, Vec!Erase(n, i)
  PROVE  VecInv' /\ Vec!Abstract!Remove(n, i)
<1> DEFINE v == vecs[n]
           w == Vec!Erased(v, i)
<1>1. BufferOK(v) /\ Held[n] = Vec!Contents(v) /\ Len(Held[n]) = v.size /\ v.size \in Nat
  BY HeldAre
<1>2. i < v.size /\ vecs' = [vecs EXCEPT ![n] = w] /\ vecResult' = <<"remove", n, i, <<>>>>
  BY Zenon DEF Vec!Erase, Vec!Become
<1>3. i \in 0 .. v.size - 1
  BY <1>1, <1>2, VectorAssumption
<1>4. BufferOK(w) /\ Vec!Contents(w) = Without(Vec!Contents(v), i)
  BY <1>1, <1>3, ErasedOK
<1> HIDE DEF v, w
<1>5. VecInv' /\ Held' = [Held EXCEPT ![n] = Vec!Contents(w)]
  BY <1>2, <1>4, BecomeOK
<1>6. Held' = [Held EXCEPT ![n] = SubSeq(@, 1, i) \o SubSeq(@, i + 2, Len(@))]
  BY <1>1, <1>4, <1>5, Zenon DEF Without
<1>7. Vec!Abstract!Remove(n, i)
  BY <1>1, <1>2, <1>6, Zenon DEF Held, Vec!Abstract!Remove, Vec!Abstract!Call
<1>8. QED
  BY <1>5, <1>7

(* operator[] returns the item at its index.                               *)
LEMMA IndexIsOne ==
  ASSUME VecInv, NEW n \in Holders, NEW i \in 0 .. MaxHeld, Vec!Index(n, i)
  PROVE  VecInv' /\ Vec!Abstract!Get(n, i)
<1>1. /\ BufferOK(vecs[n]) /\ Held[n] = Vec!Contents(vecs[n])
      /\ Len(Held[n]) = vecs[n].size /\ vecs[n].size \in Nat
  BY HeldAre
<1>2. /\ i < vecs[n].size /\ vecs' = [vecs EXCEPT ![n] = vecs[n]]
      /\ vecResult' = <<"get", n, i, <<vecs[n].cells[i + 1]>>>>
  BY Zenon DEF Vec!Index, Vec!Become
<1>3. vecs' = vecs
  BY <1>2 DEF VecInv
<1>4. VecInv' /\ Held' = Held
  BY <1>3 DEF VecInv, Held, Vec!Contents
<1>5. i + 1 \in 1 .. vecs[n].size
  BY <1>1, <1>2, VectorAssumption
<1>6. Held[n][i + 1] = vecs[n].cells[i + 1]
  BY <1>1, <1>5, ContentsAre
<1>7. Vec!Abstract!Get(n, i)
  BY <1>1, <1>2, <1>4, <1>6, Zenon DEF Held, Vec!Abstract!Get, Vec!Abstract!Call
<1>8. QED
  BY <1>4, <1>7

(* resize and clear leave as many objects as they are asked for, the old   *)
(* ones first.                                                             *)
LEMMA ResizeIsOne ==
  ASSUME VecInv, NEW n \in Holders, NEW i \in 0 .. MaxHeld, NEW w, BufferOK(w),
         Vec!Become(n, w, <<"resize", n, i, <<>>>>), Len(Vec!Contents(w)) = i,
         \A k \in 1 .. i : k <= Len(Held[n]) => Vec!Contents(w)[k] = Held[n][k]
  PROVE  VecInv' /\ Vec!Abstract!Resize(n, i)
<1>1. vecs' = [vecs EXCEPT ![n] = w] /\ vecResult' = <<"resize", n, i, <<>>>>
  BY Zenon DEF Vec!Become
<1>2. VecInv' /\ Held' = [Held EXCEPT ![n] = Vec!Contents(w)]
  BY <1>1, BecomeOK
<1>3. Held'[n] = Vec!Contents(w)
  BY <1>2 DEF Held
<1>4. Vec!Abstract!Resize(n, i)
  BY <1>1, <1>2, <1>3, Zenon DEF Held, Vec!Abstract!Resize, Vec!Abstract!Call
<1>5. QED
  BY <1>2, <1>4

(* reserve changes nothing that is seen.                                   *)
LEMMA ReserveIsNone ==
  ASSUME VecInv, NEW n \in Holders, NEW i \in 0 .. MaxHeld, Vec!Reserve(n, i)
  PROVE  VecInv' /\ Held' = Held /\ vecResult' = vecResult
<1> DEFINE w == Vec!AllocMem(vecs[n], i)
<1>1. BufferOK(vecs[n]) /\ Held[n] = Vec!Contents(vecs[n])
  BY HeldAre
<1>2. vecs' = [vecs EXCEPT ![n] = w] /\ vecResult' = vecResult
  BY Zenon DEF Vec!Reserve, Vec!Become
<1>3. BufferOK(w) /\ Vec!Contents(w) = Vec!Contents(vecs[n])
  <2>1. i \in Nat
    BY VectorAssumption
  <2>2. QED
    BY <1>1, <2>1, Alloc
<1> HIDE DEF w
<1>4. VecInv' /\ Held' = [Held EXCEPT ![n] = Vec!Contents(w)]
  BY <1>2, <1>3, BecomeOK
<1>5. [Held EXCEPT ![n] = Held[n]] = Held
  BY DEF Held
<1>6. QED
  BY <1>1, <1>2, <1>3, <1>4, <1>5

(* A copy holds what it is made of.                                        *)
LEMMA AssignIsOne ==
  ASSUME VecInv, NEW n \in Holders, NEW m \in Holders, Vec!Assign(n, m)
  PROVE  VecInv' /\ Vec!Abstract!Assign(n, m)
<1> DEFINE w == Vec!Copied(vecs[m])
<1>1. BufferOK(vecs[m]) /\ Held[m] = Vec!Contents(vecs[m])
  BY HeldAre
<1>2. vecs' = [vecs EXCEPT ![n] = w] /\ vecResult' = <<"assign", n, m>>
  BY Zenon DEF Vec!Assign, Vec!Become
<1>3. BufferOK(w) /\ Vec!Contents(w) = Held[m]
  BY <1>1, CopiedOK
<1> HIDE DEF w
<1>4. VecInv' /\ Held' = [Held EXCEPT ![n] = Held[m]]
  BY <1>2, <1>3, BecomeOK
<1>5. Vec!Abstract!Assign(n, m)
  BY <1>2, <1>4, Zenon DEF Held, Vec!Abstract!Assign
<1>6. QED
  BY <1>4, <1>5

(* What a vector is made of is left empty.                                 *)
LEMMA MoveIsOne ==
  ASSUME VecInv, NEW n \in Holders, NEW m \in Holders, Vec!Move(n, m)
  PROVE  VecInv' /\ Vec!Abstract!Move(n, m)
<1>1. BufferOK(vecs[m]) /\ Held[m] = Vec!Contents(vecs[m])
  BY HeldAre
<1>2. /\ vecs' = [vecs EXCEPT ![n] = vecs[m], ![m] = Vec!Empty]
      /\ vecResult' = <<"move", n, m>>
  BY Zenon DEF Vec!Move
<1>3. VecInv' /\ Held' = [Held EXCEPT ![n] = Held[m], ![m] = <<>>]
  <2> DEFINE v == vecs[m]
             w == Vec!Empty
  <2>1. BufferOK(v) /\ Vec!Contents(v) = Held[m] /\ BufferOK(w) /\ Vec!Contents(w) = <<>>
    BY <1>1, EmptyOK
  <2>2. vecs' = Both(vecs, n, m, v, w)
    BY <1>2, Zenon DEF Both
  <2> HIDE DEF v, w
  <2>3. VecInv' /\ Held' = Both(Held, n, m, Vec!Contents(v), Vec!Contents(w))
    BY <2>1, <2>2, BecomeBothOK
  <2>4. QED
    BY <2>1, <2>3, Zenon DEF Both
<1>4. Vec!Abstract!Move(n, m)
  BY <1>2, <1>3, Zenon DEF Held, Vec!Abstract!Move
<1>5. QED
  BY <1>3, <1>4

(* swap gives each what the other held.                                    *)
LEMMA SwapIsOne ==
  ASSUME VecInv, NEW n \in Holders, NEW m \in Holders, Vec!Swap(n, m)
  PROVE  VecInv' /\ Vec!Abstract!Swap(n, m)
<1>1. /\ BufferOK(vecs[m]) /\ Held[m] = Vec!Contents(vecs[m])
      /\ BufferOK(vecs[n]) /\ Held[n] = Vec!Contents(vecs[n])
  BY HeldAre
<1>2. /\ vecs' = [vecs EXCEPT ![n] = vecs[m], ![m] = vecs[n]]
      /\ vecResult' = <<"swap", n, m>>
  BY Zenon DEF Vec!Swap
<1>3. VecInv' /\ Held' = [Held EXCEPT ![n] = Held[m], ![m] = Held[n]]
  <2> DEFINE v == vecs[m]
             w == vecs[n]
  <2>1. BufferOK(v) /\ Vec!Contents(v) = Held[m] /\ BufferOK(w) /\ Vec!Contents(w) = Held[n]
    BY <1>1
  <2>2. vecs' = Both(vecs, n, m, v, w)
    BY <1>2, Zenon DEF Both
  <2> HIDE DEF v, w
  <2>3. VecInv' /\ Held' = Both(Held, n, m, Vec!Contents(v), Vec!Contents(w))
    BY <2>1, <2>2, BecomeBothOK
  <2>4. QED
    BY <2>1, <2>3, Zenon DEF Both
<1>4. Vec!Abstract!Swap(n, m)
  BY <1>2, <1>3, Zenon DEF Held, Vec!Abstract!Swap
<1>5. QED
  BY <1>3, <1>4

(* Whatever is called, the buffers stay right, and what they hold changes  *)
(* as sequences do, or not at all.                                         *)
LEMMA CallsAreOnes ==
  ASSUME VecInv, Vec!Next
  PROVE  VecInv' /\ (Vec!Abstract!Next \/ UNCHANGED <<Held, vecResult>>)
<1>1. PICK n \in Holders :
        \/ Vec!Clear(n)
        \/ \E m \in Holders : Vec!Assign(n, m) \/ Vec!Move(n, m) \/ Vec!Swap(n, m)
        \/ \E i \in 0 .. MaxHeld :
             \/ Vec!Erase(n, i) \/ Vec!Index(n, i) \/ Vec!Resize(n, i) \/ Vec!Reserve(n, i)
             \/ \E s \in UNION {[1 .. k -> Contained] : k \in 1 .. 2} : Vec!Insert(n, i, s)
  BY Zenon DEF Vec!Next
<1>2. CASE Vec!Clear(n)
  <2> DEFINE w == Vec!Cleared(vecs[n])
  <2>1. BufferOK(w) /\ Len(Vec!Contents(w)) = 0
    BY HeldAre, ClearedOK
  <2>2. Vec!Become(n, w, <<"resize", n, 0, <<>>>>)
    BY <1>2, Zenon DEF Vec!Clear
  <2>3. 0 \in 0 .. MaxHeld /\ \A k \in 1 .. 0 : FALSE
    BY VectorAssumption
  <2> HIDE DEF w
  <2>4. VecInv' /\ Vec!Abstract!Resize(n, 0)
    BY <2>1, <2>2, <2>3, ResizeIsOne
  <2>5. QED
    BY <2>3, <2>4, Zenon DEF Vec!Abstract!Next, Vec!Abstract!Indices
<1>3. ASSUME NEW m \in Holders, Vec!Assign(n, m) \/ Vec!Move(n, m) \/ Vec!Swap(n, m)
      PROVE  VecInv' /\ Vec!Abstract!Next
  <2>1. /\ VecInv'
        /\ Vec!Abstract!Assign(n, m) \/ Vec!Abstract!Move(n, m) \/ Vec!Abstract!Swap(n, m)
    BY <1>3, AssignIsOne, MoveIsOne, SwapIsOne
  <2>2. QED
    BY <2>1, Zenon DEF Vec!Abstract!Next
<1>4. ASSUME NEW i \in 0 .. MaxHeld, Vec!Erase(n, i) \/ Vec!Index(n, i)
      PROVE  VecInv' /\ Vec!Abstract!Next
  <2>1. VecInv' /\ (Vec!Abstract!Remove(n, i) \/ Vec!Abstract!Get(n, i))
    BY <1>4, EraseIsOne, IndexIsOne
  <2>2. QED
    BY <2>1, Zenon DEF Vec!Abstract!Next, Vec!Abstract!Indices
<1>5. ASSUME NEW i \in 0 .. MaxHeld, Vec!Resize(n, i)
      PROVE  VecInv' /\ Vec!Abstract!Next
  <2> DEFINE w == Vec!Resized(vecs[n], i)
  <2>1. /\ BufferOK(w) /\ Len(Vec!Contents(w)) = i
        /\ \A k \in 1 .. i : k <= Len(Held[n]) => Vec!Contents(w)[k] = Held[n][k]
    <3>1. i \in Nat
      BY VectorAssumption
    <3>2. BufferOK(vecs[n]) /\ Held[n] = Vec!Contents(vecs[n])
      BY HeldAre
    <3>3. QED
      BY <3>1, <3>2, ResizedOK
  <2>2. Vec!Become(n, w, <<"resize", n, i, <<>>>>)
    BY <1>5, Zenon DEF Vec!Resize
  <2> HIDE DEF w
  <2>3. VecInv' /\ Vec!Abstract!Resize(n, i)
    BY <2>1, <2>2, ResizeIsOne
  <2>4. QED
    BY <2>3, Zenon DEF Vec!Abstract!Next, Vec!Abstract!Indices
<1>6. ASSUME NEW i \in 0 .. MaxHeld, Vec!Reserve(n, i)
      PROVE  VecInv' /\ UNCHANGED <<Held, vecResult>>
  BY <1>6, ReserveIsNone
<1>7. ASSUME NEW i \in 0 .. MaxHeld, NEW s \in UNION {[1 .. k -> Contained] : k \in 1 .. 2},
             Vec!Insert(n, i, s)
      PROVE  VecInv' /\ Vec!Abstract!Next
  <2>1. VecInv' /\ Vec!Abstract!Insert(n, i, s)
    BY <1>7, InsertIsOne
  <2>2. QED
    BY <2>1, Zenon DEF Vec!Abstract!Next, Vec!Abstract!Indices
<1>8. QED
  BY <1>1, <1>2, <1>3, <1>4, <1>5, <1>6, <1>7, Zenon

(* Vectors are made empty.                                                 *)
LEMMA VecInitial ==
  ASSUME Vec!Init
  PROVE  VecInv /\ Held = [n \in Holders |-> <<>>] /\ vecResult = NoCall
<1>1. vecs = [n \in Holders |-> Vec!Empty] /\ vecResult = NoCall
  BY Zenon DEF Vec!Init
<1>2. /\ BufferOK(Vec!Empty) /\ Vec!Contents(Vec!Empty) = <<>>
      /\ Vec!Empty \in [cells : Seq(CellValues), size : Nat]
  BY EmptyOK DEF BufferOK
<1>3. VecInv
  BY <1>1, <1>2 DEF VecInv
<1>4. Held = [n \in Holders |-> <<>>]
  BY <1>1, <1>2, Zenon DEF Held
<1>5. QED
  BY <1>1, <1>3, <1>4

(* Every buffer stays right, whatever is called.                            *)
LEMMA VecInductive == Vec!Spec => []VecInv
<1>1. Vec!Init => VecInv
  BY VecInitial
<1>2. VecInv /\ [Vec!Next]_(Vec!vars) => VecInv'
  <2>1. ASSUME VecInv, Vec!Next PROVE VecInv'
    BY <2>1, CallsAreOnes
  <2>2. ASSUME VecInv, UNCHANGED Vec!vars PROVE VecInv'
    BY <2>2 DEF VecInv, Vec!vars
  <2>3. QED
    BY <2>1, <2>2
<1>3. QED
  BY <1>1, <1>2, PTL DEF Vec!Spec

(* In every vector exactly the first size_ cells of the buffer hold        *)
(* objects: none is used before it is made or destroyed twice, through     *)
(* every reallocation, copy and move.                                      *)
THEOREM ObjectsLiveOnce == Vec!Spec => []Vec!LifetimesExact
<1>1. VecInv => Vec!LifetimesExact
  <2>1. SUFFICES ASSUME VecInv, NEW n \in Holders
                 PROVE  /\ vecs[n].size <= Len(vecs[n].cells)
                        /\ \A i \in DOMAIN vecs[n].cells :
                             (vecs[n].cells[i] # NoCell) <=> i <= vecs[n].size
    BY Zenon DEF Vec!LifetimesExact
  <2> DEFINE v == vecs[n]
  <2>2. BufferOK(v)
    BY <2>1, HeldAre
  <2> HIDE DEF v
  <2>3. DOMAIN v.cells = 1 .. Len(v.cells)
    BY <2>2, LenProperties DEF BufferOK
  <2>4. /\ v.size <= Len(v.cells)
        /\ \A i \in DOMAIN v.cells : (v.cells[i] # NoCell) <=> i <= v.size
    BY <2>2, <2>3 DEF BufferOK
  <2>5. QED
    BY <2>4 DEF v
<1>2. QED
  BY <1>1, VecInductive, PTL

(* Vectors hold and return what sequences would: every call of a vector is *)
(* a step of ItemSeqs, or, when memory is reserved, none.                  *)
THEOREM VectorsAreSequences == Vec!Spec => Vec!ImplementsItemSeqs
<1>1. Vec!Init => Vec!Abstract!Init
  <2>1. Vec!Init => Held = [n \in Holders |-> <<>>] /\ vecResult = NoCall
    BY VecInitial
  <2>2. QED
    BY <2>1, Zenon DEF Held, Vec!Abstract!Init
<1>2. VecInv /\ [Vec!Next]_(Vec!vars) => [Vec!Abstract!Next]_(Vec!Abstract!vars)
  <2>1. ASSUME VecInv, Vec!Next PROVE [Vec!Abstract!Next]_(Vec!Abstract!vars)
    <3>1. Vec!Abstract!Next \/ UNCHANGED <<Held, vecResult>>
      BY <2>1, CallsAreOnes
    <3>2. UNCHANGED <<Held, vecResult>> => UNCHANGED Vec!Abstract!vars
      BY Zenon DEF Held, Vec!Abstract!vars
    <3>3. QED
      BY <3>1, <3>2
  <2>2. ASSUME UNCHANGED Vec!vars PROVE UNCHANGED Vec!Abstract!vars
    BY <2>2 DEF Vec!vars, Vec!Abstract!vars, Vec!Contents
  <2>3. QED
    BY <2>1, <2>2
<1>3. QED
  BY <1>1, <1>2, VecInductive, PTL DEF Vec!Spec, Vec!ImplementsItemSeqs, Vec!Abstract!Spec

=============================================================================
