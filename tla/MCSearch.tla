------------------------------ MODULE MCSearch ------------------------------
(***************************************************************************)
(* Small page files and expressions for module Search.                     *)
(***************************************************************************)
EXTENDS Search

MCWords == {"a", "b"}

Pages(n) == UNION {[1 .. k -> MCWords] : k \in 0 .. n}

(* Files of one and two pages with up to two words, and of three pages,    *)
(* each "b" or "b a"; one page with a word three times, which begins with  *)
(* the phrase Thrice                                                       *)
MCPageFiles ==
  LET few == {<<"b">>, <<"b", "a">>} IN
  {<<p>> : p \in Pages(2)} \cup {<<p, q>> : p, q \in Pages(2)}
    \cup {<<p, q, r>> : p, q, r \in few} \cup {<<<<"a", "a", "a">>>>}

-----------------------------------------------------------------------------
Word(w) == <<"word", w>>
Phrase(ws) == <<"phrase", [i \in DOMAIN ws |-> <<ws[i]>>]>>
All(factors) == <<"and", factors>>
Term(all) == <<"sm", all, <<"null">>>>
Without(all, not) == <<"sm", all, not>>
Or(terms) == <<"or", terms>>
Query(factors) == Or(<<Term(All(factors))>>)

Simple == {Word("a"), Word("b"), Phrase(<<"a", "b">>), Phrase(<<"b", "a">>)}
Nested == {Query(<<f>>) : f \in {Phrase(<<"a", "b">>), Phrase(<<"b", "a">>)}}
            \cup {Or(<<Term(All(<<Word("a")>>)), Term(All(<<Word("b")>>))>>)}
Alls == {All(<<f>>) : f \in Simple \cup Nested}
          \cup {All(<<f, g>>) : f \in Simple, g \in Simple \cup Nested}
Excluding == {Without(All(<<f>>), All(<<g>>)) : f, g \in Simple}

Thrice == Query(<<Phrase(<<"a", "a", "a">>)>>)

(* One term of each kind, two terms, an exclusion within a query, and a    *)
(* phrase of one word                                                      *)
MCExprs ==
  {Or(<<Term(all)>>) : all \in Alls} \cup {Or(<<t>>) : t \in Excluding}
    \cup {Or(<<Term(All(<<f>>)), t>>) : f \in Simple,
             t \in {Term(All(<<Word("b")>>)),
                    Without(All(<<Word("b")>>), All(<<Word("a")>>))}}
    \cup {Query(<<Word("a"), Or(<<t>>)>>) : t \in Excluding} \cup {Thrice}

(* All texts of up to four symbols in which no word follows a word, for    *)
(* one page file.                                                          *)
MCMoreTexts(file) ==
  IF file # <<<<"a", "b">>, <<"b">>>> THEN {}
  ELSE {t \in UNION {[1 .. n -> {"a"} \cup Controls] : n \in 1 .. 4} :
          \A i \in 1 .. Len(t) - 1 : ~ (IsWord(t[i]) /\ IsWord(t[i + 1]))}

(* An answer has the pages that match, with the positions of the words,    *)
(* which count from 1 within the page.  A query with a phrase in which a   *)
(* word is repeated is excepted: its match may be reported in the page     *)
(* before (MatchInOneDocument).                                            *)
AnswersExact == ~ Repeats(expr, 1) => MatchesExact /\ OccurrencesExact

(* Phrases in which a word occurs twice                                    *)
RepeatedExprs == {Query(<<Phrase(<<"a", "a">>)>>), Query(<<Phrase(<<"a", "b", "b">>)>>)}
NoMoreTexts(file) == {}

=============================================================================
