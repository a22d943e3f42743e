---------------------------- MODULE QueryParser -----------------------------
(***************************************************************************)
(* From the text of a query to an expression                               *)
(* (include/parse/tokenstream.hpp, query_parser.hpp, expression.hpp).      *)
(*                                                                         *)
(* A text is a sequence of symbols: the control characters, the space and  *)
(* whole words.  Two words are never next to each other.  An expression is *)
(* a tuple: <<"word", w>>, <<"phrase", words>>, <<"and", factors>>,        *)
(* <<"sm", toReturn, notToReturn>>, <<"or", terms>>.                       *)
(***************************************************************************)
EXTENDS Naturals, Sequences, SequencesExt

Controls == {"(", ")", "|", "\\", "\"", " "}

IsWord(s) == s \notin Controls

(* Mutant of NeedsSpace: a word next to a parenthesis is forgotten.        *)
NeedsSpaceWords(l, r) ==
  \/ IsWord(l) /\ IsWord(r)
  \/ l = ")" /\ r = "\""

(* Where the constructor of TokenStream puts a space between two pieces of *)
(* the input that white space separates                                    *)
NeedsSpace(l, r) ==
  \/ IsWord(l) /\ IsWord(r)
  \/ IsWord(l) /\ r = "("
  \/ l = ")" /\ (IsWord(r) \/ r = "\"")

(* TokenStream: the pieces of the text, with the spaces that mean AND or   *)
(* separate the words of a phrase                                          *)
TokenStream(text) ==
  LET Take(acc, s) ==
        IF s = " " THEN [acc EXCEPT !.gap = TRUE]
        ELSE [gap |-> FALSE,
              input |-> IF acc.gap /\ acc.input # <<>>
                             /\ NeedsSpace(Last(acc.input), s)
                          THEN acc.input \o <<" ", s>>
                          ELSE Append(acc.input, s)]
  IN FoldLeft(Take, [gap |-> FALSE, input |-> <<>>], text).input

-----------------------------------------------------------------------------
(* The recursive descent.  A result is an expression with the place where  *)
(* the stream is, or NotFound, the null pointer.                           *)
NotFound == [expr |-> <<"null">>, at |-> 0]
Found(r) == r # NotFound

Match(in, at, c) == at <= Len(in) /\ in[at] = c

RECURSIVE FindPhrase(_, _, _)
RECURSIVE FindOr(_, _)
RECURSIVE MoreFactors(_, _)
RECURSIVE MoreTerms(_, _)

(* The loop over the words of a phrase.  A piece ends at a space or at the *)
(* quote, and holds any other control character.                           *)
FindPhrase(in, at, terms) ==
  LET stop == {i \in at .. Len(in) : in[i] \in {" ", "\""}}
      end == IF stop = {} THEN Len(in) + 1
             ELSE CHOOSE i \in stop : \A j \in stop : i <= j
      more == Append(terms, SubSeq(in, at, end - 1))
  IN IF end = at THEN NotFound
     ELSE IF Match(in, end, "\"")
       THEN [expr |-> <<"phrase", more>>, at |-> end + 1]
       ELSE FindPhrase(in, IF Match(in, end, " ") THEN end + 1 ELSE end, more)

FindFactor(in, at) ==
  IF Match(in, at, "(")
    THEN LET r == FindOr(in, at + 1) IN
         IF Found(r) /\ Match(in, r.at, ")")
           THEN [r EXCEPT !.at = @ + 1] ELSE NotFound
  ELSE IF Match(in, at, "\"") THEN FindPhrase(in, at + 1, <<>>)
  ELSE IF at <= Len(in) /\ IsWord(in[at])
    THEN [expr |-> <<"word", in[at]>>, at |-> at + 1]
    ELSE NotFound

(* Factors that a space separates                                          *)
MoreFactors(in, r) ==
  IF ~ Match(in, r.at, " ") THEN r
  ELSE LET f == FindFactor(in, r.at + 1) IN
       IF ~ Found(f) THEN NotFound
       ELSE MoreFactors(in, [expr |-> <<"and", Append(r.expr[2], f.expr)>>,
                             at |-> f.at])

FindAnd(in, at) ==
  LET f == FindFactor(in, at) IN
  IF ~ Found(f) THEN NotFound
  ELSE MoreFactors(in, [expr |-> <<"and", <<f.expr>>>>, at |-> f.at])

(* Set minus: at most one exclusion                                        *)
FindSM(in, at) ==
  LET l == FindAnd(in, at) IN
  IF ~ Found(l) THEN NotFound
  ELSE IF ~ Match(in, l.at, "\\")
    THEN [l EXCEPT !.expr = <<"sm", @, <<"null">>>>]
  ELSE LET r == FindAnd(in, l.at + 1) IN
       IF ~ Found(r) THEN NotFound
       ELSE [r EXCEPT !.expr = <<"sm", l.expr, @>>]

MoreTerms(in, r) ==
  IF ~ Match(in, r.at, "|") THEN r
  ELSE LET t == FindSM(in, r.at + 1) IN
       IF ~ Found(t) THEN NotFound
       ELSE MoreTerms(in, [expr |-> <<"or", Append(r.expr[2], t.expr)>>,
                           at |-> t.at])

FindOr(in, at) ==
  LET t == FindSM(in, at) IN
  IF ~ Found(t) THEN NotFound
  ELSE MoreTerms(in, [expr |-> <<"or", <<t.expr>>>>, at |-> t.at])

(* Mutant of Parse: what follows an expression is ignored.                 *)
ParseFirst(text) == FindOr(TokenStream(text), 1).expr

(* Parse: the whole text must be one expression.                           *)
Parse(text) ==
  LET in == TokenStream(text)
      r == FindOr(in, 1)
  IN IF Found(r) /\ r.at = Len(in) + 1 THEN r.expr ELSE <<"null">>

-----------------------------------------------------------------------------
(* The way back: an expression as a text, with the given sequences of      *)
(* symbols around operators and between factors.                           *)
Joined(seqs, sep) ==
  FoldLeft(LAMBDA s, t : IF s = <<>> THEN t ELSE s \o sep \o t, <<>>, seqs)

RECURSIVE Text(_, _)
Text(e, gap) ==
  CASE e[1] = "word"   -> <<e[2]>>
    [] e[1] = "phrase" -> <<"\"">> \o Joined(e[2], <<" ">>) \o <<"\"">>
    [] e[1] = "and" ->
         Joined([i \in DOMAIN e[2] |->
                   IF e[2][i][1] = "or"
                     THEN <<"(">> \o gap \o Text(e[2][i], gap) \o gap \o <<")">>
                     ELSE Text(e[2][i], gap)], <<" ">>)
    [] e[1] = "sm" ->
         IF e[3] = <<"null">> THEN Text(e[2], gap)
         ELSE Text(e[2], gap) \o gap \o <<"\\">> \o gap \o Text(e[3], gap)
    [] e[1] = "or" ->
         Joined([i \in DOMAIN e[2] |-> Text(e[2][i], gap)],
                gap \o <<"|">> \o gap)

=============================================================================
