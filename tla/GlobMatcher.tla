------------------------------ MODULE GlobMatcher ------------------------------
(* The matcher of a rule's pattern.  A pattern is a sequence of characters    *)
(* and of the wildcards Star, for any characters, and Question, for one.  It  *)
(* is compiled to tokens, runs of characters and wildcards, which the matcher *)
(* walks once, going back to the last star only.                              *)
EXTENDS Integers, Sequences, SequencesExt

CONSTANTS Star, Question
ASSUME GlobAssumption == Star # Question

Literal(text) == [kind |-> "LITERAL", value |-> text]
Wildcard(symbol) == [kind |-> IF symbol = Star THEN "STAR" ELSE "QUESTION", value |-> <<>>]

(* Neighbouring characters are one token, and so are neighbouring stars.      *)
Added(tokens, symbol) ==
  IF symbol \notin {Star, Question} /\ tokens # <<>> /\ Last(tokens).kind = "LITERAL"
  THEN Append(Front(tokens), Literal(Append(Last(tokens).value, symbol)))
  ELSE IF symbol \notin {Star, Question} THEN Append(tokens, Literal(<<symbol>>))
  ELSE IF symbol = Star /\ tokens # <<>> /\ Last(tokens).kind = "STAR" THEN tokens
  ELSE Append(tokens, Wildcard(symbol))

Compile(pattern) ==
  LET compiled[i \in 0..Len(pattern)] ==
        IF i = 0 THEN <<>> ELSE Added(compiled[i - 1], pattern[i])
  IN  compiled[Len(pattern)]

(* The walk: "t" tokens and "c" characters are behind; "star" is the last     *)
(* star's place and "from" the character it is tried at, 0 when there is none.*)
Start == [t |-> 0, c |-> 0, star |-> 0, from |-> 0, over |-> FALSE]

Backtrack(w) ==
  IF w.star = 0 THEN [w EXCEPT !.over = TRUE]
  ELSE [w EXCEPT !.t = w.star, !.from = w.from + 1, !.c = w.from + 1]

Step(tokens, text, w) ==
  IF w.t = Len(tokens) THEN Backtrack(w)
  ELSE LET token == tokens[w.t + 1]
       IN  CASE token.kind = "LITERAL" ->
                  IF IsPrefix(token.value, SubSeq(text, w.c + 1, Len(text)))
                  THEN [w EXCEPT !.t = @ + 1, !.c = @ + Len(token.value)]
                  ELSE Backtrack(w)
             [] token.kind = "QUESTION" -> [w EXCEPT !.t = @ + 1, !.c = @ + 1]
             [] token.kind = "STAR" -> [w EXCEPT !.t = @ + 1, !.star = w.t + 1, !.from = w.c]

(* The walk ends when the text does; only stars may then be left.             *)
Walk(tokens, text, fuel) ==
  LET walk[n \in 0..fuel] ==
        IF n = 0 THEN Start
        ELSE LET w == walk[n - 1]
             IN  IF w.over \/ w.c >= Len(text) THEN w ELSE Step(tokens, text, w)
  IN  walk[fuel]

Fuel(tokens, text) == (Len(tokens) + 1) * (Len(text) + 2)

MatchGlobTokens(tokens, text) ==
  LET w == Walk(tokens, text, Fuel(tokens, text))
  IN  /\ ~w.over
      /\ w.c = Len(text)
      /\ \A i \in (w.t + 1)..Len(tokens) : tokens[i].kind = "STAR"

Matching(pattern, spelling) ==
  {n \in DOMAIN spelling : MatchGlobTokens(Compile(pattern), spelling[n])}

(* The characters of a pattern, for its rank among others.                    *)
Weight(tokens) == FoldLeft(LAMBDA n, token : n + Len(token.value), 0, tokens)

-----------------------------------------------------------------------------
(* What a pattern means: the text divides into a part for each symbol.  The   *)
(* parts of the first symbols may end at any of a set of places.              *)
Beyond(symbol, text, ends) ==
  IF symbol = Star THEN {j \in 0..Len(text) : \E k \in ends : k <= j}
  ELSE {j \in 0..Len(text) : j - 1 \in ends /\ symbol \in {Question, text[j]}}

Means(pattern, text) ==
  LET ends[i \in 0..Len(pattern)] ==
        IF i = 0 THEN {0} ELSE Beyond(pattern[i], text, ends[i - 1])
  IN  Len(text) \in ends[Len(pattern)]
=============================================================================
