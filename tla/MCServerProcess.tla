--------------------------- MODULE MCServerProcess ---------------------------
(* TLC instance of ServerProcess: two servers, the newer with one migration    *)
(* more, and the script that migrates.                                         *)
EXTENDS ServerProcess

CONSTANTS s1, s2, migrate, a, b

TwoServers == {s1, s2}
OneScript == {migrate}
Builds == (s1 :> 1) @@ (s2 :> 2) @@ (migrate :> 2)
TwoIds == {a, b}

Row(id, editor) == [id |-> id, editor |-> editor]
\* The last page may repeat the row of the first, or contradict it.
RowsOf(page) ==
  IF page = 1 THEN {{}, {Row(a, 1)}}
  ELSE IF page = 2 THEN {{}, {Row(b, 1)}} ELSE {{Row(a, 1)}, {Row(a, 2)}}

Answer(page, total, next, rows, sound) ==
  [page |-> page, total |-> total, next |-> next, rows |-> rows, sound |-> sound]

PagesOfThree ==
  UNION {{Answer(page, 3, next, rows, TRUE) : next \in {None, 1, 2, 3}, rows \in RowsOf(page)} :
           page \in 1..3}
OddPages ==
  {Answer(1, 1, None, {Row(a, 1)}, TRUE), Answer(1, 1, 1, {}, TRUE), Answer(2, 1, None, {}, TRUE),
   Answer(1, 0, None, {}, TRUE), Answer(1, 0, None, {Row(a, 1)}, TRUE),
   Answer(1, 4, 2, {}, TRUE), Answer(1, 1, None, {}, FALSE)}
AllAnswers == PagesOfThree \cup OddPages
==============================================================================
