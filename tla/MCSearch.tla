------------------------------ MODULE MCSearch ------------------------------
(***************************************************************************)
(* Small instances of Search: two files, two columns, texts of few words.  *)
(***************************************************************************)
EXTENDS Search

CONSTANTS f1, f2, text, title, ant, ants, bee, decomposed

\* The tokens "ant", "ants" and "bee"; decomposed is "ant" in another
\* normal form, whose raw text does not contain the token.
MCTermOf == [w \in Words |-> CASE w = ants -> 2 [] w = bee -> 3 [] OTHER -> 1]
MCLike ==
  [w \in Words |-> CASE w = ant -> {1} [] w = ants -> {1, 2} [] w = bee -> {3} [] OTHER -> {}]

\* The letters of the tokens: a = 1, b = 2, e = 3, n = 4, s = 5, t = 6.
MCChars == <<<<1, 4, 6>>, <<1, 4, 6, 5>>, <<2, 3, 3>>>>

Of(words) == [null |-> FALSE, words |-> words]
Cells == {NullCell, Of(<<ant>>), Of(<<ants, bee>>), Of(<<bee, bee>>)}
Group(cells, first_rows) == [cells |-> cells, first_rows |-> first_rows]

\* One row group of three rows, in one, two or three pages.
Long == {Group(cells, first_rows) :
           cells \in Cells \X {NullCell, Of(<<ant>>)} \X {NullCell, Of(<<bee, bee>>)},
           first_rows \in {<<0>>, <<0, 1>>, <<0, 2>>, <<0, 1, 2>>}}

\* Eight rows in pages of their own: posting lists of several blocks, and
\* one whose packed deltas take two bytes.
Wide == Group([r \in 1..8 |-> Of(IF r \in {1, 2, 7} THEN <<bee, ant>> ELSE <<bee>>)],
              <<0, 1, 2, 3, 4, 5, 6, 7>>)

\* Row groups of one row.
Short == {Group(<<cell>>, <<0>>) : cell \in Cells}
Title == <<Group(<<Of(<<ants>>)>>, <<0>>)>>

MCContents ==
  {[f \in Files |-> [c \in Columns |->
      IF c = title THEN Title ELSE IF f = f1 THEN <<long>> ELSE <<first, second>>]] :
     long \in Long \cup {Wide}, first \in Short, second \in {Group(<<Of(<<ant>>)>>, <<0>>), Group(<<NullCell>>, <<0>>)}}

\* Both files hold one word.
OneWord ==
  {[f \in Files |-> [c \in Columns |-> <<Group(<<Of(<<word>>)>>, <<0>>)>>]] : word \in Words}

\* The files indexed alone for one column and together for the other, or the
\* other way round.
MCJobSets ==
  {{[files |-> <<f1>>, column |-> text], [files |-> <<f2>>, column |-> text],
    [files |-> <<f2, f1>>, column |-> title]},
   {[files |-> <<f2, f1>>, column |-> text], [files |-> <<f1>>, column |-> title]}}

\* A checksum that two files may share: the sum of what is in their numbers
\* and bytes.  It finds any change of one of those.
MCCrc(slots) ==
  LET sum[n \in 0..Len(slots)] ==
        IF n = 0 THEN 0
        ELSE sum[n - 1] + IF slots[n][1] \in {"number", "byte"} THEN slots[n][2] ELSE 0
  IN <<"crc", sum[Len(slots)]>>

\* The magic at the end, the checksum, and the rows of the last page.
MCDamages ==
  {[slot |-> 0, value |-> <<"magic", "other">>], [slot |-> 1, value |-> <<"crc", 0>>],
   [slot |-> 10, value |-> U(0)]}

MCQueries ==
  [column : Columns, operator : {"and", "or"},
   terms : {<<>>, <<1>>, <<2>>, <<1, 3>>, <<3, 2>>, <<3, 3>>, <<1, 2, 3>>}]
=============================================================================
