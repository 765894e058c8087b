--------------------------- MODULE TerminalProofs ---------------------------
(***************************************************************************)
(* The screen shows the end of everything ever written, for a screen of    *)
(* any size and writes of any length.  One character keeps the screen and  *)
(* the paper in step; the loop over the string keeps them by induction.    *)
(***************************************************************************)
EXTENDS Terminal, SequenceTheorems, WellFoundedInduction, TLAPS

(* The screen has a row and a column.                                      *)
LEMMA Sizes == MaxRow \in Nat \ {0} /\ MaxCol \in Nat \ {0}
  BY TerminalAssumption

-----------------------------------------------------------------------------
(* A screen and a position in step with a roll of paper.                   *)
TopOf(rows) == IF Len(rows) > MaxRow THEN Len(rows) - MaxRow ELSE 0

Glyph(rows, i, c) == IF i <= Len(rows) /\ c < Len(rows[i])
                     THEN rows[i][c + 1] ELSE Blank

PaperType(rows) == rows \in Seq(Seq(Chars)) /\ Len(rows) > 0

(* The column may be the one behind the last, until the line is broken.    *)
Typing(t, rows) ==
  /\ t \in [screen : [Rows -> [Cols -> Chars \cup {Blank}]], row : Rows,
            col : 0 .. MaxCol]
  /\ PaperType(rows)
  /\ t.row = Len(rows) - TopOf(rows) - 1
  /\ t.col = Len(rows[Len(rows)])
  /\ \A r \in Rows, c \in Cols :
       t.screen[r][c] = Glyph(rows, TopOf(rows) + r + 1, c)

InStep(t, rows) == Typing(t, rows) /\ t.col < MaxCol

(* Append, position by position.                                           *)
LEMMA AppendFacts ==
  ASSUME NEW S, NEW q \in Seq(S), NEW c \in S
  PROVE  /\ Append(q, c) \in Seq(S) /\ Len(Append(q, c)) = Len(q) + 1
         /\ \A i \in 1 .. Len(q) : Append(q, c)[i] = q[i]
         /\ Append(q, c)[Len(q) + 1] = c
         /\ Len(q) \in Nat
  BY AppendProperties, LenProperties

(* A sequence with one element replaced.                                   *)
LEMMA ExceptFacts ==
  ASSUME NEW S, NEW q \in Seq(S), NEW i \in 1 .. Len(q), NEW e \in S,
         NEW f, f = [q EXCEPT ![i] = e]
  PROVE  /\ f \in Seq(S) /\ Len(f) = Len(q)
         /\ \A j \in 1 .. Len(q) : f[j] = IF j = i THEN e ELSE q[j]
  BY ExceptSeq

(* A line break is one on the paper, whether the screen scrolls or not.    *)
LEMMA NewLineInStep ==
  ASSUME NEW t, NEW rows, Typing(t, rows)
  PROVE  InStep(NewLine(t), Append(rows, <<>>))
  <1> DEFINE L == Len(rows)
             more == Append(rows, <<>>)
  <1> SUFFICES InStep(NewLine(t), more)
    OBVIOUS
  <1>1. /\ MaxRow \in Nat \ {0} /\ MaxCol \in Nat \ {0}
        /\ L \in Nat /\ L > 0 /\ rows \in Seq(Seq(Chars))
    BY Sizes, LenProperties DEF Typing, PaperType
  <1>2. /\ more \in Seq(Seq(Chars)) /\ Len(more) = L + 1
        /\ \A i \in 1 .. L : more[i] = rows[i]
        /\ more[L + 1] = <<>>
    <2>1. <<>> \in Seq(Chars)
      BY EmptySeq
    <2> QED BY <1>1, <2>1, AppendFacts
  <1>3. Len(<<>>) = 0
    OBVIOUS
  <1>4. /\ t.screen \in [Rows -> [Cols -> Chars \cup {Blank}]] /\ t.row \in Rows
        /\ t.row = L - TopOf(rows) - 1
        /\ \A r \in Rows, c \in Cols :
             t.screen[r][c] = Glyph(rows, TopOf(rows) + r + 1, c)
    BY DEF Typing
  <1> HIDE DEF more, L
  <1>5. \A i \in Nat, c \in Cols : i > 0 => Glyph(more, i, c) = Glyph(rows, i, c)
    <2> SUFFICES ASSUME NEW i \in Nat, NEW c \in Cols, i > 0
                 PROVE  Glyph(more, i, c) = Glyph(rows, i, c)
      OBVIOUS
    <2>1. CASE i <= L
      BY <1>1, <1>2, <2>1 DEF Glyph, L
    <2>2. CASE i = L + 1
      BY <1>1, <1>2, <1>3, <2>2 DEF Glyph, L, Cols
    <2>3. CASE i > L + 1
      BY <1>1, <1>2, <2>3 DEF Glyph, L
    <2> QED BY <1>1, <2>1, <2>2, <2>3
  <1>6. \A i \in Nat, c \in Cols : i > L => Glyph(rows, i, c) = Blank
    BY <1>1 DEF Glyph, L
  <1>7. PaperType(more) /\ Len(more[Len(more)]) = 0
    BY <1>1, <1>2, <1>3 DEF PaperType
  <1>8. CASE t.row + 1 = MaxRow
    <2>1. /\ NewLine(t).screen = ScrollScreen(t.screen)
          /\ NewLine(t).row = MaxRow - 1 /\ NewLine(t).col = 0
          /\ NewLine(t) = [screen |-> ScrollScreen(t.screen), row |-> MaxRow - 1,
                           col |-> 0]
      BY <1>8 DEF NewLine
    <2>2. L >= MaxRow /\ TopOf(rows) = L - MaxRow /\ TopOf(more) = L + 1 - MaxRow
      <3>1. TopOf(rows) = IF L > MaxRow THEN L - MaxRow ELSE 0
        BY DEF TopOf, L
      <3>2. TopOf(more) = IF L + 1 > MaxRow THEN L + 1 - MaxRow ELSE 0
        <4>1. Len(more) = L + 1 /\ L \in Nat /\ MaxRow \in Nat
          BY <1>1, <1>2
        <4> QED BY <4>1 DEF TopOf
      <3>3. t.row = MaxRow - 1 /\ MaxRow \in Nat \ {0} /\ L \in Nat
        BY <1>1, <1>4, <1>8 DEF Rows
      <3>4. L >= MaxRow
        BY <1>4, <3>1, <3>3
      <3> QED BY <3>1, <3>2, <3>3, <3>4
    <2>3. ScrollScreen(t.screen) \in [Rows -> [Cols -> Chars \cup {Blank}]]
      <3>1. BlankRow \in [Cols -> Chars \cup {Blank}]
        BY DEF BlankRow
      <3>2. \A r \in Rows : r # MaxRow - 1 => r + 1 \in Rows
        BY <1>1 DEF Rows
      <3>3. \A r \in Rows : r # MaxRow - 1
                => t.screen[r + 1] \in [Cols -> Chars \cup {Blank}]
        BY <1>4, <3>2
      <3> DEFINE Lines == [Cols -> Chars \cup {Blank}]
      <3> HIDE DEF Lines
      <3> QED BY <3>1, <3>3 DEF ScrollScreen, Lines
    <2>4. ASSUME NEW r \in Rows, NEW c \in Cols
          PROVE  ScrollScreen(t.screen)[r][c] = Glyph(more, TopOf(more) + r + 1, c)
      <3>1. TopOf(more) + r + 1 \in Nat /\ TopOf(more) + r + 1 > 0
        BY <1>1, <2>2 DEF Rows
      <3>2. CASE r = MaxRow - 1
        <4>1. ScrollScreen(t.screen)[r][c] = Blank
          BY <3>2 DEF ScrollScreen, BlankRow
        <4>2. TopOf(more) + r + 1 > L
          BY <1>1, <2>2, <3>2
        <4> QED BY <1>5, <1>6, <3>1, <4>1, <4>2
      <3>3. CASE r # MaxRow - 1
        <4>1. r + 1 \in Rows /\ TopOf(rows) + (r + 1) + 1 = TopOf(more) + r + 1
          BY <1>1, <2>2, <3>3 DEF Rows
        <4>2. ScrollScreen(t.screen)[r][c] = t.screen[r + 1][c]
          BY <3>3 DEF ScrollScreen
        <4>3. t.screen[r + 1][c] = Glyph(rows, TopOf(rows) + (r + 1) + 1, c)
          BY <1>4, <4>1
        <4> QED BY <1>5, <3>1, <4>1, <4>2, <4>3
      <3> QED BY <3>2, <3>3
    <2>5. MaxRow - 1 \in Rows /\ 0 \in 0 .. MaxCol /\ 0 < MaxCol
          /\ MaxRow - 1 = Len(more) - TopOf(more) - 1
      BY <1>1, <1>2, <2>2 DEF Rows
    <2>6. Typing(NewLine(t), more)
      BY <1>7, <2>1, <2>3, <2>4, <2>5 DEF Typing
    <2> QED BY <2>1, <2>5, <2>6 DEF InStep
  <1>9. CASE t.row + 1 # MaxRow
    <2>1. NewLine(t) = [t EXCEPT !.row = @ + 1, !.col = 0]
      BY <1>9 DEF NewLine
    <2>2. NewLine(t) = [screen |-> t.screen, row |-> t.row + 1, col |-> 0]
      BY <2>1 DEF Typing
    <2>3. L < MaxRow /\ TopOf(rows) = 0 /\ TopOf(more) = 0
      <3>1. TopOf(rows) = IF L > MaxRow THEN L - MaxRow ELSE 0
        BY DEF TopOf, L
      <3>2. TopOf(more) = IF L + 1 > MaxRow THEN L + 1 - MaxRow ELSE 0
        <4>1. Len(more) = L + 1 /\ L \in Nat /\ MaxRow \in Nat
          BY <1>1, <1>2
        <4> QED BY <4>1 DEF TopOf
      <3>3. t.row \in 0 .. MaxRow - 2 /\ MaxRow \in Nat \ {0} /\ L \in Nat
        BY <1>1, <1>4, <1>9 DEF Rows
      <3>4. L < MaxRow
        BY <1>4, <3>1, <3>3
      <3> QED BY <3>1, <3>2, <3>3, <3>4
    <2>4. t.row + 1 \in Rows /\ t.row + 1 = Len(more) - TopOf(more) - 1
          /\ 0 \in 0 .. MaxCol /\ 0 < MaxCol
      BY <1>1, <1>2, <1>4, <1>9, <2>3 DEF Rows
    <2>5. ASSUME NEW r \in Rows, NEW c \in Cols
          PROVE  t.screen[r][c] = Glyph(more, TopOf(more) + r + 1, c)
      <3>1. TopOf(more) + r + 1 \in Nat /\ TopOf(more) + r + 1 > 0
            /\ TopOf(more) + r + 1 = TopOf(rows) + r + 1
        BY <1>1, <2>3 DEF Rows
      <3> QED BY <1>4, <1>5, <3>1
    <2>6. Typing(NewLine(t), more)
      BY <1>4, <1>7, <2>2, <2>4, <2>5 DEF Typing
    <2> QED BY <2>2, <2>4, <2>6 DEF InStep
  <1> QED BY <1>8, <1>9

(* A character is put where the cursor is.                                 *)
LEMMA PutInStep ==
  ASSUME NEW t, NEW rows, InStep(t, rows), NEW ch \in Chars
  PROVE  LET last == Len(rows)
             full == [rows EXCEPT ![last] = Append(@, ch)]
             shown == [t EXCEPT !.screen = [@ EXCEPT ![t.row][t.col] = ch],
                                !.col = @ + 1]
         IN /\ Typing(shown, full)
            /\ shown.col = t.col + 1 /\ Len(full[last]) = t.col + 1
  <1> DEFINE L == Len(rows)
             full == [rows EXCEPT ![L] = Append(@, ch)]
             shown == [t EXCEPT !.screen = [@ EXCEPT ![t.row][t.col] = ch],
                                !.col = @ + 1]
             Lines == [Cols -> Chars \cup {Blank}]
             longer == Append(rows[L], ch)
  <1>1. /\ MaxRow \in Nat \ {0} /\ MaxCol \in Nat \ {0}
        /\ L \in Nat /\ L > 0 /\ rows \in Seq(Seq(Chars))
    BY Sizes, LenProperties DEF InStep, Typing, PaperType
  <1>2. rows[L] \in Seq(Chars) /\ rows \in [1 .. L -> Seq(Chars)] /\ L \in 1 .. L
    BY <1>1, LenProperties, ElementOfSeq
  <1>3. /\ t \in [screen : [Rows -> Lines], row : Rows, col : 0 .. MaxCol]
        /\ t.row = L - TopOf(rows) - 1 /\ t.col = Len(rows[L]) /\ t.col < MaxCol
        /\ \A r \in Rows, c \in Cols :
             t.screen[r][c] = Glyph(rows, TopOf(rows) + r + 1, c)
    BY DEF InStep, Typing
  <1>4. /\ longer \in Seq(Chars)
        /\ Len(longer) = t.col + 1
        /\ \A i \in 1 .. t.col : longer[i] = rows[L][i]
        /\ longer[t.col + 1] = ch
    BY <1>2, <1>3, AppendFacts
  <1>5. /\ full \in Seq(Seq(Chars)) /\ Len(full) = L
        /\ \A i \in 1 .. L : full[i] = IF i = L THEN longer ELSE rows[i]
    <2> HIDE DEF longer
    <2>1. longer \in Seq(Chars) /\ full = [rows EXCEPT ![L] = longer]
      BY <1>4 DEF longer
    <2> HIDE DEF full
    <2> QED BY <1>1, <1>2, <2>1, ExceptFacts
  <1> HIDE DEF full, longer
  <1>6. full \in Seq(Seq(Chars)) /\ Len(full) = L
    BY <1>5
  <1>7. t.row \in Rows /\ t.col \in Cols /\ t.col \in Nat
    BY <1>1, <1>3 DEF Cols
  <1> DEFINE scr == [t.screen EXCEPT ![t.row][t.col] = ch]
  <1>8. shown = [screen |-> scr, row |-> t.row, col |-> t.col + 1]
    <2>1. shown = [t EXCEPT !.screen = scr, !.col = @ + 1]
      OBVIOUS
    <2> HIDE DEF shown, scr, Lines
    <2> QED BY <1>3, <2>1
  <1>9. /\ scr \in [Rows -> Lines]
        /\ \A r \in Rows, c \in Cols :
             scr[r][c] = IF r = t.row /\ c = t.col THEN ch ELSE t.screen[r][c]
    BY <1>3, <1>7
  <1> HIDE DEF shown, scr
  <1>10. TopOf(full) = TopOf(rows) /\ TopOf(rows) + t.row + 1 = L /\ TopOf(rows) \in Nat
    <2>1. TopOf(rows) = IF L > MaxRow THEN L - MaxRow ELSE 0
      BY DEF TopOf, L
    <2>2. TopOf(full) = IF L > MaxRow THEN L - MaxRow ELSE 0
      BY <1>6 DEF TopOf
    <2>3. t.row = L - TopOf(rows) - 1 /\ t.row \in Nat
      BY <1>1, <1>3, <1>7 DEF Rows
    <2>4. L \in Nat /\ MaxRow \in Nat
      BY <1>1
    <2> HIDE DEF L
    <2> QED BY <2>1, <2>2, <2>3, <2>4
  <1>11. ASSUME NEW r \in Rows, NEW c \in Cols
         PROVE  scr[r][c] = Glyph(full, TopOf(rows) + r + 1, c)
    <2> DEFINE i == TopOf(rows) + r + 1
    <2>1. i \in Nat /\ i > 0 /\ c \in Nat /\ (i = L <=> r = t.row)
      <3>1. r \in Nat /\ t.row \in Nat /\ c \in Nat
        BY <1>1, <1>7 DEF Rows, Cols
      <3>2. L \in Nat
        BY <1>1
      <3> HIDE DEF L
      <3> QED BY <1>10, <3>1, <3>2
    <2>2. t.screen[r][c] = Glyph(rows, i, c)
      BY <1>3
    <2> HIDE DEF i
    <2>3. CASE i # L
      <3>1. Glyph(full, i, c) = Glyph(rows, i, c)
        <4>1. i <= L => full[i] = rows[i]
          BY <1>1, <1>5, <2>1, <2>3
        <4> QED BY <1>6, <4>1 DEF Glyph
      <3> QED BY <1>9, <2>1, <2>2, <2>3, <3>1 DEF i
    <2>4. CASE i = L
      <3>1. full[L] = longer
        BY <1>2, <1>5
      <3>2. Glyph(rows, L, c) = IF c < t.col THEN rows[L][c + 1] ELSE Blank
        BY <1>1, <1>3 DEF Glyph
      <3>3. Glyph(full, L, c) = IF c < t.col + 1 THEN longer[c + 1]
                                ELSE Blank
        BY <1>1, <1>4, <1>6, <3>1 DEF Glyph
      <3>4. CASE c < t.col
        <4>1. c + 1 \in 1 .. t.col /\ c < t.col + 1
          BY <1>7, <2>1, <3>4
        <4>2. c # t.col
          BY <1>7, <2>1, <3>4
        <4> QED BY <1>4, <1>9, <2>2, <2>4, <3>2, <3>3, <3>4, <4>1, <4>2 DEF i
      <3>5. CASE c = t.col
        <4>1. c < t.col + 1
          BY <1>7, <3>5
        <4> QED BY <1>4, <1>9, <2>1, <2>4, <3>3, <3>5, <4>1 DEF i
      <3>6. CASE c > t.col
        <4>1. ~(c < t.col + 1) /\ ~(c < t.col) /\ c # t.col
          BY <1>7, <2>1, <3>6
        <4> QED BY <1>9, <2>2, <2>4, <3>2, <3>3, <4>1 DEF i
      <3> QED BY <1>7, <2>1, <3>4, <3>5, <3>6
    <2> QED BY <2>3, <2>4
  <1>12. shown \in [screen : [Rows -> Lines], row : Rows, col : 0 .. MaxCol]
    <2>1. t.col + 1 \in 0 .. MaxCol
      BY <1>1, <1>3, <1>7
    <2> HIDE DEF Lines
    <2> QED BY <1>7, <1>8, <1>9, <2>1
  <1>13. Len(full[L]) = t.col + 1 /\ shown.col = t.col + 1
    BY <1>2, <1>4, <1>5, <1>8
  <1>14. Typing(shown, full)
    BY <1>1, <1>3, <1>6, <1>8, <1>10, <1>11, <1>12, <1>13 DEF Typing, PaperType
  <1> QED BY <1>13, <1>14 DEF full, shown

(* One character is shown as it is typed on the paper.                     *)
LEMMA ShowInStep ==
  ASSUME NEW t, NEW rows, InStep(t, rows), NEW ch \in Chars \cup {Newline}
  PROVE  InStep(Show(t, ch), OnPaper(rows, ch))
  <1>1. CASE ch = Newline
    <2>1. InStep(NewLine(t), Append(rows, <<>>))
      BY NewLineInStep DEF InStep
    <2> QED BY <1>1, <2>1 DEF Show, OnPaper
  <1>2. CASE ch # Newline
    <2> DEFINE full == [rows EXCEPT ![Len(rows)] = Append(@, ch)]
               shown == [t EXCEPT !.screen = [@ EXCEPT ![t.row][t.col] = ch],
                                !.col = @ + 1]
    <2>1. /\ Typing(shown, full)
          /\ shown.col = t.col + 1 /\ Len(full[Len(rows)]) = t.col + 1
      BY <1>2, PutInStep
    <2>2. Show(t, ch) = IF shown.col = MaxCol THEN NewLine(shown) ELSE shown
      BY <1>2 DEF Show
    <2>3. OnPaper(rows, ch) = IF Len(full[Len(rows)]) = MaxCol THEN Append(full, <<>>)
                              ELSE full
      BY <1>2 DEF OnPaper
    <2> HIDE DEF full, shown
    <2>4. CASE shown.col = MaxCol
      <3>1. InStep(NewLine(shown), Append(full, <<>>))
        BY <2>1, NewLineInStep
      <3> QED BY <2>1, <2>2, <2>3, <2>4, <3>1
    <2>5. CASE shown.col # MaxCol
      <3>1. shown.col < MaxCol
        <4>1. shown.col \in 0 .. MaxCol
          BY <2>1 DEF Typing
        <4> QED BY <2>5, <4>1, Sizes
      <3>2. InStep(shown, full)
        BY <2>1, <3>1 DEF InStep
      <3> QED BY <2>1, <2>2, <2>3, <2>5, <3>2
    <2> QED BY <2>4, <2>5
  <1> QED BY <1>1, <1>2

-----------------------------------------------------------------------------
(* Induction over the natural numbers, for a set of them instead of a      *)
(* predicate.                                                              *)
LEMMA LeastNumber ==
  ASSUME NEW T, T \subseteq Nat, T # {}
  PROVE  \E x \in T : \A y \in T : x <= y
  <1> DEFINE R == OpToRel(<, Nat)
  <1>1. IsWellFoundedOn(R, Nat)
    BY NatLessThanWellFounded
  <1>2. \A x, y \in Nat : x < y => <<x, y>> \in R
    BY DEF OpToRel
  <1> HIDE DEF R
  <1>3. PICK x \in T : \A y \in T : ~(<<y, x>> \in R)
    BY <1>1, WFMin
  <1>4. ASSUME NEW y \in T PROVE x <= y
    <2>1. ~(y < x)
      BY <1>2, <1>3
    <2> QED BY <2>1
  <1> QED BY <1>4

(* A set of numbers that has 0 and every successor has them all.           *)
LEMMA SetInduction ==
  ASSUME NEW T, 0 \in T, \A n \in Nat : n \in T => n + 1 \in T
  PROVE  \A n \in Nat : n \in T
  <1> SUFFICES ASSUME Nat \ T # {} PROVE FALSE
    OBVIOUS
  <1>1. PICK x \in Nat \ T : \A y \in Nat \ T : x <= y
    BY LeastNumber
  <1>2. x - 1 \in Nat /\ x - 1 \in T
    BY <1>1
  <1> QED BY <1>1, <1>2

(* What the loop over the string makes of the screen and of the paper.     *)
Showing(f, t, str, n) ==
  f = [k \in 0 .. n |-> IF k = 0 THEN t ELSE Show(f[k - 1], str[k])]

Rolling(f, rows, str, n) ==
  f = [k \in 0 .. n |-> IF k = 0 THEN rows ELSE OnPaper(f[k - 1], str[k])]

(* The loop over a string, as a function of the number of characters       *)
(* shown.                                                                  *)
LEMMA ShowingExists ==
  ASSUME NEW t, NEW str
  PROVE  \A n \in Nat : \E f : Showing(f, t, str, n)
  <1> DEFINE T == {n \in Nat : \E f : Showing(f, t, str, n)}
  <1>1. 0 \in T
    <2> DEFINE f == [k \in 0 .. 0 |-> t]
    <2>1. Showing(f, t, str, 0)
      BY DEF Showing
    <2> QED BY <2>1
  <1>2. ASSUME NEW n \in Nat, n \in T PROVE n + 1 \in T
    <2>1. PICK f : Showing(f, t, str, n)
      BY <1>2
    <2> DEFINE g == [k \in 0 .. n + 1 |-> IF k = 0 THEN t ELSE Show(f[k - 1], str[k])]
    <2>2. \A k \in 0 .. n + 1 : g[k] = IF k = 0 THEN t ELSE Show(f[k - 1], str[k])
      OBVIOUS
    <2>3. \A k \in 0 .. n : f[k] = IF k = 0 THEN t ELSE Show(f[k - 1], str[k])
      BY <2>1 DEF Showing
    <2>4. Showing(g, t, str, n + 1)
      <3> SUFFICES [k \in 0 .. n + 1 |-> IF k = 0 THEN t ELSE Show(f[k - 1], str[k])]
                   = [k \in 0 .. n + 1 |-> IF k = 0 THEN t ELSE Show(g[k - 1], str[k])]
        BY DEF Showing
      <3> HIDE DEF g
      <3>1. ASSUME NEW k \in 0 .. n + 1, k # 0 PROVE g[k - 1] = f[k - 1]
        <4>1. k - 1 \in 0 .. n /\ k - 1 \in 0 .. n + 1
          BY <3>1
        <4> QED BY <4>1, <2>2, <2>3
      <3> QED BY <3>1
    <2> QED BY <2>4
  <1> HIDE DEF T
  <1>3. \A n \in Nat : n \in T
    BY <1>1, <1>2, SetInduction
  <1> QED BY <1>3 DEF T

(* The paper's loop, likewise.                                             *)
LEMMA RollingExists ==
  ASSUME NEW rows, NEW str
  PROVE  \A n \in Nat : \E f : Rolling(f, rows, str, n)
  <1> DEFINE T == {n \in Nat : \E f : Rolling(f, rows, str, n)}
  <1>1. 0 \in T
    <2> DEFINE f == [k \in 0 .. 0 |-> rows]
    <2>1. Rolling(f, rows, str, 0)
      BY DEF Rolling
    <2> QED BY <2>1
  <1>2. ASSUME NEW n \in Nat, n \in T PROVE n + 1 \in T
    <2>1. PICK f : Rolling(f, rows, str, n)
      BY <1>2
    <2> DEFINE g == [k \in 0 .. n + 1 |-> IF k = 0 THEN rows
                                           ELSE OnPaper(f[k - 1], str[k])]
    <2>2. \A k \in 0 .. n + 1 :
            g[k] = IF k = 0 THEN rows ELSE OnPaper(f[k - 1], str[k])
      OBVIOUS
    <2>3. \A k \in 0 .. n : f[k] = IF k = 0 THEN rows ELSE OnPaper(f[k - 1], str[k])
      BY <2>1 DEF Rolling
    <2>4. Rolling(g, rows, str, n + 1)
      <3> SUFFICES [k \in 0 .. n + 1 |-> IF k = 0 THEN rows
                                          ELSE OnPaper(f[k - 1], str[k])]
                   = [k \in 0 .. n + 1 |-> IF k = 0 THEN rows
                                            ELSE OnPaper(g[k - 1], str[k])]
        BY DEF Rolling
      <3> HIDE DEF g
      <3>1. ASSUME NEW k \in 0 .. n + 1, k # 0 PROVE g[k - 1] = f[k - 1]
        <4>1. k - 1 \in 0 .. n /\ k - 1 \in 0 .. n + 1
          BY <3>1
        <4> QED BY <4>1, <2>2, <2>3
      <3> QED BY <3>1
    <2> QED BY <2>4
  <1> HIDE DEF T
  <1>3. \A n \in Nat : n \in T
    BY <1>1, <1>2, SetInduction
  <1> QED BY <1>3 DEF T

(* The whole string keeps screen and paper in step.                        *)
LEMMA LoopInStep ==
  ASSUME NEW t, NEW rows, InStep(t, rows), NEW str \in Seq(Chars \cup {Newline})
  PROVE  InStep(Loop(Show, t, str), Loop(OnPaper, rows, str))
  <1> DEFINE n == Len(str)
             f == CHOOSE f : Showing(f, t, str, n)
             g == CHOOSE g : Rolling(g, rows, str, n)
  <1>1. n \in Nat /\ \A k \in 1 .. n : str[k] \in Chars \cup {Newline}
    BY LenProperties, ElementOfSeq
  <1>2. Loop(Show, t, str) = f[n] /\ Loop(OnPaper, rows, str) = g[n]
    BY DEF Loop, Showing, Rolling
  <1>3. Showing(f, t, str, n) /\ Rolling(g, rows, str, n)
    BY <1>1, ShowingExists, RollingExists
  <1> HIDE DEF n, f, g
  <1> DEFINE T == {k \in Nat : k <= n => InStep(f[k], g[k])}
  <1>4. 0 \in T
    <2>1. f[0] = t /\ g[0] = rows
      BY <1>1, <1>3 DEF Showing, Rolling
    <2> QED BY <2>1
  <1>5. ASSUME NEW k \in Nat, k \in T PROVE k + 1 \in T
    <2> SUFFICES ASSUME k + 1 <= n PROVE InStep(f[k + 1], g[k + 1])
      OBVIOUS
    <2>1. k + 1 \in 1 .. n /\ k + 1 \in 0 .. n /\ k + 1 # 0 /\ (k + 1) - 1 = k /\ k <= n
      BY <1>1
    <2>2. InStep(f[k], g[k])
      BY <1>5, <2>1
    <2>3. f[k + 1] = Show(f[k], str[k + 1])
      BY <1>3, <2>1 DEF Showing
    <2>4. g[k + 1] = OnPaper(g[k], str[k + 1])
      BY <1>3, <2>1 DEF Rolling
    <2>5. str[k + 1] \in Chars \cup {Newline}
      BY <1>1, <2>1
    <2> QED BY <2>2, <2>3, <2>4, <2>5, ShowInStep
  <1> HIDE DEF T
  <1>6. \A k \in Nat : k \in T
    BY <1>4, <1>5, SetInduction
  <1> QED BY <1>1, <1>2, <1>6 DEF T

-----------------------------------------------------------------------------
(* The inductive invariant.                                                *)
OnScreen == [screen |-> screen, row |-> displayRow, col |-> displayCol]

PaperInv == /\ InStep(OnScreen, paper)
            /\ cursor = displayRow * MaxCol + displayCol

(* The invariant holds initially.                                          *)
LEMMA InitInStep == Init => PaperInv
  <1> SUFFICES ASSUME Init PROVE PaperInv
    OBVIOUS
  <1>1. /\ MaxRow \in Nat \ {0} /\ MaxCol \in Nat \ {0}
    BY Sizes
  <1>2. /\ <<<<>>>> \in Seq(Seq(Chars)) /\ Len(<<<<>>>>) = 1 /\ <<<<>>>>[1] = <<>>
        /\ Len(<<>>) = 0
    OBVIOUS
  <1>3. /\ screen = [r \in Rows |-> BlankRow] /\ displayRow = 0 /\ displayCol = 0
        /\ cursor = 0 /\ paper = <<<<>>>>
    BY DEF Init
  <1> DEFINE rows == <<<<>>>>
  <1>4. TopOf(rows) = 0 /\ PaperType(rows)
    BY <1>1, <1>2 DEF TopOf, PaperType
  <1> DEFINE Lines == [Cols -> Chars \cup {Blank}]
  <1>5. 0 \in Rows /\ 0 \in 0 .. MaxCol /\ BlankRow \in Lines
    BY <1>1 DEF Rows, BlankRow
  <1>6. ASSUME NEW r \in Rows, NEW c \in Cols
        PROVE  screen[r][c] = Glyph(rows, 0 + r + 1, c)
    <2>1. screen[r][c] = Blank
      BY <1>3 DEF BlankRow
    <2>2. 0 + r + 1 \in Nat /\ 0 + r + 1 > 0 /\ r \in Nat /\ c \in Nat
      BY <1>1 DEF Rows, Cols
    <2>3. ~(r + 1 <= 1 /\ c < Len(rows[r + 1]))
      BY <1>2, <2>2
    <2> QED BY <1>2, <2>1, <2>2, <2>3 DEF Glyph
  <1>7. screen \in [Rows -> Lines]
    <2> HIDE DEF Lines
    <2> QED BY <1>3, <1>5
  <1>8. Typing(OnScreen, rows)
    <2>1. OnScreen = [screen |-> screen, row |-> 0, col |-> 0]
      BY <1>3 DEF OnScreen
    <2>2. Len(rows[Len(rows)]) = 0 /\ 0 = Len(rows) - TopOf(rows) - 1
      BY <1>2, <1>4
    <2> HIDE DEF rows
    <2> QED BY <1>4, <1>5, <1>6, <1>7, <2>1, <2>2 DEF Typing
  <1>9. OnScreen.col = 0 /\ 0 = 0 * MaxCol + 0 /\ 0 < MaxCol
    BY <1>1, <1>3 DEF OnScreen
  <1> QED BY <1>3, <1>8, <1>9 DEF PaperInv, InStep

(* Every step keeps the invariant.                                         *)
LEMMA NextInStep == PaperInv /\ [Next]_terminalVars => PaperInv'
  <1> SUFFICES ASSUME PaperInv, [Next]_terminalVars PROVE PaperInv'
    OBVIOUS
  <1>1. CASE Next
    <2>1. PICK str \in Seq(Chars \cup {Newline}) : Write(str)
      <3>1. PICK n \in 0 .. MaxWrite :
              \E str \in [1 .. n -> Chars \cup {Newline}] : Write(str)
        BY <1>1 DEF Next
      <3>2. n \in Nat
        BY TerminalAssumption
      <3>3. [1 .. n -> Chars \cup {Newline}] \subseteq Seq(Chars \cup {Newline})
        BY <3>2, SeqDef
      <3> HIDE DEF Write
      <3> QED BY <3>1, <3>3
    <2> DEFINE t == Loop(Show, OnScreen, str)
               rows == Loop(OnPaper, paper, str)
    <2>2. InStep(t, rows)
      BY LoopInStep DEF PaperInv
    <2>3. /\ screen' = t.screen /\ displayRow' = t.row /\ displayCol' = t.col
          /\ cursor' = t.row * MaxCol + t.col /\ paper' = rows
      BY <2>1 DEF Write, OnScreen
    <2> HIDE DEF t, rows
    <2>4. OnScreen' = t
      <3>1. t = [screen |-> t.screen, row |-> t.row, col |-> t.col]
        BY <2>2 DEF InStep, Typing
      <3> QED BY <2>3, <3>1 DEF OnScreen
    <2> QED BY <2>2, <2>3, <2>4 DEF PaperInv, InStep, Typing, PaperType, TopOf, Glyph
  <1>2. CASE UNCHANGED terminalVars
    BY <1>2 DEF terminalVars, PaperInv, OnScreen, InStep, Typing, PaperType, TopOf, Glyph
  <1> QED BY <1>1, <1>2 DEF terminalVars

(* The screen is always in step with the paper.                            *)
LEMMA AlwaysInStep == Spec => []PaperInv
  BY InitInStep, NextInStep, PTL DEF Spec

-----------------------------------------------------------------------------
(* Every row and column the loop of syscallWriteStdOut (irqHandle.c:216)   *)
(* works with lies on the screen, and so does the cursor it sets.          *)
THEOREM ScreenTypes == Spec => []TypeOK
  <1>1. PaperInv => TypeOK
    <2> SUFFICES ASSUME PaperInv PROVE TypeOK
      OBVIOUS
    <2>1. /\ MaxRow \in Nat \ {0} /\ MaxCol \in Nat \ {0}
      BY Sizes
    <2>2. /\ screen \in [Rows -> [Cols -> Chars \cup {Blank}]]
          /\ displayRow \in Rows /\ displayCol \in 0 .. MaxCol /\ displayCol < MaxCol
      <3>1. /\ OnScreen.screen = screen /\ OnScreen.row = displayRow
            /\ OnScreen.col = displayCol
        BY DEF OnScreen
      <3> DEFINE Screens == [Rows -> [Cols -> Chars \cup {Blank}]]
      <3>2. OnScreen \in [screen : Screens, row : Rows, col : 0 .. MaxCol]
            /\ OnScreen.col < MaxCol
        BY DEF PaperInv, InStep, Typing
      <3> HIDE DEF Screens, OnScreen
      <3>3. screen \in Screens /\ displayRow \in Rows /\ displayCol \in 0 .. MaxCol
            /\ displayCol < MaxCol
        BY <3>1, <3>2
      <3> QED BY <3>3 DEF Screens
    <2>3. displayCol \in Cols
      BY <2>1, <2>2 DEF Cols
    <2>4. cursor \in 0 .. MaxRow * MaxCol - 1
      <3>1. displayRow \in Nat /\ MaxRow - 1 - displayRow \in Nat /\ displayCol \in Nat
        BY <2>1, <2>2 DEF Rows
      <3> DEFINE left == MaxRow - 1 - displayRow
      <3>2. left * MaxCol \in Nat /\ displayRow * MaxCol \in Nat
        BY <2>1, <3>1
      <3>3. MaxRow * MaxCol = displayRow * MaxCol + left * MaxCol + MaxCol
        <4>1. MaxRow = displayRow + left + 1
          BY <2>1, <3>1
        <4> HIDE DEF left
        <4>2. left \in Int
          BY <3>1 DEF left
        <4> QED BY <2>1, <3>1, <4>1, <4>2
      <3>4. cursor = displayRow * MaxCol + displayCol
        BY DEF PaperInv
      <3> HIDE DEF left
      <3> DEFINE a == left * MaxCol
                 b == displayRow * MaxCol
                 m == MaxRow * MaxCol
      <3>5. a \in Nat /\ b \in Nat /\ m = b + a + MaxCol /\ cursor = b + displayCol
        BY <3>2, <3>3, <3>4
      <3> HIDE DEF a, b, m
      <3>6. cursor \in 0 .. m - 1
        BY <2>1, <2>2, <3>1, <3>5
      <3> QED BY <3>6 DEF m
    <2> QED BY <2>2, <2>3, <2>4 DEF TypeOK
  <1> QED BY <1>1, AlwaysInStep, PTL

(* However much is written, the screen shows the last MaxRow rows of it    *)
(* (irqHandle.c:216-244 with scrollScreen, vga.c).                         *)
THEOREM PaperShown == Spec => []ScreenShowsPaper
  <1>1. PaperInv => ScreenShowsPaper
    <2> SUFFICES ASSUME PaperInv, NEW r \in Rows, NEW c \in Cols
                 PROVE  screen[r][c] = Glyph(paper, TopOf(paper) + r + 1, c)
      BY DEF ScreenShowsPaper, Glyph, TopOf, Top
    <2>1. OnScreen.screen[r][c] = Glyph(paper, TopOf(paper) + r + 1, c)
      BY DEF PaperInv, InStep, Typing
    <2> QED BY <2>1 DEF OnScreen
  <1> QED BY <1>1, AlwaysInStep, PTL

(* The cursor is always behind the last character written.                 *)
THEOREM CursorFollows == Spec => []CursorAtEnd
  <1>1. PaperInv => CursorAtEnd
    BY DEF PaperInv, InStep, Typing, OnScreen, CursorAtEnd, Top, TopOf
  <1> QED BY <1>1, AlwaysInStep, PTL
=============================================================================
