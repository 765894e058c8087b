------------------------------ MODULE Terminal ------------------------------
(***************************************************************************)
(* The text screen of the lab4 kernel as syscallWriteStdOut drives it: the *)
(* video memory, the position of the next character and the cursor.  A     *)
(* write runs with interrupts off, so it is one step.                      *)
(***************************************************************************)
EXTENDS Integers, Sequences

CONSTANTS MaxRow, MaxCol,     (* MAX_ROW, MAX_COL                          *)
          Chars,              (* the characters written, "\n" excepted     *)
          MaxWrite, MaxRows   (* bounds: length of a write, rows in all    *)

ASSUME TerminalAssumption ==
  /\ MaxRow \in Nat \ {0} /\ MaxCol \in Nat \ {0}
  /\ MaxWrite \in Nat /\ MaxRows \in Nat

Newline == "newline"
Blank   == "blank"            (* the 0 of clearScreen and scrollScreen     *)

ASSUME CharAssumption == Newline \notin Chars /\ Blank \notin Chars

VARIABLES screen,             (* video memory at 0xb8000, by row           *)
          displayRow, displayCol,
          cursor,             (* the position updateCursor gave the VGA    *)
          paper               (* all rows ever written (a history)         *)

terminalVars == <<screen, displayRow, displayCol, cursor, paper>>

Rows == 0 .. MaxRow - 1
Cols == 0 .. MaxCol - 1
BlankRow == [c \in Cols |-> Blank]

TypeOK == /\ screen \in [Rows -> [Cols -> Chars \cup {Blank}]]
          /\ displayRow \in Rows
          /\ displayCol \in Cols
          /\ cursor \in 0 .. MaxRow * MaxCol - 1

(* initVga.                                                                *)
Init == /\ screen = [r \in Rows |-> BlankRow]
        /\ displayRow = 0 /\ displayCol = 0
        /\ cursor = 0
        /\ paper = <<<<>>>>

(* Mutant: the last row is left as it is.                                  *)
ScrollScreenUncleared(scr) ==
  [r \in Rows |-> IF r = MaxRow - 1 THEN scr[r] ELSE scr[r + 1]]

(* The new line of both branches, with its scrollScreen.                   *)
ScrollScreen(scr) ==
  [r \in Rows |-> IF r = MaxRow - 1 THEN BlankRow ELSE scr[r + 1]]

(* Mutant: the column is kept when the screen scrolls.                     *)
NewLineAtColumn(t) ==
  IF t.row + 1 = MaxRow
  THEN [t EXCEPT !.screen = ScrollScreen(t.screen)]
  ELSE [t EXCEPT !.row = @ + 1, !.col = 0]

NewLine(t) ==
  IF t.row + 1 = MaxRow
  THEN [screen |-> ScrollScreen(t.screen), row |-> MaxRow - 1, col |-> 0]
  ELSE [t EXCEPT !.row = @ + 1, !.col = 0]

(* Mutant: no new line at the end of a row.                                *)
ShowUnwrapped(t, ch) ==
  IF ch = Newline THEN NewLine(t)
  ELSE [t EXCEPT !.screen = [@ EXCEPT ![t.row][t.col] = ch], !.col = @ + 1]

(* The body of the loop over the string.                                   *)
Show(t, ch) ==
  IF ch = Newline THEN NewLine(t)
  ELSE LET shown == [t EXCEPT !.screen = [@ EXCEPT ![t.row][t.col] = ch],
                              !.col = @ + 1]
       IN IF shown.col = MaxCol THEN NewLine(shown) ELSE shown

(* The same text on an endless roll of paper.                              *)
OnPaper(rows, ch) ==
  LET last == Len(rows)
      full == [rows EXCEPT ![last] = Append(@, ch)]
  IN IF ch = Newline THEN Append(rows, <<>>)
     ELSE IF Len(full[last]) = MaxCol THEN Append(full, <<>>) ELSE full

(* The loop over the string: what it makes of t, character by character.   *)
Loop(Body(_, _), t, str) ==
  LET after[k \in 0 .. Len(str)] ==
        IF k = 0 THEN t ELSE Body(after[k - 1], str[k])
  IN after[Len(str)]

Write(str) ==
  LET t == Loop(Show, [screen |-> screen, row |-> displayRow,
                       col |-> displayCol], str)
  IN /\ screen' = t.screen
     /\ displayRow' = t.row
     /\ displayCol' = t.col
     /\ cursor' = t.row * MaxCol + t.col
     /\ paper' = Loop(OnPaper, paper, str)

Next == \E n \in 0 .. MaxWrite : \E str \in [1 .. n -> Chars \cup {Newline}] :
          Len(Loop(OnPaper, paper, str)) <= MaxRows /\ Write(str)

Spec == Init /\ [][Next]_terminalVars

-----------------------------------------------------------------------------
(* The screen shows the last MaxRow rows of everything written, each       *)
(* character in its place and nothing left over from rows scrolled away.   *)
Top == IF Len(paper) > MaxRow THEN Len(paper) - MaxRow ELSE 0

ScreenShowsPaper ==
  \A r \in Rows, c \in Cols :
    screen[r][c] = IF Top + r + 1 <= Len(paper) /\ c < Len(paper[Top + r + 1])
                   THEN paper[Top + r + 1][c + 1] ELSE Blank

(* The cursor is where the next character will be put: after the last one  *)
(* written, and never past the end of a row or of the screen.              *)
CursorAtEnd ==
  /\ displayRow = Len(paper) - Top - 1
  /\ displayCol = Len(paper[Len(paper)])
  /\ cursor = displayRow * MaxCol + displayCol
=============================================================================
