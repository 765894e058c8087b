----------------------------- MODULE TypeAhead ------------------------------
(***************************************************************************)
(* What the keyboard and the stdin device promise: keys are kept in the    *)
(* order typed until somebody reads them; one reader waits at a time and   *)
(* the next key wakes it; a reader that was woken takes a prefix of the    *)
(* pending keys, stopping only when none is left or its line is full.      *)
(* The one blemish is stated too: a key for which there is no room takes   *)
(* everything pending with it.                                             *)
(***************************************************************************)
EXTENDS Naturals, Sequences, FiniteSets

CONSTANTS Users, Codes, Room, Size,
          Printable      (* the codes that put a character into the line   *)

VARIABLES pending,       (* the keys typed and not read                    *)
          waiting,       (* the reader that waits for a key, if any        *)
          woken          (* the readers that got their key                 *)

typeAhead == <<pending, waiting, woken>>

Init == pending = <<>> /\ waiting = {} /\ woken = {}

Key(c) ==
  /\ pending' = IF Len(pending) = Room THEN <<>> ELSE Append(pending, c)
  /\ waiting' = {}
  /\ woken' = woken \cup waiting

WaitForKey(p) ==
  /\ waiting = {} /\ p \notin woken
  /\ waiting' = {p}
  /\ UNCHANGED <<pending, woken>>

(* How many characters the first n pending keys put into a line, and how   *)
(* many keys a line of Size - 1 characters takes.                          *)
Letters(n) == Cardinality({k \in 1 .. n : pending[k] \in Printable})

IsLine(n) == /\ \A m \in 0 .. n - 1 : Letters(m) < Size - 1
             /\ n = Len(pending) \/ Letters(n) = Size - 1

Take(p) ==
  /\ p \in woken
  /\ woken' = woken \ {p}
  /\ \E n \in 0 .. Len(pending) :
       IsLine(n) /\ pending' = SubSeq(pending, n + 1, Len(pending))
  /\ UNCHANGED waiting

Next == \/ \E c \in Codes : Key(c)
        \/ \E p \in Users : WaitForKey(p) \/ Take(p)

Spec == Init /\ [][Next]_typeAhead
=============================================================================
