----------------------------- MODULE MainMemory -----------------------------
(***************************************************************************)
(* What NEMU's processor cache promises to the instructions: a memory.  A  *)
(* read returns the bytes that were written last, except in lines that are *)
(* "suspect": those into which the second half of a line-crossing store    *)
(* has fallen.  An access names a line, an offset in it and its bytes; the *)
(* bytes beyond the line's end belong to the next line.                    *)
(***************************************************************************)
EXTENDS Integers

CONSTANTS NLines,    \* lines of physical memory
          LineSize,  \* bytes in a line
          Byte,      \* the values of a byte
          Lengths,   \* the lengths of an access
          Crossing,  \* whether accesses may cross the end of a line
          Nothing    \* no read has just been answered

Line == 0 .. NLines - 1
Offset == 0 .. LineSize - 1

Crosses(o, n) == o + n > LineSize

\* The accesses the processor makes: they stay inside the memory.
CanAccess(l, o, n) ==
  Crosses(o, n) => Crossing /\ l + 1 \in Line

\* A line's contents after the bytes d have been stored at offset o of it;
\* o is negative when d begins in the line before.
Store(line, o, d) ==
  [x \in Offset |-> IF x - o \in DOMAIN d THEN d[x - o] ELSE line[x]]

VARIABLES mem,      \* the bytes of the memory
          suspect,  \* lines a read may see old bytes of
          out       \* the last operation's answer, if it was a read

AfterStore(l, o, d) ==
  [k \in Line |-> CASE k = l     -> Store(mem[k], o, d)
                    [] k = l + 1 -> Store(mem[k], o - LineSize, d)
                    [] k \notin {l, l + 1} -> mem[k]]

Init == /\ mem \in [Line -> [Offset -> Byte]]
        /\ suspect = {}
        /\ out = Nothing

Read(l, o, n) ==
  /\ UNCHANGED mem
  /\ CanAccess(l, o, n)
  /\ \E d \in [0 .. n - 1 -> Byte] :
       /\ out' = [line |-> l, off |-> o, bytes |-> d]
       /\ \A i \in 0 .. n - 1 :
            IF o + i < LineSize
              THEN l \notin suspect => d[i] = mem[l][o + i]
              ELSE l + 1 \notin suspect => d[i] = mem[l + 1][o + i - LineSize]
  /\ suspect' \in SUBSET suspect

Write(l, o, n, d) ==
  /\ out' = Nothing
  /\ CanAccess(l, o, n)
  /\ mem' = AfterStore(l, o, d)
  /\ suspect' \in SUBSET (suspect \cup IF Crosses(o, n) THEN {l + 1} ELSE {})

Next == \E l \in Line, o \in Offset, n \in Lengths :
          \/ Read(l, o, n)
          \/ \E d \in [0 .. n - 1 -> Byte] : Write(l, o, n, d)

vars == <<mem, suspect, out>>
Spec == Init /\ [][Next]_vars
=============================================================================
