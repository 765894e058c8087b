------------------------------ MODULE Keyboard ------------------------------
(***************************************************************************)
(* The keyboard of the lab4 kernel: the ring of key codes the interrupt    *)
(* handler fills and the stdin reader drains, and the translation of codes *)
(* to characters with its shift and capslock state.                        *)
(*                                                                         *)
(* Codes are classed by what getChar does with them: "shift" (press or     *)
(* release of either shift), "capsdown", "capsup", "key" (a code with a    *)
(* character in both tables) and "other" (no character: function keys and  *)
(* the release codes).                                                     *)
(***************************************************************************)
EXTENDS Integers, Sequences

CONSTANTS KeyCodes,    (* the codes the keyboard sends                     *)
          KBSize       (* MAX_KEYBUFFER_SIZE                               *)

CodeClasses == {"shift", "capsdown", "capsup", "key", "other"}

ASSUME KeyboardAssumption == /\ KeyCodes \subseteq CodeClasses
                             /\ KBSize \in Nat \ {0, 1}

VARIABLES keyBuffer,      (* the ring; a cell not yet written is 0 in .bss *)
          bufferHead,
          bufferTail,
          keyTable,       (* "L" or "U": keyTableL or keyTableU            *)
          keyboardState   (* 0, 1 or 2                                     *)

kbVars == <<keyBuffer, bufferHead, bufferTail, keyTable, keyboardState>>

KeyboardTypeOK ==
  /\ keyBuffer \in [0 .. KBSize - 1 -> CodeClasses]
  /\ bufferHead \in 0 .. KBSize - 1
  /\ bufferTail \in 0 .. KBSize - 1
  /\ keyTable \in {"L", "U"}
  /\ keyboardState \in 0 .. 2

(* initKeyTable.  A zero code has no character, like class "other".        *)
InitKeyTable ==
  /\ keyBuffer = [k \in 0 .. KBSize - 1 |-> "other"]
  /\ bufferHead = 0
  /\ bufferTail = 0
  /\ keyTable = "L"
  /\ keyboardState = 0

-----------------------------------------------------------------------------
OtherTable(t) == IF t = "L" THEN "U" ELSE "L"

(* getChar: the effect of a code on the table in use (t) and on the        *)
(* capslock state (s), and the character it yields from the table in use   *)
(* after the switch; NoChar is the 0 that is not stored.                   *)
NoChar == "none"

(* Mutant: a repeated press of capslock switches the table again.          *)
GetCharRepeating(code, t, s) ==
  LET t2 == IF code \in {"shift", "capsdown"} \/ (code = "capsup" /\ s = 2)
            THEN OtherTable(t) ELSE t
      s2 == IF code = "capsdown" /\ s < 2 THEN s + 1
            ELSE IF code = "capsup" /\ s = 2 THEN 0 ELSE s
  IN [table |-> t2, caps |-> s2, char |-> IF code = "key" THEN t2 ELSE NoChar]

GetChar(code, t, s) ==
  LET t2 == IF \/ code = "shift"
               \/ code = "capsdown" /\ s = 0
               \/ code = "capsup" /\ s = 2
            THEN OtherTable(t) ELSE t
      s2 == IF code = "capsdown" /\ s < 2 THEN s + 1
            ELSE IF code = "capsup" /\ s = 2 THEN 0 ELSE s
  IN [table |-> t2, caps |-> s2, char |-> IF code = "key" THEN t2 ELSE NoChar]

(* Mutant: a code without a character takes a place in the string.         *)
ReadRoundCounting(r, size) ==
  IF r.i >= size - 1 \/ r.head = bufferTail THEN r
  ELSE LET g == GetChar(keyBuffer[r.head], r.table, r.caps)
       IN [head |-> (r.head + 1) % KBSize, table |-> g.table, caps |-> g.caps,
           i |-> r.i + 1]

(* One round of the loop of syscallReadStdIn, from the buffer to a string  *)
(* of i characters out of at most size - 1.                                *)
ReadRound(r, size) ==
  IF r.i >= size - 1 \/ r.head = bufferTail THEN r
  ELSE LET g == GetChar(keyBuffer[r.head], r.table, r.caps)
       IN [head |-> (r.head + 1) % KBSize,
           table |-> g.table,
           caps |-> g.caps,
           i |-> IF g.char = NoChar THEN r.i ELSE r.i + 1]

(* The whole loop: it takes a code per round, and fewer than KBSize codes  *)
(* are between head and tail.                                              *)
ReadLoop(size) ==
  LET r[k \in 0 .. KBSize] ==
        IF k = 0
        THEN [head |-> bufferHead, table |-> keyTable,
              caps |-> keyboardState, i |-> 0]
        ELSE ReadRound(r[k - 1], size)
  IN r[KBSize]

(* Mutant: the tail does not wrap around.                                  *)
StoreKeyUnwrapped(code) ==
  /\ keyBuffer' = [keyBuffer EXCEPT ![bufferTail] = code]
  /\ bufferTail' = bufferTail + 1
  /\ UNCHANGED <<bufferHead, keyTable, keyboardState>>

(* The buffer part of keyboardHandle.  Nothing keeps the tail from running *)
(* into the head.                                                          *)
StoreKey(code) ==
  /\ keyBuffer' = [keyBuffer EXCEPT ![bufferTail] = code]
  /\ bufferTail' = (bufferTail + 1) % KBSize
  /\ UNCHANGED <<bufferHead, keyTable, keyboardState>>

(* The buffer part of a stdin read of the given size, after the wait.      *)
LoopStates(size) == [head : 0 .. KBSize - 1, table : {"L", "U"}, caps : 0 .. 2,
                     i : 0 .. size - 1]

DrainKeys(size) ==
  \E r \in LoopStates(size) :
    /\ r = ReadLoop(size)
    /\ bufferHead' = r.head
    /\ keyTable' = r.table
    /\ keyboardState' = r.caps
    /\ UNCHANGED <<keyBuffer, bufferTail>>

(* How many codes are buffered, as head and tail tell.                     *)
Pending == (bufferTail - bufferHead + KBSize) % KBSize
=============================================================================
