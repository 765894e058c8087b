---------------------------- MODULE SectorCache -----------------------------
(***************************************************************************)
(* The PA kernel's disk driver with its sector cache                       *)
(* (kernel/src/driver/ide), on NEMU's IDE device and interrupt controller. *)
(* A miss moves a sector word by word and waits for the disk with hlt; the *)
(* timer's handler writes every dirty sector back, with interrupts off.    *)
(* The image is opened for reading, so what is written to the device stays *)
(* without effect on what is read from it.                                 *)
(***************************************************************************)
EXTENDS Pic

CONSTANTS NSectors,       \* sectors of the disk
          NSlots,         \* NR_SEC_CACHE
          NWords,         \* words of a sector
          WritebackTicks  \* WRITEBACK_TIME * HZ

ASSUME SectorAssumption ==
  /\ NSectors \in Nat \ {0} /\ NSlots \in Nat \ {0}
  /\ NWords \in Nat \ {0} /\ WritebackTicks \in Nat \ {0}

VARIABLES
  slot,     \* cache[NR_SEC_CACHE]
  counter,  \* ticks since the last write-back
  hasIntr,  \* has_ide_intr
  ide,      \* the device: sector registers, mode, sector, words moved, status
  op,       \* the driver's call: where it is, sector, word, whether it writes
  pending,  \* history: the words stored that the device has not been given
  clash     \* history: a write-back has fallen into another transfer

driverVars == <<slot, counter, hasIntr, ide, op, pending, clash>>
vars == <<picVars, driverVars>>

Sector == 0 .. NSectors - 1
Word == 0 .. NWords - 1
Slot == 0 .. NSlots - 1

\* A word is known by the sector it belongs to and by whether the driver's
\* client has stored into it.
Data == [of : Sector, new : BOOLEAN]
Image(s) == [w \in Word |-> [of |-> s, new |-> FALSE]]

\* The slot of a sector, and that of the call.
SlotOf(s) == s % NSlots
Mine == SlotOf(op.sector)
Entry == slot[Mine]

Transfer == {"command write", "write", "command read", "wait", "hlt", "read"}
Place == Transfer \cup {"idle", "fetch", "prepare write", "clear", "prepare read",
                       "fill", "clean", "store", "mark"}

Init ==
  /\ PicInit
  /\ slot = [i \in Slot |-> [used |-> FALSE, dirty |-> FALSE, sector |-> 0,
                             content |-> Image(0)]]
  /\ counter = 0
  /\ hasIntr = FALSE
  /\ ide = [reg |-> 0, write |-> FALSE, at |-> 0, cnt |-> 0, ready |-> TRUE]
  /\ op = [pc |-> "idle", sector |-> 0, word |-> 0, write |-> FALSE]
  /\ pending = {}
  /\ clash = FALSE

-----------------------------------------------------------------------------
\* One instruction of the driver, which takes the call from pc to pcNext.
Step(pc, pcNext) ==
  /\ cpu = "exec" /\ op.pc = pc
  /\ op' = [op EXCEPT !.pc = pcNext]
  /\ cpu' = "check"
  /\ UNCHANGED <<counter, clash>>

Quiet == UNCHANGED <<intrNo, intr, mutex, thread, got>>

\* The device's assertions stop the emulator.
Abort == cpu' = "aborted" /\ UNCHANGED <<intrNo, intr, mutex, thread, got, driverVars>>

\* read_byte and write_byte: a call of ide_read or ide_write is a row of them.
\* Which word is read makes no difference.
\* The call that a write-back has fallen into is the last the model follows.
Call(s, w, wr) ==
  /\ cpu = "exec" /\ op.pc = "idle" /\ ~clash
  /\ ~wr => w = 0
  /\ op' = [pc |-> "fetch", sector |-> s, word |-> w, write |-> wr]
  /\ cpu' = "check"
  /\ Quiet
  /\ UNCHANGED <<slot, counter, hasIntr, ide, pending, clash>>

\* Mutant: a slot in use counts as a hit.
LookupUsed ==
  /\ Step("fetch", CASE Entry.used /\ op.write  -> "store"
                     [] Entry.used /\ ~op.write -> "idle"
                     [] ~Entry.used -> "clear")
  /\ Quiet
  /\ UNCHANGED <<slot, hasIntr, ide, pending>>

\* Mutant: a dirty slot is loaded without being written back.
LookupDropping ==
  /\ LET hit == Entry.used /\ Entry.sector = op.sector
     IN  Step("fetch", CASE hit /\ op.write  -> "store"
                         [] hit /\ ~op.write -> "idle"
                         [] ~hit -> "clear")
  /\ Quiet
  /\ UNCHANGED <<slot, hasIntr, ide, pending>>

\* cache_fetch: a hit, or the slot is written back first if it is dirty.
Lookup ==
  /\ LET hit == Entry.used /\ Entry.sector = op.sector
     IN  Step("fetch", CASE hit /\ op.write  -> "store"
                         [] hit /\ ~op.write -> "idle"
                         [] ~hit -> IF Entry.used /\ Entry.dirty
                                      THEN "prepare write" ELSE "clear")
  /\ Quiet
  /\ UNCHANGED <<slot, hasIntr, ide, pending>>

\* ide_prepare: waits for the disk to be ready and names the sector.
Prepare(s) ==
  /\ ide.ready
  /\ ide' = [ide EXCEPT !.reg = s]

PrepareWrite ==
  /\ Step("prepare write", "command write")
  /\ Prepare(Entry.sector)
  /\ Quiet
  /\ UNCHANGED <<slot, hasIntr, pending>>

\* issue_write; the device is busy until it has got all words.
CommandWrite ==
  /\ Step("command write", "write")
  /\ ide' = [ide EXCEPT !.write = TRUE, !.at = ide.reg, !.cnt = 0,
                        !.ready = FALSE]
  /\ Quiet
  /\ UNCHANGED <<slot, hasIntr, pending>>

\* out_long of the next word: fwrite to an image opened for reading.
WriteWord ==
  LET w == ide.cnt
  IN  IF ide.cnt < NWords /\ ide.write
        THEN /\ Step("write", IF w + 1 = NWords THEN "clear" ELSE "write")
             /\ ide' = [ide EXCEPT !.cnt = w + 1,
                                   !.ready = (w + 1 = NWords)]
             /\ pending' = IF Entry.content[w].new
                             THEN pending \ {<<ide.at, w>>} ELSE pending
             /\ Quiet
             /\ UNCHANGED <<slot, hasIntr>>
        ELSE cpu = "exec" /\ op.pc = "write" /\ Abort

\* disk_do_read.
ClearIntr ==
  /\ Step("clear", "prepare read")
  /\ hasIntr' = FALSE
  /\ Quiet
  /\ UNCHANGED <<slot, ide, pending>>

PrepareRead ==
  /\ Step("prepare read", "command read")
  /\ Prepare(op.sector)
  /\ Quiet
  /\ UNCHANGED <<slot, hasIntr, pending>>

\* issue_read: the device raises its interrupt inside the out instruction.
CommandRead ==
  /\ Step("command read", "wait")
  /\ ide' = [ide EXCEPT !.write = FALSE, !.at = ide.reg, !.cnt = 0,
                        !.ready = TRUE]
  /\ RaiseInOut(Irq.ide)
  /\ UNCHANGED <<slot, hasIntr, pending>>

\* wait_ide_intr: test, hlt until there is an interrupt, test again.
Wait ==
  /\ op.pc \in {"wait", "hlt"}
  /\ op.pc = "hlt" => intr
  /\ Step(op.pc, IF op.pc = "hlt" THEN "wait" ELSE IF hasIntr THEN "read" ELSE "hlt")
  /\ hasIntr' = (hasIntr /\ op.pc = "hlt")
  /\ Quiet
  /\ UNCHANGED <<slot, ide, pending>>

\* in_long of the next word.
ReadWord ==
  LET w == ide.cnt
  IN  IF ide.cnt < NWords /\ ~ide.write
        THEN /\ Step("read", IF w + 1 = NWords THEN "fill" ELSE "read")
             /\ ide' = [ide EXCEPT !.cnt = w + 1]
             /\ slot' = [slot EXCEPT ![Mine].content[w] = Image(ide.at)[w]]
             /\ Quiet
             /\ UNCHANGED <<hasIntr, pending>>
        ELSE cpu = "exec" /\ op.pc = "read" /\ Abort

Fill ==
  /\ Step("fill", "clean")
  /\ slot' = [slot EXCEPT ![Mine].used = TRUE, ![Mine].sector = op.sector]
  /\ Quiet
  /\ UNCHANGED <<hasIntr, ide, pending>>

Clean ==
  /\ Step("clean", IF op.write THEN "store" ELSE "idle")
  /\ slot' = [slot EXCEPT ![Mine].dirty = FALSE]
  /\ Quiet
  /\ UNCHANGED <<hasIntr, ide, pending>>

\* write_byte: the byte, then the mark.
Store ==
  /\ Step("store", "mark")
  /\ slot' = [slot EXCEPT ![Mine].content[op.word] = [of |-> op.sector, new |-> TRUE]]
  /\ pending' = pending \cup {<<op.sector, op.word>>}
  /\ Quiet
  /\ UNCHANGED <<hasIntr, ide>>

Mark ==
  /\ Step("mark", "idle")
  /\ slot' = [slot EXCEPT ![Mine].dirty = TRUE]
  /\ Quiet
  /\ UNCHANGED <<hasIntr, ide, pending>>

-----------------------------------------------------------------------------
Dirty == {i \in Slot : slot[i].dirty}

\* Mutant: the ticks are not counted from 0 again.
WritebackUncounted ==
  /\ IF Dirty = {} THEN UNCHANGED <<slot, ide, pending>>
     ELSE /\ ide.ready
          /\ slot' = [i \in Slot |-> [slot[i] EXCEPT !.dirty = FALSE]]
          /\ pending' = {}
          /\ UNCHANGED ide
  /\ counter' = counter + 1
  /\ UNCHANGED clash

\* cache_writeback, run by the timer's handler from its first to its last
\* word: it does not end while another write is under way (waitdisk).
Writeback ==
  /\ IF Dirty = {} THEN UNCHANGED <<slot, ide, pending>>
     ELSE /\ ide.ready
          /\ \E last \in Dirty :
               /\ \A i \in Dirty : i <= last
               /\ ide' = [reg |-> slot[last].sector, write |-> TRUE,
                          at |-> slot[last].sector, cnt |-> NWords, ready |-> TRUE]
          /\ slot' = [i \in Slot |-> [slot[i] EXCEPT !.dirty = FALSE]]
          /\ pending' = {p \in pending : \A i \in Dirty :
                             ~(p[1] = slot[i].sector /\ slot[i].content[p[2]].new)}
  /\ counter' = 0
  /\ clash' = (clash \/ (/\ Dirty # {}
                         /\ op.pc \in Transfer \/ (op.pc = "fill" /\ Entry.dirty)))

\* irq_handle with the routines init_ide has added.
Handle ==
  /\ cpu = "handle"
  /\ cpu' = "exec"
  /\ CASE got = Irq.timer ->
            /\ IF counter + 1 = WritebackTicks THEN Writeback
               ELSE /\ counter' = counter + 1
                    /\ UNCHANGED <<slot, ide, pending, clash>>
            /\ UNCHANGED hasIntr
       [] got = Irq.ide ->
            /\ hasIntr' = TRUE
            /\ UNCHANGED <<slot, ide, pending, clash, counter>>
       [] got \notin {Irq.timer, Irq.ide} ->
            UNCHANGED <<slot, ide, pending, clash, counter, hasIntr>>
  /\ got' = NoIntr
  /\ UNCHANGED <<intrNo, intr, mutex, thread, op>>

Driver ==
  \/ Lookup \/ PrepareWrite \/ CommandWrite \/ WriteWord
  \/ ClearIntr \/ PrepareRead \/ CommandRead \/ Wait \/ ReadWord
  \/ Fill \/ Clean \/ Store \/ Mark

Next ==
  \/ PicNext /\ UNCHANGED driverVars
  \/ \E s \in Sector, w \in Word, wr \in BOOLEAN : Call(s, w, wr)
  \/ Driver
  \/ Handle

Spec == Init /\ [][Next]_vars

\* The processor runs, and SDL's mutex comes to everybody who waits for it.  No
\* device has to raise an interrupt; the disk's is raised by the driver's own
\* instruction.
FairSpec == Spec /\ PicFairness /\ WF_vars(Driver) /\ SF_vars(CommandRead) /\ WF_vars(Handle)

-----------------------------------------------------------------------------
TypeOK ==
  /\ PicTypeOK
  /\ slot \in [Slot -> [used : BOOLEAN, dirty : BOOLEAN, sector : Sector,
                        content : [Word -> Data]]]
  /\ counter \in 0 .. WritebackTicks - 1
  /\ hasIntr \in BOOLEAN
  /\ ide \in [reg : Sector, write : BOOLEAN, at : Sector, cnt : 0 .. NWords,
             ready : BOOLEAN]
  /\ op \in [pc : Place, sector : Sector, word : Word, write : BOOLEAN]
  /\ pending \subseteq Sector \X Word

\* The processor that sees cpu.intr set finds a number (the assertion of
\* cpu.c:94), and the device is asked for no word it does not have and none in
\* the wrong direction (ide.c:22, 26 and 74), until a write-back falls into a
\* transfer.
NoAssertionFails == cpu = "aborted" => clash

\* A slot that is in use and not being loaded holds words of its own sector,
\* all of them, until a write-back falls into a transfer.
SectorsWhole ==
  \A i \in Slot :
    slot[i].used /\ ~clash /\ (i = Mine => op.pc \notin {"read", "fill"})
      => \A w \in Word : slot[i].content[w].of = slot[i].sector

\* A word that has been stored and not yet been given to the device is in the
\* slot of its sector, and the slot is marked, or is about to be: neither an
\* eviction nor the timer drops it, until a write-back falls into a transfer.
NoStoredWordLost ==
  \A p \in pending :
    LET i == SlotOf(p[1])
    IN  \/ clash
        \/ /\ slot[i].used /\ slot[i].sector = p[1]
           /\ slot[i].content[p[2]].new
           /\ slot[i].dirty \/ (i = Mine /\ op.pc = "mark")

\* The timer's handler spins in waitdisk, with interrupts off, for a write
\* command that the code it has interrupted cannot finish.
Hung ==
  /\ cpu = "handle" /\ got = Irq.timer /\ counter + 1 = WritebackTicks
  /\ Dirty # {} /\ ~ide.ready

\* Every call ends: the interrupt of a read command is neither lost in the
\* controller nor cleared before it is seen, and no tick between the test of
\* has_ide_intr and hlt is needed for it.
CallsEnd == op.pc # "idle" ~> (op.pc = "idle" \/ clash \/ Hung)
=============================================================================
