------------------------- MODULE SectorCacheProofs --------------------------
(***************************************************************************)
(* That the sector cache keeps its sectors whole and drops no stored word, *)
(* and that no assertion fails, until a write-back falls into a transfer:  *)
(* for every number of sectors, slots, words and ticks.                    *)
(***************************************************************************)
EXTENDS SectorCache, TLAPS

\* The controller: who is inside i8259_raise_intr holds the mutex, and a flag
\* that is set, or about to be, has its number.
ControllerInv ==
  /\ \A d \in Devices : thread[d] # "out" => mutex = d
  /\ \A d \in Devices : thread[d] = "numbered" => intrNo # NoIntr
  /\ intr => intrNo # NoIntr

\* A slot in use holds a sector that belongs there.
Placed == \A i \in Slot : slot[i].used => SlotOf(slot[i].sector) = i

\* The words that wait for the device and belong into the call's slot.
MyPending == {p \in pending : SlotOf(p[1]) = Mine}

\* What the driver has done so far, at each place of a call.
WriteInv ==
  /\ op.pc \in {"prepare write", "command write", "write"} => Entry.used
  /\ op.pc = "command write" => ide.reg = Entry.sector
  /\ op.pc = "write" =>
       /\ ide.write /\ ide.at = Entry.sector /\ ide.cnt < NWords
       /\ \A p \in MyPending : p[2] >= ide.cnt

ReadInv ==
  /\ op.pc \in {"clear", "prepare read", "command read", "wait", "hlt", "read",
                "fill", "clean"} => MyPending = {}
  /\ op.pc = "command read" => ide.reg = op.sector
  /\ op.pc \in {"wait", "hlt", "read"} => ~ide.write /\ ide.at = op.sector
  /\ op.pc \in {"wait", "hlt"} => ide.cnt = 0
  /\ op.pc = "read" =>
       /\ ide.cnt < NWords
       /\ \A w \in Word : w < ide.cnt => Entry.content[w].of = op.sector
  /\ op.pc = "fill" => \A w \in Word : Entry.content[w].of = op.sector

CallInv ==
  op.pc \in {"clean", "store", "mark"} => Entry.used /\ Entry.sector = op.sector

\* Until a write-back falls into a transfer.
Undisturbed ==
  ~clash => /\ Placed /\ WriteInv /\ ReadInv /\ CallInv
            /\ SectorsWhole /\ NoStoredWordLost

IInv == TypeOK /\ ControllerInv /\ NoAssertionFails /\ Undisturbed

LEMMA IrqNumbers ==
  /\ Irq.timer = 0 /\ Irq["timer"] = 0 /\ Irq.ide = 14 /\ Irq["ide"] = 14
  /\ \A d \in Devices : Irq[d] \in IrqNo /\ Irq[d] \in Int
  /\ IrqNo = {0, 1, 2, 14}
<1>1. DOMAIN Irq = {"timer", "keyboard", "audio", "ide"}
      BY DEF Irq
<1>2. Irq["timer"] = 0 /\ Irq["keyboard"] = 1 /\ Irq["audio"] = 2 /\ Irq["ide"] = 14
      BY DEF Irq
<1>3. IrqNo = {Irq["timer"], Irq["keyboard"], Irq["audio"], Irq["ide"]}
      BY <1>1, Zenon DEF IrqNo
<1>4. \A d \in Devices : d \in {"timer", "keyboard", "audio", "ide"}
      BY <1>1, PicAssumption
<1>. QED
     BY <1>2, <1>3, <1>4 DEF Irq

\* Every sector has a slot.
LEMMA SlotOfType == \A s \in Sector : SlotOf(s) \in Slot
BY SectorAssumption DEF SlotOf, Sector, Slot

LEMMA ImageType ==
  \A s \in Sector : Image(s) \in [Word -> Data] /\ \A w \in Word : Image(s)[w].of = s
BY DEF Image, Data

LEMMA InitIInv == Init => IInv
<1> SUFFICES ASSUME Init PROVE IInv
    OBVIOUS
<1> USE IrqNumbers, PicAssumption, SectorAssumption DEF Init, PicInit
<1>0. 0 \in Sector /\ 0 \in Word
      BY DEF Sector, Word
<1>1. TypeOK
  <2>1. PicTypeOK
        BY DEF PicTypeOK
  <2>2. slot \in [Slot -> [used : BOOLEAN, dirty : BOOLEAN, sector : Sector,
                           content : [Word -> Data]]]
        BY <1>0, ImageType
  <2>3. /\ ide \in [reg : Sector, write : BOOLEAN, at : Sector, cnt : 0 .. NWords,
                    ready : BOOLEAN]
        /\ op \in [pc : Place, sector : Sector, word : Word, write : BOOLEAN]
        BY <1>0 DEF Place
  <2>4. counter \in 0 .. WritebackTicks - 1 /\ pending = {}
        OBVIOUS
  <2>. QED
       BY <2>1, <2>2, <2>3, <2>4 DEF TypeOK
<1>2. ControllerInv /\ NoAssertionFails
      BY DEF ControllerInv, NoAssertionFails
<1>3. Placed /\ SectorsWhole
      BY DEF Placed, SectorsWhole
<1>4. WriteInv /\ ReadInv /\ CallInv /\ NoStoredWordLost
      BY DEF WriteInv, ReadInv, CallInv, NoStoredWordLost
<1>. QED
     BY <1>1, <1>2, <1>3, <1>4 DEF IInv, Undisturbed

\* The controller's steps keep its variables' types and its invariant; so do
\* the driver's, which reach it only by the interrupt of the read command.
LEMMA ControllerStep ==
  ASSUME IInv, [Next]_vars
  PROVE  PicTypeOK' /\ ControllerInv'
<1> PicTypeOK /\ ControllerInv
    BY DEF IInv, TypeOK
<1> USE IrqNumbers, PicAssumption DEF PicTypeOK, ControllerInv
<1>1. CASE PicNext
  <2>1. ASSUME NEW d \in Devices, RaiseLock(d)
        PROVE  PicTypeOK' /\ ControllerInv'
        BY <2>1 DEF RaiseLock
  <2>2. ASSUME NEW d \in Devices, RaiseNumber(d)
        PROVE  PicTypeOK' /\ ControllerInv'
        BY <2>2 DEF RaiseNumber, Higher
  <2>3. ASSUME NEW d \in Devices, RaiseFlag(d)
        PROVE  PicTypeOK' /\ ControllerInv'
        BY <2>3 DEF RaiseFlag
  <2>4. CASE NoInterrupt
        BY <2>4 DEF NoInterrupt
  <2>5. CASE Query
        BY <2>5 DEF Query
  <2>6. CASE Ack
    <3>1. \A d \in Devices : thread[d] = "out"
          BY <2>6 DEF Ack
    <3>. QED
         BY <2>6, <3>1 DEF Ack
  <2>. QED
       BY <1>1, <2>1, <2>2, <2>3, <2>4, <2>5, <2>6 DEF PicNext, Raising
<1>2. CASE \E s \in Sector, w \in Word, wr \in BOOLEAN : Call(s, w, wr)
      BY <1>2 DEF Call, Quiet
<1>3. CASE CommandRead
  <2>1. \A d \in Devices : thread[d] = "out"
        BY <1>3 DEF CommandRead, RaiseInOut
  <2>2. Higher(Irq.ide) \in IrqNo
        BY DEF Higher
  <2>3. /\ intrNo' = Higher(Irq.ide) /\ intr' /\ cpu' = "check"
        /\ UNCHANGED <<mutex, thread, got>>
        BY <1>3 DEF CommandRead, RaiseInOut, Step
  <2>. QED
       BY <2>1, <2>2, <2>3
<1>4. CASE Driver /\ ~CommandRead
  <2>1. /\ UNCHANGED <<intrNo, intr, mutex, thread, got>>
        /\ cpu' \in {"check", "aborted"}
    <3>1. CASE Lookup \/ PrepareWrite \/ CommandWrite \/ ClearIntr \/ PrepareRead
          BY <3>1 DEF Lookup, PrepareWrite, CommandWrite, ClearIntr, PrepareRead, Step, Quiet
    <3>2. CASE Wait \/ Fill \/ Clean \/ Store \/ Mark
          BY <3>2 DEF Wait, Fill, Clean, Store, Mark, Step, Quiet
    <3>3. CASE WriteWord \/ ReadWord
          BY <3>3 DEF WriteWord, ReadWord, Step, Quiet, Abort
    <3>. QED
         BY <1>4, <3>1, <3>2, <3>3 DEF Driver
  <2>. QED
       BY <2>1
<1>5. CASE Handle
      BY <1>5 DEF Handle
<1>6. CASE UNCHANGED vars
      BY <1>6 DEF vars, picVars
<1>. QED
     BY <1>1, <1>2, <1>3, <1>4, <1>5, <1>6 DEF Next

\* The slots, the device and the call keep their types.
SlotType == [Slot -> [used : BOOLEAN, dirty : BOOLEAN, sector : Sector,
                      content : [Word -> Data]]]
IdeType == [reg : Sector, write : BOOLEAN, at : Sector, cnt : 0 .. NWords,
            ready : BOOLEAN]

LEMMA IdeUpdate ==
  ASSUME NEW d \in IdeType, NEW c \in 0 .. NWords, NEW w \in BOOLEAN, NEW r \in BOOLEAN
  PROVE  /\ [d EXCEPT !.write = w, !.at = d.reg, !.cnt = c, !.ready = r] \in IdeType
         /\ [d EXCEPT !.cnt = c, !.ready = r] \in IdeType
         /\ [d EXCEPT !.cnt = c] \in IdeType
BY SectorAssumption DEF IdeType

\* The choice of a sector.
LEMMA IdeRegister ==
  ASSUME NEW d \in IdeType, NEW a, NEW e, e = [d EXCEPT !.reg = a]
  PROVE  e.reg = a
BY DEF IdeType

LEMMA IdeIsTyped == TypeOK => ide \in IdeType
BY DEF TypeOK, IdeType

LEMMA DriverTypeStep ==
  ASSUME TypeOK, Driver
  PROVE  /\ slot' \in SlotType /\ ide' \in IdeType /\ hasIntr' \in BOOLEAN
         /\ op' \in [pc : Place, sector : Sector, word : Word, write : BOOLEAN]
         /\ pending' \subseteq Sector \X Word
         /\ UNCHANGED <<counter, clash>>
<1>0. Mine \in Slot /\ Entry.sector \in Sector /\ Entry.content \in [Word -> Data]
      BY SlotOfType DEF TypeOK, Mine, Entry
<1> USE SectorAssumption, <1>0 DEF TypeOK, SlotType, IdeType
<1>1. op' \in [pc : Place, sector : Sector, word : Word, write : BOOLEAN]
      /\ UNCHANGED <<counter, clash>>
  <2>1. ASSUME NEW a, NEW b \in Place, Step(a, b)
        PROVE  op' \in [pc : Place, sector : Sector, word : Word, write : BOOLEAN]
               /\ UNCHANGED <<counter, clash>>
        BY <2>1 DEF Step
  <2>2. CASE Lookup
        BY <2>2, <2>1 DEF Lookup, Place
  <2>3. CASE PrepareWrite \/ CommandWrite \/ ClearIntr \/ PrepareRead \/ CommandRead
        BY <2>3, <2>1 DEF PrepareWrite, CommandWrite, ClearIntr, PrepareRead, CommandRead,
                          Place, Transfer
  <2>4. CASE Wait
        BY <2>4, <2>1 DEF Wait, Place, Transfer
  <2>5. CASE Fill \/ Clean \/ Store \/ Mark
        BY <2>5, <2>1 DEF Fill, Clean, Store, Mark, Place
  <2>6. CASE WriteWord
        BY <2>6, <2>1 DEF WriteWord, Abort, driverVars, Place, Transfer
  <2>7. CASE ReadWord
        BY <2>7, <2>1 DEF ReadWord, Abort, driverVars, Place, Transfer
  <2>. QED
       BY <2>2, <2>3, <2>4, <2>5, <2>6, <2>7 DEF Driver
<1>2. CASE Lookup \/ ClearIntr \/ Wait
      BY <1>1, <1>2 DEF Lookup, ClearIntr, Wait
<1>3. CASE PrepareWrite \/ PrepareRead
      BY <1>1, <1>3 DEF PrepareWrite, PrepareRead, Prepare
<1>4. CASE CommandWrite \/ CommandRead
  <2>1. ide \in IdeType /\ 0 \in 0 .. NWords
        OBVIOUS
  <2>2. CASE CommandWrite
    <3>1. ide' = [ide EXCEPT !.write = TRUE, !.at = ide.reg, !.cnt = 0, !.ready = FALSE]
          BY <2>2 DEF CommandWrite
    <3>2. ide' \in IdeType
          BY ONLY <2>1, <3>1, IdeUpdate
    <3>. QED
         BY <1>1, <2>2, <3>2 DEF CommandWrite
  <2>3. CASE CommandRead
    <3>1. ide' = [ide EXCEPT !.write = FALSE, !.at = ide.reg, !.cnt = 0, !.ready = TRUE]
          BY <2>3 DEF CommandRead
    <3>2. ide' \in IdeType
          BY ONLY <2>1, <3>1, IdeUpdate
    <3>. QED
         BY <1>1, <2>3, <3>2 DEF CommandRead
  <2>. QED
       BY <1>4, <2>2, <2>3
<1>5. CASE WriteWord
  <2>1. ide \in IdeType
        OBVIOUS
  <2>2. ide' \in IdeType
    <3>1. CASE ide.cnt < NWords /\ ide.write
      <4>1. ide' = [ide EXCEPT !.cnt = ide.cnt + 1, !.ready = (ide.cnt + 1 = NWords)]
            BY <1>5, <3>1 DEF WriteWord
      <4>2. ide.cnt + 1 \in 0 .. NWords /\ (ide.cnt + 1 = NWords) \in BOOLEAN
            BY <3>1
      <4>. QED
           BY ONLY <2>1, <4>1, <4>2, IdeUpdate
    <3>2. CASE ~(ide.cnt < NWords /\ ide.write)
          BY <1>5, <3>2 DEF WriteWord, Abort, driverVars
    <3>. QED
         BY <3>1, <3>2
  <2>3. UNCHANGED <<slot, hasIntr>> /\ pending' \subseteq pending
        BY <1>5 DEF WriteWord, Abort, driverVars
  <2>. QED
       BY <1>1, <2>2, <2>3
<1>6. CASE ReadWord
  <2>1. CASE ide.cnt < NWords /\ ~ide.write
    <3>1. /\ ide' = [ide EXCEPT !.cnt = ide.cnt + 1]
          /\ slot' = [slot EXCEPT ![Mine].content[ide.cnt] = Image(ide.at)[ide.cnt]]
          /\ UNCHANGED <<hasIntr, pending>>
          BY <1>6, <2>1 DEF ReadWord
    <3>2. ide.cnt \in Word /\ Image(ide.at)[ide.cnt] \in Data
          BY <2>1, ImageType DEF Word
    <3>3. slot' \in SlotType
          BY <3>1, <3>2
    <3>4. ide' \in IdeType
      <4>1. ide \in IdeType /\ ide.cnt + 1 \in 0 .. NWords
            BY <2>1, SectorAssumption DEF IdeType
      <4>. QED
           BY ONLY <3>1, <4>1, IdeUpdate
    <3>. QED
         BY <1>1, <3>1, <3>3, <3>4
  <2>2. CASE ~(ide.cnt < NWords /\ ~ide.write)
        BY <1>1, <1>6, <2>2 DEF ReadWord, Abort, driverVars
  <2>. QED
       BY <2>1, <2>2
<1>7. CASE Fill \/ Clean \/ Mark
  <2>1. op.sector \in Sector
        OBVIOUS
  <2>2. CASE Fill
    <3>1. slot' = [slot EXCEPT ![Mine].used = TRUE, ![Mine].sector = op.sector]
          /\ UNCHANGED <<hasIntr, ide, pending>>
          BY <2>2 DEF Fill
    <3>2. slot' \in SlotType
          BY ONLY <1>0, <2>1, <3>1, slot \in SlotType DEF SlotType
    <3>. QED
         BY <1>1, <3>1, <3>2
  <2>3. CASE Clean
        BY <1>1, <2>3 DEF Clean
  <2>4. CASE Mark
        BY <1>1, <2>4 DEF Mark
  <2>. QED
       BY <1>7, <2>2, <2>3, <2>4
<1>8. CASE Store
  <2>1. [of |-> op.sector, new |-> TRUE] \in Data /\ op.word \in Word /\ op.sector \in Sector
        BY DEF Data
  <2>2. slot' = [slot EXCEPT ![Mine].content[op.word] = [of |-> op.sector, new |-> TRUE]]
        BY <1>8 DEF Store
  <2>3. slot' \in SlotType
        BY <2>1, <2>2
  <2>4. pending' = pending \cup {<<op.sector, op.word>>} /\ UNCHANGED <<hasIntr, ide>>
        BY <1>8 DEF Store
  <2>5. pending' \subseteq Sector \X Word
        BY <2>1, <2>4
  <2>. QED
       BY <1>1, <2>3, <2>4, <2>5
<1>. QED
     BY <1>2, <1>3, <1>4, <1>5, <1>6, <1>7, <1>8 DEF Driver

LEMMA TypeStep ==
  ASSUME IInv, [Next]_vars
  PROVE  TypeOK'
<1>0. PicTypeOK'
      BY ControllerStep
<1> USE <1>0, SectorAssumption DEF IInv, TypeOK
<1>1. CASE PicNext /\ UNCHANGED driverVars
      BY <1>1 DEF driverVars
<1>2. ASSUME NEW s \in Sector, NEW w \in Word, NEW wr \in BOOLEAN, Call(s, w, wr)
      PROVE  TypeOK'
      BY <1>2 DEF Call, Place
<1>3. CASE Driver
      BY <1>3, DriverTypeStep DEF SlotType, IdeType
<1>4. CASE Handle
  <2>1. CASE got = Irq.timer /\ counter + 1 = WritebackTicks
    <3>1. Writeback /\ UNCHANGED <<hasIntr, op>>
          BY <1>4, <2>1, IrqNumbers DEF Handle
    <3>2. CASE Dirty = {}
          BY <3>1, <3>2 DEF Writeback
    <3>3. CASE Dirty # {}
      <4>1. PICK last \in Slot :
              ide' = [reg |-> slot[last].sector, write |-> TRUE,
                      at |-> slot[last].sector, cnt |-> NWords, ready |-> TRUE]
            BY <3>1, <3>3 DEF Writeback, Dirty
      <4>2. slot' = [i \in Slot |-> [slot[i] EXCEPT !.dirty = FALSE]]
            /\ pending' \subseteq pending /\ counter' = 0
            BY <3>1, <3>3 DEF Writeback
      <4>3. slot' \in SlotType
            BY <4>2 DEF SlotType
      <4>4. ide' \in IdeType
            BY <4>1, <4>2 DEF IdeType
      <4>5. counter' \in 0 .. WritebackTicks - 1
            BY <4>2
      <4>. QED
           BY <3>1, <4>2, <4>3, <4>4, <4>5 DEF SlotType, IdeType
    <3>. QED
         BY <3>2, <3>3
  <2>2. CASE got = Irq.timer /\ counter + 1 # WritebackTicks
    <3>1. counter' = counter + 1 /\ UNCHANGED <<slot, ide, pending, clash, hasIntr, op>>
          BY <1>4, <2>2, IrqNumbers DEF Handle
    <3>2. counter' \in 0 .. WritebackTicks - 1
          BY <2>2, <3>1
    <3>. QED
         BY <3>1, <3>2
  <2>3. CASE got # Irq.timer
    <3>1. UNCHANGED <<slot, ide, pending, clash, counter, op>> /\ hasIntr' \in {TRUE, hasIntr}
          BY <1>4, <2>3, IrqNumbers DEF Handle
    <3>. QED
         BY <3>1
  <2>. QED
       BY <2>1, <2>2, <2>3
<1>5. CASE UNCHANGED vars
      BY <1>5 DEF vars, driverVars
<1>. QED
     BY <1>1, <1>2, <1>3, <1>4, <1>5 DEF Next

LEMMA StepFacts ==
  ASSUME TypeOK, NEW here, NEW there, Step(here, there)
  PROVE  /\ op.pc = here /\ op'.pc = there
         /\ op'.sector = op.sector /\ op'.word = op.word /\ op'.write = op.write
         /\ Mine' = Mine /\ clash' = clash
         /\ Mine \in Slot /\ op.sector \in Sector /\ op.word \in Word
BY SlotOfType DEF TypeOK, Step, Mine

\* The words of a sector, those that wait for the device, and how far a
\* transfer has got.
LEMMA WordFacts ==
  /\ \A w \in Word : w \in Int /\ 0 <= w /\ w < NWords /\ ~(w < 0)
  /\ \A n \in 0 .. NWords : n \in Int /\ (n < NWords => n \in Word)
  /\ \A n \in 0 .. NWords : \A w \in Word : w < n + 1 => w < n \/ w = n
  /\ \A n \in 0 .. NWords : \A w \in Word : w >= n /\ w # n => w >= n + 1
  /\ \A n \in 0 .. NWords : n < NWords /\ n + 1 # NWords => n + 1 < NWords
  /\ \A n \in 0 .. NWords : \A w \in Word : n + 1 = NWords => w < n + 1 /\ ~(w >= n + 1)
  /\ 0 < NWords
BY SectorAssumption DEF Word

LEMMA PendingFacts ==
  ASSUME TypeOK
  PROVE  /\ \A p \in pending : p[1] \in Sector /\ SlotOf(p[1]) \in Slot
         /\ \A p \in pending : p[2] \in Word /\ p[2] >= 0 /\ p[2] < NWords
         /\ \A p \in pending : p = <<p[1], p[2]>>
<1>1. \A p \in pending : p[1] \in Sector /\ p[2] \in Word /\ p = <<p[1], p[2]>>
      BY DEF TypeOK
<1>. QED
     BY <1>1, SlotOfType, WordFacts

LEMMA CountFacts ==
  ASSUME TypeOK
  PROVE  ide.cnt \in 0 .. NWords /\ ide.cnt \in Int /\ NWords \in Int
BY SectorAssumption DEF TypeOK

\* A step of the call that touches neither the cache nor what waits for the
\* device, and does not end the reading of a sector.
LEMMA QuietStep ==
  ASSUME Undisturbed, ~clash, UNCHANGED <<slot, pending, clash>>, Mine' = Mine,
         op.pc \notin {"read", "fill", "mark"}
  PROVE  /\ Placed' /\ SectorsWhole' /\ NoStoredWordLost'
         /\ Entry' = Entry /\ MyPending' = MyPending
<1>1. Placed /\ SectorsWhole /\ NoStoredWordLost
      BY DEF Undisturbed
<1>2. Placed'
      BY <1>1 DEF Placed
<1>3. SectorsWhole'
      BY <1>1 DEF SectorsWhole
<1>4. NoStoredWordLost'
      BY <1>1 DEF NoStoredWordLost
<1>5. Entry' = Entry /\ MyPending' = MyPending
      BY DEF Entry, MyPending
<1>. QED
     BY <1>2, <1>3, <1>4, <1>5

\* Each step of the driver keeps what Undisturbed says.
LEMMA DriverStep ==
  ASSUME TypeOK, Undisturbed, Driver, ~clash
  PROVE  Undisturbed'
<1> USE DEF Undisturbed, Placed, MyPending, WriteInv, ReadInv, CallInv, SectorsWhole,
            NoStoredWordLost
<1>1. CASE Lookup
  <2>1. /\ op.pc = "fetch" /\ UNCHANGED <<slot, ide, pending, clash>>
        /\ Mine' = Mine /\ op'.sector = op.sector /\ Mine \in Slot
        BY <1>1, StepFacts DEF Lookup
  <2>2. \/ op'.pc = "idle"
        \/ op'.pc = "store" /\ Entry.used /\ Entry.sector = op.sector
        \/ op'.pc = "prepare write" /\ Entry.used
        \/ op'.pc = "clear" /\ ~(Entry.used /\ Entry.dirty)
        BY <1>1, StepFacts DEF Lookup
  <2>3. op'.pc = "clear" => MyPending = {}
        BY <2>1, <2>2 DEF Entry
  <2>4. /\ Placed' /\ SectorsWhole' /\ NoStoredWordLost'
        /\ Entry' = Entry /\ MyPending' = MyPending
        BY <2>1, QuietStep
  <2>5. WriteInv' /\ ReadInv' /\ CallInv'
        BY <2>1, <2>2, <2>3, <2>4
  <2>. QED
       BY <2>4, <2>5
<1>2. CASE PrepareWrite
  <2>1. /\ op.pc = "prepare write" /\ op'.pc = "command write"
        /\ UNCHANGED <<slot, pending, clash>> /\ ide'.reg = Entry.sector
        /\ Mine' = Mine /\ op'.sector = op.sector
    <3>1. /\ Step("prepare write", "command write")
          /\ ide' = [ide EXCEPT !.reg = Entry.sector] /\ UNCHANGED <<slot, pending>>
          BY <1>2 DEF PrepareWrite, Prepare
    <3>. QED
         BY ONLY <3>1, StepFacts, IdeRegister, IdeIsTyped, TypeOK
  <2>2. /\ Placed' /\ SectorsWhole' /\ NoStoredWordLost'
        /\ Entry' = Entry /\ MyPending' = MyPending
        BY <2>1, QuietStep
  <2>3. WriteInv' /\ ReadInv' /\ CallInv'
        BY <2>1, <2>2
  <2>. QED
       BY <2>2, <2>3
<1>3. CASE CommandWrite
  <2>1. /\ op.pc = "command write" /\ op'.pc = "write"
        /\ UNCHANGED <<slot, pending, clash>>
        /\ ide'.write /\ ide'.at = ide.reg /\ ide'.cnt = 0
        /\ Mine' = Mine /\ op'.sector = op.sector
    <3>1. /\ Step("command write", "write") /\ UNCHANGED <<slot, pending>>
          /\ ide' = [ide EXCEPT !.write = TRUE, !.at = ide.reg, !.cnt = 0, !.ready = FALSE]
          BY <1>3 DEF CommandWrite
    <3>2. ide'.write /\ ide'.at = ide.reg /\ ide'.cnt = 0
      <4>1. ide'.write = TRUE /\ ide'.at = ide.reg /\ ide'.cnt = 0
            BY ONLY <3>1, IdeIsTyped, TypeOK DEF IdeType
      <4>. QED
           BY ONLY <4>1
    <3>. QED
         BY ONLY <3>1, <3>2, StepFacts, TypeOK
  <2>2. \A p \in pending : p[2] >= 0
        BY PendingFacts
  <2>3. 0 < NWords
        BY WordFacts
  <2>4. /\ Placed' /\ SectorsWhole' /\ NoStoredWordLost'
        /\ Entry' = Entry /\ MyPending' = MyPending
        BY <2>1, QuietStep
  <2>5. WriteInv' /\ ReadInv' /\ CallInv'
        BY <2>1, <2>2, <2>3, <2>4
  <2>. QED
       BY <2>4, <2>5
<1>4. CASE WriteWord
  <2>0. op.pc = "write"
        BY <1>4, StepFacts DEF WriteWord
  <2>1. /\ op'.pc = (IF ide.cnt + 1 = NWords THEN "clear" ELSE "write")
        /\ ide' = [ide EXCEPT !.cnt = ide.cnt + 1, !.ready = (ide.cnt + 1 = NWords)]
        /\ pending' = IF Entry.content[ide.cnt].new
                        THEN pending \ {<<ide.at, ide.cnt>>} ELSE pending
        /\ UNCHANGED <<slot, clash>>
        /\ Mine' = Mine /\ op'.sector = op.sector /\ Mine \in Slot
        BY <1>4, <2>0, StepFacts DEF WriteWord
  <2>2. /\ ide'.cnt = ide.cnt + 1 /\ ide'.at = ide.at /\ ide'.write = ide.write
        /\ ide.cnt \in 0 .. NWords - 1
        BY <2>0, <2>1, SectorAssumption DEF TypeOK
  <2>3. \A p \in MyPending : p[1] = Entry.sector /\ Entry.content[p[2]].new /\ p = <<p[1], p[2]>>
        BY <2>0 DEF Entry, TypeOK
  <2>4. MyPending' \subseteq MyPending
        BY <2>1
  <2>5. \A p \in MyPending' : p[2] >= ide.cnt + 1
    <3>1. ASSUME NEW p \in MyPending'
          PROVE  p[2] \in Word /\ p[2] >= ide.cnt /\ p[2] # ide.cnt
      <4>1. p \in MyPending /\ p \in pending'
            BY <2>4, <3>1
      <4>2. p[2] \in Word /\ p[2] >= ide.cnt /\ ide.at = Entry.sector
        <5>1. /\ ide.at = Entry.sector
              /\ \A q \in MyPending : q[2] >= ide.cnt
              BY <2>0
        <5>2. p[2] >= ide.cnt
              BY <4>1, <5>1
        <5>3. p[2] \in Word
              BY <4>1, PendingFacts
        <5>. QED
             BY <5>1, <5>2, <5>3
      <4>3. p[2] = ide.cnt => p = <<ide.at, ide.cnt>> /\ Entry.content[ide.cnt].new
        <5>1. /\ p[1] = Entry.sector /\ p = <<p[1], p[2]>>
              /\ Entry.content[p[2]].new
              BY <2>3, <4>1
        <5>. QED
             BY ONLY <4>2, <5>1
      <4>. QED
           BY <2>1, <4>1, <4>2, <4>3
    <3>. QED
         BY <3>1, WordFacts, CountFacts
  <2>6. op'.pc = "clear" => MyPending' = {}
    <3>1. \A p \in MyPending' : p[2] \in Word
          BY <2>4, PendingFacts
    <3>2. op'.pc = "clear" => ide.cnt + 1 = NWords
          BY <2>1
    <3>. QED
         BY ONLY <2>5, <3>1, <3>2, WordFacts, CountFacts, TypeOK
  <2>7. NoStoredWordLost' /\ Placed' /\ SectorsWhole'
        BY <2>0, <2>1
  <2>8. op'.pc = "write" => ide'.cnt < NWords /\ ide'.write /\ ide'.at = Entry'.sector
    <3>1. op'.pc = "write" => ide.cnt + 1 # NWords
          BY <2>1
    <3>2. ide.cnt < NWords /\ ide.write /\ ide.at = Entry.sector
          BY <2>0
    <3>3. op'.pc = "write" => ide.cnt + 1 < NWords
          BY ONLY <3>1, <3>2, WordFacts, CountFacts, TypeOK
    <3>. QED
         BY <2>1, <2>2, <3>2, <3>3 DEF Entry
  <2>9. op'.pc \in {"clear", "write"} /\ Entry'.used
        BY <2>0, <2>1 DEF Entry
  <2>. QED
       BY <2>2, <2>5, <2>6, <2>7, <2>8, <2>9
<1>5. CASE ClearIntr
  <2>1. /\ op.pc = "clear" /\ op'.pc = "prepare read"
        /\ UNCHANGED <<slot, ide, pending, clash>>
        /\ Mine' = Mine /\ op'.sector = op.sector
        BY <1>5, StepFacts DEF ClearIntr
  <2>2. /\ Placed' /\ SectorsWhole' /\ NoStoredWordLost'
        /\ Entry' = Entry /\ MyPending' = MyPending
        BY <2>1, QuietStep
  <2>3. WriteInv' /\ ReadInv' /\ CallInv'
        BY <2>1, <2>2
  <2>. QED
       BY <2>2, <2>3
<1>6. CASE PrepareRead
  <2>1. /\ op.pc = "prepare read" /\ op'.pc = "command read"
        /\ UNCHANGED <<slot, pending, clash>> /\ ide'.reg = op.sector
        /\ Mine' = Mine /\ op'.sector = op.sector
    <3>1. /\ Step("prepare read", "command read")
          /\ ide' = [ide EXCEPT !.reg = op.sector] /\ UNCHANGED <<slot, pending>>
          BY <1>6 DEF PrepareRead, Prepare
    <3>. QED
         BY ONLY <3>1, StepFacts, IdeRegister, IdeIsTyped, TypeOK
  <2>2. /\ Placed' /\ SectorsWhole' /\ NoStoredWordLost'
        /\ Entry' = Entry /\ MyPending' = MyPending
        BY <2>1, QuietStep
  <2>3. WriteInv' /\ ReadInv' /\ CallInv'
        BY <2>1, <2>2
  <2>. QED
       BY <2>2, <2>3
<1>7. CASE CommandRead
  <2>1. /\ op.pc = "command read" /\ op'.pc = "wait"
        /\ UNCHANGED <<slot, pending, clash>>
        /\ ~ide'.write /\ ide'.at = ide.reg /\ ide'.cnt = 0
        /\ Mine' = Mine /\ op'.sector = op.sector
    <3>1. /\ Step("command read", "wait") /\ UNCHANGED <<slot, pending>>
          /\ ide' = [ide EXCEPT !.write = FALSE, !.at = ide.reg, !.cnt = 0, !.ready = TRUE]
          BY <1>7 DEF CommandRead
    <3>2. ~ide'.write /\ ide'.at = ide.reg /\ ide'.cnt = 0
      <4>1. ide'.write = FALSE /\ ide'.at = ide.reg /\ ide'.cnt = 0
            BY ONLY <3>1, IdeIsTyped, TypeOK DEF IdeType
      <4>. QED
           BY ONLY <4>1
    <3>. QED
         BY ONLY <3>1, <3>2, StepFacts, TypeOK
  <2>2. /\ Placed' /\ SectorsWhole' /\ NoStoredWordLost'
        /\ Entry' = Entry /\ MyPending' = MyPending
        BY <2>1, QuietStep
  <2>3. WriteInv' /\ ReadInv' /\ CallInv'
        BY <2>1, <2>2
  <2>. QED
       BY <2>2, <2>3
<1>8. CASE Wait
  <2>1. /\ op.pc \in {"wait", "hlt"} /\ op'.pc \in {"wait", "hlt", "read"}
        /\ UNCHANGED <<slot, ide, pending, clash>>
        /\ Mine' = Mine /\ op'.sector = op.sector
        BY <1>8, StepFacts DEF Wait
  <2>2. ide.cnt = 0
        BY <2>1
  <2>3. (\A w \in Word : ~(w < 0)) /\ 0 < NWords
        BY WordFacts
  <2>4. /\ Placed' /\ SectorsWhole' /\ NoStoredWordLost'
        /\ Entry' = Entry /\ MyPending' = MyPending
        BY <2>1, QuietStep
  <2>5. WriteInv' /\ ReadInv' /\ CallInv'
        BY <2>1, <2>2, <2>3, <2>4
  <2>. QED
       BY <2>4, <2>5
<1>9. CASE ReadWord
  <2>0. ide.cnt < NWords /\ ~ide.write /\ ide.cnt \in Word
    <3>1. op.pc = "read"
          BY <1>9, StepFacts DEF ReadWord
    <3>. QED
         BY <3>1, WordFacts, CountFacts
  <2>1. /\ op.pc = "read" /\ op'.pc = (IF ide.cnt + 1 = NWords THEN "fill" ELSE "read")
        /\ slot' = [slot EXCEPT ![Mine].content[ide.cnt] = Image(ide.at)[ide.cnt]]
        /\ ide' = [ide EXCEPT !.cnt = ide.cnt + 1]
        /\ UNCHANGED <<pending, clash>>
        /\ Mine' = Mine /\ op'.sector = op.sector /\ op.sector \in Sector /\ Mine \in Slot
    <3>1. Step("read", IF ide.cnt + 1 = NWords THEN "fill" ELSE "read")
          BY <1>9, <2>0 DEF ReadWord
    <3>2. /\ op.pc = "read" /\ op'.pc = (IF ide.cnt + 1 = NWords THEN "fill" ELSE "read")
          /\ Mine' = Mine /\ op'.sector = op.sector /\ op.sector \in Sector /\ Mine \in Slot
          /\ clash' = clash
          BY ONLY <3>1, StepFacts, TypeOK
    <3>3. /\ slot' = [slot EXCEPT ![Mine].content[ide.cnt] = Image(ide.at)[ide.cnt]]
          /\ ide' = [ide EXCEPT !.cnt = ide.cnt + 1]
          /\ UNCHANGED pending
          BY <1>9, <2>0 DEF ReadWord
    <3>. QED
         BY <3>2, <3>3
  <2>2. /\ ide'.cnt = ide.cnt + 1 /\ ide'.at = ide.at /\ ide'.write = ide.write
        /\ ide.cnt \in 0 .. NWords
        BY <2>1 DEF TypeOK
  <2>3. /\ \A i \in Slot : /\ slot'[i].used = slot[i].used
                           /\ slot'[i].dirty = slot[i].dirty
                           /\ slot'[i].sector = slot[i].sector
                           /\ i # Mine => slot'[i] = slot[i]
        /\ \A w \in Word : slot'[Mine].content[w] =
                            (IF w = ide.cnt THEN Image(ide.at)[w] ELSE slot[Mine].content[w])
        BY <2>0, <2>1 DEF TypeOK
  <2>4. \A w \in Word : w < ide'.cnt => slot'[Mine].content[w].of = op.sector
    <3>1. Image(ide.at)[ide.cnt].of = op.sector
          BY <2>0, <2>1, ImageType
    <3>2. \A w \in Word : w < ide.cnt + 1 => w < ide.cnt \/ w = ide.cnt
          BY WordFacts, CountFacts
    <3>. QED
         BY <2>1, <2>2, <2>3, <3>1, <3>2 DEF Entry
  <2>5. op'.pc = "fill" => \A w \in Word : slot'[Mine].content[w].of = op.sector
    <3>1. op'.pc = "fill" => ide.cnt + 1 = NWords
          BY <2>1
    <3>2. op'.pc = "fill" => \A w \in Word : w < ide'.cnt
      <4>1. ide'.cnt = ide.cnt + 1
            BY <2>2
      <4>. QED
           BY ONLY <4>1, <3>1, WordFacts, CountFacts, TypeOK
    <3>. QED
         BY <2>4, <3>2
  <2>6. op'.pc = "read" => ide'.cnt < NWords
    <3>1. op'.pc = "read" => ide.cnt + 1 # NWords
          BY <2>1
    <3>2. ide'.cnt = ide.cnt + 1
          BY <2>2
    <3>. QED
         BY ONLY <2>0, <3>1, <3>2, WordFacts, CountFacts, TypeOK
  <2>7. MyPending = {} /\ MyPending' = {}
        BY <2>1
  <2>8. NoStoredWordLost'
    <3>1. \A p \in pending : SlotOf(p[1]) \in Slot /\ SlotOf(p[1]) # Mine
          BY <2>7, SlotOfType DEF TypeOK
    <3>. QED
         BY <2>1, <2>3, <3>1
  <2>9. Placed' /\ SectorsWhole'
        BY <2>1, <2>3
  <2>. QED
       BY <2>1, <2>2, <2>4, <2>5, <2>6, <2>7, <2>8, <2>9 DEF Entry
<1>10. CASE Fill
  <2>1. /\ op.pc = "fill" /\ op'.pc = "clean"
        /\ UNCHANGED <<ide, pending, clash>>
        /\ Mine' = Mine /\ op'.sector = op.sector /\ Mine \in Slot
        BY <1>10, StepFacts DEF Fill
  <2>2. /\ slot'[Mine].used /\ slot'[Mine].sector = op.sector
        /\ \A i \in Slot : /\ slot'[i].content = slot[i].content
                           /\ slot'[i].dirty = slot[i].dirty
                           /\ i # Mine => slot'[i] = slot[i]
        BY <1>10, <2>1 DEF Fill, TypeOK
  <2>3. SlotOf(op.sector) = Mine
        BY DEF Mine
  <2>4. MyPending = {} /\ MyPending' = {}
        BY <2>1
  <2>5. NoStoredWordLost'
    <3>1. \A p \in pending : SlotOf(p[1]) \in Slot /\ SlotOf(p[1]) # Mine
          BY <2>4, SlotOfType DEF TypeOK
    <3>. QED
         BY <2>1, <2>2, <3>1
  <2>6. Placed' /\ SectorsWhole'
        BY <2>1, <2>2, <2>3 DEF Entry
  <2>. QED
       BY <2>1, <2>2, <2>4, <2>5, <2>6 DEF Entry
<1>11. CASE Clean
  <2>1. /\ op.pc = "clean" /\ op'.pc \in {"store", "idle"}
        /\ UNCHANGED <<ide, pending, clash>>
        /\ Mine' = Mine /\ op'.sector = op.sector /\ Mine \in Slot
        BY <1>11, StepFacts DEF Clean
  <2>2. \A i \in Slot : /\ slot'[i].content = slot[i].content
                        /\ slot'[i].used = slot[i].used
                        /\ slot'[i].sector = slot[i].sector
                        /\ i # Mine => slot'[i] = slot[i]
        BY <1>11, <2>1 DEF Clean, TypeOK
  <2>3. NoStoredWordLost'
    <3>1. \A p \in pending : SlotOf(p[1]) \in Slot /\ SlotOf(p[1]) # Mine
          BY <2>1, SlotOfType DEF TypeOK
    <3>. QED
         BY <2>1, <2>2, <3>1
  <2>4. Placed' /\ SectorsWhole'
        BY <2>1, <2>2
  <2>. QED
       BY <2>1, <2>2, <2>3, <2>4 DEF Entry
<1>12. CASE Store
  <2>1. /\ op.pc = "store" /\ op'.pc = "mark"
        /\ slot' = [slot EXCEPT ![Mine].content[op.word] = [of |-> op.sector, new |-> TRUE]]
        /\ pending' = pending \cup {<<op.sector, op.word>>}
        /\ UNCHANGED <<ide, clash>>
        /\ Mine' = Mine /\ op'.sector = op.sector /\ Mine \in Slot /\ op.word \in Word
        BY <1>12, StepFacts DEF Store
  <2>2. /\ \A i \in Slot : /\ slot'[i].used = slot[i].used
                           /\ slot'[i].dirty = slot[i].dirty
                           /\ slot'[i].sector = slot[i].sector
                           /\ i # Mine => slot'[i] = slot[i]
        /\ \A w \in Word : slot'[Mine].content[w] =
              (IF w = op.word THEN [of |-> op.sector, new |-> TRUE]
               ELSE slot[Mine].content[w])
        BY <2>1 DEF TypeOK
  <2>3. slot[Mine].used /\ slot[Mine].sector = op.sector /\ SlotOf(op.sector) = Mine
        BY <2>1 DEF Entry, Mine
  <2>4. NoStoredWordLost'
    <3>1. \A p \in pending : SlotOf(p[1]) \in Slot /\ p[2] \in Word
          BY SlotOfType DEF TypeOK
    <3>. QED
         BY <2>1, <2>2, <2>3, <3>1
  <2>5. Placed' /\ SectorsWhole'
        BY <2>1, <2>2, <2>3
  <2>. QED
       BY <2>1, <2>2, <2>3, <2>4, <2>5 DEF Entry
<1>13. CASE Mark
  <2>1. /\ op.pc = "mark" /\ op'.pc = "idle"
        /\ slot' = [slot EXCEPT ![Mine].dirty = TRUE]
        /\ UNCHANGED <<ide, pending, clash>>
        /\ Mine' = Mine /\ op'.sector = op.sector /\ Mine \in Slot
        BY <1>13, StepFacts DEF Mark
  <2>2. /\ slot'[Mine].dirty
        /\ \A i \in Slot : /\ slot'[i].content = slot[i].content
                           /\ slot'[i].used = slot[i].used
                           /\ slot'[i].sector = slot[i].sector
                           /\ i # Mine => slot'[i] = slot[i]
        BY <2>1 DEF TypeOK
  <2>3. \A p \in pending : SlotOf(p[1]) \in Slot
        BY SlotOfType DEF TypeOK
  <2>. QED
       BY <2>1, <2>2, <2>3 DEF Entry
<1>. QED
     BY <1>1, <1>2, <1>3, <1>4, <1>5, <1>6, <1>7, <1>8, <1>9, <1>10, <1>11, <1>12,
        <1>13 DEF Driver

\* The timer's write-back, when it falls between two transfers, gives the
\* device every word that waits in a marked slot; a word that has just been
\* stored and whose slot is not marked yet stays where it is.
LEMMA WritebackStep ==
  ASSUME TypeOK, Undisturbed, Writeback, UNCHANGED op, ~clash'
  PROVE  Undisturbed'
<1>1. ~clash
      BY DEF Writeback
<1>2. Mine' = Mine /\ Mine \in Slot
      BY SlotOfType DEF Mine, TypeOK
<1>3. CASE Dirty = {}
  <2>1. UNCHANGED <<slot, ide, pending, op>>
        BY <1>3 DEF Writeback
  <2>2. Entry' = Entry /\ MyPending' = MyPending
        BY <1>2, <2>1 DEF Entry, MyPending
  <2>3. Placed /\ WriteInv /\ ReadInv /\ CallInv /\ SectorsWhole /\ NoStoredWordLost
        BY <1>1 DEF Undisturbed
  <2>4. Placed' /\ CallInv'
        BY <2>1, <2>2, <2>3 DEF Placed, CallInv
  <2>5. WriteInv' /\ ReadInv'
        BY <2>1, <2>2, <2>3 DEF WriteInv, ReadInv
  <2>6. SectorsWhole' /\ NoStoredWordLost'
        BY <1>1, <1>2, <2>1, <2>3 DEF SectorsWhole, NoStoredWordLost
  <2>. QED
       BY <2>4, <2>5, <2>6 DEF Undisturbed
<1>4. CASE Dirty # {}
  <2>1. op.pc \notin Transfer /\ ~(op.pc = "fill" /\ Entry.dirty)
        BY <1>4 DEF Writeback
  <2>2. \A i \in Slot : /\ slot'[i].content = slot[i].content
                        /\ slot'[i].used = slot[i].used
                        /\ slot'[i].sector = slot[i].sector
        BY <1>4 DEF Writeback, TypeOK
  <2>3. pending' = {p \in pending : \A i \in Dirty :
                      ~(p[1] = slot[i].sector /\ slot[i].content[p[2]].new)}
        BY <1>4 DEF Writeback
  <2>4. Placed' /\ SectorsWhole'
        BY <1>1, <1>2, <2>2 DEF Undisturbed, Placed, SectorsWhole
  <2>5. MyPending' \subseteq MyPending
        BY <1>2, <2>3 DEF MyPending
  <2>6. NoStoredWordLost'
    <3>1. SUFFICES ASSUME NEW p \in pending'
                   PROVE  LET i == SlotOf(p[1])
                          IN  /\ slot'[i].used /\ slot'[i].sector = p[1]
                              /\ slot'[i].content[p[2]].new
                              /\ i = Mine' /\ op'.pc = "mark"
          BY DEF NoStoredWordLost
    <3>2. p \in pending /\ SlotOf(p[1]) \in Slot
          BY <2>3, PendingFacts
    <3>3. LET i == SlotOf(p[1])
          IN  /\ slot[i].used /\ slot[i].sector = p[1]
              /\ slot[i].content[p[2]].new
              /\ slot[i].dirty \/ (i = Mine /\ op.pc = "mark")
          BY <1>1, <3>2 DEF Undisturbed, NoStoredWordLost
    <3>4. SlotOf(p[1]) \notin Dirty
          BY <2>3, <3>1, <3>3
    <3>5. ~slot[SlotOf(p[1])].dirty
          BY <3>2, <3>4 DEF Dirty
    <3>. QED
         BY <1>2, <2>2, <3>2, <3>3, <3>5
  <2>7. Entry'.used = Entry.used /\ Entry'.sector = Entry.sector
        /\ Entry'.content = Entry.content
        BY <1>2, <2>2 DEF Entry
  <2>8. WriteInv'
        BY <1>1, <2>1, <2>7 DEF Undisturbed, WriteInv, Transfer
  <2>9. ReadInv'
        BY <1>1, <2>1, <2>5, <2>7 DEF Undisturbed, ReadInv, Transfer
  <2>10. CallInv'
        BY <1>1, <2>7 DEF Undisturbed, CallInv
  <2>. QED
       BY <2>4, <2>6, <2>8, <2>9, <2>10 DEF Undisturbed
<1>. QED
     BY <1>3, <1>4

LEMMA UndisturbedStep ==
  ASSUME IInv, [Next]_vars
  PROVE  Undisturbed'
<1> TypeOK /\ Undisturbed
    BY DEF IInv
<1>0. ASSUME UNCHANGED <<slot, ide, op, pending, clash>>
      PROVE  Undisturbed'
      BY <1>0 DEF Undisturbed, Placed, MyPending, WriteInv, ReadInv, CallInv, SectorsWhole,
         NoStoredWordLost, Mine, Entry
<1>1. CASE PicNext /\ UNCHANGED driverVars
      BY <1>0, <1>1 DEF driverVars
<1>2. ASSUME NEW s \in Sector, NEW w \in Word, NEW wr \in BOOLEAN, Call(s, w, wr)
      PROVE  Undisturbed'
  <2>1. /\ op.pc = "idle" /\ op'.pc = "fetch" /\ ~clash /\ UNCHANGED <<slot, pending, clash>>
        BY <1>2 DEF Call
  <2>2. Placed' /\ SectorsWhole' /\ NoStoredWordLost'
        BY <2>1 DEF Undisturbed, Placed, SectorsWhole, NoStoredWordLost
  <2>. QED
       BY <2>1, <2>2 DEF Undisturbed, WriteInv, ReadInv, CallInv
<1>3. CASE Driver
  <2>1. clash' = clash
        BY <1>3, DriverTypeStep
  <2>2. CASE clash
        BY <2>1, <2>2 DEF Undisturbed
  <2>. QED
       BY <1>3, <2>2, DriverStep
<1>4. CASE Handle
  <2>1. UNCHANGED op
        BY <1>4 DEF Handle
  <2>2. CASE got = Irq.timer /\ counter + 1 = WritebackTicks
    <3>1. Writeback
          BY <1>4, <2>2, IrqNumbers DEF Handle
    <3>2. CASE clash'
          BY <3>2 DEF Undisturbed
    <3>. QED
         BY <2>1, <3>1, <3>2, WritebackStep
  <2>3. CASE ~(got = Irq.timer /\ counter + 1 = WritebackTicks)
    <3>1. UNCHANGED <<slot, ide, pending, clash>>
          BY <1>4, <2>3, IrqNumbers DEF Handle
    <3>. QED
         BY <1>0, <2>1, <3>1
  <2>. QED
       BY <2>2, <2>3
<1>5. CASE UNCHANGED vars
      BY <1>0, <1>5 DEF vars, driverVars
<1>. QED
     BY <1>1, <1>2, <1>3, <1>4, <1>5 DEF Next

\* The processor stops neither for a flag without a number nor for a word that
\* the device does not have.
LEMMA AssertionsStep ==
  ASSUME IInv, [Next]_vars
  PROVE  NoAssertionFails'
<1> TypeOK /\ ControllerInv /\ NoAssertionFails /\ Undisturbed
    BY DEF IInv
<1> USE DEF NoAssertionFails
<1>1. CASE PicNext /\ UNCHANGED driverVars
  <2>1. cpu' = "aborted" => cpu = "aborted"
    <3>1. CASE Query
          BY <3>1 DEF Query, ControllerInv
    <3>2. CASE Raising \/ NoInterrupt \/ Ack
          BY <3>2 DEF Raising, RaiseLock, RaiseNumber, RaiseFlag, NoInterrupt, Ack
    <3>. QED
         BY <1>1, <3>1, <3>2 DEF PicNext
  <2>. QED
       BY <1>1, <2>1 DEF driverVars
<1>2. CASE \E s \in Sector, w \in Word, wr \in BOOLEAN : Call(s, w, wr)
      BY <1>2 DEF Call
<1>3. CASE WriteWord \/ ReadWord
  <2>1. CASE clash
        BY <1>3, <2>1, DriverTypeStep DEF Driver
  <2>2. CASE ~clash
    <3>1. WriteInv /\ ReadInv
          BY <2>2 DEF Undisturbed
    <3>2. op.pc = "write" => ide.cnt < NWords /\ ide.write
          BY <3>1 DEF WriteInv
    <3>3. op.pc = "read" => ide.cnt < NWords /\ ~ide.write
          BY <3>1 DEF ReadInv
    <3>. QED
         BY <1>3, <3>2, <3>3 DEF WriteWord, ReadWord, Step
  <2>. QED
       BY <2>1, <2>2
<1>4. CASE Driver /\ ~WriteWord /\ ~ReadWord
  <2>1. cpu' = "check"
    <3>1. CASE Lookup \/ PrepareWrite \/ CommandWrite \/ ClearIntr \/ PrepareRead \/ CommandRead
          BY <3>1 DEF Lookup, PrepareWrite, CommandWrite, ClearIntr, PrepareRead, CommandRead, Step
    <3>2. CASE Wait \/ Fill \/ Clean \/ Store \/ Mark
          BY <3>2 DEF Wait, Fill, Clean, Store, Mark, Step
    <3>. QED
         BY <1>4, <3>1, <3>2 DEF Driver
  <2>. QED
       BY <2>1
<1>5. CASE Handle
      BY <1>5 DEF Handle
<1>6. CASE UNCHANGED vars
      BY <1>6 DEF vars, picVars, driverVars
<1>. QED
     BY <1>1, <1>2, <1>3, <1>4, <1>5, <1>6 DEF Next

\* Until a write-back falls into a transfer, no assertion of the processor and
\* of the device fails, a slot in use holds one whole sector, and every stored
\* word that the device has not been given is in the slot of its sector, which
\* is marked or about to be (cache_fetch, write_byte and cache_writeback of
\* cache.c, disk.c, and i8259_raise_intr against the loop of cpu.c).
THEOREM SectorsSafe ==
  Spec => [](TypeOK /\ NoAssertionFails /\ SectorsWhole /\ NoStoredWordLost)
<1>1. Init => IInv
      BY InitIInv
<1>2. IInv /\ [Next]_vars => IInv'
      BY TypeStep, ControllerStep, UndisturbedStep, AssertionsStep DEF IInv
<1>3. IInv => TypeOK /\ NoAssertionFails /\ SectorsWhole /\ NoStoredWordLost
  <2>. SUFFICES ASSUME IInv
                PROVE  TypeOK /\ NoAssertionFails /\ SectorsWhole /\ NoStoredWordLost
       OBVIOUS
  <2>1. CASE clash
        BY <2>1 DEF IInv, SectorsWhole, NoStoredWordLost
  <2>2. CASE ~clash
        BY <2>2 DEF IInv, Undisturbed
  <2>. QED
       BY <2>1, <2>2
<1>. QED
     BY <1>1, <1>2, <1>3, PTL DEF Spec
\* What each of these invariants says alone: every register, slot and place of a
\* call holds a value of its type ...
THEOREM DiskTypes == Spec => []TypeOK
  BY SectorsSafe, PTL

\* ... the device is asked for no word it does not have and the processor takes no
\* interrupt without a number, until a write-back falls into a transfer ...
THEOREM NoDiskAssertion == Spec => []NoAssertionFails
  BY SectorsSafe, PTL

\* ... and until then a slot in use holds all the words of its own sector,
\* whatever the timer's handler writes back between two calls or within one.
THEOREM SlotsWhole == Spec => []SectorsWhole
  BY SectorsSafe, PTL
=============================================================================
