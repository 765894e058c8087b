---------------------------- MODULE KernelProofs ----------------------------
(***************************************************************************)
(* Theorems about the kernel for any number of processes and semaphores,   *)
(* any time slice, any size of the key ring and any programs:              *)
(*   - types, and the table of the keyboard driver: every program;         *)
(*   - wait lists, scheduler, resumption, waking: disciplined programs;    *)
(*   - the scheduler once more: programs whose forks overlap;              *)
(*   - the refinements of FifoSemaphores and TypeAhead: disciplined        *)
(*     programs.                                                           *)
(***************************************************************************)
EXTENDS Kernel, SequenceTheorems, FiniteSetTheorems, WellFoundedInduction, TLAPS

(* Types.                                                                  *)

(* The constants of the two modules, as facts for the provers.             *)
LEMMA Constants ==
  /\ NProc \in Nat \ {0, 1} /\ NSem \in Nat /\ MaxTimeCount \in Nat \ {0}
  /\ ReadSize \in Nat \ {0}
  /\ KBSize \in Nat \ {0, 1} /\ KeyCodes \subseteq CodeClasses
  /\ Forkers \subseteq Procs /\ Readers \subseteq Procs
  /\ SleepTimes \subseteq Nat /\ SemValues \subseteq Int
  BY KernelAssumption, KeyboardAssumption

(* Where the nodes of the lists are: the PCBs' first, then the heads.      *)
LEMMA NodePlaces ==
  /\ Procs \subseteq Nodes
  /\ \A s \in Sems : SemNode(s) \in Nodes /\ SemNode(s) \notin Procs
  /\ StdInNode \in Nodes /\ StdInNode \notin Procs
  /\ NULL \in Nodes /\ NULL \notin Procs
  BY Constants DEF Procs, Sems, SemNode, StdInNode, NULL, Nodes

(* A position taken modulo the size of the ring is in the ring.            *)
LEMMA RingPosition == \A k \in 0 .. KBSize - 1 : (k + 1) % KBSize \in 0 .. KBSize - 1
  BY Constants

-----------------------------------------------------------------------------
(* Type correctness, one lemma per part of the kernel.                     *)

(* The initial state has its types.                                        *)
LEMMA InitType == Init => TypeOK
  <1> SUFFICES ASSUME Init PROVE TypeOK
    OBVIOUS
  <1>1. state \in [Procs -> States]
    BY DEF Init, States
  <1>2. next \in [Nodes -> Nodes] /\ prev \in [Nodes -> Nodes]
    BY NodePlaces DEF Init
  <1>3. KeyboardTypeOK
    BY Constants DEF Init, InitKeyTable, KeyboardTypeOK, CodeClasses
  <1>4. current \in Procs /\ devValue \in Int
    BY Constants DEF Init, Procs
  <1>8. wild \in BOOLEAN
    BY Zenon DEF Init
  <1>5. /\ timeCount \in [Procs -> 0 .. MaxTimeCount]
        /\ sleepTime \in [Procs -> Nat \cup {-1}]
        /\ stackTop \in [Procs -> 0 .. 2]
        /\ prevStackTop \in [Procs -> 0 .. 2]
    BY Constants DEF Init
  <1>6. /\ run \in [Procs -> Places]
        /\ local \in [Procs -> Nat]
        /\ saved \in [Procs -> 0 .. 2]
    BY DEF Init, Places
  <1>7. semState \in [Sems -> {0, 1}] /\ semValue \in [Sems -> Int]
    BY DEF Init
  <1> QED
    BY <1>1, <1>2, <1>3, <1>4, <1>5, <1>6, <1>7, <1>8 DEF TypeOK

(* The two loops over all processes of timerHandle keep the types.         *)
LEMMA CountDownType ==
  ASSUME TypeOK,
         NEW st \in [Procs -> States], NEW sl \in [Procs -> Nat \cup {-1}]
  PROVE  /\ CountDown(st, sl) \in [Procs -> Nat \cup {-1}]
         /\ WakeUp(st, sl) \in [Procs -> States]
  BY DEF CountDown, WakeUp, Sleeping, States

(* A switch leaves the current process, the PCBs and their stacks within   *)
(* their types.                                                            *)
LEMMA SwitchType ==
  ASSUME TypeOK,
         NEW st \in [Procs -> States], NEW tc \in [Procs -> 0 .. MaxTimeCount],
         NEW top \in [Procs -> 0 .. 2], NEW ptop \in [Procs -> 0 .. 2],
         SwitchTo(st, tc, top, ptop)
  PROVE  /\ current' \in Procs
         /\ state' \in [Procs -> States]
         /\ timeCount' \in [Procs -> 0 .. MaxTimeCount]
         /\ stackTop' \in [Procs -> 0 .. 2]
         /\ prevStackTop' \in [Procs -> 0 .. 2]
  BY Constants DEF SwitchTo, States

(* The pointer operations stay among the nodes.                            *)
LEMMA ListType ==
  ASSUME NEW nx \in [Nodes -> Nodes], NEW pv \in [Nodes -> Nodes],
         NEW h \in Nodes, NEW n \in Nodes
  PROVE  /\ NextAfterInsert(nx, h, n) \in [Nodes -> Nodes]
         /\ PrevAfterInsert(nx, pv, h, n) \in [Nodes -> Nodes]
         /\ NextAfterRemove(nx, pv, h) \in [Nodes -> Nodes]
         /\ PrevAfterRemove(pv, h) \in [Nodes -> Nodes]
         /\ SelfLinked(nx, h) \in [Nodes -> Nodes]
  BY DEF NextAfterInsert, PrevAfterInsert, NextAfterRemove, PrevAfterRemove,
         SelfLinked

(* A wake-up of the oldest member of a list keeps the types.               *)
LEMMA WakeOldestType ==
  ASSUME TypeOK, NEW h \in Nodes, WakeOldest(h)
  PROVE  /\ state' \in [Procs -> States]
         /\ sleepTime' \in [Procs -> Nat \cup {-1}]
         /\ next' \in [Nodes -> Nodes]
         /\ prev' \in [Nodes -> Nodes]
         /\ wild' \in BOOLEAN
  <1>1. next' \in [Nodes -> Nodes] /\ prev' \in [Nodes -> Nodes]
    BY ListType DEF TypeOK, WakeOldest
  <1>2. CASE prev[h] \in Procs
    BY <1>1, <1>2 DEF TypeOK, WakeOldest, States
  <1>3. CASE prev[h] \notin Procs
    BY <1>1, <1>3 DEF TypeOK, WakeOldest
  <1> QED BY <1>2, <1>3

(* A handler that wakes nobody keeps the types.                            *)
LEMMA WakeNobodyType ==
  ASSUME TypeOK, WakeNobody
  PROVE  /\ state' \in [Procs -> States]
         /\ sleepTime' \in [Procs -> Nat \cup {-1}]
         /\ next' \in [Nodes -> Nodes]
         /\ prev' \in [Nodes -> Nodes]
         /\ wild' \in BOOLEAN
  BY DEF TypeOK, WakeNobody, listVars

(* A handler that returns to the process it interrupted keeps the types.   *)
LEMMA ReturnAtOnceType ==
  ASSUME TypeOK, ReturnAtOnce
  PROVE  /\ timeCount' \in [Procs -> 0 .. MaxTimeCount]
         /\ stackTop' \in [Procs -> 0 .. 2]
         /\ prevStackTop' \in [Procs -> 0 .. 2]
         /\ run' \in [Procs -> Places]
         /\ local' \in [Procs -> Nat]
         /\ saved' \in [Procs -> 0 .. 2]
         /\ current' \in Procs
  BY DEF TypeOK, ReturnAtOnce, PrevOnEntry, goVars

(* A system call that gives the processor away keeps the types.            *)
LEMMA GiveAwayType ==
  ASSUME TypeOK,
         NEW st \in [Procs -> States], NEW sl \in [Procs -> Nat \cup {-1}],
         NEW r \in Places, NEW l \in Nat, GiveAway(st, sl, r, l)
  PROVE  /\ state' \in [Procs -> States]
         /\ timeCount' \in [Procs -> 0 .. MaxTimeCount]
         /\ sleepTime' \in [Procs -> Nat \cup {-1}]
         /\ stackTop' \in [Procs -> 0 .. 2]
         /\ prevStackTop' \in [Procs -> 0 .. 2]
         /\ run' \in [Procs -> Places]
         /\ local' \in [Procs -> Nat]
         /\ saved' \in [Procs -> 0 .. 2]
         /\ current' \in Procs
  <1>1. /\ run' \in [Procs -> Places]
        /\ local' \in [Procs -> Nat]
        /\ saved' \in [Procs -> 0 .. 2]
    BY DEF TypeOK, GiveAway
  <1>2. /\ sleepTime' \in [Procs -> Nat \cup {-1}]
        /\ WakeUp(st, sl) \in [Procs -> States]
    BY CountDownType DEF GiveAway
  <1>3. /\ [stackTop EXCEPT ![current] = 2] \in [Procs -> 0 .. 2]
        /\ [prevStackTop EXCEPT ![current] = 1] \in [Procs -> 0 .. 2]
        /\ timeCount \in [Procs -> 0 .. MaxTimeCount]
    BY DEF TypeOK
  <1>4. SwitchTo(WakeUp(st, sl), timeCount, [stackTop EXCEPT ![current] = 2],
                 [prevStackTop EXCEPT ![current] = 1])
    BY DEF GiveAway
  <1> HIDE DEF SwitchTo
  <1> QED
    BY <1>1, <1>2, <1>3, <1>4, SwitchType

(* Every step keeps the types.                                             *)
LEMMA TypeStep == TypeOK /\ [Next]_vars => TypeOK'
  <1> SUFFICES ASSUME TypeOK, [Next]_vars PROVE TypeOK'
    OBVIOUS
  <1> USE NodePlaces
  <1>stutter. CASE UNCHANGED vars
    BY <1>stutter DEF TypeOK, KeyboardTypeOK, vars, pcbVars, goVars, semVars,
                      listVars, kbVars
  <1>frame. ASSUME UNCHANGED <<semVars, devValue, listVars, wild, kbVars>>
            PROVE  /\ semState' \in [Sems -> {0, 1}]
                   /\ semValue' \in [Sems -> Int]
                   /\ devValue' \in Int
                   /\ next' \in [Nodes -> Nodes]
                   /\ prev' \in [Nodes -> Nodes]
                   /\ wild' \in BOOLEAN
                   /\ KeyboardTypeOK'
    BY <1>frame DEF TypeOK, KeyboardTypeOK, semVars, listVars, kbVars
  <1>plain. ASSUME PlainCall PROVE TypeOK'
    BY <1>plain, ReturnAtOnceType, WakeNobodyType
    DEF PlainCall, TypeOK, KeyboardTypeOK, semVars, kbVars
  <1>blocked. Blocked(current) \in [Procs -> States]
    BY DEF TypeOK, Blocked, States
  <1>timer. ASSUME TimerIrq PROVE TypeOK'
    <2>1. CASE Tick
      <3>1. state' \in [Procs -> States]
        BY <2>1, CountDownType DEF Tick, TypeOK
      <3>2. sleepTime' \in [Procs -> Nat \cup {-1}]
        BY <1>timer, CountDownType DEF TimerIrq, TypeOK
      <3>3. /\ timeCount' \in [Procs -> 0 .. MaxTimeCount]
            /\ stackTop' \in [Procs -> 0 .. 2]
            /\ prevStackTop' \in [Procs -> 0 .. 2]
            /\ current' \in Procs
        BY <2>1, Constants DEF Tick, TypeOK, PrevOnEntry
      <3> QED
        BY <3>1, <3>2, <3>3, <1>timer, <1>frame DEF TimerIrq, TypeOK, goVars
    <2>2. CASE Preempt
      <3> DEFINE st == [state EXCEPT ![current] = "runnable"]
      <3>1. /\ WakeUp(st, sleepTime) \in [Procs -> States]
            /\ sleepTime' \in [Procs -> Nat \cup {-1}]
        <4>1. st \in [Procs -> States]
          BY DEF TypeOK, States
        <4>2. WakeUp(st, sleepTime) \in [Procs -> States]
          BY <4>1, CountDownType DEF TypeOK
        <4>3. sleepTime' \in [Procs -> Nat \cup {-1}]
          BY <1>timer, CountDownType DEF TimerIrq, TypeOK
        <4> QED BY <4>2, <4>3
      <3>2. /\ [timeCount EXCEPT ![current] = 0] \in [Procs -> 0 .. MaxTimeCount]
            /\ [stackTop EXCEPT ![current] = Depth(run[current]) + 1]
                 \in [Procs -> 0 .. 2]
            /\ PrevOnEntry \in [Procs -> 0 .. 2]
        BY Constants DEF TypeOK, Depth, PrevOnEntry
      <3>3. /\ current' \in Procs
            /\ state' \in [Procs -> States]
            /\ timeCount' \in [Procs -> 0 .. MaxTimeCount]
            /\ stackTop' \in [Procs -> 0 .. 2]
            /\ prevStackTop' \in [Procs -> 0 .. 2]
        <4>1. SwitchTo(WakeUp(st, sleepTime), [timeCount EXCEPT ![current] = 0],
                       [stackTop EXCEPT ![current] = Depth(run[current]) + 1],
                       PrevOnEntry)
          BY <2>2 DEF Preempt
        <4> HIDE DEF st
        <4> QED BY <4>1, <3>1, <3>2, SwitchType
      <3> QED
        BY <3>1, <3>3, <1>timer, <1>frame DEF TimerIrq, TypeOK, goVars
    <2> QED BY <1>timer, <2>1, <2>2 DEF TimerIrq
  <1>keyboard. ASSUME KeyboardIrq PROVE TypeOK'
    <2>1. KeyboardTypeOK'
      BY <1>keyboard, RingPosition, Constants
      DEF KeyboardIrq, StoreKey, KeyboardTypeOK, TypeOK
    <2>2. /\ state' \in [Procs -> States]
          /\ sleepTime' \in [Procs -> Nat \cup {-1}]
          /\ next' \in [Nodes -> Nodes]
          /\ prev' \in [Nodes -> Nodes]
          /\ wild' \in BOOLEAN
          /\ devValue' \in Int
      BY <1>keyboard, WakeOldestType, WakeNobodyType DEF KeyboardIrq, TypeOK
    <2> QED
      BY <1>keyboard, <2>1, <2>2, ReturnAtOnceType
      DEF KeyboardIrq, TypeOK, semVars
  <1>illegal. ASSUME IllegalKeyIrq PROVE TypeOK'
    BY <1>illegal, <1>plain DEF IllegalKeyIrq, PlainCall
  <1>sleep. ASSUME NEW t \in SleepTimes, Sleep(t) PROVE TypeOK'
    <2>1. CASE t = 0
      BY <1>sleep, <2>1, <1>plain DEF Sleep
    <2>2. CASE t # 0
      <3>1. [sleepTime EXCEPT ![current] = t] \in [Procs -> Nat \cup {-1}]
        BY Constants DEF TypeOK
      <3>2. GiveAway(Blocked(current), [sleepTime EXCEPT ![current] = t],
                     "sleep", 0)
        BY <1>sleep, <2>2 DEF Sleep
      <3> QED
        BY <3>1, <3>2, <2>2, <1>blocked, <1>sleep, <1>frame, GiveAwayType
        DEF Sleep, TypeOK, Places
    <2> QED BY <2>1, <2>2
  <1>exit. ASSUME Exit PROVE TypeOK'
    <2>1. [state EXCEPT ![current] = "dead"] \in [Procs -> States]
      BY DEF TypeOK, States
    <2> QED
      BY <2>1, <1>exit, <1>frame, GiveAwayType DEF Exit, TypeOK, Places
  <1>forkBegin. ASSUME ForkBegin PROVE TypeOK'
    <2>1. CASE \A p \in Procs : state[p] # "dead"
      BY <1>forkBegin, <2>1, <1>plain DEF ForkBegin
    <2>2. CASE ~ \A p \in Procs : state[p] # "dead"
      <3>1. /\ run' \in [Procs -> Places]
            /\ saved' \in [Procs -> 0 .. 2]
            /\ stackTop' \in [Procs -> 0 .. 2]
            /\ prevStackTop' \in [Procs -> 0 .. 2]
        BY <1>forkBegin, <2>2 DEF ForkBegin, TypeOK, Places, PrevOnEntry
      <3>2. local' \in [Procs -> Nat]
        <4>1. PICK i \in Procs : local' = [local EXCEPT ![current] = i]
          BY <1>forkBegin, <2>2, Zenon DEF ForkBegin
        <4>2. i \in Nat
          BY Constants DEF Procs
        <4> QED BY <4>1, <4>2 DEF TypeOK
      <3> QED
        BY <1>forkBegin, <2>2, <3>1, <3>2, <1>frame DEF ForkBegin, TypeOK
    <2> QED BY <2>1, <2>2
  <1>forkEnd. ASSUME ForkEnd PROVE TypeOK'
    <2>1. /\ state' \in [Procs -> States]
          /\ timeCount' \in [Procs -> 0 .. MaxTimeCount]
          /\ sleepTime' \in [Procs -> Nat \cup {-1}]
      BY <1>forkEnd DEF ForkEnd, TypeOK, States
    <2>2. /\ stackTop' \in [Procs -> 0 .. 2]
          /\ prevStackTop' \in [Procs -> 0 .. 2]
      BY <1>forkEnd DEF ForkEnd, TypeOK
    <2>3. /\ run' \in [Procs -> Places]
          /\ local' \in [Procs -> Nat]
          /\ saved' \in [Procs -> 0 .. 2]
      BY <1>forkEnd DEF ForkEnd, TypeOK, Places
    <2> QED
      BY <1>forkEnd, <2>1, <2>2, <2>3, <1>frame DEF ForkEnd, TypeOK
  <1>semInit. ASSUME NEW v \in SemValues, SemInit(v) PROVE TypeOK'
    <2>1. CASE \A s \in Sems : semState[s] # 0
      BY <1>semInit, <2>1, <1>plain DEF SemInit
    <2>2. ASSUME NEW s \in Sems,
                 semState' = [semState EXCEPT ![s] = 1],
                 semValue' = [semValue EXCEPT ![s] = v],
                 next' = SelfLinked(next, SemNode(s)),
                 prev' = SelfLinked(prev, SemNode(s)),
                 ReturnAtOnce,
                 UNCHANGED <<state, sleepTime, devValue, wild, kbVars>>
          PROVE  TypeOK'
      <3>1. next' \in [Nodes -> Nodes] /\ prev' \in [Nodes -> Nodes]
        BY <2>2, ListType DEF TypeOK
      <3>2. semState' \in [Sems -> {0, 1}] /\ semValue' \in [Sems -> Int]
        BY <2>2, Constants DEF TypeOK
      <3> QED
        BY <2>2, <3>1, <3>2, ReturnAtOnceType
        DEF TypeOK, KeyboardTypeOK, kbVars
    <2> QED BY <1>semInit, <2>1, <2>2 DEF SemInit
  <1>semWait. ASSUME NEW s \in Sems, SemWait(s) PROVE TypeOK'
    <2>1. /\ semValue' \in [Sems -> Int]
          /\ semState' \in [Sems -> {0, 1}]
          /\ devValue' \in Int
          /\ KeyboardTypeOK'
      BY <1>semWait DEF SemWait, TypeOK, KeyboardTypeOK, kbVars
    <2>2. CASE semValue[s] - 1 < 0
      <3>1. next' \in [Nodes -> Nodes] /\ prev' \in [Nodes -> Nodes]
        <4>1. current \in Nodes /\ SemNode(s) \in Nodes
          BY DEF TypeOK
        <4>2. EnqueueCurrent(SemNode(s))
          BY <1>semWait, <2>2 DEF SemWait
        <4> QED BY <4>1, <4>2, ListType DEF EnqueueCurrent, TypeOK
      <3>2. [sleepTime EXCEPT ![current] = -1] \in [Procs -> Nat \cup {-1}]
        BY DEF TypeOK
      <3>3. GiveAway(Blocked(current), [sleepTime EXCEPT ![current] = -1],
                     "semwait", s)
        BY <1>semWait, <2>2 DEF SemWait
      <3>4. s \in Nat
        BY DEF Sems
      <3> QED
        BY <1>semWait, <2>1, <2>2, <3>1, <3>2, <3>3, <3>4, <1>blocked,
           GiveAwayType
        DEF SemWait, TypeOK, Places
    <2>3. CASE ~(semValue[s] - 1 < 0)
      BY <1>semWait, <2>1, <2>3, WakeNobodyType, ReturnAtOnceType
      DEF SemWait, TypeOK
    <2> QED BY <2>2, <2>3
  <1>semPost. ASSUME NEW s \in Sems, SemPost(s) PROVE TypeOK'
    <2>1. /\ semValue' \in [Sems -> Int]
          /\ semState' \in [Sems -> {0, 1}]
          /\ devValue' \in Int
          /\ KeyboardTypeOK'
      BY <1>semPost DEF SemPost, TypeOK, KeyboardTypeOK, kbVars
    <2>2. WakeOldest(SemNode(s)) \/ WakeNobody
      BY <1>semPost DEF SemPost
    <2>3. ReturnAtOnce
      BY <1>semPost DEF SemPost
    <2> QED
      BY <2>1, <2>2, <2>3, WakeOldestType, WakeNobodyType, ReturnAtOnceType
      DEF TypeOK
  <1>semDestroy. ASSUME NEW s \in Sems, SemDestroy(s) PROVE TypeOK'
    <2>1. next' \in [Nodes -> Nodes] /\ prev' \in [Nodes -> Nodes]
      BY <1>semDestroy, ListType DEF SemDestroy, TypeOK
    <2>2. semState' \in [Sems -> {0, 1}]
      BY <1>semDestroy DEF SemDestroy, TypeOK
    <2> QED
      BY <1>semDestroy, <2>1, <2>2, ReturnAtOnceType
      DEF SemDestroy, TypeOK, KeyboardTypeOK, kbVars
  <1>read. ASSUME ReadStdIn PROVE TypeOK'
    <2>1. CASE devValue # 0
      BY <1>read, <2>1, <1>plain DEF ReadStdIn
    <2>2. CASE devValue = 0
      <3>1. next' \in [Nodes -> Nodes] /\ prev' \in [Nodes -> Nodes]
        <4>1. current \in Nodes
          BY DEF TypeOK
        <4>2. EnqueueCurrent(StdInNode)
          BY <1>read, <2>2 DEF ReadStdIn
        <4> QED BY <4>1, <4>2, ListType DEF EnqueueCurrent, TypeOK
      <3>2. [sleepTime EXCEPT ![current] = -1] \in [Procs -> Nat \cup {-1}]
        BY DEF TypeOK
      <3>3. GiveAway(Blocked(current), [sleepTime EXCEPT ![current] = -1],
                     "read", 0)
        BY <1>read, <2>2 DEF ReadStdIn
      <3>4. /\ devValue' \in Int
            /\ KeyboardTypeOK'
        BY <1>read, <2>2 DEF ReadStdIn, TypeOK, KeyboardTypeOK, kbVars
      <3> QED
        BY <1>read, <2>2, <3>1, <3>2, <3>3, <3>4, <1>blocked, GiveAwayType
        DEF ReadStdIn, TypeOK, Places, semVars
    <2> QED BY <2>1, <2>2
  <1>resume. ASSUME Resume PROVE TypeOK'
    <2>1. ReturnFromCall
      BY <1>resume DEF Resume, SleepReturn, SemWaitReturn, ReadReturn
    <2>2. /\ run' \in [Procs -> Places]
          /\ local' \in [Procs -> Nat]
          /\ saved' \in [Procs -> 0 .. 2]
          /\ stackTop' \in [Procs -> 0 .. 2]
      BY <2>1 DEF ReturnFromCall, TypeOK, Places
    <2>3. KeyboardTypeOK'
      <3>1. CASE UNCHANGED kbVars
        BY <3>1 DEF TypeOK, KeyboardTypeOK, kbVars
      <3>2. CASE ReadReturn
        <4>1. PICK r \in LoopStates(ReadSize) :
                 /\ bufferHead' = r.head
                 /\ keyTable' = r.table
                 /\ keyboardState' = r.caps
                 /\ UNCHANGED <<keyBuffer, bufferTail>>
          BY <3>2 DEF ReadReturn, DrainKeys
        <4> QED
          BY <4>1 DEF LoopStates, TypeOK, KeyboardTypeOK
      <3> QED
        BY <1>resume, <3>1, <3>2 DEF Resume, SleepReturn, SemWaitReturn
    <2>4. UNCHANGED <<state, timeCount, sleepTime, prevStackTop, current,
                      semVars, devValue, listVars, wild>>
      BY <1>resume DEF Resume, SleepReturn, SemWaitReturn, ReadReturn
    <2> QED
      BY <2>2, <2>3, <2>4 DEF TypeOK, semVars, listVars
  <1>user. ASSUME UserStep PROVE TypeOK'
    BY <1>user, <1>plain, <1>exit, <1>sleep, <1>forkBegin, <1>read, <1>semInit,
       <1>semWait, <1>semPost, <1>semDestroy DEF UserStep
  <1> QED
    BY <1>stutter, <1>timer, <1>keyboard, <1>illegal, <1>user, <1>forkEnd,
       <1>resume DEF Next

(* Whatever the programs call and whenever interrupts come, every field of *)
(* the process table, the semaphores, the lists and the key ring holds a   *)
(* value of its type: a stack pointer is one of the process's own frames,  *)
(* current is a process, every pointer is a list node.                     *)
THEOREM TypeCorrect == Spec => []TypeOK
  <1>1. Init => TypeOK
    BY InitType
  <1>2. TypeOK /\ [Next]_vars => TypeOK'
    BY TypeStep
  <1> QED
    BY <1>1, <1>2, PTL DEF Spec

-----------------------------------------------------------------------------
(* The pointer operations of module ListHead: what they do to the list they *)
(* work on and to the others, for any set of nodes M and any length n.     *)

(* The head of a list leads to members or to itself; the list is empty     *)
(* exactly when it has no member.                                          *)
LEMMA ListEnds ==
  ASSUME NEW nx, NEW pv, NEW h, NEW M, NEW n \in Nat, h \notin M,
         IsListOf(nx, pv, h, M, n)
  PROVE  /\ n = 0 <=> M = {}
         /\ n = 0 => pv[h] = h /\ nx[h] = h
         /\ n > 0 => pv[h] \in M /\ nx[h] \in M
         /\ \A m \in M \cup {h} : pv[m] \in M \cup {h} /\ nx[m] \in M \cup {h}
  <1>1. PICK q \in [1 .. n -> M] : EachOnce(q, M, n) /\ Linked(nx, pv, h, q, n)
    BY DEF IsListOf
  <1>2. \A k \in 0 .. n + 1 : OnRing(q, h, k) = IF k \in 1 .. n THEN q[k] ELSE h
    BY DEF OnRing
  <1>3. \A k \in 0 .. n : /\ pv[OnRing(q, h, k)] = OnRing(q, h, k + 1)
                          /\ nx[OnRing(q, h, k + 1)] = OnRing(q, h, k)
    BY <1>1 DEF Linked
  <1>4. n = 0 <=> M = {}
    <2>1. CASE n = 0
      BY <1>1, <2>1 DEF EachOnce
    <2>2. CASE n # 0
      <3>1. 1 \in 1 .. n
        BY <2>2
      <3> QED BY <2>2, <3>1
    <2> QED BY <2>1, <2>2
  <1>5. pv[h] = OnRing(q, h, 1) /\ nx[h] = OnRing(q, h, n)
    <2>1. pv[OnRing(q, h, 0)] = OnRing(q, h, 0 + 1) /\ OnRing(q, h, 0) = h
      BY <1>2, <1>3
    <2>2. nx[OnRing(q, h, n + 1)] = OnRing(q, h, n) /\ OnRing(q, h, n + 1) = h
      BY <1>2, <1>3
    <2> QED BY <2>1, <2>2
  <1>6. n = 0 => pv[h] = h /\ nx[h] = h
    BY <1>5, <1>2
  <1>7. n > 0 => pv[h] \in M /\ nx[h] \in M
    <2> HAVE n > 0
    <2>1. OnRing(q, h, 1) = q[1] /\ OnRing(q, h, n) = q[n]
      BY <1>2
    <2>2. q[1] \in M /\ q[n] \in M
      BY <1>1
    <2> QED BY <1>5, <2>1, <2>2
  <1>8. ASSUME NEW m \in M PROVE pv[m] \in M \cup {h} /\ nx[m] \in M \cup {h}
    <2>1. PICK k \in 1 .. n : q[k] = m
      BY <1>1 DEF EachOnce
    <2>2. OnRing(q, h, k) = m /\ k \in 0 .. n /\ k - 1 \in 0 .. n
      BY <2>1, <1>2
    <2>3. pv[m] = OnRing(q, h, k + 1)
      BY <2>2, <1>3
    <2>4. nx[m] = OnRing(q, h, k - 1)
      <3>1. nx[OnRing(q, h, (k - 1) + 1)] = OnRing(q, h, k - 1)
        BY <2>2, <1>3
      <3>2. (k - 1) + 1 = k
        BY <2>1
      <3> QED BY <3>1, <3>2, <2>2
    <2>5. \A j \in 0 .. n + 1 : OnRing(q, h, j) \in M \cup {h}
      BY <1>1, <1>2
    <2> QED BY <2>2, <2>3, <2>4, <2>5
  <1>9. n = 0 \/ n > 0
    OBVIOUS
  <1> QED BY <1>4, <1>6, <1>7, <1>8, <1>9

(* A list does not depend on the pointers of other nodes.                  *)
LEMMA ListFrame ==
  ASSUME NEW nx, NEW pv, NEW nx2, NEW pv2, NEW h, NEW M, NEW n \in Nat,
         h \notin M,
         \A m \in M \cup {h} : nx2[m] = nx[m] /\ pv2[m] = pv[m],
         IsListOf(nx, pv, h, M, n)
  PROVE  IsListOf(nx2, pv2, h, M, n)
  <1>1. PICK q \in [1 .. n -> M] : EachOnce(q, M, n) /\ Linked(nx, pv, h, q, n)
    BY DEF IsListOf
  <1>2. \A k \in 0 .. n + 1 : OnRing(q, h, k) \in M \cup {h}
    BY <1>1 DEF OnRing
  <1>3. Linked(nx2, pv2, h, q, n)
    BY <1>1, <1>2 DEF Linked
  <1> QED BY <1>1, <1>3 DEF IsListOf

(* A self-linked head is an empty list.                                    *)
LEMMA EmptyList ==
  ASSUME NEW nx, NEW pv, NEW h, nx[h] = h, pv[h] = h
  PROVE  IsListOf(nx, pv, h, {}, 0)
  <1> DEFINE q == [k \in 1 .. 0 |-> h]
  <1>1. q \in [1 .. 0 -> {}]
    OBVIOUS
  <1>2. EachOnce(q, {}, 0)
    BY DEF EachOnce
  <1>3. Linked(nx, pv, h, q, 0)
    BY DEF Linked, OnRing
  <1> QED BY <1>1, <1>2, <1>3 DEF IsListOf

-----------------------------------------------------------------------------
(* The order q of a list, and how sequences are functions.                 *)
OrderOf(nx, pv, h, M, n, q) ==
  q \in [1 .. n -> M] /\ EachOnce(q, M, n) /\ Linked(nx, pv, h, q, n)

(* A list of M is an order of M that the pointers spell out.               *)
LEMMA OrderedList ==
  ASSUME NEW nx, NEW pv, NEW h, NEW M, NEW n
  PROVE  IsListOf(nx, pv, h, M, n) <=> \E q : OrderOf(nx, pv, h, M, n, q)
  BY DEF IsListOf, OrderOf

(* A function on 1 .. n is a sequence of length n.                         *)
LEMMA SeqOfFunction ==
  ASSUME NEW S, NEW n \in Nat, NEW q \in [1 .. n -> S]
  PROVE  q \in Seq(S) /\ Len(q) = n
  <1>1. q \in Seq(S)
    BY SeqDef
  <1>2. DOMAIN q = 1 .. Len(q) /\ Len(q) \in Nat
    BY <1>1, LenProperties
  <1>3. DOMAIN q = 1 .. n
    OBVIOUS
  <1>4. Len(q) = n
    BY <1>2, <1>3
  <1> QED BY <1>1, <1>4

(* Append, position by position.                                           *)
LEMMA AppendedSeq ==
  ASSUME NEW S, NEW q \in Seq(S), NEW c
  PROVE  Append(q, c) = [k \in 1 .. Len(q) + 1 |-> IF k = Len(q) + 1 THEN c ELSE q[k]]
  <1> DEFINE T == S \cup {c}
             n == Len(q)
  <1>1. q \in Seq(T) /\ c \in T /\ n \in Nat
    BY SeqMonotonic, LenProperties
  <1> HIDE DEF T
  <1>2. /\ Append(q, c) \in Seq(T) /\ Len(Append(q, c)) = n + 1
        /\ \A i \in 1 .. n : Append(q, c)[i] = q[i]
        /\ Append(q, c)[n + 1] = c
    BY <1>1, AppendProperties
  <1>3. Append(q, c) \in [1 .. n + 1 -> T]
    BY <1>2, LenProperties
  <1> HIDE DEF n
  <1>4. \A k \in 1 .. n + 1 : Append(q, c)[k] = IF k = n + 1 THEN c ELSE q[k]
    <2>1. \A k \in 1 .. n + 1 : k = n + 1 \/ k \in 1 .. n
      BY <1>1
    <2>2. n + 1 \notin 1 .. n
      BY <1>1
    <2> QED BY <1>2, <2>1, <2>2
  <1>5. Append(q, c) = [k \in 1 .. n + 1 |-> Append(q, c)[k]]
    BY <1>3
  <1>6. Append(q, c) = [k \in 1 .. n + 1 |-> IF k = n + 1 THEN c ELSE q[k]]
    BY <1>4, <1>5, Zenon
  <1> QED BY <1>6 DEF n

(* Head and Tail, position by position.                                    *)
LEMMA TailIs ==
  ASSUME NEW S, NEW n \in Nat, n > 0, NEW q \in [1 .. n -> S]
  PROVE  Tail(q) = [k \in 1 .. n - 1 |-> q[k + 1]] /\ Head(q) = q[1]
  <1>0. q \in Seq(S) /\ Len(q) = n
    BY SeqOfFunction
  <1>1. q # <<>>
    BY <1>0, EmptySeq
  <1>2. /\ Tail(q) \in Seq(S) /\ Len(Tail(q)) = n - 1
        /\ \A i \in 1 .. n - 1 : Tail(q)[i] = q[i + 1]
    BY <1>0, <1>1, HeadTailProperties
  <1>3. Tail(q) \in [1 .. n - 1 -> S]
    BY <1>2, LenProperties
  <1>4. Head(q) = q[1]
    BY <1>0, <1>1
  <1> QED BY <1>2, <1>3, <1>4

(* Insertion after the head: c becomes the newest of the list q.           *)
LEMMA InsertLinked ==
  ASSUME NEW X, NEW nx \in [X -> X], NEW pv \in [X -> X],
         NEW h \in X, NEW M \in SUBSET X, NEW n \in Nat, h \notin M,
         NEW c \in X, c \notin M, c # h,
         NEW q, OrderOf(nx, pv, h, M, n, q)
  PROVE  OrderOf(NextAfterInsert(nx, h, c), PrevAfterInsert(nx, pv, h, c), h,
                 M \cup {c}, n + 1, Append(q, c))
  <1> DEFINE r == Append(q, c)
  <1> DEFINE nx2 == NextAfterInsert(nx, h, c)
             pv2 == PrevAfterInsert(nx, pv, h, c)
  <1> q \in [1 .. n -> M]
    BY DEF OrderOf
  <1>1. EachOnce(q, M, n) /\ Linked(nx, pv, h, q, n)
    BY DEF OrderOf
  <1> r = [k \in 1 .. n + 1 |-> IF k = n + 1 THEN c ELSE q[k]]
    <2>1. q \in [1 .. n -> M]
      OBVIOUS
    <2>2. q \in Seq(M) /\ Len(q) = n
      BY <2>1, SeqOfFunction
    <2>3. Append(q, c)
            = [k \in 1 .. Len(q) + 1 |-> IF k = Len(q) + 1 THEN c ELSE q[k]]
      BY <2>2, AppendedSeq
    <2> QED BY <2>2, <2>3
  <1> HIDE DEF r
  <1>2. r \in [1 .. n + 1 -> M \cup {c}]
    OBVIOUS
  <1>3. EachOnce(r, M \cup {c}, n + 1)
    <2>1. ASSUME NEW m \in M \cup {c} PROVE \E k \in 1 .. n + 1 : r[k] = m
      <3>1. CASE m = c
        <4>1. n + 1 \in 1 .. n + 1 /\ r[n + 1] = c
          OBVIOUS
        <4> QED BY <3>1, <4>1
      <3>2. CASE m \in M
        <4>1. PICK k \in 1 .. n : q[k] = m
          BY <3>2, <1>1 DEF EachOnce
        <4>2. k \in 1 .. n + 1 /\ r[k] = q[k]
          OBVIOUS
        <4> QED BY <4>1, <4>2
      <3> QED BY <3>1, <3>2
    <2>2. \A j, k \in 1 .. n + 1 : r[j] = r[k] => j = k
      <3>1. \A j, k \in 1 .. n : q[j] = q[k] => j = k
        BY <1>1 DEF EachOnce
      <3>2. \A j \in 1 .. n : q[j] # c
        OBVIOUS
      <3> QED BY <3>1, <3>2
    <2> QED BY <2>1, <2>2 DEF EachOnce
  <1>4. \A k \in 0 .. n + 1 : OnRing(q, h, k) = IF k \in 1 .. n THEN q[k] ELSE h
    BY DEF OnRing
  <1>5. \A k \in 0 .. n + 2 : OnRing(r, h, k) = IF k = n + 1 THEN c
                                                ELSE IF k \in 1 .. n THEN q[k] ELSE h
    BY DEF OnRing
  <1>6. \A k \in 0 .. n : /\ pv[OnRing(q, h, k)] = OnRing(q, h, k + 1)
                          /\ nx[OnRing(q, h, k + 1)] = OnRing(q, h, k)
    BY <1>1 DEF Linked
  <1>7. nx[h] = OnRing(q, h, n) /\ nx[h] # c /\ nx[h] \in M \cup {h}
    <2>1. OnRing(q, h, n + 1) = h
      BY <1>4
    <2>2. nx[OnRing(q, h, n + 1)] = OnRing(q, h, n)
      BY <1>6
    <2>3. OnRing(q, h, n) \in M \cup {h}
      BY <1>4
    <2> QED BY <2>1, <2>2, <2>3
  <1>8. \A m \in X :
          /\ nx2[m] = IF m = h THEN c ELSE IF m = c THEN nx[h] ELSE nx[m]
          /\ pv2[m] = IF m = nx[h] THEN c ELSE IF m = c THEN h ELSE pv[m]
    BY <1>7 DEF NextAfterInsert, PrevAfterInsert
  <1>9. ASSUME NEW k \in 0 .. n + 1
        PROVE  /\ pv2[OnRing(r, h, k)] = OnRing(r, h, k + 1)
               /\ nx2[OnRing(r, h, k + 1)] = OnRing(r, h, k)
    <2>1. CASE k = n + 1
      <3>1. OnRing(r, h, k) = c /\ OnRing(r, h, k + 1) = h
        BY <2>1, <1>5
      <3> QED BY <3>1, <1>7, <1>8
    <2>2. CASE k = n
      <3>1. OnRing(r, h, k) = OnRing(q, h, n) /\ OnRing(r, h, k + 1) = c
        BY <2>2, <1>4, <1>5
      <3> QED BY <3>1, <1>7, <1>8
    <2>3. CASE k < n
      <3>1. /\ OnRing(r, h, k) = OnRing(q, h, k)
            /\ OnRing(r, h, k + 1) = OnRing(q, h, k + 1)
            /\ OnRing(r, h, k + 1) = q[k + 1] /\ k + 1 \in 1 .. n
            /\ k \in 0 .. n
        BY <2>3, <1>4, <1>5
      <3>2. q[k + 1] \in M /\ OnRing(q, h, k) \in M \cup {h}
        BY <3>1, <1>4
      <3>3. nx2[OnRing(r, h, k + 1)] = OnRing(r, h, k)
        BY <3>1, <3>2, <1>6, <1>8
      <3>4. OnRing(q, h, k) # OnRing(q, h, n)
        <4>1. k = 0 => OnRing(q, h, k) = h /\ OnRing(q, h, n) = q[n] /\ q[n] \in M
          BY <2>3, <1>4
        <4>2. k > 0 => OnRing(q, h, k) = q[k] /\ OnRing(q, h, n) = q[n] /\ q[k] # q[n]
          BY <2>3, <1>1, <1>4 DEF EachOnce
        <4>3. k = 0 \/ k > 0
          OBVIOUS
        <4> QED BY <4>1, <4>2, <4>3
      <3>5. pv2[OnRing(r, h, k)] = OnRing(r, h, k + 1)
        BY <3>1, <3>2, <3>4, <1>6, <1>7, <1>8
      <3> QED BY <3>3, <3>5
    <2>4. k = n + 1 \/ k = n \/ k < n
      OBVIOUS
    <2> QED BY <2>1, <2>2, <2>3, <2>4
  <1>10. Linked(nx2, pv2, h, r, n + 1)
    BY <1>9 DEF Linked
  <1>11. OrderOf(nx2, pv2, h, M \cup {c}, n + 1, r)
    BY <1>2, <1>3, <1>10 DEF OrderOf
  <1> QED BY <1>11 DEF r

(* Insertion after the head adds one member to a list, whatever its order. *)
LEMMA InsertList ==
  ASSUME NEW X, NEW nx \in [X -> X], NEW pv \in [X -> X],
         NEW h \in X, NEW M \in SUBSET X, NEW n \in Nat, h \notin M,
         NEW c \in X, c \notin M, c # h,
         IsListOf(nx, pv, h, M, n)
  PROVE  IsListOf(NextAfterInsert(nx, h, c), PrevAfterInsert(nx, pv, h, c), h,
                  M \cup {c}, n + 1)
  BY InsertLinked, OrderedList

(* Removal of the oldest node of the list q, the one before the head.      *)
LEMMA RemoveLinked ==
  ASSUME NEW X, NEW nx \in [X -> X], NEW pv \in [X -> X],
         NEW h \in X, NEW M \in SUBSET X, NEW n \in Nat, h \notin M,
         n > 0,
         NEW q, OrderOf(nx, pv, h, M, n, q)
  PROVE  /\ pv[h] = Head(q)
         /\ OrderOf(NextAfterRemove(nx, pv, h), PrevAfterRemove(pv, h), h,
                    M \ {pv[h]}, n - 1, Tail(q))
  <1> DEFINE r == Tail(q)
  <1> DEFINE nx2 == NextAfterRemove(nx, pv, h)
             pv2 == PrevAfterRemove(pv, h)
  <1> q \in [1 .. n -> M]
    BY DEF OrderOf
  <1>1. EachOnce(q, M, n) /\ Linked(nx, pv, h, q, n)
    BY DEF OrderOf
  <1> r = [k \in 1 .. n - 1 |-> q[k + 1]] /\ Head(q) = q[1]
    BY <1>1, TailIs
  <1> HIDE DEF r
  <1>2. \A k \in 0 .. n + 1 : OnRing(q, h, k) = IF k \in 1 .. n THEN q[k] ELSE h
    BY DEF OnRing
  <1>3. \A k \in 0 .. n : OnRing(r, h, k) = IF k = 0 THEN h ELSE OnRing(q, h, k + 1)
    BY <1>2 DEF OnRing
  <1>4. \A k \in 0 .. n : /\ pv[OnRing(q, h, k)] = OnRing(q, h, k + 1)
                          /\ nx[OnRing(q, h, k + 1)] = OnRing(q, h, k)
    BY <1>1 DEF Linked
  <1>5. pv[h] = q[1] /\ q[1] \in M
    <2>1. OnRing(q, h, 0) = h /\ OnRing(q, h, 0 + 1) = q[1] /\ 1 \in 1 .. n
      BY <1>2
    <2> QED BY <2>1, <1>1, <1>4
  <1>6. pv[pv[h]] = OnRing(q, h, 2) /\ OnRing(q, h, 2) \in M \cup {h}
    <2>1. OnRing(q, h, 1) = q[1] /\ 1 \in 0 .. n /\ 2 \in 0 .. n + 1
      BY <1>2
    <2>2. pv[OnRing(q, h, 1)] = OnRing(q, h, 1 + 1)
      BY <2>1, <1>4
    <2> QED BY <2>1, <2>2, <1>2, <1>5
  <1>7. \A m \in X :
          /\ nx2[m] = IF m = OnRing(q, h, 2) THEN h ELSE nx[m]
          /\ pv2[m] = IF m = h THEN OnRing(q, h, 2) ELSE pv[m]
    BY <1>6 DEF NextAfterRemove, PrevAfterRemove
  <1>8. r \in [1 .. n - 1 -> M \ {pv[h]}]
    <2> SUFFICES ASSUME NEW k \in 1 .. n - 1 PROVE q[k + 1] \in M \ {pv[h]}
      OBVIOUS
    <2>1. k + 1 \in 1 .. n /\ k + 1 # 1 /\ 1 \in 1 .. n
      OBVIOUS
    <2>2. q[k + 1] # q[1]
      BY <2>1, <1>1 DEF EachOnce
    <2> QED BY <2>1, <2>2, <1>5
  <1>9. EachOnce(r, M \ {pv[h]}, n - 1)
    <2>1. ASSUME NEW m \in M \ {pv[h]} PROVE \E k \in 1 .. n - 1 : r[k] = m
      <3>1. PICK j \in 1 .. n : q[j] = m
        BY <1>1 DEF EachOnce
      <3>2. j # 1
        BY <3>1, <1>5
      <3>3. j - 1 \in 1 .. n - 1 /\ r[j - 1] = q[j]
        BY <3>2
      <3> QED BY <3>1, <3>3
    <2>2. ASSUME NEW j \in 1 .. n - 1, NEW k \in 1 .. n - 1, r[j] = r[k]
          PROVE  j = k
      <3>1. j + 1 \in 1 .. n /\ k + 1 \in 1 .. n /\ q[j + 1] = q[k + 1]
        BY <2>2
      <3>2. j + 1 = k + 1
        BY <3>1, <1>1 DEF EachOnce
      <3> QED BY <3>2
    <2> QED BY <2>1, <2>2 DEF EachOnce
  <1>10. ASSUME NEW k \in 0 .. n - 1
         PROVE  /\ pv2[OnRing(r, h, k)] = OnRing(r, h, k + 1)
                /\ nx2[OnRing(r, h, k + 1)] = OnRing(r, h, k)
    <2>1. OnRing(r, h, k + 1) = OnRing(q, h, k + 2)
      BY <1>3
    <2>2. OnRing(q, h, k + 2) \in M \cup {h} /\ OnRing(q, h, k + 1) \in M
      <3>1. k + 2 \in 0 .. n + 1 /\ k + 1 \in 1 .. n
        OBVIOUS
      <3> QED BY <3>1, <1>2
    <2>3. CASE k = 0
      <3>1. OnRing(r, h, 0) = h
        BY <1>3
      <3> QED BY <2>1, <2>2, <2>3, <3>1, <1>7
    <2>4. CASE k > 0
      <3>1. OnRing(r, h, k) = OnRing(q, h, k + 1)
        BY <2>4, <1>3
      <3>2. /\ pv[OnRing(q, h, k + 1)] = OnRing(q, h, k + 2)
            /\ nx[OnRing(q, h, k + 2)] = OnRing(q, h, k + 1)
        <4>1. k + 1 \in 0 .. n /\ (k + 1) + 1 = k + 2
          OBVIOUS
        <4> QED BY <4>1, <1>4
      <3>3. OnRing(q, h, k + 2) # OnRing(q, h, 2)
        <4>1. 2 \in 1 .. n /\ OnRing(q, h, 2) = q[2] /\ q[2] \in M
          BY <2>4, <1>2
        <4>2. k + 2 \in 1 .. n => OnRing(q, h, k + 2) = q[k + 2] /\ q[k + 2] # q[2]
          BY <2>4, <4>1, <1>1, <1>2 DEF EachOnce
        <4>3. k + 2 \notin 1 .. n => OnRing(q, h, k + 2) = h
          BY <1>2
        <4> QED BY <4>1, <4>2, <4>3
      <3> QED BY <2>1, <2>2, <3>1, <3>2, <3>3, <1>7
    <2>5. k = 0 \/ k > 0
      OBVIOUS
    <2> QED BY <2>3, <2>4, <2>5
  <1>11. Linked(nx2, pv2, h, r, n - 1)
    BY <1>10 DEF Linked
  <1>12. OrderOf(nx2, pv2, h, M \ {pv[h]}, n - 1, r) /\ pv[h] = Head(q)
    BY <1>5, <1>8, <1>9, <1>11 DEF OrderOf
  <1> QED BY <1>12 DEF r

(* Removal before the head takes one member, the oldest, from a list that  *)
(* is not empty.                                                           *)
LEMMA RemoveList ==
  ASSUME NEW X, NEW nx \in [X -> X], NEW pv \in [X -> X],
         NEW h \in X, NEW M \in SUBSET X, NEW n \in Nat, h \notin M,
         n > 0, IsListOf(nx, pv, h, M, n)
  PROVE  IsListOf(NextAfterRemove(nx, pv, h), PrevAfterRemove(pv, h), h,
                  M \ {pv[h]}, n - 1)
  BY RemoveLinked, OrderedList

-----------------------------------------------------------------------------
(* Lists as sequences: what ListOf reads off the pointers, and how an insertion *)
(* and a removal change it.  The two lemmas on numbers are what induction is *)
(* done with: the least counterexample of a set of numbers.                *)

(* Induction over the natural numbers, for a set of them instead of a      *)
(* predicate.                                                              *)
LEMMA LeastNumber ==
  ASSUME NEW T, T \subseteq Nat, T # {}
  PROVE  \E x \in T : \A y \in T : x <= y
  <1> DEFINE R == OpToRel(<, Nat)
  <1>1. IsWellFoundedOn(R, Nat)
    BY NatLessThanWellFounded
  <1>2. \A x, y \in Nat : x < y => <<x, y>> \in R
    BY DEF OpToRel
  <1> HIDE DEF R
  <1>3. PICK x \in T : \A y \in T : ~(<<y, x>> \in R)
    BY <1>1, WFMin
  <1>4. ASSUME NEW y \in T PROVE x <= y
    <2>1. ~(y < x)
      BY <1>2, <1>3
    <2> QED BY <2>1
  <1> QED BY <1>4

(* A set of numbers that has 0 and every successor has them all.           *)
LEMMA SetInduction ==
  ASSUME NEW T, 0 \in T, \A n \in Nat : n \in T => n + 1 \in T
  PROVE  \A n \in Nat : n \in T
  <1> SUFFICES ASSUME Nat \ T # {} PROVE FALSE
    OBVIOUS
  <1>1. PICK x \in Nat \ T : \A y \in Nat \ T : x <= y
    BY LeastNumber
  <1>2. x - 1 \in Nat /\ x - 1 \in T
    BY <1>1
  <1> QED BY <1>1, <1>2

(* The recursion of Walk defines a function: every walk of n steps exists, *)
(* and two walks agree as far as both go.                                  *)
WalkOf(g, pv, h, n) == g = [k \in 0 .. n |-> IF k = 0 THEN h ELSE pv[g[k - 1]]]

(* From a head one can follow prev for any number of steps.                *)
LEMMA WalksExist == ASSUME NEW pv, NEW h PROVE \A n \in Nat : \E g : WalkOf(g, pv, h, n)
  <1> DEFINE T == {n \in Nat : \E g : WalkOf(g, pv, h, n)}
  <1>1. 0 \in T
    <2> DEFINE g == [k \in 0 .. 0 |-> h]
    <2>1. WalkOf(g, pv, h, 0)
      BY DEF WalkOf
    <2> QED BY <2>1
  <1>2. ASSUME NEW n \in Nat, n \in T PROVE n + 1 \in T
    <2>1. PICK g : WalkOf(g, pv, h, n)
      BY <1>2
    <2> DEFINE g2 == [k \in 0 .. n + 1 |-> IF k = 0 THEN h ELSE pv[g[k - 1]]]
    <2>2. \A k \in 0 .. n + 1 : g2[k] = IF k = 0 THEN h ELSE pv[g[k - 1]]
      OBVIOUS
    <2>3. \A k \in 0 .. n : g[k] = IF k = 0 THEN h ELSE pv[g[k - 1]]
      BY <2>1 DEF WalkOf
    <2>4. WalkOf(g2, pv, h, n + 1)
      <3> SUFFICES [k \in 0 .. n + 1 |-> IF k = 0 THEN h ELSE pv[g[k - 1]]]
                   = [k \in 0 .. n + 1 |-> IF k = 0 THEN h ELSE pv[g2[k - 1]]]
        BY DEF WalkOf
      <3> HIDE DEF g2
      <3>1. ASSUME NEW k \in 0 .. n + 1, k # 0 PROVE g2[k - 1] = g[k - 1]
        <4>1. k - 1 \in 0 .. n /\ k - 1 \in 0 .. n + 1
          BY <3>1
        <4> QED BY <4>1, <2>2, <2>3
      <3> QED BY <3>1
    <2> QED BY <2>4
  <1> HIDE DEF T
  <1>3. \A n \in Nat : n \in T
    BY <1>1, <1>2, SetInduction
  <1> QED BY <1>3 DEF T

(* Two walks from the same head agree as far as both go.                   *)
LEMMA WalksAgree ==
  ASSUME NEW pv, NEW h, NEW n \in Nat, NEW m \in Nat, NEW f, NEW g,
         WalkOf(f, pv, h, n), WalkOf(g, pv, h, m)
  PROVE  \A k \in Nat : k <= n /\ k <= m => f[k] = g[k]
  <1> DEFINE T == {k \in Nat : k <= n /\ k <= m => f[k] = g[k]}
  <1>1. 0 \in T
    BY DEF WalkOf
  <1>2. ASSUME NEW k \in Nat, k \in T PROVE k + 1 \in T
    <2> SUFFICES ASSUME k + 1 <= n /\ k + 1 <= m PROVE f[k + 1] = g[k + 1]
      OBVIOUS
    <2>1. f[k] = g[k]
      BY <1>2
    <2>2. f[k + 1] = pv[f[k]] /\ g[k + 1] = pv[g[k]]
      <3>1. k + 1 \in 0 .. n /\ k + 1 \in 0 .. m /\ k + 1 # 0 /\ (k + 1) - 1 = k
        OBVIOUS
      <3> QED BY <3>1 DEF WalkOf
    <2> QED BY <2>1, <2>2
  <1> HIDE DEF T
  <1>3. \A k \in Nat : k \in T
    BY <1>1, <1>2, SetInduction
  <1> QED BY <1>3 DEF T

(* The walk of module Kernel starts at the head and follows prev.          *)
LEMMA WalkSteps ==
  ASSUME NEW pv, NEW h
  PROVE  /\ Walk(pv, h)[0] = h
         /\ \A k \in Nat : Walk(pv, h)[k + 1] = pv[Walk(pv, h)[k]]
  <1> DEFINE w(n) == CHOOSE g : WalkOf(g, pv, h, n)
             f == [k \in Nat |-> w(k)[k]]
             IsWalk(g) == g = [k \in Nat |-> IF k = 0 THEN h ELSE pv[g[k - 1]]]
  <1>1. \A n \in Nat : WalkOf(w(n), pv, h, n)
    BY WalksExist
  <1>2. ASSUME NEW k \in Nat PROVE f[k] = IF k = 0 THEN h ELSE pv[f[k - 1]]
    <2>1. CASE k = 0
      <3>1. WalkOf(w(0), pv, h, 0)
        BY <1>1
      <3>2. w(0)[0] = h
        BY <3>1 DEF WalkOf
      <3> QED BY <2>1, <3>2
    <2>2. CASE k # 0
      <3>1. k - 1 \in Nat /\ k - 1 <= k /\ k \in 0 .. k
        BY <2>2
      <3>2. WalkOf(w(k), pv, h, k) /\ WalkOf(w(k - 1), pv, h, k - 1)
        BY <1>1, <3>1
      <3> HIDE DEF w
      <3>3. w(k)[k] = pv[w(k)[k - 1]]
        BY <3>1, <3>2, <2>2 DEF WalkOf
      <3>4. w(k)[k - 1] = w(k - 1)[k - 1]
        BY <3>1, <3>2, WalksAgree
      <3> QED BY <2>2, <3>1, <3>3, <3>4
    <2> QED BY <2>1, <2>2
  <1>3. IsWalk(f)
    <2> HIDE DEF w
    <2> QED BY <1>2
  <1>4. Walk(pv, h) = CHOOSE g : IsWalk(g)
    BY DEF Walk
  <1>5. IsWalk(Walk(pv, h))
    <2> HIDE DEF IsWalk, f
    <2> QED BY <1>3, <1>4
  <1> HIDE DEF f, w
  <1> QED BY <1>5

-----------------------------------------------------------------------------
(* The list that prev spells out is the only order of the members that the *)
(* pointers link.                                                          *)
LEMMA WalkGoesRound ==
  ASSUME NEW nx, NEW pv, NEW h, NEW M, NEW n \in Nat, NEW q,
         OrderOf(nx, pv, h, M, n, q)
  PROVE  \A k \in Nat : k <= n => Walk(pv, h)[k] = OnRing(q, h, k)
  <1> q \in [1 .. n -> M] /\ Linked(nx, pv, h, q, n)
    BY DEF OrderOf
  <1> DEFINE T == {k \in Nat : k <= n => Walk(pv, h)[k] = OnRing(q, h, k)}
  <1>1. 0 \in T
    <2>1. OnRing(q, h, 0) = h
      BY DEF OnRing
    <2> QED BY <2>1, WalkSteps
  <1>2. ASSUME NEW k \in Nat, k \in T PROVE k + 1 \in T
    <2> SUFFICES ASSUME k + 1 <= n
                 PROVE  Walk(pv, h)[k + 1] = OnRing(q, h, k + 1)
      OBVIOUS
    <2>1. k <= n /\ k \in 0 .. n
      OBVIOUS
    <2>2. Walk(pv, h)[k] = OnRing(q, h, k)
      BY <1>2, <2>1
    <2>3. pv[OnRing(q, h, k)] = OnRing(q, h, k + 1)
      BY <2>1 DEF Linked
    <2>4. Walk(pv, h)[k + 1] = pv[Walk(pv, h)[k]]
      BY WalkSteps
    <2> QED BY <2>2, <2>3, <2>4
  <1> HIDE DEF T
  <1>3. \A k \in Nat : k \in T
    BY <1>1, <1>2, SetInduction
  <1> QED BY <1>3 DEF T

(* The order that the pointers link is the one that ListOf reads off prev. *)
LEMMA ListOfIs ==
  ASSUME NEW nx, NEW pv, NEW h, NEW M, NEW n \in Nat, NEW q,
         OrderOf(nx, pv, h, M, n, q)
  PROVE  ListOf(pv, h, n) = q
  <1> q \in [1 .. n -> M]
    BY DEF OrderOf
  <1>1. ASSUME NEW k \in 1 .. n PROVE Walk(pv, h)[k] = q[k]
    <2>1. k \in Nat /\ k <= n /\ OnRing(q, h, k) = q[k]
      BY DEF OnRing
    <2>2. \A j \in Nat : j <= n => Walk(pv, h)[j] = OnRing(q, h, j)
      BY WalkGoesRound
    <2> QED BY <2>1, <2>2
  <1>2. q = [k \in 1 .. n |-> q[k]]
    OBVIOUS
  <1> QED BY <1>1, <1>2 DEF ListOf

(* ListOf returns an order of the members.                                 *)
LEMMA ListOfOrder ==
  ASSUME NEW nx, NEW pv, NEW h, NEW M, NEW n \in Nat,
         IsListOf(nx, pv, h, M, n)
  PROVE  OrderOf(nx, pv, h, M, n, ListOf(pv, h, n))
  <1>1. PICK q : OrderOf(nx, pv, h, M, n, q)
    BY OrderedList
  <1>2. ListOf(pv, h, n) = q
    BY <1>1, ListOfIs
  <1> QED BY <1>1, <1>2

(* What the operations of the list do to that order.                       *)
LEMMA ListOfKept ==
  ASSUME NEW nx, NEW pv, NEW nx2, NEW pv2, NEW h, NEW M, NEW n \in Nat,
         h \notin M,
         \A m \in M \cup {h} : nx2[m] = nx[m] /\ pv2[m] = pv[m],
         IsListOf(nx, pv, h, M, n)
  PROVE  ListOf(pv2, h, n) = ListOf(pv, h, n)
  <1>1. PICK q : OrderOf(nx, pv, h, M, n, q)
    BY OrderedList
  <1>2. \A k \in 0 .. n + 1 : OnRing(q, h, k) \in M \cup {h}
    BY <1>1 DEF OrderOf, OnRing
  <1>3. Linked(nx2, pv2, h, q, n)
    BY <1>1, <1>2 DEF Linked, OrderOf
  <1>4. OrderOf(nx2, pv2, h, M, n, q)
    BY <1>1, <1>3 DEF OrderOf
  <1> QED BY <1>1, <1>4, ListOfIs

(* An insertion after the head appends to the order.                       *)
LEMMA ListOfInsert ==
  ASSUME NEW X, NEW nx \in [X -> X], NEW pv \in [X -> X],
         NEW h \in X, NEW M \in SUBSET X, NEW n \in Nat, h \notin M,
         NEW c \in X, c \notin M, c # h,
         IsListOf(nx, pv, h, M, n)
  PROVE  ListOf(PrevAfterInsert(nx, pv, h, c), h, n + 1)
           = Append(ListOf(pv, h, n), c)
  <1>1. PICK q : OrderOf(nx, pv, h, M, n, q)
    BY OrderedList
  <1>2. OrderOf(NextAfterInsert(nx, h, c), PrevAfterInsert(nx, pv, h, c), h,
                M \cup {c}, n + 1, Append(q, c))
    BY <1>1, InsertLinked
  <1>3. n + 1 \in Nat
    OBVIOUS
  <1> QED BY <1>1, <1>2, <1>3, ListOfIs

(* A removal before the head takes the first of the order.                 *)
LEMMA ListOfRemove ==
  ASSUME NEW X, NEW nx \in [X -> X], NEW pv \in [X -> X],
         NEW h \in X, NEW M \in SUBSET X, NEW n \in Nat, h \notin M,
         n > 0, IsListOf(nx, pv, h, M, n)
  PROVE  /\ pv[h] = Head(ListOf(pv, h, n))
         /\ ListOf(PrevAfterRemove(pv, h), h, n - 1) = Tail(ListOf(pv, h, n))
  <1>1. PICK q : OrderOf(nx, pv, h, M, n, q)
    BY OrderedList
  <1>2. /\ pv[h] = Head(q)
        /\ OrderOf(NextAfterRemove(nx, pv, h), PrevAfterRemove(pv, h), h,
                   M \ {pv[h]}, n - 1, Tail(q))
    BY <1>1, RemoveLinked
  <1>3. n - 1 \in Nat
    OBVIOUS
  <1> QED BY <1>1, <1>2, <1>3, ListOfIs

-----------------------------------------------------------------------------
(* Safety under disciplined programs, for any number of processes and      *)
(* semaphores: SafeInv of module Kernel is inductive.                      *)

(* The lists of the kernel, all of a kind: the head of a list, the         *)
(* processes in it and how many the value of its owner says they are.      *)
Heads == NProc .. NProc + NSem

Members(h) ==
  {p \in Procs : /\ state[p] = "blocked"
                 /\ \/ h = StdInNode /\ run[p] = "read"
                    \/ h # StdInNode /\ run[p] = "semwait" /\ local[p] = h - NProc}

Count(h) == IF h = StdInNode THEN Deficit(devValue)
            ELSE Deficit(semValue[h - NProc])

ListsExact == \A h \in Heads : IsListOf(next, prev, h, Members(h), Count(h))

(* The heads are nodes of their own, one for each semaphore and one for    *)
(* stdin.                                                                  *)
LEMMA HeadPlaces ==
  /\ Heads \subseteq Nodes
  /\ \A h \in Heads : h \notin Procs
  /\ \A s \in Sems : SemNode(s) \in Heads /\ SemNode(s) # StdInNode
  /\ StdInNode \in Heads
  /\ \A h \in Heads : h # StdInNode => h - NProc \in Sems /\ h = SemNode(h - NProc)
  BY Constants DEF Heads, Nodes, NULL, Procs, Sems, SemNode, StdInNode

(* The two ways to state that the wait lists are exact agree.              *)
LEMMA ListsAlike == TypeOK => (WaitListsExact <=> ListsExact)
  <1> SUFFICES ASSUME TypeOK PROVE WaitListsExact <=> ListsExact
    OBVIOUS
  <1>1. Members(StdInNode) = StdInWaiters /\ Count(StdInNode) = Deficit(devValue)
    BY DEF Members, StdInWaiters, Count
  <1>2. \A s \in Sems : /\ Members(SemNode(s)) = Waiters(s)
                        /\ Count(SemNode(s)) = Deficit(semValue[s])
    <2> SUFFICES ASSUME NEW s \in Sems
                 PROVE  /\ Members(SemNode(s)) = Waiters(s)
                        /\ Count(SemNode(s)) = Deficit(semValue[s])
      OBVIOUS
    <2>1. SemNode(s) # StdInNode /\ SemNode(s) - NProc = s
      <3>1. s \in Nat /\ NProc \in Nat
        BY Constants DEF Sems
      <3>2. (NProc + s) - NProc = s
        BY <3>1
      <3>3. SemNode(s) - NProc = s
        BY <3>2 DEF SemNode
      <3>4. SemNode(s) # StdInNode
        BY HeadPlaces
      <3> QED BY <3>3, <3>4
    <2> QED BY <2>1 DEF Members, Waiters, Count
  <1>3. WaitListsExact => ListsExact
    <2> SUFFICES ASSUME WaitListsExact, NEW h \in Heads
                 PROVE  IsListOf(next, prev, h, Members(h), Count(h))
      BY DEF ListsExact
    <2>1. CASE h = StdInNode
      BY <2>1, <1>1 DEF WaitListsExact
    <2>2. CASE h # StdInNode
      <3>1. h - NProc \in Sems /\ h = SemNode(h - NProc)
        BY <2>2, HeadPlaces
      <3> QED BY <3>1, <1>2 DEF WaitListsExact
    <2> QED BY <2>1, <2>2
  <1>4. ListsExact => WaitListsExact
    BY <1>1, <1>2, HeadPlaces DEF ListsExact, WaitListsExact
  <1> QED BY <1>3, <1>4

(* How many processes a value says are waiting.                            *)
LEMMA DeficitValue ==
  \A v \in Int : /\ v < 0 => Deficit(v) = 0 - v
                 /\ v >= 0 => Deficit(v) = 0
  BY DEF Deficit

(* No list has a negative length.                                          *)
LEMMA CountType == TypeOK => \A h \in Heads : Count(h) \in Nat
  BY HeadPlaces DEF TypeOK, Count, Deficit

(* No process is in two lists.                                             *)
LEMMA MembersApart ==
  ASSUME NEW g \in Heads, NEW h \in Heads, g # h
  PROVE  /\ Members(g) \subseteq Procs /\ Members(g) \cap Members(h) = {}
         /\ g \notin Members(g) /\ g \notin Members(h)
  <1>1. g \notin Procs /\ Members(g) \subseteq Procs /\ Members(h) \subseteq Procs
    BY HeadPlaces DEF Members
  <1>2. CASE g # StdInNode /\ h # StdInNode
    <2>1. g - NProc # h - NProc
      BY Constants DEF Heads
    <2> QED BY <1>1, <1>2, <2>1 DEF Members
  <1>3. CASE g = StdInNode \/ h = StdInNode
    BY <1>1, <1>3 DEF Members
  <1> QED BY <1>1, <1>2, <1>3

(* A step that moves no pointer, no member and no count.                   *)
LEMMA ListsKept ==
  ASSUME TypeOK, ListsExact,
         UNCHANGED listVars,
         \A h \in Heads : Members(h)' = Members(h) /\ Count(h)' = Count(h)
  PROVE  ListsExact'
  BY DEF ListsExact, listVars, Heads

(* The current process is put into the list of h.                          *)
LEMMA ListsEnqueued ==
  ASSUME TypeOK, ListsExact, NEW h \in Heads,
         state[current] # "blocked",
         EnqueueCurrent(h),
         Members(h)' = Members(h) \cup {current}, Count(h)' = Count(h) + 1,
         \A g \in Heads \ {h} : Members(g)' = Members(g) /\ Count(g)' = Count(g)
  PROVE  ListsExact'
  <1>1. /\ next \in [Nodes -> Nodes] /\ prev \in [Nodes -> Nodes]
        /\ h \in Nodes /\ current \in Nodes /\ current \in Procs
        /\ current # h /\ current \notin Members(h)
        /\ \A g \in Heads : Members(g) \in SUBSET Nodes /\ g \notin Members(g)
    BY HeadPlaces, NodePlaces DEF TypeOK, Members
  <1>2. \A g \in Heads : /\ Count(g) \in Nat
                         /\ IsListOf(next, prev, g, Members(g), Count(g))
    BY CountType DEF ListsExact
  <1>3. next' = NextAfterInsert(next, h, current)
    BY DEF EnqueueCurrent
  <1>4. prev' = PrevAfterInsert(next, prev, h, current)
    BY DEF EnqueueCurrent
  <1>5. IsListOf(next', prev', h, Members(h)', Count(h)')
    BY <1>1, <1>2, <1>3, <1>4, InsertList
  <1>6. ASSUME NEW g \in Heads \ {h}
        PROVE  IsListOf(next', prev', g, Members(g)', Count(g)')
    <2>1. next[h] \in Members(h) \cup {h}
      BY <1>1, <1>2, ListEnds
    <2>2. \A m \in Members(g) \cup {g} : m # h /\ m # current /\ m # next[h]
      BY <2>1, <1>1, MembersApart, HeadPlaces DEF Members
    <2>3. \A m \in Members(g) \cup {g} : next'[m] = next[m] /\ prev'[m] = prev[m]
      BY <2>2, <1>1, <1>3, <1>4, HeadPlaces DEF NextAfterInsert, PrevAfterInsert
    <2>4. IsListOf(next', prev', g, Members(g), Count(g))
      BY <2>3, <1>1, <1>2, ListFrame
    <2> QED BY <2>4
  <1>7. \A g \in Heads : IsListOf(next', prev', g, Members(g)', Count(g)')
    BY <1>5, <1>6
  <1> QED BY <1>7 DEF ListsExact, Heads

(* The oldest process is taken out of the list of h, which is not empty.   *)
LEMMA ListsDequeued ==
  ASSUME TypeOK, ListsExact, NEW h \in Heads, Count(h) > 0,
         WakeOldest(h),
         Members(h)' = Members(h) \ {prev[h]}, Count(h)' = Count(h) - 1,
         \A g \in Heads \ {h} : Members(g)' = Members(g) /\ Count(g)' = Count(g)
  PROVE  ListsExact'
  <1>1. /\ next \in [Nodes -> Nodes] /\ prev \in [Nodes -> Nodes] /\ h \in Nodes
        /\ \A g \in Heads : Members(g) \in SUBSET Nodes /\ g \notin Members(g)
    BY HeadPlaces, NodePlaces DEF TypeOK, Members
  <1>2. \A g \in Heads : /\ Count(g) \in Nat
                         /\ IsListOf(next, prev, g, Members(g), Count(g))
    BY CountType DEF ListsExact
  <1>3. next' = NextAfterRemove(next, prev, h)
    BY DEF WakeOldest
  <1>4. prev' = PrevAfterRemove(prev, h)
    BY DEF WakeOldest
  <1>5. IsListOf(next', prev', h, Members(h)', Count(h)')
    BY <1>1, <1>2, <1>3, <1>4, RemoveList
  <1>6. ASSUME NEW g \in Heads \ {h}
        PROVE  IsListOf(next', prev', g, Members(g)', Count(g)')
    <2>1. prev[h] \in Members(h) \cup {h}
      BY <1>1, <1>2, ListEnds
    <2>2. prev[prev[h]] \in Members(h) \cup {h}
      BY <2>1, <1>1, <1>2, ListEnds
    <2>3. \A m \in Members(g) \cup {g} : m # h /\ m # prev[prev[h]]
      BY <2>2, <1>1, MembersApart, HeadPlaces DEF Members
    <2>4. \A m \in Members(g) \cup {g} : next'[m] = next[m] /\ prev'[m] = prev[m]
      BY <2>3, <1>1, <1>3, <1>4, HeadPlaces DEF NextAfterRemove, PrevAfterRemove
    <2>5. IsListOf(next', prev', g, Members(g), Count(g))
      BY <2>4, <1>1, <1>2, ListFrame
    <2> QED BY <2>5
  <1>7. \A g \in Heads : IsListOf(next', prev', g, Members(g)', Count(g)')
    BY <1>5, <1>6
  <1> QED BY <1>7 DEF ListsExact, Heads

(* A head nobody waits at is linked to itself.                             *)
LEMMA ListsReset ==
  ASSUME TypeOK, ListsExact, NEW h \in Heads,
         next' = SelfLinked(next, h), prev' = SelfLinked(prev, h),
         Members(h)' = {}, Count(h)' = 0,
         \A g \in Heads \ {h} : Members(g)' = Members(g) /\ Count(g)' = Count(g)
  PROVE  ListsExact'
  <1>1. /\ next \in [Nodes -> Nodes] /\ prev \in [Nodes -> Nodes] /\ h \in Nodes
        /\ \A g \in Heads : Members(g) \in SUBSET Nodes /\ g \notin Members(g)
    BY HeadPlaces, NodePlaces DEF TypeOK, Members
  <1>2. IsListOf(next', prev', h, Members(h)', Count(h)')
    <2>1. next'[h] = h /\ prev'[h] = h
      BY <1>1 DEF SelfLinked
    <2> QED BY <2>1, EmptyList
  <1>3. ASSUME NEW g \in Heads \ {h}
        PROVE  IsListOf(next', prev', g, Members(g)', Count(g)')
    <2>1. \A m \in Members(g) \cup {g} : m # h
      BY <1>1, MembersApart, HeadPlaces DEF Members
    <2>2. \A m \in Members(g) \cup {g} : next'[m] = next[m] /\ prev'[m] = prev[m]
      BY <2>1, <1>1, HeadPlaces DEF SelfLinked
    <2>3. Count(g) \in Nat /\ IsListOf(next, prev, g, Members(g), Count(g))
      BY CountType DEF ListsExact
    <2>4. IsListOf(next', prev', g, Members(g), Count(g))
      BY <2>2, <2>3, <1>1, ListFrame
    <2> QED BY <2>4
  <1>4. \A g \in Heads : IsListOf(next', prev', g, Members(g)', Count(g)')
    BY <1>2, <1>3
  <1> QED BY <1>4 DEF ListsExact, Heads

-----------------------------------------------------------------------------
(* Everything of SafeInv but the types and the lists.                      *)
ProcInv == OneRunning /\ FramesResumable /\ BlockedHasWaker /\ NoWildWakeup
           /\ ForkSlotReserved /\ WaitPlaces

(* SwitchTo takes a process that was runnable or whose sleep just ended,   *)
(* and touches no other, provided that the idle process may be taken.      *)
LEMMA SwitchEffect ==
  ASSUME TypeOK,
         NEW st \in [Procs -> States], NEW sl \in [Procs -> Nat \cup {-1}],
         NEW tc \in [Procs -> 0 .. MaxTimeCount],
         NEW top \in [Procs -> 0 .. 2], NEW ptop \in [Procs -> 0 .. 2],
         st[0] = "runnable",
         SwitchTo(WakeUp(st, sl), tc, top, ptop)
  PROVE  \E n \in Procs :
           /\ current' = n
           /\ st[n] = "runnable" \/ (Sleeping(st, sl, n) /\ sl[n] = 1)
           /\ state' = [p \in Procs |->
                          IF p = n THEN "running"
                          ELSE IF Sleeping(st, sl, p) /\ sl[p] = 1
                          THEN "runnable" ELSE st[p]]
           /\ stackTop' = [top EXCEPT ![n] = ptop[n]]
           /\ prevStackTop' = ptop
  <1>1. PICK n \in Procs :
          /\ Selected(WakeUp(st, sl), n)
          /\ current' = n
          /\ state' = [WakeUp(st, sl) EXCEPT ![n] = "running"]
          /\ stackTop' = [top EXCEPT ![n] = ptop[n]]
          /\ prevStackTop' = ptop
    BY DEF SwitchTo
  <1>2. 0 \in Procs
    BY Constants DEF Procs
  <1>3. WakeUp(st, sl)[n] = "runnable"
    BY <1>1, <1>2 DEF Selected, Candidates, WakeUp, Sleeping
  <1>4. st[n] = "runnable" \/ (Sleeping(st, sl, n) /\ sl[n] = 1)
    BY <1>3 DEF WakeUp
  <1>5. state' = [p \in Procs |-> IF p = n THEN "running"
                                  ELSE IF Sleeping(st, sl, p) /\ sl[p] = 1
                                  THEN "runnable" ELSE st[p]]
    BY <1>1 DEF WakeUp
  <1> QED BY <1>1, <1>4, <1>5

(* The processor is given to somebody else, by the timer or by a system    *)
(* call that has changed the current process to st, sl, run' and local'.   *)
LEMMA SwitchSafe ==
  ASSUME TypeOK, TypeOK', ProcInv,
         NEW st \in [Procs -> States], NEW sl \in [Procs -> Nat \cup {-1}],
         NEW tc \in [Procs -> 0 .. MaxTimeCount],
         NEW top \in [Procs -> 0 .. 2], NEW ptop \in [Procs -> 0 .. 2],
         \A p \in Procs \ {current} :
           /\ st[p] = state[p] /\ sl[p] = sleepTime[p]
           /\ top[p] = stackTop[p] /\ ptop[p] = prevStackTop[p]
           /\ run'[p] = run[p] /\ local'[p] = local[p],
         SwitchTo(WakeUp(st, sl), tc, top, ptop),
         sleepTime' = CountDown(st, sl),
         st[current] \in {"runnable", "blocked", "dead"},
         current = 0 => st[current] = "runnable",
         run'[current] = "idle" <=> current = 0,
         st[current] # "dead" =>
           /\ top[current] = Depth(run'[current]) + 1
           /\ Depth(run'[current]) = 1 => ptop[current] = 1,
         run'[current] = "exit" => st[current] = "dead",
         run'[current] = "fork" =>
           /\ run[current] = "fork" /\ local'[current] = local[current]
           /\ st[current] = "runnable",
         st[current] = "blocked" =>
           \/ run'[current] = "sleep" /\ sl[current] > 0
           \/ run'[current] = "semwait" /\ sl[current] = -1
              /\ semState[local'[current]] = 1
           \/ run'[current] = "read" /\ sl[current] = -1 /\ devValue' = -1,
         run'[current] = "semwait" => local'[current] \in Sems,
         UNCHANGED <<semState, wild>>,
         devValue = -1 => devValue' = -1,
         devValue' \in {-1, 0}
  PROVE  /\ ProcInv'
         /\ state'[current] = "blocked" <=> st[current] = "blocked"
         /\ \A p \in Procs \ {current} : run[p] \in {"semwait", "read"} =>
              (state'[p] = "blocked" <=> state[p] = "blocked")
  <1>1. 0 \in Procs /\ current \in Procs
    BY Constants DEF Procs, TypeOK
  <1>2. st[0] = "runnable"
    BY <1>1 DEF ProcInv, OneRunning
  <1>3. PICK n \in Procs :
           /\ current' = n
           /\ st[n] = "runnable" \/ (Sleeping(st, sl, n) /\ sl[n] = 1)
           /\ state' = [p \in Procs |->
                          IF p = n THEN "running"
                          ELSE IF Sleeping(st, sl, p) /\ sl[p] = 1
                          THEN "runnable" ELSE st[p]]
           /\ stackTop' = [top EXCEPT ![n] = ptop[n]]
           /\ prevStackTop' = ptop
    <2> HIDE DEF SwitchTo
    <2> QED BY <1>2, SwitchEffect
  <1>4. \A p \in Procs : st[p] # "running"
    BY DEF ProcInv, OneRunning
  <1>5. OneRunning'
    BY <1>1, <1>2, <1>3, <1>4 DEF ProcInv, OneRunning, Sleeping
  <1>6. FramesResumable'
    <2>1. ASSUME NEW p \in Procs, st[p] # "dead"
          PROVE  /\ top[p] = Depth(run'[p]) + 1
                 /\ Depth(run'[p]) = 1 => ptop[p] = 1
      BY <2>1 DEF ProcInv, FramesResumable
    <2>2. ASSUME NEW p \in Procs \ {n}, state'[p] # "dead"
          PROVE  /\ stackTop'[p] = Depth(run'[p]) + 1
                 /\ Depth(run'[p]) = 1 => prevStackTop'[p] = 1
      <3>1. st[p] # "dead"
        BY <2>2, <1>3 DEF Sleeping
      <3> QED BY <2>1, <3>1, <1>3
    <2>3. Depth(run'[n]) = 1 => stackTop'[n] = 1
      <3>1. st[n] # "dead"
        BY <1>3 DEF Sleeping
      <3> QED BY <2>1, <3>1, <1>3
    <2> QED BY <2>2, <2>3, <1>3 DEF FramesResumable
  <1>7. ASSUME NEW p \in Procs, state'[p] = "blocked"
        PROVE  /\ st[p] = "blocked" /\ ~(Sleeping(st, sl, p) /\ sl[p] = 1)
               /\ sleepTime'[p] = IF Sleeping(st, sl, p) THEN sl[p] - 1 ELSE sl[p]
    BY <1>7, <1>3 DEF CountDown
  <1>8. BlockedHasWaker'
    <2> SUFFICES ASSUME NEW p \in Procs, state'[p] = "blocked"
                 PROVE  \/ run'[p] = "sleep" /\ sleepTime'[p] > 0
                        \/ run'[p] = "semwait" /\ sleepTime'[p] = -1
                           /\ semState'[local'[p]] = 1
                        \/ run'[p] = "read" /\ sleepTime'[p] = -1 /\ devValue' = -1
      BY DEF BlockedHasWaker
    <2>1. CASE p = current
      BY <2>1, <1>7 DEF Sleeping
    <2>2. CASE p # current
      BY <2>2, <1>7 DEF Sleeping, ProcInv, BlockedHasWaker
    <2> QED BY <2>1, <2>2
  <1>9. NoWildWakeup'
    BY DEF ProcInv, NoWildWakeup
  <1>10. ForkSlotReserved'
    <2> SUFFICES ASSUME NEW p \in Procs, run'[p] = "fork"
                 PROVE  /\ p \in Forkers /\ state'[p] \in {"running", "runnable"}
                        /\ local'[p] \in Procs /\ state'[local'[p]] = "dead"
      BY DEF ForkSlotReserved
    <2>1. /\ run[p] = "fork" /\ local'[p] = local[p]
          /\ st[p] \in {"running", "runnable"}
      BY DEF ProcInv, ForkSlotReserved
    <2>2. local[p] \in Procs /\ state[local[p]] = "dead" /\ p \in Forkers
      BY <2>1 DEF ProcInv, ForkSlotReserved
    <2>3. local[p] # current
      BY <2>2, <1>1 DEF ProcInv, OneRunning
    <2>4. st[local[p]] = "dead"
      BY <2>2, <2>3
    <2> QED BY <2>1, <2>2, <2>4, <1>3 DEF Sleeping
  <1>11. WaitPlaces'
    BY DEF ProcInv, WaitPlaces
  <1>12. state'[current] = "blocked" <=> st[current] = "blocked"
    BY <1>1, <1>3 DEF Sleeping
  <1>13. ASSUME NEW p \in Procs \ {current}, run[p] \in {"semwait", "read"}
         PROVE  state'[p] = "blocked" <=> state[p] = "blocked"
    <2>1. state[p] = "blocked" => sleepTime[p] = -1
      BY <1>13 DEF ProcInv, BlockedHasWaker
    <2> QED BY <2>1, <1>3 DEF Sleeping
  <1> QED
    BY <1>5, <1>6, <1>8, <1>9, <1>10, <1>11, <1>12, <1>13 DEF ProcInv

(* A step after which the same process runs, in the same place or back in  *)
(* user mode, and nobody's state changed.                                  *)
LEMMA GoOnSafe ==
  ASSUME TypeOK, ProcInv,
         UNCHANGED <<state, sleepTime, current, devValue, wild>>,
         \A p \in Procs \ {current} :
           /\ run'[p] = run[p] /\ local'[p] = local[p]
           /\ stackTop'[p] = stackTop[p] /\ prevStackTop'[p] = prevStackTop[p],
         \/ run'[current] = "user" /\ current # 0 /\ run[current] # "idle"
         \/ /\ run'[current] = run[current] /\ local'[current] = local[current]
            /\ stackTop'[current] = stackTop[current],
         \A p \in Procs : run[p] = "semwait" /\ state[p] = "blocked" =>
           semState'[local[p]] = 1
  PROVE  ProcInv'
  <1>1. current \in Procs /\ state[current] = "running"
    BY DEF TypeOK, ProcInv, OneRunning
  <1>2. OneRunning'
    BY <1>1 DEF ProcInv, OneRunning
  <1>3. FramesResumable'
    BY <1>1 DEF ProcInv, FramesResumable, Depth
  <1>4. BlockedHasWaker'
    BY <1>1 DEF ProcInv, BlockedHasWaker
  <1>5. NoWildWakeup'
    BY DEF ProcInv, NoWildWakeup
  <1>6. ForkSlotReserved'
    BY <1>1 DEF ProcInv, ForkSlotReserved
  <1>7. WaitPlaces'
    BY <1>1 DEF ProcInv, WaitPlaces
  <1> QED BY <1>2, <1>3, <1>4, <1>5, <1>6, <1>7 DEF ProcInv

(* The oldest waiter of a list that is not empty is woken: it is blocked   *)
(* there, and the current process is another one.                          *)
LEMMA WakeSafe ==
  ASSUME TypeOK, ProcInv, ListsExact, NEW h \in Heads, Count(h) > 0,
         WakeOldest(h), ReturnAtOnce, UNCHANGED semState,
         devValue' \in {-1, 0}, devValue' = devValue \/ Members(StdInNode)' = {}
  PROVE  /\ ProcInv'
         /\ prev[h] \in Members(h)
         /\ \A g \in Heads : Members(g)' = Members(g) \ {prev[h]}
  <1> DEFINE n == prev[h]
  <1>1. n \in Members(h) /\ n \in Procs
    <2>1. Count(h) \in Nat /\ h \notin Members(h)
      BY CountType, HeadPlaces DEF Members
    <2>2. IsListOf(next, prev, h, Members(h), Count(h))
      BY DEF ListsExact
    <2> QED BY <2>1, <2>2, ListEnds DEF Members
  <1>2. /\ state' = [state EXCEPT ![n] = "runnable"]
        /\ sleepTime' = [sleepTime EXCEPT ![n] = 0]
        /\ wild' = wild
    BY <1>1 DEF WakeOldest
  <1>3. /\ state[n] = "blocked" /\ run[n] \in {"read", "semwait"}
        /\ current \in Procs /\ state[current] = "running"
        /\ state[0] \in {"running", "runnable"}
    BY <1>1 DEF Members, TypeOK, ProcInv, OneRunning
  <1>4. /\ run' = run /\ local' = local /\ saved' = saved /\ current' = current
        /\ stackTop' = stackTop
        /\ \A p \in Procs \ {current} : prevStackTop'[p] = prevStackTop[p]
    BY DEF ReturnAtOnce, goVars, PrevOnEntry, TypeOK
  <1>5. \A g \in Heads : Members(g)' = Members(g) \ {n}
    BY <1>1, <1>2, <1>4 DEF Members, TypeOK, StdInNode
  <1>6. OneRunning'
    BY <1>1, <1>2, <1>3, <1>4 DEF ProcInv, OneRunning, TypeOK
  <1>7. FramesResumable'
    BY <1>1, <1>2, <1>3, <1>4 DEF ProcInv, FramesResumable, TypeOK
  <1>8. BlockedHasWaker'
    <2> SUFFICES ASSUME NEW p \in Procs, state'[p] = "blocked"
                 PROVE  \/ run'[p] = "sleep" /\ sleepTime'[p] > 0
                        \/ run'[p] = "semwait" /\ sleepTime'[p] = -1
                           /\ semState'[local'[p]] = 1
                        \/ run'[p] = "read" /\ sleepTime'[p] = -1 /\ devValue' = -1
      BY DEF BlockedHasWaker
    <2>1. p # n /\ state[p] = "blocked" /\ sleepTime'[p] = sleepTime[p]
      BY <1>1, <1>2 DEF TypeOK
    <2>2. run[p] = "read" => devValue' = devValue
      BY <2>1, <1>4 DEF Members
    <2> QED BY <2>1, <2>2, <1>4 DEF ProcInv, BlockedHasWaker
  <1>9. NoWildWakeup'
    BY <1>2 DEF ProcInv, NoWildWakeup
  <1>10. ForkSlotReserved'
    BY <1>1, <1>2, <1>3, <1>4 DEF ProcInv, ForkSlotReserved, TypeOK
  <1>11. WaitPlaces'
    BY <1>4 DEF ProcInv, WaitPlaces
  <1> QED BY <1>1, <1>5, <1>6, <1>7, <1>8, <1>9, <1>10, <1>11 DEF ProcInv

-----------------------------------------------------------------------------
(* Every action keeps the processes and the lists in order.                *)

(* A step that moves no member and no count, stated per process.           *)
LEMMA MembersKept ==
  ASSUME TypeOK,
         UNCHANGED <<semValue, devValue>>,
         \A p \in Procs :
           \/ run'[p] = run[p] /\ local'[p] = local[p]
              /\ (run[p] \in {"semwait", "read"} =>
                   (state'[p] = "blocked" <=> state[p] = "blocked"))
           \/ (state[p] # "blocked" \/ run[p] \notin {"semwait", "read"})
              /\ (state'[p] # "blocked" \/ run'[p] \notin {"semwait", "read"})
  PROVE  \A h \in Heads : Members(h)' = Members(h) /\ Count(h)' = Count(h)
  <1> SUFFICES ASSUME NEW h \in Heads
               PROVE  Members(h)' = Members(h) /\ Count(h)' = Count(h)
    OBVIOUS
  <1>1. Members(h)' = Members(h)
    BY DEF Members, StdInNode
  <1>2. Count(h)' = Count(h)
    BY DEF Count, StdInNode
  <1> QED BY <1>1, <1>2

(* A handler that only returns keeps the invariant.                        *)
LEMMA PlainSafe ==
  ASSUME TypeOK, ProcInv, ListsExact, ReturnAtOnce, WakeNobody,
         UNCHANGED <<semVars, devValue>>
  PROVE  ProcInv' /\ ListsExact'
  <1>1. /\ run' = run /\ local' = local /\ current' = current
        /\ stackTop' = stackTop
        /\ \A p \in Procs \ {current} : prevStackTop'[p] = prevStackTop[p]
        /\ UNCHANGED <<state, sleepTime, wild, listVars, semState, semValue>>
    BY DEF ReturnAtOnce, goVars, PrevOnEntry, TypeOK, WakeNobody, semVars
  <1>2. \A p \in Procs : run[p] = "semwait" /\ state[p] = "blocked" =>
          semState'[local[p]] = 1
    BY <1>1 DEF ProcInv, BlockedHasWaker
  <1>3. ProcInv'
    BY <1>1, <1>2, GoOnSafe
  <1>4. \A h \in Heads : Members(h)' = Members(h) /\ Count(h)' = Count(h)
    BY <1>1, MembersKept
  <1>5. ListsExact'
    BY <1>1, <1>4, ListsKept
  <1> QED BY <1>3, <1>5

(* timerHandle keeps the invariant: it wakes sleepers and may switch.      *)
LEMMA TimerSafe ==
  ASSUME TypeOK, TypeOK', ProcInv, ListsExact, TimerIrq
  PROVE  ProcInv' /\ ListsExact'
  <1>1. /\ current \in Procs /\ run' = run /\ local' = local
        /\ UNCHANGED <<semState, semValue, devValue, listVars, wild>>
        /\ sleepTime' = CountDown(state, sleepTime)
        /\ run[current] \in {"idle", "user", "fork"}
    BY DEF TypeOK, TimerIrq, InterruptsOn, goVars, semVars
  <1>2. state[current] = "running"
    BY <1>1 DEF ProcInv, OneRunning
  <1>3. CASE Tick
    <2>1. /\ current' = current /\ stackTop' = stackTop
          /\ \A p \in Procs \ {current} : prevStackTop'[p] = prevStackTop[p]
          /\ state' = [p \in Procs |->
                         IF Sleeping(state, sleepTime, p) /\ sleepTime[p] = 1
                         THEN "runnable" ELSE state[p]]
      BY <1>3 DEF Tick, TypeOK, PrevOnEntry, WakeUp
    <2>2. \A p \in Procs : run[p] \in {"semwait", "read"} /\ state[p] = "blocked"
            => sleepTime[p] = -1
      BY DEF ProcInv, BlockedHasWaker
    <2>3. OneRunning'
      <3>1. 0 \in Procs
        BY Constants DEF Procs
      <3>2. \A p \in Procs : state'[p] = "running" <=> state[p] = "running"
        BY <2>1 DEF Sleeping
      <3>3. \A p \in Procs : state[p] = "dead" => state'[p] = "dead"
        BY <2>1 DEF Sleeping
      <3>4. state'[0] \in {"running", "runnable"}
        BY <2>1, <3>1 DEF ProcInv, OneRunning, Sleeping
      <3> QED BY <1>1, <2>1, <3>2, <3>3, <3>4 DEF ProcInv, OneRunning
    <2>4. FramesResumable'
      BY <1>1, <2>1 DEF ProcInv, FramesResumable, Sleeping
    <2>5. BlockedHasWaker'
      BY <1>1, <1>2, <2>1, <2>2 DEF ProcInv, BlockedHasWaker, CountDown, Sleeping, TypeOK
    <2>6. NoWildWakeup' /\ WaitPlaces'
      BY <1>1 DEF ProcInv, NoWildWakeup, WaitPlaces
    <2>7. ForkSlotReserved'
      BY <1>1, <2>1 DEF ProcInv, ForkSlotReserved, Sleeping
    <2>8. ProcInv'
      BY <2>3, <2>4, <2>5, <2>6, <2>7 DEF ProcInv
    <2>9. \A p \in Procs : run[p] \in {"semwait", "read"} =>
            (state'[p] = "blocked" <=> state[p] = "blocked")
      BY <2>1, <2>2 DEF Sleeping
    <2>10. \A h \in Heads : Members(h)' = Members(h) /\ Count(h)' = Count(h)
      BY <1>1, <2>9, MembersKept
    <2> QED BY <1>1, <2>8, <2>10, ListsKept
  <1>4. CASE Preempt
    <2> DEFINE st == [state EXCEPT ![current] = "runnable"]
               tc == [timeCount EXCEPT ![current] = 0]
               top == [stackTop EXCEPT ![current] = Depth(run[current]) + 1]
               ptop == PrevOnEntry
    <2>1. /\ st \in [Procs -> States] /\ tc \in [Procs -> 0 .. MaxTimeCount]
          /\ top \in [Procs -> 0 .. 2] /\ ptop \in [Procs -> 0 .. 2]
          /\ sleepTime \in [Procs -> Nat \cup {-1}]
      BY Constants DEF TypeOK, States, Depth, PrevOnEntry
    <2>2. SwitchTo(WakeUp(st, sleepTime), tc, top, ptop)
      BY <1>4 DEF Preempt
    <2>3. sleepTime' = CountDown(st, sleepTime)
      BY <1>1 DEF CountDown, Sleeping, TypeOK
    <2>4. \A p \in Procs \ {current} :
            /\ st[p] = state[p]
            /\ top[p] = stackTop[p] /\ ptop[p] = prevStackTop[p]
      BY DEF TypeOK, PrevOnEntry
    <2>5. /\ st[current] = "runnable" /\ top[current] = Depth(run[current]) + 1
          /\ Depth(run[current]) = 1 => ptop[current] = 1
      BY <1>1 DEF TypeOK, PrevOnEntry, ProcInv, FramesResumable
    <2>6. /\ run[current] = "idle" <=> current = 0
          /\ devValue \in {-1, 0}
      BY <1>1 DEF ProcInv, OneRunning, WaitPlaces
    <2> HIDE DEF st, tc, top, ptop
    <2>7. /\ ProcInv'
          /\ state'[current] = "blocked" <=> st[current] = "blocked"
          /\ \A p \in Procs \ {current} : run[p] \in {"semwait", "read"} =>
               (state'[p] = "blocked" <=> state[p] = "blocked")
      <3> HIDE DEF SwitchTo, ProcInv, TypeOK, CountDown
      <3> QED BY <1>1, <2>1, <2>2, <2>3, <2>4, <2>5, <2>6, SwitchSafe
    <2>8. \A h \in Heads : Members(h)' = Members(h) /\ Count(h)' = Count(h)
      BY <1>1, <2>5, <2>7, MembersKept
    <2> QED BY <1>1, <2>7, <2>8, ListsKept
  <1> QED BY <1>3, <1>4 DEF TimerIrq

(* A system call that gives the processor away, after changing its own     *)
(* state to st and its own sleepTime to sl.                                *)
LEMMA GiveAwaySafe ==
  ASSUME TypeOK, TypeOK', ProcInv, current # 0,
         NEW st \in [Procs -> States], NEW sl \in [Procs -> Nat \cup {-1}],
         NEW r \in Places, NEW l \in Nat,
         \A p \in Procs \ {current} : st[p] = state[p] /\ sl[p] = sleepTime[p],
         GiveAway(st, sl, r, l),
         \/ r = "exit" /\ st[current] = "dead"
         \/ r = "sleep" /\ st[current] = "blocked" /\ sl[current] > 0
         \/ /\ r = "semwait" /\ st[current] = "blocked" /\ sl[current] = -1
            /\ l \in Sems /\ semState[l] = 1
         \/ /\ r = "read" /\ st[current] = "blocked" /\ sl[current] = -1
            /\ devValue' = -1,
         UNCHANGED <<semState, wild>>,
         devValue = -1 => devValue' = -1,
         devValue' \in {-1, 0}
  PROVE  /\ ProcInv'
         /\ run'[current] = r /\ local'[current] = l
         /\ state'[current] = "blocked" <=> r # "exit"
         /\ \A p \in Procs \ {current} :
              /\ run'[p] = run[p] /\ local'[p] = local[p]
              /\ run[p] \in {"semwait", "read"} =>
                   (state'[p] = "blocked" <=> state[p] = "blocked")
  <1> DEFINE top == [stackTop EXCEPT ![current] = 2]
             ptop == [prevStackTop EXCEPT ![current] = 1]
  <1>1. /\ current \in Procs
        /\ top \in [Procs -> 0 .. 2] /\ ptop \in [Procs -> 0 .. 2]
        /\ timeCount \in [Procs -> 0 .. MaxTimeCount]
    BY DEF TypeOK
  <1>2. /\ SwitchTo(WakeUp(st, sl), timeCount, top, ptop)
        /\ sleepTime' = CountDown(st, sl)
        /\ run'[current] = r /\ local'[current] = l
        /\ \A p \in Procs \ {current} : run'[p] = run[p] /\ local'[p] = local[p]
    BY DEF GiveAway, TypeOK
  <1>3. \A p \in Procs \ {current} :
          top[p] = stackTop[p] /\ ptop[p] = prevStackTop[p]
    BY DEF TypeOK
  <1>4. /\ top[current] = Depth(r) + 1 /\ ptop[current] = 1
        /\ r \notin {"idle", "fork"} /\ (r = "exit" => st[current] = "dead")
        /\ (r = "semwait" => l \in Sems)
        /\ st[current] \in {"blocked", "dead"}
        /\ (st[current] = "blocked" <=> r # "exit")
        /\ (st[current] = "blocked" =>
              \/ r = "sleep" /\ sl[current] > 0
              \/ r = "semwait" /\ sl[current] = -1 /\ semState[l] = 1
              \/ r = "read" /\ sl[current] = -1 /\ devValue' = -1)
    BY <1>1 DEF TypeOK, Depth
  <1> HIDE DEF top, ptop
  <1>5. /\ ProcInv'
        /\ state'[current] = "blocked" <=> st[current] = "blocked"
        /\ \A p \in Procs \ {current} : run[p] \in {"semwait", "read"} =>
             (state'[p] = "blocked" <=> state[p] = "blocked")
    <2> HIDE DEF SwitchTo, ProcInv, TypeOK, CountDown
    <2> QED BY <1>1, <1>2, <1>3, <1>4, SwitchSafe
  <1> QED BY <1>2, <1>4, <1>5

(* The sets of state and sleepTime that a blocking call passes on.         *)
LEMMA BlockedType ==
  ASSUME TypeOK, NEW t \in Nat \cup {-1}
  PROVE  /\ Blocked(current) \in [Procs -> States]
         /\ [sleepTime EXCEPT ![current] = t] \in [Procs -> Nat \cup {-1}]
         /\ Blocked(current)[current] = "blocked"
         /\ [sleepTime EXCEPT ![current] = t][current] = t
         /\ \A p \in Procs \ {current} :
              /\ Blocked(current)[p] = state[p]
              /\ [sleepTime EXCEPT ![current] = t][p] = sleepTime[p]
  BY DEF TypeOK, Blocked, States

(* The current process in user mode is a user process, and it is running.  *)
LEMMA UserRuns ==
  ASSUME TypeOK, ProcInv, run[current] \in Places \ {"idle"}
  PROVE  /\ current # 0 /\ current \in Procs /\ state[current] = "running"
         /\ devValue \in {-1, 0}
  BY DEF TypeOK, ProcInv, OneRunning, WaitPlaces

(* sleep keeps the invariant.                                              *)
LEMMA SleepSafe ==
  ASSUME TypeOK, TypeOK', ProcInv, ListsExact, run[current] = "user",
         NEW t \in SleepTimes, Sleep(t)
  PROVE  ProcInv' /\ ListsExact'
  <1>1. CASE t = 0
    BY <1>1, PlainSafe DEF Sleep, PlainCall
  <1>2. CASE t # 0
    <2> DEFINE sl == [sleepTime EXCEPT ![current] = t]
    <2>1. /\ GiveAway(Blocked(current), sl, "sleep", 0)
          /\ UNCHANGED <<semState, semValue, devValue, listVars, wild>>
      BY <1>2 DEF Sleep, semVars
    <2>2. /\ current # 0 /\ current \in Procs /\ state[current] = "running"
          /\ devValue \in {-1, 0} /\ t \in Nat /\ t > 0
      BY <1>2, UserRuns, Constants DEF Places
    <2>3. /\ Blocked(current) \in [Procs -> States]
          /\ sl \in [Procs -> Nat \cup {-1}]
          /\ Blocked(current)[current] = "blocked" /\ sl[current] = t
          /\ \A p \in Procs \ {current} : /\ Blocked(current)[p] = state[p]
                                          /\ sl[p] = sleepTime[p]
      BY <2>2, BlockedType
    <2> HIDE DEF sl
    <2>4. /\ ProcInv'
          /\ run'[current] = "sleep"
          /\ \A p \in Procs \ {current} :
               /\ run'[p] = run[p] /\ local'[p] = local[p]
               /\ run[p] \in {"semwait", "read"} =>
                    (state'[p] = "blocked" <=> state[p] = "blocked")
      <3>1. "sleep" \in Places /\ 0 \in Nat
        BY DEF Places
      <3> HIDE DEF GiveAway, ProcInv, TypeOK
      <3> QED BY <2>1, <2>2, <2>3, <3>1, GiveAwaySafe
    <2>5. \A h \in Heads : Members(h)' = Members(h) /\ Count(h)' = Count(h)
      BY <2>1, <2>2, <2>4, MembersKept
    <2> QED BY <2>1, <2>4, <2>5, ListsKept
  <1> QED BY <1>1, <1>2

(* exit keeps the invariant.                                               *)
LEMMA ExitSafe ==
  ASSUME TypeOK, TypeOK', ProcInv, ListsExact, run[current] = "user", Exit
  PROVE  ProcInv' /\ ListsExact'
  <1> DEFINE st == [state EXCEPT ![current] = "dead"]
  <1>1. /\ GiveAway(st, sleepTime, "exit", 0)
        /\ UNCHANGED <<semState, semValue, devValue, listVars, wild>>
    BY DEF Exit, semVars
  <1>2. /\ current # 0 /\ current \in Procs /\ state[current] = "running"
        /\ devValue \in {-1, 0}
    BY UserRuns DEF Places
  <1>3. /\ st \in [Procs -> States] /\ sleepTime \in [Procs -> Nat \cup {-1}]
        /\ st[current] = "dead" /\ \A p \in Procs \ {current} : st[p] = state[p]
        /\ "exit" \in Places /\ 0 \in Nat
    BY <1>2 DEF TypeOK, States, Places
  <1> HIDE DEF st
  <1>4. /\ ProcInv'
        /\ run'[current] = "exit"
        /\ \A p \in Procs \ {current} :
             /\ run'[p] = run[p] /\ local'[p] = local[p]
             /\ run[p] \in {"semwait", "read"} =>
                  (state'[p] = "blocked" <=> state[p] = "blocked")
    <2> HIDE DEF GiveAway, ProcInv, TypeOK
    <2> QED BY <1>1, <1>2, <1>3, GiveAwaySafe
  <1>5. \A h \in Heads : Members(h)' = Members(h) /\ Count(h)' = Count(h)
    BY <1>1, <1>2, <1>4, MembersKept
  <1> QED BY <1>1, <1>4, <1>5, ListsKept

(* sem_wait keeps the invariant, whether it blocks or not.                 *)
LEMMA SemWaitSafe ==
  ASSUME TypeOK, TypeOK', ProcInv, ListsExact, run[current] = "user",
         NEW s \in Sems, InUse(s), SemWait(s)
  PROVE  ProcInv' /\ ListsExact'
  <1> DEFINE h == SemNode(s)
  <1>1. /\ h \in Heads /\ h # StdInNode /\ h - NProc = s
        /\ semValue \in [Sems -> Int]
        /\ semValue' = [semValue EXCEPT ![s] = @ - 1]
        /\ UNCHANGED <<semState, devValue>> /\ semState[s] = 1
    <2>1. (NProc + s) - NProc = s
      BY Constants DEF Sems
    <2> QED BY <2>1, HeadPlaces DEF TypeOK, SemWait, InUse, SemNode
  <1>2. /\ current # 0 /\ current \in Procs /\ state[current] = "running"
        /\ devValue \in {-1, 0}
    BY UserRuns DEF Places
  <1>3. \A g \in Heads \ {h} : Count(g)' = Count(g)
    <2> SUFFICES ASSUME NEW g \in Heads \ {h}, g # StdInNode
                 PROVE  semValue'[g - NProc] = semValue[g - NProc]
      BY <1>1 DEF Count, StdInNode
    <2>1. g - NProc \in Sems /\ g = SemNode(g - NProc)
      BY HeadPlaces
    <2>2. g - NProc # s
      BY <2>1
    <2> QED BY <2>1, <2>2, <1>1
  <1>4. CASE semValue[s] - 1 < 0
    <2> DEFINE sl == [sleepTime EXCEPT ![current] = -1]
    <2>1. /\ GiveAway(Blocked(current), sl, "semwait", s)
          /\ EnqueueCurrent(h) /\ wild' = wild
      BY <1>4 DEF SemWait
    <2>2. /\ Blocked(current) \in [Procs -> States]
          /\ sl \in [Procs -> Nat \cup {-1}]
          /\ Blocked(current)[current] = "blocked" /\ sl[current] = -1
          /\ \A p \in Procs \ {current} : /\ Blocked(current)[p] = state[p]
                                          /\ sl[p] = sleepTime[p]
      BY <1>2, BlockedType
    <2> HIDE DEF sl
    <2>3. /\ ProcInv'
          /\ run'[current] = "semwait" /\ local'[current] = s
          /\ state'[current] = "blocked"
          /\ \A p \in Procs \ {current} :
               /\ run'[p] = run[p] /\ local'[p] = local[p]
               /\ run[p] \in {"semwait", "read"} =>
                    (state'[p] = "blocked" <=> state[p] = "blocked")
      <3>1. "semwait" \in Places /\ s \in Nat
        BY DEF Places, Sems
      <3>2. \/ /\ "semwait" = "semwait" /\ Blocked(current)[current] = "blocked"
               /\ sl[current] = -1 /\ s \in Sems /\ semState[s] = 1
        BY <1>1, <2>2
      <3> HIDE DEF GiveAway, ProcInv, TypeOK
      <3> QED BY <1>1, <1>2, <2>1, <2>2, <3>1, <3>2, GiveAwaySafe
    <2>4. Members(h)' = Members(h) \cup {current}
      BY <1>1, <1>2, <2>3 DEF Members, StdInNode, SemNode
    <2>5. \A g \in Heads \ {h} : Members(g)' = Members(g)
      <3> SUFFICES ASSUME NEW g \in Heads \ {h} PROVE Members(g)' = Members(g)
        OBVIOUS
      <3>1. g # StdInNode => g - NProc # s
        BY HeadPlaces
      <3> QED BY <3>1, <1>2, <2>3 DEF Members, StdInNode
    <2>6. Count(h)' = Count(h) + 1
      <3>1. semValue'[s] = semValue[s] - 1 /\ semValue[s] \in Int
        BY <1>1
      <3>2. Count(h) = Deficit(semValue[s]) /\ Count(h)' = Deficit(semValue'[s])
        BY <1>1 DEF Count, StdInNode
      <3>3. semValue[s] <= 0 /\ semValue'[s] < 0 /\ semValue'[s] \in Int
        BY <3>1, <1>4
      <3>4. Deficit(semValue'[s]) = 1 - semValue[s]
        BY <3>1, <3>3, DeficitValue
      <3>5. Deficit(semValue[s]) = 0 - semValue[s]
        BY <3>1, <3>3, DeficitValue
      <3>6. 1 - semValue[s] = (0 - semValue[s]) + 1
        BY <3>1
      <3> HIDE DEF h
      <3> QED BY <3>2, <3>4, <3>5, <3>6
    <2>7. ListsExact'
      BY <1>1, <1>2, <1>3, <2>1, <2>4, <2>5, <2>6, ListsEnqueued
    <2> QED BY <2>3, <2>7
  <1>5. CASE ~(semValue[s] - 1 < 0)
    <2>1. WakeNobody /\ ReturnAtOnce
      BY <1>5 DEF SemWait
    <2>2. /\ run' = run /\ local' = local /\ current' = current
          /\ stackTop' = stackTop
          /\ \A p \in Procs \ {current} : prevStackTop'[p] = prevStackTop[p]
          /\ UNCHANGED <<state, sleepTime, wild, listVars, semState>>
      BY <1>1, <2>1 DEF ReturnAtOnce, goVars, PrevOnEntry, TypeOK, WakeNobody
    <2>3. \A p \in Procs : run[p] = "semwait" /\ state[p] = "blocked" =>
            semState'[local[p]] = 1
      BY <2>2 DEF ProcInv, BlockedHasWaker
    <2>4. ProcInv'
      BY <1>1, <2>2, <2>3, GoOnSafe
    <2>5. Count(h)' = Count(h)
      BY <1>1, <1>5 DEF Count, Deficit, StdInNode, SemNode
    <2>6. \A g \in Heads : Members(g)' = Members(g)
      BY <2>2 DEF Members, StdInNode
    <2>7. ListsExact'
      BY <1>3, <2>2, <2>5, <2>6, ListsKept
    <2> QED BY <2>4, <2>7
  <1> QED BY <1>4, <1>5

(* A read of stdin keeps the invariant: one process waits, the others      *)
(* return.                                                                 *)
LEMMA ReadSafe ==
  ASSUME TypeOK, TypeOK', ProcInv, ListsExact, run[current] = "user", ReadStdIn
  PROVE  ProcInv' /\ ListsExact'
  <1>1. CASE devValue # 0
    BY <1>1, PlainSafe DEF ReadStdIn, PlainCall
  <1>2. CASE devValue = 0
    <2> DEFINE sl == [sleepTime EXCEPT ![current] = -1]
               h == StdInNode
    <2>1. /\ GiveAway(Blocked(current), sl, "read", 0)
          /\ EnqueueCurrent(h) /\ devValue' = -1
          /\ UNCHANGED <<semState, semValue, wild>>
      BY <1>2 DEF ReadStdIn, semVars
    <2>2. /\ current # 0 /\ current \in Procs /\ state[current] = "running"
          /\ h \in Heads
      BY UserRuns, HeadPlaces DEF Places
    <2>3. /\ Blocked(current) \in [Procs -> States]
          /\ sl \in [Procs -> Nat \cup {-1}]
          /\ Blocked(current)[current] = "blocked" /\ sl[current] = -1
          /\ \A p \in Procs \ {current} : /\ Blocked(current)[p] = state[p]
                                          /\ sl[p] = sleepTime[p]
      BY <2>2, BlockedType
    <2> HIDE DEF sl
    <2>4. /\ ProcInv'
          /\ run'[current] = "read" /\ state'[current] = "blocked"
          /\ \A p \in Procs \ {current} :
               /\ run'[p] = run[p] /\ local'[p] = local[p]
               /\ run[p] \in {"semwait", "read"} =>
                    (state'[p] = "blocked" <=> state[p] = "blocked")
      <3>1. "read" \in Places /\ 0 \in Nat
        BY DEF Places
      <3>2. /\ "read" = "read" /\ Blocked(current)[current] = "blocked"
            /\ sl[current] = -1 /\ devValue' = -1
        BY <2>1, <2>3
      <3> HIDE DEF GiveAway, ProcInv, TypeOK
      <3> QED BY <2>1, <2>2, <2>3, <3>1, <3>2, GiveAwaySafe
    <2>5. Members(h)' = Members(h) \cup {current}
      BY <2>2, <2>4 DEF Members, StdInNode
    <2>6. \A g \in Heads \ {h} : Members(g)' = Members(g) /\ Count(g)' = Count(g)
      BY <2>1, <2>2, <2>4 DEF Members, Count, StdInNode
    <2>7. Count(h)' = Count(h) + 1
      <3>1. Count(h) = Deficit(devValue) /\ Count(h)' = Deficit(devValue')
        BY DEF Count, StdInNode
      <3>2. Deficit(devValue) = 0 /\ Deficit(devValue') = 1
        BY <1>2, <2>1, DeficitValue
      <3> QED BY <3>1, <3>2
    <2>8. ListsExact'
      BY <2>1, <2>2, <2>5, <2>6, <2>7, ListsEnqueued
    <2> QED BY <2>4, <2>8
  <1> QED BY <1>1, <1>2

(* sem_post keeps the invariant: it wakes a process exactly when the list  *)
(* has one.                                                                *)
LEMMA SemPostSafe ==
  ASSUME TypeOK, TypeOK', ProcInv, ListsExact, NEW s \in Sems, SemPost(s)
  PROVE  ProcInv' /\ ListsExact'
  <1> DEFINE h == SemNode(s)
  <1>1. /\ h \in Heads /\ h # StdInNode /\ h - NProc = s
        /\ semValue \in [Sems -> Int] /\ semValue[s] \in Int
        /\ semValue' = [semValue EXCEPT ![s] = @ + 1]
        /\ UNCHANGED <<semState, devValue>> /\ ReturnAtOnce
    <2>1. (NProc + s) - NProc = s
      BY Constants DEF Sems
    <2> QED BY <2>1, HeadPlaces DEF TypeOK, SemPost, SemNode
  <1>2. \A g \in Heads \ {h} : Count(g)' = Count(g)
    <2> SUFFICES ASSUME NEW g \in Heads \ {h}, g # StdInNode
                 PROVE  semValue'[g - NProc] = semValue[g - NProc]
      BY <1>1 DEF Count, StdInNode
    <2>1. g - NProc \in Sems /\ g = SemNode(g - NProc)
      BY HeadPlaces
    <2>2. g - NProc # s
      BY <2>1
    <2> QED BY <2>1, <2>2, <1>1
  <1>3. /\ semValue'[s] = semValue[s] + 1
        /\ Count(h) = Deficit(semValue[s]) /\ Count(h)' = Deficit(semValue'[s])
    BY <1>1 DEF Count, StdInNode
  <1>4. CASE semValue[s] + 1 <= 0
    <2>1. WakeOldest(h)
      BY <1>4 DEF SemPost
    <2>2. Count(h) > 0 /\ Count(h)' = Count(h) - 1
      BY <1>1, <1>3, <1>4 DEF Deficit
    <2>3. devValue' = devValue /\ devValue' \in {-1, 0} /\ UNCHANGED semState
      BY <1>1 DEF ProcInv, WaitPlaces
    <2>4. /\ ProcInv' /\ prev[h] \in Members(h)
          /\ \A g \in Heads : Members(g)' = Members(g) \ {prev[h]}
      BY <1>1, <2>1, <2>2, <2>3, WakeSafe
    <2>5. \A g \in Heads \ {h} : Members(g)' = Members(g)
      <3> SUFFICES ASSUME NEW g \in Heads \ {h} PROVE Members(g)' = Members(g)
        OBVIOUS
      <3>1. prev[h] \notin Members(g)
        BY <1>1, <2>4, MembersApart
      <3> QED BY <2>4, <3>1
    <2>6. ListsExact'
      BY <1>1, <1>2, <2>1, <2>2, <2>4, <2>5, ListsDequeued
    <2> QED BY <2>4, <2>6
  <1>5. CASE ~(semValue[s] + 1 <= 0)
    <2>1. WakeNobody
      BY <1>5 DEF SemPost
    <2>2. /\ run' = run /\ local' = local /\ current' = current
          /\ stackTop' = stackTop
          /\ \A p \in Procs \ {current} : prevStackTop'[p] = prevStackTop[p]
          /\ UNCHANGED <<state, sleepTime, wild, listVars, semState, devValue>>
      BY <1>1, <2>1 DEF ReturnAtOnce, goVars, PrevOnEntry, TypeOK, WakeNobody
    <2>3. \A p \in Procs : run[p] = "semwait" /\ state[p] = "blocked" =>
            semState'[local[p]] = 1
      BY <2>2 DEF ProcInv, BlockedHasWaker
    <2>4. ProcInv'
      BY <2>2, <2>3, GoOnSafe
    <2>5. Count(h)' = Count(h)
      BY <1>1, <1>3, <1>5 DEF Deficit
    <2>6. \A g \in Heads : Members(g)' = Members(g)
      BY <2>2 DEF Members, StdInNode
    <2>7. ListsExact'
      BY <1>2, <2>2, <2>5, <2>6, ListsKept
    <2> QED BY <2>4, <2>7
  <1> QED BY <1>4, <1>5

(* The keyboard interrupt keeps the invariant: it wakes the reader if      *)
(* there is one.                                                           *)
LEMMA KeyboardSafe ==
  ASSUME TypeOK, TypeOK', ProcInv, ListsExact, KeyboardIrq
  PROVE  ProcInv' /\ ListsExact'
  <1> DEFINE h == StdInNode
  <1>1. h \in Heads /\ ReturnAtOnce /\ UNCHANGED <<semState, semValue>>
    BY HeadPlaces DEF KeyboardIrq, semVars
  <1>2. devValue \in {-1, 0}
    BY DEF ProcInv, WaitPlaces
  <1>3. \A g \in Heads \ {h} : Count(g)' = Count(g)
    BY <1>1 DEF Count, StdInNode
  <1>4. CASE devValue < 0
    <2>1. devValue = -1 /\ devValue' = 0 /\ WakeOldest(h)
      BY <1>2, <1>4 DEF KeyboardIrq
    <2>2. Count(h) = 1 /\ Count(h)' = 0
      <3>1. Count(h) = Deficit(devValue) /\ Count(h)' = Deficit(devValue')
        BY DEF Count, StdInNode
      <3>2. Deficit(devValue) = 1 /\ Deficit(devValue') = 0
        BY <2>1, DeficitValue
      <3> QED BY <3>1, <3>2
    <2>3. prev[h] \in Members(h) /\ Members(h) = {prev[h]}
      <3>1. IsListOf(next, prev, h, Members(h), 1) /\ h \notin Members(h)
        BY <1>1, <2>2, HeadPlaces DEF ListsExact, Members
      <3>2. prev[h] \in Members(h)
        BY <3>1, ListEnds
      <3>3. PICK q \in [1 .. 1 -> Members(h)] : EachOnce(q, Members(h), 1)
        BY <3>1 DEF IsListOf
      <3>4. \A m \in Members(h) : m = q[1]
        BY <3>3 DEF EachOnce
      <3> QED BY <3>2, <3>4
    <2>4. Members(h)' = {}
      <3>1. prev[h] \in Procs /\ state' = [state EXCEPT ![prev[h]] = "runnable"]
        BY <2>1, <2>3 DEF WakeOldest, Members
      <3>2. run' = run
        BY <1>1 DEF ReturnAtOnce, goVars
      <3>3. \A p \in Procs : p # prev[h] => ~(state[p] = "blocked" /\ run[p] = "read")
        BY <2>3 DEF Members
      <3> QED BY <3>1, <3>2, <3>3 DEF Members, StdInNode, TypeOK
    <2>5. /\ ProcInv'
          /\ \A g \in Heads : Members(g)' = Members(g) \ {prev[h]}
      <3>1. devValue' \in {-1, 0} /\ Count(h) > 0
        BY <2>1, <2>2
      <3> QED BY <1>1, <2>1, <2>4, <3>1, WakeSafe
    <2>6. \A g \in Heads \ {h} : Members(g)' = Members(g)
      BY <1>1, <2>3, <2>5, MembersApart
    <2>7. Count(h) > 0 /\ Count(h)' = Count(h) - 1
      BY <2>2
    <2>8. ListsExact'
      BY <1>1, <1>3, <2>1, <2>5, <2>6, <2>7, ListsDequeued
    <2> QED BY <2>5, <2>8
  <1>5. CASE ~(devValue < 0)
    BY <1>1, <1>5, PlainSafe DEF KeyboardIrq, semVars
  <1> QED BY <1>4, <1>5

(* A semaphore is taken into use, or given back, while nobody waits for it.*)
LEMMA IdleSemSafe ==
  ASSUME TypeOK, ProcInv, ListsExact, NEW s \in Sems, NEW v \in {0, 1},
         \A p \in Procs : state[p] = "blocked" /\ run[p] = "semwait"
                          => local[p] # s,
         semState' = [semState EXCEPT ![s] = v],
         semValue'[s] \in Int, semValue'[s] >= 0,
         \A t \in Sems \ {s} : semValue'[t] = semValue[t],
         next' = SelfLinked(next, SemNode(s)),
         prev' = SelfLinked(prev, SemNode(s)),
         ReturnAtOnce,
         UNCHANGED <<state, sleepTime, devValue, wild>>
  PROVE  ProcInv' /\ ListsExact'
  <1> DEFINE h == SemNode(s)
  <1>1. h \in Heads /\ h # StdInNode /\ h - NProc = s
    <2>1. (NProc + s) - NProc = s
      BY Constants DEF Sems
    <2> QED BY <2>1, HeadPlaces DEF SemNode
  <1>2. /\ run' = run /\ local' = local /\ current' = current
        /\ stackTop' = stackTop
        /\ \A p \in Procs \ {current} : prevStackTop'[p] = prevStackTop[p]
    BY DEF ReturnAtOnce, goVars, PrevOnEntry, TypeOK
  <1>3. \A p \in Procs : run[p] = "semwait" /\ state[p] = "blocked" =>
          semState'[local[p]] = 1
    <2> SUFFICES ASSUME NEW p \in Procs, run[p] = "semwait", state[p] = "blocked"
                 PROVE  semState'[local[p]] = 1
      OBVIOUS
    <2>1. semState[local[p]] = 1 /\ local[p] \in Sems
      BY DEF ProcInv, BlockedHasWaker, WaitPlaces
    <2> QED BY <2>1 DEF TypeOK
  <1>4. ProcInv'
    BY <1>2, <1>3, GoOnSafe
  <1>5. Members(h)' = {}
    BY <1>1, <1>2 DEF Members
  <1>6. Count(h)' = 0
    <2>1. Count(h)' = Deficit(semValue'[s])
      BY <1>1 DEF Count, StdInNode
    <2> QED BY <2>1, DeficitValue
  <1>7. \A g \in Heads \ {h} : Members(g)' = Members(g) /\ Count(g)' = Count(g)
    <2> SUFFICES ASSUME NEW g \in Heads \ {h}
                 PROVE  Members(g)' = Members(g) /\ Count(g)' = Count(g)
      OBVIOUS
    <2>1. Members(g)' = Members(g)
      BY <1>2 DEF Members, StdInNode
    <2>2. CASE g = StdInNode
      BY <2>1, <2>2 DEF Count, StdInNode
    <2>3. CASE g # StdInNode
      <3>1. g - NProc \in Sems /\ g = SemNode(g - NProc)
        BY <2>3, HeadPlaces
      <3>2. g - NProc # s
        BY <3>1
      <3>3. semValue'[g - NProc] = semValue[g - NProc]
        BY <3>1, <3>2
      <3> QED BY <2>1, <2>3, <3>3 DEF Count, StdInNode
    <2> QED BY <2>2, <2>3
  <1>8. ListsExact'
    BY <1>1, <1>5, <1>6, <1>7, ListsReset
  <1> QED BY <1>4, <1>8

(* sem_init keeps the invariant: nobody waits in the list it resets.       *)
LEMMA SemInitSafe ==
  ASSUME TypeOK, ProcInv, ListsExact, NEW v \in Nat, SemInit(v)
  PROVE  ProcInv' /\ ListsExact'
  <1>1. CASE \A s \in Sems : semState[s] # 0
    BY <1>1, PlainSafe DEF SemInit, PlainCall
  <1>2. CASE ~ \A s \in Sems : semState[s] # 0
    <2>1. PICK s \in Sems :
            /\ semState[s] = 0
            /\ semState' = [semState EXCEPT ![s] = 1]
            /\ semValue' = [semValue EXCEPT ![s] = v]
            /\ next' = SelfLinked(next, SemNode(s))
            /\ prev' = SelfLinked(prev, SemNode(s))
            /\ ReturnAtOnce
            /\ UNCHANGED <<state, sleepTime, devValue, wild>>
      BY <1>2 DEF SemInit
    <2>2. \A p \in Procs : state[p] = "blocked" /\ run[p] = "semwait"
                           => local[p] # s
      BY <2>1 DEF ProcInv, BlockedHasWaker
    <2>3. semValue'[s] \in Int /\ semValue'[s] >= 0
      BY <2>1 DEF TypeOK
    <2>4. \A t \in Sems \ {s} : semValue'[t] = semValue[t]
      BY <2>1 DEF TypeOK
    <2> QED BY <2>1, <2>2, <2>3, <2>4, IdleSemSafe
  <1> QED BY <1>1, <1>2

(* sem_destroy keeps the invariant when nobody waits for the semaphore.    *)
LEMMA SemDestroySafe ==
  ASSUME TypeOK, ProcInv, ListsExact, NEW s \in Sems, semValue[s] >= 0,
         SemDestroy(s)
  PROVE  ProcInv' /\ ListsExact'
  <1> DEFINE h == SemNode(s)
  <1>1. h \in Heads /\ h # StdInNode /\ h - NProc = s
    <2>1. (NProc + s) - NProc = s
      BY Constants DEF Sems
    <2> QED BY <2>1, HeadPlaces DEF SemNode
  <1>2. semValue[s] \in Int
    BY DEF TypeOK
  <1>3. Count(h) = 0
    <2>1. Count(h) = Deficit(semValue[s])
      BY <1>1 DEF Count
    <2> QED BY <2>1, <1>2, DeficitValue
  <1>4. Members(h) = {}
    <2>1. IsListOf(next, prev, h, Members(h), 0) /\ h \notin Members(h)
      BY <1>1, <1>3, HeadPlaces DEF ListsExact, Members
    <2> QED BY <2>1, ListEnds
  <1>5. \A p \in Procs : state[p] = "blocked" /\ run[p] = "semwait"
                         => local[p] # s
    BY <1>1, <1>4 DEF Members
  <1> QED BY <1>2, <1>5, IdleSemSafe DEF SemDestroy

(* The first half of fork keeps the invariant: the PCB found is dead, and  *)
(* reserved.                                                               *)
LEMMA ForkBeginSafe ==
  ASSUME TypeOK, ProcInv, ListsExact, run[current] = "user",
         current \in Forkers, ForkBegin
  PROVE  ProcInv' /\ ListsExact'
  <1>1. CASE \A p \in Procs : state[p] # "dead"
    BY <1>1, PlainSafe DEF ForkBegin, PlainCall
  <1>2. CASE ~ \A p \in Procs : state[p] # "dead"
    <2>1. PICK i \in Procs :
            /\ state[i] = "dead"
            /\ local' = [local EXCEPT ![current] = i]
      BY <1>2 DEF ForkBegin, FirstDead
    <2>2. /\ run' = [run EXCEPT ![current] = "fork"]
          /\ stackTop' = [stackTop EXCEPT ![current] = 1]
          /\ prevStackTop' = PrevOnEntry
          /\ UNCHANGED <<state, sleepTime, current, semState, semValue,
                         devValue, listVars, wild>>
      BY <1>2 DEF ForkBegin, semVars
    <2>3. /\ current # 0 /\ current \in Procs /\ state[current] = "running"
      BY UserRuns DEF Places
    <2>4. /\ run'[current] = "fork" /\ local'[current] = i
          /\ stackTop'[current] = 1
          /\ \A p \in Procs \ {current} :
               /\ run'[p] = run[p] /\ local'[p] = local[p]
               /\ stackTop'[p] = stackTop[p] /\ prevStackTop'[p] = prevStackTop[p]
      BY <2>1, <2>2, <2>3 DEF TypeOK, PrevOnEntry
    <2>5. OneRunning'
      BY <2>2, <2>3, <2>4 DEF ProcInv, OneRunning
    <2>6. FramesResumable'
      BY <2>2, <2>3, <2>4 DEF ProcInv, FramesResumable
    <2>7. BlockedHasWaker'
      BY <2>2, <2>3, <2>4 DEF ProcInv, BlockedHasWaker
    <2>8. NoWildWakeup' /\ WaitPlaces'
      BY <2>2, <2>3, <2>4 DEF ProcInv, NoWildWakeup, WaitPlaces
    <2>9. ForkSlotReserved'
      BY <2>1, <2>2, <2>3, <2>4 DEF ProcInv, ForkSlotReserved
    <2>10. ProcInv'
      BY <2>5, <2>6, <2>7, <2>8, <2>9 DEF ProcInv
    <2>11. \A h \in Heads : Members(h)' = Members(h) /\ Count(h)' = Count(h)
      BY <2>2, <2>3, <2>4, MembersKept
    <2> QED BY <2>2, <2>10, <2>11, ListsKept
  <1> QED BY <1>1, <1>2

(* Only process 1 forks, so nobody else has chosen the same dead PCB.      *)
LEMMA ForkEndSafe ==
  ASSUME TypeOK, ProcInv, ListsExact, Forkers \subseteq {1}, ForkEnd
  PROVE  ProcInv' /\ ListsExact'
  <1> DEFINE i == local[current]
  <1>1. /\ run[current] = "fork" /\ current \in Procs
        /\ state[current] = "running" /\ current # 0
        /\ i \in Procs /\ state[i] = "dead" /\ i # current /\ i # 0
    <2>1. run[current] = "fork" /\ current \in Procs
      BY DEF ForkEnd, TypeOK
    <2>2. state[current] = "running" /\ current # 0
      BY <2>1 DEF ProcInv, OneRunning
    <2>3. i \in Procs /\ state[i] = "dead"
      BY <2>1 DEF ProcInv, ForkSlotReserved
    <2>4. i # 0
      BY <2>3 DEF ProcInv, OneRunning
    <2> QED BY <2>1, <2>2, <2>3, <2>4
  <1>2. stackTop[current] = 1 /\ prevStackTop[current] \in 0 .. 2
    BY <1>1 DEF ProcInv, FramesResumable, Depth, TypeOK
  <1>3. /\ state' = [state EXCEPT ![i] = "runnable"]
        /\ sleepTime' = [sleepTime EXCEPT ![i] = sleepTime[current]]
        /\ stackTop'[i] = 1
        /\ run'[i] = "user" /\ run'[current] = "user"
        /\ \A p \in Procs \ {i, current} :
             /\ run'[p] = run[p] /\ local'[p] = local[p]
             /\ stackTop'[p] = stackTop[p] /\ prevStackTop'[p] = prevStackTop[p]
        /\ UNCHANGED <<current, semState, semValue, devValue, listVars, wild>>
    BY <1>1, <1>2 DEF ForkEnd, TypeOK, semVars
  <1>4. \A p \in Procs : run[p] = "fork" => p = current
    BY <1>1 DEF ProcInv, ForkSlotReserved
  <1>5. OneRunning'
    BY <1>1, <1>3 DEF ProcInv, OneRunning, TypeOK
  <1>6. FramesResumable'
    BY <1>1, <1>3 DEF ProcInv, FramesResumable, TypeOK, Depth
  <1>7. BlockedHasWaker'
    BY <1>1, <1>3 DEF ProcInv, BlockedHasWaker, TypeOK
  <1>8. NoWildWakeup' /\ WaitPlaces'
    BY <1>1, <1>3 DEF ProcInv, NoWildWakeup, WaitPlaces
  <1>9. ForkSlotReserved'
    BY <1>1, <1>3, <1>4 DEF ProcInv, ForkSlotReserved
  <1>10. ProcInv'
    BY <1>5, <1>6, <1>7, <1>8, <1>9 DEF ProcInv
  <1>11. \A p \in Procs : p # i => state'[p] = state[p]
    BY <1>1, <1>3 DEF TypeOK
  <1>12. \A h \in Heads : Members(h)' = Members(h) /\ Count(h)' = Count(h)
    BY <1>1, <1>3, <1>11, MembersKept
  <1> QED BY <1>3, <1>10, <1>12, ListsKept

(* A process that goes on after it was switched to keeps the invariant.    *)
LEMMA ResumeSafe ==
  ASSUME TypeOK, ProcInv, ListsExact, Resume
  PROVE  ProcInv' /\ ListsExact'
  <1>1. /\ ReturnFromCall /\ run[current] \in Places \ {"idle"}
        /\ UNCHANGED <<state, sleepTime, current, semState, semValue, devValue,
                       listVars, wild, prevStackTop>>
    BY DEF Resume, SleepReturn, SemWaitReturn, ReadReturn, Places, semVars
  <1>2. /\ current # 0 /\ current \in Procs /\ state[current] = "running"
    BY <1>1, UserRuns
  <1>3. /\ run'[current] = "user"
        /\ \A p \in Procs \ {current} :
             /\ run'[p] = run[p] /\ local'[p] = local[p]
             /\ stackTop'[p] = stackTop[p]
    BY <1>1, <1>2 DEF ReturnFromCall, TypeOK
  <1>4. \A p \in Procs : run[p] = "semwait" /\ state[p] = "blocked" =>
          semState'[local[p]] = 1
    BY <1>1 DEF ProcInv, BlockedHasWaker
  <1>5. ProcInv'
    BY <1>1, <1>2, <1>3, <1>4, GoOnSafe
  <1>6. \A h \in Heads : Members(h)' = Members(h) /\ Count(h)' = Count(h)
    BY <1>1, <1>2, <1>3, MembersKept
  <1> QED BY <1>1, <1>5, <1>6, ListsKept

-----------------------------------------------------------------------------
(* The inductive invariant.                                                *)
Inductive == TypeOK /\ ProcInv /\ ListsExact

(* The invariant holds initially.                                          *)
LEMMA InitSafe == Init => Inductive
  <1> SUFFICES ASSUME Init PROVE Inductive
    OBVIOUS
  <1>1. TypeOK
    BY InitType
  <1>2. OneRunning
    BY Constants DEF Init, OneRunning, Procs
  <1>3. FramesResumable
    BY Constants DEF Init, FramesResumable, Depth, Procs
  <1>4. BlockedHasWaker /\ NoWildWakeup /\ ForkSlotReserved /\ WaitPlaces
    BY DEF Init, BlockedHasWaker, NoWildWakeup, ForkSlotReserved, WaitPlaces
  <1>5. ProcInv
    BY <1>2, <1>3, <1>4 DEF ProcInv
  <1>6. ListsExact
    <2> SUFFICES ASSUME NEW h \in Heads
                 PROVE  IsListOf(next, prev, h, Members(h), Count(h))
      BY DEF ListsExact
    <2>1. next[h] = h /\ prev[h] = h
      BY HeadPlaces DEF Init
    <2>2. Members(h) = {}
      BY DEF Members, Init
    <2>3. Count(h) = 0
      BY HeadPlaces, DeficitValue DEF Count, Init
    <2> QED BY <2>1, <2>2, <2>3, EmptyList
  <1> QED BY <1>1, <1>5, <1>6 DEF Inductive

(* Every step of disciplined programs keeps the invariant.                 *)
LEMMA InductiveStep ==
  ASSUME Disciplined
  PROVE  Inductive /\ [Next]_vars => Inductive'
  <1> SUFFICES ASSUME Inductive, [Next]_vars PROVE Inductive'
    OBVIOUS
  <1>1. TypeOK /\ ProcInv /\ ListsExact
    BY DEF Inductive
  <1>2. TypeOK'
    BY <1>1, TypeStep
  <1>3. CASE UNCHANGED vars
    <2>1. UNCHANGED <<pcbVars, goVars, current, semVars, devValue, listVars, wild>>
      BY <1>3 DEF vars
    <2>2. /\ UNCHANGED <<state, sleepTime, stackTop, prevStackTop, run, local,
                         current, semState, semValue, devValue, listVars, wild>>
      BY <2>1 DEF pcbVars, goVars, semVars
    <2>3. \A p \in Procs : run[p] = "semwait" /\ state[p] = "blocked" =>
            semState'[local[p]] = 1
      BY <1>1, <2>2 DEF ProcInv, BlockedHasWaker
    <2>4. ProcInv'
      BY <1>1, <2>2, <2>3, GoOnSafe
    <2>5. \A h \in Heads : Members(h)' = Members(h) /\ Count(h)' = Count(h)
      BY <1>1, <2>2, MembersKept
    <2>6. ListsExact'
      BY <1>1, <2>2, <2>5, ListsKept
    <2> QED BY <1>2, <2>4, <2>6 DEF Inductive
  <1>4. CASE TimerIrq
    BY <1>1, <1>2, <1>4, TimerSafe DEF Inductive
  <1>5. CASE KeyboardIrq
    BY <1>1, <1>2, <1>5, KeyboardSafe DEF Inductive
  <1>6. CASE IllegalKeyIrq
    BY <1>1, <1>2, <1>6, PlainSafe DEF Inductive, IllegalKeyIrq
  <1>7. CASE ForkEnd
    BY <1>1, <1>2, <1>7, ForkEndSafe DEF Inductive, Disciplined
  <1>8. CASE Resume
    BY <1>1, <1>2, <1>8, ResumeSafe DEF Inductive
  <1>9. CASE UserStep
    <2>1. run[current] = "user"
      BY <1>9 DEF UserStep
    <2>2. CASE PlainCall
      BY <1>1, <1>2, <2>2, PlainSafe DEF Inductive, PlainCall
    <2>3. CASE Exit
      BY <1>1, <1>2, <2>1, <2>3, ExitSafe DEF Inductive
    <2>4. ASSUME NEW t \in SleepTimes, Sleep(t) PROVE Inductive'
      BY <1>1, <1>2, <2>1, <2>4, SleepSafe DEF Inductive
    <2>5. CASE current \in Forkers /\ ForkBegin
      BY <1>1, <1>2, <2>1, <2>5, ForkBeginSafe DEF Inductive
    <2>6. CASE current \in Readers /\ ReadStdIn
      BY <1>1, <1>2, <2>1, <2>6, ReadSafe DEF Inductive
    <2>7. ASSUME NEW v \in SemValues, SemInit(v) PROVE Inductive'
      <3>1. v \in Nat
        BY DEF Disciplined
      <3> QED BY <1>1, <1>2, <2>7, <3>1, SemInitSafe DEF Inductive
    <2>8. ASSUME NEW s \in Sems, InUse(s) /\ SemWait(s) PROVE Inductive'
      BY <1>1, <1>2, <2>1, <2>8, SemWaitSafe DEF Inductive
    <2>9. ASSUME NEW s \in Sems, SemPost(s) PROVE Inductive'
      BY <1>1, <1>2, <2>9, SemPostSafe DEF Inductive
    <2>10. ASSUME NEW s \in Sems, semValue[s] < 0 => DestroyBusy, SemDestroy(s)
           PROVE  Inductive'
      <3>1. semValue[s] \in Int /\ ~(semValue[s] < 0)
        BY <1>1, <2>10 DEF TypeOK, Disciplined
      <3>2. semValue[s] >= 0
        BY <3>1
      <3> QED BY <1>1, <1>2, <2>10, <3>2, SemDestroySafe DEF Inductive
    <2> QED
      BY <1>9, <2>2, <2>3, <2>4, <2>5, <2>6, <2>7, <2>8, <2>9, <2>10 DEF UserStep
  <1> QED BY <1>3, <1>4, <1>5, <1>6, <1>7, <1>8, <1>9 DEF Next

(* The inductive invariant is SafeInv, with the lists all of a kind.       *)
LEMMA InductiveIsSafe == Inductive <=> SafeInv
  BY ListsAlike DEF Inductive, ProcInv, SafeInv

(* Whatever disciplined programs do, in whatever order the interrupts come,*)
(* all the safety properties of the processes and their lists hold.        *)
THEOREM Safety ==
  ASSUME Disciplined
  PROVE  Spec => []SafeInv
  <1>1. Init => Inductive
    BY InitSafe
  <1>2. Inductive /\ [Next]_vars => Inductive'
    BY InductiveStep
  <1>3. Inductive => SafeInv
    BY InductiveIsSafe
  <1> QED
    BY <1>1, <1>2, <1>3, PTL DEF Spec

(* The list of every semaphore and of stdin is the processes that wait     *)
(* there, as many as the value says, with both pointers in agreement.      *)
THEOREM WaitLists ==
  ASSUME Disciplined
  PROVE  Spec => []WaitListsExact
  <1>1. SafeInv => WaitListsExact
    BY DEF SafeInv
  <1> QED
    BY <1>1, Safety, PTL

(* No V and no key ever takes a PCB from an empty list.                    *)
THEOREM NoWild ==
  ASSUME Disciplined
  PROVE  Spec => []NoWildWakeup
  <1>1. SafeInv => NoWildWakeup
    BY DEF SafeInv
  <1> QED
    BY <1>1, Safety, PTL

(* A suspended process is always resumed from its innermost frame.         *)
THEOREM Frames ==
  ASSUME Disciplined
  PROVE  Spec => []FramesResumable
  <1>1. SafeInv => FramesResumable
    BY DEF SafeInv
  <1> QED
    BY <1>1, Safety, PTL

(* A fork fills the PCB of a dead process, although it is preempted while  *)
(* it copies, as long as one process alone forks.                          *)
THEOREM ForkFills ==
  ASSUME Disciplined
  PROVE  Spec => ForkFillsDeadSlot
  <1>1. SafeInv => (ForkEnd => state[local[current]] = "dead")
    BY DEF SafeInv, TypeOK, ForkSlotReserved, ForkEnd
  <1>2. SafeInv /\ [Next]_vars
          => [ForkEnd => state[local[current]] = "dead"]_vars
    BY <1>1
  <1> QED
    BY <1>2, Safety, PTL DEF Spec, ForkFillsDeadSlot

-----------------------------------------------------------------------------
(* The scheduler.                                                          *)

(* One process runs, the current one: whatever the scheduler, the timer,   *)
(* the keyboard, exits and forks do (timerHandle, irqHandle.c:74).         *)
THEOREM OneRuns ==
  ASSUME Disciplined
  PROVE  Spec => []OneRunning
  <1>1. SafeInv => OneRunning
    BY DEF SafeInv
  <1> QED
    BY <1>1, Safety, PTL

(* Whoever is blocked is counted down, or waits for a semaphore in use, or *)
(* for the next key while the device says that somebody waits.             *)
THEOREM Wakers ==
  ASSUME Disciplined
  PROVE  Spec => []BlockedHasWaker
  <1>1. SafeInv => BlockedHasWaker
    BY DEF SafeInv
  <1> QED
    BY <1>1, Safety, PTL

-----------------------------------------------------------------------------
(* Turns and sleeps: what the fair properties of the scheduler rest on.    *)

(* A system call gives the processor away ...                              *)
GivesAway ==
  \E st \in [Procs -> States], sl \in [Procs -> Nat \cup {-1}],
     r \in Places, l \in Nat :
    /\ GiveAway(st, sl, r, l) /\ current # 0
    /\ st[current] \in {"blocked", "dead"}
    /\ \A p \in Procs \ {current} : st[p] = state[p] /\ sl[p] = sleepTime[p]

(* ... or the current process goes on, with whatever time it has used; the *)
(* others may be woken, and are not counted down.                          *)
GoesOn ==
  /\ current' = current /\ timeCount'[current] = timeCount[current]
  /\ \A p \in Procs \ {current} :
       /\ state[p] = "runnable" => state'[p] = "runnable"
       /\ state[p] = "blocked" /\ state'[p] = "blocked" =>
            sleepTime'[p] = sleepTime[p]

(* A V or a key that wakes somebody keeps the others as they are.          *)
LEMMA WakeGoesOn ==
  ASSUME TypeOK, NEW h \in Nodes, WakeOldest(h) \/ WakeNobody, ReturnAtOnce
  PROVE  GoesOn
  <1>1. current' = current /\ timeCount' = timeCount
    BY DEF ReturnAtOnce
  <1>2. CASE WakeNobody
    BY <1>1, <1>2 DEF WakeNobody, GoesOn
  <1>3. CASE WakeOldest(h) /\ prev[h] \in Procs
    <2>1. /\ state' = [state EXCEPT ![prev[h]] = "runnable"]
          /\ sleepTime' = [sleepTime EXCEPT ![prev[h]] = 0]
      BY <1>3 DEF WakeOldest
    <2> QED BY <1>1, <2>1 DEF GoesOn, TypeOK
  <1>4. CASE WakeOldest(h) /\ prev[h] \notin Procs
    BY <1>1, <1>4 DEF WakeOldest, GoesOn
  <1> QED BY <1>2, <1>3, <1>4

(* Every step but the timer's is of one of the two kinds.                  *)
LEMMA StepKinds ==
  ASSUME Disciplined, Inductive, Next, ~TimerIrq
  PROVE  GivesAway \/ GoesOn
  <1> USE DEF Inductive
  <1>1. CASE KeyboardIrq \/ IllegalKeyIrq \/ (\E s \in Sems : SemPost(s))
    <2>1. PICK h \in Nodes : (WakeOldest(h) \/ WakeNobody) /\ ReturnAtOnce
      BY <1>1, NodePlaces DEF KeyboardIrq, IllegalKeyIrq, SemPost
    <2> QED BY <2>1, WakeGoesOn
  <1>2. ASSUME PlainCall \/ (\E v \in SemValues : SemInit(v))
                 \/ (\E s \in Sems : SemDestroy(s))
        PROVE  GoesOn
    <2>1. UNCHANGED <<current, timeCount, state, sleepTime>>
      BY <1>2 DEF PlainCall, SemInit, SemDestroy, ReturnAtOnce, WakeNobody
    <2> QED BY <2>1 DEF GoesOn
  <1>3. CASE Resume
    <2>1. UNCHANGED <<current, timeCount, state, sleepTime>>
      BY <1>3 DEF Resume, SleepReturn, SemWaitReturn, ReadReturn
    <2> QED BY <2>1 DEF GoesOn
  <1>4. CASE ForkEnd
    <2> DEFINE i == local[current]
    <2>1. /\ state[i] = "dead" /\ i # current /\ i \in Procs
          /\ current' = current
          /\ state' = [state EXCEPT ![i] = "runnable"]
          /\ timeCount' = [timeCount EXCEPT ![i] = timeCount[current]]
          /\ sleepTime' = [sleepTime EXCEPT ![i] = sleepTime[current]]
      BY <1>4 DEF ForkEnd, ProcInv, OneRunning, ForkSlotReserved, TypeOK
    <2> QED BY <2>1 DEF GoesOn, TypeOK
  <1>5. CASE UserStep
    <2>0. current # 0
      BY <1>5, UserRuns DEF UserStep, Places
    <2>1. ASSUME NEW t \in Nat \cup {-1}, NEW r \in Places, NEW l \in Nat,
                 GiveAway(Blocked(current), [sleepTime EXCEPT ![current] = t], r, l)
          PROVE  GivesAway
      BY <2>0, <2>1, BlockedType DEF GivesAway
    <2>2. CASE Exit
      <3> DEFINE st == [state EXCEPT ![current] = "dead"]
      <3>1. /\ st \in [Procs -> States] /\ st[current] = "dead"
            /\ \A p \in Procs \ {current} : st[p] = state[p]
            /\ sleepTime \in [Procs -> Nat \cup {-1}] /\ "exit" \in Places
        BY DEF TypeOK, States, Places
      <3>2. GiveAway(st, sleepTime, "exit", 0)
        BY <2>2 DEF Exit
      <3> HIDE DEF st, GiveAway
      <3> QED BY <2>0, <3>1, <3>2 DEF GivesAway
    <2>3. ASSUME NEW t \in SleepTimes, Sleep(t) PROVE GivesAway \/ GoesOn
      <3>1. CASE t = 0
        BY <1>2, <2>3, <3>1 DEF Sleep
      <3>2. CASE t # 0
        <4>1. GiveAway(Blocked(current), [sleepTime EXCEPT ![current] = t], "sleep", 0)
          BY <2>3, <3>2 DEF Sleep
        <4>2. t \in Nat \cup {-1} /\ "sleep" \in Places
          BY Constants DEF Places
        <4> QED BY <2>1, <4>1, <4>2
      <3> QED BY <3>1, <3>2
    <2>4. CASE ForkBegin
      <3>1. PlainCall \/ UNCHANGED <<state, timeCount, sleepTime, current>>
        BY <2>4 DEF ForkBegin
      <3> QED BY <1>2, <3>1 DEF GoesOn
    <2>5. CASE ReadStdIn
      <3>1. \/ PlainCall
            \/ GiveAway(Blocked(current), [sleepTime EXCEPT ![current] = -1], "read", 0)
        BY <2>5 DEF ReadStdIn
      <3>2. "read" \in Places
        BY DEF Places
      <3> QED BY <1>2, <2>1, <3>1, <3>2
    <2>6. ASSUME NEW s \in Sems, SemWait(s) PROVE GivesAway \/ GoesOn
      <3>1. \/ GiveAway(Blocked(current), [sleepTime EXCEPT ![current] = -1],
                        "semwait", s)
            \/ UNCHANGED <<current, timeCount, state, sleepTime>>
        BY <2>6 DEF SemWait, ReturnAtOnce, WakeNobody
      <3>2. "semwait" \in Places /\ s \in Nat
        BY DEF Places, Sems
      <3> QED BY <2>1, <3>1, <3>2 DEF GoesOn
    <2> QED BY <1>1, <1>2, <1>5, <2>2, <2>3, <2>4, <2>5, <2>6 DEF UserStep
  <1> QED BY <1>1, <1>3, <1>4, <1>5 DEF Next

(* How far it is from b to a, forward round a circle of N.                 *)
LEMMA RoundFrom ==
  ASSUME NEW N \in Nat, NEW a \in 0 .. N - 1, NEW b \in 0 .. N - 1
  PROVE  /\ a >= b => (a - b + N) % N = a - b
         /\ a < b => (a - b + N) % N = a - b + N
  <1>1. CASE a >= b
    <2>1. a - b \in 0 .. N - 1
      BY <1>1
    <2> QED BY <1>1, <2>1
  <1>2. CASE a < b
    <2>1. a - b + N \in 0 .. N - 1
      BY <1>2
    <2> QED BY <1>2, <2>1
  <1> QED BY <1>1, <1>2

(* A switch takes p, which is ready, or comes nearer to it.                *)
LEMMA SwitchNearer ==
  ASSUME TypeOK, TypeOK',
         NEW st \in [Procs -> States], NEW sl \in [Procs -> Nat \cup {-1}],
         NEW tc, NEW top, NEW ptop, SwitchTo(WakeUp(st, sl), tc, top, ptop),
         NEW p \in Procs \ {0, current}, st[p] = "runnable"
  PROVE  \/ current' = p
         \/ state'[p] = "runnable" /\ Distance(p)' < Distance(p)
  <1>1. PICK n \in Procs :
          /\ Selected(WakeUp(st, sl), n) /\ current' = n
          /\ state' = [WakeUp(st, sl) EXCEPT ![n] = "running"]
    BY DEF SwitchTo
  <1>2. WakeUp(st, sl)[p] = "runnable" /\ p \in Candidates(WakeUp(st, sl))
    BY DEF WakeUp, Candidates
  <1>3. n # current /\ Distance(n) <= Distance(p)
    BY <1>1, <1>2 DEF Selected, Candidates
  <1>4. CASE n # p
    <2>1. state'[p] = "runnable"
      BY <1>1, <1>2, <1>4 DEF WakeUp
    <2>2. /\ \A q \in Procs : q \in 0 .. NProc - 1
          /\ current \in Procs /\ NProc \in Nat
      BY Constants DEF TypeOK, Procs
    <2>3. /\ p >= n => Distance(p)' = p - n
          /\ p < n => Distance(p)' = p - n + NProc
          /\ p >= current => Distance(p) = p - current
          /\ p < current => Distance(p) = p - current + NProc
          /\ n >= current => Distance(n) = n - current
          /\ n < current => Distance(n) = n - current + NProc
      <3>1. Distance(p)' = (p - n + NProc) % NProc
        BY <1>1 DEF Distance
      <3> QED BY <2>2, <3>1, RoundFrom DEF Distance
    <2>4. /\ p \in Nat /\ n \in Nat /\ current \in Nat /\ NProc \in Nat
          /\ p < NProc /\ n < NProc /\ current < NProc
      BY Constants DEF TypeOK, Procs
    <2>5. Distance(p)' < Distance(p)
      <3> HIDE DEF Distance
      <3> QED BY <1>3, <1>4, <2>3, <2>4
    <2> QED BY <2>1, <2>5
  <1> QED BY <1>1, <1>4

(* A process that is ready: the step gives it the processor, or brings its *)
(* turn nearer, or leaves the current process on, at a tick with one tick  *)
(* less to go.                                                             *)
TurnNearer(p) ==
  \/ current' = p
  \/ /\ state'[p] = "runnable"
     /\ \/ Distance(p)' < Distance(p)
        \/ /\ current' = current
           /\ timeCount'[current] =
                IF TimerIrq THEN timeCount[current] + 1 ELSE timeCount[current]

(* Round robin passes nobody over: as a turn is finitely many processes    *)
(* away, and each has finitely many ticks, no ready process is left out of *)
(* more than so many ticks (timerHandle, irqHandle.c:74).                  *)
THEOREM RunnableNext ==
  ASSUME Disciplined
  PROVE  Spec => [][\A p \in Procs \ {0, current} :
                      state[p] = "runnable" => TurnNearer(p)]_vars
  <1>1. Inductive /\ Inductive' /\ [Next]_vars
          => [\A p \in Procs \ {0, current} :
                state[p] = "runnable" => TurnNearer(p)]_vars
    <2> SUFFICES ASSUME Inductive, Inductive', Next,
                        NEW p \in Procs \ {0, current}, state[p] = "runnable"
                 PROVE  TurnNearer(p)
      OBVIOUS
    <2>1. TypeOK /\ TypeOK'
      BY DEF Inductive
    <2>2. CASE TimerIrq /\ Tick
      <3>1. WakeUp(state, sleepTime)[p] = "runnable"
        BY DEF WakeUp
      <3> QED BY <2>1, <2>2, <3>1 DEF Tick, TurnNearer, TypeOK
    <2>3. CASE TimerIrq /\ Preempt
      <3> DEFINE st == [state EXCEPT ![current] = "runnable"]
      <3>1. st \in [Procs -> States] /\ st[p] = "runnable"
            /\ sleepTime \in [Procs -> Nat \cup {-1}]
        BY <2>1 DEF TypeOK, States
      <3>2. \E tc, top, ptop : SwitchTo(WakeUp(st, sleepTime), tc, top, ptop)
        BY <2>3 DEF Preempt
      <3> HIDE DEF st, SwitchTo
      <3> QED BY <2>1, <3>1, <3>2, SwitchNearer DEF TurnNearer
    <2>4. CASE ~TimerIrq /\ GivesAway
      <3>1. PICK st \in [Procs -> States], sl \in [Procs -> Nat \cup {-1}],
                 r \in Places, l \in Nat :
              GiveAway(st, sl, r, l) /\ st[p] = state[p]
        BY <2>4 DEF GivesAway
      <3>2. \E tc, top, ptop : SwitchTo(WakeUp(st, sl), tc, top, ptop)
        BY <3>1 DEF GiveAway
      <3> HIDE DEF SwitchTo
      <3> QED BY <2>1, <3>1, <3>2, SwitchNearer DEF TurnNearer
    <2>5. CASE ~TimerIrq /\ GoesOn
      BY <2>5 DEF GoesOn, TurnNearer
    <2>6. TimerIrq => Tick \/ Preempt
      BY DEF TimerIrq
    <2> QED BY <2>2, <2>3, <2>4, <2>5, <2>6, StepKinds
  <1>2. Inductive <=> SafeInv
    BY InductiveIsSafe
  <1> QED
    BY <1>1, <1>2, Safety, PTL DEF Spec

(* A sleeper is woken, or has one tick less to sleep after each run of the *)
(* timer's handler, whoever calls it, and as many after every other step.  *)
SleepGoesDown(p) ==
  state'[p] = "blocked" =>
    /\ sleepTime'[p] > 0
    /\ sleepTime'[p] = IF TimerIrq \/ current' # current
                       THEN sleepTime[p] - 1 ELSE sleepTime[p]

(* A switch counts everyone else down who sleeps.                          *)
LEMMA SwitchCounts ==
  ASSUME TypeOK, NEW p \in Procs \ {current},
         NEW st \in [Procs -> States], NEW sl \in [Procs -> Nat \cup {-1}],
         NEW tc, NEW top, NEW ptop, SwitchTo(WakeUp(st, sl), tc, top, ptop),
         st[p] = "blocked", sl[p] > 0, state'[p] = "blocked",
         sleepTime' = CountDown(st, sl)
  PROVE  sleepTime'[p] > 0 /\ sleepTime'[p] = sl[p] - 1
  <1>1. sleepTime'[p] = sl[p] - 1
    BY DEF CountDown, Sleeping
  <1>2. sl[p] # 1
    BY DEF SwitchTo, WakeUp, Sleeping, States
  <1>3. sl[p] \in Nat
    OBVIOUS
  <1> QED BY <1>1, <1>2, <1>3

(* Every sleep has an end in sight (timerHandle's first loop,              *)
(* irqHandle.c:78).                                                        *)
THEOREM SleepersNext ==
  ASSUME Disciplined
  PROVE  Spec => [][\A p \in Procs :
                      state[p] = "blocked" /\ run[p] = "sleep"
                        => SleepGoesDown(p)]_vars
  <1>1. Inductive /\ Inductive' /\ [Next]_vars
          => [\A p \in Procs : state[p] = "blocked" /\ run[p] = "sleep"
                                 => SleepGoesDown(p)]_vars
    <2> SUFFICES ASSUME Inductive, Inductive', Next, NEW p \in Procs,
                        state[p] = "blocked", run[p] = "sleep",
                        state'[p] = "blocked"
                 PROVE  /\ sleepTime'[p] > 0
                        /\ sleepTime'[p] = IF TimerIrq \/ current' # current
                                           THEN sleepTime[p] - 1 ELSE sleepTime[p]
      BY DEF SleepGoesDown
    <2>1. TypeOK /\ TypeOK' /\ p # current /\ sleepTime[p] > 0
      BY DEF Inductive, ProcInv, OneRunning, BlockedHasWaker
    <2>2. CASE TimerIrq /\ Tick
      <3>1. /\ sleepTime' = CountDown(state, sleepTime)
            /\ state' = WakeUp(state, sleepTime)
        BY <2>2 DEF TimerIrq, Tick
      <3>2. sleepTime'[p] = sleepTime[p] - 1 /\ sleepTime[p] # 1
        BY <2>1, <3>1 DEF CountDown, WakeUp, Sleeping
      <3>3. sleepTime[p] \in Nat
        BY <2>1 DEF TypeOK
      <3> QED BY <2>1, <2>2, <3>2, <3>3
    <2>3. CASE TimerIrq /\ Preempt
      <3> DEFINE st == [state EXCEPT ![current] = "runnable"]
      <3>1. /\ st \in [Procs -> States] /\ st[p] = "blocked"
            /\ sleepTime \in [Procs -> Nat \cup {-1}]
        BY <2>1 DEF TypeOK, States
      <3>2. \E tc, top, ptop : SwitchTo(WakeUp(st, sleepTime), tc, top, ptop)
        BY <2>3 DEF Preempt
      <3>3. sleepTime' = CountDown(st, sleepTime)
        <4>1. \A q \in Procs : Sleeping(st, sleepTime, q) <=> Sleeping(state, sleepTime, q)
          BY <2>1 DEF Sleeping, TypeOK
        <4>2. sleepTime' = CountDown(state, sleepTime)
          BY <2>3 DEF TimerIrq
        <4> QED BY <4>1, <4>2 DEF CountDown
      <3> HIDE DEF st, SwitchTo
      <3> QED BY <2>1, <2>3, <3>1, <3>2, <3>3, SwitchCounts
    <2>4. CASE ~TimerIrq /\ GivesAway
      <3>1. PICK st \in [Procs -> States], sl \in [Procs -> Nat \cup {-1}],
                 r \in Places, l \in Nat :
              /\ GiveAway(st, sl, r, l) /\ st[p] = state[p] /\ sl[p] = sleepTime[p]
              /\ st[current] \in {"blocked", "dead"} /\ current # 0
        BY <2>1, <2>4 DEF GivesAway
      <3>2. /\ \E tc, top, ptop : SwitchTo(WakeUp(st, sl), tc, top, ptop)
            /\ sleepTime' = CountDown(st, sl)
        BY <3>1 DEF GiveAway
      <3>3. current' # current
        <4>1. PICK n \in Procs : Selected(WakeUp(st, sl), n) /\ current' = n
          BY <3>2 DEF SwitchTo
        <4>2. WakeUp(st, sl)[current] # "runnable"
          BY <2>1, <3>1 DEF WakeUp, Sleeping, TypeOK
        <4> QED BY <3>1, <4>1, <4>2 DEF Selected, Candidates
      <3> HIDE DEF SwitchTo
      <3> QED BY <2>1, <3>1, <3>2, <3>3, SwitchCounts
    <2>5. CASE ~TimerIrq /\ GoesOn
      BY <2>1, <2>5 DEF GoesOn
    <2>6. TimerIrq => Tick \/ Preempt
      BY DEF TimerIrq
    <2> QED BY <2>2, <2>3, <2>4, <2>5, <2>6, StepKinds
  <1>2. Inductive <=> SafeInv
    BY InductiveIsSafe
  <1> QED
    BY <1>1, <1>2, Safety, PTL DEF Spec

-----------------------------------------------------------------------------
(* Programs that fork and sleep, any number of them at a time: two forks   *)
(* may then fill the same PCB, one after the other.  Without waits in      *)
(* lists this still leaves the scheduler's own state in order.             *)
OnlyForksAndSleeps == SemValues = {} /\ Readers = {}

ForkPlaces ==
  \A p \in Procs : run[p] = "fork" =>
    state[p] \in {"running", "runnable"} /\ local[p] \in Procs \ {0, p}

NoWaits ==
  /\ \A p \in Procs : run[p] \notin {"semwait", "read"}
  /\ \A s \in Sems : semState[s] = 0
  /\ devValue = 0

ForkInv == OneRunning /\ FramesResumable /\ ForkPlaces /\ NoWaits

(* A switch keeps the invariant of overlapping forks.                      *)
LEMMA RacingSwitch ==
  ASSUME TypeOK, TypeOK', ForkInv,
         NEW st \in [Procs -> States], NEW sl \in [Procs -> Nat \cup {-1}],
         NEW tc \in [Procs -> 0 .. MaxTimeCount],
         NEW top \in [Procs -> 0 .. 2], NEW ptop \in [Procs -> 0 .. 2],
         \A p \in Procs \ {current} :
           /\ st[p] = state[p]
           /\ top[p] = stackTop[p] /\ ptop[p] = prevStackTop[p]
           /\ run'[p] = run[p] /\ local'[p] = local[p],
         SwitchTo(WakeUp(st, sl), tc, top, ptop),
         st[current] \in {"runnable", "blocked", "dead"},
         current = 0 => st[current] = "runnable",
         run'[current] \in Places \ {"semwait", "read"},
         run'[current] = "idle" <=> current = 0,
         st[current] # "dead" =>
           /\ top[current] = Depth(run'[current]) + 1
           /\ Depth(run'[current]) = 1 => ptop[current] = 1,
         run'[current] = "exit" => st[current] = "dead",
         run'[current] = "fork" =>
           /\ run[current] = "fork" /\ local'[current] = local[current]
           /\ st[current] = "runnable",
         UNCHANGED <<semState, devValue>>
  PROVE  ForkInv'
  <1>1. 0 \in Procs /\ current \in Procs
    BY Constants DEF Procs, TypeOK
  <1>2. st[0] = "runnable"
    BY <1>1 DEF ForkInv, OneRunning
  <1>3. PICK n \in Procs :
           /\ current' = n
           /\ st[n] = "runnable" \/ (Sleeping(st, sl, n) /\ sl[n] = 1)
           /\ state' = [p \in Procs |->
                          IF p = n THEN "running"
                          ELSE IF Sleeping(st, sl, p) /\ sl[p] = 1
                          THEN "runnable" ELSE st[p]]
           /\ stackTop' = [top EXCEPT ![n] = ptop[n]]
           /\ prevStackTop' = ptop
    <2> HIDE DEF SwitchTo
    <2> QED BY <1>2, SwitchEffect
  <1>4. \A p \in Procs : st[p] # "running"
    BY DEF ForkInv, OneRunning
  <1>5. OneRunning'
    BY <1>1, <1>2, <1>3, <1>4 DEF ForkInv, OneRunning, Sleeping
  <1>6. FramesResumable'
    <2>1. ASSUME NEW p \in Procs, st[p] # "dead"
          PROVE  /\ top[p] = Depth(run'[p]) + 1
                 /\ Depth(run'[p]) = 1 => ptop[p] = 1
      BY <2>1 DEF ForkInv, FramesResumable
    <2>2. ASSUME NEW p \in Procs \ {n}, state'[p] # "dead"
          PROVE  /\ stackTop'[p] = Depth(run'[p]) + 1
                 /\ Depth(run'[p]) = 1 => prevStackTop'[p] = 1
      <3>1. st[p] # "dead"
        BY <2>2, <1>3 DEF Sleeping
      <3> QED BY <2>1, <3>1, <1>3
    <2>3. Depth(run'[n]) = 1 => stackTop'[n] = 1
      <3>1. st[n] # "dead"
        BY <1>3 DEF Sleeping
      <3> QED BY <2>1, <3>1, <1>3
    <2> QED BY <2>2, <2>3, <1>3 DEF FramesResumable
  <1>7. ForkPlaces'
    <2> SUFFICES ASSUME NEW p \in Procs, run'[p] = "fork"
                 PROVE  /\ state'[p] \in {"running", "runnable"}
                        /\ local'[p] \in Procs \ {0, p}
      BY DEF ForkPlaces
    <2>1. /\ run[p] = "fork" /\ local'[p] = local[p]
          /\ st[p] \in {"running", "runnable"}
      BY DEF ForkInv, ForkPlaces
    <2> QED BY <2>1, <1>3 DEF Sleeping, ForkInv, ForkPlaces
  <1>8. NoWaits'
    BY DEF ForkInv, NoWaits
  <1> QED BY <1>5, <1>6, <1>7, <1>8 DEF ForkInv

(* So does a step of the current process that stays the current one.       *)
LEMMA RacingGoOn ==
  ASSUME TypeOK, ForkInv,
         UNCHANGED <<state, current, semState, devValue>>,
         \A p \in Procs \ {current} :
           /\ run'[p] = run[p] /\ local'[p] = local[p]
           /\ stackTop'[p] = stackTop[p] /\ prevStackTop'[p] = prevStackTop[p],
         \/ run'[current] = "user" /\ current # 0 /\ run[current] # "idle"
         \/ /\ run'[current] = run[current] /\ local'[current] = local[current]
            /\ stackTop'[current] = stackTop[current]
  PROVE  ForkInv'
  <1>1. current \in Procs /\ state[current] = "running"
    BY DEF TypeOK, ForkInv, OneRunning
  <1>2. OneRunning'
    BY <1>1 DEF ForkInv, OneRunning
  <1>3. FramesResumable'
    BY <1>1 DEF ForkInv, FramesResumable, Depth
  <1>4. ForkPlaces'
    BY <1>1 DEF ForkInv, ForkPlaces
  <1>5. NoWaits'
    BY <1>1 DEF ForkInv, NoWaits
  <1> QED BY <1>2, <1>3, <1>4, <1>5 DEF ForkInv

(* So does a handler that returns at once.                                 *)
LEMMA RacingAtOnce ==
  ASSUME TypeOK, ForkInv, ReturnAtOnce, UNCHANGED <<state, semState, devValue>>
  PROVE  ForkInv'
  <1>1. /\ run' = run /\ local' = local /\ current' = current
        /\ stackTop' = stackTop
        /\ \A p \in Procs \ {current} : prevStackTop'[p] = prevStackTop[p]
    BY DEF ReturnAtOnce, goVars, PrevOnEntry, TypeOK
  <1> QED BY <1>1, RacingGoOn

(* So does timerHandle.                                                    *)
LEMMA RacingTimer ==
  ASSUME TypeOK, TypeOK', ForkInv, TimerIrq
  PROVE  ForkInv'
  <1>1. /\ current \in Procs /\ run' = run /\ local' = local
        /\ UNCHANGED <<semState, devValue>>
        /\ run[current] \in {"idle", "user", "fork"}
    BY DEF TypeOK, TimerIrq, InterruptsOn, goVars, semVars
  <1>2. state[current] = "running"
    BY <1>1 DEF ForkInv, OneRunning
  <1>3. CASE Tick
    <2>1. /\ current' = current /\ stackTop' = stackTop
          /\ \A p \in Procs \ {current} : prevStackTop'[p] = prevStackTop[p]
          /\ state' = [p \in Procs |->
                         IF Sleeping(state, sleepTime, p) /\ sleepTime[p] = 1
                         THEN "runnable" ELSE state[p]]
      BY <1>3 DEF Tick, TypeOK, PrevOnEntry, WakeUp
    <2>2. OneRunning'
      <3>1. 0 \in Procs
        BY Constants DEF Procs
      <3>2. \A p \in Procs : state'[p] = "running" <=> state[p] = "running"
        BY <2>1 DEF Sleeping
      <3>3. \A p \in Procs : state[p] = "dead" => state'[p] = "dead"
        BY <2>1 DEF Sleeping
      <3>4. state'[0] \in {"running", "runnable"}
        BY <2>1, <3>1 DEF ForkInv, OneRunning, Sleeping
      <3> QED BY <1>1, <2>1, <3>2, <3>3, <3>4 DEF ForkInv, OneRunning
    <2>3. FramesResumable'
      BY <1>1, <2>1 DEF ForkInv, FramesResumable, Sleeping
    <2>4. ForkPlaces'
      BY <1>1, <2>1 DEF ForkInv, ForkPlaces, Sleeping
    <2>5. NoWaits'
      BY <1>1 DEF ForkInv, NoWaits
    <2> QED BY <2>2, <2>3, <2>4, <2>5 DEF ForkInv
  <1>4. CASE Preempt
    <2> DEFINE st == [state EXCEPT ![current] = "runnable"]
               tc == [timeCount EXCEPT ![current] = 0]
               top == [stackTop EXCEPT ![current] = Depth(run[current]) + 1]
               ptop == PrevOnEntry
    <2>1. /\ st \in [Procs -> States] /\ tc \in [Procs -> 0 .. MaxTimeCount]
          /\ top \in [Procs -> 0 .. 2] /\ ptop \in [Procs -> 0 .. 2]
          /\ sleepTime \in [Procs -> Nat \cup {-1}]
      BY Constants DEF TypeOK, States, Depth, PrevOnEntry
    <2>2. SwitchTo(WakeUp(st, sleepTime), tc, top, ptop)
      BY <1>4 DEF Preempt
    <2>3. \A p \in Procs \ {current} :
            /\ st[p] = state[p]
            /\ top[p] = stackTop[p] /\ ptop[p] = prevStackTop[p]
      BY DEF TypeOK, PrevOnEntry
    <2>4. /\ st[current] = "runnable" /\ top[current] = Depth(run[current]) + 1
          /\ Depth(run[current]) = 1 => ptop[current] = 1
      BY <1>1 DEF TypeOK, PrevOnEntry, ForkInv, FramesResumable
    <2>5. /\ run[current] = "idle" <=> current = 0
          /\ run[current] \in Places \ {"semwait", "read"}
          /\ run[current] # "exit"
      BY <1>1 DEF ForkInv, OneRunning, Places
    <2> HIDE DEF st, tc, top, ptop, SwitchTo, ForkInv, TypeOK
    <2> QED BY <1>1, <2>1, <2>2, <2>3, <2>4, <2>5, RacingSwitch
  <1> QED BY <1>3, <1>4 DEF TimerIrq

(* A sleep or an exit.                                                     *)
LEMMA RacingGiveAway ==
  ASSUME TypeOK, TypeOK', ForkInv, run[current] = "user",
         NEW st \in [Procs -> States], NEW sl \in [Procs -> Nat \cup {-1}],
         NEW r,
         \A p \in Procs \ {current} : st[p] = state[p],
         GiveAway(st, sl, r, 0),
         \/ r = "exit" /\ st[current] = "dead"
         \/ r = "sleep" /\ st[current] = "blocked",
         UNCHANGED <<semState, devValue>>
  PROVE  ForkInv'
  <1> DEFINE top == [stackTop EXCEPT ![current] = 2]
             ptop == [prevStackTop EXCEPT ![current] = 1]
  <1>1. /\ current \in Procs /\ current # 0
        /\ top \in [Procs -> 0 .. 2] /\ ptop \in [Procs -> 0 .. 2]
        /\ timeCount \in [Procs -> 0 .. MaxTimeCount]
    BY DEF TypeOK, ForkInv, OneRunning
  <1>2. /\ SwitchTo(WakeUp(st, sl), timeCount, top, ptop)
        /\ run'[current] = r
        /\ \A p \in Procs \ {current} : run'[p] = run[p] /\ local'[p] = local[p]
    BY DEF GiveAway, TypeOK
  <1>3. \A p \in Procs \ {current} :
          top[p] = stackTop[p] /\ ptop[p] = prevStackTop[p]
    BY DEF TypeOK
  <1>4. /\ top[current] = Depth(r) + 1 /\ ptop[current] = 1
        /\ r \in Places \ {"semwait", "read"} /\ r # "fork" /\ r # "idle"
        /\ st[current] \in {"runnable", "blocked", "dead"}
        /\ r = "exit" => st[current] = "dead"
    BY <1>1 DEF TypeOK, Depth, Places
  <1> HIDE DEF top, ptop, SwitchTo, ForkInv, TypeOK
  <1> QED BY <1>1, <1>2, <1>3, <1>4, RacingSwitch

(* So does the first half of fork, although another fork may have found    *)
(* the same PCB.                                                           *)
LEMMA RacingForkBegin ==
  ASSUME TypeOK, ForkInv, run[current] = "user", ForkBegin
  PROVE  ForkInv'
  <1>1. CASE \A p \in Procs : state[p] # "dead"
    BY <1>1, RacingAtOnce DEF ForkBegin, PlainCall, WakeNobody, semVars
  <1>2. CASE ~ \A p \in Procs : state[p] # "dead"
    <2>1. PICK i \in Procs :
            /\ state[i] = "dead"
            /\ local' = [local EXCEPT ![current] = i]
      BY <1>2 DEF ForkBegin, FirstDead
    <2>2. /\ run' = [run EXCEPT ![current] = "fork"]
          /\ stackTop' = [stackTop EXCEPT ![current] = 1]
          /\ prevStackTop' = PrevOnEntry
          /\ UNCHANGED <<state, current, semState, devValue>>
      BY <1>2 DEF ForkBegin, semVars
    <2>3. /\ current # 0 /\ current \in Procs /\ state[current] = "running"
          /\ i # 0 /\ i # current
      BY <2>1 DEF TypeOK, ForkInv, OneRunning
    <2>4. /\ run'[current] = "fork" /\ local'[current] = i
          /\ stackTop'[current] = 1
          /\ \A p \in Procs \ {current} :
               /\ run'[p] = run[p] /\ local'[p] = local[p]
               /\ stackTop'[p] = stackTop[p] /\ prevStackTop'[p] = prevStackTop[p]
      BY <2>1, <2>2, <2>3 DEF TypeOK, PrevOnEntry
    <2>5. OneRunning'
      BY <2>2, <2>3, <2>4 DEF ForkInv, OneRunning
    <2>6. FramesResumable'
      BY <2>2, <2>3, <2>4 DEF ForkInv, FramesResumable
    <2>7. ForkPlaces'
      BY <2>1, <2>2, <2>3, <2>4 DEF ForkInv, ForkPlaces
    <2>8. NoWaits'
      BY <2>2, <2>3, <2>4 DEF ForkInv, NoWaits
    <2> QED BY <2>5, <2>6, <2>7, <2>8 DEF ForkInv
  <1> QED BY <1>1, <1>2

(* The PCB that is filled may by now be another fork's child.              *)
LEMMA RacingForkEnd ==
  ASSUME TypeOK, ForkInv, ForkEnd
  PROVE  ForkInv'
  <1> DEFINE i == local[current]
  <1>1. /\ run[current] = "fork" /\ current \in Procs
        /\ state[current] = "running" /\ current # 0
        /\ i \in Procs /\ i # current /\ i # 0
    BY DEF ForkEnd, TypeOK, ForkInv, OneRunning, ForkPlaces
  <1>2. stackTop[current] = 1
    BY <1>1 DEF ForkInv, FramesResumable, Depth
  <1> HIDE DEF i
  <1>3. /\ state' = [state EXCEPT ![i] = "runnable"]
        /\ stackTop'[i] = 1
        /\ run'[i] = "user" /\ run'[current] = "user"
        /\ \A p \in Procs \ {i, current} :
             /\ run'[p] = run[p] /\ local'[p] = local[p]
             /\ stackTop'[p] = stackTop[p] /\ prevStackTop'[p] = prevStackTop[p]
        /\ UNCHANGED <<current, semState, devValue>>
    BY <1>1, <1>2 DEF ForkEnd, TypeOK, semVars, i
  <1>4. OneRunning'
    BY <1>1, <1>3 DEF ForkInv, OneRunning, TypeOK
  <1>5. FramesResumable'
    BY <1>1, <1>3 DEF ForkInv, FramesResumable, TypeOK, Depth
  <1>6. ForkPlaces'
    BY <1>1, <1>3 DEF ForkInv, ForkPlaces, TypeOK
  <1>7. NoWaits'
    BY <1>1, <1>3 DEF ForkInv, NoWaits
  <1> QED BY <1>4, <1>5, <1>6, <1>7 DEF ForkInv

(* Every step of programs that only fork, sleep and exit keeps that        *)
(* invariant.                                                              *)
LEMMA RacingStep ==
  ASSUME OnlyForksAndSleeps
  PROVE  TypeOK /\ ForkInv /\ [Next]_vars => ForkInv'
  <1> SUFFICES ASSUME TypeOK, ForkInv, [Next]_vars PROVE ForkInv'
    OBVIOUS
  <1>1. TypeOK'
    BY TypeStep
  <1>2. CASE UNCHANGED vars
    <2>1. UNCHANGED <<pcbVars, goVars, current, semVars, devValue>>
      BY <1>2 DEF vars
    <2>2. UNCHANGED <<state, stackTop, prevStackTop, run, local, current, semState,
                      devValue>>
      BY <2>1 DEF pcbVars, goVars, semVars
    <2> QED BY <2>2, RacingGoOn
  <1>3. CASE TimerIrq
    BY <1>1, <1>3, RacingTimer
  <1>4. CASE KeyboardIrq \/ IllegalKeyIrq
    <2>1. devValue = 0
      BY DEF ForkInv, NoWaits
    <2>2. ReturnAtOnce /\ UNCHANGED <<state, semState, devValue>>
      BY <1>4, <2>1 DEF KeyboardIrq, IllegalKeyIrq, WakeNobody, semVars
    <2> QED BY <2>2, RacingAtOnce
  <1>5. CASE ForkEnd
    BY <1>5, RacingForkEnd
  <1>6. CASE Resume
    <2>1. /\ ReturnFromCall /\ run[current] \in Places \ {"idle"}
          /\ UNCHANGED <<state, current, semState, devValue, prevStackTop>>
      BY <1>6 DEF Resume, SleepReturn, SemWaitReturn, ReadReturn, Places, semVars
    <2>2. current # 0 /\ current \in Procs
      BY <2>1 DEF TypeOK, ForkInv, OneRunning
    <2>3. /\ run'[current] = "user"
          /\ \A p \in Procs \ {current} :
               /\ run'[p] = run[p] /\ local'[p] = local[p]
               /\ stackTop'[p] = stackTop[p]
      BY <2>1, <2>2 DEF ReturnFromCall, TypeOK
    <2> QED BY <2>1, <2>2, <2>3, RacingGoOn
  <1>7. CASE UserStep
    <2>1. run[current] = "user" /\ \A s \in Sems : ~InUse(s)
      BY <1>7 DEF UserStep, InUse, ForkInv, NoWaits
    <2>2. CASE PlainCall
      BY <2>2, RacingAtOnce DEF PlainCall, WakeNobody, semVars
    <2>3. CASE Exit
      <3> DEFINE st == [state EXCEPT ![current] = "dead"]
      <3>1. /\ GiveAway(st, sleepTime, "exit", 0)
            /\ UNCHANGED <<semState, devValue>>
        BY <2>3 DEF Exit, semVars
      <3>2. /\ st \in [Procs -> States] /\ sleepTime \in [Procs -> Nat \cup {-1}]
            /\ st[current] = "dead" /\ \A p \in Procs \ {current} : st[p] = state[p]
        BY DEF TypeOK, States
      <3> HIDE DEF st, GiveAway, ForkInv, TypeOK
      <3> QED BY <1>1, <2>1, <3>1, <3>2, RacingGiveAway
    <2>4. ASSUME NEW t \in SleepTimes, Sleep(t) PROVE ForkInv'
      <3>1. CASE t = 0
        BY <2>4, <3>1, RacingAtOnce DEF Sleep, PlainCall, WakeNobody, semVars
      <3>2. CASE t # 0
        <4> DEFINE sl == [sleepTime EXCEPT ![current] = t]
        <4>1. /\ GiveAway(Blocked(current), sl, "sleep", 0)
              /\ UNCHANGED <<semState, devValue>>
          BY <2>4, <3>2 DEF Sleep, semVars
        <4>2. /\ Blocked(current) \in [Procs -> States]
              /\ sl \in [Procs -> Nat \cup {-1}]
              /\ Blocked(current)[current] = "blocked"
              /\ \A p \in Procs \ {current} : Blocked(current)[p] = state[p]
          <5>1. t \in Nat
            BY Constants
          <5> QED BY <5>1, BlockedType
        <4> HIDE DEF sl, GiveAway, ForkInv, TypeOK
        <4> QED BY <1>1, <2>1, <4>1, <4>2, RacingGiveAway
      <3> QED BY <3>1, <3>2
    <2>5. CASE current \in Forkers /\ ForkBegin
      BY <2>1, <2>5, RacingForkBegin
    <2> QED
      BY <1>7, <2>1, <2>2, <2>3, <2>4, <2>5 DEF UserStep, OnlyForksAndSleeps
  <1> QED BY <1>2, <1>3, <1>4, <1>5, <1>6, <1>7 DEF Next

(* That invariant holds initially.                                         *)
LEMMA RacingInit == Init => ForkInv
  <1> SUFFICES ASSUME Init PROVE ForkInv
    OBVIOUS
  <1>1. OneRunning
    BY Constants DEF Init, OneRunning, Procs
  <1>2. FramesResumable
    BY Constants DEF Init, FramesResumable, Depth, Procs
  <1>3. ForkPlaces /\ NoWaits
    BY DEF Init, ForkPlaces, NoWaits
  <1> QED BY <1>1, <1>2, <1>3 DEF ForkInv

(* Even when several processes fork at a time, so that a fork may overwrite*)
(* the child of another, one process runs and every other is resumed from  *)
(* its innermost frame, as long as nobody waits in a list.                 *)
THEOREM RacingForks ==
  ASSUME OnlyForksAndSleeps
  PROVE  Spec => [](OneRunning /\ FramesResumable)
  <1>1. TypeOK /\ TypeOK' /\ ForkInv /\ [Next]_vars => ForkInv'
    BY RacingStep
  <1>2. ForkInv => OneRunning /\ FramesResumable
    BY DEF ForkInv
  <1>3. Init => ForkInv
    BY RacingInit
  <1> QED
    BY <1>1, <1>2, <1>3, TypeCorrect, PTL DEF Spec

-----------------------------------------------------------------------------
(* The wait lists implement FIFO counting semaphores: every step of the kernel *)
(* is one of module FifoSemaphores or leaves its variables alone.          *)

(* What a list says of its members.                                        *)
LEMMA OrderMembers ==
  ASSUME NEW nx, NEW pv, NEW h, NEW M, NEW n, NEW q, OrderOf(nx, pv, h, M, n, q)
  PROVE  M = {q[k] : k \in 1 .. n}
  BY DEF OrderOf, EachOnce

(* Pointers and a length leave no choice of the members of a list.         *)
LEMMA SameMembers ==
  ASSUME NEW nx, NEW pv, NEW h, NEW M1, NEW M2, NEW n \in Nat,
         IsListOf(nx, pv, h, M1, n), IsListOf(nx, pv, h, M2, n)
  PROVE  M1 = M2
  <1>1. /\ OrderOf(nx, pv, h, M1, n, ListOf(pv, h, n))
        /\ OrderOf(nx, pv, h, M2, n, ListOf(pv, h, n))
    BY ListOfOrder
  <1> QED BY <1>1, OrderMembers

(* The order of an empty list is the empty sequence.                       *)
LEMMA EmptyOrder ==
  ASSUME NEW pv, NEW h
  PROVE  ListOf(pv, h, 0) = <<>>
  BY DEF ListOf

-----------------------------------------------------------------------------
(* The order of the list of h.                                             *)
Order(h) == ListOf(prev, h, Count(h))

(* The list of a semaphore among the lists.                                *)
LEMMA SemList ==
  ASSUME NEW s \in Sems
  PROVE  /\ SemNode(s) \in Heads /\ SemNode(s) # StdInNode
         /\ Members(SemNode(s)) = Waiters(s)
         /\ Members(SemNode(s))' = Waiters(s)'
         /\ Count(SemNode(s)) = Deficit(semValue[s])
         /\ Count(SemNode(s))' = Deficit(semValue'[s])
         /\ \A t \in Sems : t # s => SemNode(t) # SemNode(s)
  <1>1. SemNode(s) \in Heads /\ SemNode(s) # StdInNode
    BY HeadPlaces
  <1>2. \A t \in Sems : SemNode(t) - NProc = t
    BY Constants DEF Sems, SemNode
  <1>3. SemNode(s) - NProc = s
    BY <1>2
  <1>4. \A t \in Sems : t # s => SemNode(t) # SemNode(s)
    BY <1>2
  <1>5. Members(SemNode(s)) = Waiters(s) /\ Members(SemNode(s))' = Waiters(s)'
    <2>1. Members(SemNode(s)) = Waiters(s)
      BY <1>1, <1>3 DEF Members, Waiters
    <2>2. /\ SemNode(s)' = SemNode(s)
          /\ StdInNode' = StdInNode
      BY DEF SemNode, StdInNode
    <2>3. Members(SemNode(s))' = Waiters(s)'
      BY <1>1, <1>3, <2>2 DEF Members, Waiters
    <2> QED BY <2>1, <2>3
  <1>6. /\ Count(SemNode(s)) = Deficit(semValue[s])
        /\ Count(SemNode(s))' = Deficit(semValue'[s])
    BY <1>1, <1>3 DEF Count
  <1> QED BY <1>1, <1>4, <1>5, <1>6

(* A list whose pointers and length are left alone keeps its order.        *)
LEMMA OrderKept ==
  ASSUME TypeOK, ListsExact, ListsExact', NEW h \in Heads,
         UNCHANGED listVars, Count(h)' = Count(h)
  PROVE  Members(h)' = Members(h) /\ Order(h)' = Order(h)
  <1>1. next' = next /\ prev' = prev /\ Count(h) \in Nat
    BY CountType DEF listVars
  <1>2. /\ IsListOf(next, prev, h, Members(h), Count(h))
        /\ IsListOf(next', prev', h, Members(h)', Count(h)')
    BY DEF ListsExact, Heads
  <1>3. IsListOf(next, prev, h, Members(h)', Count(h))
    BY <1>1, <1>2
  <1> QED BY <1>1, <1>2, <1>3, SameMembers DEF Order

(* Blocking appends the current process to its list and leaves the others  *)
(* alone.                                                                  *)
LEMMA OrderEnqueued ==
  ASSUME TypeOK, ListsExact, ListsExact', NEW h \in Heads,
         state[current] # "blocked",
         EnqueueCurrent(h), Count(h)' = Count(h) + 1,
         \A g \in Heads \ {h} : Count(g)' = Count(g)
  PROVE  /\ Members(h)' = Members(h) \cup {current}
         /\ Order(h)' = Append(Order(h), current)
         /\ \A g \in Heads \ {h} : Members(g)' = Members(g) /\ Order(g)' = Order(g)
  <1>1. /\ next \in [Nodes -> Nodes] /\ prev \in [Nodes -> Nodes]
        /\ h \in Nodes /\ current \in Nodes /\ current \in Procs
        /\ current # h /\ current \notin Members(h)
        /\ \A g \in Heads : Members(g) \in SUBSET Nodes /\ g \notin Members(g)
    BY HeadPlaces, NodePlaces DEF TypeOK, Members
  <1>2. \A g \in Heads : /\ Count(g) \in Nat
                         /\ IsListOf(next, prev, g, Members(g), Count(g))
                         /\ IsListOf(next', prev', g, Members(g)', Count(g)')
    BY CountType DEF ListsExact, Heads
  <1>3. next' = NextAfterInsert(next, h, current)
    BY DEF EnqueueCurrent
  <1>4. prev' = PrevAfterInsert(next, prev, h, current)
    BY DEF EnqueueCurrent
  <1>5. IsListOf(next', prev', h, Members(h) \cup {current}, Count(h) + 1)
    BY <1>1, <1>2, <1>3, <1>4, InsertList
  <1>6. Members(h)' = Members(h) \cup {current}
    <2>1. Count(h) + 1 \in Nat
      BY <1>2
    <2> QED BY <1>2, <1>5, <2>1, SameMembers
  <1>7. Order(h)' = Append(Order(h), current)
    BY <1>1, <1>2, <1>4, ListOfInsert DEF Order
  <1>8. ASSUME NEW g \in Heads \ {h}
        PROVE  Members(g)' = Members(g) /\ Order(g)' = Order(g)
    <2>1. next[h] \in Members(h) \cup {h}
      BY <1>1, <1>2, ListEnds
    <2>2. \A m \in Members(g) \cup {g} : m # h /\ m # current /\ m # next[h]
      BY <2>1, <1>1, MembersApart, HeadPlaces DEF Members
    <2>3. \A m \in Members(g) \cup {g} : next'[m] = next[m] /\ prev'[m] = prev[m]
      BY <2>2, <1>1, <1>3, <1>4, HeadPlaces DEF NextAfterInsert, PrevAfterInsert
    <2>4. IsListOf(next', prev', g, Members(g), Count(g))
      BY <2>3, <1>1, <1>2, ListFrame
    <2>5. Members(g)' = Members(g)
      BY <1>2, <2>4, SameMembers
    <2>6. ListOf(prev', g, Count(g)) = ListOf(prev, g, Count(g))
      BY <2>3, <1>1, <1>2, ListOfKept
    <2> QED BY <2>5, <2>6 DEF Order
  <1> QED BY <1>6, <1>7, <1>8

(* A wake-up takes the first of the list and leaves the others alone.      *)
LEMMA OrderDequeued ==
  ASSUME TypeOK, ListsExact, ListsExact', NEW h \in Heads, Count(h) > 0,
         WakeOldest(h), Count(h)' = Count(h) - 1,
         \A g \in Heads \ {h} : Count(g)' = Count(g)
  PROVE  /\ Members(h)' = Members(h) \ {Head(Order(h))}
         /\ Head(Order(h)) \in Members(h)
         /\ Order(h)' = Tail(Order(h))
         /\ \A g \in Heads \ {h} : Members(g)' = Members(g) /\ Order(g)' = Order(g)
  <1>1. /\ next \in [Nodes -> Nodes] /\ prev \in [Nodes -> Nodes] /\ h \in Nodes
        /\ \A g \in Heads : Members(g) \in SUBSET Nodes /\ g \notin Members(g)
    BY HeadPlaces, NodePlaces DEF TypeOK, Members
  <1>2. \A g \in Heads : /\ Count(g) \in Nat
                         /\ IsListOf(next, prev, g, Members(g), Count(g))
                         /\ IsListOf(next', prev', g, Members(g)', Count(g)')
    BY CountType DEF ListsExact, Heads
  <1>3. next' = NextAfterRemove(next, prev, h)
    BY DEF WakeOldest
  <1>4. prev' = PrevAfterRemove(prev, h)
    BY DEF WakeOldest
  <1>5. IsListOf(next', prev', h, Members(h) \ {prev[h]}, Count(h) - 1)
    BY <1>1, <1>2, <1>3, <1>4, RemoveList
  <1>6. Members(h)' = Members(h) \ {prev[h]} /\ prev[h] \in Members(h)
    <2>1. Count(h) - 1 \in Nat
      BY <1>2
    <2>2. prev[h] \in Members(h)
      BY <1>1, <1>2, ListEnds
    <2> QED BY <1>2, <1>5, <2>1, <2>2, SameMembers
  <1>7. prev[h] = Head(Order(h)) /\ Order(h)' = Tail(Order(h))
    BY <1>1, <1>2, <1>4, ListOfRemove DEF Order
  <1>8. ASSUME NEW g \in Heads \ {h}
        PROVE  Members(g)' = Members(g) /\ Order(g)' = Order(g)
    <2>1. prev[h] \in Members(h) \cup {h}
      BY <1>1, <1>2, ListEnds
    <2>2. prev[prev[h]] \in Members(h) \cup {h}
      BY <2>1, <1>1, <1>2, ListEnds
    <2>3. \A m \in Members(g) \cup {g} : m # h /\ m # prev[prev[h]]
      BY <2>2, <1>1, MembersApart, HeadPlaces DEF Members
    <2>4. \A m \in Members(g) \cup {g} : next'[m] = next[m] /\ prev'[m] = prev[m]
      BY <2>3, <1>1, <1>3, <1>4, HeadPlaces DEF NextAfterRemove, PrevAfterRemove
    <2>5. IsListOf(next', prev', g, Members(g), Count(g))
      BY <2>4, <1>1, <1>2, ListFrame
    <2>6. Members(g)' = Members(g)
      BY <1>2, <2>5, SameMembers
    <2>7. ListOf(prev', g, Count(g)) = ListOf(prev, g, Count(g))
      BY <2>4, <1>1, <1>2, ListOfKept
    <2> QED BY <2>6, <2>7 DEF Order
  <1> QED BY <1>6, <1>7, <1>8

(* The reset of an empty list leaves every order alone.                    *)
LEMMA OrderReset ==
  ASSUME TypeOK, ListsExact, ListsExact', NEW h \in Heads,
         next' = SelfLinked(next, h), prev' = SelfLinked(prev, h),
         Count(h) = 0, \A g \in Heads : Count(g)' = Count(g)
  PROVE  \A g \in Heads : Members(g)' = Members(g) /\ Order(g)' = Order(g)
  <1>1. /\ next \in [Nodes -> Nodes] /\ prev \in [Nodes -> Nodes] /\ h \in Nodes
        /\ \A g \in Heads : Members(g) \in SUBSET Nodes /\ g \notin Members(g)
    BY HeadPlaces, NodePlaces DEF TypeOK, Members
  <1>2. \A g \in Heads : /\ Count(g) \in Nat
                         /\ IsListOf(next, prev, g, Members(g), Count(g))
                         /\ IsListOf(next', prev', g, Members(g)', Count(g)')
    BY CountType DEF ListsExact, Heads
  <1>3. Members(h) = {} /\ Members(h)' = {}
    <2>1. IsListOf(next', prev', h, {}, 0)
      BY <1>1, EmptyList DEF SelfLinked
    <2>2. Members(h)' = {}
      BY <1>2, <2>1, SameMembers
    <2>3. Members(h) = {}
      BY <1>1, <1>2, ListEnds
    <2> QED BY <2>2, <2>3
  <1>4. Order(h)' = Order(h)
    BY EmptyOrder DEF Order
  <1>5. ASSUME NEW g \in Heads \ {h}
        PROVE  Members(g)' = Members(g) /\ Order(g)' = Order(g)
    <2>1. \A m \in Members(g) \cup {g} : m # h
      BY <1>1, MembersApart, HeadPlaces DEF Members
    <2>2. \A m \in Members(g) \cup {g} : next'[m] = next[m] /\ prev'[m] = prev[m]
      BY <2>1, <1>1, HeadPlaces DEF SelfLinked
    <2>3. IsListOf(next', prev', g, Members(g), Count(g))
      BY <2>2, <1>1, <1>2, ListFrame
    <2>4. Members(g)' = Members(g)
      BY <1>2, <2>3, SameMembers
    <2>5. ListOf(prev', g, Count(g)) = ListOf(prev, g, Count(g))
      BY <2>2, <1>1, <1>2, ListOfKept
    <2> QED BY <2>4, <2>5 DEF Order
  <1> QED BY <1>3, <1>4, <1>5

-----------------------------------------------------------------------------
(* The steps of the kernel as steps of FIFO semaphores.                    *)
LEMMA DeficitSteps ==
  \A v \in Int : /\ v <= 0 => Deficit(v - 1) = Deficit(v) + 1
                 /\ v > 0 => Deficit(v - 1) = 0 /\ Deficit(v) = 0
                 /\ v < 0 => Deficit(v + 1) = Deficit(v) - 1 /\ Deficit(v) > 0
                 /\ v >= 0 => Deficit(v + 1) = 0 /\ Deficit(v) = 0
  BY DEF Deficit

(* The queue of the abstract semaphore is the order of the list.           *)
LEMMA QueueOf ==
  ASSUME NEW s \in Sems
  PROVE  /\ Queues[s] = Order(SemNode(s)) /\ Queues'[s] = Order(SemNode(s))'
         /\ Waiters(s) = Members(SemNode(s)) /\ Waiters(s)' = Members(SemNode(s))'
  BY SemList DEF Queues, Order, SemNode

(* Semaphores nothing happens to.                                          *)
LEMMA FifoStutter ==
  ASSUME UNCHANGED semVars,
         \A h \in Heads \ {StdInNode} :
           Members(h)' = Members(h) /\ Order(h)' = Order(h)
  PROVE  UNCHANGED Fifo!semaphores
  <1>1. \A s \in Sems : Queues'[s] = Queues[s] /\ Waiters(s)' = Waiters(s)
    BY QueueOf, SemList
  <1>2. Queues' = Queues
    BY <1>1 DEF Queues
  <1>3. Asleep' = Asleep
    BY <1>1 DEF Asleep
  <1>4. Created' = Created /\ Permits' = Permits
    BY DEF Created, Permits, semVars
  <1> QED BY <1>2, <1>3, <1>4 DEF Fifo!semaphores

(* sem_wait is the abstract Wait or Pass.                                  *)
LEMMA FifoWait ==
  ASSUME Inductive, Inductive', run[current] = "user",
         NEW s \in Sems, InUse(s), SemWait(s)
  PROVE  Fifo!Wait(current, s) \/ Fifo!Pass(s)
  <1> DEFINE h == SemNode(s)
  <1>1. /\ TypeOK /\ ProcInv /\ ListsExact /\ ListsExact' /\ h \in Heads
        /\ h # StdInNode
        /\ semValue \in [Sems -> Int] /\ semValue[s] \in Int
        /\ semValue' = [semValue EXCEPT ![s] = @ - 1]
        /\ UNCHANGED <<semState, devValue>> /\ s \in Created
    BY SemList DEF Inductive, TypeOK, SemWait, InUse, Created
  <1>2. current \in Procs /\ state[current] = "running"
    BY <1>1, UserRuns DEF Places
  <1>3. /\ Count(h) = Deficit(semValue[s]) /\ Count(h)' = Deficit(semValue[s] - 1)
        /\ \A g \in Heads \ {h} : Count(g)' = Count(g)
    <2>1. /\ Count(h) = Deficit(semValue[s])
          /\ Count(h)' = Deficit(semValue[s] - 1)
      BY <1>1, SemList
    <2>2. ASSUME NEW g \in Heads \ {h}, g # StdInNode PROVE Count(g)' = Count(g)
      <3>1. g - NProc \in Sems /\ g = SemNode(g - NProc)
        BY <2>2, HeadPlaces
      <3>2. g - NProc # s
        BY <3>1
      <3> QED BY <1>1, <2>2, <3>1, <3>2 DEF Count, StdInNode
    <2>3. Count(StdInNode)' = Count(StdInNode)
      BY <1>1 DEF Count, StdInNode
    <2> QED BY <2>1, <2>2, <2>3
  <1>4. Created' = Created
    BY <1>1 DEF Created
  <1>5. CASE semValue[s] <= 0
    <2>1. EnqueueCurrent(h)
      BY <1>1, <1>5 DEF SemWait
    <2>2. /\ Members(h)' = Members(h) \cup {current}
          /\ Order(h)' = Append(Order(h), current)
          /\ \A g \in Heads \ {h} : Members(g)' = Members(g) /\ Order(g)' = Order(g)
      BY <1>1, <1>2, <1>3, <1>5, <2>1, DeficitSteps, OrderEnqueued
    <2>3. Permits' = Permits /\ Permits[s] = 0
      BY <1>1, <1>5 DEF Permits
    <2>4. Queues' = [Queues EXCEPT ![s] = Append(@, current)]
      <3>1. \A t \in Sems : Queues'[t] = IF t = s THEN Append(Queues[s], current)
                                         ELSE Queues[t]
        BY <2>2, QueueOf, SemList
      <3> QED BY <3>1 DEF Queues
    <2>5. \A t \in Sems : Waiters(t)' = IF t = s THEN Waiters(s) \cup {current}
                                        ELSE Waiters(t)
      BY <2>2, QueueOf, SemList
    <2>6. Asleep' = Asleep \cup {current}
      BY <2>5 DEF Asleep
    <2>7. current \notin Asleep
      BY <1>2 DEF Asleep, Waiters
    <2> QED BY <1>1, <1>4, <2>3, <2>4, <2>6, <2>7 DEF Fifo!Wait
  <1>6. CASE semValue[s] > 0
    <2>1. UNCHANGED listVars
      BY <1>1, <1>6 DEF SemWait, WakeNobody
    <2>2. \A g \in Heads : Count(g)' = Count(g)
      BY <1>1, <1>3, <1>6, DeficitSteps
    <2>3. \A g \in Heads : Members(g)' = Members(g) /\ Order(g)' = Order(g)
      BY <1>1, <2>1, <2>2, OrderKept
    <2>4. \A t \in Sems : Queues'[t] = Queues[t] /\ Waiters(t)' = Waiters(t)
      BY <2>3, QueueOf, SemList
    <2>5. Queues' = Queues /\ Asleep' = Asleep
      BY <2>4 DEF Queues, Asleep
    <2>6. Permits[s] > 0 /\ Permits' = [Permits EXCEPT ![s] = @ - 1]
      <3>1. Permits[s] = semValue[s] /\ Permits'[s] = semValue[s] - 1
        BY <1>1, <1>6 DEF Permits
      <3>2. \A t \in Sems : t # s => Permits'[t] = Permits[t]
        BY <1>1 DEF Permits
      <3>3. /\ Permits = [t \in Sems |-> Permits[t]]
            /\ Permits' = [t \in Sems |-> Permits'[t]]
        BY DEF Permits
      <3> QED BY <1>6, <3>1, <3>2, <3>3
    <2> QED BY <1>1, <1>4, <2>5, <2>6 DEF Fifo!Pass
  <1> QED BY <1>1, <1>5, <1>6

(* The values of the other semaphores count as before.                     *)
LEMMA OtherCounts ==
  ASSUME semValue \in [Sems -> Int], NEW s \in Sems, NEW v \in Int,
         semValue' = [semValue EXCEPT ![s] = v], devValue' = devValue
  PROVE  /\ Count(SemNode(s)) = Deficit(semValue[s])
         /\ Count(SemNode(s))' = Deficit(v)
         /\ \A g \in Heads \ {SemNode(s)} : Count(g)' = Count(g)
  <1>1. /\ Count(SemNode(s)) = Deficit(semValue[s])
        /\ Count(SemNode(s))' = Deficit(v)
    BY SemList
  <1>2. ASSUME NEW g \in Heads \ {SemNode(s)}, g # StdInNode
        PROVE  Count(g)' = Count(g)
    <2>1. g - NProc \in Sems /\ g = SemNode(g - NProc)
      BY <1>2, HeadPlaces
    <2>2. g - NProc # s
      BY <2>1
    <2> QED BY <1>2, <2>1, <2>2 DEF Count, StdInNode
  <1>3. Count(StdInNode)' = Count(StdInNode)
    BY DEF Count, StdInNode
  <1> QED BY <1>1, <1>2, <1>3

(* sem_post is the abstract HandOver or Release.                           *)
LEMMA FifoPost ==
  ASSUME Inductive, Inductive', NEW s \in Sems, InUse(s), SemPost(s)
  PROVE  Fifo!HandOver(s) \/ Fifo!Release(s)
  <1> DEFINE h == SemNode(s)
  <1>1. /\ TypeOK /\ ListsExact /\ ListsExact' /\ h \in Heads /\ h # StdInNode
        /\ semValue \in [Sems -> Int] /\ semValue[s] \in Int
        /\ semValue' = [semValue EXCEPT ![s] = semValue[s] + 1]
        /\ UNCHANGED <<semState, devValue>> /\ s \in Created
    BY SemList DEF Inductive, TypeOK, SemPost, InUse, Created
  <1>2. /\ Count(h) = Deficit(semValue[s]) /\ Count(h)' = Deficit(semValue[s] + 1)
        /\ \A g \in Heads \ {h} : Count(g)' = Count(g)
    <2>1. semValue[s] + 1 \in Int
      BY <1>1
    <2> QED BY <1>1, <2>1, OtherCounts
  <1>3. Created' = Created
    BY <1>1 DEF Created
  <1>4. CASE semValue[s] < 0
    <2>1. WakeOldest(h)
      BY <1>1, <1>4 DEF SemPost
    <2>2. Count(h) > 0 /\ Count(h)' = Count(h) - 1
      BY <1>1, <1>2, <1>4, DeficitSteps
    <2>3. /\ Members(h)' = Members(h) \ {Head(Order(h))}
          /\ Head(Order(h)) \in Members(h) /\ Order(h)' = Tail(Order(h))
          /\ \A g \in Heads \ {h} : Members(g)' = Members(g) /\ Order(g)' = Order(g)
      BY <1>1, <1>2, <2>1, <2>2, OrderDequeued
    <2>4. Permits' = Permits
      BY <1>1, <1>4 DEF Permits
    <2>5. Queues' = [Queues EXCEPT ![s] = Tail(@)]
      <3>1. \A t \in Sems : Queues'[t] = IF t = s THEN Tail(Queues[s]) ELSE Queues[t]
        BY <2>3, QueueOf, SemList
      <3> QED BY <3>1 DEF Queues
    <2>6. Queues[s] # <<>>
      <3>1. 1 \in DOMAIN Order(h)
        <4>1. Count(h) \in Nat
          BY <1>1, CountType
        <4> QED BY <2>2, <4>1 DEF Order, ListOf
      <3> QED BY <3>1, QueueOf
    <2>7. Head(Queues[s]) = Head(Order(h))
      BY QueueOf
    <2>8. Asleep' = Asleep \ {Head(Queues[s])}
      <3>1. \A t \in Sems : Waiters(t)' = Waiters(t) \ {Head(Queues[s])}
        <4>1. Waiters(s)' = Waiters(s) \ {Head(Queues[s])}
          BY <2>3, <2>7, QueueOf
        <4>2. ASSUME NEW t \in Sems, t # s PROVE Head(Queues[s]) \notin Waiters(t)
          BY <2>3, <2>7, <4>2, QueueOf DEF Waiters
        <4>3. \A t \in Sems : t # s => Waiters(t)' = Waiters(t)
          BY <2>3, QueueOf, SemList
        <4> QED BY <4>1, <4>2, <4>3
      <3> QED BY <3>1 DEF Asleep
    <2> QED BY <1>1, <1>3, <2>4, <2>5, <2>6, <2>8 DEF Fifo!HandOver
  <1>5. CASE semValue[s] >= 0
    <2>1. UNCHANGED listVars
      BY <1>1, <1>5 DEF SemPost, WakeNobody
    <2>2. \A g \in Heads : Count(g)' = Count(g)
      BY <1>1, <1>2, <1>5, DeficitSteps
    <2>3. \A g \in Heads : Members(g)' = Members(g) /\ Order(g)' = Order(g)
      BY <1>1, <2>1, <2>2, OrderKept
    <2>4. \A t \in Sems : Queues'[t] = Queues[t] /\ Waiters(t)' = Waiters(t)
      BY <2>3, QueueOf, SemList
    <2>5. Queues' = Queues /\ Asleep' = Asleep
      BY <2>4 DEF Queues, Asleep
    <2>6. Permits' = [Permits EXCEPT ![s] = @ + 1]
      <3>1. Permits[s] = semValue[s] /\ Permits'[s] = semValue[s] + 1
        BY <1>1, <1>5 DEF Permits
      <3>2. \A t \in Sems : t # s => Permits'[t] = Permits[t]
        BY <1>1 DEF Permits
      <3>3. /\ Permits = [t \in Sems |-> Permits[t]]
            /\ Permits' = [t \in Sems |-> Permits'[t]]
        BY DEF Permits
      <3> QED BY <3>1, <3>2, <3>3
    <2>7. Queues[s] = <<>>
      BY <1>1, <1>2, <1>5, DeficitSteps, EmptyOrder, QueueOf DEF Order
    <2> QED BY <1>1, <1>3, <2>5, <2>6, <2>7 DEF Fifo!Release
  <1> QED BY <1>1, <1>4, <1>5

(* A semaphore is taken into use or given back.                            *)
LEMMA FifoReset ==
  ASSUME Inductive, Inductive', NEW s \in Sems,
         next' = SelfLinked(next, SemNode(s)),
         prev' = SelfLinked(prev, SemNode(s)),
         Count(SemNode(s)) = 0, \A g \in Heads : Count(g)' = Count(g)
  PROVE  Queues' = Queues /\ Asleep' = Asleep /\ Queues[s] = <<>>
  <1>1. SemNode(s) \in Heads /\ TypeOK /\ ListsExact /\ ListsExact'
    BY SemList DEF Inductive
  <1>2. \A g \in Heads : Members(g)' = Members(g) /\ Order(g)' = Order(g)
    BY <1>1, OrderReset
  <1>3. \A t \in Sems : Queues'[t] = Queues[t] /\ Waiters(t)' = Waiters(t)
    BY <1>2, QueueOf, SemList
  <1>4. Queues[s] = <<>>
    BY EmptyOrder, QueueOf DEF Order
  <1> QED BY <1>3, <1>4 DEF Queues, Asleep

(* sem_init of a slot is the abstract Create.                              *)
LEMMA FifoCreate ==
  ASSUME Inductive, Inductive', NEW v \in SemValues, v \in Nat,
         NEW s \in Sems, semState[s] = 0,
         semState' = [semState EXCEPT ![s] = 1],
         semValue' = [semValue EXCEPT ![s] = v], devValue' = devValue,
         next' = SelfLinked(next, SemNode(s)),
         prev' = SelfLinked(prev, SemNode(s))
  PROVE  Fifo!Create(s, v)
  <1>1. /\ TypeOK /\ ProcInv /\ ListsExact
        /\ semValue \in [Sems -> Int] /\ semState \in [Sems -> {0, 1}]
    BY DEF Inductive, TypeOK
  <1>2. Count(SemNode(s)) = 0
    <2>1. Members(SemNode(s)) = {}
      <3>1. \A p \in Procs : ~(state[p] = "blocked" /\ run[p] = "semwait"
                                /\ local[p] = s)
        BY <1>1 DEF ProcInv, BlockedHasWaker
      <3> QED BY <3>1, SemList DEF Waiters
    <2>2. /\ IsListOf(next, prev, SemNode(s), Members(SemNode(s)),
                      Count(SemNode(s)))
          /\ Count(SemNode(s)) \in Nat /\ SemNode(s) \notin Members(SemNode(s))
      BY <1>1, SemList, HeadPlaces, CountType DEF ListsExact, Members
    <2> QED BY <2>1, <2>2, ListEnds
  <1>3. \A g \in Heads : Count(g)' = Count(g)
    <2>1. Deficit(v) = 0 /\ v \in Int
      BY DEF Deficit
    <2> QED BY <1>1, <1>2, <2>1, OtherCounts
  <1>4. Queues' = Queues /\ Asleep' = Asleep
    BY <1>2, <1>3, FifoReset
  <1>5. Permits' = [Permits EXCEPT ![s] = v]
    <2>1. Permits'[s] = v
      BY <1>1 DEF Permits
    <2>2. \A t \in Sems : t # s => Permits'[t] = Permits[t]
      BY <1>1 DEF Permits
    <2>3. /\ Permits = [t \in Sems |-> Permits[t]]
          /\ Permits' = [t \in Sems |-> Permits'[t]]
      BY DEF Permits
    <2> QED BY <2>1, <2>2, <2>3
  <1>6. s \notin Created /\ Created' = Created \cup {s}
    BY <1>1 DEF Created
  <1> QED BY <1>4, <1>5, <1>6 DEF Fifo!Create

(* sem_destroy is the abstract Destroy.                                    *)
LEMMA FifoDestroy ==
  ASSUME Inductive, Inductive', NEW s \in Sems, InUse(s), semValue[s] >= 0,
         SemDestroy(s)
  PROVE  Fifo!Destroy(s)
  <1>1. /\ TypeOK /\ semState \in [Sems -> {0, 1}]
        /\ semState' = [semState EXCEPT ![s] = 0]
        /\ next' = SelfLinked(next, SemNode(s))
        /\ prev' = SelfLinked(prev, SemNode(s))
        /\ UNCHANGED <<semValue, devValue>> /\ semValue[s] \in Int
    BY DEF Inductive, TypeOK, SemDestroy
  <1>2. Count(SemNode(s)) = 0
    BY <1>1, SemList, DeficitValue
  <1>3. \A g \in Heads : Count(g)' = Count(g)
    BY <1>1 DEF Count, StdInNode
  <1>4. Queues' = Queues /\ Asleep' = Asleep /\ Queues[s] = <<>>
    BY <1>1, <1>2, <1>3, FifoReset
  <1>5. Permits' = Permits
    BY <1>1 DEF Permits
  <1>6. s \in Created /\ Created' = Created \ {s}
    BY <1>1 DEF Created, InUse
  <1> QED BY <1>4, <1>5, <1>6 DEF Fifo!Destroy

(* Steps that leave the semaphores and the pointers alone.                 *)
LEMMA FifoApart ==
  ASSUME Inductive, Inductive', UNCHANGED <<semVars, listVars>>
  PROVE  UNCHANGED Fifo!semaphores
  <1>1. \A h \in Heads \ {StdInNode} : Count(h)' = Count(h)
    BY DEF Count, StdInNode, semVars
  <1>2. \A h \in Heads \ {StdInNode} :
          Members(h)' = Members(h) /\ Order(h)' = Order(h)
    BY <1>1, OrderKept DEF Inductive
  <1> QED BY <1>2, FifoStutter

(* The keyboard interrupt is no step of the semaphores.                    *)
LEMMA FifoKeyboard ==
  ASSUME Inductive, Inductive', KeyboardIrq
  PROVE  UNCHANGED Fifo!semaphores
  <1> DEFINE h == StdInNode
  <1>1. /\ h \in Heads /\ UNCHANGED semVars /\ devValue \in {-1, 0}
        /\ TypeOK /\ ListsExact /\ ListsExact'
    BY HeadPlaces DEF KeyboardIrq, Inductive, ProcInv, WaitPlaces
  <1>2. CASE devValue < 0
    <2>1. devValue = -1 /\ devValue' = 0 /\ WakeOldest(h)
      BY <1>1, <1>2 DEF KeyboardIrq
    <2>2. Count(h) > 0 /\ Count(h)' = Count(h) - 1
      <3>1. Count(h) = Deficit(devValue) /\ Count(h)' = Deficit(devValue')
        BY DEF Count, StdInNode
      <3>2. Deficit(devValue) = 1 /\ Deficit(devValue') = 0
        BY <2>1, DeficitValue
      <3> QED BY <3>1, <3>2
    <2>3. \A g \in Heads \ {h} : Count(g)' = Count(g)
      BY <1>1 DEF Count, StdInNode, semVars
    <2>4. \A g \in Heads \ {h} : Members(g)' = Members(g) /\ Order(g)' = Order(g)
      BY <1>1, <2>1, <2>2, <2>3, OrderDequeued
    <2> QED BY <1>1, <2>4, FifoStutter
  <1>3. CASE ~(devValue < 0)
    <2>1. UNCHANGED listVars
      BY <1>3 DEF KeyboardIrq, WakeNobody
    <2> QED BY <1>1, <2>1, FifoApart
  <1> QED BY <1>2, <1>3

(* A read of stdin is no step of the semaphores.                           *)
LEMMA FifoRead ==
  ASSUME Inductive, Inductive', run[current] = "user", ReadStdIn
  PROVE  UNCHANGED Fifo!semaphores
  <1> DEFINE h == StdInNode
  <1>1. /\ h \in Heads /\ UNCHANGED semVars
        /\ TypeOK /\ ProcInv /\ ListsExact /\ ListsExact'
    BY HeadPlaces DEF ReadStdIn, PlainCall, Inductive
  <1>2. CASE devValue = 0
    <2>1. devValue' = -1 /\ EnqueueCurrent(h)
      BY <1>2 DEF ReadStdIn
    <2>2. Count(h)' = Count(h) + 1
      <3>1. Count(h) = Deficit(devValue) /\ Count(h)' = Deficit(devValue')
        BY DEF Count, StdInNode
      <3>2. Deficit(devValue) = 0 /\ Deficit(devValue') = 1
        BY <1>2, <2>1, DeficitValue
      <3> QED BY <3>1, <3>2
    <2>3. \A g \in Heads \ {h} : Count(g)' = Count(g)
      BY <1>1 DEF Count, StdInNode, semVars
    <2>4. state[current] # "blocked"
      BY <1>1, UserRuns DEF Places
    <2>5. \A g \in Heads \ {h} : Members(g)' = Members(g) /\ Order(g)' = Order(g)
      BY <1>1, <2>1, <2>2, <2>3, <2>4, OrderEnqueued
    <2> QED BY <1>1, <2>5, FifoStutter
  <1>3. CASE devValue # 0
    <2>1. UNCHANGED listVars
      BY <1>3 DEF ReadStdIn, PlainCall, WakeNobody
    <2> QED BY <1>1, <2>1, FifoApart
  <1> QED BY <1>2, <1>3

(* The initial states agree.                                               *)
LEMMA FifoInit == Init => Fifo!Init
  <1> SUFFICES ASSUME Init PROVE Fifo!Init
    OBVIOUS
  <1>1. Created = {} /\ Permits = [s \in Sems |-> 0]
    BY DEF Init, Created, Permits
  <1>2. Queues = [s \in Sems |-> <<>>]
    <2>1. \A s \in Sems : ListOf(prev, SemNode(s), Deficit(semValue[s])) = <<>>
      BY EmptyOrder, DeficitValue DEF Init
    <2> QED BY <2>1 DEF Queues
  <1>3. Asleep = {}
    BY DEF Init, Asleep, Waiters
  <1> QED BY <1>1, <1>2, <1>3 DEF Fifo!Init

(* Every step of disciplined programs is a step of the abstract semaphores *)
(* or none.                                                                *)
LEMMA FifoStep ==
  ASSUME Disciplined
  PROVE  Inductive /\ Inductive' /\ [Next]_vars
           => [Fifo!Next]_(Fifo!semaphores)
  <1> SUFFICES ASSUME Inductive, Inductive', [Next]_vars
               PROVE  Fifo!Next \/ UNCHANGED Fifo!semaphores
    OBVIOUS
  <1>0. current \in Procs /\ semValue \in [Sems -> Int]
    BY DEF Inductive, TypeOK
  <1>1. CASE UNCHANGED vars
    BY <1>1, FifoApart DEF vars
  <1>2. CASE TimerIrq
    BY <1>2, FifoApart DEF TimerIrq
  <1>3. CASE KeyboardIrq
    BY <1>3, FifoKeyboard
  <1>4. CASE IllegalKeyIrq
    BY <1>4, FifoApart DEF IllegalKeyIrq, WakeNobody
  <1>5. CASE ForkEnd
    BY <1>5, FifoApart DEF ForkEnd
  <1>6. CASE Resume
    BY <1>6, FifoApart DEF Resume, SleepReturn, SemWaitReturn, ReadReturn
  <1>7. ASSUME PlainCall PROVE UNCHANGED Fifo!semaphores
    BY <1>7, FifoApart DEF PlainCall, WakeNobody
  <1>8. CASE UserStep
    <2>1. run[current] = "user"
      BY <1>8 DEF UserStep
    <2>2. ASSUME Exit PROVE UNCHANGED Fifo!semaphores
      BY <2>2, FifoApart DEF Exit
    <2>3. ASSUME NEW t \in SleepTimes, Sleep(t)
          PROVE  UNCHANGED Fifo!semaphores
      BY <2>3, <1>7, FifoApart DEF Sleep
    <2>4. ASSUME ForkBegin PROVE UNCHANGED Fifo!semaphores
      BY <2>4, <1>7, FifoApart DEF ForkBegin
    <2>5. ASSUME ReadStdIn PROVE UNCHANGED Fifo!semaphores
      BY <2>1, <2>5, FifoRead
    <2>6. ASSUME NEW v \in SemValues, SemInit(v)
          PROVE  Fifo!Next \/ UNCHANGED Fifo!semaphores
      <3>1. CASE \A s \in Sems : semState[s] # 0
        BY <2>6, <3>1, <1>7 DEF SemInit
      <3>2. CASE ~ \A s \in Sems : semState[s] # 0
        <4>1. PICK s \in Sems :
                /\ semState[s] = 0
                /\ semState' = [semState EXCEPT ![s] = 1]
                /\ semValue' = [semValue EXCEPT ![s] = v]
                /\ next' = SelfLinked(next, SemNode(s))
                /\ prev' = SelfLinked(prev, SemNode(s))
                /\ devValue' = devValue
          BY <2>6, <3>2 DEF SemInit
        <4>2. v \in Nat
          BY DEF Disciplined
        <4>3. Fifo!Create(s, v)
          BY <4>1, <4>2, FifoCreate
        <4> QED BY <4>3 DEF Fifo!Next
      <3> QED BY <3>1, <3>2
    <2>7. ASSUME NEW s \in Sems, InUse(s), SemWait(s) PROVE Fifo!Next
      <3>1. Fifo!Wait(current, s) \/ Fifo!Pass(s)
        BY <2>1, <2>7, FifoWait
      <3> QED BY <1>0, <3>1 DEF Fifo!Next
    <2>8. ASSUME NEW s \in Sems, InUse(s), SemPost(s) PROVE Fifo!Next
      <3>1. Fifo!HandOver(s) \/ Fifo!Release(s)
        BY <2>8, FifoPost
      <3> QED BY <3>1 DEF Fifo!Next
    <2>9. ASSUME NEW s \in Sems, InUse(s), semValue[s] < 0 => DestroyBusy,
                 SemDestroy(s)
          PROVE  Fifo!Next
      <3>1. semValue[s] >= 0
        BY <1>0, <2>9 DEF Disciplined
      <3>2. Fifo!Destroy(s)
        BY <2>9, <3>1, FifoDestroy
      <3> QED BY <3>2 DEF Fifo!Next
    <2> QED
      BY <1>7, <1>8, <2>2, <2>3, <2>4, <2>5, <2>6, <2>7, <2>8, <2>9 DEF UserStep
  <1> QED BY <1>1, <1>2, <1>3, <1>4, <1>5, <1>6, <1>8 DEF Next

(* Whatever disciplined programs do and whenever interrupts come, the      *)
(* values, the pointers and the process states are FIFO counting           *)
(* semaphores: a V wakes the process that has waited longest, and nobody   *)
(* overtakes.                                                              *)
THEOREM FifoImplemented ==
  ASSUME Disciplined
  PROVE  Spec => FifoSpec
  <1>1. Init => Fifo!Init
    BY FifoInit
  <1>2. Inductive /\ Inductive' /\ [Next]_vars
          => [Fifo!Next]_(Fifo!semaphores)
    BY FifoStep
  <1>3. Inductive <=> SafeInv
    BY InductiveIsSafe
  <1> QED
    BY <1>1, <1>2, <1>3, Safety, PTL DEF Spec, FifoSpec, Fifo!Spec

-----------------------------------------------------------------------------
(* The key ring, the loop that drains it, and counts of shift codes and letters. *)

(* What % does below twice the modulus.                                    *)
LEMMA Modulo ==
  ASSUME NEW K \in Nat \ {0}, NEW x \in Nat
  PROVE  /\ x < K => x % K = x
         /\ x >= K /\ x < K + K => x % K = x - K
  OBVIOUS

(* The distance from one cell of a ring to another.                        *)
LEMMA Around ==
  ASSUME NEW K \in Nat \ {0}, NEW h \in 0 .. K - 1, NEW t \in 0 .. K - 1
  PROVE  (t - h + K) % K = IF t < h THEN t - h + K ELSE t - h
  <1> DEFINE x == t - h + K
  <1>1. x \in Nat /\ x < K + K
    OBVIOUS
  <1>2. /\ x < K => x % K = x
        /\ x >= K => x % K = x - K
    BY <1>1, Modulo
  <1> QED BY <1>2

(* The cell k after another one.                                           *)
LEMMA Forward ==
  ASSUME NEW K \in Nat \ {0}, NEW h \in 0 .. K - 1, NEW k \in 0 .. K
  PROVE  (h + k) % K = IF h + k < K THEN h + k ELSE h + k - K
  <1> DEFINE x == h + k
  <1>1. x \in Nat /\ x < K + K
    OBVIOUS
  <1>2. /\ x < K => x % K = x
        /\ x >= K => x % K = x - K
    BY <1>1, Modulo
  <1> QED BY <1>2

(* Positions in the ring.                                                  *)
Place(k) == (bufferHead + k) % KBSize

(* The k-th cell of the ring, with the turn at its end.                    *)
LEMMA PlaceValue ==
  ASSUME KeyboardTypeOK, NEW k \in 0 .. KBSize
  PROVE  /\ Place(k) \in 0 .. KBSize - 1
         /\ bufferHead + k < KBSize => Place(k) = bufferHead + k
         /\ bufferHead + k >= KBSize => Place(k) = bufferHead + k - KBSize
  <1>1. /\ KBSize \in Nat \ {0} /\ bufferHead \in Nat /\ k \in Nat
        /\ bufferHead < KBSize /\ k <= KBSize
    BY Constants DEF KeyboardTypeOK
  <1> DEFINE x == bufferHead + k
  <1>2. x \in Nat /\ x < KBSize + KBSize
    BY <1>1
  <1>3. /\ x < KBSize => x % KBSize = x
        /\ x >= KBSize => x % KBSize = x - KBSize
    BY <1>1, <1>2, Modulo
  <1> QED BY <1>1, <1>2, <1>3 DEF Place

(* How many codes are in the ring, and where the last of them is followed  *)
(* by the tail.                                                            *)
LEMMA PendingValue ==
  ASSUME KeyboardTypeOK
  PROVE  /\ Pending \in 0 .. KBSize - 1
         /\ Place(Pending) = bufferTail
         /\ \A c \in 0 .. Pending : Place(c) = bufferTail <=> c = Pending
         /\ \A c \in 0 .. KBSize - 1 : Place(c + 1) = (Place(c) + 1) % KBSize
  <1>1. /\ KBSize \in Nat \ {0} /\ bufferHead \in 0 .. KBSize - 1
        /\ bufferTail \in 0 .. KBSize - 1
    BY Constants DEF KeyboardTypeOK
  <1> DEFINE x == bufferTail - bufferHead + KBSize
  <1>2. x \in Nat /\ x < KBSize + KBSize
    BY <1>1
  <1>3. /\ x < KBSize => x % KBSize = x
        /\ x >= KBSize => x % KBSize = x - KBSize
    BY <1>1, <1>2, Modulo
  <1>4. Pending = IF bufferTail < bufferHead THEN bufferTail - bufferHead + KBSize
                  ELSE bufferTail - bufferHead
    BY <1>1, <1>2, <1>3 DEF Pending
  <1>5. Pending \in 0 .. KBSize - 1
    BY <1>1, <1>4
  <1>6. \A k \in 0 .. KBSize :
          /\ bufferHead + k < KBSize => Place(k) = bufferHead + k
          /\ bufferHead + k >= KBSize => Place(k) = bufferHead + k - KBSize
    BY PlaceValue
  <1>7. \A c \in 0 .. Pending : Place(c) = bufferTail <=> c = Pending
    BY <1>1, <1>4, <1>5, <1>6
  <1>8. ASSUME NEW c \in 0 .. KBSize - 1
        PROVE  Place(c + 1) = (Place(c) + 1) % KBSize
    <2>1. Place(c) \in 0 .. KBSize - 1
      BY <1>1, <1>6
    <2>2. /\ Place(c) + 1 < KBSize => (Place(c) + 1) % KBSize = Place(c) + 1
          /\ Place(c) + 1 >= KBSize => (Place(c) + 1) % KBSize = Place(c) + 1 - KBSize
      BY <1>1, <2>1, Modulo
    <2> QED BY <1>1, <1>6, <2>1, <2>2
  <1> QED BY <1>5, <1>7, <1>8

(* Counting what is in A among the first numbers.                          *)
CountIn(A, lo, hi) == Cardinality({k \in lo .. hi : k \in A})

(* A count over an interval that grows by one.                             *)
LEMMA CountOneMore ==
  ASSUME NEW A, NEW lo \in Int, NEW hi \in Int, hi >= lo
  PROVE  /\ CountIn(A, lo, hi - 1) \in Nat
         /\ CountIn(A, lo, hi) = IF hi \in A THEN CountIn(A, lo, hi - 1) + 1
                                 ELSE CountIn(A, lo, hi - 1)
  <1> DEFINE S == {k \in lo .. hi - 1 : k \in A}
  <1>1. IsFiniteSet(S)
    <2>1. IsFiniteSet(lo .. hi - 1)
      BY FS_Interval
    <2> QED BY <2>1, FS_Subset
  <1>2. CountIn(A, lo, hi - 1) = Cardinality(S) /\ Cardinality(S) \in Nat
    BY <1>1, FS_CardinalityType DEF CountIn
  <1>3. CASE hi \in A
    <2>1. {k \in lo .. hi : k \in A} = S \cup {hi} /\ hi \notin S
      BY <1>3
    <2>2. Cardinality(S \cup {hi}) = Cardinality(S) + 1
      BY <1>1, <2>1, FS_AddElement
    <2> QED BY <1>2, <1>3, <2>1, <2>2 DEF CountIn
  <1>4. CASE hi \notin A
    <2>1. {k \in lo .. hi : k \in A} = S
      BY <1>4
    <2> QED BY <1>2, <1>4, <2>1 DEF CountIn
  <1> QED BY <1>3, <1>4

(* Shifts(n) counts any set equal to its own.                              *)
LEMMA ShiftsIs ==
  ASSUME NEW n, NEW S,
         {k \in 0 .. n - 1 : keyBuffer[(bufferHead + k) % KBSize] = "shift"} = S
  PROVE  Shifts(n) = Cardinality(S)
  BY Zenon DEF Shifts

(* Shifts(n) counts one code at a time.                                    *)
LEMMA ShiftsCount ==
  /\ Shifts(0) = 0
  /\ \A n \in Nat : /\ Shifts(n) \in Nat
                   /\ Shifts(n + 1) = IF keyBuffer[Place(n)] = "shift"
                                      THEN Shifts(n) + 1 ELSE Shifts(n)
  <1>1. Shifts(0) = 0
    <2>1. {k \in 0 .. 0 - 1 : keyBuffer[(bufferHead + k) % KBSize] = "shift"} = {}
      OBVIOUS
    <2>2. Shifts(0) = Cardinality({})
      BY <2>1, ShiftsIs
    <2> QED BY <2>2, FS_EmptySet
  <1>2. ASSUME NEW n \in Nat
        PROVE  /\ Shifts(n) \in Nat
               /\ Shifts(n + 1) = IF keyBuffer[Place(n)] = "shift"
                                  THEN Shifts(n) + 1 ELSE Shifts(n)
    <2> DEFINE A == {k \in Nat : keyBuffer[(bufferHead + k) % KBSize] = "shift"}
    <2>1. /\ {k \in 0 .. n - 1 : keyBuffer[(bufferHead + k) % KBSize] = "shift"}
               = {k \in 0 .. n - 1 : k \in A}
          /\ {k \in 0 .. n + 1 - 1 : keyBuffer[(bufferHead + k) % KBSize] = "shift"}
               = {k \in 0 .. n : k \in A}
      OBVIOUS
    <2>2. n \in A <=> keyBuffer[Place(n)] = "shift"
      BY DEF Place
    <2> HIDE DEF A
    <2>3. Shifts(n) = CountIn(A, 0, n - 1)
      BY <2>1, ShiftsIs DEF CountIn
    <2>4. Shifts(n + 1) = CountIn(A, 0, n)
      BY <2>1, ShiftsIs DEF CountIn
    <2>5. n \in Int /\ 0 \in Int /\ n >= 0
      OBVIOUS
    <2>6. /\ CountIn(A, 0, n - 1) \in Nat
          /\ CountIn(A, 0, n) = IF n \in A THEN CountIn(A, 0, n - 1) + 1
                                ELSE CountIn(A, 0, n - 1)
      BY <2>5, CountOneMore
    <2> QED BY <2>2, <2>3, <2>4, <2>6
  <1> QED BY <1>1, <1>2

(* Letters(n) counts any set equal to its own.                             *)
LEMMA LettersIs ==
  ASSUME NEW n, NEW S, {k \in 1 .. n : Typed[k] \in {"key"}} = S
  PROVE  Ahead!Letters(n) = Cardinality(S)
  <1>1. Ahead!Cardinality(S) = Cardinality(S)
    BY Zenon DEF Ahead!Cardinality, Cardinality
  <1> QED BY Zenon, <1>1 DEF Ahead!Letters

(* Letters(n) counts one code at a time.                                   *)
LEMMA LettersCount ==
  ASSUME KeyboardTypeOK
  PROVE  /\ Ahead!Letters(0) = 0
         /\ \A n \in 0 .. Pending - 1 :
              /\ Ahead!Letters(n) \in Nat
              /\ Ahead!Letters(n + 1) = IF keyBuffer[Place(n)] = "key"
                                        THEN Ahead!Letters(n) + 1
                                        ELSE Ahead!Letters(n)
  <1>1. Ahead!Letters(0) = 0
    <2>1. {k \in 1 .. 0 : Typed[k] \in {"key"}} = {}
      OBVIOUS
    <2>2. Ahead!Letters(0) = Cardinality({})
      BY <2>1, LettersIs
    <2> QED BY <2>2, FS_EmptySet
  <1>2. ASSUME NEW n \in 0 .. Pending - 1
        PROVE  /\ Ahead!Letters(n) \in Nat
               /\ Ahead!Letters(n + 1) = IF keyBuffer[Place(n)] = "key"
                                         THEN Ahead!Letters(n) + 1
                                         ELSE Ahead!Letters(n)
    <2> DEFINE A == {k \in Nat : Typed[k] \in {"key"}}
    <2>0. Pending \in 0 .. KBSize - 1
      BY PendingValue
    <2>1. /\ {k \in 1 .. n : Typed[k] \in {"key"}} = {k \in 1 .. n : k \in A}
          /\ {k \in 1 .. n + 1 : Typed[k] \in {"key"}}
               = {k \in 1 .. n + 1 : k \in A}
      OBVIOUS
    <2>2. n + 1 \in A <=> keyBuffer[Place(n)] = "key"
      <3>1. /\ n + 1 \in 1 .. Pending
            /\ bufferHead + (n + 1) - 1 = bufferHead + n
        BY <2>0, Constants DEF KeyboardTypeOK
      <3> QED BY <3>1 DEF Typed, Place
    <2> HIDE DEF A
    <2>3. n + 1 \in Int /\ 1 \in Int /\ n + 1 >= 1 /\ (n + 1) - 1 = n
      BY <2>0
    <2>4. Ahead!Letters(n) = CountIn(A, 1, n)
      BY <2>1, LettersIs DEF CountIn
    <2>5. Ahead!Letters(n + 1) = CountIn(A, 1, n + 1)
      BY <2>1, LettersIs DEF CountIn
    <2>6. /\ CountIn(A, 1, (n + 1) - 1) \in Nat
          /\ CountIn(A, 1, n + 1) = IF n + 1 \in A THEN CountIn(A, 1, (n + 1) - 1) + 1
                                    ELSE CountIn(A, 1, (n + 1) - 1)
      BY <2>3, CountOneMore
    <2> QED BY <2>2, <2>3, <2>4, <2>5, <2>6
  <1> QED BY <1>1, <1>2

-----------------------------------------------------------------------------
(* What a code does to the table, counted against capslock.                *)
Turned(t, s) == ~((t = "U") <=> (s # 0))

(* getChar turns the case over exactly at a shift code, and returns a      *)
(* character exactly at a key.                                             *)
LEMMA GetCharTurns ==
  ASSUME NEW code \in CodeClasses, NEW t \in {"L", "U"}, NEW s \in 0 .. 2,
         NEW g, g = GetChar(code, t, s)
  PROVE  /\ g.table \in {"L", "U"} /\ g.caps \in 0 .. 2
         /\ g.char = NoChar <=> code # "key"
         /\ ~(Turned(g.table, g.caps) <=> Turned(t, s)) <=> code = "shift"
  BY DEF GetChar, Turned, CodeClasses, OtherTable, NoChar

(* The parity of a successor.                                              *)
LEMMA Parity == ASSUME NEW n \in Nat PROVE (n + 1) % 2 = 1 <=> ~(n % 2 = 1)
  OBVIOUS

LoopStart == [head |-> bufferHead, table |-> keyTable, caps |-> keyboardState,
              i |-> 0]

IsLoop(g) == g = [k \in 0 .. KBSize |->
                    IF k = 0 THEN LoopStart ELSE ReadRound(g[k - 1], ReadSize)]

(* A round of the loop keeps the types of its locals.                      *)
LEMMA RoundType ==
  ASSUME KeyboardTypeOK, NEW r \in LoopStates(ReadSize)
  PROVE  ReadRound(r, ReadSize) \in LoopStates(ReadSize)
  <1>1. /\ KBSize \in Nat \ {0} /\ ReadSize \in Nat \ {0}
        /\ r.head \in 0 .. KBSize - 1 /\ r.table \in {"L", "U"}
        /\ r.caps \in 0 .. 2 /\ r.i \in 0 .. ReadSize - 1
        /\ keyBuffer[r.head] \in CodeClasses
    BY Constants DEF KeyboardTypeOK, LoopStates
  <1>2. CASE r.i >= ReadSize - 1 \/ r.head = bufferTail
    BY <1>2 DEF ReadRound
  <1>3. CASE ~(r.i >= ReadSize - 1 \/ r.head = bufferTail)
    <2> DEFINE g == GetChar(keyBuffer[r.head], r.table, r.caps)
    <2>1. g.table \in {"L", "U"} /\ g.caps \in 0 .. 2
      BY <1>1, GetCharTurns
    <2>2. (r.head + 1) % KBSize \in 0 .. KBSize - 1
      BY <1>1, RingPosition
    <2>3. r.i + 1 \in 0 .. ReadSize - 1
      BY <1>1, <1>3
    <2>4. ReadRound(r, ReadSize)
            = [head |-> (r.head + 1) % KBSize, table |-> g.table, caps |-> g.caps,
               i |-> IF g.char = NoChar THEN r.i ELSE r.i + 1]
      BY <1>3 DEF ReadRound
    <2> HIDE DEF g
    <2> QED BY <1>1, <2>1, <2>2, <2>3, <2>4 DEF LoopStates
  <1> QED BY <1>2, <1>3

(* The loop is a function of the number of rounds.                         *)
LEMMA LoopIs ==
  ASSUME KeyboardTypeOK
  PROVE  \E g : IsLoop(g) /\ ReadLoop(ReadSize) = g[KBSize]
  <1> DEFINE F == [r \in LoopStates(ReadSize) |-> ReadRound(r, ReadSize)]
  <1>1. KBSize \in Nat /\ ReadSize \in Nat \ {0}
    BY Constants
  <1>2. PICK g : WalkOf(g, F, LoopStart, KBSize)
    BY <1>1, WalksExist
  <1>3. \A k \in 0 .. KBSize : g[k] = IF k = 0 THEN LoopStart ELSE F[g[k - 1]]
    BY <1>2 DEF WalkOf
  <1>4. LoopStart \in LoopStates(ReadSize)
    BY <1>1 DEF LoopStart, LoopStates, KeyboardTypeOK
  <1> DEFINE T == {k \in Nat : k <= KBSize => g[k] \in LoopStates(ReadSize)}
  <1>5. \A k \in Nat : k \in T
    <2>1. 0 \in T
      <3> HIDE DEF F
      <3> QED BY <1>1, <1>3, <1>4
    <2>2. ASSUME NEW k \in Nat, k \in T PROVE k + 1 \in T
      <3> SUFFICES ASSUME k + 1 <= KBSize PROVE g[k + 1] \in LoopStates(ReadSize)
        OBVIOUS
      <3>1. g[k] \in LoopStates(ReadSize)
        BY <1>1, <2>2
      <3>2. g[k + 1] = F[g[k]]
        <4>1. k + 1 \in 0 .. KBSize /\ k + 1 # 0 /\ (k + 1) - 1 = k
          BY <1>1
        <4> HIDE DEF F
        <4> QED BY <1>3, <4>1
      <3> QED BY <3>1, <3>2, RoundType
    <2> HIDE DEF T
    <2> QED BY <2>1, <2>2, SetInduction
  <1>6. IsLoop(g)
    <2>1. ASSUME NEW k \in 0 .. KBSize, k # 0
          PROVE  F[g[k - 1]] = ReadRound(g[k - 1], ReadSize)
      <3>1. k - 1 \in Nat /\ k - 1 <= KBSize
        BY <1>1, <2>1
      <3>2. g[k - 1] \in LoopStates(ReadSize)
        BY <1>5, <3>1
      <3> QED BY <3>2
    <2> HIDE DEF F
    <2>2. g = [k \in 0 .. KBSize |-> IF k = 0 THEN LoopStart ELSE F[g[k - 1]]]
      BY <1>2 DEF WalkOf
    <2>3. [k \in 0 .. KBSize |-> IF k = 0 THEN LoopStart ELSE F[g[k - 1]]]
          = [k \in 0 .. KBSize |-> IF k = 0 THEN LoopStart
                                    ELSE ReadRound(g[k - 1], ReadSize)]
      BY <2>1
    <2> QED BY <2>2, <2>3 DEF IsLoop
  <1>7. ReadLoop(ReadSize) = (CHOOSE f : IsLoop(f))[KBSize]
    BY DEF ReadLoop, IsLoop, LoopStart
  <1> HIDE DEF F, T
  <1>8. IsLoop(CHOOSE f : IsLoop(f))
    BY <1>6
  <1> QED BY <1>7, <1>8

(* The loop after it took c codes.                                         *)
Drained(r, c) ==
  /\ r \in LoopStates(ReadSize) /\ c \in 0 .. Pending
  /\ r.head = Place(c) /\ r.i = Ahead!Letters(c)
  /\ \A m \in 0 .. c - 1 : Ahead!Letters(m) < ReadSize - 1
  /\ ~(Turned(r.table, r.caps) <=> Turned(keyTable, keyboardState))
       <=> Shifts(c) % 2 = 1

Stopped(r) == r.i >= ReadSize - 1 \/ r.head = bufferTail

(* A round takes one code more, and keeps what the locals say of those     *)
(* taken.                                                                  *)
LEMMA RoundDrains ==
  ASSUME KeyboardTypeOK, NEW r, NEW c, Drained(r, c), ~Stopped(r)
  PROVE  Drained(ReadRound(r, ReadSize), c + 1)
  <1>1. /\ KBSize \in Nat \ {0} /\ ReadSize \in Nat \ {0}
        /\ r.head \in 0 .. KBSize - 1 /\ r.table \in {"L", "U"}
        /\ r.caps \in 0 .. 2 /\ r.i \in 0 .. ReadSize - 1
        /\ keyBuffer[r.head] \in CodeClasses
    BY Constants DEF KeyboardTypeOK, LoopStates, Drained
  <1>2. /\ Pending \in 0 .. KBSize - 1 /\ c \in 0 .. Pending /\ r.head = Place(c)
        /\ r.i = Ahead!Letters(c) /\ ~(r.i >= ReadSize - 1)
    BY PendingValue DEF Drained, Stopped
  <1>3. c # Pending
    BY <1>2, PendingValue DEF Stopped
  <1>4. /\ c \in 0 .. Pending - 1 /\ c \in Nat /\ c + 1 \in 0 .. Pending
        /\ c \in 0 .. KBSize - 1
    BY <1>1, <1>2, <1>3
  <1> DEFINE g == GetChar(keyBuffer[r.head], r.table, r.caps)
             r2 == ReadRound(r, ReadSize)
  <1>5. r2 \in LoopStates(ReadSize)
    BY RoundType DEF Drained
  <1>6. r2 = [head |-> (r.head + 1) % KBSize, table |-> g.table, caps |-> g.caps,
              i |-> IF g.char = NoChar THEN r.i ELSE r.i + 1]
    BY <1>2 DEF ReadRound, Stopped
  <1>7. /\ g.char = NoChar <=> keyBuffer[Place(c)] # "key"
        /\ ~(Turned(g.table, g.caps) <=> Turned(r.table, r.caps))
             <=> keyBuffer[Place(c)] = "shift"
    BY <1>1, <1>2, GetCharTurns
  <1> HIDE DEF g, r2
  <1>8. r2.head = Place(c + 1)
    BY <1>2, <1>4, <1>6, PendingValue
  <1>9. r2.i = Ahead!Letters(c + 1)
    <2>1. Ahead!Letters(c + 1) = IF keyBuffer[Place(c)] = "key"
                                 THEN Ahead!Letters(c) + 1 ELSE Ahead!Letters(c)
      BY <1>4, LettersCount
    <2> QED BY <1>2, <1>6, <1>7, <2>1
  <1>10. ASSUME NEW m \in 0 .. (c + 1) - 1 PROVE Ahead!Letters(m) < ReadSize - 1
    <2>1. CASE m = c
      <3>1. r.i \in Int /\ ReadSize - 1 \in Int
        BY <1>1
      <3> QED BY <1>2, <2>1, <3>1
    <2>2. CASE m # c
      <3>1. m \in 0 .. c - 1
        BY <1>4, <2>2
      <3> QED BY <3>1 DEF Drained
    <2> QED BY <2>1, <2>2
  <1>11. ~(Turned(r2.table, r2.caps) <=> Turned(keyTable, keyboardState))
          <=> Shifts(c + 1) % 2 = 1
    <2>1. ~(Turned(r.table, r.caps) <=> Turned(keyTable, keyboardState))
            <=> Shifts(c) % 2 = 1
      BY DEF Drained
    <2>2. /\ Shifts(c) \in Nat
          /\ Shifts(c + 1) = IF keyBuffer[Place(c)] = "shift"
                             THEN Shifts(c) + 1 ELSE Shifts(c)
      BY <1>4, ShiftsCount
    <2>3. (Shifts(c) + 1) % 2 = 1 <=> ~(Shifts(c) % 2 = 1)
      BY <2>2, Parity
    <2>4. r2.table = g.table /\ r2.caps = g.caps
      BY <1>6
    <2> QED BY <1>7, <2>1, <2>2, <2>3, <2>4
  <1> QED BY <1>4, <1>5, <1>8, <1>9, <1>10, <1>11 DEF Drained, r2

(* The loop ends with the line full or the ring empty, after as many       *)
(* rounds as codes it took.                                                *)
LEMMA LoopDrains ==
  ASSUME KeyboardTypeOK
  PROVE  \E c \in 0 .. Pending : /\ Drained(ReadLoop(ReadSize), c)
                                 /\ Stopped(ReadLoop(ReadSize))
  <1>1. PICK g : IsLoop(g) /\ ReadLoop(ReadSize) = g[KBSize]
    BY LoopIs
  <1>2. /\ KBSize \in Nat \ {0} /\ ReadSize \in Nat \ {0}
        /\ Pending \in 0 .. KBSize - 1
    BY Constants, PendingValue
  <1> DEFINE T == {k \in Nat : k <= KBSize =>
                     \E c \in 0 .. Pending : Drained(g[k], c) /\ (c = k \/ Stopped(g[k]))}
  <1>3. 0 \in T
    <2>1. g[0] = LoopStart
      BY <1>1, <1>2 DEF IsLoop
    <2>2. LoopStart \in LoopStates(ReadSize)
      BY <1>2 DEF LoopStart, LoopStates, KeyboardTypeOK
    <2>3. Place(0) = bufferHead
      <3>1. bufferHead \in Nat /\ bufferHead + 0 = bufferHead /\ bufferHead < KBSize
            /\ 0 \in 0 .. KBSize
        BY <1>2 DEF KeyboardTypeOK
      <3> QED BY <3>1, PlaceValue
    <2>4. ~(Shifts(0) % 2 = 1)
      <3>1. ~(0 % 2 = 1)
        OBVIOUS
      <3> QED BY <3>1, ShiftsCount
    <2>5. /\ LoopStart.head = bufferHead /\ LoopStart.i = 0
          /\ LoopStart.table = keyTable /\ LoopStart.caps = keyboardState
      BY DEF LoopStart
    <2>6. Ahead!Letters(0) = 0
      BY LettersCount
    <2>7. Drained(LoopStart, 0)
      BY <1>2, <2>2, <2>3, <2>4, <2>5, <2>6 DEF Drained
    <2> QED BY <1>2, <2>1, <2>7
  <1>4. ASSUME NEW k \in Nat, k \in T PROVE k + 1 \in T
    <2> SUFFICES ASSUME k + 1 <= KBSize
                 PROVE  \E c \in 0 .. Pending :
                          /\ Drained(g[k + 1], c)
                          /\ c = k + 1 \/ Stopped(g[k + 1])
      OBVIOUS
    <2>1. PICK c \in 0 .. Pending : Drained(g[k], c) /\ (c = k \/ Stopped(g[k]))
      BY <1>2, <1>4
    <2>2. g[k + 1] = ReadRound(g[k], ReadSize)
      <3>1. k + 1 \in 0 .. KBSize /\ k + 1 # 0 /\ (k + 1) - 1 = k
        BY <1>2
      <3> QED BY <1>1, <3>1 DEF IsLoop
    <2>3. CASE Stopped(g[k])
      <3>1. g[k + 1] = g[k]
        BY <2>2, <2>3 DEF ReadRound, Stopped
      <3> QED BY <2>1, <2>3, <3>1
    <2>4. CASE ~Stopped(g[k])
      <3>1. Drained(g[k + 1], k + 1)
        BY <2>1, <2>2, <2>4, RoundDrains
      <3>2. k + 1 \in 0 .. Pending
        BY <3>1 DEF Drained
      <3> QED BY <3>1, <3>2
    <2> QED BY <2>3, <2>4
  <1> HIDE DEF T
  <1>5. \A k \in Nat : k \in T
    BY <1>3, <1>4, SetInduction
  <1>6. PICK c \in 0 .. Pending :
          Drained(g[KBSize], c) /\ (c = KBSize \/ Stopped(g[KBSize]))
    BY <1>2, <1>5 DEF T
  <1>7. c # KBSize
    BY <1>2
  <1> QED BY <1>1, <1>6, <1>7

(* What is typed is a sequence of codes.                                   *)
LEMMA TypedType ==
  ASSUME KeyboardTypeOK
  PROVE  /\ Typed \in [1 .. Pending -> CodeClasses] /\ Len(Typed) = Pending
         /\ Typed \in Seq(CodeClasses)
  <1>1. /\ KBSize \in Nat \ {0} /\ bufferHead \in 0 .. KBSize - 1
        /\ Pending \in 0 .. KBSize - 1
        /\ keyBuffer \in [0 .. KBSize - 1 -> CodeClasses]
    BY Constants, PendingValue DEF KeyboardTypeOK
  <1>2. \A k \in 1 .. Pending : (bufferHead + k - 1) % KBSize \in 0 .. KBSize - 1
    BY <1>1
  <1>3. Typed \in [1 .. Pending -> CodeClasses]
    BY <1>1, <1>2 DEF Typed
  <1>4. Pending \in Nat
    BY <1>1
  <1> QED BY <1>3, <1>4, SeqOfFunction

(* What a read does to the ring and to the table.                          *)
LEMMA DrainEffect ==
  ASSUME KeyboardTypeOK, DrainKeys(ReadSize)
  PROVE  \E c \in 0 .. Pending :
           /\ bufferHead' = Place(c) /\ bufferTail' = bufferTail
           /\ keyBuffer' = keyBuffer
           /\ Ahead!IsLine(c)
           /\ ~(Reversed' <=> Reversed) <=> Shifts(c) % 2 = 1
  <1>1. PICK c \in 0 .. Pending : /\ Drained(ReadLoop(ReadSize), c)
                                 /\ Stopped(ReadLoop(ReadSize))
    BY LoopDrains
  <1> DEFINE r == ReadLoop(ReadSize)
  <1>2. /\ bufferHead' = r.head /\ keyTable' = r.table /\ keyboardState' = r.caps
        /\ keyBuffer' = keyBuffer /\ bufferTail' = bufferTail
    BY DEF DrainKeys
  <1> HIDE DEF r
  <1>3. /\ Reversed <=> Turned(keyTable, keyboardState)
        /\ Reversed' <=> Turned(r.table, r.caps)
    <2>1. Reversed <=> Turned(keyTable, keyboardState)
      BY DEF Reversed, Turned
    <2>2. Reversed' <=> Turned(keyTable', keyboardState')
      BY DEF Reversed, Turned
    <2> QED BY <1>2, <2>1, <2>2
  <1>4. /\ Drained(r, c) /\ Stopped(r)
    BY <1>1 DEF r
  <1>5. Ahead!IsLine(c)
    <2>1. Len(Typed) = Pending
      <3>1. Pending \in Nat
        BY PendingValue
      <3> QED BY <3>1 DEF Typed
    <2>2. c = Pending \/ Ahead!Letters(c) = ReadSize - 1
      <3>1. /\ r.i \in 0 .. ReadSize - 1 /\ ReadSize \in Nat \ {0}
            /\ r.i = Ahead!Letters(c) /\ r.head = Place(c)
        BY <1>4, Constants DEF Drained, LoopStates
      <3>2. r.head = bufferTail => c = Pending
        BY <3>1, PendingValue
      <3>3. r.i >= ReadSize - 1 => r.i = ReadSize - 1
        BY <3>1
      <3> QED BY <1>4, <3>1, <3>2, <3>3 DEF Stopped
    <2>3. \A m \in 0 .. c - 1 : Ahead!Letters(m) < ReadSize - 1
      BY <1>4 DEF Drained
    <2> QED BY <2>1, <2>2, <2>3 DEF Ahead!IsLine
  <1> QED BY <1>2, <1>3, <1>4, <1>5 DEF Drained

(* How far the head has moved is how many codes were taken.                *)
LEMMA PlaceTaken ==
  ASSUME KeyboardTypeOK, NEW c \in 0 .. KBSize - 1, bufferHead' = Place(c)
  PROVE  Taken = c
  <1>1. /\ KBSize \in Nat \ {0} /\ bufferHead \in 0 .. KBSize - 1
        /\ c \in 0 .. KBSize
    BY Constants DEF KeyboardTypeOK
  <1>2. /\ bufferHead + c < KBSize => Place(c) = bufferHead + c
        /\ bufferHead + c >= KBSize => Place(c) = bufferHead + c - KBSize
    BY <1>1, PlaceValue
  <1>3. bufferHead' \in 0 .. KBSize - 1
    BY <1>1, <1>2
  <1>4. Taken = IF bufferHead' < bufferHead THEN bufferHead' - bufferHead + KBSize
                ELSE bufferHead' - bufferHead
    BY <1>1, <1>3, Around DEF Taken
  <1> QED BY <1>1, <1>2, <1>4

(* A read takes the oldest codes.                                          *)
LEMMA TypedDrained ==
  ASSUME KeyboardTypeOK, KeyboardTypeOK', NEW c \in 0 .. Pending,
         bufferHead' = Place(c), bufferTail' = bufferTail, keyBuffer' = keyBuffer
  PROVE  Typed' = SubSeq(Typed, c + 1, Len(Typed))
  <1>1. /\ KBSize \in Nat \ {0} /\ bufferHead \in 0 .. KBSize - 1
        /\ bufferTail \in 0 .. KBSize - 1 /\ Pending \in 0 .. KBSize - 1
        /\ c \in 0 .. KBSize
    BY Constants, PendingValue DEF KeyboardTypeOK
  <1>2. \A k \in 0 .. KBSize :
          /\ bufferHead + k < KBSize => Place(k) = bufferHead + k
          /\ bufferHead + k >= KBSize => Place(k) = bufferHead + k - KBSize
    BY PlaceValue
  <1> DEFINE P2 == Pending - c
  <1>3. /\ P2 \in 0 .. KBSize - 1
        /\ \A k \in 0 .. P2 : (bufferHead' + k) % KBSize = Place(c + k)
    <2>1. P2 \in 0 .. KBSize - 1
      BY <1>1
    <2>2. ASSUME NEW k \in 0 .. P2
          PROVE  (bufferHead' + k) % KBSize = Place(c + k)
      <3>1. /\ c + k \in 0 .. KBSize /\ bufferHead' \in 0 .. KBSize - 1
            /\ k \in 0 .. KBSize
        BY <1>1, <1>2
      <3>2. (bufferHead' + k) % KBSize = IF bufferHead' + k < KBSize THEN bufferHead' + k
                                         ELSE bufferHead' + k - KBSize
        BY <1>1, <3>1, Forward
      <3> HIDE DEF P2
      <3>3. IF bufferHead' + k < KBSize THEN Place(c + k) = bufferHead' + k
            ELSE Place(c + k) = bufferHead' + k - KBSize
        BY <1>1, <1>2, <3>1
      <3> QED BY <3>2, <3>3
    <2> QED BY <2>1, <2>2
  <1>4. Pending' = P2
    <2>1. Place(Pending) = bufferTail
      BY PendingValue
    <2>2. /\ Place(c) = bufferHead' /\ bufferHead' \in 0 .. KBSize - 1
      BY <1>1, <1>2
    <2>3. Pending' = IF bufferTail < bufferHead' THEN bufferTail - bufferHead' + KBSize
                     ELSE bufferTail - bufferHead'
      BY <1>1, <2>2, Around DEF Pending
    <2>4. /\ Place(c) = IF bufferHead + c < KBSize THEN bufferHead + c
                       ELSE bufferHead + c - KBSize
          /\ Place(Pending) = IF bufferHead + Pending < KBSize THEN bufferHead + Pending
                             ELSE bufferHead + Pending - KBSize
      BY <1>1, <1>2
    <2> QED BY <1>1, <2>1, <2>2, <2>3, <2>4
  <1>5. Len(Typed) = Pending /\ Typed \in Seq(CodeClasses)
    BY TypedType
  <1>6. ASSUME NEW k \in 1 .. P2
        PROVE  keyBuffer'[(bufferHead' + k - 1) % KBSize] = Typed[c + k]
    <2>1. k - 1 \in 0 .. P2 /\ c + k \in 1 .. Pending
          /\ c + (k - 1) = (c + k) - 1
          /\ bufferHead' + k - 1 = bufferHead' + (k - 1)
          /\ bufferHead + (c + k) - 1 = bufferHead + ((c + k) - 1)
      BY <1>1, <1>2, <1>3
    <2>2. (bufferHead' + k - 1) % KBSize = Place((c + k) - 1)
      BY <1>3, <2>1
    <2>3. Typed[c + k] = keyBuffer[Place((c + k) - 1)]
      BY <2>1 DEF Typed, Place
    <2> QED BY <2>2, <2>3
  <1>7. Typed' = [k \in 1 .. P2 |-> Typed[c + k]]
    <2>1. Typed' = [k \in 1 .. P2 |-> keyBuffer'[(bufferHead' + k - 1) % KBSize]]
      BY <1>4 DEF Typed
    <2> HIDE DEF P2
    <2> QED BY <2>1, <1>6
  <1>8. SubSeq(Typed, c + 1, Len(Typed)) = [k \in 1 .. P2 |-> Typed[c + k]]
    <2>1. Pending - (c + 1) + 1 = P2 /\ \A k \in 1 .. P2 : (c + 1) + k - 1 = c + k
      BY <1>1
    <2> QED BY <1>5, <2>1
  <1> QED BY <1>7, <1>8

(* A key is appended; one more than the ring holds makes it look empty.    *)
LEMMA TypedStored ==
  ASSUME KeyboardTypeOK, NEW code \in KeyCodes, StoreKey(code)
  PROVE  Typed' = IF Len(Typed) = KBSize - 1 THEN <<>> ELSE Append(Typed, code)
  <1>0. /\ KBSize \in Nat \ {0} /\ bufferHead \in 0 .. KBSize - 1
        /\ bufferTail \in 0 .. KBSize - 1 /\ Pending \in 0 .. KBSize - 1
        /\ KBSize > 1 /\ 1 \in 0 .. KBSize
    BY Constants, PendingValue DEF KeyboardTypeOK
  <1>1. /\ bufferHead' = bufferHead /\ bufferTail' = (bufferTail + 1) % KBSize
        /\ keyBuffer' = [keyBuffer EXCEPT ![bufferTail] = code]
        /\ keyBuffer \in [0 .. KBSize - 1 -> CodeClasses]
    BY DEF KeyboardTypeOK, StoreKey
  <1>2. /\ \A k \in 0 .. KBSize :
             /\ Place(k) \in 0 .. KBSize - 1
             /\ bufferHead + k < KBSize => Place(k) = bufferHead + k
             /\ bufferHead + k >= KBSize => Place(k) = bufferHead + k - KBSize
        /\ Place(Pending) = bufferTail
        /\ \A k \in 0 .. Pending : Place(k) = bufferTail <=> k = Pending
    BY <1>0, PlaceValue, PendingValue
  <1>3. Len(Typed) = Pending /\ Typed \in [1 .. Pending -> CodeClasses]
    BY TypedType
  <1>4. Pending' = IF Pending = KBSize - 1 THEN 0 ELSE Pending + 1
    <2>1. (bufferTail + 1) % KBSize = IF bufferTail + 1 < KBSize THEN bufferTail + 1
                                     ELSE bufferTail + 1 - KBSize
      BY <1>0, Forward
    <2>2. bufferTail' = IF bufferTail + 1 < KBSize THEN bufferTail + 1 ELSE 0
      BY <1>0, <1>1, <2>1
    <2>3. Pending' = IF bufferTail' < bufferHead THEN bufferTail' - bufferHead + KBSize
                     ELSE bufferTail' - bufferHead
      <3>1. bufferTail' \in 0 .. KBSize - 1
        BY <1>0, <2>2
      <3> QED BY <1>0, <1>1, <3>1, Around DEF Pending
    <2>4. bufferTail = IF bufferHead + Pending < KBSize THEN bufferHead + Pending
                       ELSE bufferHead + Pending - KBSize
      BY <1>0, <1>2
    <2> QED BY <1>0, <2>2, <2>3, <2>4
  <1>5. CASE Pending = KBSize - 1
    <2>1. Typed' = [k \in 1 .. 0 |-> keyBuffer'[(bufferHead' + k - 1) % KBSize]]
      BY <1>4, <1>5 DEF Typed
    <2>2. Typed' = <<>>
      BY <2>1
    <2> QED BY <1>3, <1>5, <2>2
  <1>6. CASE Pending # KBSize - 1
    <2>1. Typed' = [k \in 1 .. Pending + 1 |-> keyBuffer'[(bufferHead + k - 1) % KBSize]]
      BY <1>0, <1>1, <1>4, <1>6 DEF Typed
    <2>2. ASSUME NEW k \in 1 .. Pending + 1
          PROVE  keyBuffer'[(bufferHead + k - 1) % KBSize]
                   = IF k = Pending + 1 THEN code ELSE Typed[k]
      <3>1. /\ k - 1 \in 0 .. Pending /\ k - 1 \in 0 .. KBSize
            /\ bufferHead + k - 1 = bufferHead + (k - 1)
            /\ k - 1 = Pending <=> k = Pending + 1
            /\ k # Pending + 1 => k \in 1 .. Pending
        BY <1>0, <1>1
      <3>2. keyBuffer'[Place(k - 1)] = IF Place(k - 1) = bufferTail THEN code
                                       ELSE keyBuffer[Place(k - 1)]
        BY <1>0, <1>1, <1>2, <3>1
      <3>3. (bufferHead + k - 1) % KBSize = Place(k - 1)
        BY <3>1 DEF Place
      <3>4. Place(k - 1) = bufferTail <=> k = Pending + 1
        BY <1>2, <3>1
      <3>5. k # Pending + 1 => Typed[k] = keyBuffer[Place(k - 1)]
        BY <3>1, <3>3 DEF Typed
      <3> QED BY <3>2, <3>3, <3>4, <3>5
    <2>3. Typed' = [k \in 1 .. Pending + 1 |->
                      IF k = Pending + 1 THEN code ELSE Typed[k]]
      BY <2>1, <2>2
    <2>4. Append(Typed, code) = [k \in 1 .. Pending + 1 |->
                                   IF k = Pending + 1 THEN code ELSE Typed[k]]
      <3>1. Typed \in Seq(CodeClasses) /\ code \in CodeClasses
        BY TypedType, KeyboardAssumption
      <3>2. Append(Typed, code) = [k \in 1 .. Len(Typed) + 1 |->
                                     IF k = Len(Typed) + 1 THEN code ELSE Typed[k]]
        BY <3>1, AppendedSeq
      <3> QED BY <1>3, <3>2
    <2> QED BY <1>3, <1>6, <2>3, <2>4
  <1> QED BY <1>5, <1>6

-----------------------------------------------------------------------------
(* The table follows the shift codes, and ring, stdin device and list implement *)
(* the type-ahead queue of module TypeAhead.                               *)

(* The table follows the shift codes, whatever the programs do.            *)
THEOREM TableFollows == Spec => TableFollowsShift
  <1>1. TypeOK /\ [Next]_vars
          => [(Reversed' # Reversed) <=> (Shifts(Taken) % 2 = 1)]_vars
    <2> SUFFICES ASSUME TypeOK, Next
                 PROVE  (Reversed' # Reversed) <=> (Shifts(Taken) % 2 = 1)
      OBVIOUS
    <2>1. KeyboardTypeOK /\ Pending \in 0 .. KBSize - 1
      BY PendingValue DEF TypeOK
    <2>2. ASSUME UNCHANGED <<bufferHead, keyTable, keyboardState>>
          PROVE  (Reversed' # Reversed) <=> (Shifts(Taken) % 2 = 1)
      <3>1. 0 \in 0 .. KBSize - 1 /\ bufferHead' = Place(0)
        <4>1. /\ KBSize \in Nat \ {0} /\ bufferHead \in 0 .. KBSize - 1
              /\ 0 \in 0 .. KBSize /\ bufferHead + 0 = bufferHead
              /\ bufferHead < KBSize
          BY <2>1, Constants DEF KeyboardTypeOK
        <4> QED BY <2>1, <2>2, <4>1, PlaceValue
      <3>2. Taken = 0
        BY <2>1, <3>1, PlaceTaken
      <3>3. ~(Shifts(Taken) % 2 = 1)
        <4>1. ~(0 % 2 = 1)
          OBVIOUS
        <4> QED BY <3>2, <4>1, ShiftsCount
      <3>4. Reversed' = Reversed
        BY <2>2 DEF Reversed
      <3> QED BY <3>3, <3>4
    <2>3. CASE ReadReturn
      <3>1. PICK c \in 0 .. Pending :
              /\ bufferHead' = Place(c)
              /\ ~(Reversed' <=> Reversed) <=> Shifts(c) % 2 = 1
        BY <2>1, <2>3, DrainEffect DEF ReadReturn
      <3>2. Taken = c
        <4>1. c \in 0 .. KBSize - 1
          BY <2>1, Constants
        <4> QED BY <2>1, <3>1, <4>1, PlaceTaken
      <3>3. Reversed \in BOOLEAN /\ Reversed' \in BOOLEAN
        BY DEF Reversed
      <3> QED BY <3>1, <3>2, <3>3
    <2>4. CASE ~ReadReturn
      <3>1. UNCHANGED <<bufferHead, keyTable, keyboardState>>
        <4>1. CASE TimerIrq
          BY <4>1 DEF TimerIrq, kbVars
        <4>2. CASE KeyboardIrq
          BY <4>2 DEF KeyboardIrq, StoreKey
        <4>3. CASE IllegalKeyIrq
          BY <4>3 DEF IllegalKeyIrq, kbVars
        <4>4. CASE UserStep
          BY <4>4 DEF UserStep, PlainCall, Exit, Sleep, ForkBegin, ReadStdIn, SemInit,
                      SemWait, SemPost, SemDestroy, kbVars
        <4>5. CASE ForkEnd
          BY <4>5 DEF ForkEnd, kbVars
        <4>6. CASE SleepReturn \/ SemWaitReturn
          BY <4>6 DEF SleepReturn, SemWaitReturn, kbVars
        <4> QED BY <2>4, <4>1, <4>2, <4>3, <4>4, <4>5, <4>6 DEF Next, Resume
      <3> QED BY <2>2, <3>1
    <2> QED BY <2>3, <2>4
  <1> QED BY <1>1, TypeCorrect, PTL DEF Spec, TableFollowsShift

-----------------------------------------------------------------------------
(* A dead process is one that exits or has never run.                      *)
DeadPlaces == \A p \in Procs : state[p] = "dead" => run[p] \in {"user", "exit"}

(* DeadPlaces holds initially.                                             *)
LEMMA DeadInit == Init => DeadPlaces
  BY DEF Init, DeadPlaces

(* DeadPlaces is kept when nobody dies.                                    *)
LEMMA DeadGoOn ==
  ASSUME DeadPlaces,
         \A p \in Procs : state'[p] = "dead" => state[p] = "dead",
         \A p \in Procs : run'[p] = run[p] \/ run'[p] = "user"
  PROVE  DeadPlaces'
  BY DEF DeadPlaces

(* DeadPlaces is kept when the current process gives the processor away.   *)
LEMMA DeadGiveAway ==
  ASSUME Inductive, DeadPlaces, current # 0,
         NEW st \in [Procs -> States], NEW sl \in [Procs -> Nat \cup {-1}],
         NEW r, NEW l,
         \A p \in Procs \ {current} : st[p] = state[p],
         st[current] = "dead" => r = "exit",
         GiveAway(st, sl, r, l)
  PROVE  DeadPlaces'
  <1> DEFINE top == [stackTop EXCEPT ![current] = 2]
             ptop == [prevStackTop EXCEPT ![current] = 1]
  <1>1. /\ TypeOK /\ current \in Procs /\ 0 \in Procs
        /\ top \in [Procs -> 0 .. 2] /\ ptop \in [Procs -> 0 .. 2]
        /\ timeCount \in [Procs -> 0 .. MaxTimeCount]
    BY Constants DEF Inductive, TypeOK, Procs
  <1>2. SwitchTo(WakeUp(st, sl), timeCount, top, ptop)
    BY DEF GiveAway
  <1>3. st[0] = "runnable"
    BY <1>1 DEF Inductive, ProcInv, OneRunning
  <1> HIDE DEF top, ptop
  <1>4. PICK n \in Procs :
          state' = [p \in Procs |->
                      IF p = n THEN "running"
                      ELSE IF Sleeping(st, sl, p) /\ sl[p] = 1
                      THEN "runnable" ELSE st[p]]
    <2> HIDE DEF SwitchTo
    <2> QED BY <1>1, <1>2, <1>3, SwitchEffect
  <1>5. \A p \in Procs : state'[p] = "dead" => st[p] = "dead"
    BY <1>4
  <1>6. run' = [run EXCEPT ![current] = r] /\ run \in [Procs -> Places]
    BY <1>1 DEF GiveAway, TypeOK
  <1> QED BY <1>5, <1>6 DEF DeadPlaces

(* Every step keeps DeadPlaces.                                            *)
LEMMA DeadStep ==
  ASSUME Inductive, DeadPlaces, Next
  PROVE  DeadPlaces'
  <1>1. /\ TypeOK /\ ProcInv /\ current \in Procs /\ run \in [Procs -> Places]
        /\ state \in [Procs -> States] /\ sleepTime \in [Procs -> Nat \cup {-1}]
        /\ state[current] = "running" /\ 0 \in Procs
    BY Constants DEF Inductive, TypeOK, ProcInv, OneRunning, Procs
  <1>2. ASSUME WakeNobody \/ \E h : WakeOldest(h)
        PROVE  \A p \in Procs : state'[p] = "dead" => state[p] = "dead"
    BY <1>1, <1>2 DEF WakeNobody, WakeOldest
  <1>3. ReturnAtOnce => run' = run
    BY DEF ReturnAtOnce, goVars
  <1>4. CASE TimerIrq
    <2>1. run' = run
      BY <1>4 DEF TimerIrq, goVars
    <2>2. CASE Tick
      BY <1>1, <2>1, <2>2, DeadGoOn DEF Tick, WakeUp, Sleeping
    <2>3. CASE Preempt
      <3> DEFINE st == [state EXCEPT ![current] = "runnable"]
                 tc == [timeCount EXCEPT ![current] = 0]
                 top == [stackTop EXCEPT ![current] = Depth(run[current]) + 1]
                 ptop == PrevOnEntry
      <3>1. /\ st \in [Procs -> States] /\ tc \in [Procs -> 0 .. MaxTimeCount]
            /\ top \in [Procs -> 0 .. 2] /\ ptop \in [Procs -> 0 .. 2]
        BY <1>1, Constants DEF TypeOK, States, Depth, PrevOnEntry
      <3>2. SwitchTo(WakeUp(st, sleepTime), tc, top, ptop)
        BY <2>3 DEF Preempt
      <3>3. st[0] = "runnable"
        BY <1>1 DEF ProcInv, OneRunning
      <3>4. \A p \in Procs : st[p] = "dead" => state[p] = "dead"
        BY <1>1
      <3> HIDE DEF st, tc, top, ptop
      <3>5. PICK n \in Procs :
              state' = [p \in Procs |->
                          IF p = n THEN "running"
                          ELSE IF Sleeping(st, sleepTime, p) /\ sleepTime[p] = 1
                          THEN "runnable" ELSE st[p]]
        <4> HIDE DEF SwitchTo
        <4> QED BY <1>1, <3>1, <3>2, <3>3, SwitchEffect
      <3>6. \A p \in Procs : state'[p] = "dead" => state[p] = "dead"
        BY <3>4, <3>5
      <3> QED BY <2>1, <3>6, DeadGoOn
    <2> QED BY <1>4, <2>2, <2>3 DEF TimerIrq
  <1>5. CASE KeyboardIrq
    BY <1>2, <1>3, <1>5, DeadGoOn DEF KeyboardIrq
  <1>6. CASE IllegalKeyIrq
    BY <1>2, <1>3, <1>6, DeadGoOn DEF IllegalKeyIrq
  <1>7. ASSUME PlainCall PROVE DeadPlaces'
    BY <1>2, <1>3, <1>7, DeadGoOn DEF PlainCall
  <1>8. CASE ForkEnd
    BY <1>1, <1>8 DEF ForkEnd, DeadPlaces
  <1>9. CASE Resume
    BY <1>1, <1>9 DEF Resume, SleepReturn, SemWaitReturn, ReadReturn, ReturnFromCall,
                      DeadPlaces
  <1>10. CASE UserStep
    <2>1. current # 0 /\ run[current] = "user"
      BY <1>1, <1>10, UserRuns DEF UserStep, Places
    <2>2. \A t \in Nat \cup {-1} :
            /\ Blocked(current) \in [Procs -> States]
            /\ [sleepTime EXCEPT ![current] = t] \in [Procs -> Nat \cup {-1}]
            /\ Blocked(current)[current] = "blocked"
            /\ \A p \in Procs \ {current} : Blocked(current)[p] = state[p]
      BY <1>1 DEF Blocked, States
    <2>3. ASSUME NEW t \in Nat \cup {-1}, NEW r, NEW l,
                 GiveAway(Blocked(current), [sleepTime EXCEPT ![current] = t], r, l)
          PROVE  DeadPlaces'
      <3> HIDE DEF GiveAway
      <3> DEFINE sl == [sleepTime EXCEPT ![current] = t]
      <3>1. sl \in [Procs -> Nat \cup {-1}] /\ Blocked(current)[current] # "dead"
        BY <2>2
      <3>2. GiveAway(Blocked(current), sl, r, l)
        BY <2>3
      <3> HIDE DEF sl
      <3> QED BY <2>1, <2>2, <3>1, <3>2, DeadGiveAway
    <2>4. ASSUME Exit PROVE DeadPlaces'
      <3> DEFINE st == [state EXCEPT ![current] = "dead"]
      <3>1. /\ st \in [Procs -> States]
            /\ \A p \in Procs \ {current} : st[p] = state[p]
        BY <1>1 DEF States
      <3>2. GiveAway(st, sleepTime, "exit", 0)
        BY <2>4 DEF Exit
      <3> HIDE DEF st
      <3> QED BY <1>1, <2>1, <3>1, <3>2, DeadGiveAway
    <2>5. ASSUME NEW t \in SleepTimes, Sleep(t) PROVE DeadPlaces'
      <3>1. t \in Nat \cup {-1}
        BY Constants
      <3> QED BY <1>7, <2>3, <2>5, <3>1 DEF Sleep
    <2>6. ASSUME ForkBegin PROVE DeadPlaces'
      BY <1>1, <1>7, <2>6 DEF ForkBegin, DeadPlaces
    <2>7. ASSUME ReadStdIn PROVE DeadPlaces'
      BY <1>7, <2>3, <2>7 DEF ReadStdIn
    <2>8. ASSUME NEW v \in SemValues, SemInit(v) PROVE DeadPlaces'
      BY <1>3, <1>7, <2>8, DeadGoOn DEF SemInit
    <2>9. ASSUME NEW s \in Sems, SemWait(s) PROVE DeadPlaces'
      <3>1. CASE semValue[s] - 1 < 0
        BY <2>3, <2>9, <3>1 DEF SemWait
      <3>2. CASE ~(semValue[s] - 1 < 0)
        BY <1>2, <1>3, <2>9, <3>2, DeadGoOn DEF SemWait
      <3> QED BY <3>1, <3>2
    <2>10. ASSUME NEW s \in Sems, SemPost(s) PROVE DeadPlaces'
      BY <1>2, <1>3, <2>10, DeadGoOn DEF SemPost
    <2>11. ASSUME NEW s \in Sems, SemDestroy(s) PROVE DeadPlaces'
      BY <1>3, <2>11, DeadGoOn DEF SemDestroy
    <2> QED
      BY <1>7, <1>10, <2>4, <2>5, <2>6, <2>7, <2>8, <2>9, <2>10, <2>11 DEF UserStep
  <1> QED BY <1>4, <1>5, <1>6, <1>8, <1>9, <1>10 DEF Next

-----------------------------------------------------------------------------
(* The steps of the kernel as steps of a type-ahead queue.                 *)
InRead == {p \in Procs : run[p] = "read"}

(* The waiters of the abstract queue are the members of the list of stdin. *)
LEMMA StdInPlaces ==
  /\ StdInWaiters = Members(StdInNode) /\ StdInWaiters' = Members(StdInNode)'
  /\ Woken = InRead \ StdInWaiters /\ Woken' = InRead' \ StdInWaiters'
  /\ Count(StdInNode) = Deficit(devValue) /\ Count(StdInNode)' = Deficit(devValue')
  /\ StdInWaiters \subseteq InRead /\ StdInWaiters' \subseteq InRead'
  BY DEF StdInWaiters, Members, Woken, InRead, Count, StdInNode

(* A list of length 0 has no member.                                       *)
LEMMA EmptyMembers ==
  ASSUME NEW nx, NEW pv, NEW h, NEW M, IsListOf(nx, pv, h, M, 0)
  PROVE  M = {}
  <1>1. OrderOf(nx, pv, h, M, 0, ListOf(pv, h, 0))
    BY ListOfOrder
  <1> QED BY <1>1, OrderMembers

(* When the device says that nobody waits, nobody does.                    *)
LEMMA NobodyWaits ==
  /\ ListsExact /\ devValue = 0 => StdInWaiters = {}
  /\ ListsExact' /\ devValue' = 0 => StdInWaiters' = {}
  <1>1. StdInNode \in Heads /\ StdInNode' = StdInNode /\ Heads' = Heads
    BY HeadPlaces DEF StdInNode, Heads
  <1>2. /\ devValue = 0 => Count(StdInNode) = 0
        /\ devValue' = 0 => Count(StdInNode)' = 0
    BY StdInPlaces, DeficitValue
  <1>3. ASSUME ListsExact, devValue = 0 PROVE StdInWaiters = {}
    <2>1. IsListOf(next, prev, StdInNode, Members(StdInNode), 0)
      BY <1>1, <1>2, <1>3 DEF ListsExact
    <2> QED BY <2>1, EmptyMembers, StdInPlaces
  <1>4. ASSUME ListsExact', devValue' = 0 PROVE StdInWaiters' = {}
    <2>1. IsListOf(next', prev', StdInNode, Members(StdInNode)', 0)
      BY <1>1, <1>2, <1>4 DEF ListsExact
    <2> QED BY <2>1, EmptyMembers, StdInPlaces
  <1> QED BY <1>3, <1>4

(* What is typed depends on the ring only.                                 *)
LEMMA TypedKept ==
  ASSUME UNCHANGED <<keyBuffer, bufferHead, bufferTail>>
  PROVE  Typed' = Typed
  BY DEF Typed, Pending

(* A step that leaves ring, list and readers alone is no step of the       *)
(* queue.                                                                  *)
LEMMA AheadStutter ==
  ASSUME UNCHANGED <<keyBuffer, bufferHead, bufferTail>>,
         Members(StdInNode)' = Members(StdInNode), InRead' = InRead
  PROVE  UNCHANGED Ahead!typeAhead
  BY StdInPlaces, TypedKept DEF Ahead!typeAhead

(* Nor is one that leaves ring, lists and device alone.                    *)
LEMMA AheadApart ==
  ASSUME Inductive, Inductive', InRead' = InRead,
         UNCHANGED <<keyBuffer, bufferHead, bufferTail, listVars, devValue>>
  PROVE  UNCHANGED Ahead!typeAhead
  <1>1. Count(StdInNode)' = Count(StdInNode) /\ StdInNode \in Heads
    BY StdInPlaces, HeadPlaces
  <1>2. Members(StdInNode)' = Members(StdInNode)
    BY <1>1, OrderKept DEF Inductive
  <1> QED BY <1>2, AheadStutter

(* The keyboard interrupt is the abstract Key.                             *)
LEMMA AheadKey ==
  ASSUME Inductive, Inductive', KeyboardIrq
  PROVE  \E c \in KeyCodes : Ahead!Key(c)
  <1> DEFINE h == StdInNode
  <1>1. /\ h \in Heads /\ devValue \in {-1, 0} /\ UNCHANGED semVars
        /\ TypeOK /\ ListsExact /\ ListsExact' /\ TypeOK' /\ KeyboardTypeOK
        /\ run' = run
    BY HeadPlaces DEF KeyboardIrq, Inductive, ProcInv, WaitPlaces, TypeOK,
                      ReturnAtOnce, goVars
  <1>2. PICK c \in KeyCodes : StoreKey(c)
    BY DEF KeyboardIrq
  <1>3. Typed' = IF Len(Typed) = KBSize - 1 THEN <<>> ELSE Append(Typed, c)
    BY <1>1, <1>2, TypedStored
  <1>4. InRead' = InRead
    BY <1>1 DEF InRead
  <1>5. devValue' = 0 /\ StdInWaiters' = {}
    <2>1. devValue' = 0
      BY <1>1 DEF KeyboardIrq
    <2> QED BY <1>1, <2>1, NobodyWaits
  <1>6. Woken' = Woken \cup StdInWaiters
    BY <1>4, <1>5, StdInPlaces
  <1>7. Ahead!Key(c)
    BY <1>3, <1>5, <1>6 DEF Ahead!Key
  <1> QED BY <1>7

(* A read that finds nobody waiting is the abstract WaitForKey.            *)
LEMMA AheadWait ==
  ASSUME Inductive, Inductive', run[current] = "user", ReadStdIn
  PROVE  Ahead!WaitForKey(current) \/ UNCHANGED Ahead!typeAhead
  <1> DEFINE h == StdInNode
  <1>1. /\ h \in Heads /\ UNCHANGED semVars
        /\ UNCHANGED <<keyBuffer, bufferHead, bufferTail>>
        /\ TypeOK /\ ProcInv /\ ListsExact /\ ListsExact'
        /\ current \in Procs /\ run \in [Procs -> Places]
    BY HeadPlaces DEF ReadStdIn, PlainCall, Inductive, TypeOK, kbVars
  <1>2. CASE devValue = 0
    <2>1. devValue' = -1 /\ EnqueueCurrent(h)
      BY <1>2 DEF ReadStdIn
    <2>2. Count(h)' = Count(h) + 1
      <3>1. Deficit(devValue) = 0 /\ Deficit(devValue') = 1
        BY <1>2, <2>1, DeficitValue
      <3> QED BY <3>1, StdInPlaces
    <2>3. \A g \in Heads \ {h} : Count(g)' = Count(g)
      BY <1>1 DEF Count, StdInNode, semVars
    <2>4. state[current] # "blocked"
      BY <1>1, UserRuns DEF Places
    <2>5. Members(h)' = Members(h) \cup {current}
      BY <1>1, <2>1, <2>2, <2>3, <2>4, OrderEnqueued
    <2>6. StdInWaiters = {} /\ StdInWaiters' = {current}
      BY <1>1, <1>2, <2>5, NobodyWaits, StdInPlaces
    <2>7. InRead' = InRead \cup {current} /\ current \notin InRead
      <3>1. run' = [run EXCEPT ![current] = "read"]
        BY <1>2 DEF ReadStdIn, GiveAway
      <3> QED BY <1>1, <3>1 DEF InRead
    <2>8. Woken' = Woken /\ current \notin Woken
      BY <2>6, <2>7, StdInPlaces
    <2> QED BY <1>1, <2>6, <2>8, TypedKept DEF Ahead!WaitForKey
  <1>3. CASE devValue # 0
    <2>1. UNCHANGED <<listVars, devValue, run>>
      BY <1>3 DEF ReadStdIn, PlainCall, WakeNobody, ReturnAtOnce, goVars
    <2>2. InRead' = InRead
      BY <2>1 DEF InRead
    <2> QED BY <1>1, <2>1, <2>2, AheadApart
  <1> QED BY <1>2, <1>3

(* The return of a read is the abstract Take.                              *)
LEMMA AheadTake ==
  ASSUME Inductive, Inductive', ReadReturn
  PROVE  Ahead!Take(current)
  <1>1. /\ TypeOK /\ TypeOK' /\ ProcInv /\ ListsExact /\ ListsExact'
        /\ KeyboardTypeOK /\ KeyboardTypeOK' /\ current \in Procs
        /\ run[current] = "read" /\ state[current] = "running"
        /\ UNCHANGED <<listVars, devValue>>
        /\ run' = [run EXCEPT ![current] = "user"] /\ run \in [Procs -> Places]
    BY DEF Inductive, TypeOK, ProcInv, OneRunning, ReadReturn, ReturnFromCall
  <1>2. PICK c \in 0 .. Pending :
          /\ bufferHead' = Place(c) /\ bufferTail' = bufferTail
          /\ keyBuffer' = keyBuffer /\ Ahead!IsLine(c)
    BY <1>1, DrainEffect DEF ReadReturn
  <1>3. Typed' = SubSeq(Typed, c + 1, Len(Typed))
    BY <1>1, <1>2, TypedDrained
  <1>4. Len(Typed) = Pending
    BY <1>1, TypedType
  <1>5. StdInWaiters' = StdInWaiters
    <2>1. Count(StdInNode)' = Count(StdInNode) /\ StdInNode \in Heads
      BY <1>1, StdInPlaces, HeadPlaces
    <2>2. Members(StdInNode)' = Members(StdInNode)
      BY <1>1, <2>1, OrderKept
    <2> QED BY <2>2, StdInPlaces
  <1>6. current \in Woken
    BY <1>1 DEF Woken
  <1>7. InRead' = InRead \ {current}
    BY <1>1 DEF InRead
  <1>8. Woken' = Woken \ {current}
    BY <1>5, <1>7, StdInPlaces
  <1> QED BY <1>2, <1>3, <1>4, <1>5, <1>6, <1>8 DEF Ahead!Take

(* A semaphore's list changes, and the list of stdin does not.             *)
LEMMA AheadSemaphore ==
  ASSUME Inductive, Inductive', run[current] = "user",
         NEW s \in Sems, SemWait(s) \/ SemPost(s)
  PROVE  UNCHANGED Ahead!typeAhead
  <1> DEFINE h == SemNode(s)
  <1>1. /\ TypeOK /\ ProcInv /\ ListsExact /\ ListsExact' /\ h \in Heads
        /\ h # StdInNode /\ StdInNode \in Heads
        /\ semValue \in [Sems -> Int] /\ semValue[s] \in Int
        /\ UNCHANGED <<devValue, keyBuffer, bufferHead, bufferTail>>
        /\ current \in Procs /\ run \in [Procs -> Places]
    BY SemList, HeadPlaces DEF Inductive, TypeOK, SemWait, SemPost, kbVars
  <1>2. state[current] = "running"
    BY <1>1, UserRuns DEF Places
  <1>3. CASE SemWait(s)
    <2>1. /\ Count(h) = Deficit(semValue[s]) /\ Count(h)' = Deficit(semValue[s] - 1)
          /\ \A g \in Heads \ {h} : Count(g)' = Count(g)
      <3>1. semValue' = [semValue EXCEPT ![s] = semValue[s] - 1]
            /\ semValue[s] - 1 \in Int
        BY <1>1, <1>3 DEF SemWait
      <3> QED BY <1>1, <3>1, OtherCounts
    <2>2. CASE semValue[s] <= 0
      <3>1. EnqueueCurrent(h) /\ run' = [run EXCEPT ![current] = "semwait"]
        BY <1>1, <1>3, <2>2 DEF SemWait, GiveAway
      <3>2. Members(StdInNode)' = Members(StdInNode)
        BY <1>1, <1>2, <2>1, <2>2, <3>1, DeficitSteps, OrderEnqueued
      <3>3. InRead' = InRead
        BY <1>1, <3>1 DEF InRead
      <3> QED BY <1>1, <3>2, <3>3, AheadStutter
    <2>3. CASE semValue[s] > 0
      <3>1. UNCHANGED listVars /\ run' = run
        BY <1>1, <1>3, <2>3 DEF SemWait, WakeNobody, ReturnAtOnce, goVars
      <3>2. InRead' = InRead
        BY <3>1 DEF InRead
      <3> QED BY <1>1, <3>1, <3>2, AheadApart
    <2> QED BY <1>1, <2>2, <2>3
  <1>4. CASE SemPost(s)
    <2>0. run' = run /\ InRead' = InRead
      BY <1>4 DEF SemPost, ReturnAtOnce, goVars, InRead
    <2>1. /\ Count(h) = Deficit(semValue[s]) /\ Count(h)' = Deficit(semValue[s] + 1)
          /\ \A g \in Heads \ {h} : Count(g)' = Count(g)
      <3>1. semValue' = [semValue EXCEPT ![s] = semValue[s] + 1]
            /\ semValue[s] + 1 \in Int
        BY <1>1, <1>4 DEF SemPost
      <3> QED BY <1>1, <3>1, OtherCounts
    <2>2. CASE semValue[s] < 0
      <3>1. WakeOldest(h)
        BY <1>1, <1>4, <2>2 DEF SemPost
      <3>2. Count(h) > 0 /\ Count(h)' = Count(h) - 1
        BY <1>1, <2>1, <2>2, DeficitSteps
      <3>3. Members(StdInNode)' = Members(StdInNode)
        BY <1>1, <2>1, <3>1, <3>2, OrderDequeued
      <3> QED BY <1>1, <2>0, <3>3, AheadStutter
    <2>3. CASE semValue[s] >= 0
      <3>1. UNCHANGED listVars
        BY <1>1, <1>4, <2>3 DEF SemPost, WakeNobody
      <3> QED BY <1>1, <2>0, <3>1, AheadApart
    <2> QED BY <1>1, <2>2, <2>3
  <1> QED BY <1>3, <1>4

(* The initial states agree.                                               *)
LEMMA AheadInit == Init => Ahead!Init
  <1> SUFFICES ASSUME Init PROVE Ahead!Init
    OBVIOUS
  <1>1. Pending = 0
    <2>1. KBSize \in Nat \ {0} /\ 0 \in 0 .. KBSize - 1
          /\ bufferHead = 0 /\ bufferTail = 0
      BY Constants DEF Init, InitKeyTable
    <2>2. (0 - 0 + KBSize) % KBSize = IF 0 < 0 THEN 0 - 0 + KBSize ELSE 0 - 0
      BY <2>1, Around
    <2> QED BY <2>1, <2>2 DEF Pending
  <1>2. Typed = <<>>
    BY <1>1 DEF Typed
  <1>3. StdInWaiters = {} /\ Woken = {}
    BY DEF Init, StdInWaiters, Woken
  <1> QED BY <1>2, <1>3 DEF Ahead!Init

(* Every step of disciplined programs is a step of the abstract queue or   *)
(* none.                                                                   *)
LEMMA AheadStep ==
  ASSUME Disciplined
  PROVE  Inductive /\ Inductive' /\ DeadPlaces /\ [Next]_vars
           => [Ahead!Next]_(Ahead!typeAhead)
  <1> SUFFICES ASSUME Inductive, Inductive', DeadPlaces, [Next]_vars
               PROVE  Ahead!Next \/ UNCHANGED Ahead!typeAhead
    OBVIOUS
  <1>0. /\ current \in Procs /\ run \in [Procs -> Places]
        /\ state[current] = "running"
    BY DEF Inductive, TypeOK, ProcInv, OneRunning
  <1>1. run' = run => InRead' = InRead
    BY DEF InRead
  <1>2. CASE UNCHANGED vars
    BY <1>1, <1>2, AheadApart DEF vars, kbVars, goVars
  <1>3. CASE TimerIrq
    BY <1>1, <1>3, AheadApart DEF TimerIrq, kbVars, goVars
  <1>4. CASE KeyboardIrq
    BY <1>4, AheadKey DEF Ahead!Next
  <1>5. ASSUME PlainCall PROVE UNCHANGED Ahead!typeAhead
    BY <1>1, <1>5, AheadApart DEF PlainCall, WakeNobody, ReturnAtOnce, goVars, kbVars
  <1>6. CASE IllegalKeyIrq
    BY <1>1, <1>6, AheadApart
       DEF IllegalKeyIrq, WakeNobody, ReturnAtOnce, goVars, kbVars
  <1>7. CASE ForkEnd
    <2>1. /\ run[current] = "fork" /\ local[current] \in Procs
          /\ state[local[current]] = "dead"
          /\ run' = [run EXCEPT ![local[current]] = "user", ![current] = "user"]
      BY <1>0, <1>7 DEF ForkEnd, Inductive, ProcInv, ForkSlotReserved
    <2>2. run[local[current]] # "read"
      BY <2>1 DEF DeadPlaces
    <2>3. InRead' = InRead
      BY <1>0, <2>1, <2>2 DEF InRead
    <2> QED BY <1>7, <2>3, AheadApart DEF ForkEnd, kbVars
  <1>8. CASE Resume
    <2>1. ASSUME SleepReturn \/ SemWaitReturn PROVE UNCHANGED Ahead!typeAhead
      <3>1. /\ run[current] # "read" /\ run' = [run EXCEPT ![current] = "user"]
        BY <2>1 DEF SleepReturn, SemWaitReturn, ReturnFromCall
      <3>2. InRead' = InRead
        BY <1>0, <3>1 DEF InRead
      <3> QED BY <2>1, <3>2, AheadApart DEF SleepReturn, SemWaitReturn, kbVars
    <2>2. ASSUME ReadReturn PROVE Ahead!Next
      <3>1. Ahead!Take(current)
        BY <2>2, AheadTake
      <3> QED BY <1>0, <3>1 DEF Ahead!Next
    <2> QED BY <1>8, <2>1, <2>2 DEF Resume
  <1>9. CASE UserStep
    <2>1. run[current] = "user"
      BY <1>9 DEF UserStep
    <2>2. ASSUME NEW st, NEW sl, NEW r, NEW l, GiveAway(st, sl, r, l), r # "read",
                 UNCHANGED <<kbVars, listVars, devValue>>
          PROVE  UNCHANGED Ahead!typeAhead
      <3>1. run' = [run EXCEPT ![current] = r]
        BY <2>2 DEF GiveAway
      <3>2. InRead' = InRead
        BY <1>0, <2>1, <2>2, <3>1 DEF InRead
      <3> QED BY <2>2, <3>2, AheadApart DEF kbVars
    <2>3. ASSUME Exit PROVE UNCHANGED Ahead!typeAhead
      BY <2>2, <2>3 DEF Exit
    <2>4. ASSUME NEW t \in SleepTimes, Sleep(t)
          PROVE  UNCHANGED Ahead!typeAhead
      BY <1>5, <2>2, <2>4 DEF Sleep
    <2>5. ASSUME ForkBegin PROVE UNCHANGED Ahead!typeAhead
      <3>1. CASE \A p \in Procs : state[p] # "dead"
        BY <1>5, <2>5, <3>1 DEF ForkBegin
      <3>2. CASE ~ \A p \in Procs : state[p] # "dead"
        <4>1. /\ run' = [run EXCEPT ![current] = "fork"]
              /\ UNCHANGED <<kbVars, listVars, devValue>>
          BY <2>5, <3>2 DEF ForkBegin
        <4>2. InRead' = InRead
          BY <1>0, <2>1, <4>1 DEF InRead
        <4> QED BY <4>1, <4>2, AheadApart DEF kbVars
      <3> QED BY <3>1, <3>2
    <2>6. ASSUME ReadStdIn PROVE Ahead!Next \/ UNCHANGED Ahead!typeAhead
      BY <1>0, <2>1, <2>6, AheadWait DEF Ahead!Next
    <2>7. ASSUME NEW s \in Sems, SemWait(s) \/ SemPost(s)
          PROVE  UNCHANGED Ahead!typeAhead
      BY <2>1, <2>7, AheadSemaphore
    <2>8. ASSUME ReturnAtOnce, UNCHANGED <<state, devValue, kbVars>>
          PROVE  UNCHANGED Ahead!typeAhead
      <3>1. Members(StdInNode)' = Members(StdInNode) /\ run' = run
        BY <2>8 DEF Members, ReturnAtOnce, goVars, StdInNode
      <3> QED BY <1>1, <2>8, <3>1, AheadStutter DEF kbVars
    <2>9. ASSUME NEW v \in SemValues, SemInit(v)
          PROVE  UNCHANGED Ahead!typeAhead
      BY <1>5, <2>8, <2>9 DEF SemInit
    <2>10. ASSUME NEW s \in Sems, SemDestroy(s)
           PROVE  UNCHANGED Ahead!typeAhead
      BY <2>8, <2>10 DEF SemDestroy
    <2> QED
      BY <1>5, <1>9, <2>3, <2>4, <2>5, <2>6, <2>7, <2>9, <2>10 DEF UserStep
  <1> QED BY <1>2, <1>3, <1>4, <1>6, <1>7, <1>8, <1>9 DEF Next

(* The ring, the stdin device and its list are a type-ahead queue: a read  *)
(* takes the oldest keys, as many as fill a line, in the order typed, and  *)
(* the only loss is that of a full ring.                                   *)
THEOREM AheadImplemented ==
  ASSUME Disciplined
  PROVE  Spec => AheadSpec
  <1>1. Init => Ahead!Init /\ DeadPlaces
    BY AheadInit, DeadInit
  <1>2. Inductive /\ Inductive' /\ DeadPlaces /\ [Next]_vars
          => [Ahead!Next]_(Ahead!typeAhead)
    BY AheadStep
  <1>3. Inductive <=> SafeInv
    BY InductiveIsSafe
  <1>4. Inductive /\ DeadPlaces /\ [Next]_vars => DeadPlaces'
    <2>1. UNCHANGED vars => (DeadPlaces => DeadPlaces')
      BY DEF vars, pcbVars, goVars, DeadPlaces
    <2> QED BY <2>1, DeadStep
  <1> QED
    BY <1>1, <1>2, <1>3, <1>4, Safety, PTL DEF Spec, AheadSpec, Ahead!Spec
=============================================================================
