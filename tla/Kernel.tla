------------------------------- MODULE Kernel -------------------------------
(***************************************************************************)
(* The lab4 kernel: irqHandle and everything it reaches.  A step is what   *)
(* the processor does between two points where it may be interrupted or    *)
(* changes its stack: a hardware interrupt, a system call from user mode   *)
(* up to its iret or up to the `int $0x20' that gives the processor away,  *)
(* and the rest of a system call after that `int $0x20' has returned.      *)
(*                                                                         *)
(* A stack pointer is a frame depth: 0 is &pcb[p].stackTop (no frame), 1   *)
(* the frame a process leaves when it enters the kernel, 2 the frame of an *)
(* interrupt taken inside the kernel.  The registers of a frame are        *)
(* abstracted to run and local: where the process continues, and with      *)
(* which local variable of the suspended handler.                          *)
(***************************************************************************)
EXTENDS Keyboard, ListHead, FiniteSets

CONSTANTS NProc,          (* MAX_PCB_NUM                                   *)
          NSem,           (* MAX_SEM_NUM                                   *)
          MaxTimeCount,   (* MAX_TIME_COUNT                                *)
          ReadSize,       (* the size of a stdin read: MAX_BUFFER_SIZE     *)
          (* What the user programs do, and bounds for the model checker:  *)
          Forkers,        (* the pids that fork                            *)
          Readers,        (* the pids that read stdin                      *)
          SleepTimes,     (* the arguments of sleep                        *)
          SemValues,      (* the values of sem_init, as int32_t            *)
          MaxSemValue,    (* no post to a semaphore of this value          *)
          DestroyBusy     (* may a semaphore with waiters be destroyed?    *)

Procs == 0 .. NProc - 1
Sems  == 0 .. NSem - 1

ASSUME KernelAssumption ==
  /\ NProc \in Nat \ {0, 1}
  /\ NSem \in Nat
  /\ MaxTimeCount \in Nat \ {0}
  /\ ReadSize \in Nat \ {0}
  /\ Forkers \subseteq Procs
  /\ Readers \subseteq Procs
  /\ SleepTimes \subseteq Nat
  /\ SemValues \subseteq Int
  /\ MaxSemValue \in Nat
  /\ DestroyBusy \in BOOLEAN

(* The nodes of the kernel's lists: the `blocked' field of each PCB, the   *)
(* `pcb' field of each semaphore and of the stdin device, and address 0,   *)
(* which the kernel's flat segments let it read and write like any other.  *)
SemNode(s) == NProc + s
StdInNode  == NProc + NSem
NULL       == NProc + NSem + 1
Nodes      == 0 .. NULL

VARIABLES state, timeCount, sleepTime, stackTop, prevStackTop,  (* pcb[p]  *)
          run,         (* the code process p is in or continues in         *)
          local,       (* i of syscallFork, sem_index of syscallSemWait    *)
          saved,       (* tmpStackTop of the system call's irqHandle       *)
          current,
          semState, semValue,       (* sem[s]                              *)
          devValue,                 (* dev[STD_IN].value                   *)
          next, prev,               (* the ListHeads                       *)
          wild                      (* a V wrote to a PCB that is not one  *)

pcbVars  == <<state, timeCount, sleepTime, stackTop, prevStackTop>>
goVars   == <<run, local, saved>>
listVars == <<next, prev>>
semVars  == <<semState, semValue>>
vars     == <<pcbVars, goVars, current, semVars, devValue, listVars, wild,
              kbVars>>

States == {"runnable", "running", "blocked", "dead"}
Places == {"idle", "user", "fork", "semwait", "read", "sleep", "exit"}

TypeOK ==
  /\ state \in [Procs -> States]
  /\ timeCount \in [Procs -> 0 .. MaxTimeCount]
  /\ sleepTime \in [Procs -> Nat \cup {-1}]
  /\ stackTop \in [Procs -> 0 .. 2]
  /\ prevStackTop \in [Procs -> 0 .. 2]
  /\ run \in [Procs -> Places]
  /\ local \in [Procs -> Nat]
  /\ saved \in [Procs -> 0 .. 2]
  /\ current \in Procs
  /\ semState \in [Sems -> {0, 1}]
  /\ semValue \in [Sems -> Int]
  /\ devValue \in Int
  /\ next \in [Nodes -> Nodes]
  /\ prev \in [Nodes -> Nodes]
  /\ wild \in BOOLEAN
  /\ KeyboardTypeOK

(* initSem, initDev, initKeyTable, and initProc up to its `int $0x20'.     *)
(* A PCB that was never used holds the zeros of .bss.                      *)
Init ==
  /\ state = [p \in Procs |-> IF p = 0 THEN "running"
                             ELSE IF p = 1 THEN "runnable" ELSE "dead"]
  /\ timeCount = [p \in Procs |-> IF p = 0 THEN MaxTimeCount ELSE 0]
  /\ sleepTime = [p \in Procs |-> 0]
  /\ stackTop = [p \in Procs |-> IF p = 1 THEN 1 ELSE 0]
  /\ prevStackTop = [p \in Procs |-> 0]
  /\ run = [p \in Procs |-> IF p = 0 THEN "idle" ELSE "user"]
  /\ local = [p \in Procs |-> 0]
  /\ saved = [p \in Procs |-> 0]
  /\ current = 0
  /\ semState = [s \in Sems |-> 0]
  /\ semValue = [s \in Sems |-> 0]
  /\ devValue = 0
  /\ next = [n \in Nodes |-> IF n \in Procs THEN NULL ELSE n]
  /\ prev = [n \in Nodes |-> IF n \in Procs THEN NULL ELSE n]
  /\ wild = FALSE
  /\ InitKeyTable

-----------------------------------------------------------------------------
(* The timer interrupt.                                                    *)

(* The frames of the code a process is in, below an interrupt of it.       *)
Depth(r) == IF r \in {"idle", "user"} THEN 0 ELSE 1

(* The gates are interrupt gates; only syscallFork enables interrupts.     *)
InterruptsOn == run[current] \in {"idle", "user", "fork"}

(* Mutant: entry leaves prevStackTop as it is.                            *)
PrevNotKept == prevStackTop

(* Entry to irqHandle: the old stackTop is kept in prevStackTop.           *)
PrevOnEntry == [prevStackTop EXCEPT ![current] = stackTop[current]]

(* Mutant: the test of -1 is forgotten.                                    *)
SleepingForEver(st, sl, p) == p # current /\ st[p] = "blocked"

(* Mutant: the loop ends one PCB too early.                                *)
SleepingButLast(st, sl, p) ==
  p \notin {current, NProc - 1} /\ st[p] = "blocked" /\ sl[p] # -1

(* timerHandle, first loop: everyone but the current process is counted    *)
(* down.                                                                   *)
Sleeping(st, sl, p) == p # current /\ st[p] = "blocked" /\ sl[p] # -1

CountDown(st, sl) ==
  [p \in Procs |-> IF Sleeping(st, sl, p) THEN sl[p] - 1 ELSE sl[p]]

WakeUp(st, sl) ==
  [p \in Procs |-> IF Sleeping(st, sl, p) /\ sl[p] = 1 THEN "runnable"
                   ELSE st[p]]

(* Mutant: the search starts from PCB 0 each time.                         *)
DistanceFromIdle(n) == n

(* Process n is the one the second loop stops at: the nearest runnable one *)
(* after current, 0 excepted, else current, else 0.                        *)
Distance(n) == (n - current + NProc) % NProc

Candidates(st) == {m \in Procs \ {0, current} : st[m] = "runnable"}

(* Mutant: no check that the process the search came back to is runnable.  *)
SelectedUnchecked(st, n) ==
  IF Candidates(st) = {} THEN n = current
  ELSE /\ n \in Candidates(st)
       /\ \A m \in Candidates(st) : Distance(n) <= Distance(m)

Selected(st, n) ==
  \/ /\ n \in Candidates(st)
     /\ \A m \in Candidates(st) : Distance(n) <= Distance(m)
  \/ /\ Candidates(st) = {}
     /\ n = IF st[current] = "runnable" THEN current ELSE 0

(* The rest of timerHandle, for a current process that is not to go on:    *)
(* switch to another stack, and pop the innermost frame from it.  st, tc,  *)
(* top and ptop are what the PCBs hold on entry to the second loop.        *)
SwitchTo(st, tc, top, ptop) ==
  \E n \in Procs :
    /\ Selected(st, n)
    /\ current' = n
    /\ state' = [st EXCEPT ![n] = "running"]
    /\ timeCount' = [tc EXCEPT ![n] = 1]
    /\ stackTop' = [top EXCEPT ![n] = ptop[n]]
    /\ prevStackTop' = ptop

Tick ==
  /\ state[current] = "running" /\ timeCount[current] # MaxTimeCount
  /\ timeCount' = [timeCount EXCEPT ![current] = @ + 1]
  /\ state' = WakeUp(state, sleepTime)
  /\ prevStackTop' = PrevOnEntry
  /\ UNCHANGED <<stackTop, current>>

Preempt ==
  /\ state[current] = "running" /\ timeCount[current] = MaxTimeCount
  /\ SwitchTo(WakeUp([state EXCEPT ![current] = "runnable"], sleepTime),
              [timeCount EXCEPT ![current] = 0],
              [stackTop EXCEPT ![current] = Depth(run[current]) + 1],
              PrevOnEntry)

TimerIrq ==
  /\ InterruptsOn
  /\ Tick \/ Preempt
  /\ sleepTime' = CountDown(state, sleepTime)
  /\ UNCHANGED <<goVars, semVars, devValue, listVars, wild, kbVars>>

(* A system call of the current process that gives the processor away: it  *)
(* has set state to st and sleepTime to sl, and continues at place r with  *)
(* the local variable l after its `int $0x20'.                             *)
GiveAway(st, sl, r, l) ==
  /\ run' = [run EXCEPT ![current] = r]
  /\ local' = [local EXCEPT ![current] = l]
  /\ saved' = [saved EXCEPT ![current] = stackTop[current]]
  /\ sleepTime' = CountDown(st, sl)
  /\ SwitchTo(WakeUp(st, sl), timeCount, [stackTop EXCEPT ![current] = 2],
              [prevStackTop EXCEPT ![current] = 1])

(* ... and its return from irqHandle to user mode once it runs again.      *)
ReturnFromCall ==
  /\ run' = [run EXCEPT ![current] = "user"]
  /\ local' = [local EXCEPT ![current] = 0]
  /\ saved' = [saved EXCEPT ![current] = 0]
  /\ stackTop' = [stackTop EXCEPT ![current] = saved[current]]

(* The interrupt or system call returns without a switch: irqHandle        *)
(* recovers stackTop, and leaves prevStackTop.                             *)
ReturnAtOnce ==
  /\ prevStackTop' = PrevOnEntry
  /\ UNCHANGED <<stackTop, timeCount, current, goVars>>

-----------------------------------------------------------------------------
(* Waiting in a list and being taken from it.                              *)

(* The current process becomes the newest node of the list of head h.      *)
EnqueueCurrent(h) ==
  /\ next' = NextAfterInsert(next, h, current)
  /\ prev' = PrevAfterInsert(next, prev, h, current)

Blocked(p) == [state EXCEPT ![p] = "blocked"]

(* The oldest node of h's list is taken for a PCB's `blocked' field, the   *)
(* PCB is made runnable and the node unlinked.  Of an empty list the       *)
(* oldest node is the head itself, and the PCB is other memory: what the   *)
(* kernel does after that is not modelled.                                 *)
WakeOldest(h) ==
  LET n == prev[h] IN
    /\ IF n \in Procs
       THEN /\ state' = [state EXCEPT ![n] = "runnable"]
            /\ sleepTime' = [sleepTime EXCEPT ![n] = 0]
            /\ UNCHANGED wild
       ELSE /\ wild' = TRUE
            /\ UNCHANGED <<state, sleepTime>>
    /\ next' = NextAfterRemove(next, prev, h)
    /\ prev' = PrevAfterRemove(prev, h)

WakeNobody == UNCHANGED <<state, sleepTime, listVars, wild>>

-----------------------------------------------------------------------------
(* The keyboard interrupt.  A code that is not a one-byte scan code is     *)
(* read from the controller and forgotten.                                 *)
KeyboardIrq ==
  /\ InterruptsOn
  /\ \E code \in KeyCodes : StoreKey(code)
  /\ IF devValue < 0
     THEN devValue' = devValue + 1 /\ WakeOldest(StdInNode)
     ELSE WakeNobody /\ UNCHANGED devValue
  /\ ReturnAtOnce
  /\ UNCHANGED semVars

IllegalKeyIrq ==
  /\ InterruptsOn
  /\ ReturnAtOnce
  /\ WakeNobody
  /\ UNCHANGED <<semVars, devValue, kbVars>>

-----------------------------------------------------------------------------
(* System calls of the current process c.                                  *)

(* write (its effect on the screen is in module Terminal), getpid, exec,   *)
(* an unknown call, sleep(0), a fork without a free PCB, a sem_init        *)
(* without a free semaphore.                                               *)
PlainCall ==
  /\ ReturnAtOnce
  /\ WakeNobody
  /\ UNCHANGED <<semVars, devValue, kbVars>>

(* Mutant: sleep(0) is not returned from.                                  *)
SleepZero(t) ==
  /\ GiveAway(Blocked(current), [sleepTime EXCEPT ![current] = t], "sleep", 0)
  /\ UNCHANGED <<semVars, devValue, listVars, wild, kbVars>>

Sleep(t) ==
  IF t = 0 THEN PlainCall
  ELSE /\ GiveAway(Blocked(current), [sleepTime EXCEPT ![current] = t],
                   "sleep", 0)
       /\ UNCHANGED <<semVars, devValue, listVars, wild, kbVars>>

Exit ==
  /\ GiveAway([state EXCEPT ![current] = "dead"], sleepTime, "exit", 0)
  /\ UNCHANGED <<semVars, devValue, listVars, wild, kbVars>>

(* Mutant: a blocked process's PCB is taken for a free one.                *)
FirstIdle(i) ==
  state[i] \in {"dead", "blocked"}
  /\ \A j \in 0 .. i - 1 : state[j] \notin {"dead", "blocked"}

(* SYS_FORK up to enableInterrupt, and after disableInterrupt: in between  *)
(* the copy of the address space, a loop that the timer interrupts.        *)
FirstDead(i) == state[i] = "dead" /\ \A j \in 0 .. i - 1 : state[j] # "dead"

ForkBegin ==
  IF \A p \in Procs : state[p] # "dead" THEN PlainCall
  ELSE /\ \E i \in Procs : /\ FirstDead(i)
                           /\ local' = [local EXCEPT ![current] = i]
       /\ run' = [run EXCEPT ![current] = "fork"]
       /\ saved' = [saved EXCEPT ![current] = stackTop[current]]
       /\ stackTop' = [stackTop EXCEPT ![current] = 1]
       /\ prevStackTop' = PrevOnEntry
       /\ UNCHANGED <<state, timeCount, sleepTime, current, semVars, devValue,
                      listVars, wild, kbVars>>

ForkEnd ==
  LET i == local[current] IN
    /\ run[current] = "fork"
    /\ state' = [state EXCEPT ![i] = "runnable"]
    /\ timeCount' = [timeCount EXCEPT ![i] = timeCount[current]]
    /\ sleepTime' = [sleepTime EXCEPT ![i] = sleepTime[current]]
    /\ stackTop' = [stackTop EXCEPT ![i] = stackTop[current],
                                    ![current] = saved[current]]
    /\ prevStackTop' = [prevStackTop EXCEPT ![i] = prevStackTop[current]]
    /\ run' = [run EXCEPT ![i] = "user", ![current] = "user"]
    /\ local' = [local EXCEPT ![i] = 0, ![current] = 0]
    /\ saved' = [saved EXCEPT ![i] = 0, ![current] = 0]
    /\ UNCHANGED <<current, semVars, devValue, listVars, wild, kbVars>>

SemInit(v) ==
  IF \A s \in Sems : semState[s] # 0 THEN PlainCall
  ELSE \E s \in Sems :
    /\ semState[s] = 0 /\ \A t \in 0 .. s - 1 : semState[t] # 0
    /\ semState' = [semState EXCEPT ![s] = 1]
    /\ semValue' = [semValue EXCEPT ![s] = v]
    /\ next' = SelfLinked(next, SemNode(s))
    /\ prev' = SelfLinked(prev, SemNode(s))
    /\ ReturnAtOnce
    /\ UNCHANGED <<state, sleepTime, devValue, wild, kbVars>>

SemWait(s) ==
  /\ semValue' = [semValue EXCEPT ![s] = @ - 1]
  /\ IF semValue[s] - 1 < 0
     THEN /\ EnqueueCurrent(SemNode(s))
          /\ GiveAway(Blocked(current), [sleepTime EXCEPT ![current] = -1],
                      "semwait", s)
          /\ UNCHANGED wild
     ELSE WakeNobody /\ ReturnAtOnce
  /\ UNCHANGED <<semState, devValue, kbVars>>

(* Mutants: the new value is compared with < 0, the old one with <= 0.     *)
SemPostFew(s) ==
  /\ semValue' = [semValue EXCEPT ![s] = @ + 1]
  /\ IF semValue[s] + 1 < 0 THEN WakeOldest(SemNode(s)) ELSE WakeNobody
  /\ ReturnAtOnce /\ UNCHANGED <<semState, devValue, kbVars>>

SemPostMany(s) ==
  /\ semValue' = [semValue EXCEPT ![s] = @ + 1]
  /\ IF semValue[s] <= 0 THEN WakeOldest(SemNode(s)) ELSE WakeNobody
  /\ ReturnAtOnce /\ UNCHANGED <<semState, devValue, kbVars>>

SemPost(s) ==
  /\ semValue' = [semValue EXCEPT ![s] = @ + 1]
  /\ IF semValue[s] + 1 <= 0 THEN WakeOldest(SemNode(s)) ELSE WakeNobody
  /\ ReturnAtOnce
  /\ UNCHANGED <<semState, devValue, kbVars>>

(* sem[s].value and the processes waiting are left as they are.            *)
SemDestroy(s) ==
  /\ semState' = [semState EXCEPT ![s] = 0]
  /\ next' = SelfLinked(next, SemNode(s))
  /\ prev' = SelfLinked(prev, SemNode(s))
  /\ ReturnAtOnce
  /\ UNCHANGED <<state, sleepTime, semValue, devValue, wild, kbVars>>

(* SYS_READ of stdin: with devValue = 0 the caller always waits for a key, *)
(* buffered keys or not.  The third case, devValue > 0, returns too.       *)
ReadStdIn ==
  IF devValue # 0 THEN PlainCall
  ELSE /\ devValue' = devValue - 1
       /\ EnqueueCurrent(StdInNode)
       /\ GiveAway(Blocked(current), [sleepTime EXCEPT ![current] = -1],
                   "read", 0)
       /\ UNCHANGED <<semVars, wild, kbVars>>

-----------------------------------------------------------------------------
(* The rest of a system call that gave the processor away.                 *)

SleepReturn ==
  /\ run[current] \in {"sleep", "exit"}
  /\ ReturnFromCall
  /\ UNCHANGED <<state, timeCount, sleepTime, prevStackTop, current, semVars,
                 devValue, listVars, wild, kbVars>>

SemWaitReturn ==
  /\ run[current] = "semwait"
  /\ ReturnFromCall
  /\ UNCHANGED <<state, timeCount, sleepTime, prevStackTop, current, semVars,
                 devValue, listVars, wild, kbVars>>

ReadReturn ==
  /\ run[current] = "read"
  /\ DrainKeys(ReadSize)
  /\ ReturnFromCall
  /\ UNCHANGED <<state, timeCount, sleepTime, prevStackTop, current, semVars,
                 devValue, listVars, wild>>

-----------------------------------------------------------------------------
(* The user programs: any system call at any time, on semaphores in use.   *)
InUse(s) == semState[s] = 1

UserStep ==
  /\ run[current] = "user"
  /\ \/ PlainCall
     \/ Exit
     \/ \E t \in SleepTimes : Sleep(t)
     \/ current \in Forkers /\ ForkBegin
     \/ current \in Readers /\ ReadStdIn
     \/ \E v \in SemValues : SemInit(v)
     \/ \E s \in Sems : InUse(s) /\ SemWait(s)
     \/ \E s \in Sems : InUse(s) /\ semValue[s] < MaxSemValue /\ SemPost(s)
     \/ \E s \in Sems : /\ InUse(s) /\ (semValue[s] < 0 => DestroyBusy)
                        /\ SemDestroy(s)

Resume == SleepReturn \/ SemWaitReturn \/ ReadReturn

Next ==
  /\ ~wild
  /\ TimerIrq \/ KeyboardIrq \/ IllegalKeyIrq \/ UserStep \/ ForkEnd \/ Resume

(* The timer chip ticks for ever; kernel code, entered, goes on; the copy  *)
(* loop of a fork ends when its process gets the processor often enough.   *)
ForkEndOf(p) == current = p /\ ForkEnd

Fairness ==
  /\ WF_vars(~wild /\ TimerIrq)
  /\ WF_vars(~wild /\ Resume)
  /\ \A p \in Procs : SF_vars(~wild /\ ForkEndOf(p))

Spec == Init /\ [][Next]_vars
FairSpec == Spec /\ Fairness

-----------------------------------------------------------------------------
(* Properties.                                                             *)

(* The processes blocked in sem_wait(s), and in a stdin read.              *)
Waiters(s)   == {p \in Procs : /\ state[p] = "blocked"
                               /\ run[p] = "semwait" /\ local[p] = s}
StdInWaiters == {p \in Procs : state[p] = "blocked" /\ run[p] = "read"}

Deficit(v) == IF v < 0 THEN -v ELSE 0

(* The scheduler's switches, sleeps, exits and wakeups keep exactly one    *)
(* process running, the current one; the idle process never blocks or dies *)
(* (timerHandle falls back on it unconditionally), and nobody comes back   *)
(* from exit, not even when it is still in some list.                      *)
OneRunning ==
  /\ \A p \in Procs : state[p] = "running" <=> p = current
  /\ \A p \in Procs : run[p] = "idle" <=> p = 0
  /\ state[0] \in {"running", "runnable"}
  /\ \A p \in Procs : run[p] = "exit" => state[p] = "dead"

(* timerHandle resumes a process from pcb.stackTop and then pops it from   *)
(* prevStackTop: for every suspended process stackTop is its innermost     *)
(* frame and, inside a system call, prevStackTop is the frame of the call, *)
(* whatever interrupts nested in a fork did to the two fields.             *)
FramesResumable ==
  /\ \A p \in Procs \ {current} : state[p] # "dead" =>
       /\ stackTop[p] = Depth(run[p]) + 1
       /\ Depth(run[p]) = 1 => prevStackTop[p] = 1
  /\ Depth(run[current]) = 1 => stackTop[current] = 1

(* The list of every semaphore and of stdin, followed along prev, is the   *)
(* processes blocked in its wait, one per unit below zero of its value,    *)
(* and next is the same list backwards.                                    *)
WaitListsExact ==
  /\ \A s \in Sems :
       IsListOf(next, prev, SemNode(s), Waiters(s), Deficit(semValue[s]))
  /\ IsListOf(next, prev, StdInNode, StdInWaiters, Deficit(devValue))

(* Whoever is blocked has one thing that will wake it: a countdown, a      *)
(* semaphore in use, or the next key.                                      *)
BlockedHasWaker ==
  \A p \in Procs : state[p] = "blocked" =>
    \/ run[p] = "sleep" /\ sleepTime[p] > 0
    \/ run[p] = "semwait" /\ sleepTime[p] = -1 /\ semState[local[p]] = 1
    \/ run[p] = "read" /\ sleepTime[p] = -1 /\ devValue = -1

(* No V and no key takes a PCB from an empty list.                         *)
NoWildWakeup == ~wild

(* The meaning kvm.c gives the value of a semaphore in use: >=0 when no    *)
(* process is blocked, -k when k are.                                      *)
SemValueCountsBlocked ==
  \A s \in Sems : semState[s] = 1 =>
    Cardinality(Waiters(s)) = Deficit(semValue[s])

(* Whoever forks is one of Forkers, stays on the processor or ready for it *)
(* during the copy, and the PCB it chose stays free for it.                *)
ForkSlotReserved ==
  \A p \in Procs : run[p] = "fork" =>
    /\ p \in Forkers /\ state[p] \in {"running", "runnable"}
    /\ local[p] \in Procs /\ state[local[p]] = "dead"

WaitPlaces ==
  /\ devValue \in {-1, 0}
  /\ \A p \in Procs : run[p] = "semwait" => local[p] \in Sems

(* The inductive invariant behind these.  It needs programs that are       *)
(* disciplined: semaphores start at no less than 0 and are not destroyed   *)
(* while somebody waits, and only process 1 forks.                         *)
Disciplined == SemValues \subseteq Nat /\ ~DestroyBusy /\ Forkers \subseteq {1}

SafeInv ==
  /\ TypeOK /\ OneRunning /\ FramesResumable
  /\ WaitListsExact /\ BlockedHasWaker /\ NoWildWakeup
  /\ ForkSlotReserved /\ WaitPlaces

(* A fork only overwrites the PCB of a dead process, although it chose the *)
(* PCB before the copy, with interrupts on since.                          *)
ForkFillsDeadSlot == [][ForkEnd => state[local[current]] = "dead"]_vars

(* Round robin starves nobody: a runnable process gets the processor.      *)
RunnableRuns ==
  \A p \in Procs \ {0} : state[p] = "runnable" ~> state[p] = "running"

(* A sleep ends, however the counting down ticks fall on it.               *)
SleepersWake ==
  \A p \in Procs : (state[p] = "blocked" /\ run[p] = "sleep")
                     ~> state[p] # "blocked"

(* A fork ends, although it is preempted again and again.                  *)
ForksEnd == \A p \in Procs : run[p] = "fork" ~> run[p] = "user"

(* The table in use is what capslock makes it, reversed by every shift     *)
(* code read, whatever codes the ring loses and wherever a read stops.     *)
Reversed == (keyTable = "U") # (keyboardState # 0)

Taken    == (bufferHead' - bufferHead + KBSize) % KBSize

Shifts(n) == Cardinality({k \in 0 .. n - 1 :
                           keyBuffer[(bufferHead + k) % KBSize] = "shift"})

TableFollowsShift ==
  [][(Reversed' # Reversed) <=> (Shifts(Taken) % 2 = 1)]_vars

-----------------------------------------------------------------------------
(* What the kernel promises.                                               *)

Created == {s \in Sems : semState[s] = 1}

Permits == [s \in Sems |-> IF semValue[s] > 0 THEN semValue[s] ELSE 0]

Queues  == [s \in Sems |-> ListOf(prev, SemNode(s), Deficit(semValue[s]))]

Asleep  == UNION {Waiters(s) : s \in Sems}

(* The semaphores are FIFO counting semaphores: value, list, pointers and  *)
(* the states of the processes agree with permits and queues.              *)
Fifo == INSTANCE FifoSemaphores WITH
  Users <- Procs, Semaphores <- Sems, InitialPermits <- SemValues,
  inUse <- Created, permits <- Permits, queue <- Queues, asleep <- Asleep

FifoSpec == Fifo!Spec

(* The ring, the stdin device and its list are a type-ahead queue.         *)
Typed == [k \in 1 .. Pending |-> keyBuffer[(bufferHead + k - 1) % KBSize]]

Woken == {p \in Procs : run[p] = "read" /\ state[p] # "blocked"}

Ahead == INSTANCE TypeAhead WITH
  Users <- Procs, Codes <- KeyCodes, Room <- KBSize - 1, Size <- ReadSize,
  Printable <- {"key"},
  pending <- Typed, waiting <- StdInWaiters, woken <- Woken

AheadSpec == Ahead!Spec
=============================================================================
