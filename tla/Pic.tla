-------------------------------- MODULE Pic ---------------------------------
(***************************************************************************)
(* The interrupt path of NEMU: the i8259 remembers one interrupt           *)
(* (nemu/src/device/i8259_pic.c), device threads raise theirs at any time, *)
(* and the processor's loop looks at cpu.intr after every instruction      *)
(* (nemu/src/cpu/cpu.c).  A module that extends this one gives the         *)
(* instructions (cpu = "exec") and the kernel's handlers (cpu = "handle"). *)
(***************************************************************************)
EXTENDS Integers

CONSTANTS Devices,  \* the device threads that raise interrupts
          NoIntr,   \* I8259_NO_INTR
          Nobody    \* the mutex is free

Irq == [timer |-> 0, keyboard |-> 1, audio |-> 2, ide |-> 14]

ASSUME PicAssumption ==
  /\ Devices \subseteq DOMAIN Irq \ {"ide"}
  /\ NoIntr \notin Int
  /\ Nobody \notin Devices

IrqNo == {Irq[d] : d \in DOMAIN Irq}

VARIABLES
  intrNo,  \* i8259_intr_no
  intr,    \* cpu.intr
  mutex,   \* who holds i8259_mutex
  thread,  \* where each device thread is in i8259_raise_intr
  cpu,     \* where the processor is in its loop
  got      \* the interrupt it has taken

picVars == <<intrNo, intr, mutex, thread, cpu, got>>

PicTypeOK ==
  /\ intrNo \in IrqNo \cup {NoIntr}
  /\ intr \in BOOLEAN
  /\ mutex \in Devices \cup {Nobody}
  /\ thread \in [Devices -> {"out", "locked", "numbered"}]
  /\ cpu \in {"exec", "check", "ack", "handle", "aborted"}
  /\ got \in IrqNo \cup {NoIntr}

PicInit ==
  /\ intrNo = NoIntr
  /\ intr = FALSE
  /\ mutex = Nobody
  /\ thread = [d \in Devices |-> "out"]
  /\ cpu = "exec"
  /\ got = NoIntr

\* Mutant: the last interrupt stays.
HigherLast(irq) == irq

\* What i8259_intr_no becomes when irq is raised: the higher number stays.
Higher(irq) == IF intrNo = NoIntr \/ irq > intrNo THEN irq ELSE intrNo

\* Mutant: the flag is set before the number.
RaiseLockFlag(d) ==
  /\ thread[d] = "out" /\ mutex = Nobody
  /\ mutex' = d
  /\ thread' = [thread EXCEPT ![d] = "locked"]
  /\ intr' = TRUE
  /\ UNCHANGED <<intrNo, cpu, got>>

\* i8259_raise_intr by a device's thread: the number, then the flag.
RaiseLock(d) ==
  /\ thread[d] = "out" /\ mutex = Nobody
  /\ mutex' = d
  /\ thread' = [thread EXCEPT ![d] = "locked"]
  /\ UNCHANGED <<intrNo, intr, cpu, got>>

RaiseNumber(d) ==
  /\ thread[d] = "locked"
  /\ intrNo' = Higher(Irq[d])
  /\ thread' = [thread EXCEPT ![d] = "numbered"]
  /\ UNCHANGED <<intr, mutex, cpu, got>>

RaiseFlag(d) ==
  /\ thread[d] = "numbered"
  /\ intr' = TRUE
  /\ mutex' = Nobody
  /\ thread' = [thread EXCEPT ![d] = "out"]
  /\ UNCHANGED <<intrNo, cpu, got>>

\* i8259_raise_intr by the processor itself, inside an out instruction; it
\* gets no further than the check until it has returned.
RaiseInOut(irq) ==
  /\ mutex = Nobody
  /\ intrNo' = Higher(irq)
  /\ intr' = TRUE
  /\ UNCHANGED <<mutex, thread, got>>

\* After an instruction: cpu.intr and the number are read without the mutex.
NoInterrupt ==
  /\ cpu = "check" /\ ~intr
  /\ cpu' = "exec"
  /\ UNCHANGED <<intrNo, intr, mutex, thread, got>>

Query ==
  /\ cpu = "check" /\ intr
  /\ got' = intrNo
  /\ cpu' = IF intrNo = NoIntr THEN "aborted" ELSE "ack"
  /\ UNCHANGED <<intrNo, intr, mutex, thread>>

\* i8259_ack_intr: whatever has been raised since the query goes with it.
Ack ==
  /\ cpu = "ack" /\ mutex = Nobody
  /\ intrNo' = NoIntr
  /\ intr' = FALSE
  /\ cpu' = "handle"
  /\ UNCHANGED <<mutex, thread, got>>

Raising == \E d \in Devices : RaiseLock(d) \/ RaiseNumber(d) \/ RaiseFlag(d)

PicNext == Raising \/ NoInterrupt \/ Query \/ Ack

\* The processor and a thread inside i8259_raise_intr go on; no device has to
\* raise an interrupt.
PicFairness ==
  /\ WF_picVars(NoInterrupt \/ Query)
  /\ SF_picVars(Ack)
  /\ \A d \in Devices : WF_picVars(RaiseNumber(d) \/ RaiseFlag(d))
=============================================================================
