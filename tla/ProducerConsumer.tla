-------------------------- MODULE ProducerConsumer --------------------------
(***************************************************************************)
(* The producer and consumer program of lab4 (app/main.c, TEST 2) on the   *)
(* semaphores the kernel promises.  A step is one system call, with the    *)
(* code up to the next one.  Process 1 forks the others; the pid a fork    *)
(* returns is the first free one, and decides what the child does.         *)
(***************************************************************************)
EXTENDS Naturals, Sequences, FiniteSets

CONSTANTS NProducer,    (* pids 2 .. NProducer + 1 are producers           *)
          NConsumer,    (* and the NConsumer pids after them consumers     *)
          Produce,      (* the rounds of a producer                        *)
          Consume       (* the rounds of a consumer                        *)

ASSUME ProgramAssumption ==
  /\ NProducer \in Nat /\ NConsumer \in Nat
  /\ Produce \in Nat \ {0} /\ Consume \in Nat \ {0}
  /\ NProducer * Produce >= NConsumer * Consume

Producers == 2 .. NProducer + 1
Consumers == NProducer + 2 .. NProducer + NConsumer + 1
Workers   == Producers \cup Consumers
Father    == 1

VARIABLES pc,        (* the system call a process is about to make         *)
          k,         (* the k of the loops of producer and consumer        *)
          forks,     (* the i of uEntry                                    *)
          inUse, permits, queue, asleep,             (* the semaphores     *)
          made, taken       (* products ever posted and taken (histories)  *)

semVars == <<inUse, permits, queue, asleep>>
vars == <<pc, k, forks, semVars, made, taken>>

Sem == INSTANCE FifoSemaphores WITH
  Users <- Workers, Semaphores <- {"mutex", "full"}, InitialPermits <- {0, 1}

Calls == {"initMutex", "initFull", "fork", "dead", "produce", "take", "got",
          "lock", "locked", "post", "consumed"}

TypeOK == /\ pc \in [Workers \cup {Father} -> Calls]
          /\ k \in [Workers -> Nat]
          /\ forks \in Nat
          /\ inUse \subseteq {"mutex", "full"}
          /\ permits \in [{"mutex", "full"} -> Nat]
          /\ queue \in [{"mutex", "full"} -> Seq(Workers)]
          /\ asleep \subseteq Workers
          /\ made \in Nat /\ taken \in Nat

Init == /\ Sem!Init
        /\ pc = [p \in Workers \cup {Father} |->
                   IF p = Father THEN "initMutex" ELSE "dead"]
        /\ k = [p \in Workers |-> 0]
        /\ forks = 0
        /\ made = 0 /\ taken = 0

P(p, s) == Sem!Pass(s) \/ Sem!Wait(p, s)
V(s) == Sem!HandOver(s) \/ Sem!Release(s)

(* Process p goes from one call to the next one.                           *)
Go(p, from, to) == pc[p] = from /\ pc' = [pc EXCEPT ![p] = to]

-----------------------------------------------------------------------------
(* uEntry of the father.                                                   *)
(* Mutant: the mutex lets two processes pass.                              *)
InitMutexTwo == /\ Go(Father, "initMutex", "initFull")
                /\ Sem!Create("mutex", 2)
                /\ UNCHANGED <<k, forks, made, taken>>

InitMutex == /\ Go(Father, "initMutex", "initFull")
             /\ Sem!Create("mutex", 1)
             /\ UNCHANGED <<k, forks, made, taken>>

InitFull == /\ Go(Father, "initFull", "fork")
            /\ Sem!Create("full", 0)
            /\ UNCHANGED <<k, forks, made, taken>>

FirstDead(p) == pc[p] = "dead" /\ \A q \in Workers : q < p => pc[q] # "dead"

Fork == /\ pc[Father] = "fork"
        /\ IF forks < NProducer + NConsumer
           THEN \E p \in Workers :
                  /\ FirstDead(p)
                  /\ pc' = [pc EXCEPT ![p] = IF p \in Producers THEN "produce"
                                             ELSE "take"]
                  /\ k' = [k EXCEPT ![p] = 1]
                  /\ forks' = forks + 1
           ELSE pc' = [pc EXCEPT ![Father] = "dead"] /\ UNCHANGED <<k, forks>>
        /\ UNCHANGED <<semVars, made, taken>>

-----------------------------------------------------------------------------
(* The common part: sem_wait(&mutex), and sem_post(&mutex) after it.       *)
Lock(p) == /\ Go(p, "lock", "locked")
           /\ P(p, "mutex")
           /\ UNCHANGED <<k, forks, made, taken>>

(* Mutant: the mutex is not posted.                                        *)
NoUnlock(p, to) == /\ Go(p, "locked", to)
                   /\ UNCHANGED <<semVars, k, forks>>

Unlock(p, to) == /\ Go(p, "locked", to)
                 /\ V("mutex")
                 /\ UNCHANGED <<k, forks>>

(* The end of a round: the next one, or exit.                              *)
NextRound(p, from, rounds, first) ==
  /\ Go(p, from, IF k[p] < rounds THEN first ELSE "dead")
  /\ k' = [k EXCEPT ![p] = @ + 1]
  /\ UNCHANGED forks

Sleep(p, from, to) == Go(p, from, to) /\ UNCHANGED <<semVars, k, forks>>

Producer(p) ==
  \/ Sleep(p, "produce", "lock") /\ UNCHANGED <<made, taken>>
  \/ Lock(p)
  \/ Unlock(p, "post") /\ UNCHANGED <<made, taken>>
  \/ /\ NextRound(p, "post", Produce, "produce")
     /\ V("full")
     /\ made' = made + 1
     /\ UNCHANGED taken

(* Mutant: the consumer does not wait for a product.                       *)
TakeAny(p) == /\ Go(p, "take", "got")
              /\ UNCHANGED <<semVars, k, forks, made, taken>>

(* A consumer has its product once its sem_wait(&full) has returned.       *)
Take(p) == /\ Go(p, "take", "got")
           /\ P(p, "full")
           /\ UNCHANGED <<k, forks, made, taken>>

Got(p) == /\ Go(p, "got", "lock")
          /\ taken' = taken + 1
          /\ UNCHANGED <<semVars, k, forks, made>>

Consumer(p) ==
  \/ Take(p)
  \/ Got(p)
  \/ Lock(p)
  \/ Unlock(p, "consumed") /\ UNCHANGED <<made, taken>>
  \/ /\ NextRound(p, "consumed", Consume, "take")
     /\ UNCHANGED <<semVars, made, taken>>

Step(p) ==
  \/ p = Father /\ (InitMutex \/ InitFull \/ Fork)
  \/ p \in Producers /\ p \notin asleep /\ Producer(p)
  \/ p \in Consumers /\ p \notin asleep /\ Consumer(p)

(* Everybody has exited: the idle process goes on.                         *)
Idle == (\A p \in DOMAIN pc : pc[p] = "dead") /\ UNCHANGED vars

Next == Idle \/ \E p \in Workers \cup {Father} : Step(p)

(* The kernel starves nobody, and neither calls nor sleeps go on for ever. *)
Spec == Init /\ [][Next]_vars
FairSpec == Spec /\ \A p \in Workers \cup {Father} : WF_vars(Step(p))

-----------------------------------------------------------------------------
(* At most one process is between its sem_wait and its sem_post of mutex.  *)
MutualExclusion ==
  Cardinality({p \in Workers \ asleep : pc[p] = "locked"}) <= 1

(* No product is consumed before it is produced: a wakeup by a post hands  *)
(* over one product, once, also when a queue of consumers stands in line.  *)
ProducedFirst == taken <= made

(* Who waits stands once in the queue of its call; nothing is asleep but   *)
(* in a sem_wait; before the fork of a child nothing happens.              *)
Place(s) == IF s = "mutex" THEN "locked" ELSE "got"

LinesOnce ==
  /\ \A p \in asleep : pc[p] \in {"locked", "got"}
  /\ \A s \in {"mutex", "full"} :
       /\ \A n \in 1 .. Len(queue[s]) :
            queue[s][n] \in asleep /\ pc[queue[s][n]] = Place(s)
       /\ \A m, n \in 1 .. Len(queue[s]) : queue[s][m] = queue[s][n] => m = n
  /\ pc[Father] \in {"initMutex", "initFull"}
       => \A p \in Workers : pc[p] = "dead"
  /\ pc[Father] \in {"initMutex", "initFull", "fork", "dead"}
  /\ pc[Father] \in {"initMutex", "initFull"} => permits["full"] = 0

(* The permit of mutex is with the one process inside, or there for one.   *)
Holders == {p \in Workers \ asleep : pc[p] = "locked"}

PermitOnce ==
  /\ \A p, q \in Holders : p = q
  /\ permits["mutex"] > 0 => permits["mutex"] = 1 /\ Holders = {}

(* Every product posted was taken, is being taken, or is in stock.         *)
Owners == {p \in Workers \ asleep : pc[p] = "got"}

ProductsCounted == made = taken + Cardinality(Owners) + permits["full"]

ProgramInv == TypeOK /\ LinesOnce /\ PermitOnce /\ ProductsCounted

(* Everybody is done in the end, although children that end early free     *)
(* their pids for later ones, which then produce what they should consume. *)
AllExit == <>[](\A p \in DOMAIN pc : pc[p] = "dead")
=============================================================================
