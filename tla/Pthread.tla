------------------------------ MODULE Pthread ------------------------------
(***************************************************************************)
(* The user-level threads of lab3 (lib/pthread.c).  They are cooperative:  *)
(* a step is a whole call of the library, from the call by one thread to   *)
(* the jump into another.  The saved registers are left out, but for what  *)
(* a jump of a thread to itself does.                                      *)
(***************************************************************************)
EXTENDS Integers

CONSTANTS NThread,     (* MAX_TCB_NUM                                      *)
          (* What the programs do:                                         *)
          JoinAny,     (* join themselves, or a thread blocked in a join   *)
          YieldAlone   (* yield when no other thread is runnable           *)

ASSUME PthreadAssumption == NThread \in Nat \ {0}
                            /\ JoinAny \in BOOLEAN /\ YieldAlone \in BOOLEAN

Thread == 0 .. NThread - 1

VARIABLES state, joinid,   (* tcb[t].state and tcb[t].joinid               *)
          current,
          searching,       (* pthread_exit has found no runnable thread    *)
          crashed          (* a thread has jumped to itself                *)

vars == <<state, joinid, current, searching, crashed>>

TypeOK == /\ state \in [Thread -> {"runnable", "running", "blocked", "dead"}]
          /\ joinid \in [Thread -> Thread \cup {-1}]
          /\ current \in Thread
          /\ searching \in BOOLEAN
          /\ crashed \in BOOLEAN

(* pthread_initial.                                                        *)
Init == /\ state = [t \in Thread |-> IF t = 0 THEN "running" ELSE "dead"]
        /\ joinid = [t \in Thread |-> -1]
        /\ current = 0
        /\ searching = FALSE
        /\ crashed = FALSE

(* The first dead thread's block is taken; without one the call fails.     *)
Create ==
  \E t \in Thread :
    /\ state[t] = "dead" /\ \A u \in 0 .. t - 1 : state[u] # "dead"
    /\ state' = [state EXCEPT ![t] = "runnable"]
    /\ joinid' = [joinid EXCEPT ![t] = -1]
    /\ UNCHANGED <<current, searching, crashed>>

(* The jump into thread t.  The new stack pointer is loaded first, and the *)
(* registers of tcb[i] are then pushed.  When i is the thread itself they  *)
(* are pushed over the argument i, and whatever lies at tcb[i] then is     *)
(* loaded: nothing is modelled beyond that.                                *)
SwitchTo(t) == /\ current' = t
               /\ crashed' = (t = current)

(* How far the search from current + 1 goes to thread t.                   *)
Distance(t) == (t - current - 1 + NThread) % NThread

(* Mutant: the search stops at any thread that is not dead.                *)
FoundAlive(st, t) == /\ st[t] # "dead"
                     /\ \A u \in Thread : st[u] # "dead"
                                            => Distance(t) <= Distance(u)

(* Thread t is where the search ends.                                      *)
Found(st, t) == /\ st[t] = "runnable"
                /\ \A u \in Thread : st[u] = "runnable"
                                       => Distance(t) <= Distance(u)

(* Mutant: the loop stops at the first thread it wakes.                    *)
FirstJoiner == {t \in Thread : /\ joinid[t] = current
                               /\ \A u \in 0 .. t - 1 : joinid[u] # current}

(* The threads pthread_exit wakes.                                         *)
Joiners == {t \in Thread : joinid[t] = current}

(* The thread the search finds is left runnable, and nothing is saved of   *)
(* the one that exits.                                                     *)
Exit ==
  LET st == [t \in Thread |-> IF t \in Joiners THEN "runnable"
                              ELSE IF t = current THEN "dead" ELSE state[t]]
  IN /\ state' = st
     /\ joinid' = [t \in Thread |-> IF t \in Joiners THEN -1 ELSE joinid[t]]
     /\ \/ /\ \E t \in Thread : Found(st, t) /\ SwitchTo(t)
           /\ UNCHANGED searching
        \/ /\ \A t \in Thread : st[t] # "runnable"
           /\ searching' = TRUE
           /\ UNCHANGED <<current, crashed>>

(* Mutant: the thread that joins stays runnable.                           *)
JoinUnblocked(t) ==
  /\ state[t] # "dead"
  /\ state' = [state EXCEPT ![current] = "runnable", ![t] = "running"]
  /\ joinid' = [joinid EXCEPT ![current] = t]
  /\ SwitchTo(t)
  /\ UNCHANGED searching

(* A join with a dead thread returns at once.  Any other one goes straight *)
(* to its target, whatever the target was doing.                           *)
Join(t) ==
  /\ state[t] # "dead"
  /\ state' = [state EXCEPT ![current] = "blocked", ![t] = "running"]
  /\ joinid' = [joinid EXCEPT ![current] = t]
  /\ SwitchTo(t)
  /\ UNCHANGED searching

Yield ==
  LET st == [state EXCEPT ![current] = "runnable"]
  IN /\ \E t \in Thread : /\ Found(st, t)
                          /\ state' = [st EXCEPT ![t] = "running"]
                          /\ SwitchTo(t)
     /\ UNCHANGED <<joinid, searching>>

(* The loop of pthread_exit, when nobody is left to make a thread runnable.*)
Search == searching /\ UNCHANGED vars

Call ==
  \/ Create
  \/ Exit
  \/ \E t \in Thread : /\ JoinAny \/ (t # current /\ state[t] # "blocked")
                       /\ Join(t)
  \/ /\ YieldAlone \/ \E t \in Thread \ {current} : state[t] = "runnable"
     /\ Yield

Next == ~crashed /\ (Search \/ (~searching /\ Call))

Spec == Init /\ [][Next]_vars

-----------------------------------------------------------------------------
(* pthread_exit finds a thread to go on with, unless the exiting thread    *)
(* was the last one: joins, also those of blocked threads or of each       *)
(* other, never leave everybody blocked.                                   *)
ExitFindsThread == searching => \A t \in Thread : state[t] = "dead"

(* A jump is to another thread: what pthread.c says of switch_to.          *)
SwitchesToOther == ~crashed

(* Why ExitFindsThread holds.  Blocked threads wait for living ones, and   *)
(* in no set of them does everyone wait for another one of the set.        *)
CurrentRuns == searching \/ state[current] \in {"running", "runnable"}

OthersWait == \A t \in Thread \ {current} : state[t] # "running"

TargetsAlive ==
  \A t \in Thread : state[t] = "blocked" =>
    joinid[t] \in Thread /\ state[joinid[t]] # "dead"

NoJoinCycle ==
  \A S \in SUBSET {t \in Thread : state[t] = "blocked"} :
    S # {} => \E t \in S : joinid[t] \notin S

(* With programs that do not join a blocked thread, a joinid names a       *)
(* target as long as its thread is blocked in the join, and no longer.     *)
JoinidValid == \A t \in Thread : joinid[t] # -1 => state[t] = "blocked"

(* pthread_exit reads joinid in every block, and wakes by it.  pthread.h   *)
(* says that joinid is valid when the thread is blocked.                   *)
ExitWakesBlocked ==
  [][Exit => \A t \in Joiners : state[t] = "blocked"]_vars

JoinInv == /\ TypeOK /\ CurrentRuns /\ OthersWait
           /\ TargetsAlive /\ NoJoinCycle /\ ExitFindsThread

-----------------------------------------------------------------------------
(* The library implements threads with join, for programs that join only   *)
(* threads that are not blocked.                                           *)
Promise == INSTANCE Threads WITH
  Ids <- Thread, Main <- 0, Nobody <- -1,
  alive <- {t \in Thread : state[t] # "dead"},
  awaits <- [t \in Thread |-> IF state[t] = "blocked" THEN joinid[t] ELSE -1],
  turn <- current

PromiseSpec == Promise!Spec
=============================================================================
