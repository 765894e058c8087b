--------------------------- MODULE FifoSemaphores ---------------------------
(***************************************************************************)
(* What the kernel's semaphores promise: counting semaphores whose waiters *)
(* are woken one by one in the order in which they began to wait.  Nothing *)
(* is said of pointers, of negative values or of the scheduler.            *)
(***************************************************************************)
EXTENDS Naturals, Sequences

CONSTANTS Users, Semaphores, InitialPermits

VARIABLES inUse,      (* the semaphores that exist                         *)
          permits,    (* how many more P may pass at once                  *)
          queue,      (* who waits, in the order of arrival                *)
          asleep      (* the processes that are held in a P                *)

semaphores == <<inUse, permits, queue, asleep>>

Init == /\ inUse = {}
        /\ permits = [s \in Semaphores |-> 0]
        /\ queue = [s \in Semaphores |-> <<>>]
        /\ asleep = {}

Create(s, v) ==
  /\ s \notin inUse
  /\ inUse' = inUse \cup {s}
  /\ permits' = [permits EXCEPT ![s] = v]
  /\ UNCHANGED <<queue, asleep>>

Pass(s) ==
  /\ s \in inUse /\ permits[s] > 0
  /\ permits' = [permits EXCEPT ![s] = @ - 1]
  /\ UNCHANGED <<inUse, queue, asleep>>

Wait(p, s) ==
  /\ s \in inUse /\ permits[s] = 0 /\ p \notin asleep
  /\ queue' = [queue EXCEPT ![s] = Append(@, p)]
  /\ asleep' = asleep \cup {p}
  /\ UNCHANGED <<inUse, permits>>

(* A V hands its permit to the process that has waited longest.            *)
HandOver(s) ==
  /\ s \in inUse /\ queue[s] # <<>>
  /\ queue' = [queue EXCEPT ![s] = Tail(@)]
  /\ asleep' = asleep \ {Head(queue[s])}
  /\ UNCHANGED <<inUse, permits>>

Release(s) ==
  /\ s \in inUse /\ queue[s] = <<>>
  /\ permits' = [permits EXCEPT ![s] = @ + 1]
  /\ UNCHANGED <<inUse, queue, asleep>>

Destroy(s) ==
  /\ s \in inUse /\ queue[s] = <<>>
  /\ inUse' = inUse \ {s}
  /\ UNCHANGED <<permits, queue, asleep>>

Next ==
  \E s \in Semaphores :
    \/ \E v \in InitialPermits : Create(s, v)
    \/ \E p \in Users : Wait(p, s)
    \/ Pass(s) \/ HandOver(s) \/ Release(s) \/ Destroy(s)

Spec == Init /\ [][Next]_semaphores
=============================================================================
