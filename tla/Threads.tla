------------------------------ MODULE Threads ------------------------------
(***************************************************************************)
(* What cooperative threads with join promise: a thread that joined        *)
(* another one does not go on before that one has exited, an exited thread *)
(* never goes on, and the processor is always at a thread that may go on.  *)
(***************************************************************************)
CONSTANTS Ids,       (* the thread ids                                     *)
          Main,      (* the thread that is there at the start              *)
          Nobody     (* not a thread id                                    *)

VARIABLES alive,     (* the threads created and not exited                 *)
          awaits,    (* whom a thread waits for, or Nobody                 *)
          turn       (* the thread that has the processor                  *)

threadVars == <<alive, awaits, turn>>

Init == /\ alive = {Main}
        /\ awaits = [t \in Ids |-> Nobody]
        /\ turn = Main

Begin == /\ turn \in alive
         /\ \E t \in Ids \ alive : alive' = alive \cup {t}
         /\ UNCHANGED <<awaits, turn>>

(* The turn goes to a living thread that waits for nobody; if no thread is *)
(* left alive, it goes nowhere.                                            *)
PassTurn == \/ turn' \in {t \in alive' : awaits'[t] = Nobody}
            \/ alive' = {} /\ UNCHANGED turn

End == /\ turn \in alive
       /\ alive' = alive \ {turn}
       /\ awaits' = [t \in Ids |-> IF awaits[t] = turn THEN Nobody
                                   ELSE awaits[t]]
       /\ PassTurn

Await == /\ turn \in alive
         /\ \E t \in alive \ {turn} : awaits' = [awaits EXCEPT ![turn] = t]
         /\ UNCHANGED alive
         /\ PassTurn

GiveWay == turn \in alive /\ PassTurn /\ UNCHANGED <<alive, awaits>>

Next == Begin \/ End \/ Await \/ GiveWay

Spec == Init /\ [][Next]_threadVars
=============================================================================
