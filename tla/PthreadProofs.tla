--------------------------- MODULE PthreadProofs ---------------------------
(* Proofs about the user-level threads, for any number of threads.         *)
EXTENDS Pthread, TLAPS

USE PthreadAssumption DEF Thread

-----------------------------------------------------------------------------
(* One lemma per call: it preserves the invariant.                         *)
LEMMA JoinStep ==
  ASSUME JoinInv, NEW t \in Thread, Join(t), ~searching
  PROVE  JoinInv'
  <1>1. TypeOK'
    BY DEF JoinInv, TypeOK, Join, SwitchTo
  <1>2. CurrentRuns' /\ OthersWait'
    BY DEF JoinInv, TypeOK, CurrentRuns, OthersWait, Join, SwitchTo
  <1>3. \A u \in Thread : state[u] = "blocked" => u # current
    BY DEF JoinInv, CurrentRuns
  <1>4. TargetsAlive'
    BY <1>3 DEF JoinInv, TypeOK, TargetsAlive, Join, SwitchTo
  <1>5. NoJoinCycle'
    <2> SUFFICES ASSUME NEW S \in SUBSET {u \in Thread : state'[u] = "blocked"},
                        S # {}
                 PROVE  \E u \in S : joinid'[u] \notin S
      BY DEF NoJoinCycle
    <2>1. t \notin S
      BY DEF JoinInv, TypeOK, Join
    <2>2. CASE current \in S
      BY <2>1, <2>2 DEF JoinInv, TypeOK, Join
    <2>3. CASE current \notin S
      <3>1. S \in SUBSET {u \in Thread : state[u] = "blocked"}
        BY <2>1, <2>3 DEF JoinInv, TypeOK, Join
      <3>2. \A u \in S : joinid'[u] = joinid[u]
        BY <2>3 DEF JoinInv, TypeOK, Join
      <3> QED BY <3>1, <3>2 DEF JoinInv, NoJoinCycle
    <2> QED BY <2>2, <2>3
  <1>6. ExitFindsThread'
    BY DEF ExitFindsThread, Join
  <1> QED BY <1>1, <1>2, <1>4, <1>5, <1>6 DEF JoinInv

(* pthread_create keeps JoinInv.                                           *)
LEMMA CreateStep ==
  ASSUME JoinInv, Create, ~searching
  PROVE  JoinInv'
  <1> PICK t \in Thread :
        /\ state[t] = "dead"
        /\ state' = [state EXCEPT ![t] = "runnable"]
        /\ joinid' = [joinid EXCEPT ![t] = -1]
        /\ UNCHANGED <<current, searching, crashed>>
    BY DEF Create
  <1>1. TypeOK'
    BY DEF JoinInv, TypeOK
  <1>2. CurrentRuns' /\ OthersWait'
    BY DEF JoinInv, TypeOK, CurrentRuns, OthersWait
  <1>3. TargetsAlive'
    BY DEF JoinInv, TypeOK, TargetsAlive
  <1>4. NoJoinCycle'
    <2> SUFFICES ASSUME NEW S \in SUBSET {u \in Thread : state'[u] = "blocked"},
                        S # {}
                 PROVE  \E u \in S : joinid'[u] \notin S
      BY DEF NoJoinCycle
    <2>1. /\ S \in SUBSET {u \in Thread : state[u] = "blocked"}
          /\ \A u \in S : joinid'[u] = joinid[u]
      BY DEF JoinInv, TypeOK
    <2> QED BY <2>1 DEF JoinInv, NoJoinCycle
  <1>5. ExitFindsThread'
    BY DEF ExitFindsThread
  <1> QED BY <1>1, <1>2, <1>3, <1>4, <1>5 DEF JoinInv

(* pthread_yield keeps JoinInv.                                            *)
LEMMA YieldStep ==
  ASSUME JoinInv, Yield, ~searching
  PROVE  JoinInv'
  <1> PICK t \in Thread :
        /\ [state EXCEPT ![current] = "runnable"][t] = "runnable"
        /\ state' = [[state EXCEPT ![current] = "runnable"]
                       EXCEPT ![t] = "running"]
        /\ current' = t
        /\ crashed' = (t = current)
        /\ UNCHANGED <<joinid, searching>>
    BY DEF Yield, Found, SwitchTo
  <1>1. TypeOK'
    BY DEF JoinInv, TypeOK
  <1>2. CurrentRuns' /\ OthersWait'
    BY DEF JoinInv, TypeOK, CurrentRuns, OthersWait
  <1>3. \A u \in Thread : /\ state'[u] = "blocked" <=> state[u] = "blocked"
                          /\ state'[u] = "dead" <=> state[u] = "dead"
    BY DEF JoinInv, TypeOK, CurrentRuns
  <1>4. TargetsAlive'
    BY <1>3 DEF JoinInv, TypeOK, TargetsAlive
  <1>5. NoJoinCycle'
    BY <1>3 DEF JoinInv, NoJoinCycle
  <1>6. ExitFindsThread'
    BY DEF ExitFindsThread
  <1> QED BY <1>1, <1>2, <1>4, <1>5, <1>6 DEF JoinInv

(* An exit wakes whom it must: a blocked thread is left only if its target *)
(* lives, and if nobody were runnable, the blocked ones would be a cycle.  *)
LEMMA ExitStep ==
  ASSUME JoinInv, Exit, ~searching
  PROVE  JoinInv'
  <1> DEFINE st == [t \in Thread |-> IF t \in Joiners THEN "runnable"
                                     ELSE IF t = current THEN "dead"
                                     ELSE state[t]]
  <1>1. /\ state' = st
        /\ joinid' = [t \in Thread |-> IF t \in Joiners THEN -1 ELSE joinid[t]]
        /\ \/ /\ \E t \in Thread : st[t] = "runnable" /\ current' = t
              /\ UNCHANGED searching
           \/ /\ \A t \in Thread : st[t] # "runnable"
              /\ searching' = TRUE /\ UNCHANGED current
        /\ crashed' \in BOOLEAN
    BY DEF Exit, Found, SwitchTo, JoinInv, TypeOK
  <1>2. TypeOK'
    BY <1>1 DEF JoinInv, TypeOK
  <1>3. CurrentRuns' /\ OthersWait'
    BY <1>1 DEF JoinInv, TypeOK, CurrentRuns, OthersWait
  <1>4. \A t \in Thread : state'[t] = "blocked" =>
          /\ state[t] = "blocked" /\ joinid'[t] = joinid[t]
          /\ joinid[t] # current
    BY <1>1 DEF JoinInv, TypeOK, Joiners
  <1>5. TargetsAlive'
    BY <1>1, <1>4 DEF JoinInv, TypeOK, TargetsAlive
  <1>6. NoJoinCycle'
    <2> SUFFICES ASSUME NEW S \in SUBSET {u \in Thread : state'[u] = "blocked"},
                        S # {}
                 PROVE  \E u \in S : joinid'[u] \notin S
      BY DEF NoJoinCycle
    <2>1. /\ S \in SUBSET {u \in Thread : state[u] = "blocked"}
          /\ \A u \in S : joinid'[u] = joinid[u]
      BY <1>4
    <2> QED BY <2>1 DEF JoinInv, NoJoinCycle
  <1>7. ExitFindsThread'
    <2> SUFFICES ASSUME searching'
                 PROVE  \A t \in Thread : state'[t] = "dead"
      BY DEF ExitFindsThread
    <2>1. \A t \in Thread : st[t] # "runnable"
      BY <1>1
    <2> DEFINE S == {t \in Thread : state'[t] = "blocked"}
    <2>2. \A t \in Thread : state'[t] \in {"dead", "blocked"}
      BY <1>1, <1>2, <1>3, <2>1 DEF TypeOK, JoinInv, OthersWait
    <2>3. \A t \in S : joinid'[t] \in S
      BY <1>5, <2>2 DEF TargetsAlive
    <2>4. S = {}
      BY <1>6, <2>3 DEF NoJoinCycle
    <2> QED BY <2>2, <2>4
  <1> QED BY <1>2, <1>3, <1>5, <1>6, <1>7 DEF JoinInv

(* Every step keeps JoinInv.                                               *)
LEMMA JoinInvInductive == JoinInv /\ [Next]_vars => JoinInv'
  <1> SUFFICES ASSUME JoinInv, [Next]_vars
               PROVE  JoinInv'
    OBVIOUS
  <1>1. CASE UNCHANGED vars
    BY <1>1 DEF vars, JoinInv, TypeOK, CurrentRuns, OthersWait, TargetsAlive,
                NoJoinCycle, ExitFindsThread
  <1>2. CASE Search
    BY <1>1, <1>2 DEF Search
  <1>3. CASE ~searching /\ Call
    BY <1>3, CreateStep, ExitStep, JoinStep, YieldStep DEF Call
  <1> QED BY <1>1, <1>2, <1>3 DEF Next

(* Blocked threads wait for living ones and never for each other in a      *)
(* circle, whomever the programs join.                                     *)
THEOREM JoinSafe == Spec => []JoinInv
  <1>1. Init => JoinInv
    <2> SUFFICES ASSUME Init PROVE JoinInv
      OBVIOUS
    <2> 0 \in Thread
      OBVIOUS
    <2>1. TypeOK
      BY DEF Init, TypeOK
    <2>4. CurrentRuns /\ OthersWait
      BY DEF Init, CurrentRuns, OthersWait
    <2>5. ExitFindsThread
      BY DEF Init, ExitFindsThread
    <2>2. \A t \in Thread : state[t] # "blocked"
      BY DEF Init
    <2>3. TargetsAlive /\ NoJoinCycle
      BY <2>2 DEF TargetsAlive, NoJoinCycle
    <2> QED BY <2>1, <2>3, <2>4, <2>5 DEF JoinInv
  <1>2. JoinInv /\ [Next]_vars => JoinInv'
    BY JoinInvInductive
  <1> QED BY <1>1, <1>2, PTL DEF Spec

(* The search of pthread_exit ends, unless the last thread exits.          *)
THEOREM ExitFinds == Spec => []ExitFindsThread
  <1>1. JoinInv => ExitFindsThread
    BY DEF JoinInv
  <1> QED BY <1>1, JoinSafe, PTL

-----------------------------------------------------------------------------
(* The library implements its promise.                                     *)
Alive == {t \in Thread : state[t] # "dead"}

Awaits == [t \in Thread |-> IF state[t] = "blocked" THEN joinid[t] ELSE -1]

(* The initial states agree.                                               *)
LEMMA PromiseInit == Init => Promise!Init
  <1> SUFFICES ASSUME Init PROVE Promise!Init
    OBVIOUS
  <1> 0 \in Thread
    OBVIOUS
  <1>3. \A t \in Thread : t \in Alive <=> t = 0
    BY DEF Init, Alive
  <1>1. Alive = {0}
    BY <1>3 DEF Alive
  <1>2. Awaits = [t \in Thread |-> -1]
    BY DEF Init, Awaits
  <1> QED BY <1>1, <1>2 DEF Init, Promise!Init, Alive, Awaits

(* In terms of the threads alive and their waits, each call that is not    *)
(* the exit of the last thread hands the turn to a thread that may go on.  *)
LEMMA PassesTurn ==
  ASSUME JoinInv', state'[current'] \in {"running", "runnable"}
  PROVE  current' \in {t \in Alive' : Awaits'[t] = -1}
  BY DEF JoinInv, TypeOK, Alive, Awaits

(* A join of a thread that is not blocked is the abstract Await.           *)
LEMMA PromiseJoin ==
  ASSUME JoinInv, JoinInv', ~searching, NEW t \in Thread, t # current,
         state[t] # "blocked", Join(t)
  PROVE  Promise!Await
  <1>1. current \in Alive /\ t \in Alive \ {current}
    BY DEF JoinInv, TypeOK, CurrentRuns, Alive, Join
  <1>2. Alive' = Alive
    BY <1>1 DEF JoinInv, TypeOK, Alive, Join
  <1>3. Awaits' = [Awaits EXCEPT ![current] = t]
    BY DEF JoinInv, TypeOK, Awaits, Join
  <1>4. current' \in {u \in Alive' : Awaits'[u] = -1}
    BY PassesTurn DEF JoinInv, TypeOK, Join, SwitchTo
  <1> QED BY <1>1, <1>2, <1>3, <1>4
             DEF Promise!Await, Promise!PassTurn, Alive, Awaits

(* pthread_create is the abstract Begin.                                   *)
LEMMA PromiseCreate ==
  ASSUME JoinInv, ~searching, Create
  PROVE  Promise!Begin
  <1> PICK t \in Thread :
        /\ state[t] = "dead"
        /\ state' = [state EXCEPT ![t] = "runnable"]
        /\ joinid' = [joinid EXCEPT ![t] = -1]
        /\ UNCHANGED current
    BY DEF Create
  <1>1. current \in Alive
    BY DEF JoinInv, TypeOK, CurrentRuns, Alive
  <1>2. t \notin Alive /\ Alive' = Alive \cup {t}
    BY DEF JoinInv, TypeOK, Alive
  <1>3. Awaits' = Awaits
    BY DEF JoinInv, TypeOK, Awaits
  <1> QED BY <1>1, <1>2, <1>3 DEF Promise!Begin, Alive, Awaits

(* pthread_yield is the abstract GiveWay.                                  *)
LEMMA PromiseYield ==
  ASSUME JoinInv, JoinInv', ~searching, Yield
  PROVE  Promise!GiveWay
  <1> PICK t \in Thread :
        /\ [state EXCEPT ![current] = "runnable"][t] = "runnable"
        /\ state' = [[state EXCEPT ![current] = "runnable"]
                       EXCEPT ![t] = "running"]
        /\ current' = t
        /\ UNCHANGED joinid
    BY DEF Yield, Found, SwitchTo
  <1>1. current \in Alive
    BY DEF JoinInv, TypeOK, CurrentRuns, Alive
  <1>2. Alive' = Alive
    BY DEF JoinInv, TypeOK, CurrentRuns, Alive
  <1>3. Awaits' = Awaits
    BY DEF JoinInv, TypeOK, CurrentRuns, Awaits
  <1>4. current' \in {u \in Alive' : Awaits'[u] = -1}
    BY PassesTurn DEF JoinInv, TypeOK
  <1> QED BY <1>1, <1>2, <1>3, <1>4
             DEF Promise!GiveWay, Promise!PassTurn, Alive, Awaits

(* An exit needs joinids that are valid: a stale one would make a dead     *)
(* thread runnable, which no step of the promise does.                     *)
LEMMA PromiseExit ==
  ASSUME JoinInv, JoinidValid, JoinInv', ~searching, Exit
  PROVE  Promise!End
  <1>1. current \in Alive
    BY DEF JoinInv, TypeOK, CurrentRuns, Alive
  <1>2. \A t \in Thread :
          /\ state'[t] = IF t \in Joiners THEN "runnable"
                         ELSE IF t = current THEN "dead" ELSE state[t]
          /\ joinid'[t] = IF t \in Joiners THEN -1 ELSE joinid[t]
    BY DEF Exit
  <1>3. \A t \in Joiners : state[t] = "blocked" /\ t # current
    BY DEF Joiners, JoinidValid, JoinInv, TypeOK, CurrentRuns
  <1>4. \A t \in Thread : t \in Alive' <=> t \in Alive \ {current}
    BY <1>2, <1>3 DEF Alive
  <1>5. Alive' = Alive \ {current}
    BY <1>4 DEF Alive
  <1>6. Awaits' = [t \in Thread |-> IF Awaits[t] = current THEN -1
                                    ELSE Awaits[t]]
    <2>1. \A t \in Thread :
            Awaits'[t] = IF Awaits[t] = current THEN -1 ELSE Awaits[t]
      <3> TAKE t \in Thread
      <3>1. CASE t \in Joiners
        BY <1>2, <1>3, <3>1 DEF Awaits, Joiners
      <3>2. CASE t \notin Joiners
        <4>1. state'[t] = "blocked" <=> state[t] = "blocked" /\ t # current
          BY <1>2, <3>2
        <4>2. state[current] # "blocked"
          BY DEF JoinInv, CurrentRuns
        <4>3. joinid'[t] = joinid[t] /\ joinid[t] # current
          BY <1>2, <3>2 DEF Joiners
        <4>4. current # -1
          BY DEF JoinInv, TypeOK
        <4> QED BY <4>1, <4>2, <4>3, <4>4 DEF Awaits
      <3> QED BY <3>1, <3>2
    <2> QED BY <2>1 DEF Awaits
  <1>7. \/ current' \in {u \in Alive' : Awaits'[u] = -1}
        \/ Alive' = {} /\ UNCHANGED current
    <2>1. CASE searching'
      BY <2>1 DEF Exit, JoinInv, ExitFindsThread, Alive
    <2>2. CASE ~searching'
      BY <2>2, PassesTurn DEF JoinInv, TypeOK, CurrentRuns
    <2> QED BY <2>1, <2>2
  <1> QED BY <1>1, <1>5, <1>6, <1>7
             DEF Promise!End, Promise!PassTurn, Alive, Awaits

(* Programs that join only threads that are not blocked keep JoinidValid.  *)
LEMMA JoinidStep ==
  ASSUME ~JoinAny, JoinInv, JoinidValid, [Next]_vars
  PROVE  JoinidValid'
  <1>1. CASE UNCHANGED vars
    BY <1>1 DEF vars, JoinidValid
  <1>2. CASE Create
    BY <1>2 DEF Create, JoinidValid, JoinInv, TypeOK
  <1>3. CASE ~searching /\ Exit
    BY <1>3 DEF Exit, Joiners, JoinidValid, JoinInv, TypeOK, CurrentRuns
  <1>4. ASSUME NEW t \in Thread, t # current, state[t] # "blocked", Join(t)
        PROVE  JoinidValid'
    BY <1>4 DEF Join, JoinidValid, JoinInv, TypeOK
  <1>5. CASE ~searching /\ Yield
    <2>1. state[current] # "blocked" /\ UNCHANGED joinid
      BY <1>5 DEF Yield, JoinInv, CurrentRuns
    <2>2. \A t \in Thread : state[t] = "blocked" => state'[t] = "blocked"
      BY <1>5, <2>1 DEF Yield, Found, JoinInv, TypeOK
    <2> QED BY <2>1, <2>2 DEF JoinidValid
  <1> QED BY <1>1, <1>2, <1>3, <1>4, <1>5 DEF Next, Call, Search

(* Every step of such programs is a step of the abstract threads or none.  *)
LEMMA PromiseStep ==
  ASSUME ~JoinAny, JoinInv, JoinidValid, JoinInv', [Next]_vars
  PROVE  [Promise!Next]_(Promise!threadVars)
  <1>1. CASE UNCHANGED vars
    BY <1>1 DEF vars, Promise!threadVars
  <1>2. CASE ~searching /\ Create
    BY <1>2, PromiseCreate DEF Promise!Next
  <1>3. CASE ~searching /\ Exit
    BY <1>3, PromiseExit DEF Promise!Next
  <1>4. ASSUME NEW t \in Thread, t # current, state[t] # "blocked",
               ~searching, Join(t)
        PROVE  Promise!Next
    BY <1>4, PromiseJoin DEF Promise!Next
  <1>5. CASE ~searching /\ Yield
    BY <1>5, PromiseYield DEF Promise!Next
  <1> QED BY <1>1, <1>2, <1>3, <1>4, <1>5 DEF Next, Call, Search

(* For programs that join only threads that are not blocked, a joinid is   *)
(* set exactly while its thread is blocked.                                *)
THEOREM Joinids ==
  ASSUME ~JoinAny
  PROVE  Spec => []JoinidValid
  <1>1. Init => JoinidValid
    BY DEF Init, JoinidValid
  <1>2. JoinInv /\ JoinidValid /\ [Next]_vars => JoinidValid'
    BY JoinidStep
  <1> QED BY <1>1, <1>2, JoinSafe, PTL DEF Spec

(* ... and the library is an implementation of threads with join.          *)
THEOREM Implements ==
  ASSUME ~JoinAny
  PROVE  Spec => PromiseSpec
  <1>1. Init => Promise!Init
    BY PromiseInit
  <1>2. JoinInv /\ JoinidValid /\ JoinInv' /\ [Next]_vars
          => [Promise!Next]_(Promise!threadVars)
    BY PromiseStep
  <1> QED BY <1>1, <1>2, JoinSafe, Joinids, PTL
             DEF Spec, PromiseSpec, Promise!Spec
=============================================================================
