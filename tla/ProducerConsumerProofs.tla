----------------------- MODULE ProducerConsumerProofs -----------------------
(* Proofs about the producers and consumers, for any numbers of them and   *)
(* of rounds.                                                              *)
EXTENDS ProducerConsumer, FiniteSetTheorems, TLAPS

(* The workers are finitely many numbers, the father is none of them.      *)
LEMMA WorkersFacts ==
  /\ IsFiniteSet(Workers)
  /\ Father \notin Workers
  /\ Workers \subseteq Nat
  <1>1. Workers \subseteq 2 .. NProducer + NConsumer + 1
    BY ProgramAssumption DEF Workers, Producers, Consumers
  <1>2. IsFiniteSet(2 .. NProducer + NConsumer + 1)
    BY ProgramAssumption, FS_Interval
  <1>3. IsFiniteSet(Workers)
    BY <1>1, <1>2, FS_Subset
  <1> QED BY <1>1, <1>3 DEF Father

(* What is left of a queue when its first is taken.                        *)
LEMMA HeadAndTail ==
  ASSUME NEW q \in Seq(Workers), q # <<>>
  PROVE  /\ Head(q) = q[1] /\ Head(q) \in Workers /\ Len(q) \in Nat \ {0}
         /\ Tail(q) \in Seq(Workers) /\ Len(Tail(q)) = Len(q) - 1
         /\ \A n \in 1 .. Len(Tail(q)) : Tail(q)[n] = q[n + 1]
  OBVIOUS

(* A queue with one more at its end.                                       *)
LEMMA Appended ==
  ASSUME NEW q \in Seq(Workers), NEW p \in Workers
  PROVE  /\ Append(q, p) \in Seq(Workers) /\ Len(Append(q, p)) = Len(q) + 1
         /\ \A n \in 1 .. Len(q) : Append(q, p)[n] = q[n]
         /\ Append(q, p)[Len(q) + 1] = p /\ Len(q) \in Nat
  OBVIOUS

(* Owners changes by one member at a time.                                 *)
LEMMA OwnersFinite ==
  ASSUME TypeOK
  PROVE  IsFiniteSet(Owners) /\ Cardinality(Owners) \in Nat
  BY WorkersFacts, FS_Subset, FS_CardinalityType DEF Owners

(* A permit more is out when one more process owns it.                     *)
LEMMA OneMore ==
  ASSUME TypeOK, NEW p, p \notin Owners, Owners' = Owners \cup {p}
  PROVE  Cardinality(Owners') = Cardinality(Owners) + 1
  BY OwnersFinite, FS_AddElement

(* A permit less is out when one owner gives it back.                      *)
LEMMA OneLess ==
  ASSUME TypeOK, NEW p \in Owners, Owners' = Owners \ {p}
  PROVE  Cardinality(Owners') = Cardinality(Owners) - 1
  BY OwnersFinite, FS_RemoveElement

(* Nobody loses his place in a queue by a step of a process that is awake. *)
LEMMA LinesKept ==
  ASSUME LinesOnce, UNCHANGED <<queue, asleep>>,
         \A q \in asleep : pc'[q] = pc[q],
         pc[Father] \notin {"initMutex", "initFull"}, pc'[Father] \in {"fork", "dead"}
  PROVE  LinesOnce'
  <1>1. \A q \in asleep' : pc'[q] \in {"locked", "got"}
    BY DEF LinesOnce
  <1>2. ASSUME NEW s \in {"mutex", "full"}
        PROVE  /\ \A n \in 1 .. Len(queue'[s]) :
                    queue'[s][n] \in asleep' /\ pc'[queue'[s][n]] = Place(s)
               /\ \A m, n \in 1 .. Len(queue'[s]) :
                    queue'[s][m] = queue'[s][n] => m = n
    <2>1. /\ \A n \in 1 .. Len(queue[s]) :
               queue[s][n] \in asleep /\ pc[queue[s][n]] = Place(s)
          /\ \A m, n \in 1 .. Len(queue[s]) :
               queue[s][m] = queue[s][n] => m = n
      BY DEF LinesOnce
    <2> QED BY <2>1
  <1> QED BY <1>1, <1>2 DEF LinesOnce

(* The same for a worker: it runs after the father's sem_inits.            *)
LEMMA WorkerKeepsLines ==
  ASSUME TypeOK, LinesOnce, NEW p \in Workers \ asleep, pc[p] # "dead",
         pc' = [pc EXCEPT ![p] = pc'[p]], UNCHANGED <<queue, asleep>>
  PROVE  LinesOnce'
  <1>1. pc[Father] \in {"fork", "dead"}
    BY DEF LinesOnce
  <1>2. Father # p /\ pc'[Father] = pc[Father]
    BY WorkersFacts DEF TypeOK
  <1>3. \A q \in asleep : pc'[q] = pc[q]
    BY DEF TypeOK
  <1> QED BY <1>1, <1>2, <1>3, LinesKept

-----------------------------------------------------------------------------
(* A sem_wait that finds a permit.                                         *)
LEMMA PassKeeps ==
  ASSUME ProgramInv, NEW s \in {"mutex", "full"},
         NEW p \in Workers \ asleep, NEW from \in {"lock", "take"},
         Go(p, from, Place(s)), Sem!Pass(s),
         UNCHANGED <<k, forks, made, taken>>
  PROVE  ProgramInv'
  <1> USE DEF ProgramInv, Sem!Pass, Go
  <1>1. TypeOK'
    BY DEF TypeOK, Calls, Place
  <1>2. LinesOnce'
    BY WorkersFacts DEF LinesOnce, TypeOK, Father
  <1>3. PermitOnce'
    <2>1. CASE s = "mutex"
      <3>1. Holders' = {p}
        BY <2>1 DEF PermitOnce, Holders, TypeOK, Place
      <3> QED BY <2>1, <3>1 DEF PermitOnce, TypeOK
    <2>2. CASE s = "full"
      <3>1. Holders' = Holders
        BY <2>2 DEF Holders, TypeOK, Place
      <3> QED BY <2>2, <3>1 DEF PermitOnce, TypeOK
    <2> QED BY <2>1, <2>2
  <1>4. ProductsCounted'
    <2>1. CASE s = "mutex"
      <3>1. Owners' = Owners
        BY <2>1 DEF Owners, TypeOK, Place
      <3> QED BY <2>1, <3>1 DEF ProductsCounted, TypeOK
    <2>2. CASE s = "full"
      <3>1. Owners' = Owners \cup {p} /\ p \notin Owners
        BY <2>2 DEF Owners, TypeOK, Place
      <3>2. Cardinality(Owners') = Cardinality(Owners) + 1
        BY <3>1, OneMore
      <3> QED BY <2>2, <3>2, OwnersFinite DEF ProductsCounted, TypeOK
    <2> QED BY <2>1, <2>2
  <1> QED BY <1>1, <1>2, <1>3, <1>4

(* A sem_wait that does not.                                               *)
LEMMA WaitKeeps ==
  ASSUME ProgramInv, NEW s \in {"mutex", "full"},
         NEW p \in Workers \ asleep, NEW from \in {"lock", "take"},
         Go(p, from, Place(s)), Sem!Wait(p, s),
         UNCHANGED <<k, forks, made, taken>>
  PROVE  ProgramInv'
  <1> USE DEF ProgramInv, Sem!Wait, Go
  <1>1. queue[s] \in Seq(Workers)
    BY DEF TypeOK
  <1>2. TypeOK'
    BY <1>1, Appended DEF TypeOK, Calls, Place
  <1>3. LinesOnce'
    <2>1. \A q \in asleep' : pc'[q] \in {"locked", "got"}
      BY DEF LinesOnce, TypeOK, Place
    <2>2. ASSUME NEW t \in {"mutex", "full"}
          PROVE  /\ \A n \in 1 .. Len(queue'[t]) :
                      /\ queue'[t][n] \in asleep'
                      /\ pc'[queue'[t][n]] = Place(t)
                 /\ \A m, n \in 1 .. Len(queue'[t]) :
                      queue'[t][m] = queue'[t][n] => m = n
      <3>1. CASE t # s
        <4>1. queue'[t] = queue[t]
          BY <3>1 DEF TypeOK
        <4>2. \A q \in asleep : pc'[q] = pc[q] /\ q \in asleep'
          BY DEF TypeOK
        <4>3. /\ \A n \in 1 .. Len(queue[t]) :
                   queue[t][n] \in asleep /\ pc[queue[t][n]] = Place(t)
              /\ \A m, n \in 1 .. Len(queue[t]) :
                   queue[t][m] = queue[t][n] => m = n
          BY DEF LinesOnce
        <4>4. \A n \in 1 .. Len(queue'[t]) :
                 queue'[t][n] \in asleep' /\ pc'[queue'[t][n]] = Place(t)
          <5> SUFFICES ASSUME NEW n \in 1 .. Len(queue[t])
                       PROVE  queue[t][n] \in asleep' /\ pc'[queue[t][n]] = Place(t)
            BY <4>1
          <5>1. queue[t][n] \in asleep /\ pc[queue[t][n]] = Place(t)
            BY <4>3
          <5> QED BY <4>2, <5>1
        <4>5. \A m, n \in 1 .. Len(queue'[t]) :
                 queue'[t][m] = queue'[t][n] => m = n
          BY <4>1, <4>3
        <4> QED BY <4>4, <4>5
      <3>2. CASE t = s
        <4>1. queue'[t] = Append(queue[s], p)
          BY <3>2 DEF TypeOK
        <4>2. \A n \in 1 .. Len(queue[s]) :
                /\ queue[s][n] \in asleep /\ queue[s][n] # p
                /\ pc[queue[s][n]] = Place(s)
          BY DEF LinesOnce
        <4>3. pc'[p] = Place(s) /\ p \in asleep'
              /\ \A q \in asleep : pc'[q] = pc[q] /\ q \in asleep'
          BY DEF TypeOK
        <4>4. \A n \in 1 .. Len(queue'[t]) :
                n \in 1 .. Len(queue[s]) \/ n = Len(queue[s]) + 1
          BY <1>1, <4>1, Appended
        <4>5. \A n \in 1 .. Len(queue'[t]) :
                /\ queue'[t][n] \in asleep'
                /\ pc'[queue'[t][n]] = Place(t)
          BY <1>1, <3>2, <4>1, <4>2, <4>3, <4>4, Appended
        <4>6. \A m, n \in 1 .. Len(queue'[t]) :
                queue'[t][m] = queue'[t][n] => m = n
          BY <1>1, <4>1, <4>2, <4>4, Appended DEF LinesOnce
        <4> QED BY <4>5, <4>6
      <3> QED BY <3>1, <3>2
    <2>3. pc'[Father] = pc[Father]
      BY WorkersFacts DEF TypeOK, Father
    <2> QED BY <2>1, <2>2, <2>3 DEF LinesOnce, TypeOK
  <1>4. Holders' = Holders /\ Owners' = Owners
    BY DEF Holders, Owners, TypeOK, LinesOnce
  <1>5. PermitOnce' /\ ProductsCounted'
    BY <1>4 DEF PermitOnce, ProductsCounted
  <1> QED BY <1>2, <1>3, <1>5

(* A sem_post hands its permit to the first in line, or leaves it.  The    *)
(* line keeps its order.                                                   *)
LEMMA HandOverLines ==
  ASSUME ProgramInv, NEW s \in {"mutex", "full"},
         NEW p \in Workers \ asleep, NEW from \in {"locked", "post"},
         NEW to \in Calls, Go(p, from, to), Sem!HandOver(s)
  PROVE  /\ LinesOnce'
         /\ Head(queue[s]) \in asleep /\ pc[Head(queue[s])] = Place(s)
         /\ queue' \in [{"mutex", "full"} -> Seq(Workers)]
  <1> USE DEF ProgramInv, Sem!HandOver, Go
  <1> DEFINE h == Head(queue[s])
  <1>1. queue[s] \in Seq(Workers) /\ queue[s] # <<>>
    BY DEF TypeOK
  <1>2. h = queue[s][1] /\ h \in Workers /\ 1 \in 1 .. Len(queue[s])
    BY <1>1, HeadAndTail
  <1>3. h \in asleep /\ pc[h] = Place(s) /\ h # p
    BY <1>2 DEF LinesOnce
  <1>4. \A q \in asleep' : pc'[q] = pc[q] /\ q \in asleep
    BY DEF TypeOK
  <1>5. ASSUME NEW n \in 1 .. Len(queue'[s])
        PROVE  /\ queue'[s][n] = queue[s][n + 1]
               /\ n + 1 \in 1 .. Len(queue[s])
    BY <1>1, HeadAndTail DEF TypeOK
  <1>0. \A m, n \in 1 .. Len(queue[s]) : queue[s][m] = queue[s][n] => m = n
    BY DEF LinesOnce
  <1>6. \A n \in 1 .. Len(queue'[s]) :
          queue'[s][n] \in asleep' /\ pc'[queue'[s][n]] = Place(s)
    <2> TAKE n \in 1 .. Len(queue'[s])
    <2>1. queue[s][n + 1] \in asleep /\ pc[queue[s][n + 1]] = Place(s)
      BY <1>5 DEF LinesOnce
    <2>2. queue[s][n + 1] # h
      <3>1. n \in Nat \ {0}
        BY <1>1, HeadAndTail DEF TypeOK
      <3>2. n + 1 # 1
        BY <3>1
      <3> HIDE DEF h
      <3> QED BY <1>2, <1>5, <1>0, <3>2
    <2>3. queue[s][n + 1] \in asleep'
      BY <2>1, <2>2
    <2> QED BY <1>4, <1>5, <2>1, <2>3
  <1>7. \A m, n \in 1 .. Len(queue'[s]) :
          queue'[s][m] = queue'[s][n] => m = n
    <2> TAKE m, n \in 1 .. Len(queue'[s])
    <2>1. queue'[s][m] = queue'[s][n] => m + 1 = n + 1
      BY <1>5, <1>0
    <2>2. m \in Int /\ n \in Int
      BY <1>1, HeadAndTail DEF TypeOK
    <2> QED BY <2>1, <2>2
  <1>8. ASSUME NEW t \in {"mutex", "full"}, t # s
        PROVE  /\ \A n \in 1 .. Len(queue'[t]) :
                    queue'[t][n] \in asleep' /\ pc'[queue'[t][n]] = Place(t)
               /\ \A m, n \in 1 .. Len(queue'[t]) :
                    queue'[t][m] = queue'[t][n] => m = n
    <2>1. queue'[t] = queue[t]
      BY <1>8 DEF TypeOK
    <2>2. Place(t) # Place(s)
      BY <1>8 DEF Place
    <2>3. ASSUME NEW n \in 1 .. Len(queue[t])
          PROVE  queue[t][n] \in asleep' /\ pc'[queue[t][n]] = Place(t)
      <3>1. queue[t][n] \in asleep /\ pc[queue[t][n]] = Place(t)
        BY DEF LinesOnce
      <3>2. queue[t][n] \in asleep'
        BY <1>3, <2>2, <3>1
      <3> QED BY <1>4, <3>1, <3>2
    <2> QED BY <2>1, <2>3 DEF LinesOnce
  <1>9. pc'[Father] = pc[Father] /\ pc[Father] \in {"fork", "dead"}
    <2>1. p # Father /\ pc[p] # "dead"
      BY WorkersFacts
    <2> QED BY <2>1 DEF LinesOnce, TypeOK
  <1>10. LinesOnce'
    <2>1. \A q \in asleep' : pc'[q] \in {"locked", "got"}
      BY <1>4 DEF LinesOnce
    <2> QED BY <1>6, <1>7, <1>8, <1>9, <2>1 DEF LinesOnce
  <1>11. queue' \in [{"mutex", "full"} -> Seq(Workers)]
    BY <1>1, HeadAndTail DEF TypeOK
  <1> QED BY <1>3, <1>10, <1>11

(* The V of the mutex keeps the invariant when it wakes a process.         *)
LEMMA HandOverMutex ==
  ASSUME ProgramInv, NEW p \in Workers \ asleep,
         NEW to \in {"post", "consumed"},
         Go(p, "locked", to), Sem!HandOver("mutex"),
         UNCHANGED <<k, forks, made, taken>>
  PROVE  ProgramInv'
  <1> USE DEF ProgramInv, Sem!HandOver, Go
  <1> DEFINE h == Head(queue["mutex"])
  <1>1. h \in asleep /\ pc[h] = "locked" /\ LinesOnce'
    BY HandOverLines DEF Calls, Place
  <1>2. TypeOK'
    BY HandOverLines DEF TypeOK, Calls
  <1>3. PermitOnce'
    <2>1. p \in Holders
      BY DEF Holders
    <2>2. Holders' = {h} /\ permits["mutex"] = 0
      BY <1>1, <2>1 DEF Holders, PermitOnce, TypeOK
    <2> QED BY <2>2 DEF PermitOnce
  <1>4. Owners' = Owners
    BY <1>1 DEF Owners, TypeOK
  <1> QED BY <1>1, <1>2, <1>3, <1>4 DEF ProductsCounted

(* The V of full keeps the invariant when it wakes a consumer.             *)
LEMMA HandOverFull ==
  ASSUME ProgramInv, NEW p \in Workers \ asleep,
         NEW to \in {"produce", "dead"},
         Go(p, "post", to), Sem!HandOver("full"),
         k' \in [Workers -> Nat], made' = made + 1, UNCHANGED <<forks, taken>>
  PROVE  ProgramInv'
  <1> USE DEF ProgramInv, Sem!HandOver, Go
  <1> DEFINE h == Head(queue["full"])
  <1>1. /\ h \in asleep /\ pc[h] = "got" /\ LinesOnce'
        /\ queue' \in [{"mutex", "full"} -> Seq(Workers)]
    BY HandOverLines DEF Calls, Place
  <1>2. TypeOK'
    BY <1>1 DEF TypeOK, Calls
  <1>3. Holders' = Holders
    BY <1>1 DEF Holders, TypeOK
  <1>4. Owners' = Owners \cup {h} /\ h \notin Owners
    BY <1>1 DEF Owners, TypeOK
  <1>5. Cardinality(Owners') = Cardinality(Owners) + 1
    BY <1>4, OneMore
  <1>6. ProductsCounted'
    <2>1. /\ Cardinality(Owners) \in Nat /\ taken \in Nat /\ permits["full"] \in Nat
          /\ made = taken + Cardinality(Owners) + permits["full"]
      BY OwnersFinite DEF ProductsCounted, TypeOK
    <2>2. made' = made + 1 /\ taken' = taken /\ permits' = permits
      OBVIOUS
    <2> QED BY <1>5, <2>1, <2>2 DEF ProductsCounted
  <1> QED BY <1>1, <1>2, <1>3, <1>6 DEF PermitOnce

(* A sem_post with nobody in line.                                         *)
LEMMA ReleaseMutex ==
  ASSUME ProgramInv, NEW p \in Workers \ asleep,
         NEW to \in {"post", "consumed"},
         Go(p, "locked", to), Sem!Release("mutex"),
         UNCHANGED <<k, forks, made, taken>>
  PROVE  ProgramInv'
  <1> USE DEF ProgramInv, Sem!Release, Go
  <1>1. TypeOK'
    BY DEF TypeOK, Calls
  <1>2. LinesOnce'
    <2>1. /\ pc[p] # "dead" /\ pc' = [pc EXCEPT ![p] = pc'[p]]
          /\ UNCHANGED <<queue, asleep>>
      BY DEF TypeOK
    <2> QED BY <2>1, WorkerKeepsLines
  <1>3. PermitOnce'
    <2>1. p \in Holders
      BY DEF Holders
    <2>2. Holders' = {} /\ permits["mutex"] = 0
      BY <2>1 DEF Holders, PermitOnce, TypeOK
    <2> QED BY <2>2 DEF PermitOnce, TypeOK
  <1>4. Owners' = Owners
    BY DEF Owners, TypeOK
  <1>5. ProductsCounted'
    BY <1>4 DEF ProductsCounted, TypeOK
  <1> QED BY <1>1, <1>2, <1>3, <1>5

(* The V of full keeps the invariant when nobody sleeps there.             *)
LEMMA ReleaseFull ==
  ASSUME ProgramInv, NEW p \in Workers \ asleep,
         NEW to \in {"produce", "dead"},
         Go(p, "post", to), Sem!Release("full"),
         k' \in [Workers -> Nat], made' = made + 1, UNCHANGED <<forks, taken>>
  PROVE  ProgramInv'
  <1> USE DEF ProgramInv, Sem!Release, Go
  <1>1. TypeOK'
    BY DEF TypeOK, Calls
  <1>2. LinesOnce'
    <2>1. /\ pc[p] # "dead" /\ pc' = [pc EXCEPT ![p] = pc'[p]]
          /\ UNCHANGED <<queue, asleep>>
      BY DEF TypeOK
    <2> QED BY <2>1, WorkerKeepsLines
  <1>3. Holders' = Holders /\ Owners' = Owners
    BY DEF Holders, Owners, TypeOK
  <1>4. permits'["mutex"] = permits["mutex"] /\ permits'["full"] = permits["full"] + 1
    BY DEF TypeOK
  <1>5. PermitOnce'
    BY <1>3, <1>4 DEF PermitOnce
  <1>6. ProductsCounted'
    <2>1. /\ Cardinality(Owners') = Cardinality(Owners) /\ Cardinality(Owners) \in Nat
          /\ taken' = taken /\ made' = made + 1
      BY <1>3, OwnersFinite
    <2>2. taken \in Nat /\ made \in Nat /\ permits["full"] \in Nat
      BY DEF TypeOK
    <2>3. made = taken + Cardinality(Owners) + permits["full"]
      BY DEF ProductsCounted
    <2>4. made' = taken' + Cardinality(Owners') + permits'["full"]
      BY <1>4, <2>1, <2>2, <2>3
    <2> QED BY <2>4 DEF ProductsCounted
  <1> QED BY <1>1, <1>2, <1>5, <1>6

(* Steps that touch no semaphore.                                          *)
LEMMA SleepKeeps ==
  ASSUME ProgramInv, NEW p \in Workers \ asleep,
         NEW from \in {"produce", "consumed"},
         NEW to \in {"lock", "take", "dead"},
         Go(p, from, to), k' \in [Workers -> Nat],
         UNCHANGED <<semVars, forks, made, taken>>
  PROVE  ProgramInv'
  <1> USE DEF ProgramInv, Go, semVars
  <1>1. TypeOK'
    BY DEF TypeOK, Calls
  <1>2. LinesOnce'
    <2>1. /\ pc[p] # "dead" /\ pc' = [pc EXCEPT ![p] = pc'[p]]
          /\ UNCHANGED <<queue, asleep>>
      BY DEF TypeOK
    <2> QED BY <2>1, WorkerKeepsLines
  <1>3. Holders' = Holders /\ Owners' = Owners
    BY DEF Holders, Owners, TypeOK
  <1> QED BY <1>1, <1>2, <1>3 DEF PermitOnce, ProductsCounted

(* A consumer that has got a product keeps the invariant.                  *)
LEMMA GotKeeps ==
  ASSUME ProgramInv, NEW p \in Workers \ asleep, Got(p)
  PROVE  ProgramInv'
  <1> USE DEF ProgramInv, Got, Go, semVars
  <1>1. TypeOK'
    BY DEF TypeOK, Calls
  <1>2. LinesOnce'
    <2>1. /\ pc[p] # "dead" /\ pc' = [pc EXCEPT ![p] = pc'[p]]
          /\ UNCHANGED <<queue, asleep>>
      BY DEF TypeOK
    <2> QED BY <2>1, WorkerKeepsLines
  <1>3. Holders' = Holders
    BY DEF Holders, TypeOK
  <1>4. Owners' = Owners \ {p} /\ p \in Owners
    BY DEF Owners, TypeOK
  <1>5. Cardinality(Owners') = Cardinality(Owners) - 1
    BY <1>4, OneLess
  <1>6. ProductsCounted'
    <2>1. /\ Cardinality(Owners) \in Nat
          /\ taken' = taken + 1 /\ made' = made /\ permits' = permits
      BY OwnersFinite
    <2>2. taken \in Nat /\ made \in Nat /\ permits["full"] \in Nat
      BY DEF TypeOK
    <2>3. made = taken + Cardinality(Owners) + permits["full"]
      BY DEF ProductsCounted
    <2>4. made' = taken' + Cardinality(Owners') + permits'["full"]
      BY <1>5, <2>1, <2>2, <2>3
    <2> QED BY <2>4 DEF ProductsCounted
  <1> QED BY <1>1, <1>2, <1>3, <1>6 DEF PermitOnce

(* Before the first fork nothing but the father runs.                      *)
LEMMA CreateKeeps ==
  ASSUME ProgramInv, NEW s \in {"mutex", "full"}, NEW v \in {0, 1},
         s = "full" => v = 0, pc[Father] \in {"initMutex", "initFull"},
         NEW to \in {"initFull", "fork"},
         pc' = [pc EXCEPT ![Father] = to], Sem!Create(s, v),
         UNCHANGED <<k, forks, made, taken>>
  PROVE  ProgramInv'
  <1> USE DEF ProgramInv, Sem!Create
  <1>1. TypeOK'
    BY DEF TypeOK, Calls
  <1>2. \A p \in Workers : pc[p] = "dead" /\ pc'[p] = "dead"
    BY WorkersFacts DEF LinesOnce, TypeOK
  <1>3. permits["full"] = 0 /\ permits'["full"] = 0
    BY DEF LinesOnce, TypeOK
  <1>4. asleep = {}
    BY <1>2 DEF LinesOnce, TypeOK
  <1>5. \A t \in {"mutex", "full"} : \A n \in 1 .. Len(queue[t]) : FALSE
    BY <1>4 DEF LinesOnce
  <1>6. pc'[Father] = to
    BY DEF TypeOK
  <1>7. LinesOnce'
    BY <1>2, <1>3, <1>4, <1>5, <1>6 DEF LinesOnce
  <1>8. Holders = {} /\ Holders' = {} /\ Owners = {} /\ Owners' = {}
    BY <1>2 DEF Holders, Owners
  <1>9. PermitOnce'
    BY <1>8 DEF PermitOnce, TypeOK
  <1>10. ProductsCounted'
    BY <1>3, <1>8 DEF ProductsCounted
  <1> QED BY <1>1, <1>7, <1>9, <1>10

(* A fork keeps the invariant.                                             *)
LEMMA ForkKeeps ==
  ASSUME ProgramInv, Fork
  PROVE  ProgramInv'
  <1> USE DEF ProgramInv, Fork, semVars
  <1>1. /\ pc' \in [Workers \cup {Father} -> Calls]
        /\ k' \in [Workers -> Nat] /\ forks' \in Nat
        /\ pc'[Father] \in {"fork", "dead"}
        /\ \A q \in Workers :
             \/ pc'[q] = pc[q]
             \/ pc[q] = "dead" /\ pc'[q] \in {"produce", "take"}
    <2>1. CASE forks < NProducer + NConsumer
      <3>1. PICK p \in Workers :
              /\ FirstDead(p)
              /\ pc' = [pc EXCEPT ![p] = IF p \in Producers THEN "produce"
                                         ELSE "take"]
              /\ k' = [k EXCEPT ![p] = 1]
              /\ forks' = forks + 1
        BY <2>1
      <3>2. p # Father
        BY WorkersFacts
      <3> QED BY <3>1, <3>2 DEF TypeOK, Calls, FirstDead
    <2>2. CASE ~ (forks < NProducer + NConsumer)
      <3>1. pc' = [pc EXCEPT ![Father] = "dead"] /\ UNCHANGED <<k, forks>>
        BY <2>2
      <3> QED BY <3>1, WorkersFacts DEF TypeOK, Calls
    <2> QED BY <2>1, <2>2
  <1>2. TypeOK'
    BY <1>1 DEF TypeOK
  <1>3. \A q \in asleep : q \in Workers /\ pc'[q] = pc[q]
    BY <1>1 DEF LinesOnce, TypeOK
  <1>4. LinesOnce'
    <2>1. pc[Father] = "fork" /\ pc'[Father] \in {"fork", "dead"}
      BY <1>1 DEF TypeOK
    <2>2. UNCHANGED <<queue, asleep>>
      BY <1>1
    <2> QED BY <1>3, <2>1, <2>2, LinesKept
  <1>5. Holders' = Holders /\ Owners' = Owners
    BY <1>1 DEF Holders, Owners
  <1> QED BY <1>2, <1>4, <1>5 DEF PermitOnce, ProductsCounted

(* Every step of the father keeps the invariant.                           *)
LEMMA FatherKeeps ==
  ASSUME ProgramInv, InitMutex \/ InitFull \/ Fork
  PROVE  ProgramInv'
  <1>1. CASE InitMutex
    BY <1>1, CreateKeeps DEF InitMutex, Go
  <1>2. CASE InitFull
    BY <1>2, CreateKeeps DEF InitFull, Go
  <1> QED BY <1>1, <1>2, ForkKeeps

-----------------------------------------------------------------------------
(* The calls of a worker.                                                  *)
LEMMA LockKeeps ==
  ASSUME ProgramInv, NEW p \in Workers \ asleep, Lock(p)
  PROVE  ProgramInv'
  <1>1. Go(p, "lock", Place("mutex"))
    BY DEF Lock, Place
  <1>2. Sem!Pass("mutex") \/ Sem!Wait(p, "mutex")
    BY DEF Lock, P
  <1> QED BY <1>1, <1>2, PassKeeps, WaitKeeps DEF Lock

(* The P of full keeps the invariant.                                      *)
LEMMA TakeKeeps ==
  ASSUME ProgramInv, NEW p \in Workers \ asleep, Take(p)
  PROVE  ProgramInv'
  <1>1. Go(p, "take", Place("full"))
    BY DEF Take, Place
  <1>2. Sem!Pass("full") \/ Sem!Wait(p, "full")
    BY DEF Take, P
  <1> QED BY <1>1, <1>2, PassKeeps, WaitKeeps DEF Take

(* The V of the mutex keeps the invariant.                                 *)
LEMMA UnlockKeeps ==
  ASSUME ProgramInv, NEW p \in Workers \ asleep,
         NEW to \in {"post", "consumed"}, Unlock(p, to),
         UNCHANGED <<made, taken>>
  PROVE  ProgramInv'
  BY HandOverMutex, ReleaseMutex DEF Unlock, V

(* A counter of rounds stays a natural number.                             *)
LEMMA RoundsNatural ==
  ASSUME TypeOK, NEW p \in Workers, k' = [k EXCEPT ![p] = @ + 1]
  PROVE  k' \in [Workers -> Nat]
  BY DEF TypeOK

(* Every step of a producer keeps the invariant.                           *)
LEMMA ProducerKeeps ==
  ASSUME ProgramInv, NEW p \in Workers \ asleep, Producer(p)
  PROVE  ProgramInv'
  <1>1. CASE Sleep(p, "produce", "lock") /\ UNCHANGED <<made, taken>>
    BY <1>1, SleepKeeps DEF Sleep, ProgramInv, TypeOK, semVars
  <1>2. CASE Unlock(p, "post") /\ UNCHANGED <<made, taken>>
    BY <1>2, UnlockKeeps
  <1>3. CASE NextRound(p, "post", Produce, "produce") /\ V("full")
             /\ made' = made + 1 /\ UNCHANGED taken
    <2> DEFINE to == IF k[p] < Produce THEN "produce" ELSE "dead"
    <2>1. to \in {"produce", "dead"} /\ Go(p, "post", to)
      BY <1>3 DEF NextRound
    <2>2. k' \in [Workers -> Nat] /\ UNCHANGED <<forks, taken>>
      BY <1>3, RoundsNatural DEF NextRound, ProgramInv
    <2>3. Sem!HandOver("full") \/ Sem!Release("full")
      BY <1>3 DEF V
    <2> HIDE DEF to
    <2> QED BY <1>3, <2>1, <2>2, <2>3, HandOverFull, ReleaseFull
  <1> QED BY <1>1, <1>2, <1>3, LockKeeps DEF Producer

(* Every step of a consumer keeps the invariant.                           *)
LEMMA ConsumerKeeps ==
  ASSUME ProgramInv, NEW p \in Workers \ asleep, Consumer(p)
  PROVE  ProgramInv'
  <1>1. CASE Unlock(p, "consumed") /\ UNCHANGED <<made, taken>>
    BY <1>1, UnlockKeeps
  <1>2. CASE NextRound(p, "consumed", Consume, "take")
             /\ UNCHANGED <<semVars, made, taken>>
    <2> DEFINE to == IF k[p] < Consume THEN "take" ELSE "dead"
    <2>1. to \in {"lock", "take", "dead"} /\ Go(p, "consumed", to)
      BY <1>2 DEF NextRound
    <2>2. k' \in [Workers -> Nat] /\ UNCHANGED <<semVars, forks, made, taken>>
      BY <1>2, RoundsNatural DEF NextRound, ProgramInv
    <2> HIDE DEF to
    <2> QED BY <2>1, <2>2, SleepKeeps
  <1> QED BY <1>1, <1>2, LockKeeps, TakeKeeps, GotKeeps DEF Consumer

(* Every step keeps the invariant.                                         *)
LEMMA ProgramStep ==
  ASSUME ProgramInv, [Next]_vars
  PROVE  ProgramInv'
  <1>1. CASE UNCHANGED vars
    BY <1>1 DEF vars, semVars, ProgramInv, TypeOK, LinesOnce, PermitOnce,
                ProductsCounted, Holders, Owners
  <1>2. CASE \E p \in Workers \cup {Father} : Step(p)
    <2>1. PICK p \in Workers \cup {Father} : Step(p)
      BY <1>2
    <2>2. CASE p = Father /\ (InitMutex \/ InitFull \/ Fork)
      BY <2>2, FatherKeeps
    <2>3. CASE p \in Producers /\ p \notin asleep /\ Producer(p)
      BY <2>3, ProducerKeeps DEF Workers
    <2>4. CASE p \in Consumers /\ p \notin asleep /\ Consumer(p)
      BY <2>4, ConsumerKeeps DEF Workers
    <2> QED BY <2>1, <2>2, <2>3, <2>4 DEF Step
  <1> QED BY <1>1, <1>2 DEF Next, Idle

(* The invariant holds initially.                                          *)
LEMMA ProgramInit ==
  ASSUME Init
  PROVE  ProgramInv
  <1> USE DEF Init, Sem!Init
  <1>1. \A t \in {"mutex", "full"} : queue[t] = <<>> /\ permits[t] = 0
    OBVIOUS
  <1>2. <<>> \in Seq(Workers)
    OBVIOUS
  <1>3. pc[Father] = "initMutex" /\ \A p \in Workers : pc[p] = "dead"
    BY WorkersFacts
  <1>4. TypeOK
    BY <1>2 DEF TypeOK, Calls
  <1>5. LinesOnce
    BY <1>1, <1>3 DEF LinesOnce
  <1>6. Holders = {} /\ Owners = {}
    BY <1>3 DEF Holders, Owners
  <1>7. PermitOnce
    BY <1>1, <1>6 DEF PermitOnce
  <1>8. ProductsCounted
    BY <1>1, <1>6, FS_EmptySet DEF ProductsCounted
  <1> QED BY <1>4, <1>5, <1>7, <1>8 DEF ProgramInv

-----------------------------------------------------------------------------
(* Whatever the numbers of workers and rounds, the queues hold who waits,  *)
(* once, the mutex has one permit and every product is accounted for: what *)
(* sem_wait and sem_post do in the producer and consumer of main.c.        *)
THEOREM ProgramSafe == Spec => []ProgramInv
  <1>1. ProgramInv /\ [Next]_vars => ProgramInv'
    BY ProgramStep
  <1> QED BY <1>1, ProgramInit, PTL DEF Spec

(* At most one process is between sem_wait(&mutex) and sem_post(&mutex).   *)
THEOREM Exclusion == Spec => []MutualExclusion
  <1>1. ProgramInv => MutualExclusion
    <2> SUFFICES ASSUME ProgramInv PROVE Cardinality(Holders) <= 1
      BY DEF MutualExclusion, Holders
    <2>1. CASE Holders = {}
      BY <2>1, FS_EmptySet
    <2>2. ASSUME NEW p \in Holders PROVE Cardinality(Holders) <= 1
      <3>1. Holders = {p}
        BY DEF ProgramInv, PermitOnce
      <3>2. Cardinality({p}) = 1
        BY FS_Singleton
      <3> QED BY <3>1, <3>2
    <2> QED BY <2>1, <2>2
  <1> QED BY <1>1, ProgramSafe, PTL

(* No consumer has taken a product that no producer has posted.            *)
THEOREM Counted == Spec => []ProducedFirst
  <1>1. ProgramInv => ProducedFirst
    BY OwnersFinite DEF ProgramInv, ProductsCounted, ProducedFirst, TypeOK
  <1> QED BY <1>1, ProgramSafe, PTL
=============================================================================
