------------------------- MODULE BreakpointsProofs -------------------------
(***************************************************************************)
(* The debugger for any number of nodes, addresses and steps: the two      *)
(* lists share out the nodes, an INT3 in the program is a breakpoint's or  *)
(* something was spoiled, and a breakpoint that is set is armed except     *)
(* between a stop at it and the next instruction.                          *)
(***************************************************************************)
EXTENDS Breakpoints, SequenceTheorems, WellFoundedInduction, TLAPS

(* The constants, as facts for the provers.                                *)
LEMMA Constants ==
  /\ NR_BP \in Nat \ {0} /\ NAddr \in Nat \ {0} /\ MaxSteps \in Nat \ {0}
  /\ NULL \notin Node
  BY BreakpointAssumption DEF Node

(* Induction over the natural numbers, for a set of them instead of a      *)
(* predicate.                                                              *)
LEMMA LeastNumber ==
  ASSUME NEW T, T \subseteq Nat, T # {}
  PROVE  \E x \in T : \A y \in T : x <= y
  <1> DEFINE R == OpToRel(<, Nat)
  <1>1. IsWellFoundedOn(R, Nat)
    BY NatLessThanWellFounded
  <1>2. \A x, y \in Nat : x < y => <<x, y>> \in R
    BY DEF OpToRel
  <1> HIDE DEF R
  <1>3. PICK x \in T : \A y \in T : ~(<<y, x>> \in R)
    BY <1>1, WFMin
  <1>4. ASSUME NEW y \in T PROVE x <= y
    <2>1. ~(y < x)
      BY <1>2, <1>3
    <2> QED BY <2>1
  <1> QED BY <1>4

(* A set of numbers that has 0 and every successor has them all.           *)
LEMMA SetInduction ==
  ASSUME NEW T, 0 \in T, \A n \in Nat : n \in T => n + 1 \in T
  PROVE  \A n \in Nat : n \in T
  <1> SUFFICES ASSUME Nat \ T # {} PROVE FALSE
    OBVIOUS
  <1>1. PICK x \in Nat \ T : \A y \in Nat \ T : x <= y
    BY LeastNumber
  <1>2. x - 1 \in Nat /\ x - 1 \in T
    BY <1>1
  <1> QED BY <1>1, <1>2

(* A function on 1 .. n is a sequence of length n.                         *)
LEMMA SeqOfFunction ==
  ASSUME NEW S, NEW n \in Nat, NEW q \in [1 .. n -> S]
  PROVE  q \in Seq(S) /\ Len(q) = n
  <1>1. q \in Seq(S)
    BY SeqDef
  <1>2. DOMAIN q = 1 .. Len(q) /\ Len(q) \in Nat
    BY <1>1, LenProperties
  <1>3. DOMAIN q = 1 .. n
    OBVIOUS
  <1>4. Len(q) = n
    BY <1>2, <1>3
  <1> QED BY <1>1, <1>4

-----------------------------------------------------------------------------
(* The n nodes of a list whose first node is p, under next pointers nx.    *)
Path(nx, s, n, p) ==
  /\ n \in Nat /\ s \in [1 .. n -> Node]
  /\ \A j, k \in 1 .. n : s[j] = s[k] => j = k
  /\ IF n = 0 THEN p = NULL ELSE p = s[1] /\ nx[s[n]] = NULL
  /\ \A k \in 1 .. n - 1 : nx[s[k]] = s[k + 1]

(* What Chain walks over: the list's beginning, one node longer each time. *)
Upto(n, k) == IF k < n THEN k + 1 ELSE n

Beginning(s, n, k) == [j \in 1 .. Upto(n, k) |-> s[j]]

OneMore(q) == IF q = <<>> \/ next[q[Len(q)]] = NULL THEN q
              ELSE Append(q, next[q[Len(q)]])

Walked(f, p) ==
  f = [k \in 0 .. NR_BP |-> IF k = 0 THEN IF p = NULL THEN <<>> ELSE <<p>>
                            ELSE OneMore(f[k - 1])]

(* The first k + 1 nodes of a path are a sequence.                         *)
LEMMA BeginningSeq ==
  ASSUME NEW s, NEW n, NEW p, Path(next, s, n, p), NEW k \in Nat
  PROVE  /\ Upto(n, k) \in Nat /\ Upto(n, k) <= n
         /\ Beginning(s, n, k) \in Seq(Node)
         /\ Len(Beginning(s, n, k)) = Upto(n, k)
         /\ \A j \in 1 .. Upto(n, k) : Beginning(s, n, k)[j] = s[j]
  <1>1. /\ n \in Nat /\ s \in [1 .. n -> Node]
    BY DEF Path
  <1>2. Upto(n, k) \in Nat /\ Upto(n, k) <= n
    BY <1>1 DEF Upto
  <1>3. Beginning(s, n, k) \in [1 .. Upto(n, k) -> Node]
    BY <1>1, <1>2 DEF Beginning
  <1>4. Beginning(s, n, k) \in Seq(Node) /\ Len(Beginning(s, n, k)) = Upto(n, k)
    BY <1>2, <1>3, SeqOfFunction
  <1>5. \A j \in 1 .. Upto(n, k) : Beginning(s, n, k)[j] = s[j]
    BY DEF Beginning
  <1> QED BY <1>2, <1>4, <1>5

(* Chain starts with the first node.                                       *)
LEMMA BeginningStarts ==
  ASSUME NEW s, NEW n, NEW p, Path(next, s, n, p)
  PROVE  Beginning(s, n, 0) = IF p = NULL THEN <<>> ELSE <<p>>
  <1>1. /\ n \in Nat /\ s \in [1 .. n -> Node]
        /\ IF n = 0 THEN p = NULL ELSE p = s[1]
    BY DEF Path
  <1>2. CASE n = 0
    <2>1. Upto(n, 0) = 0
      BY <1>2 DEF Upto
    <2>2. Len(Beginning(s, n, 0)) = 0 /\ Beginning(s, n, 0) \in Seq(Node)
      BY <2>1, BeginningSeq
    <2>3. Beginning(s, n, 0) = <<>>
      BY <2>2, EmptySeq
    <2> QED BY <1>1, <1>2, <2>3
  <1>3. CASE n # 0
    <2>1. Upto(n, 0) = 1 /\ p # NULL /\ p \in Node
      BY <1>1, <1>3, Constants DEF Upto
    <2>0. 0 \in Nat /\ 1 \in 1 .. 1
      OBVIOUS
    <2>6. /\ Beginning(s, n, 0) \in Seq(Node)
          /\ Len(Beginning(s, n, 0)) = Upto(n, 0)
          /\ \A j \in 1 .. Upto(n, 0) : Beginning(s, n, 0)[j] = s[j]
      BY <2>0, BeginningSeq
    <2>2. /\ Beginning(s, n, 0) \in Seq(Node) /\ Len(Beginning(s, n, 0)) = 1
          /\ Beginning(s, n, 0)[1] = s[1]
      BY <2>0, <2>1, <2>6
    <2>3. <<p>> \in Seq(Node) /\ Len(<<p>>) = 1 /\ <<p>>[1] = p
      BY <2>1
    <2> DEFINE b == Beginning(s, n, 0)
               one == <<p>>
    <2>4. \A j \in 1 .. Len(b) : b[j] = one[j]
      BY <1>1, <1>3, <2>2, <2>3
    <2> HIDE DEF b, one
    <2>5. b = one
      BY <2>2, <2>3, <2>4, SeqEqual DEF b, one
    <2> QED BY <2>1, <2>5 DEF b, one
  <1> QED BY <1>2, <1>3

(* A step of Chain adds the path's next node, or nothing at its end.       *)
LEMMA BeginningGrows ==
  ASSUME NEW s, NEW n, NEW p, Path(next, s, n, p), NEW k \in Nat, k > 0
  PROVE  OneMore(Beginning(s, n, k - 1)) = Beginning(s, n, k)
  <1> DEFINE q == Beginning(s, n, k - 1)
             b == Beginning(s, n, k)
             u == Upto(n, k - 1)
  <1>1. /\ n \in Nat /\ s \in [1 .. n -> Node] /\ k - 1 \in Nat
        /\ n > 0 => next[s[n]] = NULL
        /\ \A j \in 1 .. n - 1 : next[s[j]] = s[j + 1]
    BY DEF Path
  <1>2. /\ u \in Nat /\ u <= n /\ q \in Seq(Node) /\ Len(q) = u
        /\ \A j \in 1 .. u : q[j] = s[j]
    <2> DEFINE i == k - 1
    <2>1. i \in Nat
      BY <1>1
    <2> HIDE DEF i
    <2>2. /\ Upto(n, i) \in Nat /\ Upto(n, i) <= n
          /\ Beginning(s, n, i) \in Seq(Node)
          /\ Len(Beginning(s, n, i)) = Upto(n, i)
          /\ \A j \in 1 .. Upto(n, i) : Beginning(s, n, i)[j] = s[j]
      BY <2>1, BeginningSeq
    <2> QED BY <2>2 DEF i
  <1>3. /\ Upto(n, k) \in Nat /\ b \in Seq(Node) /\ Len(b) = Upto(n, k)
        /\ \A j \in 1 .. Upto(n, k) : b[j] = s[j]
    BY BeginningSeq
  <1>4. u = (IF k - 1 < n THEN k ELSE n) /\ Upto(n, k) = (IF k < n THEN k + 1 ELSE n)
    BY DEF Upto
  <1> SUFFICES OneMore(q) = b
    OBVIOUS
  <1> HIDE DEF q, b, u
  <1>5. CASE k < n
    <2>1. u = k /\ q # <<>> /\ u \in 1 .. n - 1 /\ u \in 1 .. u
      BY <1>1, <1>2, <1>4, <1>5
    <2>2. next[q[Len(q)]] = s[k + 1] /\ s[k + 1] \in Node /\ s[k + 1] # NULL
      BY <1>1, <1>2, <1>5, <2>1, Constants
    <2>3. OneMore(q) = Append(q, s[k + 1])
      BY <2>1, <2>2 DEF OneMore
    <2>4. /\ Append(q, s[k + 1]) \in Seq(Node) /\ Len(Append(q, s[k + 1])) = k + 1
          /\ \A j \in 1 .. k : Append(q, s[k + 1])[j] = q[j]
          /\ Append(q, s[k + 1])[k + 1] = s[k + 1]
      BY <1>2, <2>1, <2>2, AppendProperties
    <2> DEFINE a == Append(q, s[k + 1])
    <2>5. \A j \in 1 .. Len(b) : b[j] = a[j]
      BY <1>2, <1>3, <1>4, <1>5, <2>1, <2>4
    <2>6. Len(a) = Len(b) /\ a \in Seq(Node)
      BY <1>3, <1>4, <1>5, <2>4
    <2> HIDE DEF a
    <2>7. b = a
      BY <1>3, <2>5, <2>6, SeqEqual
    <2> QED BY <2>3, <2>7 DEF a
  <1>6. CASE k >= n
    <2>1. u = n /\ Upto(n, k) = n
      BY <1>1, <1>4, <1>6
    <2>2. OneMore(q) = q
      <3>1. CASE n = 0
        BY <1>2, <2>1, <3>1, EmptySeq DEF OneMore
      <3>2. CASE n # 0
        <4>1. next[q[Len(q)]] = NULL
          BY <1>1, <1>2, <2>1, <3>2
        <4> QED BY <4>1 DEF OneMore
      <3> QED BY <3>1, <3>2
    <2>3. \A j \in 1 .. Len(q) : q[j] = b[j]
      BY <1>2, <1>3, <2>1
    <2>4. q = b
      BY <1>2, <1>3, <2>1, <2>3, SeqEqual
    <2> QED BY <2>2, <2>4
  <1> QED BY <1>1, <1>5, <1>6

(* Chain follows a list to its end, if it has at most NR_BP nodes.         *)
LEMMA ChainIs ==
  ASSUME NEW s, NEW n, NEW p, Path(next, s, n, p), n <= NR_BP
  PROVE  Chain(p) = s
  <1> DEFINE f == CHOOSE f : Walked(f, p)
             g == [k \in 0 .. NR_BP |-> Beginning(s, n, k)]
  <1>1. Chain(p) = f[NR_BP]
    BY DEF Chain, Walked, OneMore
  <1>2. NR_BP \in Nat
    BY Constants
  <1>3. Walked(g, p)
    <2> DEFINE start == IF p = NULL THEN <<>> ELSE <<p>>
    <2>1. \A k \in 0 .. NR_BP : g[k] = Beginning(s, n, k)
      OBVIOUS
    <2>2. Beginning(s, n, 0) = start
      BY BeginningStarts
    <2> HIDE DEF start
    <2> SUFFICES g = [k \in 0 .. NR_BP |-> IF k = 0 THEN start ELSE OneMore(g[k - 1])]
      BY DEF Walked, start
    <2>3. ASSUME NEW k \in 0 .. NR_BP
          PROVE  Beginning(s, n, k) = IF k = 0 THEN start ELSE OneMore(g[k - 1])
      <3>1. CASE k = 0
        BY <2>2, <3>1
      <3>2. CASE k # 0
        <4>1. k \in Nat /\ k > 0 /\ k - 1 \in 0 .. NR_BP
          BY <1>2, <3>2
        <4>2. g[k - 1] = Beginning(s, n, k - 1)
          BY <2>1, <4>1
        <4> QED BY <3>2, <4>1, <4>2, BeginningGrows
      <3> QED BY <3>1, <3>2
    <2> DEFINE h(k) == IF k = 0 THEN start ELSE OneMore(g[k - 1])
    <2>4. \A k \in 0 .. NR_BP : Beginning(s, n, k) = h(k)
      BY <2>3
    <2>5. [k \in 0 .. NR_BP |-> Beginning(s, n, k)] = [k \in 0 .. NR_BP |-> h(k)]
      <3> HIDE DEF h
      <3> QED BY <2>4
    <2> QED BY <2>5
  <1>4. Walked(f, p)
    <2> HIDE DEF g
    <2> QED BY <1>3
  <1> HIDE DEF f, g
  <1> DEFINE T == {k \in Nat : k <= NR_BP => f[k] = Beginning(s, n, k)}
  <1>5. 0 \in T
    <2>1. f[0] = IF p = NULL THEN <<>> ELSE <<p>>
      BY <1>2, <1>4 DEF Walked
    <2> QED BY <2>1, BeginningStarts
  <1>6. ASSUME NEW k \in Nat, k \in T PROVE k + 1 \in T
    <2> SUFFICES ASSUME k + 1 <= NR_BP PROVE f[k + 1] = Beginning(s, n, k + 1)
      OBVIOUS
    <2>1. k + 1 \in 0 .. NR_BP /\ k + 1 # 0 /\ (k + 1) - 1 = k /\ k <= NR_BP
          /\ k + 1 \in Nat /\ k + 1 > 0
      BY <1>2
    <2>2. f[k + 1] = OneMore(f[k])
      BY <1>4, <2>1 DEF Walked
    <2>3. f[k] = Beginning(s, n, k)
      BY <1>6, <2>1
    <2> QED BY <2>1, <2>2, <2>3, BeginningGrows
  <1> HIDE DEF T
  <1>7. \A k \in Nat : k \in T
    BY <1>5, <1>6, SetInduction
  <1>8. f[NR_BP] = Beginning(s, n, NR_BP)
    BY <1>2, <1>7 DEF T
  <1>9. Beginning(s, n, NR_BP) = s
    <2>1. n \in Nat /\ s \in [1 .. n -> Node]
      BY DEF Path
    <2>2. Upto(n, NR_BP) = n
      BY <1>2, <2>1 DEF Upto
    <2> QED BY <2>1, <2>2 DEF Beginning
  <1> QED BY <1>1, <1>8, <1>9

-----------------------------------------------------------------------------
(* Changes of the pointers, as changes of a list.                          *)
On(s, n) == {s[k] : k \in 1 .. n}

(* A path is not disturbed by links of other nodes.                        *)
LEMMA PathKept ==
  ASSUME NEW nx, NEW ny, NEW s, NEW n, NEW p, Path(nx, s, n, p),
         \A q \in On(s, n) : ny[q] = nx[q]
  PROVE  Path(ny, s, n, p)
  <1>1. \A k \in 1 .. n : ny[s[k]] = nx[s[k]]
    BY DEF On
  <1> QED BY <1>1 DEF Path

(* A node is put before the first.                                         *)
LEMMA PathPush ==
  ASSUME NEW nx, NEW ny, NEW s, NEW n, NEW p, Path(nx, s, n, p),
         NEW x \in Node, x \notin On(s, n), ny[x] = p,
         \A q \in On(s, n) : ny[q] = nx[q]
  PROVE  \E t : Path(ny, t, n + 1, x) /\ On(t, n + 1) = On(s, n) \cup {x}
  <1> DEFINE t == [k \in 1 .. n + 1 |-> IF k = 1 THEN x ELSE s[k - 1]]
  <1>1. /\ n \in Nat /\ s \in [1 .. n -> Node] /\ n + 1 \in Nat
        /\ \A j, k \in 1 .. n : s[j] = s[k] => j = k
        /\ IF n = 0 THEN p = NULL ELSE p = s[1] /\ nx[s[n]] = NULL
        /\ \A k \in 1 .. n - 1 : nx[s[k]] = s[k + 1]
    BY DEF Path
  <1>2. \A k \in 1 .. n : ny[s[k]] = nx[s[k]] /\ s[k] # x
    BY DEF On
  <1>3. /\ t[1] = x /\ \A k \in 1 .. n : t[k + 1] = s[k]
        /\ \A k \in 1 .. n + 1 : k = 1 \/ (k - 1 \in 1 .. n /\ t[k] = s[k - 1])
    BY <1>1
  <1>4. t \in [1 .. n + 1 -> Node]
    BY <1>1
  <1> HIDE DEF t
  <1>5. ASSUME NEW j \in 1 .. n + 1, NEW k \in 1 .. n + 1, t[j] = t[k]
        PROVE  j = k
    BY <1>1, <1>2, <1>3, <1>5
  <1>6. x = t[1] /\ ny[t[n + 1]] = NULL
    <2>1. CASE n = 0
      BY <1>1, <1>3, <2>1
    <2>2. CASE n # 0
      <3>1. n \in 1 .. n
        BY <1>1, <2>2
      <3> QED BY <1>1, <1>2, <1>3, <2>2, <3>1
    <2> QED BY <2>1, <2>2
  <1>7. ASSUME NEW k \in 1 .. n + 1 - 1 PROVE ny[t[k]] = t[k + 1]
    <2>1. k \in 1 .. n
      BY <1>1
    <2>2. t[k + 1] = s[k]
      BY <1>3, <2>1
    <2>3. CASE k = 1
      BY <1>1, <1>3, <2>1, <2>2, <2>3
    <2>4. CASE k # 1
      <3>1. k - 1 \in 1 .. n - 1 /\ k - 1 \in 1 .. n /\ t[k] = s[k - 1] /\ (k - 1) + 1 = k
        BY <1>1, <1>3, <2>1, <2>4
      <3> QED BY <1>1, <1>2, <2>2, <3>1
    <2> QED BY <2>3, <2>4
  <1>8. Path(ny, t, n + 1, x)
    BY <1>1, <1>4, <1>5, <1>6, <1>7 DEF Path
  <1>9. On(t, n + 1) = On(s, n) \cup {x}
    <2>1. ASSUME NEW q \in On(t, n + 1) PROVE q \in On(s, n) \cup {x}
      BY <1>3, <2>1 DEF On
    <2>2. ASSUME NEW q \in On(s, n) \cup {x} PROVE q \in On(t, n + 1)
      <3>1. 1 \in 1 .. n + 1 /\ \A k \in 1 .. n : k + 1 \in 1 .. n + 1
        BY <1>1
      <3> QED BY <1>3, <3>1 DEF On
    <2> QED BY <2>1, <2>2
  <1> QED BY <1>8, <1>9

(* The first node is taken.                                                *)
LEMMA PathPop ==
  ASSUME NEW nx, NEW s, NEW n, NEW p, Path(nx, s, n, p), p # NULL
  PROVE  /\ n > 0 /\ p \in On(s, n) /\ p \in Node
         /\ \E t : Path(nx, t, n - 1, nx[p]) /\ On(t, n - 1) = On(s, n) \ {p}
  <1> DEFINE t == [k \in 1 .. n - 1 |-> s[k + 1]]
  <1>1. /\ n \in Nat /\ s \in [1 .. n -> Node] /\ n > 0 /\ n - 1 \in Nat
        /\ \A j, k \in 1 .. n : s[j] = s[k] => j = k
        /\ p = s[1] /\ nx[s[n]] = NULL /\ 1 \in 1 .. n
        /\ \A k \in 1 .. n - 1 : nx[s[k]] = s[k + 1]
    BY DEF Path
  <1>2. p \in On(s, n) /\ p \in Node
    BY <1>1 DEF On
  <1>3. \A k \in 1 .. n - 1 : t[k] = s[k + 1] /\ k + 1 \in 1 .. n
    BY <1>1
  <1>4. t \in [1 .. n - 1 -> Node]
    BY <1>1
  <1> HIDE DEF t
  <1>5. IF n - 1 = 0 THEN nx[p] = NULL ELSE nx[p] = t[1] /\ nx[t[n - 1]] = NULL
    <2>1. CASE n = 1
      BY <1>1, <2>1
    <2>2. CASE n # 1
      <3>1. 1 \in 1 .. n - 1 /\ n - 1 \in 1 .. n - 1 /\ (n - 1) + 1 = n
        BY <1>1, <2>2
      <3> QED BY <1>1, <1>3, <2>2, <3>1
    <2> QED BY <1>1, <2>1, <2>2
  <1>6. ASSUME NEW k \in 1 .. (n - 1) - 1 PROVE nx[t[k]] = t[k + 1]
    <2>1. k \in 1 .. n - 1 /\ k + 1 \in 1 .. n - 1
      BY <1>1
    <2> QED BY <1>1, <1>3, <2>1
  <1>7. \A j, k \in 1 .. n - 1 : t[j] = t[k] => j = k
    BY <1>1, <1>3
  <1>8. Path(nx, t, n - 1, nx[p])
    BY <1>1, <1>4, <1>5, <1>6, <1>7 DEF Path
  <1>9. On(t, n - 1) = On(s, n) \ {p}
    <2>1. ASSUME NEW q \in On(t, n - 1) PROVE q \in On(s, n) \ {p}
      <3>1. PICK k \in 1 .. n - 1 : q = s[k + 1]
        BY <1>3, <2>1 DEF On
      <3>2. k + 1 \in 1 .. n /\ k + 1 # 1
        BY <1>3
      <3> QED BY <1>1, <3>1, <3>2 DEF On
    <2>2. ASSUME NEW q \in On(s, n) \ {p} PROVE q \in On(t, n - 1)
      <3>1. PICK k \in 1 .. n : q = s[k] /\ k # 1
        BY <1>1, <2>2 DEF On
      <3>2. k - 1 \in 1 .. n - 1 /\ (k - 1) + 1 = k
        BY <1>1, <3>1
      <3>3. t[k - 1] = q
        BY <1>3, <3>1, <3>2
      <3> QED BY <3>2, <3>3 DEF On
    <2> QED BY <2>1, <2>2
  <1> QED BY <1>1, <1>2, <1>8, <1>9

(* A node is unlinked from the one before it.                              *)
LEMMA PathCut ==
  ASSUME NEW nx, NEW ny, NEW s, NEW n, NEW p, Path(nx, s, n, p),
         NEW j \in 2 .. n, ny[s[j - 1]] = nx[s[j]],
         \A q \in On(s, n) \ {s[j - 1], s[j]} : ny[q] = nx[q]
  PROVE  \E t : Path(ny, t, n - 1, p) /\ On(t, n - 1) = On(s, n) \ {s[j]}
  <1> DEFINE t == [k \in 1 .. n - 1 |-> IF k < j THEN s[k] ELSE s[k + 1]]
  <1>1. /\ n \in Nat /\ s \in [1 .. n -> Node] /\ n > 1 /\ n - 1 \in Nat
        /\ \A i, k \in 1 .. n : s[i] = s[k] => i = k
        /\ p = s[1] /\ nx[s[n]] = NULL /\ j \in Nat /\ 1 < j /\ j <= n
        /\ \A k \in 1 .. n - 1 : nx[s[k]] = s[k + 1]
    BY DEF Path
  <1>2. \A k \in 1 .. n : k # j - 1 /\ k # j => ny[s[k]] = nx[s[k]]
    <2> SUFFICES ASSUME NEW k \in 1 .. n, k # j - 1, k # j PROVE ny[s[k]] = nx[s[k]]
      OBVIOUS
    <2>1. s[k] # s[j - 1] /\ s[k] # s[j]
      <3>1. j - 1 \in 1 .. n /\ j \in 1 .. n
        BY <1>1
      <3> QED BY <1>1, <3>1
    <2> QED BY <2>1 DEF On
  <1>3. /\ \A k \in 1 .. n - 1 : k < j => t[k] = s[k] /\ k \in 1 .. n
        /\ \A k \in 1 .. n - 1 : k >= j => t[k] = s[k + 1] /\ k + 1 \in 1 .. n
    BY <1>1
  <1>4. t \in [1 .. n - 1 -> Node]
    BY <1>1
  <1> HIDE DEF t
  <1>5. ASSUME NEW i \in 1 .. n - 1, NEW k \in 1 .. n - 1, t[i] = t[k]
        PROVE  i = k
    BY <1>1, <1>3, <1>5
  <1>6. p = t[1] /\ ny[t[n - 1]] = NULL
    <2>1. 1 \in 1 .. n - 1 /\ p = t[1]
      BY <1>1, <1>3
    <2>2. CASE j = n
      <3>1. t[n - 1] = s[j - 1] /\ nx[s[j]] = NULL
        BY <1>1, <1>3, <2>1, <2>2
      <3> QED BY <2>1, <3>1
    <2>3. CASE j # n
      <3>0. n \in Nat /\ j \in Nat /\ 1 < j /\ j <= n
        BY <1>1
      <3>1. n - 1 \in 1 .. n - 1 /\ n - 1 >= j /\ (n - 1) + 1 = n /\ n \in 1 .. n
            /\ n # j - 1
        BY <2>3, <3>0
      <3>2. t[n - 1] = s[n]
        BY <1>3, <3>1
      <3> QED BY <1>1, <1>2, <2>1, <2>3, <3>1, <3>2
    <2> QED BY <2>2, <2>3
  <1>7. ASSUME NEW k \in 1 .. (n - 1) - 1 PROVE ny[t[k]] = t[k + 1]
    <2>1. k \in 1 .. n - 1 /\ k + 1 \in 1 .. n - 1 /\ k \in 1 .. n /\ k + 1 \in 1 .. n
      BY <1>1
    <2>2. CASE k + 1 < j
      <3>1. t[k] = s[k] /\ t[k + 1] = s[k + 1] /\ k # j - 1 /\ k # j
        BY <1>1, <1>3, <2>1, <2>2
      <3> QED BY <1>1, <1>2, <2>1, <3>1
    <2>3. CASE k + 1 = j
      <3>1. t[k] = s[j - 1] /\ t[k + 1] = s[j + 1] /\ j \in 1 .. n - 1
        BY <1>1, <1>3, <2>1, <2>3
      <3> QED BY <1>1, <3>1
    <2>4. CASE k + 1 > j
      <3>1. t[k] = s[k + 1] /\ t[k + 1] = s[k + 2] /\ k + 1 # j - 1 /\ k + 1 # j
            /\ (k + 1) + 1 = k + 2
        BY <1>1, <1>3, <2>1, <2>4
      <3> QED BY <1>1, <1>2, <2>1, <3>1
    <2> QED BY <1>1, <2>1, <2>2, <2>3, <2>4
  <1>8. Path(ny, t, n - 1, p)
    BY <1>1, <1>4, <1>5, <1>6, <1>7 DEF Path
  <1>9. On(t, n - 1) = On(s, n) \ {s[j]}
    <2>1. ASSUME NEW q \in On(t, n - 1) PROVE q \in On(s, n) \ {s[j]}
      <3>1. PICK k \in 1 .. n - 1 : q = t[k]
        BY <2>1 DEF On
      <3>2. \E i \in 1 .. n : i # j /\ q = s[i]
        <4>1. CASE k < j
          BY <1>1, <1>3, <3>1, <4>1
        <4>2. CASE k >= j
          <5>1. k + 1 \in 1 .. n /\ k + 1 # j /\ q = s[k + 1]
            BY <1>1, <1>3, <3>1, <4>2
          <5> QED BY <5>1
        <4> QED BY <1>1, <4>1, <4>2
      <3> QED BY <1>1, <3>2 DEF On
    <2>2. ASSUME NEW q \in On(s, n) \ {s[j]} PROVE q \in On(t, n - 1)
      <3>1. PICK k \in 1 .. n : q = s[k] /\ k # j
        BY <2>2 DEF On
      <3>2. CASE k < j
        <4>1. k \in 1 .. n - 1 /\ t[k] = q
          BY <1>1, <1>3, <3>1, <3>2
        <4> QED BY <4>1 DEF On
      <3>3. CASE k > j
        <4>1. k - 1 \in 1 .. n - 1 /\ k - 1 >= j /\ (k - 1) + 1 = k
          BY <1>1, <3>3
        <4>2. t[k - 1] = q
          BY <1>3, <3>1, <4>1
        <4> QED BY <4>1, <4>2 DEF On
      <3> QED BY <1>1, <3>1, <3>2, <3>3
    <2> QED BY <2>1, <2>2
  <1> QED BY <1>8, <1>9

(* One list is put behind the end of another.                              *)
LEMMA PathJoin ==
  ASSUME NEW nx, NEW ny, NEW s, NEW n, NEW p, Path(nx, s, n, p), n > 0,
         NEW r, NEW m, NEW q, Path(nx, r, m, q), On(s, n) \cap On(r, m) = {},
         ny[s[n]] = q, \A x \in Node \ {s[n]} : ny[x] = nx[x]
  PROVE  \E t : Path(ny, t, n + m, p) /\ On(t, n + m) = On(s, n) \cup On(r, m)
  <1> DEFINE t == [k \in 1 .. n + m |-> IF k <= n THEN s[k] ELSE r[k - n]]
  <1>1. /\ n \in Nat /\ s \in [1 .. n -> Node] /\ n \in 1 .. n
        /\ \A i, k \in 1 .. n : s[i] = s[k] => i = k
        /\ p = s[1] /\ nx[s[n]] = NULL
        /\ \A k \in 1 .. n - 1 : nx[s[k]] = s[k + 1]
    BY DEF Path
  <1>2. /\ m \in Nat /\ r \in [1 .. m -> Node] /\ n + m \in Nat
        /\ \A i, k \in 1 .. m : r[i] = r[k] => i = k
        /\ IF m = 0 THEN q = NULL ELSE q = r[1] /\ nx[r[m]] = NULL
        /\ \A k \in 1 .. m - 1 : nx[r[k]] = r[k + 1]
    BY <1>1 DEF Path
  <1>3. \A i \in 1 .. n, k \in 1 .. m : s[i] # r[k]
    BY DEF On
  <1>4. /\ \A k \in 1 .. n - 1 : ny[s[k]] = nx[s[k]]
        /\ \A k \in 1 .. m : ny[r[k]] = nx[r[k]]
    <2>1. ASSUME NEW k \in 1 .. n - 1 PROVE ny[s[k]] = nx[s[k]]
      <3>1. k \in 1 .. n /\ k # n
        BY <1>1
      <3> QED BY <1>1, <3>1
    <2> QED BY <1>1, <1>2, <1>3, <2>1
  <1>5. /\ \A k \in 1 .. n : k \in 1 .. n + m /\ t[k] = s[k]
        /\ \A k \in 1 .. m : k + n \in 1 .. n + m /\ t[k + n] = r[k]
        /\ \A k \in 1 .. n + m : k \in 1 .. n \/ (k - n \in 1 .. m /\ t[k] = r[k - n])
    <2>1. \A k \in 1 .. m : (k + n) - n = k /\ ~(k + n <= n) /\ k + n \in 1 .. n + m
      BY <1>1, <1>2
    <2>2. \A k \in 1 .. m : t[k + n] = r[k]
      BY <2>1
    <2>3. \A k \in 1 .. n : k \in 1 .. n + m /\ t[k] = s[k]
      BY <1>1, <1>2
    <2>4. \A k \in 1 .. n + m : k \in 1 .. n \/ (k - n \in 1 .. m /\ t[k] = r[k - n])
      BY <1>1, <1>2
    <2> QED BY <2>1, <2>2, <2>3, <2>4
  <1>6. t \in [1 .. n + m -> Node]
    BY <1>1, <1>2
  <1> HIDE DEF t
  <1>7. ASSUME NEW i \in 1 .. n + m, NEW k \in 1 .. n + m, t[i] = t[k]
        PROVE  i = k
    <2>1. CASE i \in 1 .. n /\ k \in 1 .. n
      BY <1>1, <1>5, <1>7, <2>1
    <2>2. CASE i \in 1 .. n /\ k \notin 1 .. n
      BY <1>3, <1>5, <1>7, <2>2
    <2>3. CASE i \notin 1 .. n /\ k \in 1 .. n
      BY <1>3, <1>5, <1>7, <2>3
    <2>4. CASE i \notin 1 .. n /\ k \notin 1 .. n
      <3>1. i - n = k - n
        BY <1>2, <1>5, <1>7, <2>4
      <3> QED BY <1>1, <1>2, <3>1
    <2> QED BY <2>1, <2>2, <2>3, <2>4
  <1>8. p = t[1] /\ ny[t[n + m]] = NULL
    <2>1. 1 \in 1 .. n /\ p = t[1]
      BY <1>1, <1>5
    <2>2. CASE m = 0
      <3>1. t[n + m] = s[n]
        BY <1>1, <1>5, <2>2
      <3> QED BY <1>2, <2>1, <2>2, <3>1
    <2>3. CASE m # 0
      <3>1. m \in 1 .. m /\ m + n = n + m
        BY <1>1, <1>2, <2>3
      <3>2. t[n + m] = r[m]
        BY <1>5, <3>1
      <3> QED BY <1>2, <1>4, <2>1, <2>3, <3>1, <3>2
    <2> QED BY <2>2, <2>3
  <1>9. ASSUME NEW k \in 1 .. n + m - 1 PROVE ny[t[k]] = t[k + 1]
    <2>1. CASE k < n
      <3>1. k \in 1 .. n - 1 /\ k \in 1 .. n /\ k + 1 \in 1 .. n
        BY <1>1, <2>1
      <3> QED BY <1>1, <1>4, <1>5, <3>1
    <2>2. CASE k = n
      <3>1. m # 0 /\ 1 \in 1 .. m /\ 1 + n = k + 1
        BY <1>1, <1>2, <2>2
      <3>2. t[k] = s[n] /\ t[1 + n] = r[1]
        BY <1>1, <1>5, <2>2, <3>1
      <3> QED BY <1>2, <3>1, <3>2
    <2>3. CASE k > n
      <3>1. k - n \in 1 .. m - 1 /\ k - n \in 1 .. m /\ (k - n) + 1 \in 1 .. m
            /\ (k - n) + n = k /\ ((k - n) + 1) + n = k + 1
        BY <1>1, <1>2, <2>3
      <3>2. t[k] = r[k - n] /\ t[k + 1] = r[(k - n) + 1]
        <4> DEFINE i == k - n
        <4> HIDE DEF i
        <4>1. t[i + n] = r[i] /\ t[(i + 1) + n] = r[i + 1]
          BY <1>5, <3>1 DEF i
        <4> QED BY <3>1, <4>1 DEF i
      <3> QED BY <1>2, <1>4, <3>1, <3>2
    <2> QED BY <1>1, <1>2, <2>1, <2>2, <2>3
  <1>10. Path(ny, t, n + m, p)
    <2>1. n + m # 0
      BY <1>1, <1>2
    <2> QED BY <1>2, <1>6, <1>7, <1>8, <1>9, <2>1 DEF Path
  <1>11. On(t, n + m) = On(s, n) \cup On(r, m)
    <2>1. ASSUME NEW x \in On(t, n + m) PROVE x \in On(s, n) \cup On(r, m)
      BY <1>5, <2>1 DEF On
    <2>2. ASSUME NEW x \in On(s, n) PROVE x \in On(t, n + m)
      BY <1>5, <2>2 DEF On
    <2>3. ASSUME NEW x \in On(r, m) PROVE x \in On(t, n + m)
      BY <1>5, <2>3 DEF On
    <2> QED BY <2>1, <2>2, <2>3
  <1> QED BY <1>10, <1>11

-----------------------------------------------------------------------------
(* The invariant: types, lists, and the bytes of the program.              *)
Nodes == [used : BOOLEAN, type : {"break", "watch"}, addr : Addr, ori : Code,
          old : Val]

DebuggerType ==
  /\ node \in [Node -> Nodes]
  /\ next \in [Node -> Node \cup {NULL}]
  /\ head \in Node \cup {NULL} /\ free \in Node \cup {NULL}
  /\ text \in [Addr -> Code]
  /\ eip \in Addr /\ val \in Val
  /\ state \in {"ready", "run", "break", "aborted"}
  /\ run \in [left : Int, rerun : BOOLEAN]
  /\ spoiled \subseteq {"set", "resume", "delete"}
  /\ forgot \in BOOLEAN

InUse == {p \in Node : node[p].used}

ListsAre(u, n, f, m) ==
  /\ Path(next, u, n, head) /\ Path(next, f, m, free) /\ n + m = NR_BP
  /\ On(u, n) = InUse /\ On(f, m) = Node \ InUse

Shared == \E u, n, f, m : ListsAre(u, n, f, m)

(* What the program's bytes are compared with: the breakpoints set.        *)
Set == {p \in InUse : node[p].type = "break"}

(* Every INT3 in the program is a breakpoint's.                            *)
Int3Listed ==
  spoiled = {} => \A a \in Addr : text[a] = "int3" => \E p \in Set : node[p].addr = a

(* Every breakpoint's byte is INT3, but for the one stopped at until the   *)
(* instruction there has been run again.                                   *)
Pending == IF run.left = 0 THEN state \in {"break", "aborted"} ELSE run.rerun

BreaksArmed ==
  spoiled = {} /\ ~forgot =>
    \A p \in Set : text[node[p].addr] = "int3" \/ (node[p].addr = eip /\ Pending)

(* A path's nodes are its members as a sequence.                           *)
LEMMA OnMembers ==
  ASSUME NEW nx, NEW s, NEW n, NEW p, Path(nx, s, n, p)
  PROVE  /\ s \in Seq(Node) /\ Len(s) = n /\ n \in Nat
         /\ Members(s) = On(s, n) /\ On(s, n) \subseteq Node
  <1>1. n \in Nat /\ s \in [1 .. n -> Node]
    BY DEF Path
  <1>2. s \in Seq(Node) /\ Len(s) = n
    BY <1>1, SeqOfFunction
  <1> QED BY <1>1, <1>2 DEF Members, On

(* Listed is the path of the nodes in use.                                 *)
LEMMA ListedIs ==
  ASSUME NEW u, NEW n, NEW f, NEW m, ListsAre(u, n, f, m)
  PROVE  /\ Listed = u /\ Chain(free) = f /\ n \in Nat /\ m \in Nat
         /\ Len(u) = n /\ Len(f) = m /\ n + m = NR_BP
         /\ Members(u) = InUse /\ Members(f) = Node \ InUse
  <1>1. /\ Path(next, u, n, head) /\ Path(next, f, m, free) /\ n + m = NR_BP
        /\ On(u, n) = InUse /\ On(f, m) = Node \ InUse
    BY DEF ListsAre
  <1>2. Len(u) = n /\ n \in Nat /\ Members(u) = On(u, n)
    BY <1>1, OnMembers
  <1>3. Len(f) = m /\ m \in Nat /\ Members(f) = On(f, m)
    BY <1>1, OnMembers
  <1>4. n <= NR_BP /\ m <= NR_BP
    BY <1>1, <1>2, <1>3
  <1>5. Listed = u
    BY <1>1, <1>4, ChainIs DEF Listed
  <1>6. Chain(free) = f
    BY <1>1, <1>4, ChainIs
  <1> QED BY <1>1, <1>2, <1>3, <1>5, <1>6

(* The breakpoints on the list are the breakpoints in use.                 *)
LEMMA BreaksAre ==
  ASSUME Shared
  PROVE  Members(Listed) = InUse /\ Breaks = Set
  <1>1. PICK u, n, f, m : ListsAre(u, n, f, m)
    BY DEF Shared
  <1>2. Members(Listed) = InUse
    BY <1>1, ListedIs
  <1> QED BY <1>2 DEF Breaks, Set

(* The first position at which P holds, for a set of nodes P.              *)
Least(at) == IF at = {} THEN 0 ELSE CHOOSE k \in at : \A j \in at : k <= j

(* A search of the list finds a node of P when one is in use.              *)
LEMMA ListedPlace ==
  ASSUME Shared, NEW P,
         NEW at, at = {k \in 1 .. Len(Listed) : Listed[k] \in P},
         NEW b, b = Least(at)
  PROVE  /\ b = 0 <=> P \cap InUse = {}
         /\ b # 0 => b \in 1 .. Len(Listed) /\ Listed[b] \in P \cap InUse
  <1>1. /\ Members(Listed) = InUse /\ Len(Listed) \in Nat
    <2>1. PICK u, n, f, m : ListsAre(u, n, f, m)
      BY DEF Shared
    <2> QED BY <2>1, ListedIs
  <1>2. \A p : p \in InUse <=> \E k \in 1 .. Len(Listed) : Listed[k] = p
    BY <1>1 DEF Members
  <1>3. CASE at = {}
    BY <1>2, <1>3 DEF Least
  <1>4. CASE at # {}
    <2>1. at \subseteq Nat
      BY <1>1
    <2>2. \E k \in at : \A j \in at : k <= j
      BY <1>4, <2>1, LeastNumber
    <2>3. b \in at
      BY <1>4, <2>2 DEF Least
    <2>4. b \in 1 .. Len(Listed) /\ Listed[b] \in P
      BY <2>3
    <2>5. b # 0
      BY <1>1, <2>4
    <2> QED BY <1>2, <2>4, <2>5
  <1> QED BY <1>3, <1>4

-----------------------------------------------------------------------------
(* The actions that move nodes.                                            *)
LEMMA NewShared ==
  ASSUME DebuggerType, Shared, free # NULL,
         NEW fields \in Nodes, fields.used = TRUE, NewBP(fields)
  PROVE  /\ Shared' /\ InUse' = InUse \cup {free}
         /\ free \in Node /\ free \notin InUse
         /\ node' \in [Node -> Nodes] /\ node'[free] = fields
         /\ \A p \in InUse : node'[p] = node[p]
         /\ next' \in [Node -> Node \cup {NULL}]
         /\ head' \in Node \cup {NULL} /\ free' \in Node \cup {NULL}
  <1>1. PICK u, n, f, m : ListsAre(u, n, f, m)
    BY DEF Shared
  <1>2. /\ Path(next, u, n, head) /\ Path(next, f, m, free) /\ n + m = NR_BP
        /\ On(u, n) = InUse /\ On(f, m) = Node \ InUse
    BY <1>1 DEF ListsAre
  <1>3. /\ m > 0 /\ free \in On(f, m) /\ free \in Node
        /\ \E t : Path(next, t, m - 1, next[free]) /\ On(t, m - 1) = On(f, m) \ {free}
    BY <1>2, PathPop
  <1>4. free \notin InUse /\ n \in Nat /\ m \in Nat
    BY <1>2, <1>3 DEF Path
  <1>5. /\ node' = [node EXCEPT ![free] = fields] /\ free' = next[free]
        /\ next' = [next EXCEPT ![free] = head] /\ head' = free
    BY DEF NewBP
  <1>6. /\ node' \in [Node -> Nodes] /\ node'[free] = fields
        /\ \A p \in Node \ {free} : node'[p] = node[p]
        /\ next' \in [Node -> Node \cup {NULL}] /\ next'[free] = head
        /\ \A p \in Node \ {free} : next'[p] = next[p]
        /\ head' \in Node \cup {NULL} /\ free' \in Node \cup {NULL}
    BY <1>3, <1>5 DEF DebuggerType
  <1>7. InUse' = InUse \cup {free}
    BY <1>3, <1>6 DEF InUse
  <1>8. InUse \subseteq Node
    BY DEF InUse
  <1>9. PICK t : Path(next', t, n + 1, free) /\ On(t, n + 1) = On(u, n) \cup {free}
    <2>1. \A q \in On(u, n) : next'[q] = next[q]
      BY <1>2, <1>4, <1>6, <1>8
    <2> QED BY <1>2, <1>3, <1>4, <1>6, <2>1, PathPush
  <1>10. PICK r : Path(next, r, m - 1, next[free]) /\ On(r, m - 1) = On(f, m) \ {free}
    BY <1>3
  <1>11. Path(next', r, m - 1, next[free])
    <2>1. \A q \in On(r, m - 1) : next'[q] = next[q]
      BY <1>2, <1>6, <1>10
    <2> QED BY <1>10, <2>1, PathKept
  <1>12. ListsAre(t, n + 1, r, m - 1)'
    <2>1. (n + 1) + (m - 1) = NR_BP
      BY <1>2, <1>4
    <2>2. On(r, m - 1) = Node \ InUse'
      BY <1>2, <1>7, <1>10
    <2> QED BY <1>2, <1>5, <1>7, <1>9, <1>11, <2>1, <2>2 DEF ListsAre
  <1> QED BY <1>3, <1>4, <1>6, <1>7, <1>8, <1>12 DEF Shared

(* cmd_d with a number moves the node from the one list to the other.      *)
LEMMA DeleteShared ==
  ASSUME DebuggerType, Shared, NEW NO \in Node, DeleteBreakpoint(NO)
  PROVE  /\ Shared' /\ InUse' = InUse \ {NO} /\ NO \in InUse
         /\ node' \in [Node -> Nodes]
         /\ \A p \in Node \ {NO} : node'[p] = node[p]
         /\ next' \in [Node -> Node \cup {NULL}]
         /\ head' \in Node \cup {NULL} /\ free' \in Node \cup {NULL}
  <1>1. PICK u, n, f, m : ListsAre(u, n, f, m)
    BY DEF Shared
  <1>2. /\ Path(next, u, n, head) /\ Path(next, f, m, free) /\ n + m = NR_BP
        /\ On(u, n) = InUse /\ On(f, m) = Node \ InUse /\ InUse \subseteq Node
    BY <1>1 DEF ListsAre, InUse
  <1>3. /\ n \in Nat /\ m \in Nat /\ u \in [1 .. n -> Node]
        /\ \A j, k \in 1 .. n : u[j] = u[k] => j = k
        /\ IF n = 0 THEN head = NULL ELSE head = u[1] /\ next[u[n]] = NULL
        /\ \A k \in 1 .. n - 1 : next[u[k]] = u[k + 1]
    BY <1>2 DEF Path
  <1>4. /\ NO \in InUse /\ Members(Listed) = InUse
        /\ node' = [node EXCEPT ![NO] = Blank] /\ free' = NO
    BY BreaksAre DEF DeleteBreakpoint
  <1>5. Blank \in Nodes /\ Blank.used = FALSE
    <2>1. 0 \in Addr
      BY Constants DEF Addr
    <2> QED BY <2>1 DEF Blank, Nodes, Code, Val
  <1>6. /\ node' \in [Node -> Nodes]
        /\ \A p \in Node \ {NO} : node'[p] = node[p]
        /\ InUse' = InUse \ {NO}
    BY <1>4, <1>5 DEF DebuggerType, InUse
  <1>7. PICK j \in 1 .. n : u[j] = NO
    BY <1>2, <1>4 DEF On
  <1>8. /\ next' \in [Node -> Node \cup {NULL}] /\ next'[NO] = free
        /\ head' \in Node \cup {NULL}
        /\ \E t : Path(next', t, n - 1, head') /\ On(t, n - 1) = On(u, n) \ {NO}
        /\ \A q \in On(f, m) : next'[q] = next[q]
    <2>1. CASE head = NO
      <3>1. head' = next[NO] /\ next' = [next EXCEPT ![NO] = free]
        BY <2>1 DEF DeleteBreakpoint
      <3>2. /\ next' \in [Node -> Node \cup {NULL}] /\ next'[NO] = free
            /\ \A q \in Node \ {NO} : next'[q] = next[q]
            /\ head' \in Node \cup {NULL}
        BY <3>1 DEF DebuggerType
      <3>3. head # NULL
        BY <2>1, Constants
      <3>4. PICK t : Path(next, t, n - 1, next[head]) /\ On(t, n - 1) = On(u, n) \ {head}
        BY <1>2, <3>3, PathPop
      <3>5. \A q \in On(t, n - 1) : next'[q] = next[q]
        BY <1>2, <2>1, <3>2, <3>4
      <3>6. Path(next', t, n - 1, head')
        BY <2>1, <3>1, <3>4, <3>5, PathKept
      <3>7. \A q \in On(f, m) : next'[q] = next[q]
        BY <1>2, <1>4, <3>2
      <3> QED BY <2>1, <3>2, <3>4, <3>6, <3>7
    <2>2. CASE head # NO
      <3>1. j # 1 /\ j \in 2 .. n /\ j - 1 \in 1 .. n - 1 /\ j - 1 \in 1 .. n /\ (j - 1) + 1 = j
        BY <1>3, <1>7, <2>2
      <3> DEFINE prev == CHOOSE p \in Members(Listed) : next[p] = NO
      <3>2. /\ next' = [next EXCEPT ![prev] = next[NO], ![NO] = free]
            /\ head' = head
        BY <2>2 DEF DeleteBreakpoint
      <3>3. prev \in InUse /\ next[prev] = NO
        <4>1. u[j - 1] \in InUse /\ next[u[j - 1]] = NO
          BY <1>2, <1>3, <1>7, <3>1 DEF On
        <4> QED BY <1>4, <4>1
      <3> HIDE DEF prev
      <3>4. prev = u[j - 1] /\ prev # NO
        <4>1. PICK k \in 1 .. n : u[k] = prev
          BY <1>2, <3>3 DEF On
        <4>2. k # n
          BY <1>3, <3>3, <4>1, Constants
        <4>3. k \in 1 .. n - 1 /\ k + 1 \in 1 .. n
          BY <1>3, <4>2
        <4>4. u[k + 1] = u[j]
          BY <1>3, <1>7, <3>3, <4>1, <4>3
        <4>5. k + 1 = j
          BY <1>3, <4>3, <4>4
        <4>6. k = j - 1
          BY <1>3, <4>5
        <4>7. u[j - 1] # u[j]
          BY <1>3, <3>1
        <4> QED BY <1>7, <4>1, <4>6, <4>7
      <3>5. /\ next' \in [Node -> Node \cup {NULL}] /\ next'[NO] = free
            /\ next'[prev] = next[NO]
            /\ \A q \in Node \ {prev, NO} : next'[q] = next[q]
        BY <1>2, <3>2, <3>3, <3>4 DEF DebuggerType
      <3>6. PICK t : Path(next', t, n - 1, head) /\ On(t, n - 1) = On(u, n) \ {u[j]}
        <4>1. next'[u[j - 1]] = next[u[j]]
          BY <1>7, <3>4, <3>5
        <4>2. \A q \in On(u, n) \ {u[j - 1], u[j]} : next'[q] = next[q]
          BY <1>2, <1>7, <3>4, <3>5
        <4> QED BY <1>2, <3>1, <4>1, <4>2, PathCut
      <3>7. \A q \in On(f, m) : next'[q] = next[q]
        BY <1>2, <1>4, <3>3, <3>5
      <3>8. head' \in Node \cup {NULL}
        BY <3>2 DEF DebuggerType
      <3> QED BY <1>7, <3>2, <3>5, <3>6, <3>7, <3>8
    <2> QED BY <2>1, <2>2
  <1>9. PICK t : Path(next', t, n - 1, head') /\ On(t, n - 1) = On(u, n) \ {NO}
    BY <1>8
  <1>10. Path(next', f, m, free)
    BY <1>2, <1>8, PathKept
  <1>11. PICK r : Path(next', r, m + 1, NO) /\ On(r, m + 1) = On(f, m) \cup {NO}
    <2>1. NO \notin On(f, m)
      BY <1>2, <1>4
    <2> QED BY <1>8, <1>10, <2>1, PathPush
  <1>12. ListsAre(t, n - 1, r, m + 1)'
    <2>1. (n - 1) + (m + 1) = NR_BP
      BY <1>2, <1>3
    <2>2. On(r, m + 1) = Node \ InUse' /\ On(t, n - 1) = InUse'
      BY <1>2, <1>4, <1>6, <1>9, <1>11
    <2> QED BY <1>4, <1>9, <1>11, <2>1, <2>2 DEF ListsAre
  <1>13. Shared'
    BY <1>12 DEF Shared
  <1> QED BY <1>4, <1>6, <1>8, <1>13

(* cmd_d without empties the list into the pool.                           *)
LEMMA DeleteAllShared ==
  ASSUME DebuggerType, Shared, DeleteAll
  PROVE  /\ Shared' /\ InUse' = {}
         /\ node' \in [Node -> Nodes]
         /\ next' \in [Node -> Node \cup {NULL}]
         /\ head' \in Node \cup {NULL} /\ free' \in Node \cup {NULL}
  <1>1. PICK u, n, f, m : ListsAre(u, n, f, m)
    BY DEF Shared
  <1>2. /\ Path(next, u, n, head) /\ Path(next, f, m, free) /\ n + m = NR_BP
        /\ On(u, n) = InUse /\ On(f, m) = Node \ InUse /\ InUse \subseteq Node
    BY <1>1 DEF ListsAre, InUse
  <1>3. /\ Listed = u /\ Len(u) = n /\ n \in Nat /\ m \in Nat
        /\ Members(Listed) = InUse
    BY <1>1, ListedIs
  <1>4. /\ head # NULL
        /\ node' = [p \in Node |-> IF p \in InUse THEN Blank ELSE node[p]]
        /\ next' = [next EXCEPT ![u[n]] = free]
        /\ free' = head /\ head' = NULL
    BY <1>3 DEF DeleteAll
  <1>5. /\ n > 0 /\ u[n] \in Node
    BY <1>2, <1>4 DEF Path
  <1>6. Blank \in Nodes /\ Blank.used = FALSE
    <2>1. 0 \in Addr
      BY Constants DEF Addr
    <2> QED BY <2>1 DEF Blank, Nodes, Code, Val
  <1>7. node' \in [Node -> Nodes] /\ InUse' = {}
    BY <1>4, <1>6 DEF DebuggerType, InUse
  <1>8. /\ next' \in [Node -> Node \cup {NULL}] /\ next'[u[n]] = free
        /\ \A q \in Node \ {u[n]} : next'[q] = next[q]
        /\ head' \in Node \cup {NULL} /\ free' \in Node \cup {NULL}
    BY <1>4, <1>5 DEF DebuggerType
  <1>9. PICK r : Path(next', r, n + m, head) /\ On(r, n + m) = On(u, n) \cup On(f, m)
    <2>1. On(u, n) \cap On(f, m) = {}
      BY <1>2
    <2> QED BY <1>2, <1>5, <1>8, <2>1, PathJoin
  <1> DEFINE t == [k \in 1 .. 0 |-> NULL]
  <1>10. Path(next', t, 0, NULL) /\ On(t, 0) = {}
    BY DEF Path, On
  <1> HIDE DEF t
  <1>11. ListsAre(t, 0, r, n + m)'
    <2>1. 0 + (n + m) = NR_BP
      BY <1>2, <1>3
    <2>2. On(r, n + m) = Node \ InUse'
      BY <1>2, <1>7, <1>9
    <2> QED BY <1>4, <1>7, <1>9, <1>10, <2>1, <2>2 DEF ListsAre
  <1>12. Shared'
    BY <1>11 DEF Shared
  <1> QED BY <1>7, <1>8, <1>12

(* A step that leaves the pointers and who is in use.                      *)
LEMMA SharedKept ==
  ASSUME Shared, UNCHANGED <<next, head, free>>, InUse' = InUse
  PROVE  Shared'
  <1>1. PICK u, n, f, m : ListsAre(u, n, f, m)
    BY DEF Shared
  <1>2. ListsAre(u, n, f, m)'
    BY <1>1 DEF ListsAre
  <1> QED BY <1>2 DEF Shared

-----------------------------------------------------------------------------
(* One turn of exec's loop.                                                *)
Stop == text[eip] = "int3" /\ \E p \in Set : node[p].addr = eip

(* It changes no node but the byte saved and the value watched, ...        *)
LEMMA SavedKeeps ==
  ASSUME DebuggerType
  PROVE  /\ Saved \in [Node -> Nodes]
         /\ \A p \in Node : /\ Saved[p].used = node[p].used
                            /\ Saved[p].type = node[p].type
                            /\ Saved[p].addr = node[p].addr
  <1> DEFINE Same(q, p) == /\ q \in Nodes /\ q.used = p.used /\ q.type = p.type
                           /\ q.addr = p.addr
  <1>1. ASSUME NEW p \in Node PROVE Same(Resaved[p], node[p])
    <2>1. node[p] \in Nodes
      BY DEF DebuggerType
    <2>2. CASE p \notin Breaks
      BY <2>1, <2>2 DEF Resaved
    <2>3. CASE p \in Breaks
      <3> DEFINE at == FirstAt(LAMBDA q : q \in Breaks /\ node[q].addr = node[p].addr)
                 byte == IF Listed[at] = p THEN text[node[p].addr] ELSE "int3"
      <3>1. Resaved[p] = [node[p] EXCEPT !.ori = byte]
        BY <2>3 DEF Resaved
      <3>2. byte \in Code
        BY <2>1 DEF Nodes, DebuggerType, Code
      <3> HIDE DEF byte
      <3> QED BY <2>1, <3>1, <3>2 DEF Nodes
    <2> QED BY <2>2, <2>3
  <1>2. ASSUME NEW p \in Node PROVE Same(node[p], node[p])
    BY DEF DebuggerType
  <1>3. \A p \in Node : Same(Saved[p], node[p])
    <2> HIDE DEF Same
    <2> QED BY <1>1, <1>2 DEF Saved
  <1>4. DOMAIN Saved = Node /\ Saved = [p \in Node |-> Saved[p]]
    BY DEF Saved, Resaved, DebuggerType
  <1> HIDE DEF Same
  <1>5. \A p \in Node : Saved[p] \in Nodes
    BY <1>3 DEF Same
  <1>6. Saved \in [Node -> Nodes]
    BY <1>4, <1>5
  <1> QED BY <1>3, <1>6 DEF Same

(* What one turn of the loop of exec does to the nodes and the bytes.      *)
LEMMA InstrEffect ==
  ASSUME DebuggerType, Shared, Instr
  PROVE  /\ run.left # 0 /\ UNCHANGED <<next, head, free>>
         /\ node' \in [Node -> Nodes]
         /\ \A p \in Node : /\ node'[p].used = node[p].used
                            /\ node'[p].type = node[p].type
                            /\ node'[p].addr = node[p].addr
         /\ text' \in [Addr -> Code]
         /\ \A a \in Addr : a # eip \/ ~Stop => text'[a] = Armed[a]
         /\ eip' \in Addr /\ (Stop => eip' = eip)
         /\ eip' # eip /\ text[eip] = "int3" => Set \cap {p \in Node : node[p].addr = eip} = {}
         /\ val' \in Val /\ state' \in {"ready", "run", "break"}
         /\ run' \in [left : Int, rerun : {FALSE}]
         /\ (state' = "break" => run'.left = 0)
         /\ spoiled' \subseteq spoiled \cup {"resume"} /\ spoiled \subseteq spoiled'
         /\ forgot' \in BOOLEAN
         /\ (forgot' <=> ((forgot /\ ~run.rerun) \/ (Stop /\ state' # "break")))
  <1> DEFINE hit == text[eip] = "int3"
             bp == FirstAt(LAMBDA q : q \in Breaks /\ node[q].addr = eip)
             left == IF run.left = -1 THEN -1 ELSE run.left - 1
             wp(v) == FirstAt(LAMBDA q : node[q].type = "watch" /\ node[q].old # v)
             ends(v) == hit \/ wp(v) # 0 \/ left = 0
             broken(v) == hit /\ wp(v) = 0 /\ left # 0
  <1>1. /\ run.left # 0 /\ run.left \in Int /\ left \in Int
        /\ UNCHANGED <<next, head, free>>
    BY DEF Instr, DebuggerType
  <1>2. PICK e \in Targets(hit, bp), v \in IF hit THEN {val} ELSE Val :
          /\ eip' = e
          /\ val' = v
          /\ text' = IF hit /\ bp # 0
                       THEN [Armed EXCEPT ![eip] = Saved[Listed[bp]].ori]
                       ELSE Armed
          /\ node' = IF wp(v) # 0 THEN [Saved EXCEPT ![Listed[wp(v)]].old = v]
                               ELSE Saved
          /\ state' = IF broken(v) THEN "break"
                      ELSE IF ends(v) THEN "ready" ELSE "run"
          /\ run' = [left |-> IF ends(v) THEN 0 ELSE left, rerun |-> FALSE]
          /\ Spoil("resume", run.rerun /\ \E p \in Breaks : Resaved[p].ori = "int3")
          /\ forgot' = ((forgot /\ ~run.rerun) \/ (hit /\ bp # 0 /\ ~broken(v)))
    BY DEF Instr
  <1>3. Breaks = Set /\ Members(Listed) = InUse
    BY BreaksAre
  <1>4. v \in Val
    BY <1>2 DEF DebuggerType
  <1>5. /\ bp = 0 <=> {q \in Breaks : node[q].addr = eip} \cap InUse = {}
        /\ bp # 0 => bp \in 1 .. Len(Listed)
                      /\ Listed[bp] \in {q \in Breaks : node[q].addr = eip} \cap InUse
    <2> DEFINE P == {q \in Breaks : node[q].addr = eip}
               at == {k \in 1 .. Len(Listed) : Listed[k] \in P}
    <2>1. bp = Least(at)
      <3>1. at = {k \in 1 .. Len(Listed) : Listed[k] \in Breaks
                                            /\ node[Listed[k]].addr = eip}
        OBVIOUS
      <3> HIDE DEF at
      <3> QED BY <3>1 DEF FirstAt, Least
    <2> HIDE DEF bp, at, P
    <2>2. at = {k \in 1 .. Len(Listed) : Listed[k] \in P}
      BY DEF at
    <2>3. /\ bp = 0 <=> P \cap InUse = {}
          /\ bp # 0 => bp \in 1 .. Len(Listed) /\ Listed[bp] \in P \cap InUse
      BY <2>1, <2>2, ListedPlace
    <2> QED BY <2>3 DEF P
  <1>6. wp(v) # 0 => Listed[wp(v)] \in Node
    <2> DEFINE P == {q \in Node : node[q].type = "watch" /\ node[q].old # v}
               at == {k \in 1 .. Len(Listed) : Listed[k] \in P}
    <2>1. \A k \in 1 .. Len(Listed) : Listed[k] \in Node
      BY <1>3 DEF Members, InUse
    <2>2. wp(v) = Least(at)
      <3>1. at = {k \in 1 .. Len(Listed) : node[Listed[k]].type = "watch"
                                            /\ node[Listed[k]].old # v}
        BY <2>1
      <3> HIDE DEF at
      <3> QED BY <3>1 DEF FirstAt, Least
    <2> HIDE DEF wp, at, P
    <2>3. at = {k \in 1 .. Len(Listed) : Listed[k] \in P}
      BY DEF at
    <2>4. wp(v) # 0 => Listed[wp(v)] \in P \cap InUse
      <3> DEFINE b == wp(v)
      <3> HIDE DEF b
      <3> QED BY <2>2, <2>3, ListedPlace DEF b
    <2> QED BY <2>4 DEF P
  <1>7. hit /\ bp # 0 <=> Stop
    <2>1. bp # 0 <=> \E p \in Set : node[p].addr = eip
      BY <1>3, <1>5 DEF Set
    <2> QED BY <2>1 DEF Stop
  <1> HIDE DEF bp, wp
  <1>8. /\ node' \in [Node -> Nodes]
        /\ \A p \in Node : /\ node'[p].used = node[p].used
                           /\ node'[p].type = node[p].type
                           /\ node'[p].addr = node[p].addr
    <2>1. /\ Saved \in [Node -> Nodes]
          /\ \A p \in Node : /\ Saved[p].used = node[p].used
                             /\ Saved[p].type = node[p].type
                             /\ Saved[p].addr = node[p].addr
      BY SavedKeeps
    <2>2. CASE wp(v) = 0
      BY <1>2, <2>1, <2>2
    <2>3. CASE wp(v) # 0
      <3> DEFINE x == Listed[wp(v)]
      <3>1. x \in Node /\ node' = [Saved EXCEPT ![x].old = v]
        BY <1>2, <1>6, <2>3
      <3> HIDE DEF x
      <3>2. /\ node' = [Saved EXCEPT ![x] = [Saved[x] EXCEPT !.old = v]]
            /\ Saved[x] \in Nodes
        BY <2>1, <3>1
      <3> DEFINE y == [Saved[x] EXCEPT !.old = v]
      <3>3. /\ y \in Nodes /\ y.used = Saved[x].used /\ y.type = Saved[x].type
            /\ y.addr = Saved[x].addr
        BY <1>4, <3>2 DEF Nodes
      <3>4. node' = [Saved EXCEPT ![x] = y]
        BY <3>2
      <3> HIDE DEF y
      <3>5. node' \in [Node -> Nodes] /\ node'[x] = y
            /\ \A p \in Node \ {x} : node'[p] = Saved[p]
        BY <2>1, <3>1, <3>3, <3>4
      <3> QED BY <2>1, <3>1, <3>3, <3>5
    <2> QED BY <2>2, <2>3
  <1>9. Armed \in [Addr -> Code]
    BY DEF Armed, Rearmed, DebuggerType, Code
  <1>10. /\ text' \in [Addr -> Code]
         /\ \A a \in Addr : a # eip \/ ~Stop => text'[a] = Armed[a]
    <2>1. CASE Stop
      <3>1. Saved[Listed[bp]].ori \in Code
        <4>1. Listed[bp] \in Node
          BY <1>5, <1>7, <2>1 DEF InUse
        <4> QED BY <4>1, SavedKeeps DEF Nodes
      <3>2. text' = [Armed EXCEPT ![eip] = Saved[Listed[bp]].ori]
        BY <1>2, <1>7, <2>1
      <3> QED BY <1>9, <2>1, <3>1, <3>2
    <2>2. CASE ~Stop
      BY <1>2, <1>7, <1>9, <2>2
    <2> QED BY <2>1, <2>2
  <1>11. /\ eip' \in Addr /\ (Stop => eip' = eip)
         /\ eip' # eip /\ text[eip] = "int3"
              => Set \cap {p \in Node : node[p].addr = eip} = {}
    <2>1. (eip + 1) % NAddr \in Addr /\ eip \in Addr
      BY Constants DEF Addr, DebuggerType
    <2>2. Targets(hit, bp) = IF ~hit THEN Addr ELSE IF bp # 0 THEN {eip}
                             ELSE {(eip + 1) % NAddr}
      BY DEF Targets
    <2> DEFINE far == (eip + 1) % NAddr
    <2> HIDE DEF far
    <2>3. eip' \in Addr
      BY <1>2, <2>1, <2>2 DEF far
    <2>4. Stop => eip' = eip
      BY <1>2, <1>7, <2>2
    <2>5. eip' # eip /\ text[eip] = "int3"
              => Set \cap {p \in Node : node[p].addr = eip} = {}
      BY <2>4 DEF Stop
    <2> QED BY <2>3, <2>4, <2>5
  <1>12. /\ state' \in {"ready", "run", "break"}
         /\ (state' = "break" <=> broken(v))
         /\ run' \in [left : Int, rerun : {FALSE}]
         /\ (state' = "break" => run'.left = 0)
    BY <1>1, <1>2
  <1>13. /\ spoiled' \subseteq spoiled \cup {"resume"} /\ spoiled \subseteq spoiled'
    BY <1>2 DEF Spoil
  <1>14. /\ forgot' \in BOOLEAN
         /\ (forgot' <=> ((forgot /\ ~run.rerun) \/ (Stop /\ state' # "break")))
    <2>1. forgot' = ((forgot /\ ~run.rerun) \/ (hit /\ bp # 0 /\ ~broken(v)))
      BY <1>2
    <2> HIDE DEF hit, broken
    <2>2. forgot' = ((forgot /\ ~run.rerun) \/ (Stop /\ state' # "break"))
      BY <1>7, <1>12, <2>1, Zenon
    <2> QED BY <2>2, Zenon
  <1> QED BY <1>1, <1>2, <1>4, <1>8, <1>10, <1>11, <1>12, <1>13, <1>14

-----------------------------------------------------------------------------
(* The inductive invariant.                                                *)
Bytes == Int3Listed /\ BreaksArmed

DebuggerInv == DebuggerType /\ Shared /\ Bytes

(* assert(free_ != NULL): the monitor is gone.                             *)
LEMMA PoolEmptySafe ==
  ASSUME DebuggerInv, PoolEmpty, AtPrompt, UNCHANGED <<eip, val, run, forgot>>
  PROVE  DebuggerInv'
  <1>1. /\ UNCHANGED <<node, next, head, free, text, spoiled, eip, val, run, forgot>>
        /\ state' = "aborted" /\ run.left = 0
    BY DEF PoolEmpty, AtPrompt
  <1>2. DebuggerType'
    BY <1>1 DEF DebuggerInv, DebuggerType
  <1>3. InUse' = InUse /\ Set' = Set
    BY <1>1 DEF InUse, Set
  <1>4. Shared'
    BY <1>1, <1>3, SharedKept DEF DebuggerInv
  <1>5. Int3Listed'
    BY <1>1, <1>3 DEF DebuggerInv, Bytes, Int3Listed
  <1>6. BreaksArmed'
    BY <1>1, <1>3 DEF DebuggerInv, Bytes, BreaksArmed, Pending
  <1> QED BY <1>2, <1>4, <1>5, <1>6 DEF DebuggerInv, Bytes

(* cmd_b keeps the invariant.                                              *)
LEMMA SetBreakpointSafe ==
  ASSUME DebuggerInv, NEW a \in Addr, SetBreakpoint(a)
  PROVE  DebuggerInv'
  <1>1. AtPrompt /\ UNCHANGED <<eip, val, run, forgot>>
    BY DEF SetBreakpoint
  <1>2. CASE PoolEmpty
    BY <1>1, <1>2, PoolEmptySafe
  <1>3. CASE free # NULL /\ ~PoolEmpty
    <2> DEFINE fields == [used |-> TRUE, type |-> "break", addr |-> a,
                          ori |-> text[a], old |-> 0]
    <2>1. /\ NewBP(fields) /\ text' = [text EXCEPT ![a] = "int3"]
          /\ spoiled' = spoiled \cup IF text[a] = "int3" THEN {"set"} ELSE {}
          /\ UNCHANGED state
      BY <1>3 DEF SetBreakpoint, Spoil
    <2>2. /\ fields \in Nodes /\ fields.used = TRUE /\ fields.type = "break"
          /\ fields.addr = a
      BY DEF Nodes, Val, DebuggerInv, DebuggerType
    <2> HIDE DEF fields
    <2>3. /\ Shared' /\ InUse' = InUse \cup {free}
          /\ free \in Node /\ free \notin InUse
          /\ node' \in [Node -> Nodes] /\ node'[free] = fields
          /\ \A p \in InUse : node'[p] = node[p]
          /\ next' \in [Node -> Node \cup {NULL}]
          /\ head' \in Node \cup {NULL} /\ free' \in Node \cup {NULL}
      BY <1>3, <2>1, <2>2, NewShared DEF DebuggerInv
    <2>4. /\ text' \in [Addr -> Code] /\ text'[a] = "int3"
          /\ \A b \in Addr \ {a} : text'[b] = text[b]
          /\ spoiled \subseteq spoiled' /\ spoiled' \subseteq {"set", "resume", "delete"}
      BY <2>1 DEF DebuggerInv, DebuggerType, Code
    <2>5. DebuggerType'
      BY <1>1, <2>1, <2>3, <2>4 DEF DebuggerInv, DebuggerType
    <2>6. /\ Set' = Set \cup {free} /\ node'[free].addr = a
          /\ \A p \in Set : node'[p].addr = node[p].addr /\ node[p].addr \in Addr
      BY <2>2, <2>3 DEF Set, InUse, DebuggerInv, DebuggerType, Nodes
    <2>7. Int3Listed'
      BY <2>4, <2>6 DEF DebuggerInv, Bytes, Int3Listed
    <2>8. BreaksArmed'
      BY <1>1, <2>1, <2>4, <2>6 DEF DebuggerInv, Bytes, BreaksArmed, Pending
    <2> QED BY <2>3, <2>5, <2>7, <2>8 DEF DebuggerInv, Bytes
  <1> QED BY <1>2, <1>3 DEF SetBreakpoint

(* cmd_w keeps the invariant.                                              *)
LEMMA SetWatchpointSafe ==
  ASSUME DebuggerInv, SetWatchpoint
  PROVE  DebuggerInv'
  <1>1. AtPrompt /\ UNCHANGED <<eip, val, run, forgot>>
    BY DEF SetWatchpoint
  <1>2. CASE PoolEmpty
    BY <1>1, <1>2, PoolEmptySafe
  <1>3. CASE free # NULL /\ ~PoolEmpty
    <2> DEFINE fields == [used |-> TRUE, type |-> "watch", addr |-> 0,
                          ori |-> "own", old |-> val]
    <2>1. NewBP(fields) /\ UNCHANGED <<text, state, spoiled>>
      BY <1>3 DEF SetWatchpoint
    <2>2. /\ fields \in Nodes /\ fields.used = TRUE /\ fields.type = "watch"
      <3>1. 0 \in Addr
        BY Constants DEF Addr
      <3> QED BY <3>1 DEF Nodes, Code, DebuggerInv, DebuggerType
    <2> HIDE DEF fields
    <2>3. /\ Shared' /\ InUse' = InUse \cup {free}
          /\ free \in Node /\ free \notin InUse
          /\ node' \in [Node -> Nodes] /\ node'[free] = fields
          /\ \A p \in InUse : node'[p] = node[p]
          /\ next' \in [Node -> Node \cup {NULL}]
          /\ head' \in Node \cup {NULL} /\ free' \in Node \cup {NULL}
      BY <1>3, <2>1, <2>2, NewShared DEF DebuggerInv
    <2>4. DebuggerType'
      BY <1>1, <2>1, <2>3 DEF DebuggerInv, DebuggerType
    <2>5. /\ Set' = Set /\ \A p \in Set : node'[p].addr = node[p].addr
      BY <2>2, <2>3 DEF Set
    <2>6. Int3Listed'
      BY <2>1, <2>5 DEF DebuggerInv, Bytes, Int3Listed
    <2>7. BreaksArmed'
      BY <1>1, <2>1, <2>5 DEF DebuggerInv, Bytes, BreaksArmed, Pending
    <2> QED BY <2>3, <2>4, <2>6, <2>7 DEF DebuggerInv, Bytes
  <1> QED BY <1>2, <1>3 DEF SetWatchpoint

(* A delete: what was INT3 at a breakpoint deleted is remembered.          *)
LEMMA DeleteBytes ==
  ASSUME DebuggerInv, NEW gone, LeavesInt3(gone) => spoiled' # {},
         spoiled \subseteq spoiled',
         Set' = Set \ gone, \A p \in Set' : node'[p] = node[p],
         UNCHANGED <<text, eip, state, run, forgot>>
  PROVE  Bytes'
  <1>1. Breaks = Set
    BY BreaksAre DEF DebuggerInv
  <1>2. spoiled' = {} => \A p \in Set \cap gone : text[node[p].addr] # "int3"
    BY <1>1 DEF LeavesInt3
  <1>3. Int3Listed'
    <2> SUFFICES ASSUME spoiled' = {}, NEW b \in Addr, text[b] = "int3"
                 PROVE  \E p \in Set' : node'[p].addr = b
      BY DEF Int3Listed
    <2>1. spoiled = {}
      OBVIOUS
    <2>2. PICK p \in Set : node[p].addr = b
      BY <2>1 DEF DebuggerInv, Bytes, Int3Listed
    <2>3. p \notin gone
      BY <1>2, <2>2
    <2> QED BY <2>2, <2>3
  <1>4. BreaksArmed'
    BY DEF DebuggerInv, Bytes, BreaksArmed, Pending
  <1> QED BY <1>3, <1>4 DEF Bytes

(* cmd_d with a number keeps the invariant.                                *)
LEMMA DeleteSafe ==
  ASSUME DebuggerInv, NEW NO \in Node, DeleteBreakpoint(NO)
  PROVE  DebuggerInv'
  <1>1. /\ Shared' /\ InUse' = InUse \ {NO} /\ NO \in InUse
        /\ node' \in [Node -> Nodes]
        /\ \A p \in Node \ {NO} : node'[p] = node[p]
        /\ next' \in [Node -> Node \cup {NULL}]
        /\ head' \in Node \cup {NULL} /\ free' \in Node \cup {NULL}
    BY DeleteShared DEF DebuggerInv
  <1>2. /\ UNCHANGED <<text, eip, val, state, run, forgot>>
        /\ spoiled' = spoiled \cup IF LeavesInt3({NO}) THEN {"delete"} ELSE {}
    BY DEF DeleteBreakpoint, Spoil
  <1>3. /\ spoiled \subseteq spoiled' /\ (LeavesInt3({NO}) => spoiled' # {})
        /\ spoiled' \subseteq {"set", "resume", "delete"}
    BY <1>2 DEF DebuggerInv, DebuggerType
  <1>4. DebuggerType'
    BY <1>1, <1>2, <1>3 DEF DebuggerInv, DebuggerType
  <1>5. Set' = Set \ {NO} /\ \A p \in Set' : node'[p] = node[p]
    BY <1>1 DEF Set, InUse
  <1>6. Bytes'
    BY <1>2, <1>3, <1>5, DeleteBytes
  <1> QED BY <1>1, <1>4, <1>6 DEF DebuggerInv

(* cmd_d without keeps the invariant.                                      *)
LEMMA DeleteAllSafe ==
  ASSUME DebuggerInv, DeleteAll
  PROVE  DebuggerInv'
  <1>1. /\ Shared' /\ InUse' = {}
        /\ node' \in [Node -> Nodes]
        /\ next' \in [Node -> Node \cup {NULL}]
        /\ head' \in Node \cup {NULL} /\ free' \in Node \cup {NULL}
    BY DeleteAllShared DEF DebuggerInv
  <1>2. /\ UNCHANGED <<text, eip, val, state, run, forgot>>
        /\ spoiled' = spoiled \cup IF LeavesInt3(Members(Listed)) THEN {"delete"} ELSE {}
    BY DEF DeleteAll, Spoil
  <1>3. /\ spoiled \subseteq spoiled' /\ (LeavesInt3(InUse) => spoiled' # {})
        /\ spoiled' \subseteq {"set", "resume", "delete"}
    BY <1>2, BreaksAre DEF DebuggerInv, DebuggerType
  <1>4. DebuggerType'
    BY <1>1, <1>2, <1>3 DEF DebuggerInv, DebuggerType
  <1>5. Set' = Set \ InUse /\ \A p \in Set' : node'[p] = node[p]
    BY <1>1 DEF Set
  <1>6. Bytes'
    BY <1>2, <1>3, <1>5, DeleteBytes
  <1> QED BY <1>1, <1>4, <1>6 DEF DebuggerInv

(* The start of cmd_c and cmd_si keeps the invariant.                      *)
LEMMA ExecSafe ==
  ASSUME DebuggerInv, NEW n \in {-1} \cup 1 .. MaxSteps, Exec(n)
  PROVE  DebuggerInv'
  <1>1. /\ run.left = 0 /\ state # "aborted"
        /\ run' = [left |-> n, rerun |-> state = "break"] /\ state' = "run"
        /\ UNCHANGED <<node, next, head, free, text, eip, val, spoiled, forgot>>
    BY DEF Exec, AtPrompt
  <1>2. n \in Int /\ n # 0
    BY Constants
  <1>3. /\ run' \in [left : Int, rerun : BOOLEAN] /\ run'.left # 0
        /\ (run'.rerun <=> state = "break")
    BY <1>1, <1>2
  <1>4. DebuggerType'
    BY <1>1, <1>3 DEF DebuggerInv, DebuggerType
  <1>5. InUse' = InUse /\ Set' = Set
    BY <1>1 DEF InUse, Set
  <1>6. Shared'
    BY <1>1, <1>5, SharedKept DEF DebuggerInv
  <1>7. Int3Listed'
    BY <1>1, <1>5 DEF DebuggerInv, Bytes, Int3Listed
  <1>8. Pending => Pending'
    BY <1>1, <1>3 DEF Pending
  <1>9. BreaksArmed'
    BY <1>1, <1>5, <1>8 DEF DebuggerInv, Bytes, BreaksArmed
  <1> QED BY <1>4, <1>6, <1>7, <1>9 DEF DebuggerInv, Bytes

(* A turn of the loop of exec keeps the invariant.                         *)
LEMMA InstrSafe ==
  ASSUME DebuggerInv, Instr
  PROVE  DebuggerInv'
  <1>1. /\ run.left # 0 /\ UNCHANGED <<next, head, free>>
        /\ node' \in [Node -> Nodes]
        /\ \A p \in Node : /\ node'[p].used = node[p].used
                           /\ node'[p].type = node[p].type
                           /\ node'[p].addr = node[p].addr
        /\ text' \in [Addr -> Code]
        /\ \A a \in Addr : a # eip \/ ~Stop => text'[a] = Armed[a]
        /\ eip' \in Addr /\ (Stop => eip' = eip)
        /\ val' \in Val /\ state' \in {"ready", "run", "break"}
        /\ run' \in [left : Int, rerun : {FALSE}]
        /\ (state' = "break" => run'.left = 0)
        /\ spoiled' \subseteq spoiled \cup {"resume"} /\ spoiled \subseteq spoiled'
        /\ forgot' \in BOOLEAN
        /\ (forgot' <=> ((forgot /\ ~run.rerun) \/ (Stop /\ state' # "break")))
    BY InstrEffect DEF DebuggerInv
  <1>2. DebuggerType'
    <2>1. [left : Int, rerun : {FALSE}] \subseteq [left : Int, rerun : BOOLEAN]
      OBVIOUS
    <2>2. run' \in [left : Int, rerun : BOOLEAN]
      BY <1>1, <2>1
    <2>3. spoiled' \subseteq {"set", "resume", "delete"}
      BY <1>1 DEF DebuggerInv, DebuggerType
    <2>4. /\ head' \in Node \cup {NULL} /\ free' \in Node \cup {NULL}
          /\ next' \in [Node -> Node \cup {NULL}]
      BY <1>1 DEF DebuggerInv, DebuggerType
    <2>5. state' \in {"ready", "run", "break", "aborted"}
      BY <1>1
    <2> QED BY <1>1, <2>2, <2>3, <2>4, <2>5 DEF DebuggerType
  <1>3. InUse' = InUse /\ Set' = Set
    BY <1>1 DEF InUse, Set
  <1>4. Shared'
    BY <1>1, <1>3, SharedKept DEF DebuggerInv
  <1>5. /\ Breaks = Set
        /\ \A p \in Set : node'[p].addr = node[p].addr /\ node[p].addr \in Addr
    BY <1>1, BreaksAre DEF DebuggerInv, DebuggerType, Set, InUse, Nodes
  <1>6. \A a \in Addr :
          Armed[a] = IF run.rerun /\ \E p \in Set : node[p].addr = a THEN "int3"
                     ELSE text[a]
    BY <1>5 DEF Armed, Rearmed
  <1>7. Int3Listed'
    <2> SUFFICES ASSUME spoiled' = {}, NEW b \in Addr, text'[b] = "int3"
                 PROVE  \E p \in Set : node[p].addr = b
      BY <1>3, <1>5 DEF Int3Listed
    <2>1. spoiled = {}
      BY <1>1
    <2>2. CASE b # eip \/ ~Stop
      <3>1. Armed[b] = "int3"
        BY <1>1, <2>2
      <3>2. text[b] = "int3" => \E p \in Set : node[p].addr = b
        BY <2>1 DEF DebuggerInv, Bytes, Int3Listed
      <3> QED BY <1>6, <3>1, <3>2
    <2>3. CASE b = eip /\ Stop
      BY <2>3 DEF Stop
    <2> QED BY <2>2, <2>3
  <1>8. BreaksArmed'
    <2> SUFFICES ASSUME spoiled' = {}, ~forgot', NEW p \in Set
                 PROVE  text'[node[p].addr] = "int3" \/ (node[p].addr = eip' /\ Pending')
      BY <1>3, <1>5 DEF BreaksArmed
    <2>1. spoiled = {}
      BY <1>1
    <2>2. CASE node[p].addr = eip /\ Stop
      <3>1. state' = "break" /\ run'.left = 0 /\ eip' = eip
        BY <1>1, <2>2
      <3>2. Pending'
        BY <3>1 DEF Pending
      <3> QED BY <2>2, <3>1, <3>2
    <2>3. CASE node[p].addr # eip \/ ~Stop
      <3>1. text'[node[p].addr] = Armed[node[p].addr] /\ node[p].addr \in Addr
        BY <1>1, <1>5, <2>3
      <3>2. CASE run.rerun
        BY <1>6, <3>1, <3>2
      <3>3. CASE ~run.rerun
        <4>1. ~forgot /\ ~Pending
          BY <1>1, <3>3 DEF Pending
        <4>2. text[node[p].addr] = "int3"
          BY <2>1, <4>1 DEF DebuggerInv, Bytes, BreaksArmed
        <4> QED BY <1>6, <3>1, <3>3, <4>2
      <3> QED BY <3>2, <3>3
    <2> QED BY <2>2, <2>3
  <1> QED BY <1>2, <1>4, <1>7, <1>8 DEF DebuggerInv, Bytes

(* The invariant holds initially.                                          *)
LEMMA InitSafe == Init => DebuggerInv
  <1> SUFFICES ASSUME Init PROVE DebuggerInv
    OBVIOUS
  <1> DEFINE u == [k \in 1 .. 0 |-> NULL]
             f == [k \in 1 .. NR_BP |-> k - 1]
  <1>1. /\ 0 \in Node /\ 0 \in Addr /\ NR_BP \in Nat /\ NR_BP > 0
    BY Constants DEF Node, Addr
  <1>2. Blank \in Nodes /\ Blank.used = FALSE
    BY <1>1 DEF Blank, Nodes, Code, Val
  <1>3. /\ node = [p \in Node |-> Blank] /\ head = NULL /\ free = 0
        /\ next = [p \in Node |-> IF p = NR_BP - 1 THEN NULL ELSE p + 1]
    BY DEF Init
  <1>4. InUse = {} /\ Set = {}
    BY <1>2, <1>3 DEF InUse, Set
  <1>5. Path(next, u, 0, NULL) /\ On(u, 0) = {}
    BY DEF Path, On
  <1>6. Path(next, f, NR_BP, 0)
    <2>1. f \in [1 .. NR_BP -> Node]
      BY <1>1 DEF Node
    <2>2. \A j, k \in 1 .. NR_BP : f[j] = f[k] => j = k
      BY <1>1
    <2>3. 0 = f[1] /\ next[f[NR_BP]] = NULL
      BY <1>1, <1>3 DEF Node
    <2>4. \A k \in 1 .. NR_BP - 1 : next[f[k]] = f[k + 1]
      <3> SUFFICES ASSUME NEW k \in 1 .. NR_BP - 1 PROVE next[f[k]] = f[k + 1]
        OBVIOUS
      <3>1. f[k] = k - 1 /\ f[k + 1] = k /\ k - 1 \in Node /\ k - 1 # NR_BP - 1
        BY <1>1 DEF Node
      <3> QED BY <1>1, <1>3, <3>1
    <2> HIDE DEF f
    <2> QED BY <1>1, <2>1, <2>2, <2>3, <2>4 DEF Path
  <1>7. On(f, NR_BP) = Node
    <2>1. ASSUME NEW p \in Node PROVE p \in On(f, NR_BP)
      <3>1. p + 1 \in 1 .. NR_BP /\ f[p + 1] = p
        BY <1>1 DEF Node
      <3> QED BY <3>1 DEF On
    <2>2. ASSUME NEW p \in On(f, NR_BP) PROVE p \in Node
      BY <1>1, <2>2 DEF On, Node
    <2> QED BY <2>1, <2>2
  <1> HIDE DEF u, f
  <1>8. ListsAre(u, 0, f, NR_BP)
    <2>1. 0 + NR_BP = NR_BP
      BY <1>1
    <2> QED BY <1>3, <1>4, <1>5, <1>6, <1>7, <2>1 DEF ListsAre
  <1>9. Shared
    BY <1>8 DEF Shared
  <1>10. next \in [Node -> Node \cup {NULL}]
    BY <1>1, <1>3 DEF Node
  <1>11. DebuggerType
    <2>1. node \in [Node -> Nodes]
      BY <1>2, <1>3
    <2>2. head \in Node \cup {NULL} /\ free \in Node \cup {NULL}
      BY <1>1 DEF Init, Node
    <2>3. text \in [Addr -> Code]
      BY DEF Init, Code
    <2>4. eip \in Addr /\ val \in Val
      BY <1>1 DEF Init, Addr, Val
    <2>5. state \in {"ready", "run", "break", "aborted"}
      BY DEF Init
    <2>6. run \in [left : Int, rerun : BOOLEAN]
      BY DEF Init
    <2>7. spoiled \subseteq {"set", "resume", "delete"}
      BY DEF Init
    <2>8. forgot \in BOOLEAN
      BY Zenon DEF Init
    <2> QED
      BY <1>10, <2>1, <2>2, <2>3, <2>4, <2>5, <2>6, <2>7, <2>8 DEF DebuggerType
  <1>12. Bytes
    BY <1>4 DEF Init, Bytes, Int3Listed, BreaksArmed
  <1> QED BY <1>9, <1>11, <1>12 DEF DebuggerInv

(* Every step keeps the invariant.                                         *)
LEMMA StepSafe == DebuggerInv /\ [Next]_vars => DebuggerInv'
  <1> SUFFICES ASSUME DebuggerInv, [Next]_vars PROVE DebuggerInv'
    OBVIOUS
  <1>1. ASSUME NEW a \in Addr, SetBreakpoint(a) PROVE DebuggerInv'
    BY <1>1, SetBreakpointSafe
  <1>2. CASE SetWatchpoint
    BY <1>2, SetWatchpointSafe
  <1>3. ASSUME NEW NO \in Node, DeleteBreakpoint(NO) PROVE DebuggerInv'
    BY <1>3, DeleteSafe
  <1>4. CASE DeleteAll
    BY <1>4, DeleteAllSafe
  <1>5. ASSUME NEW n \in {-1} \cup 1 .. MaxSteps, Exec(n) PROVE DebuggerInv'
    BY <1>5, ExecSafe
  <1>6. CASE Instr
    BY <1>6, InstrSafe
  <1>7. CASE UNCHANGED vars
    <2>1. UNCHANGED <<node, next, head, free, text, eip, val, state, run, spoiled, forgot>>
      BY <1>7 DEF vars
    <2>2. InUse' = InUse /\ Set' = Set
      BY <2>1 DEF InUse, Set
    <2>3. Shared'
      BY <2>1, <2>2, SharedKept DEF DebuggerInv
    <2>4. DebuggerType'
      BY <2>1 DEF DebuggerInv, DebuggerType
    <2>5. Bytes'
      BY <2>1, <2>2 DEF DebuggerInv, Bytes, Int3Listed, BreaksArmed, Pending
    <2> QED BY <2>3, <2>4, <2>5 DEF DebuggerInv
  <1> QED BY <1>1, <1>2, <1>3, <1>4, <1>5, <1>6, <1>7 DEF Next

(* The invariant always holds.                                             *)
LEMMA AlwaysSafe == Spec => []DebuggerInv
  BY InitSafe, StepSafe, PTL DEF Spec

-----------------------------------------------------------------------------
(* Every variable of the debugger keeps its type.                          *)
THEOREM DebuggerTypes == Spec => []DebuggerType
  <1>1. DebuggerInv => DebuggerType
    BY DEF DebuggerInv
  <1> QED BY <1>1, AlwaysSafe, PTL

(* Whatever is set and deleted, no node is lost or on both lists           *)
(* (breakpoint.c:16, 30, 92, 112).                                         *)
THEOREM NodesShared == Spec => []ListsPartition
  <1>1. DebuggerInv => ListsPartition
    <2> SUFFICES ASSUME DebuggerInv PROVE ListsPartition
      OBVIOUS
    <2>1. PICK u, n, f, m : ListsAre(u, n, f, m)
      BY DEF DebuggerInv, Shared
    <2>2. /\ Chain(head) = u /\ Chain(free) = f
          /\ Len(u) + Len(f) = NR_BP
          /\ Members(u) = InUse /\ Members(f) = Node \ InUse
      BY <2>1, ListedIs DEF Listed
    <2>3. Node \ InUse = {p \in Node : ~node[p].used}
      BY DEF InUse
    <2> QED BY <2>2, <2>3 DEF ListsPartition, InUse
  <1> QED BY <1>1, AlwaysSafe, PTL

(* The program never goes on from an INT3 as though it were its own        *)
(* instruction, unless an INT3 has been saved as an original byte or left  *)
(* behind (cpu.c:62-79).                                                   *)
THEOREM ProgramUndisturbed == Spec => Transparent
  <1>1. DebuggerInv /\ [Next]_vars
          => [spoiled = {} /\ eip' # eip => text[eip] = "own"]_vars
    <2> SUFFICES ASSUME DebuggerInv, Next, spoiled = {}, eip' # eip
                 PROVE  text[eip] = "own"
      OBVIOUS
    <2>1. Instr
      BY DEF Next, SetBreakpoint, SetWatchpoint, DeleteBreakpoint, DeleteAll, Exec
    <2>2. text[eip] = "int3" => Set \cap {p \in Node : node[p].addr = eip} = {}
      BY <2>1, InstrEffect DEF DebuggerInv
    <2>3. text[eip] = "int3" => \E p \in Set : node[p].addr = eip /\ p \in Node
      BY DEF DebuggerInv, DebuggerType, Bytes, Int3Listed, Set, InUse
    <2>4. text[eip] # "int3"
      BY <2>2, <2>3
    <2> QED BY <2>4 DEF DebuggerInv, DebuggerType, Code
  <1> QED BY <1>1, AlwaysSafe, PTL DEF Spec, Transparent

(* The program passes a breakpoint that is set only right after a stop     *)
(* there, or when the stop was forgotten (cpu.c:100-107).                  *)
THEOREM HitsNotMissed == Spec => NoMissedHit
  <1>1. DebuggerInv /\ [Next]_vars
          => [(eip' # eip /\ \E p \in Breaks : node[p].addr = eip)
                => run.rerun \/ forgot \/ spoiled # {}]_vars
    <2> SUFFICES ASSUME DebuggerInv, Next, eip' # eip,
                        NEW p \in Breaks, node[p].addr = eip,
                        ~run.rerun, ~forgot, spoiled = {}
                 PROVE  FALSE
      OBVIOUS
    <2>1. Instr
      BY DEF Next, SetBreakpoint, SetWatchpoint, DeleteBreakpoint, DeleteAll, Exec
    <2>2. p \in Set /\ p \in Node
      BY BreaksAre DEF DebuggerInv, Set, InUse
    <2>3. run.left # 0
      BY <2>1 DEF Instr
    <2>4. text[eip] = "int3"
      BY <2>2, <2>3 DEF DebuggerInv, Bytes, BreaksArmed, Pending
    <2>5. Set \cap {q \in Node : node[q].addr = eip} = {}
      BY <2>1, <2>4, InstrEffect DEF DebuggerInv
    <2> QED BY <2>2, <2>5
  <1> QED BY <1>1, AlwaysSafe, PTL DEF Spec, NoMissedHit
=============================================================================
