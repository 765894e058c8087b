--------------------------- MODULE CpuCacheProofs ---------------------------
(***************************************************************************)
(* For every size of memory, cache and line: the cache holds a line at     *)
(* most once, it implements MainMemory, and it is coherent when no access  *)
(* crosses a line.                                                         *)
(***************************************************************************)
EXTENDS CpuCache, TLAPS

Inv == TypeOK /\ OneCopy

Typed(c) == c \in [Slot -> Entry]
Unique(c) == \A l \in Line : \A i, j \in Where(c, l) : i = j

\* The slot found for a line that is held once is the slot that holds it.
LEMMA FirstOfOne ==
  ASSUME NEW c, Unique(c), NEW l \in Line, NEW i \in Where(c, l)
  PROVE  First(Where(c, l)) = i
<1>1. i \in Int
  BY DEF Where, SlotsOf, Slot
<1>2. Where(c, l) = {i}
  BY DEF Unique
<1>3. {k \in Where(c, l) : \A j \in Where(c, l) : k <= j} = {i}
  BY <1>1, <1>2
<1> QED BY <1>1, <1>2, <1>3 DEF First

\* Loading a line leaves every slot alone but one, which then equals memory.
LEMMA LoadedSlots ==
  ASSUME CacheAssumption, mem \in [Line -> [Offset -> Byte]],
         NEW c, Typed(c), Unique(c), NEW l \in Line, NEW c1 \in Loaded(c, l)
  PROVE  /\ Typed(c1)
         /\ Unique(c1)
         /\ Where(c1, l) # {}
         /\ \A k \in Line : \A i \in Where(c1, k) :
              c1[i].data = mem[k] \/ (i \in Where(c, k) /\ c1[i] = c[i])
<1>1. CASE Where(c, l) # {}
  BY <1>1 DEF Loaded
<1>2. CASE Where(c, l) = {}
  <2>1. PICK i \in Victims(c, l) :
          c1 = [c EXCEPT ![i] = [valid |-> TRUE, line |-> l, data |-> mem[l]]]
    BY <1>2 DEF Loaded
  <2>2. i \in SlotsOf(l) /\ i \in Slot
    BY DEF Victims, Lowest, SlotsOf
  <2>3. l \in Nat
    BY CacheAssumption DEF Line, CacheAssumption
  <2>4. Typed(c1) /\ c1[i] = [valid |-> TRUE, line |-> l, data |-> mem[l]]
        /\ \A j \in Slot \ {i} : c1[j] = c[j]
    BY <2>1, <2>2, <2>3 DEF Typed, Entry
  <2>5. i \in Where(c1, l)
    BY <2>2, <2>4 DEF Where
  <2>6. \A k \in Line : \A j \in Where(c1, k) :
          \/ j = i /\ k = l
          \/ j # i /\ j \in Where(c, k) /\ c1[j] = c[j]
    BY <2>4 DEF Where, SlotsOf
  <2>7. Unique(c1)
    BY <1>2, <2>6 DEF Unique
  <2> QED BY <2>4, <2>5, <2>6, <2>7
<1> QED BY <1>1, <1>2

\* Storing into the line l of cache c leaves every slot's line as it was and
\* changes the data of the one slot that holds l.
LEMMA StoredSlots ==
  ASSUME CacheAssumption,
         NEW c, Typed(c), Unique(c), NEW l \in Line, Where(c, l) # {},
         NEW o \in Int, NEW n \in Nat, NEW d \in [0 .. n - 1 -> Byte],
         NEW e, e = StoreHit(c, l, o, d)
  PROVE  /\ Typed(e)
         /\ Unique(e)
         /\ \A k \in Line : Where(e, k) = Where(c, k)
         /\ \A k \in Line : \A i \in Where(c, k) :
              e[i].data = IF k = l THEN Store(c[i].data, o, d) ELSE c[i].data
<1>1. PICK i : i \in Where(c, l)
  OBVIOUS
<1>2. First(Where(c, l)) = i /\ i \in Slot /\ c[i].line = l
  BY <1>1, FirstOfOne DEF Where, SlotsOf
<1>3. c[i] \in Entry /\ c[i].data \in [Offset -> Byte]
  BY <1>2 DEF Typed, Entry
<1>4. Store(c[i].data, o, d) \in [Offset -> Byte]
  BY <1>3 DEF Store
<1>5. e = [c EXCEPT ![i] = [c[i] EXCEPT !.data = Store(c[i].data, o, d)]]
  BY <1>2 DEF StoreHit, Typed
<1>a. [c[i] EXCEPT !.data = Store(c[i].data, o, d)]
        = [valid |-> c[i].valid, line |-> c[i].line, data |-> Store(c[i].data, o, d)]
  BY <1>3 DEF Entry
<1>b. [c[i] EXCEPT !.data = Store(c[i].data, o, d)] \in Entry
  BY <1>3, <1>4, <1>a DEF Entry
<1>6. /\ Typed(e)
      /\ e[i].valid = c[i].valid /\ e[i].line = c[i].line
      /\ e[i].data = Store(c[i].data, o, d)
      /\ \A j \in Slot \ {i} : e[j] = c[j]
  <2>1. Typed(e) /\ \A j \in Slot \ {i} : e[j] = c[j]
    BY <1>2, <1>5, <1>b DEF Typed
  <2>2. e[i] = [valid |-> c[i].valid, line |-> c[i].line, data |-> Store(c[i].data, o, d)]
    BY <1>2, <1>5, <1>a DEF Typed
  <2> QED BY <2>1, <2>2
<1>7. \A k \in Line : Where(e, k) = Where(c, k)
  BY <1>6 DEF Where, SlotsOf
<1>8. \A k \in Line : \A j \in Where(c, k) :
        e[j].data = IF k = l THEN Store(c[j].data, o, d) ELSE c[j].data
  <2> SUFFICES ASSUME NEW k \in Line, NEW j \in Where(c, k)
               PROVE  e[j].data = IF k = l THEN Store(c[j].data, o, d) ELSE c[j].data
    OBVIOUS
  <2>1. j \in Slot /\ c[j].line = k
    BY DEF Where, SlotsOf
  <2>2. CASE k = l
    <3>1. j = i
      BY <2>2, <1>1 DEF Unique
    <3> QED BY <2>2, <3>1, <1>6
  <2>3. CASE k # l
    <3>1. j # i
      BY <2>1, <2>3, <1>2
    <3> QED BY <2>1, <2>3, <3>1, <1>6
  <2> QED BY <2>2, <2>3
<1>9. Unique(e)
  BY <1>7 DEF Unique
<1> QED BY <1>6, <1>7, <1>8, <1>9

\* A store that ends within its line leaves the next line as it is.
LEMMA NoSpill ==
  ASSUME CacheAssumption, NEW line \in [Offset -> Byte], NEW o \in Offset,
         NEW n \in Nat, ~Crosses(o, n), NEW d \in [0 .. n - 1 -> Byte]
  PROVE  Store(line, o - LineSize, d) = line
<1>1. \A x \in Offset : x - (o - LineSize) \notin DOMAIN d
  BY DEF Crosses, Offset, CacheAssumption
<1> QED BY <1>1 DEF Store

-----------------------------------------------------------------------------
LEMMA InitInv == CacheAssumption /\ Byte # {} /\ Init => Inv /\ Stale = {}
<1> SUFFICES ASSUME CacheAssumption, Byte # {}, Init
             PROVE  Inv /\ Stale = {}
  OBVIOUS
<1>1. TypeOK
  <2> DEFINE blank == [x \in Offset |-> CHOOSE b \in Byte : TRUE]
  <2>1. blank \in [Offset -> Byte]
    OBVIOUS
  <2>2. cache \in [Slot -> [valid : {FALSE}, line : {0}, data : {blank}]]
    BY DEF Init
  <2> HIDE DEF blank
  <2>3. \A e \in [valid : {FALSE}, line : {0}, data : {blank}] : e \in Entry
    <3> SUFFICES ASSUME NEW e \in [valid : {FALSE}, line : {0}, data : {blank}]
                 PROVE  e \in Entry
      OBVIOUS
    <3>1. e = [valid |-> FALSE, line |-> 0, data |-> blank]
      OBVIOUS
    <3> QED BY <2>1, <3>1 DEF Entry
  <2> QED BY <2>2, <2>3 DEF Init, TypeOK
<1>2. \A l \in Line : Where(cache, l) = {}
  BY DEF Init, Where, SlotsOf
<1> QED BY <1>1, <1>2 DEF Inv, OneCopy, Stale

LEMMA ReadStep ==
  ASSUME CacheAssumption, Inv, NEW l \in Line, NEW o \in Offset,
         NEW n \in Lengths, Read(l, o, n)
  PROVE  Inv' /\ Memory!Read(l, o, n)
<1>1. mem \in [Line -> [Offset -> Byte]] /\ Typed(cache) /\ Unique(cache)
  BY DEF Inv, TypeOK, OneCopy, Typed, Unique
<1>2. PICK c1 \in Loaded(cache, l) :
        \E c2 \in IF Crosses(o, n) THEN Loaded(c1, l + 1) ELSE {c1} :
          /\ cache' = c2
          /\ out' = [line |-> l, off |-> o,
                     bytes |-> [i \in 0 .. n - 1 |->
                       IF o + i < LineSize THEN LineIn(c1, l)[o + i]
                       ELSE LineIn(c2, l + 1)[o + i - LineSize]]]
  BY DEF Read
<1>3. CanAccess(l, o, n) /\ mem' = mem
  BY DEF Read
<1> DEFINE bytes == [i \in 0 .. n - 1 |->
                       IF o + i < LineSize THEN LineIn(c1, l)[o + i]
                       ELSE LineIn(cache', l + 1)[o + i - LineSize]]
<1>4. /\ cache' \in IF Crosses(o, n) THEN Loaded(c1, l + 1) ELSE {c1}
      /\ out' = [line |-> l, off |-> o, bytes |-> bytes]
  BY <1>2
<1>5. /\ Typed(c1) /\ Unique(c1) /\ Where(c1, l) # {}
      /\ \A k \in Line : \A i \in Where(c1, k) :
           c1[i].data = mem[k] \/ (i \in Where(cache, k) /\ c1[i] = cache[i])
  BY <1>1, LoadedSlots
<1>6. l + 1 \in Line \/ ~Crosses(o, n)
  BY <1>3 DEF CanAccess
<1>7. /\ Typed(cache') /\ Unique(cache')
      /\ Crosses(o, n) => Where(cache', l + 1) # {}
      /\ \A k \in Line : \A i \in Where(cache', k) :
           cache'[i].data = mem[k] \/ (i \in Where(c1, k) /\ cache'[i] = c1[i])
  <2>1. CASE Crosses(o, n)
    <3>1. l + 1 \in Line /\ cache' \in Loaded(c1, l + 1)
      BY <2>1, <1>4, <1>6
    <3> QED BY <2>1, <3>1, <1>1, <1>5, LoadedSlots
  <2>2. CASE ~Crosses(o, n)
    <3>1. cache' = c1
      BY <2>2, <1>4
    <3> QED BY <2>2, <3>1, <1>5
  <2> QED BY <2>1, <2>2
<1>8. \A k \in Line : \A i \in Where(cache', k) :
        cache'[i].data = mem[k] \/ (i \in Where(cache, k) /\ cache'[i] = cache[i])
  BY <1>5, <1>7
<1>9. Inv'
  <2>1. TypeOK'
    BY <1>1, <1>3, <1>4, <1>7 DEF TypeOK, Typed
  <2>2. OneCopy'
    BY <1>7 DEF OneCopy, Unique, Where
  <2> QED BY <2>1, <2>2 DEF Inv
<1>10. Stale' \subseteq Stale
  BY <1>3, <1>8 DEF Stale, Where
<1>11. \A k \in Line : Where(c1, k) # {} =>
         /\ LineIn(c1, k) \in [Offset -> Byte]
         /\ k \notin Stale => LineIn(c1, k) = mem[k]
  <2> SUFFICES ASSUME NEW k \in Line, NEW i \in Where(c1, k)
               PROVE  /\ LineIn(c1, k) \in [Offset -> Byte]
                      /\ k \notin Stale => LineIn(c1, k) = mem[k]
    OBVIOUS
  <2>1. LineIn(c1, k) = c1[i].data /\ i \in Slot
    BY <1>5, FirstOfOne DEF LineIn, Where, SlotsOf
  <2> QED BY <2>1, <1>5 DEF Typed, Entry, Stale
<1>12. Crosses(o, n) =>
         /\ LineIn(cache', l + 1) \in [Offset -> Byte]
         /\ l + 1 \notin Stale => LineIn(cache', l + 1) = mem[l + 1]
  <2> SUFFICES ASSUME Crosses(o, n)
               PROVE  /\ LineIn(cache', l + 1) \in [Offset -> Byte]
                      /\ l + 1 \notin Stale => LineIn(cache', l + 1) = mem[l + 1]
    OBVIOUS
  <2>1. PICK i : i \in Where(cache', l + 1)
    BY <1>7
  <2>2. l + 1 \in Line
    BY <1>6
  <2>3. LineIn(cache', l + 1) = cache'[i].data /\ i \in Slot
    BY <2>1, <2>2, <1>7, FirstOfOne DEF LineIn, Where, SlotsOf
  <2> QED BY <2>1, <2>2, <2>3, <1>7, <1>8 DEF Typed, Entry, Stale
<1>13. n \in Nat /\ n <= LineSize /\ o \in Nat /\ o < LineSize /\ LineSize \in Nat
  BY DEF CacheAssumption, Offset
<1>14. \A i \in 0 .. n - 1 :
         IF o + i < LineSize THEN o + i \in Offset
         ELSE o + i - LineSize \in Offset /\ Crosses(o, n)
  BY <1>13 DEF Offset, Crosses
<1>15. bytes \in [0 .. n - 1 -> Byte]
  BY <1>5, <1>11, <1>12, <1>14
<1>16. \A i \in 0 .. n - 1 :
         IF o + i < LineSize
           THEN l \notin Stale => bytes[i] = mem[l][o + i]
           ELSE l + 1 \notin Stale => bytes[i] = mem[l + 1][o + i - LineSize]
  BY <1>5, <1>11, <1>12, <1>14
<1>17. Memory!CanAccess(l, o, n)
  BY <1>3 DEF CanAccess, Memory!CanAccess, Crosses, Memory!Crosses, Line, Memory!Line
<1>18. \E d \in [0 .. n - 1 -> Byte] :
         /\ out' = [line |-> l, off |-> o, bytes |-> d]
         /\ \A i \in 0 .. n - 1 :
              IF o + i < LineSize
                THEN l \notin Stale => d[i] = mem[l][o + i]
                ELSE l + 1 \notin Stale => d[i] = mem[l + 1][o + i - LineSize]
  <2> HIDE DEF bytes
  <2> QED BY <1>4, <1>15, <1>16
<1> QED BY <1>3, <1>9, <1>10, <1>17, <1>18 DEF Memory!Read

LEMMA WriteStep ==
  ASSUME CacheAssumption, Inv, NEW l \in Line, NEW o \in Offset,
         NEW n \in Lengths, NEW d \in [0 .. n - 1 -> Byte], Write(l, o, n, d)
  PROVE  /\ Inv'
         /\ Memory!Write(l, o, n, d)
         /\ Stale' \subseteq Stale \cup IF Crosses(o, n) THEN {l + 1} ELSE {}
<1>1. /\ mem \in [Line -> [Offset -> Byte]] /\ Typed(cache) /\ Unique(cache)
      /\ CanAccess(l, o, n)
      /\ mem' = AfterStore(l, o, d) /\ out' = Nothing
  BY DEF Inv, TypeOK, OneCopy, Typed, Unique, Write
<1>2. n \in Nat /\ o \in Int /\ o - LineSize \in Int /\ l \in Int
  BY DEF CacheAssumption, Offset, Line
<1>3. /\ mem'[l] = Store(mem[l], o, d)
      /\ l + 1 \in Line => mem'[l + 1] = Store(mem[l + 1], o - LineSize, d)
      /\ \A k \in Line \ {l, l + 1} : mem'[k] = mem[k]
      /\ mem' \in [Line -> [Offset -> Byte]]
  <2>1. \A line \in [Offset -> Byte], p \in Int : Store(line, p, d) \in [Offset -> Byte]
    BY DEF Store
  <2>2. \A k \in Line : mem'[k] =
          IF k = l THEN Store(mem[k], o, d)
          ELSE IF k = l + 1 THEN Store(mem[k], o - LineSize, d) ELSE mem[k]
    BY <1>1, <1>2 DEF AfterStore
  <2>3. mem' = [k \in Line |-> mem'[k]]
    BY <1>1 DEF AfterStore
  <2>4. \A k \in Line : mem'[k] \in [Offset -> Byte]
    BY <1>1, <1>2, <2>1, <2>2
  <2> QED BY <1>2, <2>2, <2>3, <2>4
<1>4. ~Crosses(o, n) => \A k \in Line \ {l} : mem'[k] = mem[k]
  <2> SUFFICES ASSUME ~Crosses(o, n), l + 1 \in Line PROVE mem'[l + 1] = mem[l + 1]
    BY <1>3
  <2>1. mem[l + 1] \in [Offset -> Byte]
    BY <1>1
  <2>2. Store(mem[l + 1], o - LineSize, d) = mem[l + 1]
    BY <1>2, <2>1, NoSpill
  <2> QED BY <1>3, <2>2
<1>5. /\ Typed(cache') /\ Unique(cache')
      /\ \A k \in Line : Where(cache', k) = Where(cache, k)
      /\ \A k \in Line, i \in Slot :
           i \in Where(cache, k) /\ ~(Crosses(o, n) /\ k = l + 1)
             => cache'[i].data = IF k = l THEN Store(cache[i].data, o, d)
                                          ELSE cache[i].data
  <2>1. CASE Where(cache, l) = {}
    BY <2>1, <1>1 DEF Write
  <2>2. CASE Where(cache, l) # {}
    <3> DEFINE c == StoreHit(cache, l, o, d)
    <3>1. /\ Typed(c) /\ Unique(c)
          /\ \A k \in Line : Where(c, k) = Where(cache, k)
          /\ \A k \in Line : \A i \in Where(cache, k) :
               c[i].data = IF k = l THEN Store(cache[i].data, o, d) ELSE cache[i].data
      BY <2>2, <1>1, <1>2, StoredSlots
    <3>2. CASE Crosses(o, n) /\ Where(c, l + 1) # {}
      <4>1. cache' = StoreHit(c, l + 1, o - LineSize, d) /\ l + 1 \in Line
        BY <2>2, <3>2, <1>1 DEF Write, CanAccess
      <4> HIDE DEF c
      <4>0. PICK p \in Int : p = o - LineSize
        BY <1>2
      <4>2. /\ Typed(cache') /\ Unique(cache')
            /\ \A k \in Line : Where(cache', k) = Where(c, k)
            /\ \A k \in Line : \A i \in Where(c, k) :
                 cache'[i].data = IF k = l + 1 THEN Store(c[i].data, p, d) ELSE c[i].data
        BY <4>0, <4>1, <3>1, <3>2, <1>2, StoredSlots
      <4> QED BY <4>2, <3>1, <3>2
    <3>3. CASE ~(Crosses(o, n) /\ Where(c, l + 1) # {})
      <4>1. cache' = c
        BY <2>2, <3>3 DEF Write
      <4> QED BY <4>1, <3>1
    <3> QED BY <3>2, <3>3
  <2> QED BY <2>1, <2>2
<1>6. Inv'
  <2>1. TypeOK'
    BY <1>1, <1>3, <1>5 DEF TypeOK, Typed
  <2>2. OneCopy'
    BY <1>5 DEF OneCopy, Unique, Where
  <2> QED BY <2>1, <2>2 DEF Inv
<1>7. Stale' \subseteq Stale \cup IF Crosses(o, n) THEN {l + 1} ELSE {}
  <2> SUFFICES ASSUME NEW k \in Stale', ~(Crosses(o, n) /\ k = l + 1)
               PROVE  k \in Stale
    OBVIOUS
  <2>1. PICK i \in Where(cache', k) : cache'[i].data # mem'[k]
    BY DEF Stale, Where
  <2>2. k \in Line /\ i \in Where(cache, k) /\ i \in Slot
    BY <2>1, <1>5 DEF Stale, Where, SlotsOf
  <2>3. CASE k = l
    BY <2>1, <2>2, <2>3, <1>2, <1>3, <1>5 DEF Stale
  <2>4. CASE k # l
    <3>1. cache'[i].data = cache[i].data /\ mem'[k] = mem[k]
      BY <2>2, <2>4, <1>3, <1>4, <1>5
    <3> QED BY <2>1, <2>2, <3>1 DEF Stale
  <2> QED BY <2>3, <2>4
<1>8. mem' = Memory!AfterStore(l, o, d)
  BY <1>1 DEF AfterStore, Memory!AfterStore, Store, Memory!Store, Line, Memory!Line, Offset, Memory!Offset
<1>9. Memory!CanAccess(l, o, n)
  BY <1>1 DEF CanAccess, Memory!CanAccess, Crosses, Memory!Crosses, Line, Memory!Line
<1> QED BY <1>1, <1>6, <1>7, <1>8, <1>9 DEF Memory!Write, Crosses, Memory!Crosses

\* One step of the cache keeps the invariant, and is one step of the memory.
LEMMA NextInv ==
  ASSUME CacheAssumption, Inv, [Next]_vars
  PROVE  /\ Inv'
         /\ [Memory!Next]_<<mem, Stale, out>>
         /\ ~Crossing /\ Stale = {} => Stale' = {}
<1>1. CASE UNCHANGED vars
  BY <1>1 DEF vars, Inv, TypeOK, OneCopy, Where, Stale
<1>2. ASSUME NEW l \in Line, NEW o \in Offset, NEW n \in Lengths, Read(l, o, n)
      PROVE  Inv' /\ Memory!Next /\ Stale' \subseteq Stale
  <2>1. Inv' /\ Memory!Read(l, o, n)
    BY <1>2, ReadStep
  <2> QED BY <2>1 DEF Memory!Next, Memory!Read, Line, Memory!Line, Offset, Memory!Offset
<1>3. ASSUME NEW l \in Line, NEW o \in Offset, NEW n \in Lengths,
             NEW d \in [0 .. n - 1 -> Byte], Write(l, o, n, d)
      PROVE  Inv' /\ Memory!Next /\ (~Crossing => Stale' \subseteq Stale)
  <2>1. Inv' /\ Memory!Write(l, o, n, d)
        /\ Stale' \subseteq Stale \cup IF Crosses(o, n) THEN {l + 1} ELSE {}
    BY <1>3, WriteStep
  <2>2. ~Crossing => ~Crosses(o, n)
    BY <1>3 DEF Write, CanAccess
  <2> QED BY <2>1, <2>2 DEF Memory!Next, Line, Memory!Line, Offset, Memory!Offset
<1> QED BY <1>1, <1>2, <1>3 DEF Next

\* The cache has the C declarations' shape and holds a line at most once,
\* however accesses, misses and random evictions follow each other.
THEOREM CacheInvariant ==
  ASSUME CacheAssumption, Byte # {} PROVE Spec => [](TypeOK /\ OneCopy)
<1>1. Init => Inv
  BY InitInv
<1>2. Inv /\ [Next]_vars => Inv'
  BY NextInv
<1> QED BY <1>1, <1>2, PTL DEF Spec, Inv

\* What reads and stores keep of the shape of memory, cache and answer.
THEOREM CacheTypes ==
  ASSUME CacheAssumption, Byte # {} PROVE Spec => []TypeOK
  BY CacheInvariant, PTL

\* cache_read and cache_write implement a memory whose reads return what was
\* stored last, but in lines that got the second half of a crossing store.
THEOREM CacheImplementsMemory ==
  ASSUME CacheAssumption, Byte # {} PROVE Spec => MemorySpec
<1>1. Init => Inv /\ Memory!Init
  BY InitInv DEF Init, Memory!Init, Line, Memory!Line, Offset, Memory!Offset
<1>2. Inv /\ [Next]_vars => Inv' /\ [Memory!Next]_(Memory!vars)
  BY NextInv DEF Memory!vars
<1> QED BY <1>1, <1>2, PTL DEF Spec, MemorySpec, Memory!Spec

\* A program that never stores across a line never sees an old byte.
THEOREM AlignedCoherent ==
  ASSUME CacheAssumption, Byte # {}, ~Crossing PROVE Spec => []Coherent
<1>1. Init => Inv /\ Coherent
  BY InitInv DEF Coherent
<1>2. (Inv /\ Coherent) /\ [Next]_vars => (Inv /\ Coherent)'
  BY NextInv DEF Coherent
<1> QED BY <1>1, <1>2, PTL DEF Spec
=============================================================================
