------------------------------ MODULE CpuCache ------------------------------
(***************************************************************************)
(* The processor cache of NEMU (nemu/src/memory/cache.c): write-through,   *)
(* set-associative, a line loaded only by a read, a random victim when the *)
(* group is full.  A slot holds the number of its line where the code      *)
(* holds the tag, which together with the slot's group is that number.     *)
(***************************************************************************)
EXTENDS Integers

CONSTANTS NLines,    \* lines of physical memory
          Groups,    \* groups of slots, 128 in the code
          Ways,      \* slots of a group, 8 in the code
          LineSize,  \* bytes in a line, 64 in the code
          Byte,      \* the values of a byte
          Lengths,   \* the lengths of an access
          Crossing,  \* whether accesses may cross the end of a line
          Nothing    \* no read has just been answered

ASSUME CacheAssumption ==
  /\ NLines \in Nat
  /\ Groups \in Nat \ {0}
  /\ Ways \in Nat \ {0}
  /\ LineSize \in Nat \ {0}
  /\ Lengths \subseteq 1 .. LineSize
  /\ Crossing \in BOOLEAN

VARIABLES mem,    \* hw_mem, line by line
          cache,  \* Cache[line_num]
          out     \* what the last access returned, if it was a read

vars == <<mem, cache, out>>

Line == 0 .. NLines - 1
Offset == 0 .. LineSize - 1
Slot == 0 .. Groups * Ways - 1

Entry == [valid : BOOLEAN, line : Nat, data : [Offset -> Byte]]

\* The slots of the group of line l: start_line to start_line + 7.
SlotsOf(l) == {i \in Slot : i \div Ways = l % Groups}

\* The slots of cache c that hold line l.
Where(c, l) == {i \in SlotsOf(l) : c[i].valid /\ c[i].line = l}

Lowest(S) == {i \in S : \A j \in S : i <= j}
First(S) == CHOOSE i \in S : \A j \in S : i <= j

\* The slot a missing line l goes to: the first empty one, else a random one.
Victims(c, l) ==
  LET empty == {i \in SlotsOf(l) : ~c[i].valid}
  IN  IF empty # {} THEN Lowest(empty) ELSE SlotsOf(l)

\* Mutant: a slot is filled before the whole group has been searched.
LoadedUnsearched(c, l) ==
  {[c EXCEPT ![i] = [valid |-> TRUE, line |-> l, data |-> mem[l]]] : i \in Victims(c, l)}

\* The caches in which cache_read(l) may find line l.
Loaded(c, l) ==
  IF Where(c, l) # {} THEN {c}
  ELSE {[c EXCEPT ![i] = [valid |-> TRUE, line |-> l, data |-> mem[l]]] :
          i \in Victims(c, l)}

LineIn(c, l) == c[First(Where(c, l))].data

Crosses(o, n) == o + n > LineSize

CanAccess(l, o, n) ==
  Crosses(o, n) => Crossing /\ l + 1 \in Line

\* A line's contents after the bytes d have been stored at offset o of it;
\* o is negative when d begins in the line before.
Store(line, o, d) ==
  [x \in Offset |-> IF x - o \in DOMAIN d THEN d[x - o] ELSE line[x]]

AfterStore(l, o, d) ==
  [k \in Line |-> CASE k = l     -> Store(mem[k], o, d)
                    [] k = l + 1 -> Store(mem[k], o - LineSize, d)
                    [] k \notin {l, l + 1} -> mem[k]]

\* Mutant: the bytes behind the line's end are stored too.
StoreUncut(c, l, o, d) ==
  [c EXCEPT ![First(Where(c, l))].data =
     [x \in Offset \cup {o + i : i \in DOMAIN d} |-> IF x - o \in DOMAIN d THEN d[x - o] ELSE @[x]]]

\* Cache c after the hit on line l has been stored into.
StoreHit(c, l, o, d) ==
  [c EXCEPT ![First(Where(c, l))].data = Store(@, o, d)]

\* Mutant: a store that crosses a line leaves the cache alone.
StoreMemoryOnly(l, o, n, d) ==
  /\ CanAccess(l, o, n)
  /\ mem' = AfterStore(l, o, d)
  /\ cache' = IF Where(cache, l) = {} \/ Crosses(o, n) THEN cache
              ELSE StoreHit(cache, l, o, d)
  /\ out' = Nothing

Init ==
  /\ mem \in [Line -> [Offset -> Byte]]
  /\ cache \in [Slot -> [valid : {FALSE}, line : {0}, data : {[x \in Offset |-> CHOOSE b \in Byte : TRUE]}]]
  /\ out = Nothing

\* cache_read: each line the access touches is loaded, then read.
Read(l, o, n) ==
  /\ CanAccess(l, o, n)
  /\ \E c1 \in Loaded(cache, l) :
       \E c2 \in IF Crosses(o, n) THEN Loaded(c1, l + 1) ELSE {c1} :
         /\ cache' = c2
         /\ out' = [line |-> l, off |-> o,
                    bytes |-> [i \in 0 .. n - 1 |->
                       IF o + i < LineSize THEN LineIn(c1, l)[o + i]
                       ELSE LineIn(c2, l + 1)[o + i - LineSize]]]
  /\ UNCHANGED mem

\* cache_write: memory always; the cache where the line is held, but the
\* second line is looked up only if the first one was held.
Write(l, o, n, d) ==
  /\ CanAccess(l, o, n)
  /\ mem' = AfterStore(l, o, d)
  /\ cache' =
       IF Where(cache, l) = {} THEN cache
       ELSE LET c == StoreHit(cache, l, o, d)
            IN  IF Crosses(o, n) /\ Where(c, l + 1) # {}
                  THEN StoreHit(c, l + 1, o - LineSize, d) ELSE c
  /\ out' = Nothing

Next == \E l \in Line, o \in Offset, n \in Lengths :
          \/ Read(l, o, n)
          \/ \E d \in [0 .. n - 1 -> Byte] : Write(l, o, n, d)

Spec == Init /\ [][Next]_vars

-----------------------------------------------------------------------------
\* The state has the shape of the C declarations.
TypeOK ==
  /\ mem \in [Line -> [Offset -> Byte]]
  /\ cache \in [Slot -> Entry]
  /\ out = Nothing \/ DOMAIN out = {"line", "off", "bytes"}

\* No line is held by two slots: a store updates one copy, the first found,
\* and after an eviction a read would find the other (cache_read fills a slot
\* only when the whole group has been searched).
OneCopy == \A l \in Line : \A i, j \in Where(cache, l) : i = j

\* The lines whose cached bytes differ from memory.
Stale == {l \in Line : \E i \in Where(cache, l) : cache[i].data # mem[l]}

\* The cache never differs from memory: so it is when no access crosses a line.
Coherent == Stale = {}

Memory == INSTANCE MainMemory WITH suspect <- Stale

\* The cache implements the memory: a read returns what was stored last, in
\* every line into which no line-crossing store has put its second half.
MemorySpec == Memory!Spec
=============================================================================
