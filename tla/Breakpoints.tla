---------------------------- MODULE Breakpoints -----------------------------
(***************************************************************************)
(* The breakpoints and watchpoints of NEMU's monitor (monitor/breakpoint.c *)
(* and the loop of cpu/cpu.c): a pool of NR_BP nodes on two linked lists,  *)
(* INT3 written over the program's bytes, and the loop that runs the       *)
(* program, stops at INT3 and re-arms the breakpoints when it goes on.     *)
(* The program's instructions are one byte long and may jump anywhere; the *)
(* program does not write over itself and takes no interrupt.  All         *)
(* watchpoints watch one value.                                            *)
(***************************************************************************)
EXTENDS Integers, Sequences, FiniteSets

CONSTANTS NR_BP,     \* nodes of the pool
          NAddr,     \* addresses of the program
          MaxSteps,  \* the largest argument of "si"
          NULL

ASSUME BreakpointAssumption ==
  /\ NR_BP \in Nat \ {0} /\ NAddr \in Nat \ {0} /\ MaxSteps \in Nat \ {0}
  /\ NULL \notin 0 .. NR_BP - 1

VARIABLES
  node,     \* bp_list[NR_BP]
  next,     \* the nodes' next pointers
  head,     \* the breakpoints and watchpoints that are set
  free,     \* free_, the nodes that are not
  text,     \* the program's bytes: its own instruction or INT3
  eip,
  val,      \* the value watched
  state,    \* nemu_state; "aborted" after a failed assertion
  run,      \* exec(): n, or -1 for "c", and hit_break_rerun; n = 0 when it has returned
  spoiled,  \* history: the ways in which an INT3 was taken for an original byte
            \* ("set", "resume") or left behind ("delete")
  forgot    \* history: a hit has been restored but will not be re-armed

vars == <<node, next, head, free, text, eip, val, state, run, spoiled, forgot>>

Node == 0 .. NR_BP - 1
Addr == 0 .. NAddr - 1
Val == {0, 1}
Code == {"own", "int3"}

\* The nodes from p on, cut off after one more than there are.
Chain(p) ==
  LET first[k \in 0 .. NR_BP] ==
        IF k = 0 THEN IF p = NULL THEN <<>> ELSE <<p>>
        ELSE LET s == first[k - 1] IN
             IF s = <<>> \/ next[s[Len(s)]] = NULL THEN s
             ELSE Append(s, next[s[Len(s)]])
  IN  first[NR_BP]

Listed == Chain(head)
Members(s) == {s[k] : k \in 1 .. Len(s)}

Breaks == {p \in Members(Listed) : node[p].type = "break"}

\* The first position of the list at which P holds, 0 if there is none.
FirstAt(P(_)) ==
  LET at == {k \in 1 .. Len(Listed) : P(Listed[k])}
  IN  IF at = {} THEN 0 ELSE CHOOSE k \in at : \A j \in at : k <= j

\* The fields of a node that is not in use are never read.
Blank == [used |-> FALSE, type |-> "break", addr |-> 0, ori |-> "own", old |-> 0]

\* The history after something that spoils a byte in way w if P.
Spoil(w, P) == spoiled' = spoiled \cup IF P THEN {w} ELSE {}

Init ==
  /\ node = [p \in Node |-> Blank]
  /\ next = [p \in Node |-> IF p = NR_BP - 1 THEN NULL ELSE p + 1]
  /\ head = NULL
  /\ free = 0
  /\ text = [a \in Addr |-> "own"]
  /\ eip = 0
  /\ val = 0
  /\ state = "ready"
  /\ run = [left |-> 0, rerun |-> FALSE]
  /\ spoiled = {}
  /\ forgot = FALSE

AtPrompt == run.left = 0 /\ state # "aborted"

-----------------------------------------------------------------------------
\* new_BP and the link into the list of the node it took.
NewBP(fields) ==
  /\ node' = [node EXCEPT ![free] = fields]
  /\ free' = next[free]
  /\ next' = [next EXCEPT ![free] = head]
  /\ head' = free

\* assert(free_ != NULL) fails when every node is in use.
PoolEmpty ==
  /\ free = NULL
  /\ state' = "aborted"
  /\ UNCHANGED <<node, next, head, free, text, spoiled>>

\* cmd_b.
SetBreakpoint(a) ==
  /\ AtPrompt
  /\ \/ PoolEmpty
     \/ /\ free # NULL
        /\ NewBP([used |-> TRUE, type |-> "break", addr |-> a,
                  ori |-> text[a], old |-> 0])
        /\ text' = [text EXCEPT ![a] = "int3"]
        /\ Spoil("set", text[a] = "int3")
        /\ UNCHANGED state
  /\ UNCHANGED <<eip, val, run, forgot>>

\* cmd_w.
SetWatchpoint ==
  /\ AtPrompt
  /\ \/ PoolEmpty
     \/ /\ free # NULL
        /\ NewBP([used |-> TRUE, type |-> "watch", addr |-> 0,
                  ori |-> "own", old |-> val])
        /\ UNCHANGED <<text, state, spoiled>>
  /\ UNCHANGED <<eip, val, run, forgot>>

\* Whether the byte of a breakpoint in S is still INT3.
LeavesInt3(S) == \E p \in S \cap Breaks : text[node[p].addr] = "int3"

\* Mutant: every node is unlinked as though it were the head.
DeleteUnlinkedHead(NO) ==
  /\ AtPrompt
  /\ NO \in Members(Listed)
  /\ head' = next[NO]
  /\ next' = [next EXCEPT ![NO] = free]
  /\ node' = [node EXCEPT ![NO] = Blank]
  /\ free' = NO
  /\ Spoil("delete", LeavesInt3({NO}))
  /\ UNCHANGED <<text, eip, val, state, run, forgot>>

\* cmd_d with a number: the node is unlinked and freed, the byte stays.
DeleteBreakpoint(NO) ==
  /\ AtPrompt
  /\ NO \in Members(Listed)
  /\ IF head = NO
       THEN /\ head' = next[NO]
            /\ next' = [next EXCEPT ![NO] = free]
       ELSE LET prev == CHOOSE p \in Members(Listed) : next[p] = NO
            IN  /\ next' = [next EXCEPT ![prev] = next[NO], ![NO] = free]
                /\ UNCHANGED head
  /\ node' = [node EXCEPT ![NO] = Blank]
  /\ free' = NO
  /\ Spoil("delete", LeavesInt3({NO}))
  /\ UNCHANGED <<text, eip, val, state, run, forgot>>

\* cmd_d without: freed from the list's end on, so that the head is freed last.
DeleteAll ==
  /\ AtPrompt
  /\ head # NULL
  /\ node' = [p \in Node |-> IF p \in Members(Listed) THEN Blank ELSE node[p]]
  /\ next' = [next EXCEPT ![Listed[Len(Listed)]] = free]
  /\ free' = head
  /\ head' = NULL
  /\ Spoil("delete", LeavesInt3(Members(Listed)))
  /\ UNCHANGED <<text, eip, val, state, run, forgot>>

\* Mutant: the state of the last command is not looked at.
ExecWithoutRerun(n) ==
  /\ AtPrompt
  /\ run' = [left |-> n, rerun |-> FALSE]
  /\ state' = "run"
  /\ UNCHANGED <<node, next, head, free, text, eip, val, spoiled, forgot>>

\* cmd_c and cmd_si.
Exec(n) ==
  /\ AtPrompt
  /\ run' = [left |-> n, rerun |-> state = "break"]
  /\ state' = "run"
  /\ UNCHANGED <<node, next, head, free, text, eip, val, spoiled, forgot>>

-----------------------------------------------------------------------------
\* resume_breakpoints: in list order, each breakpoint saves the byte it finds.
Resaved ==
  [p \in Node |->
     IF p \notin Breaks THEN node[p]
     ELSE LET at == FirstAt(LAMBDA q : q \in Breaks /\ node[q].addr = node[p].addr)
          IN  [node[p] EXCEPT !.ori =
                 IF Listed[at] = p THEN text[node[p].addr] ELSE "int3"]]

Rearmed ==
  [a \in Addr |-> IF \E p \in Breaks : node[p].addr = a THEN "int3" ELSE text[a]]

\* The list after the re-run of the instruction that had been hit.
Saved == IF run.rerun THEN Resaved ELSE node
Armed == IF run.rerun THEN Rearmed ELSE text

\* Mutant: cpu.eip stays behind the INT3.
TargetsNoStepBack(hit, bp) == IF hit THEN {(eip + 1) % NAddr} ELSE Addr

\* Where the program can be after one instruction: at the INT3 again if it is
\* a breakpoint's (cpu.eip--), behind it if it is not in the list.
Targets(hit, bp) ==
  IF ~hit THEN Addr ELSE IF bp # 0 THEN {eip} ELSE {(eip + 1) % NAddr}

\* One turn of the loop in exec.
Instr ==
  /\ run.left # 0
  /\ LET hit == text[eip] = "int3"
         bp == FirstAt(LAMBDA q : q \in Breaks /\ node[q].addr = eip)
         left == IF run.left = -1 THEN -1 ELSE run.left - 1
     IN \E e \in Targets(hit, bp), v \in IF hit THEN {val} ELSE Val :
          LET wp == FirstAt(LAMBDA q : node[q].type = "watch" /\ node[q].old # v)
              ends == hit \/ wp # 0 \/ left = 0
              broken == hit /\ wp = 0 /\ left # 0
          IN /\ eip' = e
             /\ val' = v
             /\ text' = IF hit /\ bp # 0
                          THEN [Armed EXCEPT ![eip] = Saved[Listed[bp]].ori]
                          ELSE Armed
             /\ node' = IF wp # 0 THEN [Saved EXCEPT ![Listed[wp]].old = v]
                                  ELSE Saved
             /\ state' = IF broken THEN "break"
                         ELSE IF ends THEN "ready" ELSE "run"
             /\ run' = [left |-> IF ends THEN 0 ELSE left, rerun |-> FALSE]
             /\ Spoil("resume", run.rerun /\ \E p \in Breaks : Resaved[p].ori = "int3")
             /\ forgot' = ((forgot /\ ~run.rerun) \/ (hit /\ bp # 0 /\ ~broken))
  /\ UNCHANGED <<next, head, free>>

Next ==
  \/ \E a \in Addr : SetBreakpoint(a)
  \/ SetWatchpoint
  \/ \E NO \in Node : DeleteBreakpoint(NO)
  \/ DeleteAll
  \/ \E n \in {-1} \cup 1 .. MaxSteps : Exec(n)
  \/ Instr

Spec == Init /\ [][Next]_vars

-----------------------------------------------------------------------------
\* The two lists hold every node once: those in use on the one, the others on
\* the other, whatever was set, deleted one by one or deleted together.
ListsPartition ==
  LET used == Chain(head)
      unused == Chain(free)
  IN  /\ Len(used) + Len(unused) = NR_BP
      /\ Members(used) = {p \in Node : node[p].used}
      /\ Members(unused) = {p \in Node : ~node[p].used}

\* The program is not disturbed: it never goes on from an INT3 as though that
\* were its instruction, as long as no INT3 has been taken for an original
\* byte or left behind by a delete.
Transparent == [][spoiled = {} /\ eip' # eip => text[eip] = "own"]_vars

\* The program passes a breakpoint that is set only right after it stopped
\* there, or when the stop was forgotten: its "break" state was replaced by
\* "ready" because the steps of "si" were used up or a watchpoint fired.
NoMissedHit ==
  [][(eip' # eip /\ \E p \in Breaks : node[p].addr = eip) => run.rerun \/ forgot \/ spoiled # {}]_vars

\* When the program stops at a breakpoint its own instruction is put back
\* (cpu.c:69 "found, then restore the original opcode"), if the user has never
\* deleted an armed breakpoint nor set two at an address.
RestoresOriginal ==
  [][ /\ state' = "break" /\ state # "break"
      /\ \E p \in Breaks : node[p].addr = eip'
      /\ spoiled' \subseteq {"resume"}
      /\ \A p, q \in Breaks : node[p].addr = node[q].addr => p = q
      => text'[eip'] = "own" ]_vars
=============================================================================
