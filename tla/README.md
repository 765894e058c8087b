# TLA+ models of the lab4 kernel, the lab3 threads and NEMU

This directory holds TLA+ models of three programs of the repository:

- the operating-system kernel in `src/操作系统/lab4-161130118尹浚宇/lab/` (below:
  `lab4/`) and the program that runs on it;
- the user-level threads in `src/操作系统/lab3-161130118尹浚宇/lab/` (`lab3/`);
- the emulator NEMU in `src/ICS/pa2018_fall/nemu/` (`nemu/`), with the kernel that
  runs on it (`src/ICS/pa2018_fall/kernel/`, `kernel/`) and one of its programs
  (`src/ICS/pa2018_fall/game/`, `game/`): disk, sound, cache and debugger.

They are model-checked with TLC and, for the central safety properties, proved
with TLAPS.  The repository is the coursework of a whole degree; section 1 says
what else it holds.

## 1. Inventory

### The lab4 kernel (modelled)

A kernel for one i386 processor with eight process control blocks, four
semaphores and two devices.

| Part | State | Operations | Code |
|---|---|---|---|
| Scheduler and interrupt entry | `pcb[p].state`, `timeCount`, `sleepTime`, `stackTop`, `prevStackTop`, `current` | timer tick, preemption, switch to another kernel stack, return to user mode | `lab4/kernel/kernel/irqHandle.c` `irqHandle`, `timerHandle`; `doIrq.S`, `idt.c` |
| System calls | the same, and the free PCB a fork chose | `fork`, `sleep`, `exit`, `write`, `read`, `getpid`, `exec` | `irqHandle.c` `syscallHandle` and the functions it calls |
| Semaphores | `sem[s].state`, `value`, a circular list of waiting PCBs | `sem_init`, `sem_wait`, `sem_post`, `sem_destroy` | `irqHandle.c:382-480`, `kvm.c` `initSem` |
| Standard input | `dev[STD_IN].value` and list, a ring of key codes, the key table, capslock | keyboard interrupt, `read` | `irqHandle.c` `keyboardHandle`, `syscallReadStdIn`; `keyboard.c` |
| Text screen | video memory, `displayRow`, `displayCol`, cursor | `write` to the standard output | `irqHandle.c` `syscallWriteStdOut`; `vga.c` |
| Boot, disk, serial port, interrupt controller, timer chip | device registers | initialisation, port I/O | `bootloader/`, `disk.c`, `serial.c`, `i8259.c`, `timer.c` |
| Producer/consumer program | the loops' `k` and `i`, two semaphores | init, fork, wait, post, exit | `app/main.c` (TEST 2) |
| User library | - | system call stubs, `printf`, `scanf` | `lib/syscall.c` |

Interactions.  Interrupts and system calls enter through `irqHandle`, which
records the stack pointer of the interrupted frame in the PCB (keeping the
older one in `prevStackTop`).  A system call that blocks puts the PCB in a list,
marks it blocked and executes `int $0x20`: the timer handler runs, sees that
`current` does not run any more, and leaves on the stack of another process.
`sem_post` and the keyboard interrupt take a PCB out of a list.  `sleepTime` is
counted down by every run of the timer handler, real ticks and the `int $0x20`
of blocking calls alike.  `fork` alone runs with interrupts enabled, while it
copies the 1 MiB of the address space.

What is hard here: two saved stack pointers for frames nested three deep; the
free PCB a fork chooses before a copy that can be preempted; lists whose nodes
are inside PCBs that die, are forked over, and are reused; a counter (`value`)
and a list that must agree; the buffered keys, the waiting reader and the shift
state, all changed at different times; the starvation of a process by an order
of the search nobody tested.

What makes it correct: exactly one process runs, every other one is resumed
from its innermost frame; a semaphore is a FIFO counting semaphore; standard
input is a type-ahead queue; whoever is blocked has something that will wake
it; runnable processes run, sleeps and forks end; the screen shows the end of
what was written.

### NEMU and the PA kernel (modelled in four places)

NEMU emulates an i386 in one thread that executes instruction after instruction,
and its devices in others.

| Part | State | Operations | Code |
|---|---|---|---|
| Interrupt controller | `i8259_intr_no`, `cpu.intr`, a mutex | a device raises; the processor queries, acknowledges, handles | `nemu/src/device/i8259_pic.c`, `nemu/src/cpu/cpu.c` |
| IDE device | sector registers, mode, position, status | commands, words in and out | `nemu/src/device/dev/ide.c` |
| Sector cache and disk driver | 128 cached sectors with `used` and `dirty`, `has_ide_intr`, a tick counter | read and write a byte, fetch, periodic write-back, disk and timer interrupts | `kernel/src/driver/ide/` |
| Audio device | two chunks with length, ready mark and mutex; which is played, which filled; `switch_buf` | start, pause, fill, SDL's callback, the monitor thread | `nemu/src/device/dev/audio.c` |
| Credits program | `audio_reload` | wait for an interrupt, write the next piece | `game/src/credits/credits.c` |
| Processor cache | 1024 lines in groups of 8 | read, write, eviction | `nemu/src/memory/cache.c` |
| Monitor | 32 nodes on two lists, INT3 in the program's text, `nemu_state` | set, delete, `c`, `si`, hit, restore, re-arm | `nemu/src/monitor/breakpoint.c`, `nemu/src/cpu/cpu.c` |

What is hard here: an interrupt controller that remembers one interrupt and is
read without its mutex; a write-back that the timer starts at any instruction
of the driver; four threads that pass one request for music round in four
flags; a cache that updates one copy and must have no second; a debugger that writes
into the program it shows.

What makes it correct: no interrupt that somebody waits for is lost; sectors
stay whole, and stored words reach the disk; the chunk that is filled is never the
one that is played, and the music goes on; a read returns what was written; the
debugged program runs its own instructions.

### The other parts

| Part | State, operations and what is hard | Status |
|---|---|---|
| lab3 user-level threads (`lab3/lib/pthread.c`) | four thread control blocks; create, exit, join, yield without a kernel. A join switches to its target whatever the target's state; an exit searches for a runnable thread without end | modelled |
| lab1-lab3 kernels | earlier states of the lab4 kernel | not modelled: subsumed |
| PA kernel: file table, DMA, loader | functions over a fixed table; compiled-out code | not modelled |
| NEMU keyboard, screen, serial port | one scan code; copies of memory | not modelled |
| NEMU TLB, paging, segmentation | a TLB that must agree with page tables | candidate |
| NEMU processor, decoder, ALU, FPU | sequential 32-bit semantics, with a reference test of its own in the repository | not modelled |
| NEMU monitor: expressions, symbols | a recursive evaluator | not modelled |
| Network labs (router, VPN, ping, capture) | static tables, packets read and written through raw sockets | router: candidate |
| Digital logic labs (Verilog) | PS/2 receiver with a FIFO, display | candidate |
| Compiler labs, algorithms, automata, course programs, multimedia, MapReduce jobs | sequential, no state shared between activities, or unbounded data | not modelled |
| newlib, the SDLPAL game | vendored | not modelled |

## 2. The modules

| Module | What it is |
|---|---|
| `ListHead` | the kernel's intrusive circular list, as updates of the pointer fields `next` and `prev`, and what it means that a list holds certain members |
| `Keyboard` | the ring of key codes, the key table and the read loop |
| `Kernel` | the kernel: one action per interrupt, system call and resumed system call |
| `FifoSemaphores` | abstract: semaphores with permits and a queue of processes |
| `TypeAhead` | abstract: a queue of typed codes and its readers |
| `Terminal` | the text screen, with an endless roll of paper as its history |
| `ProducerConsumer` | the producers and consumers of `lab4/app/main.c`, on `FifoSemaphores` |
| `Threads` | abstract: cooperative threads with join |
| `Pthread` | the user-level threads of `lab3/lib/pthread.c` |
| `Pic` | NEMU's interrupt controller and the processor's loop around it |
| `SectorCache` | the PA kernel's sector cache and disk driver, on NEMU's IDE device and on `Pic` |
| `Audio` | NEMU's audio device and the credits program, on `Pic` |
| `MainMemory` | abstract: a memory some of whose lines may be out of date |
| `CpuCache` | NEMU's processor cache |
| `Breakpoints` | the monitor's breakpoints and the loop of `exec` |
| `MCKernel` | the module the `MCKernel*.cfg` instances check |
| `KernelProofs` | the proofs about `ListHead`, `Keyboard`, `Kernel` and its two refinements |
| `ProducerConsumerProofs`, `PthreadProofs`, `TerminalProofs`, `AudioProofs`, `CpuCacheProofs`, `SectorCacheProofs`, `BreakpointsProofs` | the proofs about the module each is named for |

`Kernel` extends `Keyboard` and `ListHead`, and instantiates the two abstract
specifications with the refinement mappings `Fifo` and `Ahead`.
`ProducerConsumer` composes the same `FifoSemaphores` with the program: what the
kernel is shown to implement is what the program is shown to need.  `Pthread`
stands alone, and instantiates `Threads` with the mapping `Promise`.
`SectorCache` and `Audio` both extend `Pic`: `Pic` has the controller's state and
the steps of `i8259_raise_intr`, of the query and of the acknowledgement, and
leaves the instructions (`cpu = "exec"`) and the handlers (`cpu = "handle"`) to
the module that extends it.  `CpuCache` instantiates `MainMemory` with the
mapping `Memory`.

### How Kernel corresponds to the code

- **A step** is what the processor does between two points where it can be
  interrupted or leaves for another stack.  All gates are interrupt gates, so a
  handler runs with interrupts disabled and is one step; the exceptions are the
  two places where a call gives the processor away (`int $0x20`) or enables
  interrupts (the copy loop of `fork`).  A blocking call is therefore two
  actions: `Sleep`, `Exit`, `SemWait`, `ReadStdIn` up to and with the switch
  that `int $0x20` makes, and `SleepReturn`, `SemWaitReturn`, `ReadReturn` once
  the process has the processor again.  `ForkBegin` and `ForkEnd` are on the two
  sides of the copy; timer and keyboard interrupts come between.
- **Stacks.** `stackTop[p]` and `prevStackTop[p]` count frames: 0 is the empty
  kernel stack, 1 the frame of an entry from user mode, 2 a frame on top of it.
  `saved[p]` is the local `tmpStackTop` of the `irqHandle` that a suspended
  system call is inside.  `run[p]` and `local[p]` stand for the code and the local
  variable that the frame would continue with (`i` in `syscallFork`, `sem_index`
  in `syscallSemWait`).
- **Lists.** A node is a number: PCBs first, then the heads of the semaphores,
  the head of the stdin device, and `NULL`, which the flat segments of the
  kernel let it use as an address like any other.  `next` and `prev` are
  updated in the order of the code, so a wrong order or a stale pointer shows.
- **V on an empty list** would treat the list head as part of a PCB.  The model
  sets `wild` and stops there; that this never happens is `NoWildWakeup`.
- **Programs.** A user process may make any call at any time, bounded by the
  constants: who forks, who reads, how long sleeps are, the initial values of
  semaphores.  Calls on a semaphore slot that is not in use are left out.

`Keyboard` sorts scan codes by what `getChar` does with them: an ordinary key
that yields a character, shift pressed or released (the two do the same),
capslock down, capslock up.  `Terminal` has one action, a whole `write`, the
loop's body carried over the string (`Loop`, a recursive function of the
position); the serial copy is left out.

### How ProducerConsumer and Pthread correspond to the code

In `ProducerConsumer` a step is one system call and the code up to the next
one.  `pc[p]` names the call a process is about to make; in `locked` and `got` it
has made its `sem_wait` and may still be asleep in it.  The father's
`uEntry` is `InitMutex`, `InitFull` and `Fork`; `fork` gives a child the first
dead pid, as `syscallFork` does, and the pid decides between producer and
consumer.  `sleep(3)` is a step that ends at any time.  `made` and `taken` are
histories.  The numbers of workers and rounds are constants (2 and 4 workers,
8 and 4 rounds in the code), assumed only to produce at least what is consumed.

In `Pthread` the threads are cooperative and nothing interrupts them, so a step is a
whole call of the library.  Registers are left out with one exception:
`switch_to` loads the stack pointer of its target and then pushes the
target's registers.  When the target is the caller itself, as
`pthread_yield` has it when nobody else is runnable, the pushes land on the
argument `i` and the code goes on with whatever `tcb[i]` then is.  The model sets
`crashed` and stops.  `JoinAny` and `YieldAlone` say how careful the programs
are: whether they join themselves or threads that are blocked, and whether they yield when
alone.

### How the modules of NEMU correspond to the code

**Pic.** `i8259_raise_intr` by a device's thread is three steps: it takes the
mutex, sets the number, sets `cpu.intr`.  The processor looks at `cpu.intr` and
the number without the mutex (`Query`), and takes it to clear both (`Ack`).  An
interrupt raised inside an `out` instruction (`RaiseInOut`) is one step, as the
processor comes to its check only after it.  Instructions that neither touch the
modelled state nor wait are left out.  The handlers of both programs are
short and run with interrupts off: `Handle` is one step.

**SectorCache.** `op.pc` names where a call of `read_byte` or `write_byte` is.
A step is one instruction that touches the cache, the device or
`has_ide_intr`, and after each the processor may take an interrupt.  Preparing a
sector (five `out` instructions to registers that only the next command reads)
is one step.  A word of content is known by the sector it came from and by whether
the client has stored into it.  The timer's write-back is one step, with the
effect of its loop; where `waitdisk` would spin in it for ever, the step is
disabled (`Hung`).  `clash` marks that a write-back has fallen into another
transfer of words: from there on nothing is promised, and the model follows
the call to its end and no further.  The interrupt flag is taken to be set whenever
the driver runs.

**Audio.** `pc` is the place in `main_loop`, `monitor` and `callback` those of
the two threads.  The callback's polling for the next chunk is one state
(`seek`): it holds the played chunk's mutex and tries the other's.  `lost` records
at which of three places a request has been cleared by code that did not see it:
the acknowledgement in the controller, the program's `audio_reload = 0`,
the monitor's `switch_buf = false`.  The length of a chunk is counted in
callbacks.

**CpuCache.** An action is a whole `cache_read` or `cache_write` of some bytes at an
offset in a line, with the recursion for the next line; the tag and the
group together are the number of the line.  The victim of a full group is any slot,
as `rand` has it.

**Breakpoints.** The commands at the prompt are one action each, and a turn of
the loop in `exec` is one.  A byte of the program is its own instruction or INT3.
Lists are followed through their `next` pointers, so that a wrong link shows.
`spoiled` and `forgot` are histories of the ways in which the monitor itself
takes an INT3 for the program's byte, leaves one behind, or forgets a hit.

## 3. The runs

| Run | Instance | What it shows |
|---|---|---|
| `safety` | 4 PCBs, a semaphore, a reader, sleeps of 0 and 1, keys, a fork | the inductive invariant of the proofs (`SafeInv`); the pointer lists hold exactly the blocked processes (`WaitListsExact`), `BlockedHasWaker`, `NoWildWakeup`, that a preempted fork still fills a dead PCB (`ForkFillsDeadSlot`), and that the kernel implements `FifoSemaphores` (`FifoSpec`) |
| `stdin` | 3 PCBs, two readers, a ring of 3 cells, reads of 2, all four kinds of code | stdin implements `TypeAhead` (`AheadSpec`), also when the ring overflows; the key table follows the shift codes read (`TableFollowsShift`) |
| `scheduling` | 4 PCBs, all of which fork, sleeps of 1 and 2, quanta of 2 ticks, with fairness | one process runs and frames are resumable (`OneRunning`, `FramesResumable`) even when two forks choose the same PCB; `RunnableRuns`, `SleepersWake`, `ForksEnd` |
| `screen` | 3 rows of 2 columns, two characters, writes of up to 3, 5 rows of paper | the screen shows the last rows of the paper and the cursor is at its end |
| `producers` | 2 producers of 3 rounds, 3 consumers of 2, with fairness | the inductive invariant of the proofs (`ProgramInv`), `MutualExclusion`, `ProducedFirst`, and that everybody exits (`AllExit`) |
| `threads` | 4 threads, careful programs | a joinid is set only while its thread is blocked (`JoinidValid`); blocked threads never wait for each other in a circle (`JoinInv`), so an exit finds a thread (`ExitFindsThread`); the library implements `Threads` (`PromiseSpec`) |
| `cpucache` | 3 lines of 2 bytes in one group of 2 slots, accesses of 1 and 2 bytes | no line is held twice (`OneCopy`), and the cache implements `MainMemory` (`MemorySpec`) |
| `debugger` | 3 nodes, 2 addresses, `si` of up to 2 | no node is lost (`ListsPartition`), the program runs its own instructions (`Transparent`), and passes a breakpoint only after a stop there (`NoMissedHit`) |
| `disk` | 3 sectors of 2 words, 2 slots, a write-back at every tick, with fairness | no assertion fails (`NoAssertionFails`), sectors stay whole (`SectorsWhole`), nothing stored is dropped (`NoStoredWordLost`), until a write-back falls into a transfer; calls end (`CallsEnd`) |
| `audio` | chunks of up to 2 callbacks, timer and audio interrupts, with fairness | no assertion fails, requests never multiply (`OneRequest`), the program's copy has its chunk for itself (`CopyUndisturbed`), the music goes on (`MusicGoesOn`) |
| `fork_race` | two forking processes and a semaphore | a disagreement, see section 6 |
| `two_breakpoints` | 2 nodes, 2 addresses | a disagreement, see section 6 |

### Bounds, and why they are enough

- **PCBs**: 4 of 8 (3 for stdin).  PCB 0 is the idle process; three more give a
  list of two waiters and a third process that posts, or two forks and a
  process that the scheduler chooses between them.  For stdin, two readers and
  the idle process: a second reader never waits (its call returns at once), so a third
  adds nothing.
- **MAX_TIME_COUNT**: 1 or 2 of 16.  The counter only delays a preemption; with 2 a
  tick without and one with preemption both occur at every point of a fork.
- **Ring**: 3 of 256 cells, so that it wraps and overflows within a few codes;
  reads of 2 so that one read can leave codes behind.
- **`MaxSemValue`** bounds posts, which otherwise count up for ever; the other
  variables are finite by themselves (`sleepTime` by the largest argument of
  sleep, values from below by the number of processes).
- **32 bits**: the values of semaphores stay far inside `int32_t` in these
  instances; the one wrap-around a call reaches directly, `sleep(0xffffffff)`,
  is in the list of hazards and not modelled.
- **Threads**: all 4 of `MAX_TCB_NUM`; the run is exhaustive.
- **Producers and consumers**: 2 and 3, with 3 and 2 rounds, so that production and
  consumption are equal as in the code (2 by 8 and 4 by 4), several consumers
  stand in both queues, and a producer may end before the last fork.
- **Screen**: 3 by 2 of 25 by 80: the smallest in which last column, last row
  and scrolling differ from everything else.
- **Processor cache**: 3 lines for 2 slots of one group, so that a full group
  evicts; with more than one group nothing new meets, as groups share nothing but
  the memory, and a line-crossing access goes to two groups or, here, to the same one.
  2 bytes in a line let an access lie inside or across.
- **Monitor**: 3 nodes give a list a head, a middle and an end; 2 addresses
  allow two breakpoints at one address, two at different ones, and a watchpoint
  beside them.
- **Disk**: 3 sectors for 2 slots, so that sectors collide in one slot while another
  holds a dirty one; 2 words in a sector, so that a transfer can be interrupted in its
  middle; write-back at every tick (100 in the code), which only makes it
  more frequent.
- **Audio**: chunks of 0, 1 or 2 callbacks: empty, used up at once, and not.  The
  keyboard's interrupts add nothing that the timer's do not: both have another
  number than the audio device's and set no flag.  Deadlock is not an error in
  `disk` and `audio`, where a failed assertion or a spinning handler ends the
  behaviour, and in the two sequential modules, whose actions are all the user's.

### Fairness

`FairSpec` assumes that the timer chip goes on ticking (weak fairness of
`TimerIrq`), that kernel code a process has come back to goes on (weak fairness
of `Resume`, which runs with interrupts disabled), and that the copy loop of a
fork ends when its process is scheduled again and again (strong fairness of
`ForkEnd`: the loop is bounded and keeps its progress over a preemption).
Nothing is assumed of user programs: they may compute for ever.

`ProducerConsumer!FairSpec` is weakly fair to every process.  This rests on
`RunnableRuns` and `SleepersWake` of the kernel, and on the program's code between two
calls being finite.

`Pic!PicFairness`: the processor's thread and a device's thread inside
`i8259_raise_intr` go on, and whoever waits for the controller's mutex gets it
(strong fairness of `Ack`; SDL's mutex).  `SectorCache!FairSpec` adds that the
driver and the handlers go on; no device has to raise an interrupt, as the disk's
is raised by the driver's own instruction.  `Audio!FairSpec` adds that the timer's
thread, the monitor and SDL's callback run for ever; their loops with
`SDL_Delay` poll without end.

### Mutants

Beside many definitions stands an operator marked *Mutant*: the same code with
one plausible mistake (`SemPostFew` compares with `< 0`, `DistanceFromIdle`
searches from PCB 0, `ScrollScreenUncleared` forgets to clear the new row).  No
specification uses them.  Putting one in the place of its original makes the
property named for it in `PROJECT.json` fail, which shows that the property
depends on that code.

## 4. The proofs

For every value of the constants (numbers of processes, semaphores, ticks, ring
cells, threads, sectors, lines, nodes, rows and columns):

| Theorem | What it states | For which programs |
|---|---|---|
| `KernelProofs!TypeCorrect` | `TypeOK` is an invariant | any |
| `KernelProofs!Safety` | `SafeInv` is an invariant; `OneRuns`, `Frames`, `WaitLists`, `Wakers`, `NoWild` and `ForkFills` state its parts as the runs check them | disciplined |
| `KernelProofs!RacingForks` | one process runs and every other is resumed from its innermost frame, although forks overwrite each other's children | those that only fork, sleep and exit, any number at a time |
| `KernelProofs!FifoImplemented` | the kernel implements `FifoSemaphores` (`FifoSpec`) | disciplined |
| `KernelProofs!AheadImplemented` | the stdin device implements `TypeAhead` (`AheadSpec`) | disciplined |
| `KernelProofs!TableFollows` | a read turns the key table exactly when it takes an odd number of shift codes (`TableFollowsShift`) | any |
| `KernelProofs!RunnableNext` | every step gives a ready process the processor, brings its turn nearer, or leaves the running process on, at a tick with one tick less to go | disciplined |
| `KernelProofs!SleepersNext` | a sleeper is woken, or each run of the timer's handler takes one from what it has left, which stays positive; no other step changes it | disciplined |
| `KernelProofs!InsertList`, `RemoveList`, `ListOfOrder` | insertion after a head and removal before it act on any circular list as on a queue, and `prev` spells that queue out | - |
| `ProducerConsumerProofs!ProgramSafe`, `Exclusion`, `Counted` | `ProgramInv`, mutual exclusion, nothing is consumed before it is produced | the program |
| `PthreadProofs!JoinSafe`, `ExitFinds` | no circle of joins, and an exit finds a thread | any |
| `PthreadProofs!Joinids`, `Implements` | the library implements `Threads` (`PromiseSpec`) | careful |
| `TerminalProofs!ScreenTypes`, `PaperShown`, `CursorFollows` | the screen shows the last rows of everything written, the cursor stands behind it | any writes |
| `CpuCacheProofs!CacheInvariant`, `CacheTypes`, `CacheImplementsMemory`, `AlignedCoherent` | no line is held twice; the cache implements `MainMemory`; without line-crossing accesses every cached line equals memory | any accesses |
| `AudioProofs!AudioSafe`, and its parts `AudioTypes`, `NoAudioAssertion`, `CopySafe` | no assertion fails, one request at a time, an undisturbed copy | any music |
| `SectorCacheProofs!SectorsSafe`, and its parts `DiskTypes`, `NoDiskAssertion`, `SlotsWhole` | no assertion fails, sectors stay whole, no stored word is lost, until a write-back falls into a transfer | any accesses, any threads that raise interrupts |
| `BreakpointsProofs!NodesShared` | every node is on exactly one of the two lists, once | any commands |
| `BreakpointsProofs!DebuggerTypes`, `ProgramUndisturbed`, `HitsNotMissed` | the program never runs an INT3 as its own instruction, and passes a breakpoint only after a stop there, until an INT3 is saved as an original byte or a stop is forgotten | any commands |

**Assumptions.** Each module names what it assumes of its constants; outside the
kernel that is little more than that there is at least one of everything.  `KernelAssumption` (at least two PCBs, one tick, one ring
cell; sets of the right kind), and for safety `Disciplined`: semaphores start
at no less than 0, are not destroyed while somebody waits, and only process 1
forks.  The last two are necessary: section 6 shows what happens without them.
The first is what the interface means: with a negative initial value the value would claim
waiters that are not there, and the first V would take one from an empty list.
`RacingForks` drops the condition on forks and assumes `OnlyForksAndSleeps`
instead: no semaphores and no readers, any set of processes that fork.  The
debugger's pool assumes that `NULL` is not one of its nodes.

**The argument.** `SafeInv` is the conjunction of the type invariant with seven
named parts, because none is inductive alone.

- That a V finds a PCB (`NoWildWakeup`) needs that a negative value means a
  non-empty list (`WaitListsExact`).
- That the list is exact needs that a process that goes to sleep in a list is
  in no list yet, which holds as it is running (`OneRunning`) and members
  are blocked; and that a fork does not overwrite a PCB in a list
  (`ForkSlotReserved`).
- That the right process continues needs that a suspended process's `stackTop`
  is its innermost frame (`FramesResumable`); the call's own `int $0x20` keeps the
  outer frame in `prevStackTop`, and that is true only because `saved` and the
  nested entries of a fork never leave a deeper value behind.

Lists are described without recursion: `IsListOf(next, prev, h, S, k)` says that
there is a numbering of the `k` members of `S` that `next` and `prev` follow, so the
lemmas about insertion and removal only shift a function.  `InductiveStep` has one
step per action of `Next`, one below it per conjunct the action can disturb; a
frame lemma disposes of the actions that touch no list.

When several processes fork, `SafeInv` is false: `ForkSlotReserved` fails, and with
it the lists.  What remains without lists is `ForkInv`: one process runs, frames are
resumable, and the slot of a fork is neither its own nor the idle process's.  Such a
fork may overwrite the child of another wherever that has got to, asleep or in a fork of
its own, but leaves a process that is ready and has one frame, and the process that
runs is never overwritten, as it is the one that ends its fork.

*Turns.*  A switch takes the nearest ready process after the current one, so the
distance of everyone it leaves out shrinks by the distance of the one it takes.  With
the ticks the running process has left this is a pair of numbers that every tick
lowers and no other step raises: what remains for `RunnableRuns` is that ticks
go on coming.  `SleepersNext` is the same for `SleepersWake`; that the count stays
positive is `BlockedHasWaker`, and without it a sleeper counted down to -1 would
look like one that waits for a semaphore.

*FIFO semaphores.*  The abstract queue of a semaphore is what `ListOf` reads along
`prev`.  `ListOfOrder` says that this is the one order that both pointers link, so an
insertion appends to it and a removal takes its head; a list nobody touches keeps
its order.  Each handler is then one abstract action or a stutter: a P passes or
waits, a V releases or hands over, the rest of the kernel changes neither a
value in use nor a queue.  `SafeInv` is needed for both directions of the test
`value <= 0`: a V must hand over exactly when somebody stands in the queue.

*Type-ahead.*  The abstract queue is the ring from `bufferHead` to `bufferTail`.
The read loop is described by what holds before each round (`Drained`): as many
codes are taken as rounds have been made, they are the oldest ones in order, and
the table follows the number of shift codes among them.  One more fact is needed
besides `SafeInv`: a dead process is in no read (`DeadPlaces`), as otherwise a fork
over its PCB would end a read.  The same loop gives `TableFollows`, whose parity argument needs only types.

*Induction over numbers.*  The library's induction theorem takes a predicate as a
parameter and cannot be used here.  `LeastNumber` replaces it: a set of numbers
that is not empty has a least member, from `WFMin` and `NatLessThanWellFounded`.
A proof by induction applies it to the set of rounds, positions or members for
which a claim fails.  That is enough for the recursive functions of the model (the
read loop, the screen's loop, a chain of nodes); nothing is assumed of data.

For the screen, `InStep` says that screen and paper agree: row `displayRow` of
the screen is the last row of the paper, the rows above it are those before it, and
what is below or behind is blank.  One character keeps it, in four cases (newline or
not, in the last column or not) with and without scrolling, and the loop
keeps it by induction over the positions of the string.

For the debugger, the lists are two paths without a node in common that cover
the pool (`Shared`): there are two sequences without repetition whose
neighbours `next` links and which start at `head` and `free_`.  Setting moves the
first node of one before the first of the other; deleting takes a node out of the
first one's middle.  For the program, `Bytes` says that every INT3 in the text
belongs to a node that is set (`Int3Listed`), and that a breakpoint without INT3
is one at `eip` whose instruction is still to be run again
(`BreaksArmed`); both until `spoiled` or `forgot` records one of the two flaws of
section 6.

For the threads, that an exit finds a runnable thread needs that not everybody
alive is blocked.  Blocked threads wait for living ones (`TargetsAlive`), so it
is enough that no set of blocked threads has all its targets inside itself
(`NoJoinCycle`); the set of all blocked ones then has a member that waits for a
thread that runs or may run.  A join adds one blocked thread and takes its target
out of the blocked ones, so a circle that the join would close loses the very
thread that would close it: the oddity that makes `PromiseSpec` fail for
careless programs also keeps them from deadlock.

For the program, `ProgramInv` follows the permits: that of the mutex is with the
process inside, or in the semaphore, or handed from one to the next by a
post; a product is in the semaphore, or with a consumer whose `sem_wait` has
been answered, or counted in `taken`.  The invariant also says that who stands in
a queue is asleep in that call, and stands there once; otherwise a hand-over could
wake a process that waits for something else.

For the cache, a read finds the line in at most one slot because it fills one
only after it has searched the whole group (`OneCopy`); a store then updates the
only copy, and the copy equals memory before and after it unless the
store crosses into a line that the code does not look up.  The refinement maps
the lines whose copy differs to the abstract `suspect`: a step may add
the second line of a crossing store to it, and no other.

For the audio device, the invariant is a token: the request for the next piece of
music is in one of seven places, from the callback's announcement through the
monitor's flag, its raise, the controller, the handler and the program's flag to the
ready mark of the filled chunk (`RequestAt`).  Every step moves the token to the next
place or drops it, and only the callback, which finds it in the last place,
makes a new one.  So the program copies only while the token is with it; the
chunk is then not ready, and the callback cannot turn the chunks round under
the copy.

For the disk, `Undisturbed` says how far a call has got.  While a dirty slot is being
written, the words of it that still wait are those the device has not reached
(`WriteInv`); when the last one has gone, none is left, so the read that
follows overwrites nothing that waits (`ReadInv`), and the words read so far are of the
call's own sector.  A timer's write-back between two transfers takes from the
waiting words only those of marked slots, so the one word that may stay is
that of a store whose mark is the next step.  That the processor finds a number for a
set flag needs that a thread inside `i8259_raise_intr` holds the mutex, which
keeps the acknowledgement out between number and flag (`ControllerInv`).

**Only model-checked.** What is eventually so: `RunnableRuns`, `SleepersWake`,
`ForksEnd`, `AllExit`, `CallsEnd` and `MusicGoesOn`.  Liveness under fairness
is beyond the prover; `RunnableNext` and `SleepersNext` are the steps that the first
two rest on.  All other properties of the passing runs are theorems.

## 5. What is not modelled

In the lab4 kernel: register values, user memory and segment descriptors; the bytes
of strings; the serial port; `exec` beyond its return; page and protection faults
(the kernel halts); calls on unused semaphore slots; `sleep` with arguments beyond
`int32_t`.

In NEMU: samples, and the two copy threads that share a loop variable
(`audio.c:43`); what the disk returns for a sector that was written (the image is
opened for reading, so writes have no effect there); DMA, which is compiled out;
calls of the driver with the interrupt flag off, in which `hlt` would wait for an
interrupt that is not taken; interrupts and self-modifying programs under the
debugger; the keyboard device.

Section 1 lists the parts of the repository that are left out.

## 6. Where code and documentation disagree

Two runs end in a violation:

- `fork_race`.  `syscallFork` chooses a dead PCB, enables interrupts for the
  copy and marks the PCB afterwards.  A second fork in between chooses the same
  one, and overwrites the first child, which may already be waiting for a
  semaphore.  `kvm.c:58` says of a semaphore's value ">=0: no process blocked; -1: 1
  process blocked; ...", and the run ends with a value of -1 and nobody blocked.
- `two_breakpoints`.  `cpu.c:69` says "found, then restore the original opcode".
  `resume_breakpoints`, run by the first command after a hit, saves the byte at
  every breakpoint as the original one, and at all but the one just hit that byte
  is INT3.  The next hit of another one restores INT3, and the program never gets past it.

What the other runs leave out by their constants or histories is of the same kind,
and is where the code departs from what a reader might expect:

- *A destroyed semaphore* (`DestroyBusy`).  `sem_destroy` empties the list and leaves
  the waiters blocked; the next `sem_init` takes the slot, and they stay blocked
  for ever without being counted.
- *A thread joined while blocked* (`JoinAny`).  It goes on with its `joinid` set, may
  exit, and is made runnable again, dead, when its old target exits
  (`ExitWakesBlocked` fails).  `pthread.h:28` calls `joinid` "valid when state = BLOCK".
- *A yield of the only runnable thread* (`YieldAlone`) jumps to itself and overwrites the argument
  of `switch_to`, as section 2 says (`SwitchesToOther` fails).
- *A write-back in the middle of a transfer* (`clash`).  While a fetch waits for
  the disk or moves words, the timer's handler may turn the device to another
  sector: the line is filled with words of the wrong sector, or an assertion of
  `ide.c` stops the emulator.  If a write command is under way, the handler waits for
  ever (`Hung`).
- *A lost request for music* (`lost`).  Each of the three places is reachable; the
  callback then waits for a chunk nobody will fill.  `credits.c:31` reports
  "Occasional audio playback disorder".
- *A delete* leaves the INT3 of its breakpoint in the program, and *a hit on the
  last step of `si`* is not re-armed (`spoiled`, `forgot`).
- *A line-crossing store* whose first line is not cached leaves an old copy of
  the second (`suspect`).

## 7. Plan

1. Proofs: the steps that `CallsEnd` and `MusicGoesOn` rest on, as `RunnableNext` is for
   `RunnableRuns`: what a disk call has left to do, and the place of the request.
2. NEMU's TLB against its page tables; the two copy threads of the audio device.
3. Candidates: the router, the PS/2 receiver.
