---------------------------- MODULE AudioProofs -----------------------------
(***************************************************************************)
(* That the audio device and its program never disturb each other's chunk, *)
(* for every length of a chunk and every interleaving of the threads.      *)
(***************************************************************************)
EXTENDS Audio, TLAPS

\* The controller: who is inside i8259_raise_intr holds the mutex, and a flag
\* that is set, or about to be, has its number.
ControllerInv ==
  /\ \A d \in Devices : thread[d] # "out" => mutex = d
  /\ \A d \in Devices : thread[d] = "numbered" => intrNo # NoIntr
  /\ intr => intrNo # NoIntr
  /\ cpu = "ack" /\ got = Irq.audio => intrNo = Irq.audio

\* The chunks: both indices differ from the start on, and the one that the
\* callback leaves is not ready.
ChunkInv ==
  /\ pc # "start" => fill # play
  /\ playing => pc # "start"
  /\ callback # "out" => playing
  /\ callback = "seek" => ~ready[play]

\* The program: nothing is asked for before it starts, it loads only when it
\* has been asked to, and it writes where the callback does not go.
ProgramInv ==
  /\ pc = "start" => /\ \A r \in Places : ~RequestAt(r)
                    /\ monitor = "none" /\ play = 0 /\ ~ready[0] /\ ~ready[1]
  /\ pc \in {"fread", "out", "lock", "copy", "len", "done"} => reload
  /\ pc \in {"lock", "copy", "len"} => target = fill
  /\ pc \in {"copy", "len"} => lock[fill] = "cpu"

IInv ==
  /\ TypeOK /\ ControllerInv /\ ChunkInv /\ ProgramInv
  /\ OneRequest /\ NoAssertionFails

LEMMA IrqNumbers ==
  /\ Irq.timer = 0 /\ Irq["timer"] = 0 /\ Irq.audio = 2 /\ Irq["audio"] = 2
  /\ IrqNo = {0, 1, 2, 14}
<1>1. DOMAIN Irq = {"timer", "keyboard", "audio", "ide"}
      BY DEF Irq
<1>2. Irq["timer"] = 0 /\ Irq["keyboard"] = 1 /\ Irq["audio"] = 2 /\ Irq["ide"] = 14
      BY DEF Irq
<1>3. IrqNo = {Irq["timer"], Irq["keyboard"], Irq["audio"], Irq["ide"]}
      BY <1>1, Zenon DEF IrqNo
<1>. QED
     BY <1>2, <1>3 DEF Irq

LEMMA InitIInv == Init => IInv
<1> SUFFICES ASSUME Init PROVE IInv
    OBVIOUS
<1> USE IrqNumbers, PicAssumption, AudioAssumption DEF Init, PicInit, Chunk
<1>1. TypeOK
  <2>1. PicTypeOK
        BY DEF PicTypeOK
  <2>2. ready \in [Chunk -> BOOLEAN] /\ len \in [Chunk -> 0 .. MaxLen]
        OBVIOUS
  <2>3. lock \in [Chunk -> {Nobody, "cpu", "callback"}]
        OBVIOUS
  <2>. QED
       BY <2>1, <2>2, <2>3 DEF TypeOK
<1>2. \A r \in Places : ~RequestAt(r)
      BY DEF Places, RequestAt
<1>3. ControllerInv /\ ChunkInv /\ ProgramInv /\ NoAssertionFails
      BY <1>2 DEF ControllerInv, ChunkInv, ProgramInv, NoAssertionFails
<1>4. OneRequest
      BY <1>2 DEF OneRequest
<1>. QED
     BY <1>1, <1>3, <1>4 DEF IInv

\* The controller's steps keep its variables' types and its invariant; so do
\* the steps of everybody else, which touch nothing of it but cpu.
LEMMA ControllerStep ==
  ASSUME IInv, [Next]_vars
  PROVE  PicTypeOK' /\ ControllerInv'
<1> USE IrqNumbers, PicAssumption, AudioAssumption
    DEF IInv, TypeOK, PicTypeOK, ControllerInv, NoAssertionFails
<1>1. CASE Client
      BY <1>1 DEF Client, StartMonitor, Unpause, Halt, Test, Fread, Out, LockFill,
                  Copy, SetLen, Reloaded, At, More, Done, picVars
<1>2. CASE Handle
      BY <1>2 DEF Handle
<1>3. CASE Loop
  <2>1. CASE NoInterrupt
        BY <2>1 DEF NoInterrupt
  <2>2. CASE Query
        BY <2>2 DEF Query
  <2>3. CASE Ack
    <3>1. \A d \in Devices : thread[d] = "out"
          BY <2>3 DEF Ack
    <3>. QED
         BY <2>3, <3>1 DEF Ack
  <2>. QED
       BY <1>3, <2>1, <2>2, <2>3 DEF Loop
<1>4. CASE MonitorRaise
      BY <1>4 DEF MonitorRaise, RaiseLock
<1>5. CASE MonitorClear
      BY <1>5 DEF MonitorClear, picVars
<1>6. CASE Raise
  <2>1. CASE RaiseLock("timer")
        BY <2>1 DEF RaiseLock
  <2>2. ASSUME NEW d \in Devices, RaiseNumber(d)
        PROVE  PicTypeOK' /\ ControllerInv'
        BY <2>2 DEF RaiseNumber, Higher
  <2>3. ASSUME NEW d \in Devices, RaiseFlag(d)
        PROVE  PicTypeOK' /\ ControllerInv'
        BY <2>3 DEF RaiseFlag
  <2>. QED
       BY <1>6, <2>1, <2>2, <2>3 DEF Raise
<1>7. CASE Callback
      BY <1>7 DEF Callback, Enter, Switch, Announce, Mix, ChunkInv, picVars
<1>8. CASE UNCHANGED vars
      BY <1>8 DEF vars, picVars
<1>. QED
     BY <1>1, <1>2, <1>3, <1>4, <1>5, <1>6, <1>7, <1>8 DEF Next

\* The types, and that nothing is aborted: the number is there when the flag
\* is, and the two indices differ whenever the callback runs.
LEMMA TypeStep ==
  ASSUME IInv, [Next]_vars
  PROVE  TypeOK' /\ NoAssertionFails'
<1>0. PicTypeOK'
      BY ControllerStep
<1> USE <1>0, IrqNumbers, PicAssumption, AudioAssumption DEF IInv, TypeOK, ControllerInv, ChunkInv, NoAssertionFails, Chunk,
           deviceVars, threadVars, clientVars
<1>1. CASE StartMonitor
      BY <1>1 DEF StartMonitor, At, More, picVars
<1>2. CASE Unpause
      BY <1>2 DEF Unpause, At, Done
<1>3. CASE Halt
      BY <1>3 DEF Halt, At, Done
<1>4. CASE Test
      BY <1>4 DEF Test, At, Done
<1>5. CASE Fread
      BY <1>5 DEF Fread, At, Done
<1>6. CASE Out
      BY <1>6 DEF Out, At, More, picVars
<1>7. CASE LockFill
      BY <1>7 DEF LockFill, At, More, picVars
<1>8. CASE Copy
      BY <1>8 DEF Copy, At, More, picVars
<1>9. CASE Reloaded
      BY <1>9 DEF Reloaded, At, Done
<1>10. CASE Handle
      BY <1>10 DEF Handle, Unless
<1>11. CASE Loop
      BY <1>11 DEF Loop, Unless, NoInterrupt, Query, Ack
<1>12. CASE MonitorRaise
      BY <1>12 DEF MonitorRaise, RaiseLock
<1>13. CASE MonitorClear
      BY <1>13 DEF MonitorClear, picVars
<1>14. CASE Raise
      BY <1>14 DEF Raise, RaiseLock, RaiseNumber, RaiseFlag
<1>15. CASE Enter
  <2>1. play # fill /\ UNCHANGED <<cpu, play, fill, len, playing, switchBuf>>
        BY <1>15 DEF Enter, picVars
  <2>2. lock' \in [Chunk -> {Nobody, "cpu", "callback"}]
        BY <1>15, <2>1 DEF Enter
  <2>3. ready' \in [Chunk -> BOOLEAN]
    <3>1. CASE UNCHANGED ready
          BY <3>1
    <3>2. CASE ready' = [ready EXCEPT ![play] = FALSE]
          BY <3>2
    <3>. QED
         BY <1>15, <2>1, <3>1, <3>2 DEF Enter
  <2>4. callback' \in {"out", "seek", "announce", "mix"}
        BY <1>15, <2>1 DEF Enter
  <2>. QED
       BY <1>15, <2>1, <2>2, <2>3, <2>4 DEF Enter
<1>16. CASE Switch
      BY <1>16 DEF Switch, picVars, Other
<1>17. CASE Announce
      BY <1>17 DEF Announce, picVars, Unless
<1>18. CASE Mix
      BY <1>18 DEF Mix, picVars
<1>19. ASSUME NEW n \in 0 .. MaxLen, SetLen(n)
      PROVE  TypeOK' /\ NoAssertionFails'
      BY <1>19 DEF SetLen, At, Done
<1>20. CASE UNCHANGED vars
      BY <1>20 DEF vars, picVars
<1>. QED
     BY <1>1, <1>2, <1>3, <1>4, <1>5, <1>6, <1>7, <1>8, <1>9, <1>10, <1>11, <1>12, <1>13, <1>14, <1>15, <1>16, <1>17, <1>18, <1>19, <1>20 DEF Next, Client, Callback

\* The callback leaves a chunk that is not ready, and only the start and the
\* exchange change the indices.
LEMMA ChunkStep ==
  ASSUME IInv, [Next]_vars
  PROVE  ChunkInv'
<1> USE IrqNumbers, PicAssumption, AudioAssumption
    DEF IInv, TypeOK, PicTypeOK, ControllerInv, ChunkInv, Chunk,
        deviceVars, threadVars, clientVars, ProgramInv
<1>1. CASE StartMonitor
      BY <1>1 DEF StartMonitor, At, More, picVars
<1>2. CASE Unpause
      BY <1>2 DEF Unpause, At, Done
<1>3. CASE Halt
      BY <1>3 DEF Halt, At, Done
<1>4. CASE Test
      BY <1>4 DEF Test, At, Done
<1>5. CASE Fread
      BY <1>5 DEF Fread, At, Done
<1>6. CASE Out
      BY <1>6 DEF Out, At, More, picVars
<1>7. CASE LockFill
      BY <1>7 DEF LockFill, At, More, picVars
<1>8. CASE Copy
      BY <1>8 DEF Copy, At, More, picVars
<1>9. CASE Reloaded
      BY <1>9 DEF Reloaded, At, Done
<1>10. CASE Handle
      BY <1>10 DEF Handle
<1>11. CASE Loop
      BY <1>11 DEF Loop, NoInterrupt, Query, Ack
<1>12. CASE MonitorRaise
      BY <1>12 DEF MonitorRaise, RaiseLock
<1>13. CASE MonitorClear
      BY <1>13 DEF MonitorClear, picVars
<1>14. CASE Raise
      BY <1>14 DEF Raise, RaiseLock, RaiseNumber, RaiseFlag, Higher
<1>15. CASE Enter
      BY <1>15 DEF Enter, picVars
<1>16. CASE Switch
      BY <1>16 DEF Switch, picVars, Other
<1>17. CASE Announce
      BY <1>17 DEF Announce, picVars
<1>18. CASE Mix
      BY <1>18 DEF Mix, picVars
<1>19. ASSUME NEW n \in 0 .. MaxLen, SetLen(n)
      PROVE  ChunkInv'
      BY <1>19 DEF SetLen, At, Done
<1>20. CASE UNCHANGED vars
      BY <1>20 DEF vars, picVars
<1>. QED
     BY <1>1, <1>2, <1>3, <1>4, <1>5, <1>6, <1>7, <1>8, <1>9, <1>10, <1>11, <1>12, <1>13, <1>14, <1>15, <1>16, <1>17, <1>18, <1>19, <1>20 DEF Next, Client, Callback

\* Each step moves the one request to the next place, drops it, or leaves it.
LEMMA RequestStep ==
  ASSUME IInv, [Next]_vars
  PROVE  OneRequest'
<1> USE IrqNumbers, PicAssumption, AudioAssumption
    DEF IInv, TypeOK, PicTypeOK, ControllerInv, ChunkInv, Chunk,
        deviceVars, threadVars, clientVars, ProgramInv,
        OneRequest, Places, RequestAt
<1>1. CASE StartMonitor
      BY <1>1 DEF StartMonitor, At, More, picVars
<1>2. CASE Unpause
      BY <1>2 DEF Unpause, At, Done
<1>3. CASE Halt
      BY <1>3 DEF Halt, At, Done
<1>4. CASE Test
      BY <1>4 DEF Test, At, Done
<1>5. CASE Fread
      BY <1>5 DEF Fread, At, Done
<1>6. CASE Out
      BY <1>6 DEF Out, At, More, picVars
<1>7. CASE LockFill
      BY <1>7 DEF LockFill, At, More, picVars
<1>8. CASE Copy
      BY <1>8 DEF Copy, At, More, picVars
<1>9. CASE Reloaded
      BY <1>9 DEF Reloaded, At, Done
<1>10. CASE Handle
      BY <1>10 DEF Handle
<1>11. CASE Loop
      BY <1>11 DEF Loop, NoInterrupt, Query, Ack
<1>12. CASE MonitorRaise
      BY <1>12 DEF MonitorRaise, RaiseLock
<1>13. CASE MonitorClear
      BY <1>13 DEF MonitorClear, picVars
<1>14. CASE Raise
      BY <1>14 DEF Raise, RaiseLock, RaiseNumber, RaiseFlag, Higher
<1>15. CASE Enter
      BY <1>15 DEF Enter, picVars
<1>16. CASE Switch
      BY <1>16 DEF Switch, picVars, Other
<1>17. CASE Announce
      BY <1>17 DEF Announce, picVars
<1>18. CASE Mix
      BY <1>18 DEF Mix, picVars
<1>19. ASSUME NEW n \in 0 .. MaxLen, SetLen(n)
      PROVE  OneRequest'
      BY <1>19 DEF SetLen, At, Done
<1>20. CASE UNCHANGED vars
      BY <1>20 DEF vars, picVars
<1>. QED
     BY <1>1, <1>2, <1>3, <1>4, <1>5, <1>6, <1>7, <1>8, <1>9, <1>10, <1>11, <1>12, <1>13, <1>14, <1>15, <1>16, <1>17, <1>18, <1>19, <1>20 DEF Next, Client, Callback

\* The program loads when it is asked to, and while it does nothing is ready.
LEMMA ProgramStep ==
  ASSUME IInv, [Next]_vars
  PROVE  ProgramInv'
<1> USE IrqNumbers, PicAssumption, AudioAssumption
    DEF IInv, TypeOK, PicTypeOK, ControllerInv, ChunkInv, Chunk,
        deviceVars, threadVars, clientVars, ProgramInv,
        OneRequest, Places, RequestAt
<1>1. CASE StartMonitor
      BY <1>1 DEF StartMonitor, At, More, picVars
<1>2. CASE Unpause
      BY <1>2 DEF Unpause, At, Done
<1>3. CASE Halt
      BY <1>3 DEF Halt, At, Done
<1>4. CASE Test
      BY <1>4 DEF Test, At, Done
<1>5. CASE Fread
      BY <1>5 DEF Fread, At, Done
<1>6. CASE Out
      BY <1>6 DEF Out, At, More, picVars
<1>7. CASE LockFill
      BY <1>7 DEF LockFill, At, More, picVars
<1>8. CASE Copy
      BY <1>8 DEF Copy, At, More, picVars
<1>9. CASE Reloaded
      BY <1>9 DEF Reloaded, At, Done
<1>10. CASE Handle
      BY <1>10 DEF Handle
<1>11. CASE Loop
      BY <1>11 DEF Loop, NoInterrupt, Query, Ack
<1>12. CASE MonitorRaise
      BY <1>12 DEF MonitorRaise, RaiseLock
<1>13. CASE MonitorClear
      BY <1>13 DEF MonitorClear, picVars
<1>14. CASE Raise
      BY <1>14 DEF Raise, RaiseLock, RaiseNumber, RaiseFlag, Higher
<1>15. CASE Enter
      BY <1>15 DEF Enter, picVars
<1>16. CASE Switch
  <2>1. RequestAt("ready")
        BY <1>16 DEF Switch
  <2>2. ~RequestAt("reload")
        BY <2>1
  <2>3. pc \notin {"start", "lock", "copy", "len"}
        BY <1>16, <2>1, <2>2 DEF Switch
  <2>. QED
       BY <1>16, <2>3 DEF Switch, picVars, Other
<1>17. CASE Announce
      BY <1>17 DEF Announce, picVars
<1>18. CASE Mix
      BY <1>18 DEF Mix, picVars
<1>19. ASSUME NEW n \in 0 .. MaxLen, SetLen(n)
      PROVE  ProgramInv'
      BY <1>19 DEF SetLen, At, Done
<1>20. CASE UNCHANGED vars
      BY <1>20 DEF vars, picVars
<1>. QED
     BY <1>1, <1>2, <1>3, <1>4, <1>5, <1>6, <1>7, <1>8, <1>9, <1>10, <1>11, <1>12, <1>13, <1>14, <1>15, <1>16, <1>17, <1>18, <1>19, <1>20 DEF Next, Client, Callback

LEMMA IInvCopy == IInv => CopyUndisturbed
<1> SUFFICES ASSUME IInv PROVE CopyUndisturbed
    OBVIOUS
<1> USE DEF IInv, ProgramInv, ChunkInv
<1>1. pc \in {"copy", "len"} => target = fill /\ lock[fill] = "cpu" /\ fill # play
      OBVIOUS
<1>2. ASSUME pc = "copy" PROVE ~ready[fill]
  <2>1. RequestAt("reload")
        BY <1>2 DEF RequestAt
  <2>2. ~RequestAt("ready")
        BY <2>1 DEF OneRequest, Places
  <2>. QED
       BY <2>2 DEF RequestAt
<1>. QED
     BY <1>1, <1>2 DEF CopyUndisturbed

\* The requests for music never multiply, no assertion fails, and a piece is
\* copied only into the chunk the program holds, never into the one that is
\* being played nor over one that has not been played.
THEOREM AudioSafe ==
  Spec => [](TypeOK /\ NoAssertionFails /\ OneRequest /\ CopyUndisturbed)
<1>1. IInv /\ [Next]_vars => IInv'
  <2> SUFFICES ASSUME IInv, [Next]_vars PROVE IInv'
      OBVIOUS
  <2>. QED
       BY ControllerStep, TypeStep, ChunkStep, ProgramStep, RequestStep DEF IInv
<1>2. IInv => TypeOK /\ NoAssertionFails /\ OneRequest /\ CopyUndisturbed
      BY IInvCopy DEF IInv
<1>. QED
     BY InitIInv, <1>1, <1>2, PTL DEF Spec
\* What each of these invariants says alone: the types of the threads' states ...
THEOREM AudioTypes == Spec => []TypeOK
  BY AudioSafe, PTL

\* ... the callback never finds both indices at one chunk, and an interrupt has
\* a number ...
THEOREM NoAudioAssertion == Spec => []NoAssertionFails
  BY AudioSafe, PTL

\* ... and the program's copy is disturbed neither by the callback nor by an
\* earlier piece of music that has not been played.
THEOREM CopySafe == Spec => []CopyUndisturbed
  BY AudioSafe, PTL
=============================================================================
