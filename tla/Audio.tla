------------------------------- MODULE Audio --------------------------------
(***************************************************************************)
(* NEMU's audio device (nemu/src/device/dev/audio.c) and the program that  *)
(* feeds it (game/src/credits/credits.c).  SDL's callback plays one chunk  *)
(* while the program fills the other; when the callback turns them round,  *)
(* a monitor thread raises an interrupt, its handler sets a flag, and the  *)
(* program's loop writes the next piece of music.                          *)
(***************************************************************************)
EXTENDS Pic

CONSTANT MaxLen  \* callbacks a full chunk lasts for

ASSUME AudioAssumption ==
  /\ MaxLen \in Nat
  /\ Devices = {"timer", "audio"}
  /\ Nobody \notin {"cpu", "callback"}

VARIABLES
  play,       \* audio_chunk_play_idx
  fill,       \* audio_chunk_fill_idx
  ready,      \* audio_chunk_ready[2]
  len,        \* audio_len[2], in callbacks
  lock,       \* audio_mutex[2]: who holds each
  playing,    \* audio_state, the other way round
  switchBuf,  \* switch_buf
  monitor,    \* where the monitor thread is
  callback,   \* where SDL's callback is
  reload,     \* audio_reload, of the program
  pc,         \* where the program is in its loop
  target,     \* the chunk whose mutex the processor's thread asked for
  lost        \* history: where requests for music have been lost

deviceVars == <<play, fill, ready, len, lock, playing, switchBuf>>
threadVars == <<monitor, callback>>
clientVars == <<reload, pc, target>>
vars == <<picVars, deviceVars, threadVars, clientVars, lost>>

Chunk == {0, 1}
Other(c) == 1 - c

TypeOK ==
  /\ PicTypeOK
  /\ play \in Chunk /\ fill \in Chunk /\ target \in Chunk
  /\ ready \in [Chunk -> BOOLEAN]
  /\ len \in [Chunk -> 0 .. MaxLen]
  /\ lock \in [Chunk -> {Nobody, "cpu", "callback"}]
  /\ playing \in BOOLEAN /\ switchBuf \in BOOLEAN /\ reload \in BOOLEAN
  /\ monitor \in {"none", "poll", "raised"}
  /\ callback \in {"out", "seek", "announce", "mix"}
  /\ pc \in {"start", "unpause", "halt", "test", "fread", "out", "lock",
             "copy", "len", "done"}
  /\ lost \subseteq {"ack", "reload", "switch_buf"}

\* audio_start.
Init ==
  /\ PicInit
  /\ play = 0 /\ fill = 0 /\ target = 0
  /\ ready = [c \in Chunk |-> FALSE]
  /\ len = [c \in Chunk |-> 0]
  /\ lock = [c \in Chunk |-> Nobody]
  /\ playing = FALSE /\ switchBuf = FALSE /\ reload = FALSE
  /\ monitor = "none" /\ callback = "out" /\ pc = "start"
  /\ lost = {}

Unless(drop, where) == lost' = IF drop THEN lost \cup {where} ELSE lost

-----------------------------------------------------------------------------
\* The program and the port handlers it runs; an out instruction of several
\* steps is looked at for interrupts after its last.
At(here, there) == cpu = "exec" /\ pc = here /\ pc' = there
More == UNCHANGED picVars
Done == cpu' = "check" /\ UNCHANGED <<intrNo, intr, mutex, thread, got>>

\* Mutants: both indices stay at chunk 0; no first fill is asked for.
StartOnChunk0 ==
  /\ At("start", "unpause") /\ More
  /\ switchBuf' = TRUE
  /\ monitor' = "poll"
  /\ UNCHANGED <<play, fill, ready, len, lock, playing, callback, reload, target, lost>>

StartSilent ==
  /\ At("start", "unpause") /\ More
  /\ fill' = 1
  /\ monitor' = "poll"
  /\ UNCHANGED <<play, ready, len, lock, playing, switchBuf, callback, reload,
                 target, lost>>

\* audio_pause(0): chunk 1 is to be filled, then the sound is switched on.
StartMonitor ==
  /\ At("start", "unpause") /\ More
  /\ fill' = 1
  /\ switchBuf' = TRUE
  /\ monitor' = "poll"
  /\ UNCHANGED <<play, ready, len, lock, playing, callback, reload, target, lost>>

Unpause ==
  /\ At("unpause", "halt") /\ Done
  /\ playing' = TRUE
  /\ UNCHANGED <<play, fill, ready, len, lock, switchBuf, threadVars, reload,
                 target, lost>>

\* main_loop.
Halt ==
  /\ intr
  /\ At("halt", "test") /\ Done
  /\ UNCHANGED <<deviceVars, threadVars, reload, target, lost>>

Test ==
  /\ At("test", IF reload THEN "fread" ELSE "halt") /\ Done
  /\ UNCHANGED <<deviceVars, threadVars, reload, target, lost>>

Fread ==
  /\ At("fread", "out") /\ Done
  /\ UNCHANGED <<deviceVars, threadVars, reload, target, lost>>

\* The handler of AUDIO_DATA: the mutex of the chunk to be filled, the copy by
\* the workers, its length.
Out ==
  /\ At("out", "lock") /\ More
  /\ target' = fill
  /\ UNCHANGED <<deviceVars, threadVars, reload, lost>>

LockFill ==
  /\ At("lock", "copy") /\ More
  /\ lock[target] = Nobody
  /\ lock' = [lock EXCEPT ![target] = "cpu"]
  /\ UNCHANGED <<play, fill, ready, len, playing, switchBuf, threadVars,
                 reload, target, lost>>

Copy ==
  /\ At("copy", "len") /\ More
  /\ ready' = [ready EXCEPT ![fill] = TRUE]
  /\ UNCHANGED <<play, fill, len, lock, playing, switchBuf, threadVars,
                 reload, target, lost>>

SetLen(n) ==
  /\ At("len", "done") /\ Done
  /\ len' = [len EXCEPT ![fill] = n]
  /\ lock' = [lock EXCEPT ![fill] = Nobody]
  /\ UNCHANGED <<play, fill, ready, playing, switchBuf, threadVars, reload,
                 target, lost>>

\* Mutant: the flag stays.
ReloadedKept ==
  /\ At("done", "halt") /\ Done
  /\ UNCHANGED <<deviceVars, threadVars, reload, target, lost>>

\* audio_reload = 0, whatever has happened since the test.
Reloaded ==
  /\ At("done", "halt") /\ Done
  /\ reload' = FALSE
  /\ UNCHANGED <<deviceVars, threadVars, target, lost>>

\* The handlers audio_event and timer_event.
Handle ==
  /\ cpu = "handle"
  /\ cpu' = "exec"
  /\ reload' = (reload \/ got = Irq.audio)
  /\ got' = NoIntr
  /\ Unless(got = Irq.audio /\ reload, "reload")
  /\ UNCHANGED <<intrNo, intr, mutex, thread, deviceVars, threadVars, pc, target>>

Client ==
  \/ StartMonitor \/ Unpause \/ Halt \/ Test \/ Fread
  \/ Out \/ LockFill \/ Copy \/ (\E n \in 0 .. MaxLen : SetLen(n)) \/ Reloaded

\* The processor's loop; the acknowledgement clears whatever is pending.
Loop ==
  /\ NoInterrupt \/ Query \/ Ack
  /\ Unless(cpu = "ack" /\ intrNo = Irq.audio /\ got # Irq.audio, "ack")
  /\ UNCHANGED <<deviceVars, threadVars, clientVars>>

-----------------------------------------------------------------------------
\* AUDIO_Monitor_Thread: test and raise, then clear.
MonitorRaise ==
  /\ monitor = "poll" /\ switchBuf
  /\ RaiseLock("audio")
  /\ monitor' = "raised"
  /\ UNCHANGED <<deviceVars, callback, clientVars, lost>>

MonitorClear ==
  /\ monitor = "raised" /\ thread["audio"] = "out"
  /\ switchBuf' = FALSE
  /\ monitor' = "poll"
  /\ UNCHANGED <<picVars, play, fill, ready, len, lock, playing, callback,
                 clientVars, lost>>

Raise ==
  /\ \/ RaiseLock("timer")
     \/ \E d \in Devices : RaiseNumber(d) \/ RaiseFlag(d)
  /\ UNCHANGED <<deviceVars, threadVars, clientVars, lost>>

\* fill_audio: the mutex of the chunk being played, and whether it is empty.
Enter ==
  /\ playing /\ callback = "out"
  /\ IF play = fill
       THEN /\ cpu' = "aborted"
            /\ UNCHANGED <<ready, lock, callback, intrNo, intr, mutex, thread, got>>
       ELSE /\ lock[play] = Nobody
            /\ lock' = [lock EXCEPT ![play] = "callback"]
            /\ IF len[play] > 0 /\ ready[play]
                 THEN callback' = "mix" /\ UNCHANGED ready
                 ELSE callback' = "seek" /\ ready' = [ready EXCEPT ![play] = FALSE]
            /\ UNCHANGED picVars
  /\ UNCHANGED <<play, fill, len, playing, switchBuf, monitor, clientVars, lost>>

\* Mutant: the callback does not wait for the other chunk to be ready.
SwitchAtOnce ==
  /\ callback = "seek"
  /\ lock[fill] = Nobody
  /\ fill' = play
  /\ play' = Other(play)
  /\ lock' = [c \in Chunk |-> IF c = fill THEN "callback" ELSE Nobody]
  /\ callback' = "announce"
  /\ UNCHANGED <<picVars, ready, len, playing, switchBuf, monitor, clientVars, lost>>

\* The other chunk's mutex, until that chunk is ready; the two change places.
Switch ==
  /\ callback = "seek"
  /\ lock[fill] = Nobody /\ ready[fill]
  /\ fill' = play
  /\ play' = Other(play)
  /\ lock' = [c \in Chunk |-> IF c = fill THEN "callback" ELSE Nobody]
  /\ callback' = "announce"
  /\ UNCHANGED <<picVars, ready, len, playing, switchBuf, monitor, clientVars, lost>>

\* switch_buf = true, which the monitor takes back if it is between its raise
\* and its clearing.
Announce ==
  /\ callback = "announce"
  /\ switchBuf' = TRUE
  /\ callback' = "mix"
  /\ Unless(monitor = "raised", "switch_buf")
  /\ UNCHANGED <<picVars, play, fill, ready, len, lock, playing, monitor, clientVars>>

\* Mutant: len is not cut to audio_len.
MixUncut ==
  /\ callback = "mix"
  /\ len' = [len EXCEPT ![play] = @ - 1]
  /\ lock' = [lock EXCEPT ![play] = Nobody]
  /\ callback' = "out"
  /\ UNCHANGED <<picVars, play, fill, ready, playing, switchBuf, monitor,
                 clientVars, lost>>

\* What there is, at most len bytes, is mixed into the stream.
Mix ==
  /\ callback = "mix"
  /\ len' = [len EXCEPT ![play] = IF @ > 0 THEN @ - 1 ELSE 0]
  /\ lock' = [lock EXCEPT ![play] = Nobody]
  /\ callback' = "out"
  /\ UNCHANGED <<picVars, play, fill, ready, playing, switchBuf, monitor,
                 clientVars, lost>>

Callback == Enter \/ Switch \/ Announce \/ Mix

Next ==
  \/ Client \/ Handle \/ Loop
  \/ MonitorRaise \/ MonitorClear \/ Raise
  \/ Callback

Spec == Init /\ [][Next]_vars

\* The emulator's threads run and SDL goes on calling back; the timer's thread
\* ticks for ever, and whoever waits for the controller's mutex gets it.
FairSpec ==
  /\ Spec
  /\ PicFairness
  /\ SF_vars(RaiseLock("timer") /\ Raise)
  /\ SF_vars(MonitorRaise) /\ WF_vars(MonitorClear)
  /\ WF_vars(Client) /\ WF_vars(Handle) /\ WF_vars(Callback)

-----------------------------------------------------------------------------
\* No assertion stops the emulator: an interrupt has a number (cpu.c:94), and
\* the callback never runs while both indices name one chunk (audio.c:108).
NoAssertionFails == cpu # "aborted"

\* Where the request for the next piece of music is, and at last its answer.
Places == {"announced", "switch_buf", "raising", "pending", "taken", "reload", "ready"}

RequestAt(r) ==
  \/ r = "announced"  /\ callback = "announce"
  \/ r = "switch_buf" /\ switchBuf /\ monitor = "poll"
  \/ r = "raising"    /\ thread["audio"] = "locked"
  \/ r = "pending"    /\ intrNo = Irq.audio
  \/ r = "taken"      /\ cpu = "handle" /\ got = Irq.audio
  \/ r = "reload"     /\ reload /\ pc \notin {"len", "done"}
  \/ r = "ready"      /\ ready[fill]

\* Requests never multiply: however the threads interleave, the chunks change
\* places once for every piece that is written.
OneRequest == \A q, r \in Places : RequestAt(q) /\ RequestAt(r) => q = r

\* The program writes into the chunk whose mutex it holds, and that is neither
\* the one being played nor one with music that has not been played.
CopyUndisturbed ==
  /\ pc \in {"copy", "len"} => target = fill /\ lock[fill] = "cpu" /\ fill # play
  /\ pc = "copy" => ~ready[fill]

\* The music goes on: a callback that waits for the next chunk gets it, unless
\* a request has been lost in one of the three places where the code can lose it.
MusicGoesOn == callback = "seek" ~> callback # "seek" \/ lost # {}
=============================================================================
