----------------------------- MODULE WavPlayer -----------------------------
(***************************************************************************)
(* The WAV player: the USB host thread starts a playback when a stick is   *)
(* mounted, the player task refills a circular DMA buffer half by half,    *)
(* and the two DMA interrupts tell it which half was played.               *)
(*                                                                         *)
(* The player has the highest priority of the tasks: the USB thread runs   *)
(* only while it is blocked or gone.  The buffer is two halves; a half is  *)
(* the number of the piece of the file it holds, 0 for silence.            *)
(***************************************************************************)
EXTENDS Naturals

CONSTANTS
    MaxPieces,   \* bound: the half-buffers of audio in a file, the last padded
    MaxPlugs     \* bound: how often a stick is plugged in

ASSUME BoundAssumption == MaxPieces \in Nat /\ MaxPlugs \in Nat

VARIABLES
    stick,       \* "in", "out", or "gone": out, and the USB thread not told yet
    usb,         \* the USB thread: where it is in USBH_UserProcess
    task,        \* the player task: its place, and the half it works on
    handle,      \* player_task_handle is not NULL
    playing,     \* player.is_playing
    file,        \* player.file: "closed", "open", "lost" with its stick
    rest,        \* player.data_remaining, in pieces
    buf,         \* audio_buffer, its halves 0 and 1
    dma,         \* the half the DMA plays, 2 when it is stopped
    sem,         \* half_semaphore (sem[0]) and full_semaphore (sem[1])
    size,        \* history: the pieces of the file played
    last,        \* history: the last piece played to its end
    late,        \* history: a half was played before the other was refilled
    plugs        \* counter, bounded by MaxPlugs

hist == <<size, last, late>>
vars == <<stick, usb, task, handle, playing, file, rest, buf, dma, sem, hist, plugs>>

Half == {0, 1}
Silence == 0
Off == 2
Gone == <<"none", 0>>

Init == /\ stick = "out" /\ usb = "idle" /\ task = Gone
        /\ handle = FALSE /\ playing = FALSE /\ file = "closed" /\ rest = 0
        /\ buf = [h \in Half |-> Silence] /\ dma = Off
        /\ sem = [h \in Half |-> 0]
        /\ size = 0 /\ last = 0 /\ late = FALSE /\ plugs = 0

-----------------------------------------------------------------------------
(***************************************************************************)
(* The player task.                                                        *)
(***************************************************************************)
\* Mutated: data_remaining is not decreased.
FillKeepsRest(h) ==
    \/ /\ file = "open" /\ rest > 0
       /\ buf' = [buf EXCEPT ![h] = size - rest + 1]
       /\ UNCHANGED rest
    \/ /\ file # "open" \/ rest = 0
       /\ buf' = [buf EXCEPT ![h] = Silence]
       /\ UNCHANGED rest

\* read_and_convert_wav into half h.  With data left and the stick in place it
\* fills the half, the last piece is padded with zeros; otherwise the whole half
\* is zeroed.  A stick that goes away while it reads counts as gone before.
Fill(h) ==
    \/ /\ file = "open" /\ rest > 0
       /\ buf' = [buf EXCEPT ![h] = size - rest + 1]
       /\ rest' = rest - 1
    \/ /\ file # "open" \/ rest = 0
       /\ buf' = [buf EXCEPT ![h] = Silence]
       /\ UNCHANGED rest

FramesWritten == file = "open" /\ rest > 0

Preload(h) ==
    /\ task = <<"preload", h>>
    /\ Fill(h)
    /\ task' = IF h = 0 THEN <<"preload", 1>> ELSE <<"start", 0>>
    /\ UNCHANGED <<stick, usb, handle, playing, file, dma, sem, hist, plugs>>

\* HAL_I2S_Transmit_DMA; the stream is free, so it does not fail.
StartDma ==
    /\ task = <<"start", 0>>
    /\ dma' = 0
    /\ task' = IF playing THEN <<"take", 0>> ELSE <<"stop", 0>>
    /\ UNCHANGED <<stick, usb, handle, playing, file, rest, buf, sem, hist, plugs>>

TakeSemaphore(h) ==
    /\ task = <<"take", h>> /\ sem[h] = 1
    /\ sem' = [sem EXCEPT ![h] = 0]
    /\ task' = <<"fill", h>>
    /\ UNCHANGED <<stick, usb, handle, playing, file, rest, buf, dma, hist, plugs>>

\* Mutated: the end of the file is seen when its last piece was read.
RefillStopsEarly(h) ==
    /\ task = <<"fill", h>>
    /\ Fill(h)
    /\ task' = IF rest <= 1 \/ ~FramesWritten \/ (h = 1 /\ ~playing)
               THEN <<"stop", 0>> ELSE <<"take", 1 - h>>
    /\ UNCHANGED <<stick, usb, handle, playing, file, dma, sem, hist, plugs>>

\* Mutated: frames_written is not looked at.
RefillForever(h) ==
    /\ task = <<"fill", h>>
    /\ Fill(h)
    /\ task' = IF h = 1 /\ ~playing THEN <<"stop", 0>> ELSE <<"take", 1 - h>>
    /\ UNCHANGED <<stick, usb, handle, playing, file, dma, sem, hist, plugs>>

\* The refill; the loop's condition is looked at after the second half only.
Refill(h) ==
    /\ task = <<"fill", h>>
    /\ Fill(h)
    /\ task' = IF ~FramesWritten \/ (h = 1 /\ ~playing) THEN <<"stop", 0>>
               ELSE <<"take", 1 - h>>
    /\ UNCHANGED <<stick, usb, handle, playing, file, dma, sem, hist, plugs>>

\* Audio_Player_Stop, then vTaskDelete(NULL), which does not return: the handle
\* is never set to NULL.
TaskStop ==
    /\ task = <<"stop", 0>> /\ task' = Gone
    /\ playing' = FALSE /\ file' = "closed" /\ dma' = Off
    /\ buf' = [h \in Half |-> Silence]
    /\ UNCHANGED <<stick, usb, handle, rest, sem, hist, plugs>>

TaskStep == \/ StartDma \/ TaskStop
            \/ \E h \in Half : Preload(h) \/ TakeSemaphore(h) \/ Refill(h)

\* The player leaves the processor to other tasks.
TaskBlocked == task = Gone \/ \E h \in Half : task = <<"take", h>> /\ sem[h] = 0

-----------------------------------------------------------------------------
(***************************************************************************)
(* The DMA and its interrupts.                                             *)
(***************************************************************************)
\* Mutated: the interrupts give the semaphore of the half that comes next.
DmaHalfPlayedSwapped ==
    /\ dma # Off
    /\ sem' = [sem EXCEPT ![1 - dma] = 1]
    /\ dma' = 1 - dma
    /\ last' = IF buf[dma] = Silence THEN last ELSE buf[dma]
    /\ late' = (late \/ ~TaskBlocked)
    /\ UNCHANGED <<stick, usb, task, handle, playing, file, rest, buf, size, plugs>>

\* HAL_I2S_TxHalfCpltCallback or HAL_I2S_TxCpltCallback: the semaphores are
\* binary, one that was given already stays given.
DmaHalfPlayed ==
    /\ dma # Off
    /\ sem' = [sem EXCEPT ![dma] = 1]
    /\ dma' = 1 - dma
    /\ last' = IF buf[dma] = Silence THEN last ELSE buf[dma]
    /\ late' = (late \/ ~TaskBlocked)
    /\ UNCHANGED <<stick, usb, task, handle, playing, file, rest, buf, size, plugs>>

-----------------------------------------------------------------------------
(***************************************************************************)
(* The stick, and the USB host thread: Mount_USB, Audio_Player_Start.      *)
(***************************************************************************)
Plug ==
    /\ stick = "out" /\ usb = "idle" /\ plugs < MaxPlugs
    /\ stick' = "in" /\ usb' = "mounted" /\ plugs' = plugs + 1
    /\ UNCHANGED <<task, handle, playing, file, rest, buf, dma, sem, hist>>

Unplug ==
    /\ stick = "in" /\ stick' = "gone"
    /\ file' = IF file = "open" THEN "lost" ELSE file
    /\ UNCHANGED <<usb, task, handle, playing, rest, buf, dma, sem, hist, plugs>>

\* HOST_USER_DISCONNECTION: Unmount_USB, and nothing for the player.
UsbDisconnection ==
    /\ usb = "idle" /\ stick = "gone" /\ stick' = "out"
    /\ UNCHANGED <<usb, task, handle, playing, file, rest, buf, dma, sem, hist, plugs>>

\* A playback under way is stopped first: Audio_Player_Stop, in three steps the
\* player may come between.
UsbStart ==
    /\ usb = "mounted"
    /\ usb' = IF playing THEN "close" ELSE "open"
    /\ playing' = FALSE
    /\ UNCHANGED <<stick, task, handle, file, rest, buf, dma, sem, hist, plugs>>

UsbStopClose ==
    /\ usb = "close" /\ usb' = "dmastop"
    /\ file' = "closed"
    /\ UNCHANGED <<stick, task, handle, playing, rest, buf, dma, sem, hist, plugs>>

UsbStopDma ==
    /\ usb = "dmastop" /\ usb' = "open"
    /\ dma' = Off /\ buf' = [h \in Half |-> Silence]
    /\ UNCHANGED <<stick, task, handle, playing, file, rest, sem, hist, plugs>>

\* f_open, after vTaskDelay when there was something to stop; it fails without a stick
\* and when the stick has no such file.
UsbOpen ==
    /\ usb = "open"
    /\ \/ stick = "in" /\ file' = "open" /\ usb' = "init"
       \/ usb' = "idle" /\ UNCHANGED file
    /\ UNCHANGED <<stick, task, handle, playing, rest, buf, dma, sem, hist, plugs>>

UsbInit ==
    /\ usb = "init" /\ usb' = "create"
    /\ \E n \in 0..MaxPieces : rest' = n /\ size' = n
    /\ last' = 0 /\ playing' = TRUE
    /\ UNCHANGED <<stick, task, handle, file, buf, dma, sem, late, plugs>>

\* Mutated: the handle of the new task is not kept.
UsbCreateAgain ==
    /\ usb = "create" /\ usb' = "idle"
    /\ task' = <<"preload", 0>>
    /\ UNCHANGED <<stick, handle, playing, file, rest, buf, dma, sem, hist, plugs>>

UsbCreate ==
    /\ usb = "create" /\ usb' = "idle"
    /\ IF handle THEN UNCHANGED <<handle, task>>
       ELSE handle' = TRUE /\ task' = <<"preload", 0>>
    /\ UNCHANGED <<stick, playing, file, rest, buf, dma, sem, hist, plugs>>

UsbStep == /\ TaskBlocked
           /\ \/ UsbDisconnection \/ UsbStart \/ UsbStopClose \/ UsbStopDma
              \/ UsbOpen \/ UsbInit \/ UsbCreate

\* Nothing plays, and nobody comes with a stick any more.
Quiescent == dma = Off /\ usb = "idle" /\ TaskBlocked /\ UNCHANGED vars

Next == TaskStep \/ DmaHalfPlayed \/ Plug \/ Unplug \/ UsbStep \/ Quiescent

\* The sample clock never stops; the player comes first, and blocks between two
\* halves, which is when the USB thread runs.
Spec == /\ Init /\ [][Next]_vars
        /\ WF_vars(TaskStep) /\ WF_vars(DmaHalfPlayed) /\ SF_vars(UsbStep)

-----------------------------------------------------------------------------
(***************************************************************************)
(* Properties.                                                             *)
(***************************************************************************)
Tasks == ({"none", "start", "stop"} \X {0}) \cup ({"preload", "take", "fill"} \X Half)

\* One player at most, and it exists only after its handle was set; the halves
\* hold pieces of the file that is open.
TypeOK ==
    /\ stick \in {"in", "out", "gone"}
    /\ usb \in {"idle", "mounted", "close", "dmastop", "open", "init", "create"}
    /\ task \in Tasks
    /\ handle \in BOOLEAN /\ playing \in BOOLEAN
    /\ task # Gone => handle
    /\ file \in {"closed", "open", "lost"}
    /\ rest \in 0..MaxPieces /\ size \in 0..MaxPieces /\ last \in 0..MaxPieces
    /\ buf \in [Half -> 0..MaxPieces]
    /\ dma \in Half \cup {Off}
    /\ sem \in [Half -> {0, 1}]
    /\ late \in BOOLEAN /\ plugs \in 0..MaxPlugs

\* While the stick keeps up, the sound is the file: each piece once, in order, and
\* silence when there is no more.
PlaysInOrder ==
    [][~late' /\ DmaHalfPlayed => buf[dma] \in {Silence, last + 1}]_vars

\* While the stick keeps up, the player writes the half that was played, never the
\* one that is playing.
FillsTheOtherHalf ==
    \A h \in Half : ~late /\ task = <<"fill", h>> => dma = 1 - h

\* A file that was not disturbed is cut by its last piece at most: the read that
\* finds no more data stops the DMA, which has just begun that piece.
OnlyLastPieceCut ==
    [][~late /\ TaskStop /\ file = "open" => last + 1 >= size]_vars

\* A playback ends, whatever happens to the stick.
PlaybackEnds == dma # Off ~> dma = Off

\* wav_player.c: "Cria task do player".  A playback that was started is heard,
\* unless its stick is taken away.
StartPlays == usb = "create" ~> (dma # Off \/ file = "lost")
=============================================================================
