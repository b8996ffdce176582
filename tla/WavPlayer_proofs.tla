--------------------------- MODULE WavPlayer_proofs ---------------------------
(***************************************************************************)
(* Proofs about WavPlayer, for files of any length and any number of       *)
(* sticks plugged in, pulled out and plugged in again at any moment.       *)
(***************************************************************************)
EXTENDS WavPlayer, TLAPS

(***************************************************************************)
(* The inductive invariant.                                                *)
(***************************************************************************)
NoSem == sem[0] = 0 /\ sem[1] = 0

\* A task that is at work before the DMA.
Starting == task \in {<<"preload", 0>>, <<"preload", 1>>, <<"start", 0>>}

\* The USB thread has a stick whose file it has not opened yet.
StickInv ==
    /\ file = "open" => stick = "in"
    /\ usb \in {"mounted", "close", "dmastop"} => file # "open"

\* When the DMA runs, and what the USB thread may rely on when it starts a playback.
DmaInv ==
    /\ task = Gone \/ Starting => dma = Off
    /\ ~handle => task = Gone
    /\ ~handle \/ Starting => NoSem
    /\ Starting => playing /\ usb \in {"idle", "mounted"}
    /\ usb \in {"open", "init", "create"} => dma = Off /\ TaskBlocked
    /\ usb = "create" => rest = size /\ last = 0 /\ playing
    /\ dma # Off /\ task # <<"stop", 0>> => playing \/ usb \in {"close", "dmastop"}
    /\ \A h \in Half : task = <<"take", h>> /\ dma = Off => sem[h] = 0
    /\ \A h \in Half : task = <<"fill", h>> => dma # Off

\* As long as the player keeps up: where the DMA is when it waits for or fills h.
PlaceInv ==
    ~late => \A h \in Half :
        /\ task = <<"fill", h>> => dma = 1 - h /\ NoSem
        /\ task = <<"take", h>> /\ dma = h => NoSem
        /\ task = <<"take", h>> /\ dma = 1 - h => sem[h] = 1 /\ sem[1 - h] = 0

\* There is no more to read.
Ended == file # "open" \/ rest = 0

\* x plays and y comes next, with r pieces to read after them.
Playing(x, y, r) ==
    /\ x \in {Silence, last + 1}
    /\ y # Silence => x = last + 1 /\ y = last + 2 /\ r = size - last - 2
    /\ y = Silence => Ended
    /\ y = Silence /\ file = "open" => last + (IF x = Silence THEN 0 ELSE 1) >= size

\* x plays, and what comes next is not known yet.
Alone(x, r) ==
    /\ x \in {Silence, last + 1}
    /\ x # Silence => r = size - last - 1
    /\ x = Silence => Ended
    /\ x = Silence /\ file = "open" => last >= size

\* What the halves hold of the file.
PieceInv ==
    /\ task = <<"preload", 0>> => rest = size /\ last = 0
    /\ task = <<"preload", 1>> => last = 0 /\ Alone(buf[0], rest)
    /\ task = <<"start", 0>> => last = 0 /\ Playing(buf[0], buf[1], rest)
    /\ ~late => \A h \in Half :
        /\ task = <<"take", h>> /\ dma = h => Playing(buf[h], buf[1 - h], rest)
        /\ task = <<"take", h>> /\ dma = 1 - h => Alone(buf[1 - h], rest)
        /\ task = <<"fill", h>> => Alone(buf[1 - h], rest)
    /\ ~late /\ task = <<"stop", 0>> /\ file = "open" => last + 1 >= size

PlayerInv == TypeOK /\ rest <= size /\ StickInv /\ DmaInv /\ PlaceInv /\ PieceInv

\* Types, and that the file is read to its end at most.
LEMMA StepType == PlayerInv /\ [Next]_vars => TypeOK' /\ rest' <= size'
<1> SUFFICES ASSUME PlayerInv, [Next]_vars PROVE TypeOK' /\ rest' <= size'
  OBVIOUS
<1> USE BoundAssumption DEF PlayerInv, TypeOK, Tasks, Half, Silence, Off, Gone, hist
<1>1. CASE StartDma
  BY <1>1 DEF StartDma
<1>2. CASE TaskStop
  <2>1. Gone \in Tasks /\ [h \in Half |-> Silence] \in [Half -> 0..MaxPieces]
    BY DEF Gone, Tasks
  <2>2. QED
    BY <1>2, <2>1 DEF TaskStop
<1>3. ASSUME NEW h \in Half, Preload(h) PROVE TypeOK' /\ rest' <= size'
  BY <1>3 DEF Preload, Fill
<1>4. ASSUME NEW h \in Half, TakeSemaphore(h) PROVE TypeOK' /\ rest' <= size'
  BY <1>4 DEF TakeSemaphore
<1>5. ASSUME NEW h \in Half, Refill(h) PROVE TypeOK' /\ rest' <= size'
  BY <1>5 DEF Refill, Fill, FramesWritten
<1>6. CASE DmaHalfPlayed
  BY <1>6 DEF DmaHalfPlayed, TaskBlocked
<1>7. CASE Plug \/ Unplug
  BY <1>7 DEF Plug, Unplug
<1>8. CASE UsbStep
  <2>1. CASE UsbDisconnection \/ UsbStart \/ UsbStopClose \/ UsbOpen
    BY <2>1 DEF UsbDisconnection, UsbStart, UsbStopClose, UsbOpen
  <2>2. CASE UsbStopDma
    <3>1. [h \in Half |-> Silence] \in [Half -> 0..MaxPieces]
      OBVIOUS
    <3>2. QED
      BY <2>2, <3>1 DEF UsbStopDma
  <2>3. CASE UsbInit
    BY <2>3 DEF UsbInit
  <2>4. CASE UsbCreate
    <3>1. CASE handle
      BY <2>4, <3>1 DEF UsbCreate
    <3>2. CASE ~handle
      <4>1. <<"preload", 0>> \in Tasks
        BY DEF Tasks
      <4>2. task' = <<"preload", 0>> /\ handle'
        BY <2>4, <3>2 DEF UsbCreate
      <4>3. QED
        BY <2>4, <4>1, <4>2 DEF UsbCreate
    <3>3. QED
      BY <3>1, <3>2
  <2>5. QED
    BY <1>8, <2>1, <2>2, <2>3, <2>4 DEF UsbStep
<1>9. CASE Quiescent \/ UNCHANGED vars
  BY <1>9 DEF Quiescent, vars
<1>10. QED
  BY <1>1, <1>2, <1>3, <1>4, <1>5, <1>6, <1>7, <1>8, <1>9 DEF Next, TaskStep

\* The file is open only while its stick is in.
LEMMA StepStick == PlayerInv /\ [Next]_vars => StickInv'
<1> SUFFICES ASSUME PlayerInv, [Next]_vars PROVE StickInv'
  OBVIOUS
<1> USE BoundAssumption DEF PlayerInv, StickInv, hist
<1>1. CASE StartDma
  BY <1>1 DEF StartDma
<1>2. CASE TaskStop
  BY <1>2 DEF TaskStop
<1>3. ASSUME NEW h \in Half, Preload(h) PROVE StickInv'
  BY <1>3 DEF Preload, Fill
<1>4. ASSUME NEW h \in Half, TakeSemaphore(h) PROVE StickInv'
  BY <1>4 DEF TakeSemaphore
<1>5. ASSUME NEW h \in Half, Refill(h) PROVE StickInv'
  BY <1>5 DEF Refill, Fill, FramesWritten
<1>6. CASE DmaHalfPlayed
  BY <1>6 DEF DmaHalfPlayed, TaskBlocked
<1>7. CASE Plug \/ Unplug
  BY <1>7 DEF Plug, Unplug
<1>8. CASE UsbStep
  BY <1>8 DEF UsbStep, TaskBlocked, UsbDisconnection, UsbStart, UsbStopClose, UsbStopDma,
              UsbOpen, UsbInit, UsbCreate
<1>9. CASE Quiescent \/ UNCHANGED vars
  BY <1>9 DEF Quiescent, vars
<1>10. QED
  BY <1>1, <1>2, <1>3, <1>4, <1>5, <1>6, <1>7, <1>8, <1>9 DEF Next, TaskStep

\* The DMA runs for the player only, and the USB thread stops it before it starts anew.
LEMMA StepDma == PlayerInv /\ [Next]_vars => DmaInv'
<1> SUFFICES ASSUME PlayerInv, [Next]_vars PROVE DmaInv'
  OBVIOUS
<1> USE BoundAssumption DEF PlayerInv, TypeOK, Half, Off, Gone, hist, StickInv, DmaInv,
           Starting, TaskBlocked, NoSem
<1>1. CASE StartDma
  BY <1>1 DEF StartDma
<1>2. CASE TaskStop
  BY <1>2 DEF TaskStop
<1>3. ASSUME NEW h \in Half, Preload(h) PROVE DmaInv'
  BY <1>3 DEF Preload, Fill
<1>4. ASSUME NEW h \in Half, TakeSemaphore(h) PROVE DmaInv'
  BY <1>4 DEF TakeSemaphore
<1>5. ASSUME NEW h \in Half, Refill(h) PROVE DmaInv'
  BY <1>5 DEF Refill, Fill, FramesWritten
<1>6. CASE DmaHalfPlayed
  BY <1>6 DEF DmaHalfPlayed
<1>7. CASE Plug \/ Unplug
  BY <1>7 DEF Plug, Unplug
<1>8. CASE UsbStep
  <2>1. CASE UsbDisconnection
    BY <1>8, <2>1 DEF UsbStep, UsbDisconnection
  <2>2. CASE UsbStart
    BY <1>8, <2>2 DEF UsbStep, UsbStart
  <2>3. CASE UsbStopClose
    BY <1>8, <2>3 DEF UsbStep, UsbStopClose
  <2>4. CASE UsbStopDma
    BY <1>8, <2>4 DEF UsbStep, UsbStopDma
  <2>5. CASE UsbOpen
    BY <1>8, <2>5 DEF UsbStep, UsbOpen
  <2>6. CASE UsbInit
    BY <1>8, <2>6 DEF UsbStep, UsbInit
  <2>7. CASE UsbCreate
    BY <1>8, <2>7 DEF UsbStep, UsbCreate
  <2>8. QED
    BY <1>8, <2>1, <2>2, <2>3, <2>4, <2>5, <2>6, <2>7 DEF UsbStep
<1>9. CASE Quiescent \/ UNCHANGED vars
  BY <1>9 DEF Quiescent, vars
<1>10. QED
  BY <1>1, <1>2, <1>3, <1>4, <1>5, <1>6, <1>7, <1>8, <1>9 DEF Next, TaskStep

\* While the player keeps up, each interrupt wakes it for the half that was played.
LEMMA StepPlace == PlayerInv /\ [Next]_vars => PlaceInv'
<1> SUFFICES ASSUME PlayerInv, [Next]_vars PROVE PlaceInv'
  OBVIOUS
<1> USE BoundAssumption DEF PlayerInv, TypeOK, Half, Off, Gone, hist, DmaInv, Starting,
           TaskBlocked, NoSem, PlaceInv
<1>1. CASE StartDma
  BY <1>1 DEF StartDma
<1>2. CASE TaskStop
  BY <1>2 DEF TaskStop
<1>3. ASSUME NEW h \in Half, Preload(h) PROVE PlaceInv'
  BY <1>3 DEF Preload, Fill
<1>4. ASSUME NEW h \in Half, TakeSemaphore(h) PROVE PlaceInv'
  BY <1>4 DEF TakeSemaphore
<1>5. ASSUME NEW h \in Half, Refill(h) PROVE PlaceInv'
  BY <1>5 DEF Refill, Fill, FramesWritten
<1>6. CASE DmaHalfPlayed
  BY <1>6 DEF DmaHalfPlayed
<1>7. CASE Plug \/ Unplug
  BY <1>7 DEF Plug, Unplug
<1>8. CASE UsbStep
  <2>1. CASE UsbDisconnection
    BY <1>8, <2>1 DEF UsbStep, UsbDisconnection
  <2>2. CASE UsbStart
    BY <1>8, <2>2 DEF UsbStep, UsbStart
  <2>3. CASE UsbStopClose
    BY <1>8, <2>3 DEF UsbStep, UsbStopClose
  <2>4. CASE UsbStopDma
    BY <1>8, <2>4 DEF UsbStep, UsbStopDma
  <2>5. CASE UsbOpen
    BY <1>8, <2>5 DEF UsbStep, UsbOpen
  <2>6. CASE UsbInit
    BY <1>8, <2>6 DEF UsbStep, UsbInit
  <2>7. CASE UsbCreate
    BY <1>8, <2>7 DEF UsbStep, UsbCreate
  <2>8. QED
    BY <1>8, <2>1, <2>2, <2>3, <2>4, <2>5, <2>6, <2>7 DEF UsbStep
<1>9. CASE Quiescent \/ UNCHANGED vars
  BY <1>9 DEF Quiescent, vars
<1>10. QED
  BY <1>1, <1>2, <1>3, <1>4, <1>5, <1>6, <1>7, <1>8, <1>9 DEF Next, TaskStep

\* The halves hold the next pieces of the file.
LEMMA StepPiece == PlayerInv /\ [Next]_vars => PieceInv'
<1> SUFFICES ASSUME PlayerInv, [Next]_vars PROVE PieceInv'
  OBVIOUS
<1> USE BoundAssumption DEF PlayerInv, TypeOK, Half, Off, Gone, hist, StickInv, DmaInv,
           Starting, TaskBlocked, PlaceInv, NoSem, PieceInv, Playing, Alone, Ended, Silence
<1>1. CASE StartDma
  BY <1>1 DEF StartDma
<1>2. CASE TaskStop
  BY <1>2 DEF TaskStop
<1>3. ASSUME NEW h \in Half, Preload(h) PROVE PieceInv'
  BY <1>3 DEF Preload, Fill
<1>4. ASSUME NEW h \in Half, TakeSemaphore(h) PROVE PieceInv'
  BY <1>4 DEF TakeSemaphore
<1>5. ASSUME NEW h \in Half, Refill(h) PROVE PieceInv'
  BY <1>5 DEF Refill, Fill, FramesWritten
<1>6. CASE DmaHalfPlayed
  BY <1>6 DEF DmaHalfPlayed
<1>7. CASE Plug \/ Unplug
  BY <1>7 DEF Plug, Unplug
<1>8. CASE UsbStep
  <2>1. CASE UsbDisconnection
    BY <1>8, <2>1 DEF UsbStep, UsbDisconnection
  <2>2. CASE UsbStart
    BY <1>8, <2>2 DEF UsbStep, UsbStart
  <2>3. CASE UsbStopClose
    BY <1>8, <2>3 DEF UsbStep, UsbStopClose
  <2>4. CASE UsbStopDma
    BY <1>8, <2>4 DEF UsbStep, UsbStopDma
  <2>5. CASE UsbOpen
    BY <1>8, <2>5 DEF UsbStep, UsbOpen
  <2>6. CASE UsbInit
    BY <1>8, <2>6 DEF UsbStep, UsbInit
  <2>7. CASE UsbCreate
    BY <1>8, <2>7 DEF UsbStep, UsbCreate
  <2>8. QED
    BY <1>8, <2>1, <2>2, <2>3, <2>4, <2>5, <2>6, <2>7 DEF UsbStep
<1>9. CASE Quiescent \/ UNCHANGED vars
  BY <1>9 DEF Quiescent, vars
<1>10. QED
  BY <1>1, <1>2, <1>3, <1>4, <1>5, <1>6, <1>7, <1>8, <1>9 DEF Next, TaskStep

THEOREM Invariance == Spec => []PlayerInv
<1>1. Init => PlayerInv
  <2> SUFFICES ASSUME Init PROVE PlayerInv
    OBVIOUS
  <2>1. TypeOK /\ rest <= size
    <3>1. Gone \in Tasks /\ [h \in Half |-> Silence] \in [Half -> 0..MaxPieces]
      BY BoundAssumption DEF Gone, Tasks, Half, Silence
    <3>2. [h \in Half |-> 0] \in [Half -> {0, 1}]
      OBVIOUS
    <3>3. task \in Tasks /\ (task # Gone => handle)
      BY <3>1 DEF Init
    <3>4. buf \in [Half -> 0..MaxPieces] /\ sem \in [Half -> {0, 1}]
      BY <3>1, <3>2 DEF Init
    <3>5. /\ rest \in 0..MaxPieces /\ size \in 0..MaxPieces /\ last \in 0..MaxPieces
          /\ plugs \in 0..MaxPlugs /\ rest <= size
      BY BoundAssumption DEF Init
    <3>6. /\ stick \in {"in", "out", "gone"} /\ file \in {"closed", "open", "lost"}
          /\ usb \in {"idle", "mounted", "close", "dmastop", "open", "init", "create"}
          /\ handle \in BOOLEAN /\ playing \in BOOLEAN /\ late \in BOOLEAN
          /\ dma \in Half \cup {Off}
      BY DEF Init
    <3>7. QED
      BY <3>3, <3>4, <3>5, <3>6 DEF TypeOK
  <2>2. task = <<"none", 0>> /\ dma = Off /\ sem[0] = 0 /\ sem[1] = 0
    BY DEF Init, Gone, Half
  <2>3. StickInv /\ DmaInv
    BY <2>2 DEF Init, StickInv, DmaInv, Starting, NoSem, Gone, Half, Off
  <2>4. PlaceInv /\ PieceInv
    BY <2>2 DEF PlaceInv, PieceInv, Half
  <2>5. QED
    BY <2>1, <2>3, <2>4 DEF PlayerInv
<1>2. PlayerInv /\ [Next]_vars => PlayerInv'
  BY StepType, StepStick, StepDma, StepPlace, StepPiece DEF PlayerInv
<1>3. QED
  BY <1>1, <1>2, PTL DEF Spec

\* Every variable keeps its type, and no more of a file is read than it has.
THEOREM TypeCorrect == Spec => []TypeOK
<1>1. PlayerInv => TypeOK
  BY DEF PlayerInv
<1>2. QED
  BY <1>1, Invariance, PTL

\* The player that keeps up never writes the half that is playing.
THEOREM FillsTheOtherHalfHolds == Spec => []FillsTheOtherHalf
<1>1. PlayerInv => FillsTheOtherHalf
  BY DEF PlayerInv, PlaceInv, FillsTheOtherHalf
<1>2. QED
  BY <1>1, Invariance, PTL

\* The sound is the file, piece by piece, however long the file is.
THEOREM PlaysInOrderHolds == Spec => PlaysInOrder
<1>1. PlayerInv /\ [Next]_vars =>
        (~late' /\ DmaHalfPlayed => buf[dma] \in {Silence, last + 1})
  <2> SUFFICES ASSUME PlayerInv, ~late', DmaHalfPlayed
               PROVE  buf[dma] \in {Silence, last + 1}
    OBVIOUS
  <2>1. dma # Off /\ ~late /\ TaskBlocked
    BY DEF DmaHalfPlayed
  <2>2. task # Gone
    BY <2>1 DEF PlayerInv, DmaInv
  <2>3. PICK h \in Half : task = <<"take", h>> /\ sem[h] = 0
    BY <2>1, <2>2 DEF TaskBlocked
  <2>4. dma = h
    BY <2>1, <2>3 DEF PlayerInv, TypeOK, PlaceInv, Half
  <2>5. QED
    BY <2>1, <2>3, <2>4 DEF PlayerInv, PieceInv, Playing
<1>2. QED
  BY <1>1, Invariance, PTL DEF Spec, PlaysInOrder

\* Only the last piece of an undisturbed file is cut, however long the file is.
THEOREM OnlyLastPieceCutHolds == Spec => OnlyLastPieceCut
<1>1. PlayerInv => (~late /\ TaskStop /\ file = "open" => last + 1 >= size)
  BY DEF PlayerInv, PieceInv, TaskStop
<1>2. QED
  BY <1>1, Invariance, PTL DEF Spec, OnlyLastPieceCut

-----------------------------------------------------------------------------
(***************************************************************************)
(* A playback comes nearer to its end with every step: the part of         *)
(* PlaybackEnds that needs no fairness.                                    *)
(***************************************************************************)
\* What is left of a playback, in steps: for each piece the half before it is played,
\* its semaphore is taken, and the piece is read.
PlaybackLeft == CASE task[1] = "take" /\ dma = task[2] -> 3 * rest + 5
                  [] task[1] = "take" /\ dma # task[2] -> 3 * rest + 4
                  [] task[1] = "fill" -> 3 * rest + 3
                  [] OTHER -> 0

\* No playback goes round in its buffer for ever: every step of the player leaves
\* less of it or stops it, late or not; so does every half that is played to a player
\* that keeps up; and what the USB thread and the stick do stops it or adds nothing.
PlaybackDescends ==
    [][dma # Off =>
         /\ PlaybackLeft \in 0..3 * size + 5
         /\ \/ dma' = Off
            \/ PlaybackLeft' \in 0..PlaybackLeft - 1
            \/ ~TaskStep /\ PlaybackLeft' = PlaybackLeft
            \/ DmaHalfPlayed /\ late']_vars

\* One step.
LEMMA StepDescends ==
    ASSUME PlayerInv, Next, dma # Off, dma' # Off
    PROVE  \/ PlaybackLeft' \in 0..PlaybackLeft - 1
           \/ ~TaskStep /\ PlaybackLeft' = PlaybackLeft
           \/ DmaHalfPlayed /\ late'
<1>1. /\ rest \in Nat /\ size \in Nat /\ rest <= size /\ dma \in Half
      /\ DmaInv /\ PlaceInv
  BY BoundAssumption DEF PlayerInv, TypeOK
<1>2. /\ task \in Tasks /\ task # Gone /\ ~Starting
  BY <1>1 DEF PlayerInv, TypeOK, DmaInv
<1>3. \/ \E h \in Half : task = <<"take", h>> /\ task[1] = "take" /\ task[2] = h
      \/ \E h \in Half : task = <<"fill", h>> /\ task[1] = "fill" /\ task[2] = h
      \/ task = <<"stop", 0>> /\ task[1] = "stop"
  BY <1>2 DEF Tasks, Gone, Starting, Half
<1>4. ASSUME NEW h \in Half, TakeSemaphore(h)
      PROVE  PlaybackLeft' \in 0..PlaybackLeft - 1
  <2>1. task[1] = "take" /\ task'[1] = "fill" /\ rest' = rest
    BY <1>4 DEF TakeSemaphore
  <2>2. PlaybackLeft \in {3 * rest + 5, 3 * rest + 4} /\ PlaybackLeft' = 3 * rest + 3
    BY <2>1 DEF PlaybackLeft
  <2>3. QED
    BY <1>1, <2>2
<1>5. ASSUME NEW h \in Half, Refill(h)
      PROVE  PlaybackLeft' \in 0..PlaybackLeft - 1
  <2>1. PlaybackLeft = 3 * rest + 3
    BY <1>5 DEF Refill, PlaybackLeft
  <2>2. CASE FramesWritten /\ ~(h = 1 /\ ~playing)
    <3>1. task'[1] = "take" /\ rest > 0 /\ rest' = rest - 1
      BY <1>5, <2>2 DEF Refill, Fill, FramesWritten
    <3>2. PlaybackLeft' \in {3 * rest' + 5, 3 * rest' + 4}
      BY <3>1 DEF PlaybackLeft
    <3>3. QED
      BY <1>1, <2>1, <3>1, <3>2
  <2>3. CASE ~(FramesWritten /\ ~(h = 1 /\ ~playing))
    <3>1. task'[1] = "stop"
      BY <1>5, <2>3 DEF Refill
    <3>2. QED
      BY <1>1, <2>1, <3>1 DEF PlaybackLeft
  <2>4. QED
    BY <2>2, <2>3
<1>6. TaskStep => PlaybackLeft' \in 0..PlaybackLeft - 1
  BY <1>2, <1>4, <1>5 DEF TaskStep, StartDma, TaskStop, Preload, Starting, Half
<1>7. ASSUME DmaHalfPlayed, ~late'
      PROVE  PlaybackLeft' \in 0..PlaybackLeft - 1
  <2>1. ~late /\ TaskBlocked /\ UNCHANGED <<task, rest>> /\ dma' = 1 - dma
    BY <1>7 DEF DmaHalfPlayed
  <2>2. PICK h \in Half : task = <<"take", h>> /\ sem[h] = 0
    BY <1>2, <2>1 DEF TaskBlocked
  <2>3. dma = h
    BY <1>1, <2>1, <2>2 DEF PlaceInv, Half
  <2>4. task[1] = "take" /\ task[2] = h /\ dma' # h
    BY <2>1, <2>2, <2>3 DEF Half
  <2>5. PlaybackLeft = 3 * rest + 5 /\ PlaybackLeft' = 3 * rest + 4
    BY <2>1, <2>3, <2>4 DEF PlaybackLeft
  <2>6. QED
    BY <1>1, <2>5
<1>8. ASSUME UsbStep
      PROVE  PlaybackLeft' = PlaybackLeft
  <2>1. usb # "init" /\ usb # "create"
    BY <1>1 DEF DmaInv
  <2>2. UNCHANGED <<task, rest, dma>>
    BY <1>8, <2>1 DEF UsbStep, UsbDisconnection, UsbStart, UsbStopClose, UsbStopDma,
       UsbOpen, UsbInit, UsbCreate
  <2>3. QED
    BY <2>2 DEF PlaybackLeft
<1>9. ASSUME Plug \/ Unplug \/ Quiescent
       PROVE  PlaybackLeft' = PlaybackLeft
  BY <1>9 DEF Plug, Unplug, Quiescent, vars, PlaybackLeft
<1>10. QED
  BY <1>6, <1>7, <1>8, <1>9 DEF Next

\* A file of n pieces is over after 3 * n + 5 steps of the player and its stream at
\* most, as long as the player keeps up, whatever is done with sticks meanwhile.
THEOREM PlaybackDescendsHolds == Spec => PlaybackDescends
<1>1. PlayerInv /\ [Next]_vars =>
        [dma # Off =>
           /\ PlaybackLeft \in 0..3 * size + 5
           /\ \/ dma' = Off
              \/ PlaybackLeft' \in 0..PlaybackLeft - 1
              \/ ~TaskStep /\ PlaybackLeft' = PlaybackLeft
              \/ DmaHalfPlayed /\ late']_vars
  <2>1. PlayerInv /\ dma # Off => PlaybackLeft \in 0..3 * size + 5
    <3> SUFFICES ASSUME PlayerInv, dma # Off PROVE PlaybackLeft \in 0..3 * size + 5
      OBVIOUS
    <3>1. rest \in Nat /\ size \in Nat /\ rest <= size
      BY BoundAssumption DEF PlayerInv, TypeOK
    <3>2. QED
      BY <3>1 DEF PlaybackLeft
  <2>2. QED
    BY <2>1, StepDescends
<1>2. QED
  BY <1>1, Invariance, PTL DEF Spec, PlaybackDescends
=============================================================================
