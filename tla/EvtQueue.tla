------------------------------ MODULE EvtQueue ------------------------------
(***************************************************************************)
(* The keyboard event queue of keys.c: a ring of QDepth slots between the  *)
(* TIM6 interrupt (Evt_EnQueue, called from Key_Read) and TaskGUI          *)
(* (Evt_InitQueue once, then Evt_DeQueue in every pass of its loop).  The  *)
(* interrupt runs to completion between any two accesses of the task;      *)
(* nothing suspends it.                                                    *)
(***************************************************************************)
EXTENDS Naturals, Sequences

CONSTANTS
    QDepth,      \* EVT_QDEPTH
    QWidth,      \* EVT_QWIDTH, the bytes of an event
    Byte,        \* the values a byte of an event takes
    NoEvent      \* what ButtonEvent got before its first event

ASSUME QueueAssumption ==
    /\ QDepth \in Nat /\ QDepth > 1
    /\ QWidth \in Nat /\ QWidth > 0
    /\ Byte # {}

Slot  == 0..QDepth - 1
Index == 0..QWidth - 1
Event == [Index -> Byte]

VARIABLES
    buff, head, tail,    \* evt_queue
    ret,                 \* what Evt_EnQueue returned last
    gui,                 \* where TaskGUI is
    i, event,            \* Evt_DeQueue's locals
    got                  \* the event ButtonEvent dispatched last

vars == <<buff, head, tail, ret, gui, i, event, got>>

\* Mutated: the pointer wraps one slot late.
AdvanceLate(x) == (x + 1) % (QDepth + 1)

\* ADVANCE_QPTR
Advance(x) == (x + 1) % QDepth

\* How many events the ring holds, and the slot of the k-th oldest.
Count   == IF head >= tail THEN head - tail ELSE head - tail + QDepth
Pos(k)  == IF tail + k < QDepth THEN tail + k ELSE tail + k - QDepth

\* The statics are zero at start-up; a slot's old contents never matter.
Init == /\ \E b \in Byte : /\ buff = [s \in Slot |-> [j \in Index |-> b]]
                           /\ event = [j \in Index |-> b]
        /\ head = 0 /\ tail = 0 /\ ret = TRUE
        /\ gui = "boot" /\ i = 0 /\ got = NoEvent

-----------------------------------------------------------------------------
(***************************************************************************)
(* Interrupt: Evt_EnQueue.                                                 *)
(***************************************************************************)
EnQueue(e) ==
    /\ Advance(head) # tail
    /\ buff' = [buff EXCEPT ![head] = e]
    /\ head' = Advance(head)
    /\ ret' = TRUE
    /\ UNCHANGED <<tail, gui, i, event, got>>

\* Mutated: a full queue overwrites its oldest event's slot.
EnQueueOverwrites ==
    /\ Advance(head) = tail
    /\ \E e \in Event : buff' = [buff EXCEPT ![tail] = e]
    /\ ret' = FALSE
    /\ UNCHANGED <<head, tail, gui, i, event, got>>

\* Queue is full: event will be lost, and Key_Read does not look at the result.
EnQueueFull ==
    /\ Advance(head) = tail
    /\ ret' = FALSE
    /\ UNCHANGED <<buff, head, tail, gui, i, event, got>>

(***************************************************************************)
(* TaskGUI: Evt_InitQueue, whose two stores the compiler may order either  *)
(* way, then Evt_DeQueue.                                                  *)
(***************************************************************************)
InitFirst ==
    /\ gui = "boot"
    /\ \/ head' = 0 /\ gui' = "initTail" /\ UNCHANGED tail
       \/ tail' = 0 /\ gui' = "initHead" /\ UNCHANGED head
    /\ UNCHANGED <<buff, ret, i, event, got>>

InitSecond ==
    /\ \/ gui = "initTail" /\ tail' = 0 /\ UNCHANGED head
       \/ gui = "initHead" /\ head' = 0 /\ UNCHANGED tail
    /\ gui' = "idle"
    /\ UNCHANGED <<buff, ret, i, event, got>>

DeQueueCheck ==
    /\ gui = "idle" /\ tail # head
    /\ gui' = "copy" /\ i' = 0
    /\ UNCHANGED <<buff, head, tail, ret, event, got>>

DeQueueCopy ==
    /\ gui = "copy" /\ i < QWidth
    /\ event' = [event EXCEPT ![i] = buff[tail][i]]
    /\ i' = i + 1
    /\ UNCHANGED <<buff, head, tail, ret, gui, got>>

\* Mutated: the last byte of the event is not waited for.
DeQueueAdvanceEarly ==
    /\ gui = "copy" /\ i = QWidth - 1
    /\ tail' = Advance(tail) /\ got' = event
    /\ gui' = "idle"
    /\ UNCHANGED <<buff, head, ret, i, event>>

\* Mutated: an event is delivered and left in its slot.
DeQueueStays ==
    /\ gui = "copy" /\ i = QWidth
    /\ got' = event
    /\ gui' = "idle"
    /\ UNCHANGED <<buff, head, tail, ret, i, event>>

DeQueueAdvance ==
    /\ gui = "copy" /\ i = QWidth
    /\ tail' = Advance(tail) /\ got' = event
    /\ gui' = "idle"
    /\ UNCHANGED <<buff, head, ret, i, event>>

GuiStep == \/ InitFirst \/ InitSecond
           \/ DeQueueCheck \/ DeQueueCopy \/ DeQueueAdvance

Next == (\E e \in Event : EnQueue(e)) \/ EnQueueFull \/ GuiStep

\* TaskGUI's loop runs for ever; keys are pressed or not.
Spec == Init /\ [][Next]_vars /\ WF_vars(GuiStep)

-----------------------------------------------------------------------------
TypeOK ==
    /\ buff \in [Slot -> Event] /\ head \in Slot /\ tail \in Slot
    /\ ret \in BOOLEAN
    /\ gui \in {"boot", "initTail", "initHead", "idle", "copy"}
    /\ i \in 0..QWidth /\ event \in Event
    /\ got \in Event \cup {NoEvent}

\* Nothing was dequeued before Evt_InitQueue ran, so its store to tail finds 0.
TailZeroAtBoot == gui \in {"boot", "initTail", "initHead"} => tail = 0

\* While TaskGUI copies an event the interrupt leaves that slot alone: the bytes
\* copied so far are those of the oldest event.
CopyIsIntact ==
    gui = "copy" => /\ head # tail
                    /\ \A j \in Index : j < i => event[j] = buff[tail][j]

\* The inductive invariant.
IInv == TypeOK /\ TailZeroAtBoot /\ CopyIsIntact

\* The ring as a sequence, the oldest event first.
Held == [k \in 1..Count |-> buff[Pos(k - 1)]]

Fifo == INSTANCE BoundedFifo
            WITH q <- Held, out <- got, Capacity <- QDepth - 1

\* The ring, the interrupt and the byte-by-byte copy implement a FIFO of
\* QDepth - 1 events: whole events, in order, each once, and refused only when
\* the queue is full.
ImplementsFifo == Fifo!FifoSpec

\* An event in the queue is dispatched: the slot it waits in is left.
EveryEventIsTaken ==
    \A t \in Slot : (tail = t /\ head # t /\ gui = "idle") ~> tail # t
=============================================================================
