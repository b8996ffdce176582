--------------------------- MODULE EvtQueue_proofs ---------------------------
(***************************************************************************)
(* Proofs about EvtQueue, for every depth, width and set of bytes: the     *)
(* event TaskGUI copies is never disturbed, and the ring implements the    *)
(* bounded FIFO.                                                           *)
(***************************************************************************)
EXTENDS EvtQueue, TLAPS

\* ADVANCE_QPTR stays in the ring and wraps at its last slot.
LEMMA AdvanceWraps ==
    ASSUME NEW x \in Slot
    PROVE  /\ Advance(x) \in Slot
           /\ Advance(x) = IF x = QDepth - 1 THEN 0 ELSE x + 1
<1>1. CASE x = QDepth - 1
  <2>1. QDepth % QDepth = 0
    BY QueueAssumption
  <2>2. QED
    BY <1>1, <2>1, QueueAssumption DEF Advance, Slot
<1>2. CASE x # QDepth - 1
  <2>1. x + 1 \in 0..QDepth - 1
    BY <1>2, QueueAssumption DEF Slot
  <2>2. (x + 1) % QDepth = x + 1
    BY <2>1, QueueAssumption
  <2>3. QED
    BY <1>2, <2>1, <2>2 DEF Advance, Slot
<1>3. QED
  BY <1>1, <1>2

\* A ring with head # tail # Advance(head) has room, and one with
\* Advance(head) = tail holds QDepth - 1 events.
LEMMA CountFacts ==
    ASSUME TypeOK
    PROVE  /\ Count \in 0..QDepth - 1
           /\ Count = 0 <=> head = tail
           /\ Count = QDepth - 1 <=> Advance(head) = tail
           /\ \A k \in 0..QDepth - 1 : Pos(k) \in Slot
           /\ Pos(0) = tail
           /\ Pos(Count) = head
           /\ \A k \in 0..QDepth - 1 : Pos(k) = head => k = Count
<1>1. head \in Slot /\ tail \in Slot
  BY DEF TypeOK
<1>2. Advance(head) = IF head = QDepth - 1 THEN 0 ELSE head + 1
  BY <1>1, AdvanceWraps
<1>3. QED
  BY <1>1, <1>2, QueueAssumption DEF Count, Pos, Slot

\* The conjuncts of the inductive invariant hold at start-up.
LEMMA InitIInv == Init => IInv
<1> SUFFICES ASSUME Init PROVE IInv
  OBVIOUS
<1>1. TypeOK
  BY QueueAssumption DEF Init, TypeOK, Slot, Index, Event
<1>2. QED
  BY <1>1 DEF Init, IInv, TailZeroAtBoot, CopyIsIntact

\* Every step keeps the inductive invariant: the interrupt stores into the slot
\* at head, which is never the one TaskGUI copies from.
LEMMA StepIInv == IInv /\ [Next]_vars => IInv'
<1> SUFFICES ASSUME IInv, [Next]_vars PROVE IInv'
  OBVIOUS
<1> USE QueueAssumption DEF IInv, TypeOK
<1>a. Advance(head) \in Slot /\ Advance(tail) \in Slot
  BY AdvanceWraps
<1>1. ASSUME NEW e \in Event, EnQueue(e) PROVE IInv'
  <2>1. TypeOK'
    BY <1>1, <1>a DEF EnQueue
  <2>2. TailZeroAtBoot'
    BY <1>1 DEF EnQueue, TailZeroAtBoot
  <2>3. CopyIsIntact'
    BY <1>1 DEF EnQueue, CopyIsIntact
  <2>4. QED
    BY <2>1, <2>2, <2>3
<1>2. CASE EnQueueFull
  BY <1>2 DEF EnQueueFull, TailZeroAtBoot, CopyIsIntact
<1>3. CASE InitFirst
  BY <1>3 DEF InitFirst, TailZeroAtBoot, CopyIsIntact, Slot
<1>4. CASE InitSecond
  BY <1>4 DEF InitSecond, TailZeroAtBoot, CopyIsIntact, Slot
<1>5. CASE DeQueueCheck
  BY <1>5 DEF DeQueueCheck, TailZeroAtBoot, CopyIsIntact, Index
<1>6. CASE DeQueueCopy
  <2>1. i \in Index /\ tail \in Slot
    BY <1>6 DEF DeQueueCopy, Index
  <2>2. buff[tail] \in Event
    BY <2>1
  <2>3. TypeOK'
    BY <1>6, <2>1, <2>2 DEF DeQueueCopy, Event, Index
  <2>4. TailZeroAtBoot'
    BY <1>6 DEF DeQueueCopy, TailZeroAtBoot
  <2>5. CopyIsIntact'
    BY <1>6, <2>1 DEF DeQueueCopy, CopyIsIntact, Event, Index
  <2>6. QED
    BY <2>3, <2>4, <2>5
<1>7. CASE DeQueueAdvance
  BY <1>7, <1>a DEF DeQueueAdvance, TailZeroAtBoot, CopyIsIntact
<1>8. CASE UNCHANGED vars
  BY <1>8 DEF vars, TailZeroAtBoot, CopyIsIntact
<1>9. QED
  BY <1>1, <1>2, <1>3, <1>4, <1>5, <1>6, <1>7, <1>8 DEF Next, GuiStep

\* The variables keep their types.
THEOREM TypeCorrect == Spec => []TypeOK
<1>1. IInv => TypeOK
  BY DEF IInv
<1>2. QED
  BY InitIInv, StepIInv, <1>1, PTL DEF Spec

\* The event TaskGUI is copying is left alone by the interrupt, whatever the
\* depth of the ring and however often it fills up meanwhile.
THEOREM CopyNeverTorn == Spec => []CopyIsIntact
<1>1. IInv => CopyIsIntact
  BY DEF IInv
<1>2. QED
  BY InitIInv, StepIInv, <1>1, PTL DEF Spec

-----------------------------------------------------------------------------
(***************************************************************************)
(* The refinement.                                                         *)
(***************************************************************************)

\* What the sequence of held events is made of.
LEMMA HeldFacts ==
    ASSUME TypeOK
    PROVE  /\ Held \in Seq(Event) /\ Len(Held) = Count
           /\ \A k \in 1..Count : Held[k] = buff[Pos(k - 1)]
<1>1. Count \in Nat /\ \A k \in 1..Count : k - 1 \in 0..QDepth - 1
  BY CountFacts, QueueAssumption
<1>2. \A k \in 1..Count : buff[Pos(k - 1)] \in Event
  BY <1>1, CountFacts DEF TypeOK
<1>3. QED
  BY <1>1, <1>2 DEF Held

\* An accepted event goes to the end of the FIFO.
LEMMA EnQueueIsPut ==
    ASSUME IInv, NEW e \in Event, EnQueue(e)
    PROVE  Fifo!Put(e)
<1> USE QueueAssumption DEF IInv
<1>1. TypeOK'
  BY StepIInv DEF Next
<1>2. head \in Slot /\ tail \in Slot /\ head' = Advance(head) /\ tail' = tail
  BY DEF TypeOK, EnQueue
<1>3. Count < QDepth - 1 /\ Count' = Count + 1
  <2>1. Count \in 0..QDepth - 1 /\ Count # QDepth - 1
    BY CountFacts DEF EnQueue
  <2>2. Count' = Count + 1
    BY <1>2, AdvanceWraps DEF Count, Slot, EnQueue
  <2>3. QED
    BY <2>1, <2>2
<1>4. \A k \in 0..QDepth - 1 : Pos(k)' = Pos(k)
  BY <1>2 DEF Pos
<1>5. \A k \in 1..Count : Held'[k] = Held[k]
  <2> SUFFICES ASSUME NEW k \in 1..Count PROVE Held'[k] = Held[k]
    OBVIOUS
  <2>1. k \in 1..Count' /\ k - 1 \in 0..QDepth - 1 /\ k - 1 # Count
    BY <1>3, CountFacts
  <2>2. Pos(k - 1) \in Slot /\ Pos(k - 1) # head
    BY <2>1, CountFacts
  <2>3. buff'[Pos(k - 1)] = buff[Pos(k - 1)]
    BY <2>2 DEF EnQueue, TypeOK
  <2>4. Held[k] = buff[Pos(k - 1)]
    BY HeldFacts
  <2>5. Held'[k] = buff'[Pos(k - 1)']
    BY <2>1 DEF Held
  <2>6. QED
    BY <2>1, <2>3, <2>4, <2>5, <1>4
<1>6. ASSUME NEW k \in 1..Count', k = Count + 1 PROVE Held'[k] = e
  <2>1. k - 1 = Count /\ k - 1 \in 0..QDepth - 1
    BY <1>3, <1>6, CountFacts
  <2>2. Pos(k - 1) = head
    BY <2>1, CountFacts
  <2>3. Pos(k - 1)' = head
    BY <2>1, <2>2, <1>4
  <2>4. buff'[head] = e
    BY <1>2 DEF EnQueue, TypeOK
  <2>5. Held'[k] = buff'[Pos(k - 1)']
    BY DEF Held
  <2>6. QED
    BY <2>3, <2>4, <2>5
<1>7. Held \in Seq(Event) /\ Len(Held) = Count
  BY HeldFacts
<1>8. Held' = Append(Held, e)
  <2>1. Held' \in Seq(Event) /\ Len(Held') = Count + 1
    <3>1. Count' \in Nat /\ \A k \in 1..Count' : Held'[k] \in Event
      BY <1>3, <1>5, <1>6, <1>7, CountFacts
    <3>2. Held' = [k \in 1..Count' |-> Held'[k]]
      BY DEF Held
    <3>3. QED
      BY <1>3, <3>1, <3>2, <1>7
  <2>2. \A k \in 1..Count + 1 : Held'[k] = Append(Held, e)[k]
    BY <1>3, <1>5, <1>6, <1>7, CountFacts
  <2>3. QED
    BY <2>1, <2>2, <1>7
<1>9. QED
  BY <1>3, <1>7, <1>8 DEF Fifo!Put, EnQueue

\* What TaskGUI dispatches is the head of the FIFO, whole.
LEMMA AdvanceIsTake ==
    ASSUME IInv, DeQueueAdvance
    PROVE  Fifo!Take
<1> USE QueueAssumption DEF IInv
<1>1. head \in Slot /\ tail \in Slot /\ tail' = Advance(tail) /\ head' = head
      /\ head # tail
  BY DEF TypeOK, DeQueueAdvance, CopyIsIntact
<1>2. Count > 0 /\ Count' = Count - 1
  BY <1>1, AdvanceWraps DEF Count, Slot
<1>3. Held \in Seq(Event) /\ Len(Held) = Count /\ Held # <<>>
  BY HeldFacts, <1>2
<1>4. got' = Head(Held)
  <2>1. Held[1] = buff[tail]
    BY HeldFacts, CountFacts, <1>2
  <2>2. event \in Event /\ buff[tail] \in Event
    BY <1>1 DEF TypeOK
  <2>3. \A j \in Index : event[j] = buff[tail][j]
    BY DEF CopyIsIntact, DeQueueAdvance, Index
  <2>4. event = buff[tail]
    BY <2>2, <2>3 DEF Event
  <2>5. QED
    BY <2>1, <2>4, <1>3 DEF DeQueueAdvance
<1>5. Held' = Tail(Held)
  <2>1. \A k \in 1..Count - 1 : Pos(k - 1)' = Pos(k)
    BY <1>1, <1>2, AdvanceWraps, CountFacts DEF Pos, Slot
  <2>2. \A k \in 1..Count - 1 : Held'[k] = Held[k + 1]
    <3> SUFFICES ASSUME NEW k \in 1..Count - 1 PROVE Held'[k] = Held[k + 1]
      OBVIOUS
    <3>1. k \in 1..Count' /\ k + 1 \in 1..Count /\ k + 1 - 1 = k
      BY <1>2, CountFacts
    <3>2. Held'[k] = buff'[Pos(k - 1)']
      BY <3>1 DEF Held
    <3>3. Held[k + 1] = buff[Pos(k + 1 - 1)]
      BY <3>1, HeldFacts
    <3>4. QED
      BY <3>1, <3>2, <3>3, <2>1 DEF DeQueueAdvance
  <2>3. Held' \in Seq(Event) /\ Len(Held') = Count - 1
    <3>1. Held' = [k \in 1..Count - 1 |-> Held'[k]]
      BY <1>2 DEF Held
    <3>2. \A k \in 1..Count - 1 : Held'[k] \in Event
      BY <2>2, <1>3, CountFacts
    <3>3. QED
      BY <3>1, <3>2, <1>2, CountFacts
  <2>4. /\ Tail(Held) \in Seq(Event) /\ Len(Tail(Held)) = Count - 1
        /\ \A k \in 1..Count - 1 : Tail(Held)[k] = Held[k + 1]
    BY <1>2, <1>3, CountFacts
  <2>5. QED
    BY <2>2, <2>3, <2>4
<1>6. QED
  BY <1>3, <1>4, <1>5 DEF Fifo!Take, DeQueueAdvance

\* Every step of the queue is a step of the FIFO or leaves it alone.
LEMMA StepRefines == IInv /\ [Next]_vars => [Fifo!FifoNext]_(Fifo!fifoVars)
<1> SUFFICES ASSUME IInv, [Next]_vars
             PROVE  Fifo!FifoNext \/ UNCHANGED Fifo!fifoVars
  OBVIOUS
<1> USE QueueAssumption DEF IInv
<1>1. ASSUME NEW e \in Event, EnQueue(e) PROVE Fifo!FifoNext
  BY <1>1, EnQueueIsPut DEF Fifo!FifoNext
<1>2. CASE EnQueueFull
  <2>1. Held' = Held
    BY <1>2 DEF EnQueueFull, Held, Count, Pos
  <2>2. Len(Held) = QDepth - 1
    BY <1>2, CountFacts, HeldFacts DEF EnQueueFull
  <2>3. Fifo!Refuse
    BY <1>2, <2>1, <2>2 DEF EnQueueFull, Fifo!Refuse
  <2>4. QED
    BY <2>3 DEF Fifo!FifoNext
<1>3. ASSUME InitFirst \/ InitSecond PROVE Fifo!FifoNext \/ UNCHANGED Fifo!fifoVars
  <2>1. tail = 0 /\ tail' = 0 /\ UNCHANGED <<buff, got, ret>>
    BY <1>3 DEF InitFirst, InitSecond, TailZeroAtBoot
  <2>2. CASE head' = 0
    <3>1. Count' = 0
      BY <2>1, <2>2 DEF Count
    <3>2. Held' = <<>>
      BY <3>1 DEF Held
    <3>3. QED
      BY <3>2, <2>1 DEF Fifo!Clear, Fifo!FifoNext
  <2>3. CASE head' = head
    BY <2>1, <2>3 DEF Held, Count, Pos, Fifo!fifoVars
  <2>4. QED
    BY <1>3, <2>2, <2>3 DEF InitFirst, InitSecond
<1>4. CASE DeQueueCheck \/ DeQueueCopy \/ UNCHANGED vars
  BY <1>4 DEF DeQueueCheck, DeQueueCopy, vars, Held, Count, Pos, Fifo!fifoVars
<1>5. CASE DeQueueAdvance
  BY <1>5, AdvanceIsTake DEF Fifo!FifoNext
<1>6. QED
  BY <1>1, <1>2, <1>3, <1>4, <1>5 DEF Next, GuiStep

\* The ring of keys.c implements a FIFO of QDepth - 1 events.
THEOREM Refinement == Spec => ImplementsFifo
<1>1. Init => Fifo!FifoInit
  <2> SUFFICES ASSUME Init PROVE Fifo!FifoInit
    OBVIOUS
  <2>1. Count = 0
    BY DEF Init, Count
  <2>2. Held = <<>>
    BY <2>1 DEF Held
  <2>3. QED
    BY <2>2 DEF Init, Fifo!FifoInit
<1>2. QED
  BY <1>1, InitIInv, StepIInv, StepRefines, PTL
     DEF Spec, ImplementsFifo, Fifo!FifoSpec
=============================================================================
