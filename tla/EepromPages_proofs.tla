------------------------- MODULE EepromPages_proofs -------------------------
(***************************************************************************)
(* Proofs about EepromPages: for every page size, chip and cell, whatever  *)
(* fails, EEPROM_Write touches nothing but its cell, and HAL_OK means that *)
(* all of it is there.                                                     *)
(***************************************************************************)
EXTENDS EepromPages, TLAPS

\* A number below the page size is its own remainder.
LEMMA SmallMod ==
    ASSUME NEW x \in 0..PageSize - 1
    PROVE  x % PageSize = x
  BY SizeAssumption

\* A remainder is below the page size and not above the number.
LEMMA ModRange ==
    ASSUME NEW a \in Nat
    PROVE  a % PageSize \in 0..PageSize - 1
  BY SizeAssumption
-----------------------------------------------------------------------------
(***************************************************************************)
(* One transfer.                                                           *)
(***************************************************************************)
\* EEPROM_Write is about to send a transfer.
Sending == TypeOK /\ Progress /\ pc # "out" /\ bytesWritten < size

\* A transfer has at least a byte, not more than the cell, and ends in its page.
LEMMA Room ==
    ASSUME Sending
    PROVE  /\ BytesToWrite \in 1..size - bytesWritten
           /\ (memAddress % PageSize) + BytesToWrite <= PageSize
<1>1. memAddress % PageSize \in 0..PageSize - 1
  BY ModRange DEF Sending, TypeOK
<1>2. size - bytesWritten \in Nat /\ size - bytesWritten > 0
  BY SizeAssumption DEF Sending, TypeOK
<1>3. QED
  BY <1>1, <1>2, SizeAssumption DEF BytesToWrite

\* So it does not wrap.
LEMMA Lands ==
    ASSUME Sending, NEW i \in 0..BytesToWrite - 1
    PROVE  Landing(memAddress, i) = memAddress + i
<1>1. memAddress % PageSize \in 0..PageSize - 1 /\ memAddress \in Nat
  BY ModRange DEF Sending, TypeOK
<1>2. (memAddress % PageSize) + i \in 0..PageSize - 1
  BY <1>1, Room, SizeAssumption
<1>3. ((memAddress % PageSize) + i) % PageSize = (memAddress % PageSize) + i
  BY <1>2, SmallMod
<1>4. QED
  BY <1>1, <1>3 DEF Landing

\* The chip after k bytes of it: those of the cell that come next.
LEMMA ProgrammedBytes ==
    ASSUME Sending, NEW k \in 0..BytesToWrite
    PROVE  /\ Programmed(k) \in [Addr -> Byte]
           /\ \A x \in Addr :
                Programmed(k)[x] = IF x \in memAddress..memAddress + k - 1
                                   THEN data[x - addr0] ELSE mem[x]
<1>1. BytesToWrite \in 1..size - bytesWritten /\ memAddress \in Nat
      /\ memAddress = addr0 + bytesWritten /\ addr0 \in Nat
      /\ bytesWritten \in Nat /\ size \in Nat
  BY Room, SizeAssumption DEF Sending, TypeOK, Progress
<1>2. \A i \in 0..k - 1 : Landing(memAddress, i) = memAddress + i
  BY <1>1, Lands
<1>3. ASSUME NEW x \in Addr, x \in memAddress..memAddress + k - 1
      PROVE  Programmed(k)[x] = data[x - addr0] /\ x - addr0 \in 0..size - 1
  <2>1. x - memAddress \in 0..k - 1 /\ Landing(memAddress, x - memAddress) = x
    BY <1>1, <1>2, <1>3
  <2>2. (CHOOSE i \in 0..k - 1 : Landing(memAddress, i) = x) = x - memAddress
    BY <1>1, <1>2, <2>1
  <2>3. Programmed(k)[x] = data[bytesWritten + (x - memAddress)]
    BY <2>1, <2>2 DEF Programmed
  <2>4. QED
    BY <1>1, <1>3, <2>3
<1>4. ASSUME NEW x \in Addr, x \notin memAddress..memAddress + k - 1
      PROVE  Programmed(k)[x] = mem[x]
  <2>1. ~ \E i \in 0..k - 1 : Landing(memAddress, i) = x
    BY <1>1, <1>2, <1>4
  <2>2. QED
    BY <2>1 DEF Programmed
<1>5. \A x \in Addr : Programmed(k)[x] \in Byte
  BY <1>3, <1>4 DEF Sending, TypeOK
<1>6. Programmed(k) \in [Addr -> Byte]
  BY <1>5 DEF Programmed
<1>7. QED
  BY <1>3, <1>4, <1>6

\* A transfer, whole or cut short, keeps the cell's bounds and what it already
\* holds, and leaves its own bytes.
LEMMA Transfer ==
    ASSUME Sending, OnlyItsCell, NEW k \in 0..BytesToWrite, mem' = Programmed(k),
           UNCHANGED <<mem0, addr0, size, data, bytesWritten, memAddress>>
    PROVE  /\ mem' \in [Addr -> Byte] /\ OnlyItsCell'
           /\ \A i \in 0..bytesWritten + k - 1 : mem'[addr0 + i] = data[i]
<1>1. BytesToWrite \in 1..size - bytesWritten /\ memAddress \in Nat
      /\ memAddress = addr0 + bytesWritten /\ addr0 \in Nat /\ MemSize \in Nat
      /\ bytesWritten \in Nat /\ size \in Nat /\ addr0 + size <= MemSize
  BY Room, SizeAssumption DEF Sending, TypeOK, Progress
<1>2. mem' \in [Addr -> Byte]
      /\ \A x \in Addr : mem'[x] = IF x \in memAddress..memAddress + k - 1
                                   THEN data[x - addr0] ELSE mem[x]
  BY ProgrammedBytes
<1>3. OnlyItsCell'
  <2> SUFFICES ASSUME NEW x \in Addr, mem'[x] # mem0[x]
               PROVE  x \in addr0..addr0 + size - 1 /\ mem'[x] = data[x - addr0]
    BY DEF OnlyItsCell
  <2>1. CASE x \in memAddress..memAddress + k - 1
    BY <1>1, <1>2, <2>1
  <2>2. CASE x \notin memAddress..memAddress + k - 1
    BY <1>2, <2>2 DEF OnlyItsCell
  <2>3. QED
    BY <2>1, <2>2
<1>4. ASSUME NEW i \in 0..bytesWritten + k - 1
      PROVE  mem'[addr0 + i] = data[i]
  <2>1. addr0 + i \in Addr /\ (addr0 + i) - addr0 = i
    BY <1>1 DEF Addr
  <2>2. CASE i < bytesWritten
    <3>1. mem[addr0 + i] = data[i]
      BY <1>1, <2>2 DEF Sending, Progress
    <3>2. QED
      BY <1>1, <1>2, <2>1, <2>2, <3>1
  <2>3. CASE i >= bytesWritten
    BY <1>1, <1>2, <2>1, <2>3
  <2>4. QED
    BY <1>1, <2>2, <2>3
<1>5. QED
  BY <1>2, <1>3, <1>4

-----------------------------------------------------------------------------
(***************************************************************************)
(* The invariant.                                                          *)
(***************************************************************************)
\* Before the first call.
LEMMA InitIInv == Init => IInv
  BY SizeAssumption DEF Init, IInv, TypeOK, OnlyItsCell, OkIsComplete, Progress

\* Every step keeps it.
LEMMA StepIInv == IInv /\ [Next]_vars => IInv'
<1> SUFFICES ASSUME IInv, [Next]_vars PROVE IInv'
  OBVIOUS
<1>t. TypeOK /\ OnlyItsCell /\ OkIsComplete /\ Progress
  BY DEF IInv
<1>n. size \in Nat /\ bytesWritten \in Nat /\ bytesWritten <= size
      /\ addr0 \in Nat /\ memAddress \in Nat
  BY <1>t, SizeAssumption DEF TypeOK
<1>1. CASE Call
  <2>1. PICK a \in Addr, n \in 0..MaxSize :
           /\ a + n <= MemSize
           /\ memAddress' = a /\ addr0' = a /\ size' = n
           /\ data' \in [0..n - 1 -> Byte]
    BY <1>1 DEF Call
  <2>2. pc' = "page" /\ bytesWritten' = 0 /\ mem0' = mem /\ mem' = mem
        /\ status' = status
    BY <1>1 DEF Call
  <2>3. a \in Nat /\ n \in Nat
    BY SizeAssumption DEF Addr
  <2>4. TypeOK'
    BY <1>t, <2>1, <2>2, <2>3 DEF TypeOK
  <2>5. OnlyItsCell' /\ OkIsComplete' /\ Progress'
    BY <2>1, <2>2, <2>3 DEF OnlyItsCell, OkIsComplete, Progress
  <2>6. QED
    BY <2>4, <2>5 DEF IInv
<1>2. CASE PageOk
  <2>1. /\ pc = "page" /\ bytesWritten < size /\ mem' = Programmed(BytesToWrite)
        /\ pc' = "delay"
        /\ UNCHANGED <<memAddress, bytesWritten, size, data, status, mem0, addr0>>
    BY <1>2 DEF PageOk
  <2>2. Sending /\ BytesToWrite \in 0..BytesToWrite
    BY <1>t, <1>n, <2>1, Room DEF Sending
  <2>3. /\ mem' \in [Addr -> Byte] /\ OnlyItsCell'
        /\ \A i \in 0..bytesWritten + BytesToWrite - 1 : mem'[addr0 + i] = data[i]
    BY <1>t, <2>1, <2>2, Transfer
  <2>4. TypeOK' /\ OkIsComplete'
    BY <1>t, <2>1, <2>3 DEF TypeOK, OkIsComplete
  <2>5. BytesToWrite' = BytesToWrite
    BY <2>1 DEF BytesToWrite
  <2>6. \A i \in 0..bytesWritten - 1 : mem'[addr0 + i] = data[i]
    BY <1>n, <2>2, <2>3, Room
  <2>7. Progress'
    BY <1>t, <2>1, <2>3, <2>5, <2>6 DEF Progress
  <2>8. QED
    BY <2>3, <2>4, <2>7 DEF IInv
<1>3. CASE PageFails
  <2>1. /\ pc = "page" /\ bytesWritten < size
        /\ pc' = "out" /\ status' = "HAL_ERROR"
        /\ UNCHANGED <<memAddress, bytesWritten, size, data, mem0, addr0>>
    BY <1>3 DEF PageFails
  <2>2. Sending
    BY <1>t, <2>1 DEF Sending
  <2>3. mem' \in [Addr -> Byte] /\ OnlyItsCell'
    BY <1>3, <1>t, <2>1, <2>2, Transfer DEF PageFails
  <2>4. TypeOK' /\ OkIsComplete' /\ Progress'
    BY <1>t, <2>1, <2>3 DEF TypeOK, OkIsComplete, Progress
  <2>5. QED
    BY <2>3, <2>4 DEF IInv
<1>4. CASE DelayOver
  <2>1. /\ pc = "delay" /\ pc' = "page"
        /\ bytesWritten' = bytesWritten + BytesToWrite
        /\ memAddress' = memAddress + BytesToWrite
        /\ UNCHANGED <<mem, size, data, status, mem0, addr0>>
    BY <1>4 DEF DelayOver
  <2>2. Sending
    BY <1>t, <2>1 DEF Sending, Progress
  <2>3. BytesToWrite \in 1..size - bytesWritten
    BY <2>2, Room
  <2>4. TypeOK'
    BY <1>t, <1>n, <2>1, <2>3 DEF TypeOK
  <2>5. Progress'
    BY <1>t, <1>n, <2>1, <2>3 DEF Progress
  <2>6. OnlyItsCell' /\ OkIsComplete'
    BY <1>t, <2>1 DEF OnlyItsCell, OkIsComplete
  <2>7. QED
    BY <2>4, <2>5, <2>6 DEF IInv
<1>5. CASE Return
  <2>1. /\ pc = "page" /\ bytesWritten >= size
        /\ pc' = "out" /\ status' = "HAL_OK"
        /\ UNCHANGED <<mem, memAddress, bytesWritten, size, data, mem0, addr0>>
    BY <1>5 DEF Return
  <2>2. bytesWritten = size
    BY <1>n, <2>1
  <2>3. OkIsComplete'
    BY <1>t, <2>1, <2>2 DEF Progress, OkIsComplete
  <2>4. TypeOK' /\ OnlyItsCell' /\ Progress'
    BY <1>t, <2>1 DEF TypeOK, OnlyItsCell, Progress
  <2>5. QED
    BY <2>3, <2>4 DEF IInv
<1>6. CASE Reset
  <2>1. /\ pc' = "out" /\ status' = "reset"
        /\ UNCHANGED <<memAddress, bytesWritten, size, data, mem0, addr0>>
    BY <1>6 DEF Reset
  <2>2. mem' \in [Addr -> Byte] /\ OnlyItsCell'
    <3>1. CASE pc = "page" /\ bytesWritten < size
      <4>1. Sending
        BY <1>t, <3>1 DEF Sending
      <4>2. PICK k \in 0..BytesToWrite : mem' = Programmed(k)
        BY <1>6, <3>1 DEF Reset
      <4>3. QED
        BY <1>t, <2>1, <4>1, <4>2, Transfer
    <3>2. CASE ~(pc = "page" /\ bytesWritten < size)
      <4>1. mem' = mem
        BY <1>6, <3>2 DEF Reset
      <4>2. QED
        BY <1>t, <2>1, <4>1 DEF TypeOK, OnlyItsCell
    <3>3. QED
      BY <3>1, <3>2
  <2>3. TypeOK' /\ OkIsComplete' /\ Progress'
    BY <1>t, <2>1, <2>2 DEF TypeOK, OkIsComplete, Progress
  <2>4. QED
    BY <2>2, <2>3 DEF IInv
<1>7. CASE UNCHANGED vars
  BY <1>7, <1>t
     DEF vars, IInv, TypeOK, OnlyItsCell, OkIsComplete, Progress, BytesToWrite
<1>8. QED
  BY <1>1, <1>2, <1>3, <1>4, <1>5, <1>6, <1>7 DEF Next, Work

\* The invariant with what the loop has passed: true of every call, transfer and reset.
THEOREM Invariance == Spec => []IInv
  BY InitIInv, StepIInv, PTL DEF Spec

\* EEPROM_Write disturbs no neighbour of its cell and puts nothing but the new
\* bytes in it, wherever the cell lies in the pages and whatever goes wrong.
THEOREM CellOnly == Spec => []OnlyItsCell
<1>1. IInv => OnlyItsCell
  BY DEF IInv
<1>2. QED
  BY <1>1, Invariance, PTL

\* HAL_OK means that every byte of the cell is in the chip.
THEOREM OkMeansStored == Spec => []OkIsComplete
<1>1. IInv => OkIsComplete
  BY DEF IInv
<1>2. QED
  BY <1>1, Invariance, PTL
-----------------------------------------------------------------------------
(***************************************************************************)
(* EEPROM_Write is the write of one cell.                                  *)
(***************************************************************************)
\* A cell, byte by byte.
CellOf(a, n, d) == [x \in a..a + n - 1 |-> d[x - a]]

LEMMA CellBytes ==
    ASSUME NEW a \in Nat, NEW n \in 0..MaxSize, a + n <= MemSize,
           NEW d \in [0..n - 1 -> Byte]
    PROVE  /\ DOMAIN CellOf(a, n, d) = a..a + n - 1
           /\ DOMAIN CellOf(a, n, d) \subseteq Addr
           /\ CellOf(a, n, d) \in [DOMAIN CellOf(a, n, d) -> Byte]
<1>1. n \in Nat /\ MemSize \in Nat
  BY SizeAssumption
<1>2. \A x \in a..a + n - 1 : x - a \in 0..n - 1 /\ x \in Addr
  BY <1>1 DEF Addr
<1>3. \A x \in a..a + n - 1 : d[x - a] \in Byte
  BY <1>2
<1>4. QED
  BY <1>2, <1>3 DEF CellOf

\* The cell that is wanted.
LEMMA WantedBytes ==
    ASSUME TypeOK, Progress
    PROVE  /\ DOMAIN Wanted = addr0..addr0 + size - 1
           /\ \A x \in DOMAIN Wanted : Wanted[x] = data[x - addr0]
  BY DEF Wanted

\* A transfer brings bytes of the cell, whole or cut short.
LEMMA TransferArrives ==
    ASSUME Sending, NEW k \in 0..BytesToWrite, mem' = Programmed(k)
    PROVE  Cell!Arrive
<1>1. BytesToWrite \in 1..size - bytesWritten /\ memAddress \in Nat
      /\ memAddress = addr0 + bytesWritten /\ addr0 \in Nat
      /\ bytesWritten \in Nat /\ size \in Nat
  BY Room, SizeAssumption DEF Sending, TypeOK, Progress
<1>2. mem' \in [Addr -> Byte]
      /\ \A x \in Addr : mem'[x] = IF x \in memAddress..memAddress + k - 1
                                   THEN data[x - addr0] ELSE mem[x]
  BY ProgrammedBytes
<1>3. DOMAIN Wanted = addr0..addr0 + size - 1
      /\ \A x \in DOMAIN Wanted : Wanted[x] = data[x - addr0]
  BY WantedBytes DEF Sending
<1>4. ASSUME NEW x \in Addr, mem'[x] # mem[x]
      PROVE  x \in DOMAIN Wanted /\ mem'[x] = Wanted[x]
  <2>1. x \in memAddress..memAddress + k - 1 /\ mem'[x] = data[x - addr0]
    BY <1>2, <1>4
  <2>2. x \in addr0..addr0 + size - 1
    BY <1>1, <2>1
  <2>3. QED
    BY <1>3, <2>1, <2>2
<1>5. QED
  BY <1>2, <1>4 DEF Cell!Arrive

\* When the loop is over nothing of the cell is missing.
LEMMA ReturnsComplete ==
    ASSUME TypeOK, Progress, Return
    PROVE  \A x \in DOMAIN Wanted : mem[x] = Wanted[x]
<1>1. addr0 \in Nat /\ size \in Nat /\ bytesWritten = size /\ pc # "out"
  BY SizeAssumption DEF TypeOK, Return
<1>2. \A i \in 0..size - 1 : mem[addr0 + i] = data[i]
  BY <1>1 DEF Progress
<1>3. ASSUME NEW x \in DOMAIN Wanted PROVE mem[x] = Wanted[x]
  <2>1. x \in addr0..addr0 + size - 1 /\ Wanted[x] = data[x - addr0]
    BY <1>3, WantedBytes
  <2>2. x - addr0 \in 0..size - 1 /\ addr0 + (x - addr0) = x
    BY <1>1, <2>1
  <2>3. mem[addr0 + (x - addr0)] = data[x - addr0]
    BY <1>2, <2>2
  <2>4. QED
    BY <2>1, <2>2, <2>3
<1>4. QED
  BY <1>3

\* Every step of the loop is a step of the write or leaves it alone.
LEMMA StepRefines == IInv /\ [Next]_vars => [Cell!WriteNext]_(Cell!cellVars)
<1> SUFFICES ASSUME IInv, [Next]_vars
             PROVE  Cell!WriteNext \/ UNCHANGED Cell!cellVars
  OBVIOUS
<1>t. TypeOK /\ Progress
  BY DEF IInv
<1>1. CASE Call
  <2>1. pc = "out" /\ pc' # "out" /\ UNCHANGED <<mem, status>>
    BY <1>1 DEF Call
  <2>2. PICK a \in Addr, n \in 0..MaxSize :
           /\ a + n <= MemSize /\ addr0' = a /\ size' = n
           /\ data' \in [0..n - 1 -> Byte]
    BY <1>1 DEF Call
  <2>3. Wanted' = CellOf(a, n, data')
    BY <2>2 DEF Wanted, CellOf
  <2>4. a \in Nat
    BY SizeAssumption DEF Addr
  <2>5. (DOMAIN Wanted)' \subseteq Addr /\ Wanted' \in [(DOMAIN Wanted)' -> Byte]
    BY <2>2, <2>3, <2>4, CellBytes
  <2>6. QED
    BY <2>1, <2>5 DEF Cell!Begin, Cell!WriteNext
<1>2. CASE PageOk
  <2>1. Sending /\ pc' # "out" /\ UNCHANGED <<addr0, size, data, status>>
        /\ mem' = Programmed(BytesToWrite)
    BY <1>2, <1>t DEF PageOk, Sending
  <2>2. BytesToWrite \in 0..BytesToWrite
    BY <1>t, <2>1, Room, SizeAssumption DEF TypeOK
  <2>3. Cell!Arrive
    BY <2>1, <2>2, TransferArrives
  <2>4. UNCHANGED Wanted
    BY <2>1 DEF Wanted
  <2>5. QED
    BY <2>1, <2>3, <2>4 DEF Sending, Cell!Part, Cell!WriteNext
<1>3. CASE PageFails
  <2>1. Sending /\ pc' = "out" /\ status' = "HAL_ERROR" /\ UNCHANGED <<addr0, size, data>>
    BY <1>3, <1>t DEF PageFails, Sending
  <2>2. Cell!Arrive
    BY <1>3, <2>1, TransferArrives DEF PageFails
  <2>3. UNCHANGED Wanted
    BY <2>1 DEF Wanted
  <2>4. QED
    BY <2>1, <2>2, <2>3 DEF Sending, Cell!Break, Cell!WriteNext
<1>4. CASE DelayOver
  BY <1>4 DEF DelayOver, Wanted, Cell!cellVars
<1>5. CASE Return
  <2>1. UNCHANGED <<mem, Wanted>> /\ pc # "out" /\ pc' = "out" /\ status' = "HAL_OK"
    BY <1>5 DEF Return, Wanted
  <2>2. QED
    BY <1>5, <1>t, <2>1, ReturnsComplete DEF Cell!Complete, Cell!WriteNext
<1>6. CASE Reset
  <2>1. pc' = "out" /\ status' = "reset" /\ UNCHANGED Wanted
    BY <1>6 DEF Reset, Wanted
  <2>2. CASE pc = "page" /\ bytesWritten < size
    <3>1. Sending
      BY <1>t, <2>2 DEF Sending
    <3>2. Cell!Arrive
      BY <1>6, <2>2, <3>1, TransferArrives DEF Reset
    <3>3. QED
      BY <2>1, <2>2, <3>2 DEF Cell!Break, Cell!WriteNext
  <2>3. CASE ~(pc = "page" /\ bytesWritten < size)
    <3>1. mem' = mem
      BY <1>6, <2>3 DEF Reset
    <3>2. Cell!Arrive
      BY <1>t, <3>1 DEF TypeOK, Cell!Arrive
    <3>3. CASE pc = "out"
      BY <2>1, <3>1, <3>3 DEF Cell!Restart, Cell!WriteNext
    <3>4. CASE pc # "out"
      BY <2>1, <3>2, <3>4 DEF Cell!Break, Cell!WriteNext
    <3>5. QED
      BY <3>3, <3>4
  <2>4. QED
    BY <2>2, <2>3
<1>7. CASE UNCHANGED vars
  BY <1>7 DEF vars, Wanted, Cell!cellVars
<1>8. QED
  BY <1>1, <1>2, <1>3, <1>4, <1>5, <1>6, <1>7 DEF Next, Work

\* Page by page, with its delays, failures and resets, EEPROM_Write is the write of
\* one cell, for every page size, address and length.
THEOREM Refinement == Spec => ImplementsCellWrite
<1>1. Init => Cell!WriteInit
  BY DEF Init, Cell!WriteInit
<1>2. QED
  BY <1>1, InitIInv, StepIInv, StepRefines, PTL
     DEF Spec, ImplementsCellWrite, Cell!WriteSpec

-----------------------------------------------------------------------------
(***************************************************************************)
(* Every step of the loop brings the call nearer to its end: the part of   *)
(* CallsReturn that needs no fairness.                                     *)
(***************************************************************************)
\* What is left of a call, in steps: a transfer and a delay for each byte at most.
Left == CASE pc = "page"  -> 2 * (size - bytesWritten) + 1
          [] pc = "delay" -> 2 * (size - bytesWritten)
          [] OTHER -> 0

\* A call of n bytes is over after 2 * n + 1 steps at most: each has less left than
\* the one before, and none begins the call anew.
CallDescends == [][Work => Left \in Nat /\ Left' \in 0..Left - 1]_vars

\* No call of EEPROM_Write goes round for ever, whatever its address and length.
THEOREM CallDescendsHolds == Spec => CallDescends
<1>1. IInv /\ [Next]_vars => [Work => Left \in Nat /\ Left' \in 0..Left - 1]_vars
  <2> SUFFICES ASSUME IInv, Work PROVE Left \in Nat /\ Left' \in 0..Left - 1
    OBVIOUS
  <2>t. TypeOK /\ Progress
    BY DEF IInv
  <2>n. size \in Nat /\ bytesWritten \in Nat /\ size - bytesWritten \in Nat
    BY <2>t, SizeAssumption DEF TypeOK
  <2>1. CASE PageOk
    BY <2>1, <2>n DEF PageOk, Left
  <2>2. CASE PageFails
    BY <2>2, <2>n DEF PageFails, Left
  <2>3. CASE DelayOver
    <3>1. Sending
      BY <2>3, <2>t DEF DelayOver, Sending, Progress
    <3>2. BytesToWrite \in 1..size - bytesWritten
      BY <3>1, Room
    <3>3. pc = "delay" /\ pc' = "page" /\ size' = size
          /\ bytesWritten' = bytesWritten + BytesToWrite
      BY <2>3 DEF DelayOver
    <3>4. QED
      BY <2>n, <3>2, <3>3 DEF Left
  <2>4. CASE Return
    BY <2>4, <2>n DEF Return, Left
  <2>5. QED
    BY <2>1, <2>2, <2>3, <2>4 DEF Work
<1>2. QED
  BY <1>1, InitIInv, StepIInv, PTL DEF Spec, CallDescends
=============================================================================
