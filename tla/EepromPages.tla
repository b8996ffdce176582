---------------------------- MODULE EepromPages ----------------------------
(***************************************************************************)
(* EEPROM_Write of eeprom.c, byte by byte: a cell of `size` bytes is sent  *)
(* in transfers that end at the page boundaries of the chip, each followed *)
(* by EEPROM_WRITE_DELAY.  A transfer that ran over a boundary would wrap  *)
(* to the start of the same page and destroy what is there.  One call at a *)
(* time: calls of two tasks meet in module ConfigStore.                    *)
(***************************************************************************)
EXTENDS Integers

CONSTANTS
    PageSize,    \* EEPROM_PAGE_SIZE
    MemSize,     \* the bytes of the chip, EEPROM_TOTAL_SIZE
    MaxSize,     \* bound: the longest cell
    Byte         \* the values of a byte

ASSUME SizeAssumption ==
    /\ PageSize \in Nat \ {0} /\ MemSize \in Nat /\ MaxSize \in Nat

Addr == 0..MemSize - 1

VARIABLES
    mem,                        \* the chip
    pc,                         \* "out", "page", "delay"
    memAddress, bytesWritten,   \* EEPROM_Write's variables
    size, data,                 \* and its parameters
    status,                     \* what the last call returned
    mem0, addr0                 \* history: the chip and the address at the call

vars == <<mem, pc, memAddress, bytesWritten, size, data, status, mem0, addr0>>

Init == /\ mem \in [Addr -> Byte] /\ mem0 = mem
        /\ pc = "out" /\ status = "HAL_OK"
        /\ memAddress = 0 /\ bytesWritten = 0 /\ size = 0 /\ addr0 = 0
        /\ data \in [0..-1 -> Byte]

\* A cell lies inside the chip.
Call ==
    /\ pc = "out" /\ pc' = "page"
    /\ \E a \in Addr, n \in 0..MaxSize :
         /\ a + n <= MemSize
         /\ memAddress' = a /\ addr0' = a /\ size' = n
         /\ data' \in [0..n - 1 -> Byte]
    /\ bytesWritten' = 0 /\ mem0' = mem
    /\ UNCHANGED <<mem, status>>

\* Mutated: the room is a whole page wherever the transfer starts.
BytesOfPage ==
    IF PageSize > size - bytesWritten THEN size - bytesWritten ELSE PageSize

\* bytesToWrite: to the end of the page, or of the cell.
BytesToWrite ==
    LET room == PageSize - (memAddress % PageSize)
    IN  IF room > size - bytesWritten THEN size - bytesWritten ELSE room

\* Where the chip stores the i-th byte of a transfer to address a: it counts
\* within the page.
Landing(a, i) == a - (a % PageSize) + (((a % PageSize) + i) % PageSize)

\* The chip after the first k bytes of the transfer, which is no longer than a
\* page.
Programmed(k) ==
    LET Stores(i, x) == Landing(memAddress, i) = x
    IN  [x \in Addr |->
           IF \E i \in 0..k - 1 : Stores(i, x)
           THEN data[bytesWritten + (CHOOSE i \in 0..k - 1 : Stores(i, x))]
           ELSE mem[x]]

PageOk ==
    /\ pc = "page" /\ bytesWritten < size
    /\ mem' = Programmed(BytesToWrite)
    /\ pc' = "delay"
    /\ UNCHANGED <<memAddress, bytesWritten, size, data, status, mem0, addr0>>

\* HAL_I2C_Mem_Write fails: the chip did not answer, or the transfer broke off and
\* the chip stores what it got.
PageFails ==
    /\ pc = "page" /\ bytesWritten < size
    /\ \E k \in 0..BytesToWrite : mem' = Programmed(k)
    /\ pc' = "out" /\ status' = "HAL_ERROR"
    /\ UNCHANGED <<memAddress, bytesWritten, size, data, mem0, addr0>>

\* Mutated: the cell's address is not advanced with the data.
DelayOverKeepsAddress ==
    /\ pc = "delay" /\ pc' = "page"
    /\ bytesWritten' = bytesWritten + BytesToWrite
    /\ UNCHANGED <<mem, memAddress, size, data, status, mem0, addr0>>

\* Mutated: the loop does not get on.
DelayOverStays ==
    /\ pc = "delay" /\ pc' = "page"
    /\ UNCHANGED <<mem, memAddress, bytesWritten, size, data, status, mem0, addr0>>

DelayOver ==
    /\ pc = "delay" /\ pc' = "page"
    /\ bytesWritten' = bytesWritten + BytesToWrite
    /\ memAddress' = memAddress + BytesToWrite
    /\ UNCHANGED <<mem, size, data, status, mem0, addr0>>

\* Mutated: the loop ends one byte early.
ReturnEarly ==
    /\ pc = "page" /\ bytesWritten + 1 >= size
    /\ pc' = "out" /\ status' = "HAL_OK"
    /\ UNCHANGED <<mem, memAddress, bytesWritten, size, data, mem0, addr0>>

Return ==
    /\ pc = "page" /\ bytesWritten >= size
    /\ pc' = "out" /\ status' = "HAL_OK"
    /\ UNCHANGED <<mem, memAddress, bytesWritten, size, data, mem0, addr0>>

\* A reset inside a transfer: the chip stores what it got.
Reset ==
    /\ \E k \in 0..BytesToWrite :
         IF pc = "page" /\ bytesWritten < size THEN mem' = Programmed(k)
         ELSE UNCHANGED mem
    /\ pc' = "out" /\ status' = "reset"
    /\ UNCHANGED <<memAddress, bytesWritten, size, data, mem0, addr0>>

Work == PageOk \/ PageFails \/ DelayOver \/ Return

Next == Call \/ Work \/ Reset

Spec == Init /\ [][Next]_vars /\ WF_vars(Work)

-----------------------------------------------------------------------------
TypeOK ==
    /\ mem \in [Addr -> Byte] /\ mem0 \in [Addr -> Byte]
    /\ pc \in {"out", "page", "delay"}
    /\ memAddress \in Nat /\ addr0 \in Nat
    /\ size \in 0..MaxSize /\ bytesWritten \in 0..size
    /\ data \in [0..size - 1 -> Byte]
    /\ status \in {"HAL_OK", "HAL_ERROR", "reset"}

\* Whatever transfer fails or is cut off by a reset, EEPROM_Write changes no byte
\* beside its cell, and inside it puts no byte but the new one.
OnlyItsCell ==
    \A x \in Addr :
      mem[x] # mem0[x] => /\ x \in addr0..addr0 + size - 1
                         /\ mem[x] = data[x - addr0]

\* HAL_OK says that the whole cell is in the chip.
OkIsComplete ==
    pc = "out" /\ status = "HAL_OK" => \A i \in 0..size - 1 : mem[addr0 + i] = data[i]

\* How far the loop is: what the proofs of the two need.
Progress ==
    /\ addr0 + size <= MemSize
    /\ pc # "out" => memAddress = addr0 + bytesWritten
    /\ pc # "out" => \A i \in 0..bytesWritten - 1 : mem[addr0 + i] = data[i]
    /\ pc = "delay" =>
         /\ bytesWritten < size
         /\ \A i \in 0..bytesWritten + BytesToWrite - 1 : mem[addr0 + i] = data[i]

\* The inductive invariant.
IInv == TypeOK /\ OnlyItsCell /\ OkIsComplete /\ Progress

\* The call as its caller sees it: the cell that is to be written.
Wanted == [x \in addr0..addr0 + size - 1 |-> data[x - addr0]]

Cell == INSTANCE CellWrite
          WITH Address <- Addr, Content <- Byte, store <- mem, wanted <- Wanted,
               writing <- pc # "out", answer <- status

\* Page by page, with its delays, failures and resets, EEPROM_Write is the write of
\* one cell: each step takes bytes of the cell from old to new and touches no other.
ImplementsCellWrite == Cell!WriteSpec

\* Every call returns.
CallsReturn == pc = "page" ~> pc = "out"
=============================================================================
