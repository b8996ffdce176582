----------------------------- MODULE CellWrite -----------------------------
(***************************************************************************)
(* What a caller of EEPROM_Write relies on: while a write is under way the *)
(* bytes of its cell go from the old value to the new one, and no other    *)
(* byte changes; whatever breaks the write off leaves each byte old or     *)
(* new; and only a write that stored all of them answers HAL_OK.           *)
(***************************************************************************)
CONSTANTS
    Address,     \* the addresses of the chip
    Content      \* the values of a byte

VARIABLES
    store,       \* the chip
    wanted,      \* the cell that is written: its addresses and their new values
    writing,     \* TRUE while the write is under way
    answer       \* what became of the last write

cellVars == <<store, wanted, writing, answer>>

WriteInit == store \in [Address -> Content] /\ ~writing /\ answer = "HAL_OK"

Begin ==
    /\ ~writing /\ writing'
    /\ DOMAIN wanted' \subseteq Address /\ wanted' \in [DOMAIN wanted' -> Content]
    /\ UNCHANGED <<store, answer>>

\* Some bytes of the cell arrive, or none.
Arrive ==
    /\ store' \in [Address -> Content]
    /\ \A x \in Address :
         store'[x] # store[x] => x \in DOMAIN wanted /\ store'[x] = wanted[x]

Part == writing /\ writing' /\ Arrive /\ UNCHANGED <<wanted, answer>>

Complete ==
    /\ writing /\ ~writing' /\ answer' = "HAL_OK"
    /\ \A x \in DOMAIN wanted : store[x] = wanted[x]
    /\ UNCHANGED <<store, wanted>>

Break ==
    /\ writing /\ ~writing' /\ answer' \in {"HAL_ERROR", "reset"}
    /\ Arrive /\ UNCHANGED wanted

\* A reset between two writes.
Restart == ~writing /\ ~writing' /\ answer' = "reset" /\ UNCHANGED <<store, wanted>>

WriteNext == Begin \/ Part \/ Complete \/ Break \/ Restart

WriteSpec == WriteInit /\ [][WriteNext]_cellVars
=============================================================================
