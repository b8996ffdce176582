--------------------------- MODULE SettingsStore ---------------------------
(***************************************************************************)
(* What the settings store promises a client that waits: settings are      *)
(* changed in groups, the next group only when the last one is safe;       *)
(* nothing outside the group that is open changes or can be lost; a        *)
(* restart brings back, cell by cell, what the unit worked with or, in the *)
(* open group, what it worked with before.                                 *)
(***************************************************************************)
CONSTANTS
    Cell,        \* the settings that are to survive a restart
    Group        \* the sets of settings that are changed together

VARIABLES
    value,       \* what the unit works with
    safe,        \* what a restart brings back
    open         \* the group that is being changed

storeVars == <<value, safe, open>>

StoreInit == value = safe /\ open = {}

Change(g) ==
    /\ g = open \/ value = safe
    /\ \A c \in Cell \ g : value'[c] = value[c]
    /\ open' = g /\ UNCHANGED safe

Save ==
    /\ \A c \in Cell : \/ safe'[c] = safe[c]
                       \/ c \in open /\ safe'[c] = value[c]
    /\ UNCHANGED <<value, open>>

Restart == value' = safe /\ open' = {} /\ UNCHANGED safe

StoreNext == (\E g \in Group : Change(g)) \/ Save \/ Restart

StoreSpec == StoreInit /\ [][StoreNext]_storeVars
=============================================================================
