----------------------------- MODULE FrontPanel -----------------------------
(***************************************************************************)
(* The keys, their queue and TaskGUI together.  Every PUSHBTN_TMR_PERIOD   *)
(* the TIM6 interrupt samples the keys one after the other (Key_Read) and  *)
(* each of them may put an event in the queue; TaskGUI clears the queue,   *)
(* then the keys' records, starts the screens and takes one event in every *)
(* pass of its loop.                                                       *)
(*                                                                         *)
(* Key 0 is PushButton in full.  The others are what EventsApart shows of  *)
(* it: a key that reports no two events in less than Gap samples.  The     *)
(* queue is BoundedFifo, which EvtQueue implements.                        *)
(***************************************************************************)
EXTENDS PushButton, Sequences

CONSTANTS
    Keys,        \* how many keys Key_Read samples
    Capacity,    \* EVT_QDEPTH - 1
    MaxLag,      \* how many samples TaskGUI's loop may be behind
    NoEvent

ASSUME PanelAssumption ==
    /\ Keys \in Nat \ {0} /\ Capacity \in Nat \ {0} /\ MaxLag \in Nat \ {0}

VARIABLES
    scan,        \* the key the interrupt samples next; 0 between interrupts
    since,       \* [0..Keys - 1 -> 0..Gap - 1]: samples since its last event
    q, out, ret, \* the queue
    cleared,     \* TaskGUI is past Evt_InitQueue
    caught,      \* TaskGUI's loop has found the queue empty once
    lag          \* from then on: samples its loop is behind

panelVars == <<vars, scan, since, q, out, ret, cleared, caught, lag>>
queueVars == <<q, out, ret>>

Queue == INSTANCE BoundedFifo WITH Event <- {"event"}

Gap == ToShort + 1

PanelInit ==
    /\ Init /\ Queue!FifoInit
    /\ scan = 0 /\ since = [k \in 0..Keys - 1 |-> Gap - 1]
    /\ cleared = FALSE /\ caught = FALSE /\ lag = 0

-----------------------------------------------------------------------------
(***************************************************************************)
(* The interrupt.  It runs to completion: TaskGUI moves when scan = 0.     *)
(***************************************************************************)
Offer == Queue!Put("event") \/ Queue!Refuse

Counted(k, reports) ==
    since' = [since EXCEPT ![k] = IF reports THEN 0
                                  ELSE IF @ < Gap - 1 THEN @ + 1 ELSE @]

ScanFirst ==
    /\ scan = 0
    /\ caught => lag < MaxLag
    /\ Sample
    /\ IF report' = "none" THEN UNCHANGED queueVars ELSE Offer
    /\ Counted(0, report' # "none")
    /\ scan' = 1 % Keys
    /\ lag' = IF caught THEN lag + 1 ELSE lag
    /\ UNCHANGED <<cleared, caught>>

\* Mutated: a key reports in every sample, as in the up-down mode.
ScanNextRepeats ==
    /\ scan > 0
    /\ \/ Offer /\ Counted(scan, TRUE)
       \/ UNCHANGED queueVars /\ Counted(scan, FALSE)
    /\ scan' = (scan + 1) % Keys
    /\ UNCHANGED <<vars, cleared, caught, lag>>

ScanNext ==
    /\ scan > 0
    /\ \/ /\ caught => since[scan] = Gap - 1
          /\ Offer /\ Counted(scan, TRUE)
       \/ UNCHANGED queueVars /\ Counted(scan, FALSE)
    /\ scan' = (scan + 1) % Keys
    /\ UNCHANGED <<vars, cleared, caught, lag>>

Key_Read == ScanFirst \/ ScanNext

(***************************************************************************)
(* TaskGUI: Evt_InitQueue, KeyboardInit, then ButtonEvent in every pass.   *)
(***************************************************************************)
Evt_InitQueue ==
    /\ scan = 0 /\ ~cleared
    /\ Queue!Clear /\ cleared' = TRUE
    /\ UNCHANGED <<vars, scan, since, caught, lag>>

ClearRecords ==
    /\ scan = 0 /\ cleared
    /\ KeyboardInit
    /\ UNCHANGED <<scan, since, queueVars, cleared, caught, lag>>

ButtonEvent ==
    /\ scan = 0 /\ init = "done"
    /\ \/ Queue!Take
       \/ q = <<>> /\ UNCHANGED queueVars
    /\ caught' = (caught \/ q = <<>>)
    /\ lag' = IF lag = 0 THEN 0 ELSE lag - 1
    /\ UNCHANGED <<vars, scan, since, cleared>>

TaskGUI == Evt_InitQueue \/ ClearRecords \/ ButtonEvent

PanelNext == Key_Read \/ TaskGUI

\* The timer interrupt never stops and TaskGUI goes on.
PanelSpec == /\ PanelInit /\ [][PanelNext]_panelVars
             /\ WF_panelVars(Key_Read) /\ WF_panelVars(TaskGUI)

-----------------------------------------------------------------------------
\* Once KeyboardInit is done two events of one key are at least Gap samples apart,
\* whatever it left of the key's record: the rate the other keys are given here, and
\* the reason the queue is long enough.
EventsApart ==
    [][ScanFirst /\ init = "done" /\ report' # "none" => since[0] = Gap - 1]_panelVars

\* While TaskGUI is at most MaxLag samples behind, no key is lost: fewer events
\* than the queue has slots are waiting, however all the keys are pressed.
NoKeyLost == caught => Len(q) < Capacity
=============================================================================
