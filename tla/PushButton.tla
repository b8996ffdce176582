----------------------------- MODULE PushButton -----------------------------
(***************************************************************************)
(* One key of the front panel: keys.c turns the level sampled every        *)
(* PUSHBTN_TMR_PERIOD (KeyboardRead, from the TIM6 interrupt) into single, *)
(* double, triple and long clicks.  TaskGUI's KeyboardInit clears the      *)
(* key's record once, while the interrupt is already sampling.             *)
(*                                                                         *)
(* mode is always PUSHBTN_MODE_CLICK (KeyboardInit stores 0, the only      *)
(* caller of KeyboardSetMode is in the other branch), so KeyboardRead's    *)
(* up-down branch has no state to run in.                                  *)
(***************************************************************************)
EXTENDS Naturals

CONSTANTS ToShort, ToLong, ToMax     \* PUSHBTN_TO_SHORT, _LONG and _MAX

ASSUME TimeoutAssumption ==
    /\ ToShort \in Nat /\ ToLong \in Nat /\ ToMax \in Nat
    /\ 0 < ToShort /\ ToShort < ToLong /\ ToLong < ToMax

VARIABLES
    old, click, duration, flag,    \* bt[key]
    init,                          \* the next statement of KeyboardInit
    report,                        \* the event the last sample enqueued
    level,                         \* the key itself, at the last sample
    quiet,                         \* history: samples up in a row since
                                   \* KeyboardInit, until there are Rest of them
    held,                          \* history: samples it is down, from a press
                                   \* after that rest, up to ToLong + 2
    presses,                       \* history: presses after that rest which no
                                   \* event told of yet
    tick                           \* history: the parity of the samples, so that
                                   \* one that changes nothing is a step too

vars == <<old, click, duration, flag, init, report, level, quiet, held, presses,
          tick>>

\* The log starts anywhere when the interrupt comes between two statements of
\* KeyboardInit; the histories start when the key was left alone this long.
Rest == ToShort + 2
Settled == quiet = Rest

Reports == {"none", "SCLK", "DCLK", "TCLK", "LCLK"}

Init == /\ old = 0 /\ click = 0 /\ duration = 0 /\ flag = FALSE
        /\ init = "old_state" /\ report = "none"
        /\ level = 0 /\ quiet = 0 /\ held = 0 /\ presses = 0 /\ tick = 0

\* Mutated: any release stops the count, not only that of a long click.
DurationStops(new) ==
    IF new # old THEN IF new = 0 THEN 0 ELSE 1
    ELSE IF duration > 0 /\ duration < ToMax THEN duration + 1 ELSE duration

\* duration after the level was compared with the one before: a change restarts
\* it, but the release that ends a long click stops it.
Duration(new) ==
    IF new # old THEN IF new = 0 /\ flag THEN 0 ELSE 1
    ELSE IF duration > 0 /\ duration < ToMax THEN duration + 1 ELSE duration

\* Mutated: the release that ends a long click counts as a click.
ClicksOfLong(new) == IF new = 0 /\ old = 1 THEN click + 1 ELSE click

\* click after that comparison.
Clicks(new) == IF new = 0 /\ old = 1 /\ ~flag THEN click + 1 ELSE click

\* Mutated: the long click comes one sample early.
ClickLongEarly(new, c, d) ==
    IF c >= 3 THEN "TCLK"
    ELSE IF new = 0 /\ d > ToShort THEN IF c = 2 THEN "DCLK" ELSE "SCLK"
    ELSE IF new = 1 /\ d >= ToLong THEN "LCLK" ELSE "none"

\* Mutated: a click is told one sample early.
ClickShortEarly(new, c, d) ==
    IF c >= 3 THEN "TCLK"
    ELSE IF new = 0 /\ d >= ToShort THEN IF c = 2 THEN "DCLK" ELSE "SCLK"
    ELSE IF new = 1 /\ d > ToLong THEN "LCLK" ELSE "none"

\* Mutated: a lone click waits for another one.
ClickForgetsSingle(new, c, d) ==
    IF c >= 3 THEN "TCLK"
    ELSE IF new = 0 /\ d > ToShort /\ c = 2 THEN "DCLK"
    ELSE IF new = 1 /\ d > ToLong THEN "LCLK" ELSE "none"

\* The event of this sample.
ClickEvent(new, c, d) ==
    IF c >= 3 THEN "TCLK"
    ELSE IF new = 0 /\ d > ToShort THEN IF c = 2 THEN "DCLK" ELSE "SCLK"
    ELSE IF new = 1 /\ d > ToLong THEN "LCLK" ELSE "none"

\* KeyboardRead: any event clears the click log, a long one also raises flag, so
\* that its release is not taken for a click.
KeyboardRead(new) ==
    LET c == Clicks(new)
        d == Duration(new)
        e == ClickEvent(new, c, d)
        pressed == IF new = 1 /\ level = 0 THEN 1 ELSE 0
    IN  /\ old' = new
        /\ click' = IF e = "none" THEN c ELSE 0
        /\ duration' = IF e = "none" THEN d ELSE 0
        /\ flag' = (e = "LCLK" \/ (flag /\ ~(new = 0 /\ old = 1)))
        /\ report' = e
        /\ level' = new /\ tick' = 1 - tick
        /\ quiet' = IF Settled THEN quiet
                    ELSE IF new = 1 \/ init # "done" THEN 0 ELSE quiet + 1
        /\ held' = IF new = 0 \/ ~Settled THEN 0
                   ELSE IF level = 0 THEN 1
                   ELSE IF held \in 1..ToLong + 1 THEN held + 1 ELSE held
        /\ presses' = IF ~Settled THEN 0
                      ELSE IF report # "none" THEN pressed ELSE presses + pressed
        /\ UNCHANGED init

\* KeyboardInit, statement by statement: the interrupt may come between any two.
InitOldState ==
    /\ init = "old_state" /\ init' = "flag"
    /\ old' = 0
    /\ UNCHANGED <<click, duration, flag, report, level, quiet, held, presses,
                   tick>>

InitFlag ==
    /\ init = "flag" /\ init' = "duration"
    /\ flag' = FALSE
    /\ UNCHANGED <<old, click, duration, report, level, quiet, held, presses,
                   tick>>

\* ClearLog assigns duration first, then click.
ClearLogDuration ==
    /\ init = "duration" /\ init' = "click"
    /\ duration' = 0
    /\ UNCHANGED <<old, click, flag, report, level, quiet, held, presses,
                   tick>>

ClearLogClick ==
    /\ init = "click" /\ init' = "done"
    /\ click' = 0
    /\ UNCHANGED <<old, duration, flag, report, level, quiet, held, presses,
                   tick>>

KeyboardInit == InitOldState \/ InitFlag \/ ClearLogDuration \/ ClearLogClick

Sample == \E new \in {0, 1} : KeyboardRead(new)

Next == Sample \/ KeyboardInit

\* The timer interrupt never stops, whatever the key does, and TaskGUI gets past
\* KeyboardInit.
Spec == Init /\ [][Next]_vars /\ WF_vars(Sample) /\ WF_vars(KeyboardInit)

-----------------------------------------------------------------------------
\* The fields stay in the ranges the code counts in: three clicks are always
\* consumed at once, and duration, a byte, never gets beyond ToLong.
TypeOK ==
    /\ old \in {0, 1} /\ level \in {0, 1}
    /\ click \in 0..2 /\ duration \in 0..ToLong
    /\ flag \in BOOLEAN
    /\ init \in {"old_state", "flag", "duration", "click", "done"}
    /\ report \in Reports
    /\ quiet \in 0..Rest /\ held \in 0..ToLong + 2 /\ presses \in 0..3
    /\ tick \in {0, 1}

\* The kind of click tells how often the key was pressed since the event before;
\* a long click swallows up to two clicks made just before it.
ReportCountsPresses ==
    Settled => /\ report = "SCLK" => presses = 1
               /\ report = "DCLK" => presses = 2
               /\ report = "TCLK" => presses = 3
               /\ report = "LCLK" => presses \in 1..3

\* A long click is reported exactly when a press reaches its ToLong + 1st sample,
\* whatever came before it and however long it goes on.
LongIffHeld ==
    Settled /\ held > 0 => (report = "LCLK" <=> held = ToLong + 1)

\* Every press made after the rest is told to the GUI in some event.
EveryPressIsReported ==
    (presses > 0 /\ report = "none") ~> (report # "none")
=============================================================================
