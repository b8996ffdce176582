-------------------------- MODULE FrontPanel_proofs --------------------------
(***************************************************************************)
(* Proofs about PushButton and FrontPanel, for all time-outs and any       *)
(* number of keys, of places in the queue and of samples TaskGUI is late.  *)
(***************************************************************************)
EXTENDS FrontPanel, FiniteSetTheorems, TLAPS

(***************************************************************************)
(* The inductive invariant of one key.                                     *)
(***************************************************************************)
Flag == IF level = 1 /\ ~flag THEN 1 ELSE 0

\* The ranges, without the count of presses.
KeyType ==
    /\ old \in {0, 1} /\ level \in {0, 1}
    /\ click \in 0..2 /\ duration \in 0..ToLong
    /\ flag \in BOOLEAN
    /\ init \in {"old_state", "flag", "duration", "click", "done"}
    /\ report \in Reports
    /\ quiet \in 0..Rest /\ held \in 0..ToLong + 2 /\ presses \in Nat
    /\ tick \in {0, 1}

\* A key that reported a long click is still down and its log is empty, except while
\* KeyboardInit is between old_state and flag.
FlagInv == init # "flag" /\ flag => old = 1 /\ click = 0 /\ duration = 0

\* After KeyboardInit no click is left whose time does not run.
LogInv == init = "done" /\ duration = 0 => click = 0

\* While the key is left alone the time runs towards the time-out or stands at 0.
QuietInv ==
    /\ ~Settled => presses = 0 /\ held = 0
    /\ quiet > 0 => /\ init = "done"
                    /\ ~Settled => /\ old = 0 /\ level = 0
                                   /\ duration <= ToShort
                                   /\ duration = 0 \/ duration >= quiet

\* What is true of a key that was left alone once.
SettledInv ==
    Settled =>
      /\ old = level
      /\ level = 0 => /\ held = 0 /\ duration <= ToShort
                      /\ duration = 0 <=> click = 0
      /\ level = 1 /\ ~flag => held \in 1..ToLong /\ duration = held /\ report # "LCLK"
      /\ level = 1 /\ flag => /\ held \in ToLong + 1..ToLong + 2
                              /\ report = "LCLK" <=> held = ToLong + 1
      /\ report = "none" => presses = click + Flag
      /\ report # "none" => click = 0 /\ Flag = 0
      /\ ReportCountsPresses

KeyInv == KeyType /\ FlagInv /\ LogInv /\ QuietInv /\ SettledInv

LEMMA InitKey == Init => KeyInv
<1> SUFFICES ASSUME Init PROVE KeyInv
  OBVIOUS
<1>1. ToShort \in Nat /\ ToLong \in Nat /\ 0 < ToShort /\ ToShort < ToLong
  BY TimeoutAssumption
<1>2. Rest \in Nat /\ 0 < Rest
  BY <1>1 DEF Rest
<1>3. KeyType
  <2>1. /\ duration \in 0..ToLong /\ quiet \in 0..Rest /\ held \in 0..ToLong + 2
        /\ presses \in Nat /\ click \in 0..2
    BY <1>1, <1>2 DEF Init
  <2>2. QED
    BY <2>1 DEF Init, KeyType, Reports
<1>4. FlagInv /\ LogInv /\ QuietInv /\ ~Settled
  BY <1>2 DEF Init, FlagInv, LogInv, QuietInv, Settled
<1>5. QED
  BY <1>3, <1>4 DEF KeyInv, SettledInv

\* What the next statement of KeyboardInit does is no concern of a settled key.
LEMMA InitStep == KeyInv /\ KeyboardInit => KeyInv'
<1> SUFFICES ASSUME KeyInv, KeyboardInit PROVE KeyInv'
  OBVIOUS
<1>1. ToShort \in Nat /\ ToLong \in Nat /\ Rest \in Nat /\ 0 < Rest
  BY TimeoutAssumption DEF Rest
<1>2. quiet = 0 /\ init # "done" /\ ~Settled
  BY <1>1 DEF KeyInv, KeyType, QuietInv, Settled, KeyboardInit, InitOldState, InitFlag,
              ClearLogDuration, ClearLogClick
<1>3. KeyType'
  <2>1. 0 \in 0..ToLong /\ 0 \in 0..2
    BY <1>1
  <2>2. CASE InitOldState \/ InitFlag
    BY <2>2 DEF KeyInv, KeyType, InitOldState, InitFlag
  <2>3. CASE ClearLogDuration \/ ClearLogClick
    BY <2>1, <2>3 DEF KeyInv, KeyType, ClearLogDuration, ClearLogClick
  <2>4. QED
    BY <2>2, <2>3 DEF KeyboardInit
<1>4. FlagInv'
  BY DEF KeyInv, FlagInv, KeyboardInit, InitOldState, InitFlag, ClearLogDuration,
         ClearLogClick
<1>5. LogInv'
  BY DEF LogInv, KeyboardInit, InitOldState, InitFlag, ClearLogDuration, ClearLogClick
<1>6. quiet' = 0 /\ presses' = presses /\ held' = held
  BY <1>2 DEF KeyboardInit, InitOldState, InitFlag, ClearLogDuration, ClearLogClick
<1>7. ~Settled' /\ QuietInv'
  BY <1>1, <1>2, <1>6 DEF KeyInv, QuietInv, Settled
<1>8. QED
  BY <1>3, <1>4, <1>5, <1>7 DEF KeyInv, SettledInv

\* The count after a sample: below ToMax it is always the exact number of samples.
LEMMA DurationValue ==
    ASSUME KeyType, NEW new \in {0, 1}
    PROVE  Duration(new) = IF new # old THEN IF new = 0 /\ flag THEN 0 ELSE 1
                           ELSE IF duration > 0 THEN duration + 1 ELSE 0
BY TimeoutAssumption DEF KeyType, Duration

LEMMA SampleType ==
    ASSUME KeyInv, NEW new \in {0, 1}, KeyboardRead(new)
    PROVE  KeyType'
<1>1. /\ ToShort \in Nat /\ ToLong \in Nat /\ Rest \in Nat /\ 0 < ToShort
      /\ ToShort < ToLong
  BY TimeoutAssumption DEF Rest
<1>2. KeyType
  BY DEF KeyInv
<1> DEFINE c == Clicks(new)
           d == Duration(new)
           e == ClickEvent(new, c, d)
<1>3. c \in 0..3 /\ d \in 0..ToLong + 1
  BY <1>1, <1>2, DurationValue DEF Clicks, KeyType
<1>4. e \in Reports /\ (e = "none" => c \in 0..2 /\ d \in 0..ToLong)
  BY <1>1, <1>3 DEF ClickEvent, Reports
<1>5. /\ old' = new /\ level' = new /\ tick' = 1 - tick /\ init' = init
      /\ click' = IF e = "none" THEN c ELSE 0
      /\ duration' = IF e = "none" THEN d ELSE 0
      /\ report' = e /\ flag' \in BOOLEAN
  BY DEF KeyboardRead
<1>6. quiet' \in 0..Rest
  BY <1>1, <1>2 DEF KeyType, KeyboardRead, Settled
<1>7. held' \in 0..ToLong + 2
  BY <1>1, <1>2 DEF KeyType, KeyboardRead
<1>8. presses' \in Nat
  BY <1>2 DEF KeyType, KeyboardRead
<1>9. QED
  BY <1>1, <1>2, <1>3, <1>4, <1>5, <1>6, <1>7, <1>8 DEF KeyType

LEMMA SampleLog ==
    ASSUME KeyInv, NEW new \in {0, 1}, KeyboardRead(new)
    PROVE  FlagInv' /\ LogInv' /\ QuietInv'
<1>1. /\ ToShort \in Nat /\ ToLong \in Nat /\ Rest = ToShort + 2 /\ 0 < ToShort
      /\ ToShort < ToLong
  BY TimeoutAssumption DEF Rest
<1>2. KeyType /\ FlagInv /\ LogInv /\ QuietInv
  BY DEF KeyInv
<1> DEFINE c == Clicks(new)
           d == Duration(new)
           e == ClickEvent(new, c, d)
<1>3. d = IF new # old THEN IF new = 0 /\ flag THEN 0 ELSE 1
          ELSE IF duration > 0 THEN duration + 1 ELSE 0
  BY <1>2, DurationValue
<1>4. c = IF new = 0 /\ old = 1 /\ ~flag THEN click + 1 ELSE click
  BY DEF Clicks
<1>5. /\ e = "none" => c < 3 /\ (new = 0 => d <= ToShort) /\ (new = 1 => d <= ToLong)
      /\ e = "LCLK" => new = 1
  BY <1>1, <1>2, <1>3, <1>4 DEF ClickEvent, KeyType
<1>6. /\ old' = new /\ level' = new /\ init' = init
      /\ click' = IF e = "none" THEN c ELSE 0
      /\ duration' = IF e = "none" THEN d ELSE 0
      /\ report' = e
      /\ flag' = (e = "LCLK" \/ (flag /\ ~(new = 0 /\ old = 1)))
      /\ quiet' = IF Settled THEN quiet
                  ELSE IF new = 1 \/ init # "done" THEN 0 ELSE quiet + 1
      /\ ~Settled => held' = 0 /\ presses' = 0
  BY DEF KeyboardRead
<1> HIDE DEF c, d, e
<1>7. FlagInv'
  <2>1. CASE e = "LCLK"
    BY <2>1, <1>5, <1>6 DEF FlagInv
  <2>2. CASE e # "LCLK"
    <3> SUFFICES ASSUME init # "flag", flag, ~(new = 0 /\ old = 1)
                 PROVE  old' = 1 /\ click' = 0 /\ duration' = 0
      BY <2>2, <1>6 DEF FlagInv
    <3>1. old = 1 /\ click = 0 /\ duration = 0 /\ new = 1
      BY <1>2 DEF FlagInv
    <3>2. c = 0 /\ d = 0
      BY <3>1, <1>3, <1>4
    <3>3. QED
      BY <3>1, <3>2, <1>6
  <2>3. QED
    BY <2>1, <2>2
<1>8. LogInv'
  <2> SUFFICES ASSUME init = "done", e = "none", d = 0 PROVE c = 0
    BY <1>6 DEF LogInv
  <2>1. CASE new # old
    BY <2>1, <1>2, <1>3, <1>4 DEF FlagInv, KeyType
  <2>2. CASE new = old
    BY <2>2, <1>2, <1>3, <1>4 DEF LogInv, KeyType
  <2>3. QED
    BY <2>1, <2>2
<1>9. QuietInv'
  <2>1. ~Settled' => ~Settled
    BY <1>6 DEF Settled, Rest
  <2>2. ~Settled' => presses' = 0 /\ held' = 0
    BY <2>1, <1>6
  <2>3. quiet' > 0 => init' = "done"
    BY <1>1, <1>2, <1>6 DEF QuietInv, Settled, KeyType
  <2>4. ASSUME quiet' > 0, ~Settled'
        PROVE  /\ old' = 0 /\ level' = 0 /\ duration' <= ToShort
               /\ duration' = 0 \/ duration' >= quiet'
    <3>1. new = 0 /\ quiet' = quiet + 1 /\ ~Settled
      BY <2>1, <2>4, <1>6
    <3>2. quiet > 0 => old = 0 /\ (duration = 0 \/ duration >= quiet)
      BY <3>1, <1>2 DEF QuietInv
    <3>3. duration' <= ToShort
      BY <3>1, <1>1, <1>5, <1>6
    <3>4. d = 0 \/ d >= quiet'
      BY <3>1, <3>2, <1>2, <1>3 DEF KeyType
    <3>5. QED
      BY <3>1, <3>3, <3>4, <1>6
  <2>5. QED
    BY <2>2, <2>3, <2>4 DEF QuietInv
<1>10. QED
  BY <1>7, <1>8, <1>9

\* The sample that ends the rest leaves an empty log; from then on a sample keeps the
\* account of presses and of the time the key is down.
LEMMA SampleSettled ==
    ASSUME KeyInv, NEW new \in {0, 1}, KeyboardRead(new), Settled'
    PROVE  SettledInv'
<1>1. /\ ToShort \in Nat /\ ToLong \in Nat /\ Rest = ToShort + 2 /\ 0 < ToShort
      /\ ToShort < ToLong
  BY TimeoutAssumption DEF Rest
<1>2. KeyType /\ FlagInv /\ LogInv /\ QuietInv /\ SettledInv
  BY DEF KeyInv
<1> DEFINE c == Clicks(new)
           d == Duration(new)
           e == ClickEvent(new, c, d)
           pressed == IF new = 1 /\ level = 0 THEN 1 ELSE 0
<1>3. d = IF new # old THEN IF new = 0 /\ flag THEN 0 ELSE 1
          ELSE IF duration > 0 THEN duration + 1 ELSE 0
  BY <1>2, DurationValue
<1>4. c = IF new = 0 /\ old = 1 /\ ~flag THEN click + 1 ELSE click
  BY DEF Clicks
<1>5. e = IF c >= 3 THEN "TCLK"
          ELSE IF new = 0 /\ d > ToShort THEN IF c = 2 THEN "DCLK" ELSE "SCLK"
          ELSE IF new = 1 /\ d > ToLong THEN "LCLK" ELSE "none"
  BY DEF ClickEvent
<1>6. /\ old' = new /\ level' = new
      /\ click' = IF e = "none" THEN c ELSE 0
      /\ duration' = IF e = "none" THEN d ELSE 0
      /\ report' = e
      /\ flag' <=> (e = "LCLK" \/ (flag /\ ~(new = 0 /\ old = 1)))
      /\ quiet' = IF Settled THEN quiet
                  ELSE IF new = 1 \/ init # "done" THEN 0 ELSE quiet + 1
  BY DEF KeyboardRead
<1>7. /\ held' = IF new = 0 \/ ~Settled THEN 0
                 ELSE IF level = 0 THEN 1
                 ELSE IF held \in 1..ToLong + 1 THEN held + 1 ELSE held
      /\ presses' = IF ~Settled THEN 0
                    ELSE IF report # "none" THEN pressed ELSE presses + pressed
  BY DEF KeyboardRead
<1> HIDE DEF c, d, e
<1>8. CASE ~Settled
  <2>1. new = 0 /\ quiet + 1 = Rest /\ init = "done" /\ quiet = ToShort + 1
    <3>1. Settled' <=> quiet' = Rest
      BY DEF Settled, Rest
    <3>2. QED
      BY <3>1, <1>1, <1>2, <1>6, <1>8 DEF KeyType, Settled
  <2>2. old = 0 /\ duration = 0 /\ click = 0 /\ ~flag
    BY <2>1, <1>1, <1>2, <1>8 DEF QuietInv, LogInv, FlagInv, KeyType
  <2>3. c = 0 /\ d = 0 /\ e = "none"
    BY <2>1, <2>2, <1>1, <1>3, <1>4, <1>5
  <2>4. /\ level' = 0 /\ old' = 0 /\ click' = 0 /\ duration' = 0 /\ ~flag'
        /\ held' = 0 /\ presses' = 0 /\ report' = "none"
    BY <2>1, <2>2, <2>3, <1>6, <1>7, <1>8
  <2>5. QED
    BY <2>4, <1>1 DEF SettledInv, Flag, ReportCountsPresses
<1>9. CASE Settled
  <2>s. old = level /\ level \in {0, 1} /\ click \in 0..2 /\ duration \in Nat
    BY <1>2, <1>9 DEF SettledInv, KeyType
  <2>f. flag => level = 1 /\ click = 0 /\ duration = 0
    <3>1. quiet > 0
      BY <1>1, <1>9 DEF Settled
    <3>2. QED
      BY <3>1, <2>s, <1>2 DEF QuietInv, FlagInv
  <2>p. presses \in Nat
    BY <1>2 DEF KeyType
  <2>1. CASE new = 0 /\ level = 0
    <3>1. /\ duration <= ToShort /\ (duration = 0 <=> click = 0) /\ ~flag
          /\ report = "none" => presses = click
          /\ report # "none" => click = 0
      BY <2>1, <2>s, <2>f, <1>2, <1>9 DEF SettledInv, Flag
    <3>2. c = click /\ d = IF duration > 0 THEN duration + 1 ELSE 0
      BY <2>1, <2>s, <1>3, <1>4
    <3>3. /\ presses' = click /\ held' = 0 /\ level' = 0 /\ old' = 0 /\ ~flag'
      <4>1. e # "LCLK"
        BY <2>1, <1>5
      <4>2. QED
        BY <4>1, <2>p, <2>1, <3>1, <1>6, <1>7, <1>9
    <3>4. CASE d > ToShort
      <4>1. click # 0 /\ e = IF c = 2 THEN "DCLK" ELSE "SCLK"
        BY <3>1, <3>2, <3>4, <2>1, <2>s, <1>1, <1>5
      <4>2. click' = 0 /\ duration' = 0 /\ report' = e
        BY <4>1, <1>6
      <4>3. QED
        BY <3>2, <3>3, <4>1, <4>2, <2>s, <1>1 DEF SettledInv, Flag, ReportCountsPresses
    <3>5. CASE ~(d > ToShort)
      <4>1. e = "none"
        BY <3>2, <3>5, <2>1, <2>s, <1>5
      <4>2. click' = click /\ duration' = d /\ report' = "none" /\ d \in Nat
        BY <4>1, <3>2, <2>s, <1>6
      <4>3. QED
        BY <3>1, <3>2, <3>3, <3>5, <4>2, <2>s, <1>1
          DEF SettledInv, Flag, ReportCountsPresses
    <3>6. QED
      BY <3>4, <3>5
  <2>2. CASE new = 1 /\ level = 0
    <3>1. /\ ~flag
          /\ report = "none" => presses = click
          /\ report # "none" => click = 0
      BY <2>2, <2>s, <2>f, <1>2, <1>9 DEF SettledInv, Flag
    <3>2. c = click /\ d = 1 /\ e = "none"
      BY <2>2, <2>s, <1>1, <1>3, <1>4, <1>5
    <3>3. /\ presses' = click + 1 /\ held' = 1 /\ level' = 1 /\ old' = 1 /\ ~flag'
          /\ click' = click /\ duration' = 1 /\ report' = "none"
      BY <2>p, <3>1, <3>2, <2>2, <2>s, <1>6, <1>7, <1>9
    <3>4. QED
      BY <3>3, <1>1 DEF SettledInv, Flag, ReportCountsPresses
  <2>3. CASE new = 0 /\ level = 1 /\ flag
    <3>1. click = 0
      BY <2>3, <2>f
    <3>2. c = 0 /\ d = 0 /\ e = "none"
      BY <2>3, <2>s, <3>1, <1>1, <1>3, <1>4, <1>5
    <3>3. /\ presses' = 0 /\ held' = 0 /\ level' = 0 /\ old' = 0 /\ ~flag'
          /\ click' = 0 /\ duration' = 0 /\ report' = "none"
      <4>1. report = "none" => presses = 0
        BY <2>3, <3>1, <1>2, <1>9 DEF SettledInv, Flag
      <4>2. QED
        BY <4>1, <3>2, <2>3, <2>s, <1>6, <1>7, <1>9
    <3>4. QED
      BY <3>3, <1>1 DEF SettledInv, Flag, ReportCountsPresses
  <2>4. CASE new = 0 /\ level = 1 /\ ~flag
    <3>1. report = "none" /\ presses = click + 1
      BY <2>4, <1>2, <1>9 DEF SettledInv, Flag
    <3>2. c = click + 1 /\ d = 1
      BY <2>4, <2>s, <1>3, <1>4
    <3>3. e = IF click = 2 THEN "TCLK" ELSE "none"
      BY <3>2, <2>4, <2>s, <1>1, <1>5
    <3>4. /\ presses' = click + 1 /\ held' = 0 /\ level' = 0 /\ old' = 0 /\ ~flag'
          /\ click' = (IF click = 2 THEN 0 ELSE click + 1)
          /\ duration' = (IF click = 2 THEN 0 ELSE 1) /\ report' = e
      BY <3>1, <3>2, <3>3, <2>4, <2>s, <1>6, <1>7, <1>9
    <3>5. QED
      BY <3>3, <3>4, <2>s, <1>1 DEF SettledInv, Flag, ReportCountsPresses
  <2>5. CASE new = 1 /\ level = 1 /\ flag
    <3>1. click = 0 /\ duration = 0 /\ held \in ToLong + 1..ToLong + 2
      BY <2>5, <2>f, <1>2, <1>9 DEF SettledInv
    <3>2. c = 0 /\ d = 0 /\ e = "none"
      BY <2>5, <2>s, <3>1, <1>1, <1>3, <1>4, <1>5
    <3>3. /\ presses' = 0 /\ held' = ToLong + 2 /\ level' = 1 /\ old' = 1 /\ flag'
          /\ click' = 0 /\ duration' = 0 /\ report' = "none"
      <4>1. report = "none" => presses = 0
        BY <2>5, <3>1, <1>2, <1>9 DEF SettledInv, Flag
      <4>2. held' = ToLong + 2
        BY <3>1, <2>5, <1>1, <1>7, <1>9
      <4>3. QED
        BY <4>1, <4>2, <3>2, <2>5, <2>s, <1>6, <1>7, <1>9
    <3>4. QED
      BY <3>3, <1>1 DEF SettledInv, Flag, ReportCountsPresses
  <2>6. CASE new = 1 /\ level = 1 /\ ~flag
    <3>1. /\ report = "none" /\ presses = click + 1
          /\ held \in 1..ToLong /\ duration = held
      BY <2>6, <1>2, <1>9 DEF SettledInv, Flag
    <3>2. c = click /\ d = held + 1
      BY <3>1, <2>6, <2>s, <1>3, <1>4
    <3>3. e = IF held = ToLong THEN "LCLK" ELSE "none"
      BY <3>1, <3>2, <2>6, <2>s, <1>1, <1>5
    <3>4. /\ presses' = click + 1 /\ held' = held + 1 /\ level' = 1 /\ old' = 1
          /\ (flag' <=> held = ToLong) /\ report' = e
          /\ click' = (IF held = ToLong THEN 0 ELSE click)
          /\ duration' = (IF held = ToLong THEN 0 ELSE held + 1)
      BY <3>1, <3>2, <3>3, <2>6, <2>s, <1>1, <1>6, <1>7, <1>9
    <3>5. QED
      BY <3>1, <3>3, <3>4, <2>s, <1>1 DEF SettledInv, Flag, ReportCountsPresses
  <2>7. QED
    BY <2>1, <2>2, <2>3, <2>4, <2>5, <2>6, <2>s
<1>10. QED
  BY <1>8, <1>9

LEMMA SampleStep == KeyInv /\ Sample => KeyInv'
<1> SUFFICES ASSUME KeyInv, NEW new \in {0, 1}, KeyboardRead(new) PROVE KeyInv'
  BY DEF Sample
<1>1. CASE Settled'
  BY <1>1, SampleType, SampleLog, SampleSettled DEF KeyInv
<1>2. CASE ~Settled'
  BY <1>2, SampleType, SampleLog DEF KeyInv, SettledInv
<1>3. QED
  BY <1>1, <1>2

\* The key does in the panel what it does alone.
LEMMA PanelStep == PanelNext => [Next]_vars
BY DEF PanelNext, Key_Read, ScanFirst, ScanNext, TaskGUI, Evt_InitQueue, ClearRecords,
       ButtonEvent, Next

THEOREM KeyInvariance == PanelSpec => []KeyInv
<1>1. PanelInit => KeyInv
  BY InitKey DEF PanelInit
<1>2. KeyInv /\ [Next]_vars => KeyInv'
  <2>1. KeyInv /\ UNCHANGED vars => KeyInv'
    BY DEF KeyInv, KeyType, FlagInv, LogInv, QuietInv, SettledInv, Settled, Flag,
           ReportCountsPresses, vars
  <2>2. QED
    BY <2>1, SampleStep, InitStep DEF Next
<1>3. KeyInv /\ [PanelNext]_panelVars => KeyInv'
  BY <1>2, PanelStep DEF panelVars
<1>4. QED
  BY <1>1, <1>3, PTL DEF PanelSpec

\* The log counts two clicks at most and its time never passes ToLong, so that the
\* bytes it is kept in do not overflow.
THEOREM TypeCorrect == PanelSpec => []TypeOK
<1>1. KeyInv => TypeOK
  <2> SUFFICES ASSUME KeyInv PROVE TypeOK
    OBVIOUS
  <2>1. presses \in 0..3
    <3>1. CASE ~Settled
      BY <3>1 DEF KeyInv, QuietInv
    <3>2. CASE Settled
      BY <3>2 DEF KeyInv, KeyType, SettledInv, Flag, ReportCountsPresses, Reports
    <3>3. QED
      BY <3>1, <3>2
  <2>2. QED
    BY <2>1 DEF KeyInv, KeyType, TypeOK
<1>2. QED
  BY <1>1, KeyInvariance, PTL

\* The kind of click is the number of presses, for all time-outs.
THEOREM ReportCountsPressesHolds == PanelSpec => []ReportCountsPresses
<1>1. KeyInv => ReportCountsPresses
  BY DEF KeyInv, SettledInv, ReportCountsPresses
<1>2. QED
  BY <1>1, KeyInvariance, PTL

\* The long click comes in the sample that passes ToLong and in no other.
THEOREM LongIffHeldHolds == PanelSpec => []LongIffHeld
<1>1. KeyInv => LongIffHeld
  <2> SUFFICES ASSUME KeyInv, Settled, held > 0
               PROVE  report = "LCLK" <=> held = ToLong + 1
    BY DEF LongIffHeld
  <2>1. ToLong \in Nat
    BY TimeoutAssumption
  <2>2. level = 1
    BY DEF KeyInv, KeyType, SettledInv
  <2>3. CASE flag
    BY <2>2, <2>3 DEF KeyInv, SettledInv
  <2>4. CASE ~flag
    BY <2>1, <2>2, <2>4 DEF KeyInv, SettledInv
  <2>5. QED
    BY <2>3, <2>4
<1>2. QED
  BY <1>1, KeyInvariance, PTL

-----------------------------------------------------------------------------
(***************************************************************************)
(* How soon a press is told: the part of EveryPressIsReported that needs   *)
(* no fairness.                                                            *)
(***************************************************************************)
\* Presses no event told of yet.
Untold == Settled /\ presses > 0 /\ report = "none"

\* What is left, in samples, until an event tells of them at the latest: two more
\* clicks, each of which takes its time down and its time up, and the time-out.
ClicksLeft(clicks) == CASE clicks = 0 -> (ToShort + ToLong) + (ToShort + ToLong)
                        [] clicks = 1 -> ToShort + ToLong
                        [] OTHER -> 0
WaitOf(clicks, down, time) ==
    ClicksLeft(clicks) + ToLong + 1 - time + IF down = 1 THEN 0 ELSE ToShort
Wait == WaitOf(click, level, duration)

\* Whatever is done with the key, and whatever it did before, an event tells of a
\* press 2 * ToShort + 3 * ToLong samples after it at the latest: 42 samples, or
\* 1.05 s, with the firmware's time-outs.
PressIsToldSoon ==
    [][Untold => /\ Wait \in 1..2 * ToShort + 3 * ToLong
                 /\ \/ UNCHANGED vars
                    \/ report' # "none"
                    \/ Untold' /\ Wait' \in 1..Wait - 1]_panelVars

\* The key's record while a press waits to be told.
LEMMA UntoldRecord ==
    ASSUME KeyInv, Untold
    PROVE  /\ old = level /\ ~flag /\ init = "done" /\ presses = click + Flag
           /\ level = 0 => click \in 1..2 /\ duration \in 1..ToShort
           /\ level = 1 => click \in 0..2 /\ duration \in 1..ToLong
<1>1. ToShort \in Nat /\ ToLong \in Nat /\ Rest > 0
  BY TimeoutAssumption DEF Rest
<1>2. KeyType /\ FlagInv /\ QuietInv /\ SettledInv /\ Settled
  BY DEF KeyInv, Untold
<1>3. old = level /\ init = "done" /\ presses = click + Flag /\ presses > 0
  BY <1>1, <1>2 DEF Untold, SettledInv, QuietInv, Settled
<1>4. click \in 0..2 /\ duration \in Nat /\ level \in {0, 1}
  BY <1>1, <1>2 DEF KeyType
<1>5. ~flag
  BY <1>2, <1>3 DEF FlagInv, Flag
<1>6. level = 0 => click \in 1..2 /\ duration \in 1..ToShort
  BY <1>1, <1>2, <1>3, <1>4 DEF SettledInv, Flag
<1>7. level = 1 => duration \in 1..ToLong
  BY <1>1, <1>2, <1>5 DEF SettledInv
<1>8. QED
  BY <1>3, <1>4, <1>5, <1>6, <1>7

LEMMA WaitRange == KeyInv => (Untold => Wait \in 1..2 * ToShort + 3 * ToLong)
<1> SUFFICES ASSUME KeyInv, Untold PROVE Wait \in 1..2 * ToShort + 3 * ToLong
  OBVIOUS
<1>1. ToShort \in Nat /\ ToLong \in Nat
  BY TimeoutAssumption
<1>2. level \in {0, 1}
  BY DEF KeyInv, KeyType
<1>3. CASE level = 0
  BY <1>1, <1>3, UntoldRecord DEF Wait, WaitOf, ClicksLeft
<1>4. CASE level = 1
  BY <1>1, <1>4, UntoldRecord DEF Wait, WaitOf, ClicksLeft
<1>5. QED
  BY <1>2, <1>3, <1>4

\* A sample tells of the press or brings the event nearer.
LEMMA WaitDescends ==
    ASSUME KeyInv, NEW new \in {0, 1}, KeyboardRead(new), Untold, report' = "none"
    PROVE  Untold' /\ Wait' < Wait
<1>1. ToShort \in Nat /\ ToLong \in Nat /\ 0 < ToShort /\ ToShort < ToLong
  BY TimeoutAssumption
<1>2. /\ old = level /\ ~flag /\ presses = click + Flag
      /\ level = 0 => click \in 1..2 /\ duration \in 1..ToShort
      /\ level = 1 => click \in 0..2 /\ duration \in 1..ToLong
      /\ level \in {0, 1} /\ presses \in Nat
  BY UntoldRecord DEF KeyInv, KeyType
<1>3. Duration(new) = IF new # level THEN 1 ELSE duration + 1
  BY <1>1, <1>2, DurationValue DEF KeyInv
<1>4. Clicks(new) = IF new = 0 /\ level = 1 THEN click + 1 ELSE click
  BY <1>2 DEF Clicks
<1>5. /\ level' = new /\ quiet' = quiet /\ ClickEvent(new, Clicks(new), Duration(new)) = "none"
      /\ click' = Clicks(new) /\ duration' = Duration(new)
      /\ presses' = presses + IF new = 1 /\ level = 0 THEN 1 ELSE 0
  BY DEF KeyboardRead, Untold
<1>6. Untold'
  BY <1>2, <1>5 DEF Untold, Settled, Rest
<1>7. click' <= 2
  BY <1>2, <1>4, <1>5 DEF ClickEvent
<1>8. Wait' = WaitOf(click', new, duration') /\ Wait = WaitOf(click, level, duration)
  BY <1>5 DEF Wait
<1>9. CASE new = level
  <2>1. click' = click /\ duration' = duration + 1 /\ click \in 0..2 /\ duration \in Nat
    BY <1>1, <1>2, <1>3, <1>4, <1>5, <1>9
  <2>2. ClicksLeft(click) \in Nat
    BY <1>1, <2>1 DEF ClicksLeft
  <2>3. QED
    BY <1>1, <1>2, <1>6, <1>8, <1>9, <2>1, <2>2 DEF WaitOf
<1>10. CASE new = 1 /\ level = 0
  <2>1. click' = click /\ duration' = 1 /\ click \in 0..2 /\ duration \in 1..ToShort
    BY <1>2, <1>3, <1>4, <1>5, <1>10
  <2>2. ClicksLeft(click) \in Nat
    BY <1>1, <2>1 DEF ClicksLeft
  <2>3. QED
    BY <1>1, <1>6, <1>8, <1>10, <2>1, <2>2 DEF WaitOf
<1>11. CASE new = 0 /\ level = 1
  <2>1. click' = click + 1 /\ duration' = 1 /\ click \in 0..1 /\ duration \in 1..ToLong
    BY <1>2, <1>3, <1>4, <1>5, <1>7, <1>11
  <2>2. /\ ClicksLeft(click) \in Nat /\ ClicksLeft(click') \in Nat
        /\ ClicksLeft(click) = ClicksLeft(click') + ToShort + ToLong
    BY <1>1, <2>1 DEF ClicksLeft
  <2>3. QED
    BY <1>1, <1>6, <1>8, <1>11, <2>1, <2>2 DEF WaitOf
<1>12. QED
  BY <1>2, <1>9, <1>10, <1>11

\* Every press is told within the time its clicks and time-outs take, for all
\* time-outs, whatever TaskGUI and the other keys do.
THEOREM PressIsToldSoonHolds == PanelSpec => PressIsToldSoon
<1> DEFINE InTime == Untold => Wait \in 1..2 * ToShort + 3 * ToLong
<1>1. KeyInv /\ InTime /\ InTime' /\ [PanelNext]_panelVars =>
        [Untold => /\ Wait \in 1..2 * ToShort + 3 * ToLong
                   /\ \/ UNCHANGED vars
                      \/ report' # "none"
                      \/ Untold' /\ Wait' \in 1..Wait - 1]_panelVars
  <2> SUFFICES ASSUME KeyInv, InTime, InTime', PanelNext, Untold, ~UNCHANGED vars,
                      report' = "none"
               PROVE  Untold' /\ Wait' \in 1..Wait - 1
    OBVIOUS
  <2>1. init = "done"
    BY UntoldRecord
  <2>2. Sample
    BY <2>1, PanelStep DEF Next, KeyboardInit, InitOldState, InitFlag,
       ClearLogDuration, ClearLogClick, vars
  <2>3. PICK new \in {0, 1} : KeyboardRead(new)
    BY <2>2 DEF Sample
  <2>4. Untold' /\ Wait' < Wait
    BY <2>3, WaitDescends
  <2>5. Wait \in 1..2 * ToShort + 3 * ToLong /\ Wait' \in 1..2 * ToShort + 3 * ToLong
    BY <2>4
  <2>6. QED
    BY <2>4, <2>5, TimeoutAssumption
<1>2. QED
  BY <1>1, WaitRange, KeyInvariance, PTL DEF PanelSpec, PressIsToldSoon

-----------------------------------------------------------------------------
(***************************************************************************)
(* The rate of a key.                                                      *)
(***************************************************************************)
\* An event empties the log, and a click takes two samples at least: as long as the
\* last event is less than Gap samples ago, the log has seen that many samples.  What
\* KeyboardInit left of the log does no harm: it ends by clearing the clicks.
ApartInv ==
    /\ since \in [0..Keys - 1 -> 0..Gap - 1]
    /\ since[0] < Gap - 1 => /\ duration <= since[0]
                             /\ init = "done" => 2 * click <= since[0] + 1 - old

LEMMA InitApart == PanelInit => ApartInv
<1>1. Gap - 1 \in Nat /\ Keys \in Nat \ {0}
  BY TimeoutAssumption, PanelAssumption DEF Gap
<1>2. QED
  BY <1>1 DEF PanelInit, ApartInv

\* Only the sample of key 0 changes its since, and it changes the log at the same time.
LEMMA ApartStep ==
    ASSUME ToShort <= 4, KeyInv, ApartInv, [PanelNext]_panelVars
    PROVE  /\ ApartInv'
           /\ ScanFirst /\ init = "done" /\ report' # "none" => since[0] = Gap - 1
<1>1. /\ ToShort \in Nat /\ ToLong \in Nat /\ 0 < ToShort /\ ToShort < ToLong
      /\ Gap = ToShort + 1 /\ Keys \in Nat \ {0}
  BY TimeoutAssumption, PanelAssumption DEF Gap
<1>2. since \in [0..Keys - 1 -> 0..Gap - 1] /\ 0 \in 0..Keys - 1 /\ since[0] \in 0..Gap - 1
  BY <1>1 DEF ApartInv
<1>t. /\ old \in {0, 1} /\ click \in 0..2 /\ duration \in Nat
  BY <1>1 DEF KeyInv, KeyType
<1>3. CASE ScanFirst
  <2>1. PICK new \in {0, 1} : KeyboardRead(new)
    BY <1>3 DEF ScanFirst, Sample
  <2> DEFINE c == Clicks(new)
             d == Duration(new)
             e == ClickEvent(new, c, d)
  <2>2. /\ since' \in [0..Keys - 1 -> 0..Gap - 1]
        /\ since'[0] = IF report' # "none" THEN 0
                       ELSE IF since[0] < Gap - 1 THEN since[0] + 1 ELSE since[0]
    BY <1>3, <1>1, <1>2 DEF ScanFirst, Counted
  <2>3. d \in Nat /\ (d <= duration + 1 \/ d <= 1)
    BY <1>t, DurationValue DEF KeyInv
  <2>4. c = IF new = 0 /\ old = 1 /\ ~flag THEN click + 1 ELSE click
    BY DEF Clicks
  <2>5. e = IF c >= 3 THEN "TCLK"
            ELSE IF new = 0 /\ d > ToShort THEN IF c = 2 THEN "DCLK" ELSE "SCLK"
            ELSE IF new = 1 /\ d > ToLong THEN "LCLK" ELSE "none"
    BY DEF ClickEvent
  <2>6. /\ report' = e /\ init' = init /\ old' = new
        /\ click' = IF e = "none" THEN c ELSE 0
        /\ duration' = IF e = "none" THEN d ELSE 0
    BY <2>1 DEF KeyboardRead
  <2> HIDE DEF c, d, e
  <2>7. since[0] < Gap - 1 => /\ duration <= since[0]
                              /\ init = "done" => 2 * click <= since[0] + 1 - old
    BY DEF ApartInv
  <2>8. init = "done" /\ e # "none" => since[0] = Gap - 1
    BY <1>1, <1>2, <1>t, <2>3, <2>4, <2>5, <2>7
  <2>9. CASE e # "none"
    BY <2>2, <2>6, <2>8, <2>9 DEF ApartInv
  <2>10. CASE e = "none"
    <3>1. since'[0] < Gap - 1 => since[0] < Gap - 1 /\ since'[0] = since[0] + 1
      BY <2>2, <2>6, <2>10, <1>1, <1>2
    <3>2. since'[0] < Gap - 1 => d <= since'[0]
      BY <3>1, <2>3, <2>7, <1>2, <1>t
    <3>3. since'[0] < Gap - 1 /\ init = "done" => 2 * c <= since'[0] + 1 - new
      BY <3>1, <2>4, <2>7, <1>2, <1>t
    <3>4. QED
      BY <2>2, <2>6, <2>8, <2>10, <3>2, <3>3 DEF ApartInv
  <2>11. QED
    BY <2>9, <2>10
<1>4. CASE ScanNext
  <2>2. scan # 0 /\ UNCHANGED vars /\ ~ScanFirst
    BY <1>4, <1>1 DEF ScanNext, ScanFirst
  <2>3. since' \in [0..Keys - 1 -> 0..Gap - 1]
    BY <1>4, <1>1, <1>2 DEF ScanNext, Counted
  <2>4. since'[0] = since[0]
    BY <1>4, <2>2, <1>2 DEF ScanNext, Counted
  <2>5. QED
    BY <2>2, <2>3, <2>4 DEF ApartInv, vars
<1>5. CASE Evt_InitQueue \/ ButtonEvent \/ UNCHANGED panelVars
  <2>1. UNCHANGED vars /\ since' = since
    BY <1>5 DEF Evt_InitQueue, ButtonEvent, panelVars
  <2>2. tick \in {0, 1}
    BY DEF KeyInv, KeyType
  <2>3. ScanFirst => tick' = 1 - tick
    BY DEF ScanFirst, Sample, KeyboardRead
  <2>4. ~ScanFirst
    BY <2>1, <2>2, <2>3 DEF vars
  <2>5. QED
    BY <2>1, <2>4 DEF ApartInv, vars
<1>6. CASE ClearRecords
  <2>1. since' = since /\ init # "done" /\ (duration' = duration \/ duration' = 0)
    BY <1>6 DEF ClearRecords, KeyboardInit, InitOldState, InitFlag, ClearLogDuration,
                ClearLogClick
  <2>2. init' = "done" => click' = 0 /\ old' = old
    BY <1>6 DEF ClearRecords, KeyboardInit, InitOldState, InitFlag, ClearLogDuration,
                ClearLogClick
  <2>3. QED
    BY <2>1, <2>2, <1>2, <1>t DEF ApartInv
<1>7. QED
  BY <1>3, <1>4, <1>5, <1>6 DEF PanelNext, Key_Read, TaskGUI

\* Two events of a key are Gap samples apart once KeyboardInit is done.  With a longer
\* time-out, above 4, three fast clicks make a triple click sooner.
THEOREM EventsApartHolds ==
    ASSUME ToShort <= 4
    PROVE  PanelSpec => EventsApart
<1>1. KeyInv /\ ApartInv /\ [PanelNext]_panelVars =>
        /\ ApartInv'
        /\ ScanFirst /\ init = "done" /\ report' # "none" => since[0] = Gap - 1
  BY ApartStep
<1>2. QED
  BY <1>1, InitApart, KeyInvariance, PTL DEF PanelSpec, EventsApart

-----------------------------------------------------------------------------
(***************************************************************************)
(* The length of the queue.                                                *)
(***************************************************************************)
\* A key saves one for each sample it reports nothing in, up to Gap - 1, and an event
\* costs it all of them.  What the keys have saved, counted as a set.
Credit(f) == {ki \in (0..Keys - 1) \X (1..Gap - 1) : ki[2] <= f[ki[1]]}

\* The keys the interrupt under way has still to sample.
ToScan == IF scan = 0 THEN 0 ELSE Keys - scan

\* An event in the queue counts Gap.  A sample adds one for each key at most, and an
\* event TaskGUI takes is worth as much as all the keys add in that time.
RateInv ==
    caught => Gap * Len(q) + Cardinality(Credit(since)) + ToScan
                <= Keys * (Gap - 1 + lag)

PanelType ==
    /\ q \in Seq({"event"}) /\ scan \in 0..Keys - 1 /\ lag \in 0..MaxLag
    /\ caught \in BOOLEAN
    /\ caught => init = "done"

LEMMA GapType == Gap - 1 \in Nat \ {0} /\ Keys \in Nat \ {0} /\ Gap \in Nat \ {0}
BY TimeoutAssumption, PanelAssumption DEF Gap

LEMMA CreditCount ==
    ASSUME NEW f
    PROVE  /\ IsFiniteSet(Credit(f)) /\ Cardinality(Credit(f)) \in Nat
           /\ Cardinality(Credit(f)) <= Keys * (Gap - 1)
<1> DEFINE All == (0..Keys - 1) \X (1..Gap - 1)
<1>1. /\ IsFiniteSet(0..Keys - 1) /\ Cardinality(0..Keys - 1) = Keys
      /\ IsFiniteSet(1..Gap - 1) /\ Cardinality(1..Gap - 1) = Gap - 1
  BY GapType, FS_Interval
<1>2. /\ IsFiniteSet(All)
      /\ Cardinality(All) = Cardinality(0..Keys - 1) * Cardinality(1..Gap - 1)
  BY <1>1, FS_Product, Zenon
<1>3. Credit(f) \in SUBSET All
  BY DEF Credit
<1>4. Cardinality(All) = Keys * (Gap - 1)
  BY <1>1, <1>2
<1>5. QED
  BY <1>2, <1>3, <1>4, FS_Subset, FS_CardinalityType

\* One saved.
LEMMA CreditSaved ==
    ASSUME NEW f \in [0..Keys - 1 -> 0..Gap - 1], NEW k \in 0..Keys - 1, f[k] < Gap - 1
    PROVE  Cardinality(Credit([f EXCEPT ![k] = f[k] + 1])) = Cardinality(Credit(f)) + 1
<1> DEFINE g == [f EXCEPT ![k] = f[k] + 1]
           x == <<k, f[k] + 1>>
<1>1. x \in (0..Keys - 1) \X (1..Gap - 1) /\ x[1] = k /\ x[2] = f[k] + 1
  BY GapType
<1>2. x \notin Credit(f)
  BY <1>1, GapType DEF Credit
<1>3. Credit(g) = Credit(f) \cup {x}
  <2>1. ASSUME NEW y \in (0..Keys - 1) \X (1..Gap - 1)
        PROVE  y[2] <= g[y[1]] <=> (y[2] <= f[y[1]] \/ y = x)
    <3>1. y[1] \in 0..Keys - 1 /\ y[2] \in 1..Gap - 1 /\ y = <<y[1], y[2]>>
      OBVIOUS
    <3>2. g[y[1]] = IF y[1] = k THEN f[k] + 1 ELSE f[y[1]]
      BY <3>1
    <3>3. f[k] \in 0..Gap - 1
      OBVIOUS
    <3>4. y = x <=> y[1] = k /\ y[2] = f[k] + 1
      BY <3>1
    <3>5. QED
      BY <3>1, <3>2, <3>3, <3>4, GapType
  <2> HIDE DEF g, x
  <2>2. QED
    BY <1>1, <2>1 DEF Credit
<1>4. QED
  BY <1>2, <1>3, CreditCount, FS_AddElement

\* All spent.
LEMMA CreditSpent ==
    ASSUME NEW f \in [0..Keys - 1 -> 0..Gap - 1], NEW k \in 0..Keys - 1, f[k] = Gap - 1
    PROVE  Cardinality(Credit([f EXCEPT ![k] = 0])) = Cardinality(Credit(f)) - (Gap - 1)
<1> DEFINE g == [f EXCEPT ![k] = 0]
           own == {k} \X (1..Gap - 1)
<1>1. IsFiniteSet(1..Gap - 1) /\ Cardinality(1..Gap - 1) = Gap - 1
  BY GapType, FS_Interval
<1>2. Cardinality(own) = Gap - 1
  <2>1. IsFiniteSet({k}) /\ Cardinality({k}) = 1
    BY FS_Singleton
  <2>2. Cardinality(own) = Cardinality({k}) * Cardinality(1..Gap - 1)
    BY <1>1, <2>1, FS_Product
  <2>3. QED
    BY <1>1, <2>1, <2>2, GapType
<1>3. own \subseteq Credit(f)
  BY DEF Credit
<1>4. Credit(g) = Credit(f) \ own
  <2>1. ASSUME NEW y \in (0..Keys - 1) \X (1..Gap - 1)
        PROVE  y[2] <= g[y[1]] <=> (y[2] <= f[y[1]] /\ y \notin own)
    <3>1. y[1] \in 0..Keys - 1 /\ y[2] \in 1..Gap - 1 /\ y = <<y[1], y[2]>>
      OBVIOUS
    <3>2. g[y[1]] = IF y[1] = k THEN 0 ELSE f[y[1]]
      BY <3>1
    <3>3. y \in own <=> y[1] = k
      BY <3>1
    <3>4. QED
      BY <3>1, <3>2, <3>3, GapType
  <2> HIDE DEF g, own
  <2>2. QED
    BY <2>1 DEF Credit
<1>5. Credit(f) \cap own = own
  BY <1>3
<1>6. IsFiniteSet(Credit(f))
  BY CreditCount
<1>7. Cardinality(Credit(f) \ own) = Cardinality(Credit(f)) - Cardinality(Credit(f) \cap own)
  BY <1>6, FS_Difference
<1>8. QED
  BY <1>2, <1>4, <1>5, <1>7

\* A key that saved all it can stays as it is.
LEMMA CreditSaturates ==
    ASSUME NEW f \in [0..Keys - 1 -> 0..Gap - 1], NEW k \in 0..Keys - 1,
           NEW g, g = [f EXCEPT ![k] = IF f[k] < Gap - 1 THEN f[k] + 1 ELSE f[k]]
    PROVE  Cardinality(Credit(g)) <= Cardinality(Credit(f)) + 1
<1>1. Cardinality(Credit(f)) \in Nat
  BY CreditCount
<1>2. CASE f[k] < Gap - 1
  <2>1. g = [f EXCEPT ![k] = f[k] + 1]
    BY <1>2
  <2>2. Cardinality(Credit(g)) = Cardinality(Credit(f)) + 1
    BY <1>2, <2>1, CreditSaved
  <2>3. QED
    BY <1>1, <2>2
<1>3. CASE ~(f[k] < Gap - 1)
  <2>1. g = f
    BY <1>3
  <2>2. Cardinality(Credit(g)) = Cardinality(Credit(f))
    BY <2>1
  <2>3. QED
    BY <1>1, <2>2
<1>4. QED
  BY <1>2, <1>3

\* The three assumptions: the code's time-out is 3, and its four keys and seven places
\* leave TaskGUI three samples.
QueueFits ==
    /\ ToShort <= 4 /\ Keys <= Gap
    /\ Keys * (Gap - 1 + MaxLag) < Gap * Capacity

PanelInv == KeyInv /\ ApartInv /\ PanelType /\ RateInv

LEMMA InitPanel == PanelInit => PanelInv
<1> SUFFICES ASSUME PanelInit PROVE PanelInv
  OBVIOUS
<1>1. KeyInv /\ ApartInv
  BY InitKey, InitApart DEF PanelInit
<1>2. q = <<>> /\ scan = 0 /\ lag = 0 /\ caught = FALSE
  BY DEF PanelInit, Queue!FifoInit
<1>3. 0 \in 0..Keys - 1 /\ 0 \in 0..MaxLag /\ <<>> \in Seq({"event"})
  BY GapType, PanelAssumption
<1>4. PanelType /\ RateInv
  BY <1>2, <1>3 DEF PanelType, RateInv
<1>5. QED
  BY <1>1, <1>4 DEF PanelInv

\* Offer adds one event at most.
LEMMA OfferLength ==
    ASSUME q \in Seq({"event"}), Offer
    PROVE  q' \in Seq({"event"}) /\ Len(q') \in {Len(q), Len(q) + 1}
BY DEF Offer, Queue!Put, Queue!Refuse

\* The interrupt: each key adds one at most, and what it reports was saved before.
LEMMA SampleRate ==
    ASSUME PanelInv, QueueFits, Key_Read, ApartInv',
           ScanFirst /\ init = "done" /\ report' # "none" => since[0] = Gap - 1
    PROVE  PanelType' /\ RateInv'
<1>1. /\ Gap - 1 \in Nat \ {0} /\ Gap \in Nat \ {0} /\ Keys \in Nat \ {0}
      /\ MaxLag \in Nat
  BY GapType, PanelAssumption
<1>2. /\ since \in [0..Keys - 1 -> 0..Gap - 1] /\ q \in Seq({"event"})
      /\ scan \in 0..Keys - 1 /\ lag \in 0..MaxLag /\ caught \in BOOLEAN
      /\ caught => init = "done"
  BY DEF PanelInv, ApartInv, PanelType
<1> DEFINE Spends == since' = [since EXCEPT ![scan] = 0]
           Saves  == since' = [since EXCEPT ![scan] = IF since[scan] < Gap - 1
                                                      THEN since[scan] + 1 ELSE since[scan]]
           Reports1 == Spends /\ Offer /\ (caught => since[scan] = Gap - 1)
           Silent1  == Saves /\ q' = q
<1>3. /\ Reports1 \/ Silent1
      /\ scan' = (scan + 1) % Keys
      /\ lag' = IF scan = 0 /\ caught THEN lag + 1 ELSE lag
      /\ scan = 0 /\ caught => lag < MaxLag
      /\ caught' = caught /\ init' = init
  <2>1. CASE ScanFirst
    <3>1. /\ scan = 0 /\ scan' = 1 % Keys
          /\ caught => lag < MaxLag
          /\ lag' = IF caught THEN lag + 1 ELSE lag
          /\ caught' = caught /\ init' = init
      BY <2>1 DEF ScanFirst, Sample, KeyboardRead
    <3>2. CASE report' # "none"
      BY <1>2, <2>1, <3>1, <3>2 DEF ScanFirst, Counted
    <3>3. CASE report' = "none"
      BY <1>2, <2>1, <3>1, <3>3 DEF ScanFirst, Counted, queueVars
    <3>4. scan + 1 = 1
      BY <3>1
    <3>5. QED
      BY <3>1, <3>2, <3>3, <3>4
  <2>2. CASE ScanNext
    BY <1>1, <1>2, <2>2 DEF ScanNext, Counted, vars, queueVars
  <2>3. QED
    BY <2>1, <2>2 DEF Key_Read
<1>4. /\ q' \in Seq({"event"}) /\ Len(q) \in Nat
      /\ Reports1 => Len(q') \in {Len(q), Len(q) + 1}
      /\ Silent1 => Len(q') = Len(q)
  BY <1>2, <1>3, OfferLength
<1>5. scan' \in 0..Keys - 1 /\ lag' \in 0..MaxLag
      /\ ToScan' = ToScan - 1 + IF scan = 0 THEN Keys ELSE 0
  <2>1. scan' = IF scan = Keys - 1 THEN 0 ELSE scan + 1
    <3>1. CASE scan = Keys - 1
      BY <1>1, <1>3, <3>1
    <3>2. CASE scan # Keys - 1
      <4>1. scan + 1 \in 0..Keys - 1
        BY <1>1, <1>2, <3>2
      <4>2. (scan + 1) % Keys = scan + 1
        BY <1>1, <4>1
      <4>3. QED
        BY <1>3, <3>2, <4>2
    <3>3. QED
      BY <3>1, <3>2
  <2>2. QED
    BY <2>1, <1>1, <1>2, <1>3 DEF ToScan
<1>6. PanelType'
  BY <1>2, <1>3, <1>4, <1>5 DEF PanelType
<1>7. ASSUME caught'
      PROVE  Gap * Len(q') + Cardinality(Credit(since')) + ToScan'
               <= Keys * (Gap - 1 + lag')
  <2> DEFINE saved == Cardinality(Credit(since))
             saved1 == Cardinality(Credit(since'))
  <2>1. saved \in Nat /\ saved1 \in Nat
    BY CreditCount
  <2>2. Gap * Len(q) + saved + ToScan <= Keys * (Gap - 1 + lag)
    BY <1>3, <1>7 DEF PanelInv, RateInv
  <2>3. Reports1 => saved1 = saved - (Gap - 1)
    BY <1>2, <1>3, <1>7, CreditSpent
  <2>4. Silent1 => saved1 <= saved + 1
    BY <1>2, CreditSaturates
  <2>5. Gap * (Len(q) + 1) = Gap * Len(q) + Gap
    BY <1>1, <1>4
  <2>6. Gap * Len(q') + saved1 <= Gap * Len(q) + saved + 1
    <3>1. CASE Silent1
      BY <1>1, <1>4, <2>1, <2>4, <3>1
    <3>2. CASE Reports1
      BY <1>1, <1>4, <2>1, <2>3, <2>5, <3>2
    <3>3. QED
      BY <1>3, <3>1, <3>2
  <2>7. Keys * (Gap - 1 + lag') = Keys * (Gap - 1 + lag) + IF scan = 0 THEN Keys ELSE 0
    <3>1. Keys * (Gap - 1 + (lag + 1)) = Keys * (Gap - 1 + lag) + Keys
      BY <1>1, <1>2
    <3>2. QED
      BY <1>1, <1>2, <1>3, <1>7, <3>1
  <2>8. /\ Gap * Len(q) \in Int /\ Gap * Len(q') \in Int /\ ToScan \in Int
        /\ Keys * (Gap - 1 + lag) \in Int
    BY <1>1, <1>2, <1>4 DEF ToScan
  <2> HIDE DEF saved, saved1
  <2>9. Gap * Len(q') + saved1 + ToScan' <= Keys * (Gap - 1 + lag')
    BY <1>1, <1>5, <2>1, <2>2, <2>6, <2>7, <2>8
  <2>10. QED
    BY <2>9 DEF saved1
<1>8. QED
  BY <1>6, <1>7 DEF RateInv

\* TaskGUI: an event taken makes room for what the keys saved in a sample.
LEMMA TaskRate ==
    ASSUME PanelInv, QueueFits, TaskGUI
    PROVE  PanelType' /\ RateInv'
<1>1. /\ Gap - 1 \in Nat \ {0} /\ Gap \in Nat \ {0} /\ Keys \in Nat \ {0}
      /\ MaxLag \in Nat /\ Keys <= Gap
  BY GapType, PanelAssumption DEF QueueFits
<1>2. /\ since \in [0..Keys - 1 -> 0..Gap - 1] /\ q \in Seq({"event"})
      /\ scan \in 0..Keys - 1 /\ lag \in 0..MaxLag /\ caught \in BOOLEAN
      /\ caught => init = "done"
  BY DEF PanelInv, ApartInv, PanelType
<1>3. CASE Evt_InitQueue
  <2>1. q' = <<>> /\ UNCHANGED <<scan, since, caught, lag, init>>
    BY <1>3 DEF Evt_InitQueue, Queue!Clear, vars
  <2>2. Len(<<>>) = 0 /\ <<>> \in Seq({"event"}) /\ Len(q) \in Nat
    BY <1>2
  <2>3. Gap * 0 <= Gap * Len(q)
    BY <1>1, <2>2
  <2>4. /\ Gap * 0 \in Nat /\ Gap * Len(q) \in Nat /\ Keys * (Gap - 1 + lag) \in Nat
        /\ ToScan \in Int /\ Cardinality(Credit(since)) \in Nat
    BY <1>1, <1>2, <2>2, CreditCount DEF ToScan
  <2>5. RateInv'
    <3>1. SUFFICES ASSUME caught
                   PROVE  Gap * 0 + Cardinality(Credit(since)) + ToScan
                            <= Keys * (Gap - 1 + lag)
      BY <2>1, <2>2 DEF RateInv, ToScan
    <3>2. Gap * Len(q) + Cardinality(Credit(since)) + ToScan <= Keys * (Gap - 1 + lag)
      BY <3>1 DEF PanelInv, RateInv
    <3> HIDE DEF ToScan
    <3>3. QED
      BY <3>2, <2>3, <2>4
  <2>6. QED
    BY <1>2, <2>1, <2>2, <2>5 DEF PanelType
<1>4. CASE ClearRecords
  <2>1. init # "done" /\ UNCHANGED <<q, scan, since, caught, lag>>
    BY <1>4 DEF ClearRecords, KeyboardInit, InitOldState, InitFlag, ClearLogDuration,
                ClearLogClick, queueVars
  <2>2. QED
    BY <1>2, <2>1 DEF PanelType, RateInv
<1>5. CASE ButtonEvent
  <2>1. /\ scan = 0 /\ UNCHANGED <<scan, since, init>> /\ init = "done"
        /\ caught' = (caught \/ q = <<>>)
        /\ lag' = IF lag = 0 THEN 0 ELSE lag - 1
    BY <1>5 DEF ButtonEvent, vars
  <2>2. (q # <<>> /\ q' = Tail(q)) \/ (q = <<>> /\ q' = q)
    BY <1>5 DEF ButtonEvent, Queue!Take, queueVars
  <2>3. /\ q' \in Seq({"event"}) /\ Len(q) \in Nat /\ Len(q') \in Nat
        /\ q # <<>> => Len(q') = Len(q) - 1
        /\ q = <<>> => Len(q') = 0
    <3>1. CASE q # <<>> /\ q' = Tail(q)
      BY <1>2, <3>1
    <3>2. CASE q = <<>> /\ q' = q
      BY <1>2, <3>2
    <3>3. QED
      BY <2>2, <3>1, <3>2
  <2>4. PanelType'
    BY <1>1, <1>2, <2>1, <2>3 DEF PanelType
  <2> DEFINE saved == Cardinality(Credit(since))
  <2>5. saved \in Nat /\ saved <= Keys * (Gap - 1)
    BY CreditCount
  <2>6. /\ Keys * (Gap - 1 + lag) = Keys * (Gap - 1) + Keys * lag
        /\ Keys * (Gap - 1 + lag') = Keys * (Gap - 1) + Keys * lag'
        /\ lag # 0 => Keys * lag' = Keys * lag - Keys
        /\ lag = 0 => Keys * lag' = Keys * lag
        /\ Keys * (Gap - 1) \in Nat /\ Keys * lag \in Nat /\ Keys * lag' \in Nat
    BY <1>1, <1>2, <2>1
  <2>7. /\ Gap * 0 = 0 /\ Gap * (Len(q) - 1) = Gap * Len(q) - Gap
        /\ Gap * Len(q) \in Nat
    BY <1>1, <2>3
  <2>8. ASSUME caught' => Gap * Len(q') + saved <= Keys * (Gap - 1 + lag')
        PROVE  RateInv'
    <3>1. Gap * Len(q') \in Nat /\ ToScan' = 0
      BY <1>1, <2>1, <2>3 DEF ToScan
    <3>2. Cardinality(Credit(since')) = saved
      BY <2>1
    <3> HIDE DEF saved
    <3>3. QED
      BY <2>5, <2>8, <3>1, <3>2 DEF RateInv
  <2>9. CASE q = <<>>
    <3>1. Gap * Len(q') = 0
      BY <2>3, <2>7, <2>9
    <3>2. Gap * Len(q') + saved <= Keys * (Gap - 1 + lag')
      <4> HIDE DEF saved
      <4>1. QED
        BY <2>5, <2>6, <3>1
    <3>3. QED
      BY <2>4, <2>8, <3>2
  <2>10. CASE q # <<>>
    <3> SUFFICES ASSUME caught
                 PROVE  Gap * Len(q') + saved <= Keys * (Gap - 1 + lag')
      <4>1. caught' => caught
        BY <2>1, <2>10
      <4>2. QED
        BY <2>4, <2>8, <4>1
    <3>1. Gap * Len(q) + saved <= Keys * (Gap - 1 + lag)
      BY <2>1, <2>5, <2>7 DEF PanelInv, RateInv, ToScan
    <3>2. Gap * Len(q') = Gap * Len(q) - Gap
      BY <2>3, <2>7, <2>10
    <3> HIDE DEF saved
    <3>3. QED
      BY <1>1, <3>1, <3>2, <2>5, <2>6, <2>7
  <2>11. QED
    BY <2>4, <2>9, <2>10
<1>6. QED
  BY <1>3, <1>4, <1>5 DEF TaskGUI

LEMMA StepPanel == QueueFits /\ PanelInv /\ KeyInv' /\ [PanelNext]_panelVars => PanelInv'
<1> SUFFICES ASSUME QueueFits, PanelInv, KeyInv', [PanelNext]_panelVars PROVE PanelInv'
  OBVIOUS
<1>1. /\ ApartInv'
      /\ ScanFirst /\ init = "done" /\ report' # "none" => since[0] = Gap - 1
  BY ApartStep DEF PanelInv, QueueFits
<1>2. CASE Key_Read
  BY <1>1, <1>2, SampleRate DEF PanelInv
<1>3. CASE TaskGUI
  BY <1>1, <1>3, TaskRate DEF PanelInv
<1>4. CASE UNCHANGED panelVars
  <2>1. UNCHANGED <<q, scan, since, caught, lag, init>>
    BY <1>4 DEF panelVars, vars
  <2>2. PanelType' /\ RateInv'
    BY <2>1 DEF PanelInv, PanelType, RateInv, ToScan
  <2>3. QED
    BY <1>1, <2>2 DEF PanelInv
<1>5. QED
  BY <1>2, <1>3, <1>4 DEF PanelNext

LEMMA PanelInvariance == QueueFits => (PanelSpec => []PanelInv)
<1>1. SUFFICES ASSUME QueueFits PROVE PanelSpec => []PanelInv
  OBVIOUS
<1>2. PanelInv /\ KeyInv' /\ [PanelNext]_panelVars => PanelInv'
  BY <1>1, StepPanel
<1>3. QED
  BY <1>2, InitPanel, KeyInvariance, PTL DEF PanelSpec

\* However all the keys are pressed, the queue has a place for every event: for any
\* number of keys and places that fit together.
THEOREM NoKeyLostHolds ==
    ASSUME QueueFits
    PROVE  PanelSpec => []NoKeyLost
<1>1. PanelInv => NoKeyLost
  <2> SUFFICES ASSUME PanelInv, caught PROVE Len(q) < Capacity
    BY DEF NoKeyLost
  <2>1. /\ Gap \in Nat \ {0} /\ Gap - 1 \in Nat /\ Keys \in Nat /\ MaxLag \in Nat
        /\ Capacity \in Nat /\ Len(q) \in Nat /\ lag \in 0..MaxLag /\ scan \in 0..Keys - 1
    BY GapType, PanelAssumption DEF PanelInv, PanelType
  <2>2. Cardinality(Credit(since)) \in Nat /\ ToScan \in Nat
    BY <2>1, CreditCount DEF ToScan
  <2>3. Gap * Len(q) <= Keys * (Gap - 1 + lag)
    <3>1. Gap * Len(q) \in Nat /\ Keys * (Gap - 1 + lag) \in Nat
      BY <2>1
    <3>2. QED
      BY <2>2, <3>1 DEF PanelInv, RateInv
  <2>4. Keys * (Gap - 1 + lag) <= Keys * (Gap - 1 + MaxLag)
    <3>1. Gap - 1 + lag \in Nat /\ Gap - 1 + MaxLag \in Nat
          /\ Gap - 1 + lag <= Gap - 1 + MaxLag
      BY <2>1
    <3>2. \A a, b, k \in Nat : a <= b => k * a <= k * b
      OBVIOUS
    <3>3. QED
      BY <2>1, <3>1, <3>2
  <2>5. Gap * Len(q) < Gap * Capacity
    <3>1. /\ Gap * Len(q) \in Nat /\ Gap * Capacity \in Nat
          /\ Keys * (Gap - 1 + lag) \in Nat /\ Keys * (Gap - 1 + MaxLag) \in Nat
      BY <2>1
    <3>2. QED
      BY <2>3, <2>4, <3>1 DEF QueueFits
  <2>6. \A a, b, k \in Nat : a <= b => k * a <= k * b
    OBVIOUS
  <2>7. QED
    BY <2>1, <2>5, <2>6
<1>2. QED
  BY <1>1, PanelInvariance, PTL
=============================================================================
