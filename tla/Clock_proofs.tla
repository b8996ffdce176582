---------------------------- MODULE Clock_proofs ----------------------------
(***************************************************************************)
(* Proofs about Clock, for every calendar, zone and set of moments and any *)
(* number of requests, disturbances and hours.                             *)
(***************************************************************************)
EXTENDS Clock, WellFoundedInduction, TLAPS

\* The type invariant as it is inductive: a request's hour is a byte.
TypeInv == TypeOK /\ asked["http"] \in Moment

-----------------------------------------------------------------------------
(***************************************************************************)
(* The conversions.                                                        *)
(***************************************************************************)
\* An hour of the day goes into the register and out of it unchanged.
LEMMA HourRegisterExact ==
    ASSUME NEW b \in Hour
    PROVE  HourRegister(b) = b
<1>1. CASE b \in 0..9
  BY <1>1 DEF HourRegister
<1>2. CASE b \in 10..19
  BY <1>2 DEF HourRegister
<1>3. CASE b \in 20..23
  BY <1>3 DEF HourRegister
<1>4. QED
  BY <1>1, <1>2, <1>3 DEF Hour

\* Whatever byte a setter computes, the register shows two digits up to 39.
LEMMA HourRegisterRange ==
    ASSUME NEW b \in Byte
    PROVE  HourRegister(b) \in Shown
<1> DEFINE q == b \div 10
           u == b % 10
<1>1. q \in 0..25 /\ u \in 0..9
  BY DEF Byte
<1>2. ASSUME NEW c \in 0..3, NEW k \in 0..6, q = 4 * k + c
      PROVE  (16 * q + u) % 64 = 16 * c + u
  <2>1. 16 * q + u = 64 * k + (16 * c + u) /\ 16 * c + u \in 0..63
    BY <1>1, <1>2
  <2>2. QED
    BY <2>1
<1>3. q % 4 \in 0..3 /\ q \div 4 \in 0..6 /\ q = 4 * (q \div 4) + (q % 4)
  BY <1>1
<1>4. (16 * q + u) % 64 = 16 * (q % 4) + u
  BY <1>2, <1>3
<1>5. ASSUME NEW c \in 0..3, NEW v \in 0..9
      PROVE  10 * ((16 * c + v) \div 16) + ((16 * c + v) % 16) = 10 * c + v
  OBVIOUS
<1>6. HourRegister(b) = 10 * (q % 4) + u
  BY <1>1, <1>3, <1>4, <1>5 DEF HourRegister
<1>7. QED
  BY <1>1, <1>3, <1>6 DEF Shown

\* The hour of a zone, east or west: a byte, and that hour itself when it exists.
LEMMA HourByteRange ==
    ASSUME NEW h \in Hour, zone \in Zones
    PROVE  /\ h + zone \in -12..255 /\ HourByte(h) = (h + zone) % 256
           /\ HourByte(h) \in Byte
<1>1. zone \in -12..12
  BY ClockAssumption
<1>2. QED
  BY <1>1 DEF HourByte, Byte, Hour

\* 365 days a year and 30 a month: a date is a small number.
LEMMA DayNumberRange ==
    ASSUME NEW y \in 0..99, NEW m \in 1..12, NEW n \in 1..31
    PROVE  /\ 365 * y + 30 * m + n \in Int
           /\ 0 <= 365 * y + 30 * m + n /\ 365 * y + 30 * m + n <= 400 * 100
OBVIOUS

\* However long the month, the days of the up-time do not go back from one date to the
\* next (Calculate_UPTime), and gain five at most: the step of DaysFollowTheDate.
THEOREM NextDayAhead ==
    ASSUME NEW i \in Day, i + 1 \in Day
    PROVE  DayNumber(i + 1) - DayNumber(i) \in 0..5
<1>1. /\ Calendar \in Seq((0..99) \X (1..12) \X (1..31))
      /\ Follows(Calendar[i], Calendar[i + 1])
  BY ClockAssumption
<1>2. Calendar[i] \in (0..99) \X (1..12) \X (1..31)
  BY <1>1 DEF Day
<1>3. PICK y \in 0..99, m \in 1..12, n \in 1..31 :
          Calendar[i][1] = y /\ Calendar[i][2] = m /\ Calendar[i][3] = n
  BY <1>2
<1>4. DayNumber(i) = 365 * y + 30 * m + n
  BY <1>3 DEF DayNumber
<1>5. CASE Calendar[i + 1] = <<y, m, n + 1>>
  BY <1>4, <1>5 DEF DayNumber
<1>6. CASE n >= 28 /\ Calendar[i + 1] = <<y, m + 1, 1>>
  BY <1>4, <1>6 DEF DayNumber
<1>7. CASE m = 12 /\ n = 31 /\ Calendar[i + 1] = <<y + 1, 1, 1>>
  BY <1>4, <1>7 DEF DayNumber
<1>8. QED
  BY <1>1, <1>3, <1>5, <1>6, <1>7 DEF Follows

\* Induction over the days, as far as a fixed set of numbers goes: the least number
\* outside of it has none before it.
Less == {ss \in Nat \X Nat : ss[1] < ss[2]}

LEMMA LessWellFounded == IsWellFoundedOn(Less, Nat)
BY NatLessThanWellFounded DEF OpToRel, Less

LEMMA AllNumbers ==
    ASSUME NEW T \in SUBSET Nat, 0 \in T, \A n \in T : n + 1 \in T
    PROVE  T = Nat
<1> SUFFICES ASSUME Nat \ T # {} PROVE FALSE
  OBVIOUS
<1>1. PICK n \in Nat \ T : \A m \in Nat \ T : ~(<<m, n>> \in Less)
  BY LessWellFounded, WFMin
<1>2. n # 0 /\ n - 1 \in Nat
  BY <1>1
<1>3. <<n - 1, n>> \in Less
  <2>1. <<n - 1, n>> \in Nat \X Nat
    BY <1>2
  <2>2. QED
    BY <1>2, <2>1 DEF Less
<1>4. n - 1 \in T
  BY <1>1, <1>2, <1>3
<1>5. QED
  BY <1>2, <1>4

LEMMA DayNumberType ==
    ASSUME NEW i \in Day
    PROVE  DayNumber(i) \in Nat /\ DayNumber(i) <= 400 * 100
<1>1. Calendar[i] \in (0..99) \X (1..12) \X (1..31)
  BY ClockAssumption DEF Day
<1>2. PICK y \in 0..99, m \in 1..12, n \in 1..31 :
          Calendar[i][1] = y /\ Calendar[i][2] = m /\ Calendar[i][3] = n
  BY <1>1
<1>3. DayNumber(i) = 365 * y + 30 * m + n
  BY <1>2 DEF DayNumber
<1>4. QED
  BY <1>3, DayNumberRange

\* Over any number of days the up-time gains nought to five for each of them.
LEMMA DaysAhead ==
    ASSUME NEW i \in Day, NEW j \in Day, i <= j
    PROVE  DayNumber(j) - DayNumber(i) \in 0..5 * (j - i)
<1> DEFINE T == {n \in Nat : \A k \in Day : k + n \in Day =>
                               DayNumber(k + n) - DayNumber(k) \in 0..5 * n}
<1>1. 0 \in T
  <2>1. ASSUME NEW k \in Day PROVE DayNumber(k + 0) - DayNumber(k) \in 0..5 * 0
    <3>1. k + 0 = k
      BY DEF Day
    <3>2. QED
      BY <3>1, DayNumberType
  <2>2. QED
    BY <2>1
<1>2. ASSUME NEW n \in T PROVE n + 1 \in T
  <2>1. n \in Nat
    OBVIOUS
  <2>2. ASSUME NEW k \in Day, k + (n + 1) \in Day
        PROVE  DayNumber(k + (n + 1)) - DayNumber(k) \in 0..5 * (n + 1)
    <3>1. k + n \in Day /\ (k + n) + 1 \in Day /\ k + (n + 1) = (k + n) + 1
      BY <2>1, <2>2, ClockAssumption DEF Day
    <3>2. DayNumber(k + n) - DayNumber(k) \in 0..5 * n
      BY <3>1
    <3>3. DayNumber((k + n) + 1) - DayNumber(k + n) \in 0..5
      BY <3>1, NextDayAhead
    <3>4. /\ DayNumber(k) \in Nat /\ DayNumber(k + n) \in Nat
          /\ DayNumber((k + n) + 1) \in Nat
      BY <3>1, DayNumberType
    <3>5. QED
      BY <2>1, <3>1, <3>2, <3>3, <3>4
  <2>3. QED
    BY <2>1, <2>2
<1>3. T = Nat
  <2> HIDE DEF T
  <2>1. T \in SUBSET Nat
    BY DEF T
  <2>2. QED
    BY <1>1, <1>2, <2>1, AllNumbers
<1>4. j - i \in Nat /\ i + (j - i) = j
  BY DEF Day
<1>5. j - i \in T
  BY <1>3, <1>4
<1>6. QED
  BY <1>4, <1>5

\* Between any two days the difference fits into uptime.dia.
LEMMA DiaValue ==
    ASSUME NEW d \in Day
    PROVE  Wrap(DayNumber(d) - DayNumber(1)) = DayNumber(d) - DayNumber(1)
<1>1. 1 \in Day /\ 1 <= d
  <2>1. Len(Calendar) \in Nat /\ d \in 1..Len(Calendar)
    BY ClockAssumption DEF Day
  <2>2. QED
    BY <2>1 DEF Day
<1>2. DayNumber(d) - DayNumber(1) \in 0..5 * (d - 1)
  BY <1>1, DaysAhead
<1>3. QED
  BY <1>1, <1>2, DayNumberType DEF Wrap

LEMMA DiaRange ==
    ASSUME NEW d \in Day
    PROVE  Wrap(DayNumber(d) - DayNumber(1)) \in 0..Word - 1
<1>1. 1 \in Day /\ 1 <= d /\ Word \in Nat /\ Word > 400 * 100
  BY ClockAssumption DEF Day
<1>2. DayNumber(d) - DayNumber(1) \in 0..5 * (d - 1)
  BY <1>1, DaysAhead
<1>3. QED
  BY <1>1, <1>2, DiaValue, DayNumberType

-----------------------------------------------------------------------------
(***************************************************************************)
(* Types.                                                                  *)
(***************************************************************************)
LEMMA InitType == Init => TypeInv
<1> SUFFICES ASSUME Init PROVE TypeInv
  OBVIOUS
<1>1. Moments \subseteq Moment /\ MaxSet \in Nat /\ MaxRace \in Nat /\ MaxTick \in Nat
  BY ClockAssumption
<1>2. rtc \in [d : Day, h : Shown] /\ rtc.h \in Shown /\ 1 \in Day
  BY <1>1 DEF Init, Moment
<1>3. 0 \in 0..Word - 1
  <2>1. Word \in Nat /\ Word > 400 * 100
    BY ClockAssumption
  <2>2. QED
    BY <2>1
<1>4. timeAdj \in Byte /\ zone \in Zones
  BY DEF Init, Byte
<1>5. sets \in 0..MaxSet /\ races \in 0..MaxRace /\ ticks \in 0..MaxTick
  BY <1>1 DEF Init
<1>6. asked \in [Setters -> [d : Day, h : -12..255]] /\ asked["http"] \in Moment
  BY <1>2 DEF Init, Nothing, Moment, Byte, Setters
<1>7. QED
  BY <1>2, <1>3, <1>4, <1>5, <1>6 DEF Init, TypeInv, TypeOK, Places

\* What a setter does changes its place and reg only as declared.
LEMMA StepType == TypeInv /\ [Next]_vars => TypeInv'
<1> SUFFICES ASSUME TypeInv, [Next]_vars PROVE TypeInv'
  OBVIOUS
<1> USE DEF TypeInv, TypeOK, Places, Goes
<1>m. Moments \subseteq Moment /\ MaxSet \in Nat /\ MaxRace \in Nat /\ MaxTick \in Nat
  BY ClockAssumption
<1>1. ASSUME NEW m \in Moments, HttpSetTime(m) PROVE TypeInv'
  <2>1. m \in Moment /\ m \in [d : Day, h : -12..255] /\ m.d \in Day
    BY <1>m DEF Moment, Byte
  <2>2. QED
    <3>1. asked' \in [Setters -> [d : Day, h : -12..255]] /\ asked'["http"] \in Moment
      BY <1>1, <2>1 DEF HttpSetTime, Setters
    <3>2. sets' \in 0..MaxSet
      BY <1>1, <1>m DEF HttpSetTime
    <3>3. QED
      BY <1>1, <2>1, <3>1, <3>2 DEF HttpSetTime, Setters, hardware, reading
<1>2. CASE HttpFillTime
  <2>1. asked["http"].h \in Byte
    BY DEF Moment
  <2>2. QED
    BY <1>2, <2>1 DEF HttpFillTime, Setters, hardware, reading
<1>3. ASSUME NEW m \in Moments, NtpAnswer(m) PROVE TypeInv'
  <2>1. m \in Moment /\ m.d \in Day /\ m.h \in Hour
    BY <1>3, <1>m DEF Moment, NtpAnswer
  <2>2. HourByte(m.h) \in Byte /\ m.h + zone \in -12..255
    BY <2>1, HourByteRange
  <2>3. [m EXCEPT !.h = @ + zone] \in [d : Day, h : -12..255]
    BY <2>1, <2>2 DEF Moment
  <2>4. clean' \in [Setters -> BOOLEAN]
    BY <1>3 DEF NtpAnswer, Holds
  <2>5. asked' \in [Setters -> [d : Day, h : -12..255]] /\ asked'["http"] \in Moment
    BY <1>3, <2>3 DEF NtpAnswer, Setters
  <2>6. QED
    BY <1>3, <2>1, <2>2, <2>4, <2>5 DEF NtpAnswer, Setters, hardware, reading
<1>4. ASSUME NEW p \in Setters, SetterStep(p) PROVE TypeInv'
  <2>1. CASE Enable(p)
    BY <2>1 DEF Enable, reading
  <2>2. CASE Test(p)
    BY <2>2 DEF Test, Leave, reading, hardware
  <2>3. CASE Lock(p)
    BY <2>3 DEF Lock, reading, hardware
  <2>4. CASE EnterInitMode(p)
    BY <2>4 DEF EnterInitMode, reading
  <2>5. CASE Write(p)
    <3>1. HourRegister(timeAdj) \in Shown
      BY HourRegisterRange
    <3>2. rtc' \in [d : Day, h : Shown]
      BY <2>5, <3>1 DEF Write
    <3>3. QED
      BY <2>5, <3>2 DEF Write, reading
  <2>6. CASE ExitInitMode(p)
    BY <2>6 DEF ExitInitMode, reading
  <2>7. CASE Unlock(p)
    BY <2>7 DEF Unlock, Leave, reading, hardware
  <2>8. CASE Disable(p)
    <3>1. Nothing \in Moment /\ Nothing \in [d : Day, h : -12..255]
      BY ClockAssumption DEF Nothing, Moment, Day, Byte
    <3>2. /\ asked' \in [Setters -> [d : Day, h : -12..255]]
          /\ asked'["http"] \in Moment
      BY <2>8, <3>1 DEF Disable, Setters
    <3>3. QED
      BY <2>8, <3>2 DEF Disable, reading
  <2>9. QED
    BY <1>4, <2>1, <2>2, <2>3, <2>4, <2>5, <2>6, <2>7, <2>8 DEF SetterStep
<1>5. CASE ReadTime
  <2>1. clean' \in [Setters -> BOOLEAN]
    BY <1>5 DEF ReadTime, StillClean
  <2>2. gTime' \in Shown /\ frozen' \in Day \cup {0}
    BY <1>5 DEF ReadTime
  <2>3. races' \in 0..MaxRace
    BY <1>5, <1>m DEF ReadTime
  <2>4. QED
    BY <1>5, <2>1, <2>2, <2>3 DEF ReadTime, setting
<1>6. CASE ReadDate
  <2>1. gDate' \in Day
    BY <1>6 DEF ReadDate
  <2>2. dia' \in 0..Word - 1
    BY <1>6, <2>1, DiaRange DEF ReadDate, Calculate_UPTime
  <2>3. QED
    BY <1>6, <2>1, <2>2 DEF ReadDate, setting
<1>7. CASE Tick
  <2>1. rtc' \in [d : Day, h : Shown]
    <3>1. Len(Calendar) \in Nat /\ After \subseteq Shown
      BY ClockAssumption
    <3>2. rtc.d \in Day /\ rtc.h \in Shown
      OBVIOUS
    <3>3. CASE rtc.h < 23 /\ rtc' = [rtc EXCEPT !.h = @ + 1]
      <4>1. rtc.h + 1 \in Shown
        BY <3>2, <3>3 DEF Shown
      <4>2. QED
        BY <3>3, <4>1
    <3>4. CASE rtc.d < Len(Calendar) /\ rtc' = [d |-> rtc.d + 1, h |-> 0]
      <4>1. rtc.d + 1 \in Day /\ 0 \in Shown
        BY <3>1, <3>2, <3>4 DEF Day, Shown
      <4>2. QED
        BY <3>4, <4>1
    <3>5. CASE rtc' \in [d : {rtc.d, rtc.d + 1} \cap Day, h : After]
      BY <3>1, <3>5
    <3>6. QED
      BY <1>7, <3>3, <3>4, <3>5 DEF Tick
  <2>2. clean' \in [Setters -> BOOLEAN]
    BY <1>7 DEF Tick, StillClean
  <2>3. QED
    BY <1>7, <1>m, <2>1, <2>2 DEF Tick, setting, reading
<1>8. CASE UNCHANGED vars
  BY <1>8 DEF vars, hardware, setting, reading
<1>9. QED
  BY <1>1, <1>2, <1>3, <1>4, <1>5, <1>6, <1>7, <1>8
     DEF Next, HttpThread, TaskNTP, Setters

\* Every variable keeps its type: whatever hour the setters compute, the register shows
\* two decimal digits (up to 39, and no more is claimed: it need not be an hour of the
\* day), and the up-time stays in its word.
THEOREM TypeCorrect == Spec => []TypeOK
<1>1. Spec => []TypeInv
  BY InitType, StepType, PTL DEF Spec
<1>2. TypeInv => TypeOK
  BY DEF TypeInv
<1>3. QED
  BY <1>1, <1>2, PTL

-----------------------------------------------------------------------------
(***************************************************************************)
(* The inductive invariant.                                                *)
(***************************************************************************)
\* TaskNTP is past the test of the lock only while the HTTP thread is outside.
LockInv == OneWriter /\ (pc["ntp"] = "lock" => ~Holds("http"))

\* Between its two reads TaskMain has the date that belongs to the time.
FrozenInv ==
    /\ main = "idle" => frozen = 0 /\ gTime = instant.h /\ gDate = instant.d
    /\ main = "date" => frozen = instant.d /\ gTime = instant.h

RegInv == \A p \in Setters :
            pc[p] \in {"idle", "fill", "enable", "disable"} => reg[p] = "TR"

\* How far a setting that nobody disturbed is.
TimeSet(p) == reg[p] = "DR" \/ pc[p] \in {"exit", "unlock", "disable"}
DateSet(p) == pc[p] = "disable" \/ (reg[p] = "DR" /\ pc[p] \in {"exit", "unlock"})

HourAsked(p) == asked[p].h % 256

\* What a setter p that nobody disturbed may rely on.
CleanInv(p) ==
    clean[p] /\ pc[p] # "idle" =>
        /\ p = "http" => pc["ntp"] = "idle"
        /\ p = "ntp" => ~Holds("http")
        /\ dateAdj = asked[p].d
        /\ pc[p] # "fill" => timeAdj = HourAsked(p)
        /\ pc[p] \notin {"fill", "enable"} => dbp /\ main = "idle"
        /\ pc[p] \in {"write", "exit"} => ~running
        /\ pc[p] \in {"unlock", "disable"} => running
        /\ TimeSet(p) => rtc.h = HourRegister(timeAdj)
        /\ DateSet(p) => rtc.d = dateAdj

ClockInv == /\ TypeInv /\ LockInv /\ FrozenInv /\ RegInv
            /\ \A p \in Setters : CleanInv(p)

LEMMA InitInv == Init => ClockInv
<1> SUFFICES ASSUME Init PROVE ClockInv
  OBVIOUS
<1>1. TypeInv
  BY InitType
<1>2. LockInv
  BY DEF Init, LockInv, OneWriter, Holds, Setters
<1>3. FrozenInv
  BY DEF Init, FrozenInv
<1>4. RegInv
  BY DEF Init, RegInv
<1>5. \A p \in Setters : CleanInv(p)
  BY DEF Init, CleanInv
<1>6. QED
  BY <1>1, <1>2, <1>3, <1>4, <1>5 DEF ClockInv

\* Why one thread at a time writes: the thread that comes between the test and the
\* assignment of the other one has the higher priority and runs until it is idle.
LEMMA StepLock == ClockInv /\ [Next]_vars => LockInv'
<1> SUFFICES ASSUME ClockInv, [Next]_vars PROVE LockInv'
  OBVIOUS
<1>t. pc \in [Setters -> Places] /\ LockInv
  BY DEF ClockInv, TypeInv, TypeOK
<1> USE DEF LockInv, OneWriter, Holds, Goes, CanRun
<1>1. ASSUME NEW m \in Moments, HttpSetTime(m) PROVE LockInv'
  BY <1>t, <1>1 DEF HttpSetTime, Setters
<1>2. CASE HttpFillTime
  BY <1>t, <1>2 DEF HttpFillTime, Setters
<1>3. ASSUME NEW m \in Moments, NtpAnswer(m) PROVE LockInv'
  BY <1>t, <1>3 DEF NtpAnswer, Setters
<1>4. ASSUME NEW p \in Setters, SetterStep(p) PROVE LockInv'
  <2>p. p = "http" \/ p = "ntp"
    BY DEF Setters
  <2>1. CASE Enable(p)
    BY <1>t, <2>1, <2>p DEF Enable, Setters
  <2>2. CASE Test(p)
    BY <1>t, <2>2, <2>p DEF Test, Leave, Setters
  <2>3. CASE Lock(p)
    BY <1>t, <2>3, <2>p DEF Lock, Setters
  <2>4. CASE EnterInitMode(p)
    BY <1>t, <2>4, <2>p DEF EnterInitMode, Setters
  <2>5. CASE Write(p)
    BY <1>t, <2>5, <2>p DEF Write, Setters
  <2>6. CASE ExitInitMode(p)
    BY <1>t, <2>6, <2>p DEF ExitInitMode, Setters
  <2>7. CASE Unlock(p)
    BY <1>t, <2>7, <2>p DEF Unlock, Leave, Setters
  <2>8. CASE Disable(p)
    BY <1>t, <2>8, <2>p DEF Disable, Setters
  <2>9. QED
    BY <1>4, <2>1, <2>2, <2>3, <2>4, <2>5, <2>6, <2>7, <2>8 DEF SetterStep
<1>5. CASE ReadTime \/ ReadDate \/ Tick \/ UNCHANGED vars
  BY <1>t, <1>5 DEF ReadTime, ReadDate, Tick, vars, setting
<1>6. QED
  BY <1>1, <1>2, <1>3, <1>4, <1>5 DEF Next, HttpThread, TaskNTP, Setters

LEMMA StepFrozen == ClockInv /\ [Next]_vars => FrozenInv'
<1> SUFFICES ASSUME ClockInv, [Next]_vars PROVE FrozenInv'
  OBVIOUS
<1> USE DEF ClockInv, FrozenInv
<1>1. ASSUME NEW m \in Moments, HttpSetTime(m) \/ NtpAnswer(m) PROVE FrozenInv'
  BY <1>1 DEF HttpSetTime, NtpAnswer, hardware, reading
<1>2. CASE HttpFillTime
  BY <1>2 DEF HttpFillTime, hardware, reading
<1>3. ASSUME NEW p \in Setters, SetterStep(p) PROVE FrozenInv'
  BY <1>3 DEF SetterStep, Enable, Test, Lock, EnterInitMode, Write, ExitInitMode, Unlock,
              Disable, hardware, reading
<1>4. CASE ReadTime
  BY <1>4 DEF ReadTime
<1>5. CASE ReadDate
  <2>1. main = "date" /\ frozen = instant.d /\ gTime = instant.h /\ instant.d # 0
    BY <1>5 DEF ReadDate, TypeInv, TypeOK, Moment, Day
  <2>2. QED
    BY <1>5, <2>1 DEF ReadDate
<1>6. CASE Tick \/ UNCHANGED vars
  BY <1>6 DEF Tick, vars, hardware, reading
<1>7. QED
  BY <1>1, <1>2, <1>3, <1>4, <1>5, <1>6 DEF Next, HttpThread, TaskNTP, Setters

LEMMA StepReg == ClockInv /\ [Next]_vars => RegInv'
<1> SUFFICES ASSUME ClockInv, [Next]_vars PROVE RegInv'
  OBVIOUS
<1> USE DEF ClockInv, RegInv, Goes, TypeInv, TypeOK
<1>1. ASSUME NEW m \in Moments, HttpSetTime(m) PROVE RegInv'
  BY <1>1 DEF HttpSetTime
<1>2. CASE HttpFillTime
  BY <1>2 DEF HttpFillTime
<1>3. ASSUME NEW m \in Moments, NtpAnswer(m) PROVE RegInv'
  BY <1>3 DEF NtpAnswer
<1>4. ASSUME NEW p \in Setters, SetterStep(p) PROVE RegInv'
  BY <1>4 DEF SetterStep, Enable, Test, Lock, EnterInitMode, Write, ExitInitMode, Unlock,
              Disable, Leave
<1>5. CASE ReadTime \/ ReadDate \/ Tick \/ UNCHANGED vars
  BY <1>5 DEF ReadTime, ReadDate, Tick, vars, setting
<1>6. QED
  BY <1>1, <1>2, <1>3, <1>4, <1>5 DEF Next, HttpThread, TaskNTP, Setters

\* A step of one setter leaves nothing to prove of the other: one of them is idle, or
\* is disturbed already.
LEMMA OtherSetter ==
    ASSUME ClockInv, NEW p \in Setters, SetterStep(p), NEW q \in Setters, q # p
    PROVE  CleanInv(q)'
<1> USE DEF ClockInv, TypeInv, TypeOK, Goes, CanRun
<1>1. pc[p] # "idle" /\ CanRun(p)
  BY DEF SetterStep, Enable, Test, Lock, EnterInitMode, Write, ExitInitMode, Unlock, Disable
<1>2. pc'[q] = pc[q] /\ clean'[q] = clean[q]
  BY DEF SetterStep, Enable, Test, Lock, EnterInitMode, Write, ExitInitMode, Unlock,
         Disable, Leave
<1>3. CASE p = "ntp" /\ q = "http"
  BY <1>1, <1>2, <1>3 DEF CleanInv
<1>4. CASE p = "http" /\ q = "ntp"
  BY <1>1, <1>2, <1>4 DEF CleanInv
<1>5. QED
  BY <1>3, <1>4 DEF Setters

\* A setter's own step takes an undisturbed setting one step further.
LEMMA OwnStep ==
    ASSUME ClockInv, NEW p \in Setters, SetterStep(p)
    PROVE  CleanInv(p)'
<1> SUFFICES ASSUME clean'[p], pc'[p] # "idle" PROVE CleanInv(p)'
  BY DEF CleanInv
<1> USE DEF TypeInv, TypeOK, Goes, Holds, HourAsked, TimeSet, DateSet
<1>t. TypeInv /\ LockInv /\ RegInv /\ CanRun(p)
  BY DEF ClockInv, SetterStep, Enable, Test, Lock, EnterInitMode, Write, ExitInitMode,
         Unlock, Disable
<1>p. p = "http" \/ p = "ntp"
  BY DEF Setters
<1>c. /\ clean[p] /\ pc[p] # "idle"
      /\ UNCHANGED <<dateAdj, timeAdj, asked, clean, main>>
  BY <1>t DEF SetterStep, Enable, Test, Lock, EnterInitMode, Write, ExitInitMode, Unlock,
         Disable, reading
<1>i. CleanInv(p)
  BY DEF ClockInv
<1>o. /\ p = "http" => pc'["ntp"] = "idle"
      /\ p = "ntp" => ~Holds("http")'
  <2>1. \A q \in Setters : q # p => pc'[q] = pc[q]
    BY <1>t DEF SetterStep, Enable, Test, Lock, EnterInitMode, Write, ExitInitMode, Unlock,
           Disable, Leave
  <2>2. QED
    BY <2>1, <1>c, <1>i, <1>p DEF CleanInv, Setters
<1>1. CASE Enable(p)
  BY <1>1, <1>t, <1>p, <1>c, <1>i, <1>o DEF Enable, CleanInv, RegInv, CanRun
<1>2. CASE Test(p)
  <2>1. ~lock
    BY <1>2, <1>c, <1>i, <1>p, <1>t DEF Test, CleanInv, LockInv, OneWriter, Setters
  <2>2. QED
    BY <1>2, <2>1, <1>t, <1>c, <1>i, <1>o DEF Test, CleanInv, hardware
<1>3. CASE Lock(p)
  BY <1>3, <1>t, <1>c, <1>i, <1>o DEF Lock, CleanInv, hardware
<1>4. CASE EnterInitMode(p)
  BY <1>4, <1>t, <1>c, <1>i, <1>o DEF EnterInitMode, CleanInv
<1>5. CASE Write(p)
  <2>1. /\ dbp /\ pc' = [pc EXCEPT ![p] = "exit"] /\ reg' = reg /\ dbp' = dbp
        /\ running' = running /\ pc[p] = "write"
    BY <1>5, <1>c, <1>i DEF Write, CleanInv
  <2>2. reg[p] = "TR" => rtc' = [rtc EXCEPT !.h = HourRegister(timeAdj)]
    BY <1>5, <2>1 DEF Write
  <2>3. reg[p] # "TR" => rtc' = [rtc EXCEPT !.d = dateAdj]
    BY <1>5, <2>1 DEF Write
  <2>4. TimeSet(p)' => rtc'.h = HourRegister(timeAdj)
    BY <2>1, <2>2, <2>3, <1>t, <1>c, <1>i DEF CleanInv, Moment
  <2>5. DateSet(p)' => rtc'.d = dateAdj
    BY <2>1, <2>2, <2>3, <1>t, <1>c, <1>i DEF CleanInv, Moment
  <2>6. QED
    BY <2>1, <2>4, <2>5, <1>t, <1>c, <1>i, <1>o DEF CleanInv
<1>6. CASE ExitInitMode(p)
  BY <1>6, <1>t, <1>c, <1>i, <1>o DEF ExitInitMode, CleanInv
<1>7. CASE Unlock(p)
  BY <1>7, <1>t, <1>c, <1>i, <1>o DEF Unlock, Leave, CleanInv, hardware
<1>8. CASE Disable(p)
  BY <1>8, <1>t DEF Disable
<1>9. QED
  BY <1>1, <1>2, <1>3, <1>4, <1>5, <1>6, <1>7, <1>8 DEF SetterStep

LEMMA StepClean == ClockInv /\ [Next]_vars => \A q \in Setters : CleanInv(q)'
<1> SUFFICES ASSUME ClockInv, [Next]_vars, NEW q \in Setters PROVE CleanInv(q)'
  OBVIOUS
<1>t. TypeInv /\ RegInv /\ CleanInv(q)
  BY DEF ClockInv
<1>q. q = "http" \/ q = "ntp"
  BY DEF Setters
<1>h. asked'[q] = asked[q] => HourAsked(q)' = HourAsked(q)
  BY DEF HourAsked
<1>k. pc \in [Setters -> Places] /\ reg \in [Setters -> {"TR", "DR"}]
  BY DEF ClockInv, TypeInv, TypeOK
<1> USE DEF Goes, Holds, TimeSet, DateSet, CanRun
<1>1. ASSUME NEW m \in Moments, HttpSetTime(m) PROVE CleanInv(q)'
  <2>1. asked'["http"] = m /\ (q = "ntp" => asked'[q] = asked[q])
    BY <1>1, <1>t DEF HttpSetTime, TypeInv, TypeOK, Setters
  <2>2. QED
    BY <1>1, <2>1, <1>t, <1>h, <1>k, <1>q
       DEF HttpSetTime, CleanInv, RegInv, Setters, hardware, reading
<1>2. CASE HttpFillTime
  <2>1. HourAsked("http") = asked["http"].h
    BY <1>t DEF HourAsked, TypeInv, Moment, Byte
  <2>2. QED
    BY <1>2, <2>1, <1>t, <1>k, <1>h, <1>q
       DEF HttpFillTime, CleanInv, RegInv, Setters, hardware, reading
<1>3. ASSUME NEW m \in Moments, NtpAnswer(m) PROVE CleanInv(q)'
  <2>1. CASE q = "http"
    BY <1>3, <2>1, <1>t, <1>h, <1>k DEF NtpAnswer, CleanInv, Setters
  <2>2. CASE q = "ntp"
    <3>1. timeAdj' = HourAsked("ntp")' /\ dateAdj' = asked'["ntp"].d
      <4>1. /\ m.h \in Hour /\ m \in Moment /\ zone \in Zones
            /\ asked' = [asked EXCEPT !["ntp"] = [m EXCEPT !.h = @ + zone]]
        BY <1>3, <1>t, ClockAssumption DEF NtpAnswer, TypeInv, TypeOK
      <4>2. asked'["ntp"].h = m.h + zone /\ asked'["ntp"].d = m.d
        BY <4>1, <1>t DEF TypeInv, TypeOK, Moment, Setters
      <4>3. QED
        BY <1>3, <4>1, <4>2, HourByteRange DEF NtpAnswer, HourAsked
    <3>2. QED
      BY <1>3, <2>2, <3>1, <1>t, <1>k DEF NtpAnswer, CleanInv, RegInv, Setters, hardware
  <2>3. QED
    BY <2>1, <2>2, <1>q
<1>4. ASSUME NEW p \in Setters, SetterStep(p) PROVE CleanInv(q)'
  BY <1>4, OwnStep, OtherSetter
<1>5. CASE ReadTime
  BY <1>5, <1>t, <1>h, <1>k, <1>q
     DEF ReadTime, StillClean, CleanInv, RegInv, Setters, setting
<1>6. CASE ReadDate
  BY <1>6, <1>t, <1>h, <1>k, <1>q DEF ReadDate, CleanInv, RegInv, Setters, setting
<1>7. CASE Tick
  BY <1>7, <1>t, <1>h, <1>k, <1>q
     DEF Tick, StillClean, CleanInv, RegInv, Setters, setting, reading
<1>8. CASE UNCHANGED vars
  BY <1>8, <1>t, <1>h, <1>k DEF CleanInv, vars, setting, reading, hardware
<1>9. QED
  BY <1>1, <1>2, <1>3, <1>4, <1>5, <1>6, <1>7, <1>8 DEF Next, HttpThread, TaskNTP, Setters

THEOREM Invariance == Spec => []ClockInv
<1>1. ClockInv /\ [Next]_vars => ClockInv'
  BY StepType, StepLock, StepFrozen, StepReg, StepClean DEF ClockInv
<1>2. QED
  BY <1>1, InitInv, PTL DEF Spec

\* However the three threads interleave, one of them at a time writes the calendar's
\* registers, and the handle is locked exactly then.
THEOREM OneWriterHolds == Spec => []OneWriter
<1>1. ClockInv => OneWriter
  BY DEF ClockInv, LockInv
<1>2. QED
  BY <1>1, Invariance, PTL

\* The hour and the date TaskMain shows belong together over every turn of a day.
THEOREM ReadIsOneInstantHolds == Spec => []ReadIsOneInstant
<1>1. ClockInv => ReadIsOneInstant
  BY DEF ClockInv, FrozenInv, ReadIsOneInstant
<1>2. QED
  BY <1>1, Invariance, PTL

\* A setting that nobody disturbed leaves the clock running, and at the moment asked for
\* when that has an hour of the day: for every zone, calendar and request.
THEOREM UndisturbedSetIsExactHolds == Spec => []UndisturbedSetIsExact
<1>1. ClockInv => UndisturbedSetIsExact
  <2> SUFFICES ASSUME ClockInv, NEW p \in Setters, pc[p] = "disable", clean[p]
               PROVE  running /\ (asked[p].h \in Hour => rtc = asked[p])
    BY DEF UndisturbedSetIsExact
  <2>1. /\ running /\ rtc.d = asked[p].d /\ rtc.h = HourRegister(timeAdj)
        /\ timeAdj = asked[p].h % 256
    BY DEF ClockInv, CleanInv, TimeSet, DateSet, HourAsked
  <2>2. rtc \in [d : Day, h : Shown] /\ asked[p] \in [d : Day, h : -12..255]
    BY DEF ClockInv, TypeInv, TypeOK
  <2>3. ASSUME asked[p].h \in Hour PROVE rtc = asked[p]
    <3>1. timeAdj = asked[p].h
      BY <2>1, <2>3 DEF Hour
    <3>2. rtc.h = asked[p].h
      BY <2>1, <2>3, <3>1, HourRegisterExact
    <3>3. /\ rtc = [d |-> rtc.d, h |-> rtc.h]
          /\ asked[p] = [d |-> asked[p].d, h |-> asked[p].h]
      BY <2>2
    <3>4. QED
      BY <2>1, <3>2, <3>3
  <2>4. QED
    BY <2>1, <2>3
<1>2. QED
  BY <1>1, Invariance, PTL

\* The days of the up-time follow the date over any number of months and years, however
\* long TaskMain does not look.
THEOREM DaysFollowTheDateHolds == Spec => DaysFollowTheDate
<1> DEFINE DiaInv == dia = DayNumber(gDate) - DayNumber(1)
<1>1. Init => DiaInv
  <2>1. 1 \in Day
    BY ClockAssumption DEF Day
  <2>2. DayNumber(1) - DayNumber(1) = 0
    BY <2>1, DayNumberType
  <2>3. QED
    BY <2>2 DEF Init
<1>2. ASSUME TypeInv, TypeInv', DiaInv, [Next]_vars
      PROVE  DiaInv' /\ (gDate' >= gDate => dia' \in dia..dia + 5 * (gDate' - gDate))
  <2>1. gDate \in Day /\ gDate' \in Day /\ 1 \in Day
    BY <1>2, ClockAssumption DEF TypeInv, TypeOK, Day
  <2>2. DiaInv'
    <3>1. CASE ReadDate
      BY <3>1, <2>1, DiaValue DEF ReadDate, Calculate_UPTime
    <3>2. CASE UNCHANGED <<dia, gDate>>
      BY <1>2, <3>2
    <3>3. QED
      BY <1>2, <3>1, <3>2 DEF Next, HttpThread, TaskNTP, SetterStep, HttpSetTime,
         HttpFillTime, NtpAnswer, Enable, Test, Lock, EnterInitMode, Write, ExitInitMode,
         Unlock, Disable, ReadTime, Tick, vars, reading
  <2>3. ASSUME gDate' >= gDate PROVE dia' \in dia..dia + 5 * (gDate' - gDate)
    <3>1. DayNumber(gDate') - DayNumber(gDate) \in 0..5 * (gDate' - gDate)
      BY <2>1, <2>3, DaysAhead DEF Day
    <3>2. /\ DayNumber(gDate) \in Nat /\ DayNumber(gDate') \in Nat /\ DayNumber(1) \in Nat
          /\ gDate' - gDate \in Int
      BY <2>1, DayNumberType DEF Day
    <3>3. QED
      BY <1>2, <2>2, <3>1, <3>2
  <2>4. QED
    BY <2>2, <2>3
<1>3. Spec => []TypeInv
  BY InitType, StepType, PTL DEF Spec
<1>4. QED
  BY <1>1, <1>2, <1>3, PTL DEF Spec, DaysFollowTheDate
=============================================================================
