------------------------------- MODULE Clock -------------------------------
(***************************************************************************)
(* The real-time clock and the three threads that use it: the HTTP thread  *)
(* (setTime) and TaskNTP set it, TaskMain reads it every second and works  *)
(* out the up-time.  TaskMain preempts the other two anywhere, TaskNTP the *)
(* HTTP thread.  Each of them opens the backup domain before it uses the   *)
(* RTC and closes it afterwards, with one bit and no count; gDateAdj and   *)
(* gTimeAdj are shared by both setters.                                    *)
(*                                                                         *)
(* The time of day is the hour: minutes and seconds go the same way.       *)
(* Nobody checks it: the digits of a request may be any byte, and TaskNTP  *)
(* adds the zone to an hour of Greenwich.  A date is the number of a day   *)
(* of Calendar; one that does not exist is left out.                       *)
(***************************************************************************)
EXTENDS Integers, Sequences

CONSTANTS
    Calendar,    \* the days the RTC counts through, each <<year, month, day>>
    Moments,     \* what a client may ask for and a time server may answer
    Zones,       \* the values of fuso_offset that a client chooses from
    After,       \* the hours that may come after one that does not exist
    Word,        \* 2^32, the range of uptime.dia
    MaxSet,      \* bound: requests to set the clock
    MaxRace,     \* bound: reads of TaskMain that come while a setter is at work
    MaxTick      \* bound: hours that pass

Day     == 1..Len(Calendar)
Hour    == 0..23
Byte    == 0..255
Shown   == 0..39     \* what two BCD digits of two and four bits can show
Moment  == [d : Day, h : Byte]
Nothing == [d |-> 1, h |-> 0]
Setters == {"http", "ntp"}

\* e is the day after c (how long a month is does not matter here).
Follows(c, e) ==
    \/ e = <<c[1], c[2], c[3] + 1>>
    \/ c[2] < 12 /\ c[3] >= 28 /\ e = <<c[1], c[2] + 1, 1>>
    \/ c[2] = 12 /\ c[3] = 31 /\ e = <<c[1] + 1, 1, 1>>

\* A zone of the table; cfg.Timezone beyond its 25 entries is left out.
ASSUME ClockAssumption ==
    /\ Calendar \in Seq((0..99) \X (1..12) \X (1..31)) /\ Calendar # <<>>
    /\ \A i \in Day : i + 1 \in Day => Follows(Calendar[i], Calendar[i + 1])
    /\ Moments \subseteq Moment
    /\ Zones \subseteq -12..12 /\ After \subseteq Shown
    /\ Word \in Nat /\ Word > 400 * 100
    /\ MaxSet \in Nat /\ MaxRace \in Nat /\ MaxTick \in Nat

VARIABLES
    rtc, running,        \* the calendar, and whether it counts (INITF is 0)
    frozen,              \* the date kept from a read of the time to that of the
                         \* date, 0 if there is none
    dbp,                 \* PWR_CR1.DBP: the RTC registers can be written
    lock,                \* hrtc.Lock
    dateAdj, timeAdj,    \* gDateAdj, gTimeAdj.Hours
    ntpOn, zone,         \* cfg.NTP, fuso_offset[cfg.Timezone]
    pc, reg,             \* where a setter is, and in which of the two calls
    main, gTime, gDate,  \* TaskMain, and what it has read
    dia,                 \* uptime.dia
    asked, clean,        \* history: what a setter is setting, Nothing when it is
                         \* idle, and that nobody came between
    instant,             \* history: the calendar when TaskMain read the time
    sets, races, ticks   \* counted against the bounds

hardware == <<rtc, running, frozen, dbp>>
setting  == <<lock, dateAdj, timeAdj, ntpOn, zone, pc, reg, asked, sets>>
reading  == <<main, gTime, gDate, dia, instant>>
vars     == <<hardware, setting, reading, clean, races, ticks>>

\* The program starts on the first day; the RTC runs on from its battery.
Init ==
    /\ rtc \in Moments /\ rtc.d = 1 /\ rtc.h \in Shown
    /\ running = TRUE /\ frozen = 0 /\ dbp = FALSE /\ lock = FALSE
    /\ dateAdj = 1 /\ timeAdj = 0 /\ ntpOn \in BOOLEAN /\ zone \in Zones
    /\ pc = [p \in Setters |-> "idle"] /\ reg = [p \in Setters |-> "TR"]
    /\ main = "idle" /\ gTime = rtc.h /\ gDate = 1
    /\ dia = 0
    /\ asked = [p \in Setters |-> Nothing] /\ clean = [p \in Setters |-> TRUE]
    /\ instant = rtc
    /\ sets = 0 /\ races = 0 /\ ticks = 0

-----------------------------------------------------------------------------
(***************************************************************************)
(* The setters.  The HTTP thread moves when the others sleep or wait.      *)
(***************************************************************************)
CanRun(p) == main = "idle" /\ (p = "http" => pc["ntp"] = "idle")

\* p is between __HAL_LOCK and __HAL_UNLOCK.
Holds(p) == pc[p] \in {"init", "write", "exit", "unlock"}

Goes(p, to) == pc' = [pc EXCEPT ![p] = to]

\* setTime: the date of the request, then its time, the NTP switch and the zone.
HttpSetTime(m) ==
    /\ CanRun("http") /\ pc["http"] = "idle" /\ sets < MaxSet
    /\ dateAdj' = m.d
    /\ asked' = [asked EXCEPT !["http"] = m]
    /\ sets' = sets + 1
    /\ Goes("http", "fill")
    /\ UNCHANGED <<hardware, reading, lock, timeAdj, ntpOn, zone, reg, clean, races,
                   ticks>>

HttpFillTime ==
    /\ CanRun("http") /\ pc["http"] = "fill"
    /\ timeAdj' = asked["http"].h
    /\ ntpOn' \in BOOLEAN /\ zone' \in Zones
    /\ Goes("http", "enable")
    /\ UNCHANGED <<hardware, reading, lock, dateAdj, reg, asked, clean, sets, races,
                   ticks>>

\* Mutated: the hour is not a byte.
HourByteSigned(h) == h + zone

\* gTimeAdj.Hours in the zone.
HourByte(h) == (h + zone) % 256

\* TaskNTP gets an answer, an hour of the day: it adds the zone to the hour only, the
\* date stays that of Greenwich.  When the HTTP thread holds the handle it will set
\* nothing.
NtpAnswer(m) ==
    /\ CanRun("ntp") /\ pc["ntp"] = "idle" /\ ntpOn /\ m.h \in Hour
    /\ dateAdj' = m.d /\ timeAdj' = HourByte(m.h)
    /\ asked' = [asked EXCEPT !["ntp"] = [m EXCEPT !.h = @ + zone]]
    /\ clean' = [p \in Setters |-> IF p = "ntp" THEN ~Holds("http") ELSE pc[p] = "idle"]
    /\ Goes("ntp", "enable")
    /\ UNCHANGED <<hardware, reading, lock, ntpOn, zone, reg, sets, races, ticks>>

\* HAL_PWR_EnableBkUpAccess; the next call is HAL_RTC_SetTime.
Enable(p) ==
    /\ CanRun(p) /\ pc[p] = "enable"
    /\ dbp' = TRUE
    /\ Goes(p, "test")
    /\ UNCHANGED <<rtc, running, frozen, reading, lock, dateAdj, timeAdj, ntpOn, zone,
                   reg, asked, clean, sets, races, ticks>>

\* HAL_RTC_SetTime is followed by HAL_RTC_SetDate, that by the end.
Leave(p) ==
    IF reg[p] = "TR" THEN Goes(p, "test") /\ reg' = [reg EXCEPT ![p] = "DR"]
                     ELSE Goes(p, "disable") /\ reg' = [reg EXCEPT ![p] = "TR"]

\* Mutated: the handle is used though it is locked.
TestIgnoresLock(p) ==
    /\ CanRun(p) /\ pc[p] = "test"
    /\ Goes(p, "lock") /\ UNCHANGED reg
    /\ UNCHANGED <<hardware, reading, lock, dateAdj, timeAdj, ntpOn, zone, asked, clean,
                   sets, races, ticks>>

\* __HAL_LOCK: the test and, some instructions later, the assignment.
Test(p) ==
    /\ CanRun(p) /\ pc[p] = "test"
    /\ IF lock THEN Leave(p) ELSE Goes(p, "lock") /\ UNCHANGED reg
    /\ UNCHANGED <<hardware, reading, lock, dateAdj, timeAdj, ntpOn, zone, asked, clean,
                   sets, races, ticks>>

Lock(p) ==
    /\ CanRun(p) /\ pc[p] = "lock"
    /\ lock' = TRUE
    /\ Goes(p, "init")
    /\ UNCHANGED <<hardware, reading, dateAdj, timeAdj, ntpOn, zone, reg, asked, clean,
                   sets, races, ticks>>

\* Mutated: a calendar that stands already is taken for a failure.
EnterInitModeRefuses(p) ==
    /\ CanRun(p) /\ pc[p] = "init"
    /\ IF ~running \/ ~dbp THEN Goes(p, "unlock") /\ UNCHANGED running
                           ELSE Goes(p, "write") /\ running' = FALSE
    /\ UNCHANGED <<rtc, frozen, dbp, reading, lock, dateAdj, timeAdj, ntpOn, zone, reg,
                   asked, clean, sets, races, ticks>>

\* RTC_EnterInitMode: nothing to do when the calendar stands already; without
\* access to the register it stays running and a second later HAL_TIMEOUT.
EnterInitMode(p) ==
    /\ CanRun(p) /\ pc[p] = "init"
    /\ IF running /\ ~dbp THEN Goes(p, "unlock") /\ UNCHANGED running
                          ELSE Goes(p, "write") /\ running' = FALSE
    /\ UNCHANGED <<rtc, frozen, dbp, reading, lock, dateAdj, timeAdj, ntpOn, zone, reg,
                   asked, clean, sets, races, ticks>>

\* RTC_ByteToBcd2, and the six bits of the register that hold the hour.
HourRegister(b) ==
    LET bcd == (16 * (b \div 10) + (b % 10)) % 64
    IN  10 * (bcd \div 16) + (bcd % 16)

\* Mutated: the date register gets the date the calendar had.
WriteTimeOnly(p) ==
    /\ CanRun(p) /\ pc[p] = "write"
    /\ rtc' = IF dbp /\ reg[p] = "TR" THEN [rtc EXCEPT !.h = HourRegister(timeAdj)] ELSE rtc
    /\ Goes(p, "exit")
    /\ UNCHANGED <<running, frozen, dbp, reading, lock, dateAdj, timeAdj, ntpOn, zone,
                   reg, asked, clean, sets, races, ticks>>

Write(p) ==
    /\ CanRun(p) /\ pc[p] = "write"
    /\ rtc' = IF ~dbp THEN rtc
              ELSE IF reg[p] = "TR" THEN [rtc EXCEPT !.h = HourRegister(timeAdj)]
              ELSE [rtc EXCEPT !.d = dateAdj]
    /\ Goes(p, "exit")
    /\ UNCHANGED <<running, frozen, dbp, reading, lock, dateAdj, timeAdj, ntpOn, zone,
                   reg, asked, clean, sets, races, ticks>>

\* RTC_ExitInitMode: without access the calendar goes on standing.
ExitInitMode(p) ==
    /\ CanRun(p) /\ pc[p] = "exit"
    /\ running' = (running \/ dbp)
    /\ Goes(p, "unlock")
    /\ UNCHANGED <<rtc, frozen, dbp, reading, lock, dateAdj, timeAdj, ntpOn, zone, reg,
                   asked, clean, sets, races, ticks>>

Unlock(p) ==
    /\ CanRun(p) /\ pc[p] = "unlock"
    /\ lock' = FALSE
    /\ Leave(p)
    /\ UNCHANGED <<hardware, reading, dateAdj, timeAdj, ntpOn, zone, asked, clean, sets,
                   races, ticks>>

Disable(p) ==
    /\ CanRun(p) /\ pc[p] = "disable"
    /\ dbp' = FALSE
    /\ Goes(p, "idle")
    /\ clean' = [clean EXCEPT ![p] = TRUE] /\ asked' = [asked EXCEPT ![p] = Nothing]
    /\ UNCHANGED <<rtc, running, frozen, reading, lock, dateAdj, timeAdj, ntpOn, zone,
                   reg, sets, races, ticks>>

SetterStep(p) == \/ Enable(p) \/ Test(p) \/ Lock(p) \/ EnterInitMode(p) \/ Write(p)
                 \/ ExitInitMode(p) \/ Unlock(p) \/ Disable(p)

-----------------------------------------------------------------------------
(***************************************************************************)
(* TaskMain and the calendar itself.                                       *)
(***************************************************************************)
\* Who is between opening and closing the backup domain is disturbed.
StillClean == [p \in Setters |-> clean[p] /\ pc[p] \in {"idle", "fill", "enable"}]

\* HAL_RTC_GetTime: the read freezes the date that belongs to the time.
ReadTime ==
    /\ main = "idle"
    /\ IF \A p \in Setters : pc[p] = "idle" THEN UNCHANGED races
       ELSE races < MaxRace /\ races' = races + 1
    /\ dbp' = TRUE
    /\ gTime' = rtc.h /\ frozen' = IF frozen = 0 THEN rtc.d ELSE frozen
    /\ instant' = rtc /\ clean' = StillClean
    /\ main' = "date"
    /\ UNCHANGED <<rtc, running, setting, gDate, dia, ticks>>

\* Mutated: a month counts 28 days.
DayNumberShort(i) == 365 * Calendar[i][1] + 28 * Calendar[i][2] + Calendar[i][3]

\* Calculate_UPTime's days: 365 to the year, 30 to the month.
DayNumber(i) == 365 * Calendar[i][1] + 30 * Calendar[i][2] + Calendar[i][3]

\* A uint32_t difference.
Wrap(n) == IF n < 0 THEN n + Word ELSE n

Calculate_UPTime(d) ==
    dia' = Wrap(DayNumber(d) - DayNumber(1))

\* Mutated: the register is read without the freeze.
ReadDateUnfrozen ==
    /\ main = "date"
    /\ gDate' = rtc.d /\ frozen' = 0
    /\ dbp' = FALSE
    /\ Calculate_UPTime(gDate')
    /\ main' = "idle"
    /\ UNCHANGED <<rtc, running, setting, gTime, instant, clean, races, ticks>>

\* HAL_RTC_GetDate, which ends the freeze, the end of the access, the up-time.
ReadDate ==
    /\ main = "date"
    /\ gDate' = (IF frozen = 0 THEN rtc.d ELSE frozen) /\ frozen' = 0
    /\ dbp' = FALSE
    /\ Calculate_UPTime(gDate')
    /\ main' = "idle"
    /\ UNCHANGED <<rtc, running, setting, gTime, instant, clean, races, ticks>>

\* An hour ends, the last one of a day with the day.  What follows an hour that is
\* none its documentation does not say.
Tick ==
    /\ running /\ ticks < MaxTick
    /\ \/ rtc.h < 23 /\ rtc' = [rtc EXCEPT !.h = @ + 1]
       \/ /\ rtc.h = 23 /\ rtc.d < Len(Calendar)
          /\ rtc' = [d |-> rtc.d + 1, h |-> 0]
       \/ /\ rtc.h > 23
          /\ rtc' \in [d : {rtc.d, rtc.d + 1} \cap Day, h : After]
    /\ ticks' = ticks + 1
    /\ clean' = StillClean
    /\ UNCHANGED <<running, frozen, dbp, setting, reading, races>>

TaskNTP == (\E m \in Moments : NtpAnswer(m)) \/ SetterStep("ntp")

\* The HTTP thread within a request.
HttpThread == HttpFillTime \/ SetterStep("http")

Next == \/ \E m \in Moments : HttpSetTime(m)
        \/ HttpThread \/ TaskNTP
        \/ ReadTime \/ ReadDate \/ Tick

\* TaskMain's read ends; TaskNTP asks every hour, the server answers again and
\* again, and TaskNTP gets on whenever TaskMain waits; so does the HTTP thread
\* when both wait.
Spec == /\ Init /\ [][Next]_vars
        /\ WF_vars(ReadDate) /\ SF_vars(TaskNTP) /\ SF_vars(HttpThread)

-----------------------------------------------------------------------------
Places == {"idle", "fill", "enable", "test", "lock", "init", "write", "exit", "unlock",
           "disable"}

TypeOK ==
    /\ rtc \in [d : Day, h : Shown] /\ running \in BOOLEAN /\ frozen \in Day \cup {0}
    /\ dbp \in BOOLEAN /\ lock \in BOOLEAN
    /\ dateAdj \in Day /\ timeAdj \in Byte /\ ntpOn \in BOOLEAN /\ zone \in Zones
    /\ pc \in [Setters -> Places] /\ reg \in [Setters -> {"TR", "DR"}]
    /\ main \in {"idle", "date"} /\ gTime \in Shown /\ gDate \in Day
    /\ dia \in 0..Word - 1
    /\ asked \in [Setters -> [d : Day, h : -12..255]]
    /\ clean \in [Setters -> BOOLEAN]
    /\ instant \in [d : Day, h : Shown]
    /\ sets \in 0..MaxSet /\ races \in 0..MaxRace /\ ticks \in 0..MaxTick

\* One thread at a time is between __HAL_LOCK and __HAL_UNLOCK, though the macro is
\* no atomic operation: whoever comes between its test and its assignment is done
\* before the assignment is made.
OneWriter ==
    /\ ~(Holds("http") /\ Holds("ntp"))
    /\ lock = (Holds("http") \/ Holds("ntp"))

\* The time and the date TaskMain works with were the calendar's at one instant,
\* whatever turned between the two reads.
ReadIsOneInstant == main = "idle" => gTime = instant.h /\ gDate = instant.d

\* When nobody came between, the clock runs as the access is closed, whatever was left
\* of an earlier, disturbed attempt, and shows what was asked for: if that was an hour
\* of the day.  TaskNTP's is none when the zone takes it over midnight, west or east;
\* the day does not go with the hour, and nobody corrects either.
UndisturbedSetIsExact ==
    \A p \in Setters :
        pc[p] = "disable" /\ clean[p] => /\ running
                                         /\ asked[p].h \in Hour => rtc = asked[p]

\* While the date goes up so do the days of the up-time, whatever months and years
\* turn, and by five at most for every day (the 31st of December).
DaysFollowTheDate ==
    [][gDate' >= gDate => dia' \in dia..dia + 5 * (gDate' - gDate)]_vars

\* A calendar that TaskMain left standing in the middle of a setting runs again,
\* unless the time server is switched off.
ClockRecovers == ~running ~> (running \/ ~ntpOn)
=============================================================================
