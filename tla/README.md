# RXNSTL receiver firmware: verification project

RXNSTL is the firmware of an FM studio-transmitter-link receiver: an STM32H743
with FreeRTOS, LwIP, the Paho embedded MQTT client and LVGL.  This directory
holds TLA+ models of its own control logic, the TLC runs that check them and the
theorems the TLA+ proof system checks about them.  Vendored code (`Drivers`,
`Middlewares`, `lvgl`, `cJSON`, fonts, generated web pages) is left aside.

## 1. The system

### Threads and interrupts

| who | priority | what it does | where |
|---|---|---|---|
| TaskMain | Normal2 | boot; every 10 ms: clock, temperature, remote inputs, RDS, `Telemetry_save`, watchdog | `Core/Src/freertos.c` 425-558 |
| HTTP thread | Low5 | one request at a time: pages, JSON, settings | `Sinteck/tcp/httpserver_netconn.c` |
| TaskGUI | Low | LVGL, one key event per pass | `Core/Src/freertos.c` 568-620 |
| TaskNTP | Normal | asks a time server every hour, sets the clock | `Core/Src/freertos.c` 713-760 |
| USB host thread | Normal | mounts a stick, starts the player | `USB_HOST/App/usb_host.c` 97-127 |
| AudioPlayer | Realtime2 | refills the I2S buffer from a file | `Sinteck/src/wav_player.c` |
| MQTT pub, sub | Low4, Low3 | one shared client | `Sinteck/tcp/mqtt_paho.c`, `Sinteck/MQTT` |
| TIM6 | interrupt, 1 ms | ticks; keys every 25 ms | `Core/Src/main.c` 672-704 |
| I2S DMA | interrupt | which half of the audio buffer was played | `Sinteck/src/wav_player.c` 134-160 |

### Components, their state, their operations and what makes them correct

* **Settings store.** State: `cfg`, `rds`, `adv`, `Profile`, `lic` in RAM, the
  I2C EEPROM, and `flag_telemetry`, one byte through which the HTTP thread asks
  TaskMain to save a group of cells.  Operations: the boot (read the header, then
  either load the settings or write the factory settings), the HTTP handlers,
  `Telemetry_save`, `EEPROM_Write`, `Carrega_Prog_Default`, `reset_password`.
  Correct when no posted setting is forgotten, a restore is complete, the header
  never lies about what follows it and TaskMain gets back to the watchdog.  Hard:
  three parties interleave (two threads and the chip's own write cycle), the bus
  has no lock, a reset may come anywhere, no caller looks at an error.
* **EEPROM page writer.** `EEPROM_Write` cuts a cell at the 64-byte pages of the
  chip.  Correct when it touches its own cell only and HAL_OK means stored.  Hard:
  page boundaries, transfers that fail or are cut off.
* **Keyboard event queue.** A ring of events between the timer interrupt and
  TaskGUI.  Correct when it is a FIFO of whole events.  Hard: nothing suspends the
  interrupt while TaskGUI copies or initialises.
* **Push-button decoder.** Samples of a key become single, double, triple and long
  clicks.  Correct when every press ends in one event of the right kind.  Hard:
  time-outs that race presses, and `KeyboardInit` running against the interrupt.
* **Front panel.** The keys, their queue and TaskGUI together: `Key_Read` samples
  every key in one interrupt.  Correct when no event is lost while TaskGUI keeps up.
  Hard: how fast a key may report, how many keys there are, how long the queue is and
  how far TaskGUI is behind decide together, and no line of the code says so.
* **Clock.** State: the RTC's calendar with its initialisation mode and its shadow
  registers, the backup-domain bit DBP, the lock of the HAL's handle, `gDateAdj`,
  `gTimeAdj`, `cfg.NTP`, `uptime`.  Operations: `setTime` in the HTTP thread and
  TaskNTP set it, TaskMain reads it every second and works out the up-time.  Correct
  when one writer at a time is at it, a time and a date read together are of one
  instant, an undisturbed setting is exact, the up-time does not go back with the
  date, and a calendar left standing runs again.  Hard: TaskMain preempts both setters
  anywhere and closes the access they need (DBP is one bit without a count), the
  handle's lock is a test and an assignment, and both setters fill the same globals.
* **WAV player.** A file from a USB stick through a circular DMA buffer of two
  halves.  Correct when each piece is heard once and in order and playback ends.
  Hard: task, two DMA interrupts and USB thread share everything without a lock.
* **MQTT link.** Two threads share one client, its buffers and its socket.  State:
  `isconnected`, `MutexMqtt`, the `Network` with its netconn and the rest of a
  netbuf.  Correct when an acknowledged publication is one the broker has, every
  publication returns and the link comes back.  Hard: `MQTTYield` reads without the
  lock, so each thread takes packets, or parts of them, that the other waits for;
  the connection is closed under a reader; time-outs, refusals, a broken connection.
* **RDS decoder.** Ring of bits, 26-bit framing, groups.  It never runs in this
  build: the pin's edge is configured (`Core/Src/gpio.c:112`) but the interrupt is
  not enabled and has no handler, so `RDS_Task` never finds a bit.
* **Others.** HTTP pages and login, SNMP tables, screens, alarm log, licence,
  buzzer (nobody starts it in this receiver), remote inputs and temperature (one pass
  of one thread), drivers, and servers nobody starts.
  `PROJECT.json` lists each with the reason it is not modelled.

### How they interact

The HTTP thread changes RAM settings and posts a code; TaskMain serves the code in
its loop and calls `EEPROM_Write` for each cell.  A factory restore calls
`EEPROM_Write` from the HTTP thread itself, and two handlers drive the volume chips
on the same bus.  TIM6 calls the push-button decoder, which fills the event queue;
TaskGUI empties it.  The USB thread starts the player task, the player and the USB
thread both stop it, the DMA interrupts wake it.  HTTP thread, TaskNTP and TaskMain share the
RTC and its globals.

## 2. Modules

| module | models | state -> code |
|---|---|---|
| `ConfigStore` | settings store | `ram` the settings in RAM, `eep` the EEPROM cell by cell, `flag` flag_telemetry, `main` and `http` where the two threads are, `cycle` whose write the chip is programming, `protect` the EEPROM_HOLD pin raised by TaskMain under a restore |
| `SettingsStore` | what the settings store promises a client that waits and restores only when the mailbox is empty | `value` what the unit works with, `safe` what a restart brings back, `open` the group of settings that is being changed |
| `EepromPages` | `EEPROM_Write` byte by byte | `mem` the chip, `memAddress`, `bytesWritten`, `size`, `data` its variables |
| `CellWrite` | what a caller of `EEPROM_Write` relies on | `store` the chip, `wanted` the cell with its new bytes, `writing`, `answer` |
| `BoundedFifo` | what the event queue promises | `q` the events, `out` the last delivered, `ret` the last answer |
| `EvtQueue` | the ring of `keys.c` | `buff`, `head`, `tail`; `gui`, `i`, `event` are TaskGUI inside `Evt_DeQueue` |
| `PushButton` | one key of `keys.c` | `old`, `click`, `duration`, `flag` the key's record; `init` where `KeyboardInit` is |
| `FrontPanel` | all keys, the queue and TaskGUI; extends `PushButton`, instantiates `BoundedFifo` | `scan` the key `Key_Read` samples next, `since` how long a key has been silent, `q`, `out`, `ret` the queue; `cleared`, `caught`, `lag` where TaskGUI is |
| `Clock` | the RTC, its two setters and TaskMain's read | `rtc`, `running`, `frozen`, `dbp` the hardware; `lock` hrtc.Lock; `dateAdj`, `timeAdj`, `ntpOn`, `zone` the globals; `pc`, `reg` where a setter is and in which of the two HAL calls; `main`, `gTime`, `gDate`, `dia` TaskMain |
| `WavPlayer` | `wav_player.c` and its callers | `task` and `usb` where the two threads are; `buf`, `dma`, `sem` the buffer, the stream and the two semaphores |
| `MqttLink` | both MQTT threads over one client, and the broker | `isconnected`, `mutex` the client's; `sub`, `pub`, `rd` where the threads are and are in `readPacket`; `net`, `opened` the Network and the netconns taken; `up`, `rx` the bytes under way |
| `*_proofs` | theorems about the module of that name | |
| `MC*` | what TLC needs beside the module: sets and bounds | |

`EvtQueue` is tied to `BoundedFifo` by a refinement mapping (`Held` is the ring
read from its tail).  So is `EepromPages` to `CellWrite`: `Wanted` is the cell of the call, and a
transfer, a failed one or a reset takes some of its bytes from old to new.  So is
`ConfigStore`, with a client that is `Patient` and `RestoreAlone` and a healthy bus, to `SettingsStore`: `Shown` is the RAM, or while the unit boots what it is about to read;
`Saved` is the EEPROM; `Open` is the group of the handler, the save or the load under
way.  The mapping takes the cells in `Kept`: those that are saved at all and that no
other cell's write overlaps.

`ConfigStore` and `EepromPages` describe the same function at two grains: `ConfigStore`
takes a cell as one write that succeeds or leaves the cell alone, `EepromPages` shows what
that means for bytes.  A write that returns HAL_OK is the same in both.  A write that
fails, or that a reset cuts off, leaves each byte of its cell old or new in `EepromPages`,
where a broken transfer may be stored in part; `ConfigStore` leaves the old cell.  Two
cells cross a page (`RDS_RT` at 192 and `RDS_DYN` at 320, 72 bytes each) and can be left
half written between two transfers as well; only the default load writes them.

`FrontPanel` composes: key 0 is `PushButton` in full, the queue is `BoundedFifo`, for
which `EvtQueue` was shown to be one, and the other keys are what `EventsApart` says of
a key: two events are at least `Gap` samples apart once `KeyboardInit` is done.  The
run checks that key 0 is such a key, and `FrontPanel_proofs` proves it, so that the abstraction is one of this code.

### How the actions correspond to the code

*ConfigStore.*  Boot: `BootRead` (good header), `BootDefaults` then the writes and
`LoadDone` (any other header).  Loop: `TelemetryPick`, `MainWriteOk` or
`MainWriteFail` per cell, `MainWake` after the delay, `SaveDone` with the store to
flag_telemetry at the end of the case, `ResetPassword` for case 253.  HTTP thread:
`HttpRequest`, `HttpSet` per assigned cell, `HttpBus` while it drives the volume
chips, `HttpPost` for the code at the end of the handler, `RestoreWriteOk`,
`RestoreWriteFail`, `RestoreWriteLost`, `RestoreWake`, `RestoreDone` for
`Carrega_Prog_Default`.
`CycleEnds` is the chip, `Reset` the watchdog, the reboot request and the power
supply.  TaskMain has the higher priority, so the HTTP thread moves only while it
sleeps (`MainBlocked`), and TaskMain may come in at any step of the HTTP thread, a
transfer included (`MainContended`).  `EEPROM_Write` lowers the write-protect pin
EEPROM_HOLD before its transfer and raises it after (`eeprom.c:91, 110`); when TaskMain
comes between, the HTTP thread's transfer goes on with the pin up (`protect`), and may
then succeed on the bus and store nothing (`RestoreWriteLost`).
Two constants say what the client does.  `Patient`: it sends nothing until what it posted
is durable (`Settled`).  `RestoreAlone`: it asks for a factory restore only while the
mailbox is empty.  The second is not implied by the first: case 12 never clears the
mailbox, so that after a setNetwork a client may wait until its settings are durable and
still have its restore meet TaskMain.

*EvtQueue.*  An interrupt runs to completion, so `EnQueue` and `EnQueueFull` are one
step each; TaskGUI's accesses are one step each, the copy byte by byte.

*PushButton.*  `KeyboardRead` is one step of the interrupt; `KeyboardInit` is four
steps, one per store, with samples between them.

*FrontPanel.*  `ScanFirst` and `ScanNext` are the loop of `Key_Read`; the interrupt runs
to completion, so TaskGUI's `Evt_InitQueue`, `ClearRecords` and `ButtonEvent` move only
between two scans.  `lag` counts the samples TaskGUI's loop is behind.

*Clock.*  `HttpSetTime` and `HttpFillTime` are `setTime` in its two assignments,
`NtpAnswer` is TaskNTP's, and then each goes through `Enable`, twice `Test`, `Lock`,
`EnterInitMode`, `Write`, `ExitInitMode`, `Unlock` (`HAL_RTC_SetTime`, then
`HAL_RTC_SetDate`), and `Disable`.  TaskMain's second is `ReadTime` (which freezes the
date) and `ReadDate` with `Calculate_UPTime`; `Tick` is the calendar.  Hours are what
the code makes of them: a request's digits are unchecked (any byte), TaskNTP adds the
zone, of the whole table, in a byte, and the register takes six bits of the BCD, so that
it shows 0 to 39.  What follows an hour above 23 the RTC's documentation does not say:
`Tick` then takes any hour of `After`, of the same day or of the next one.  While TaskMain is
between its reads nobody else moves, and the HTTP thread moves only while TaskNTP
sleeps; each may begin at any step of a lower one.

*WavPlayer.*  The task moves whenever it can, the USB thread only while the task is
blocked or gone, the DMA whenever it runs.  `late` records that a half was played
before the other one was refilled: the properties about the sound speak of the
playback up to then.

*MqttLink.*  A call that waits is two actions: what it sends (`MQTTConnect`,
`MQTTSubscribe`, `MQTTPublish`) and what it does with each packet `cycle` returns
(`ConnectAnswer`, `SubscribeAnswer`, `PublishAnswer`).  Between them the thread is in
`readPacket`: `ReadHeader`, `ReadRest`, or `ReadTorn` when the other thread read or
overwrote the rest in `net.buf`; then any packet may come out, and nothing is assumed
about the bytes that are left.  `ReadNoRest` is a rest that is gone and that nothing
comes for: `decodePacket`'s result is not looked at, so that the header alone may pass
for the packet.  Both threads read into `c->readbuf` and take the type from there at the
end (`MQTTClient.c:141`): `Receive` and `ReadBack` say what the other thread's packet
then is.  `cycle` answers a message (`Acknowledges`, `Answer`) unless the caller's timer is
over, for `sendPacket` looks at it first (`late`, `MQTTClient.c:41`).  `DisconnectNetwork`
shuts the sending half down, waits 50 ms and deletes the netconn: two actions,
`DisconnectNetwork` within the one that calls it and `SubDelete`, between which the
publisher runs.  The subscriber runs the loop of
`MqttClientSubTask` with its two tests of `isconnected` (`SubTop`, `SubCheck`).  The
broker answers in order, or does not (`BrokerFault`); `Cut` breaks the connection.

## 3. Runs

| run | asks | answer |
|---|---|---|
| `cfg_patient` | does a client that waits for each save, and restores only when no code is pending, lose anything, over all handlers and a reset? | no: `SavesAreKept`, `NoErasedSettings`, `EventuallySaved`, `ImplementsStore`, `MainReturns`, and the invariant of the proofs `IInv` |
| `cfg_contended` | can hurried clients, a busy bus and a fault hold TaskMain up, spoil the header, or spoil a restore that began with an empty mailbox? | no: `MainReturns`, `HeaderStaysValid`, `RestoreIsDurable`, `TypeOK` |
| `cfg_lost_save` | is a posted save always done? | no: the mailbox holds one code |
| `cfg_load_interrupted` | does the boot ever work with unprogrammed settings? | yes: after a reset inside the first load |
| `evtqueue` | is the ring a FIFO of whole events, and is each event dispatched? | yes: `ImplementsFifo`, `CopyIsIntact`, `EveryEventIsTaken`, `TypeOK` |
| `keyboard` | are clicks counted, classified and reported, and does every event of every key find a place in the queue? | yes, while TaskGUI keeps up: `ReportCountsPresses`, `LongIffHeld`, `EventsApart`, `NoKeyLost`, `EveryPressIsReported`, `TypeOK` |
| `clock` | what is left of a setting that TaskMain or the other setter comes between, and does the clock recover? | `OneWriter`, `ReadIsOneInstant`, `UndisturbedSetIsExact`, `DaysFollowTheDate`, `ClockRecovers`, `TypeOK` hold |
| `eeprompages` | does a write touch its cell only, and does HAL_OK mean stored? | yes: `OnlyItsCell`, `OkIsComplete`, `ImplementsCellWrite`, `CallsReturn` |
| `wav` | is the sound the file, and does playback end? | yes: `PlaysInOrder`, `FillsTheOtherHalf`, `OnlyLastPieceCut`, `PlaybackEnds`, `TypeOK` |
| `wav_replug` | is a second stick played? | no: the handle of the first task stays set |
| `mqtt` | does an acknowledgement mean stored, does every publication return, does the link come back? | yes: `AckedIsStored`, `SessionIsReal`, `PublishReturns`, `Reconnects`, `TypeOK`, with the exceptions below |
| `mqtt_leak` | is a connection closed before the next one is opened? | no: the second branch of the loop forgets it |

Two properties of `mqtt` are weaker than a reader might wish, because the code is.
`AckedIsStored` excepts connections of which a packet was torn: bytes that look like
a PUBACK can end a publication, and its true PUBACK then ends the next one, for
`waitfor` compares no identifiers.  `Reconnects` allows the link to stay down when
the forgotten netconns of `mqtt_leak` were the last ones.  What the runs do not call
wrong but show: when `MQTTYield` takes a PUBACK the publisher waits five seconds and
then drops a session that was in order.  And a yield of 200 ms waits up to five seconds
for a packet (`net_read` ignores its timeout, `MQTTInterface.c:181, 209`): a QOS1 message
that comes later than the 200 ms is delivered, but its PUBACK is not sent, `cycle` fails
and the client closes a session that was well (`MQTTClient.c:41, 299-301, 337-338`).
`Reconnects` speaks of that failure too.

`UndisturbedSetIsExact` of `clock` promises exactness for an hour of the day only.
TaskNTP adds the zone to the hour alone (`freertos.c:739`): an answer the zone takes over
midnight, to the west or to the east, is set with the date of Greenwich and an hour that
is none (23 h with twelve hours to the east is 35, and the register shows 35; 11 h with
twelve to the west is the byte 255, and the register shows 15).  `setTime` checks no
digits either.  `TypeOK` bounds what the register shows by 39 and no property claims that
it is an hour of the day.  A disturbed
setting may be lost in part, or leave the calendar standing until the next one;
`ClockRecovers` says that with the time server switched on it runs again, and there is
nobody to start it otherwise.

`RestoreIsDurable` holds, for every client, of a restore that began with no code in the
mailbox (`quiet`) on a bus that has not failed.  Of one that began under a code it is
false, and not for a hurried client only.  TaskMain serves code 12 in every
pass until another code is posted, so that a client that saved its network settings,
waited until they were durable and then restores has its writes meet TaskMain's on the
bus and the write-protect pin; `Carrega_Prog_Default` looks at no error.  TLC finds it
with `Requests = {"setNetwork", "SetRestoreFactory"}`, `Patient = TRUE`,
`RestoreAlone = FALSE` and neither reset nor fault: there `SavesAreKept`, and with it
`EventuallySaved` and `ImplementsStore`, are violated as well, which is why
`cfg_patient` sets `RestoreAlone`.

The four runs that answer against the code are the findings of `PROJECT.json`,
each with the comment it contradicts.  Two more comments are wrong in a way a reader
sees at once and no run is spent on: `keys.h:46` (the queue holds one event fewer
than EVT_QDEPTH, as `ImplementsFifo` says) and `keys.c:392` (nothing suspends the
interrupt; `CopyIsIntact` shows that the ring does without).

### Bounds

* `ConfigStore`: two requests and one reset or one fault.  Every loss needs two
  parties that meet once: one save under way and one request, or one write and one
  reset.  `cfg_patient` uses all nineteen handlers, the one that posts the code no case
  clears among them; `cfg_contended` a save, a restore and the reads of
  `reset_password`, so that each of them meets each other on the bus; it has no reset, and
  that a reset leaves a good header good is what `HeaderKept` proves.
  `PatientSavesAreKept` removes the bounds for the most important property.
* `EvtQueue`: four slots of two bytes: the ring wraps, is full and is empty while
  an event is half copied.  The theorems hold for every depth and width.
* `PushButton`, `FrontPanel`: the real time-outs 3, 12 and 255.  The counters are
  bounded by the code.  Three keys and five places stand for four keys and seven
  places: in both one place is left when the keys report as fast as they can while
  TaskGUI is three samples (75 ms) behind.  `NoKeyLostHolds` covers the firmware's
  numbers themselves.
* `Clock`: two days about the end of January, where 30 days to the month count worst;
  `DaysFollowTheDateHolds` covers every date.  A request and an answer at
  23 h and at 11 h, in zones twelve hours west and east, which give each of them the
  hour of the other or take it over midnight; one request, one read of TaskMain that
  comes while a setter is at work and one hour that ends, while TaskNTP comes between as
  often as it likes: a setting that is disturbed by each of the three, or disturbed and
  then repeated.  The theorems hold without the bounds.  2^16 stands for 2^32 as the width of the days.
* `EepromPages`: pages of 3 bytes, cells of 0 to 4 at every address of 6, two byte
  values: cells inside a page, over a boundary, up to a boundary, and empty.  The
  theorems hold for every size.
* `MqttLink`: two publications, one message from the broker, one fault, three
  netconns.  A stolen, late or torn answer to the first publication meets the second;
  a fault may hit any step of a connection; the pool can be exhausted (the firmware's
  has 32, shared with the other servers).
* `WavPlayer`: files of 0 to 5 half-buffers (two turns of the buffer and one piece)
  and up to three sticks; a fourth meets no new state.

### Fairness

* `ConfigStore`: TaskMain's delays end and it has the higher priority: weak
  fairness of its steps.  It sleeps in every pass, so the HTTP thread gets on again
  and again: strong fairness, because a pass disables it.  The chip's write cycle is
  timed.  Requests, resets and faults are under no obligation.
* `EvtQueue`, `PushButton`, `FrontPanel`: TaskGUI's loop and the timer never stop; a key may never
  be touched.
* `EepromPages`: a call goes on, each transfer has a time-out.
* `MqttLink`: both threads are scheduled, their delays and the five seconds of a
  read end, and a broker that is up answers: weak fairness.  Faults, publications
  and the broker's messages are free.
* `Clock`: TaskMain's read ends: weak fairness.  TaskNTP asks every hour and the server
  answers again and again; it gets on whenever TaskMain waits, and the HTTP thread when
  both wait: strong fairness, because TaskMain's read disables them.  Requests,
  hours and TaskMain's disturbances are free.
* `WavPlayer`: the task and the sample clock never stop; the USB thread runs when
  the player blocks, again and again.  Plugging in and out is free.

## 4. Proofs

All proofs are checked from nothing by tlapm with its SMT, Zenon and LS4 backends.

* `ConfigStore_proofs`.  `TypeCorrect`: `TypeOK` is inductive.
  `PatientSavesAreKept`: assuming `Patient`, `RestoreAlone` and `MaxFault = 0`, the property
  `SavesAreKept` for any set of handlers and any number of requests and resets.  It
  is not inductive as it stands: one has to know who the unsaved cells are with.
  `IInv` says so: `Places` fixes which party may be where, `Owner` names the one
  party, and every cell that RAM and EEPROM disagree about is its business.  The
  assumptions are needed: `cfg_lost_save` breaks the property without the first, a
  restore under code 12 (section 3) without the second.
  `HeaderKept`: `HeaderStaysValid` without any assumption, for any number of
  requests, faults and resets.  `HeaderLoaded` is what makes it so: after the boot
  the RAM has a good header and no handler assigns to it, so that whoever writes
  those cells writes what they hold.
  `NoErasedSettingsHolds`: for every client, assuming `MaxFault = 0` and
  `~ResetInLoad`; both are needed (`cfg_load_interrupted` breaks it without the second).
  `BootAlone` says that nobody joins TaskMain before its loop, so that a load's writes
  meet no other; `LoadProgress` that what is not programmed yet is still on its list.
  `RestoreIsDurableHolds`, without any assumption: `Shared` says who may hold the bus and
  the pin, and `RestoreProgress` that TaskMain has nothing to do while a restore that
  began with an empty mailbox goes on, with the same list for the HTTP thread's load.
  `Refinement`: under the assumptions of `PatientSavesAreKept` `ConfigStore` implements
  `SettingsStore`.  It rests on `IInv`, on `ListInv` (what is left to write belongs to
  the group under way) and on `OutsideOpen`: a cell that is not safe is in the open
  group.  From there each step is a change, a save, a restart or a stutter.
  `PassDescendsHolds`, without any assumption: outside its loop each step of TaskMain
  leaves less of the pass, two steps for each cell at most, for no transfer is tried
  twice; and only TaskMain and a reset have a say in where it is.
* `EvtQueue_proofs`.  `TypeCorrect`, `CopyNeverTorn` and `Refinement`, for every
  depth, width and set of bytes.  `IInv` adds to the two invariants that tail is zero until
  `Evt_InitQueue` is done, so that its store to tail takes no event away that its store
  to head leaves.
  The refinement maps each step of the ring to a step of `BoundedFifo` or a stutter.
* `EepromPages_proofs`.  `CellOnly` and `OkMeansStored`, for every page size, chip
  size and cell.  `IInv` adds `Progress`: how far the loop is and that what it has
  passed is stored.  The arithmetic is that a transfer which ends at the page's end
  never wraps (`Landing` is then the plain address).
  `Refinement`: `EepromPages` implements `CellWrite`, from `IInv` and the same
  arithmetic.  A transfer, a failed one and a reset inside one are `Part` or `Break`;
  `Return` is `Complete`, because `OkIsComplete` says so of the step before.
  `CallDescendsHolds`: a call of n bytes has 2n + 1 steps at most.

* `FrontPanel_proofs`.  `TypeCorrect`, `ReportCountsPressesHolds` and
  `LongIffHeldHolds` for all time-outs.  `KeyInv` ties the key's record to its history:
  what `KeyboardInit` may leave behind when the interrupt comes between its stores
  (`FlagInv`, `LogInv`), that the rest of the record is forgotten once the key was left
  alone (`QuietInv`), and from then on that `click` and `duration` are the presses and
  the time they stand for (`SettledInv`).  `EventsApartHolds` assumes `ToShort <= 4`
  (the code's is 3): with 5 three quick clicks are faster than the time-out, and TLC
  finds them.  `ApartInv` ties the gap to the record, from the moment `KeyboardInit`
  is done, when it has left no click behind.
  `NoKeyLostHolds` assumes `QueueFits`: `ToShort <= 4`, no more keys than `Gap`, and
  places enough for the lag.  The argument is one of credit.  A key saves one for each
  silent sample, up to `Gap - 1`, and pays all of it for an event; an event in the queue
  counts `Gap`.  `RateInv` says that what the queue holds and what the keys have saved
  never exceed what the keys had at first and what the samples TaskGUI is behind
  brought; `CreditCount` counts the savings as the cardinality of a set of pairs, for a
  sum over the keys would need an induction over an operator.  `QueueFits` holds of the
  firmware's four keys and seven places with a lag of three samples; with four it fails.
  `PressIsToldSoonHolds`: while a press is untold each sample tells of it or leaves less
  of the `2 * ToShort + 3 * ToLong` samples (1.05 s) it can take; the key's own code
  decides, whatever TaskGUI and the other keys do.
* `WavPlayer_proofs`.  `FillsTheOtherHalfHolds`, `PlaysInOrderHolds` and
  `OnlyLastPieceCutHolds` for files of any length and any number of sticks.
  `PlayerInv` says which piece is in which half at each place of the task (`PieceInv`),
  and when the stream runs and a semaphore is given (`DmaInv`, `PlaceInv`).
  `PlaybackDescendsHolds`: each step of the player leaves less of the file or stops the
  stream, late or not, and so does each half that is played in time, 3n + 5 steps for
  n pieces at most; sticks and the USB thread stop it or add nothing.
* `Clock_proofs`.  `OneWriterHolds`, `ReadIsOneInstantHolds`,
  `UndisturbedSetIsExactHolds` for every calendar, zone, request and number of
  requests, disturbances and hours.  The lock needs no atomic macro because whoever
  comes between its test and its assignment has a higher priority and is done before
  the assignment: `LockInv` says that the HTTP thread holds nothing while TaskNTP is
  about to lock.  `CleanInv` follows an undisturbed setter from call to call.
  `TypeCorrect` rests on `HourRegisterRange`, what the register shows of any byte.
  `DaysFollowTheDateHolds`: `NextDayAhead` for the step from any date to the next,
  month and year ends included, then an induction over the days, made with the
  well-foundedness of the naturals (the induction theorem takes an operator).
* `MqttLink_proofs`.  `SessionIsRealHolds` and `AckedIsStoredHolds` for any number of
  publications, messages, netconns and faults.  `LinkInv` is made of the lock
  (`LockInv`), of what a side may believe of the connection (`SessionInv`), of the
  numbers (`NumberInv`), and of `OneInv`: on a connection nothing was torn of, of the
  publication that is under way there is one packet, or its acknowledgement, or it has
  been read, and never two of them.  That is why `waitfor`, which compares no
  identifiers, cannot take an old acknowledgement for a new one.

The assumptions on constants are the named `ASSUME`s of the modules; TLC evaluates
each of them in a run.

Every safety invariant, action property and refinement of the passing runs is proved.
Only model-checked are the liveness properties, for fairness and ENABLED are out of the
prover's reach: `EventuallySaved`, `MainReturns`, `EveryEventIsTaken`,
`EveryPressIsReported`, `ClockRecovers`, `CallsReturn`, `PublishReturns`, `Reconnects`,
`PlaybackEnds`.  Of four of them the half that speaks of steps is proved: `PassDescends`
for `MainReturns`, `CallDescends` for `CallsReturn`, `PlaybackDescends` for
`PlaybackEnds`, `PressIsToldSoon` for `EveryPressIsReported` say that no step goes
round; that a step can be taken and is taken is what TLC adds.

## 5. What is not modelled

* The contents of settings: a cell holds the number of the request that set it, or
  one of five markers.  Parsing, formatting, pages, logging and drawing are left out.
* Cases 5, 7, 22, 37 and 38 of `Telemetry_save`: no code in the build posts them
  (`setFreq` would post 7, but copies five digits and asks for a number of six).  The
  MQTT handlers would post codes too, but test for a prefix (`XT/cmd/`) that the
  subscription (`RXNSTL/cmd/`) never delivers.
* A group of cells is not saved as a whole: a reset between two cells leaves some new
  and some old, and `SettingsStore` promises no more than that.  `setRF` is not saved at all, and RDS_TP and RDS_CT cannot be: the
  model keeps these cells in `Volatile`, and the durability properties except them.
* The order in which the compiler stores `tail` after the copy in `Evt_DeQueue`: the
  copy goes through a volatile-free struct, and the model takes program order.  The two
  stores of `Evt_InitQueue` are taken in either order.
* The last half-buffer of a file is cut: the read that finds no more data stops the
  stream.  `OnlyLastPieceCut` says that this is all that is lost.
* In `MqttLink`: the keep-alive ping (a publication every second or so keeps both
  of its timers from running out, and a silent broker fails the publication first),
  QOS2 (used for alarms only, and nothing in the build fills their queue), the
  length of the back-off, the token, the message handlers, and `c->buf`, into which
  the subscriber may serialise a PUBACK while the publisher's packet is being sent.
* Two arrays that only grow or only wait: `topic_sub` is allocated at each connection
  of the MQTT link and never freed (`mqtt_paho.c:237`), and the alarm queue that the
  publisher empties is filled by nobody.
* In `Clock`: minutes and seconds, which go the way of the hour; the weekday; a date
  that does not exist; a `cfg.Timezone` beyond the 25 entries of `fuso_offset`, which
  reads behind the table; `uptime.total` and `TimeInicio.total`; the UDP exchange of
  `ntp_get_time`, of which the model has the answer.
* RDS, SNMP, GUI, buzzer, remote inputs: see `PROJECT.json`.

## 6. Plan

Done, with their proofs: `SettingsStore` and `ConfigStore`, `BoundedFifo` and `EvtQueue`,
`CellWrite` and `EepromPages`,
`PushButton` and `FrontPanel`, `WavPlayer`, `Clock`, `MqttLink`.

What is left, in this order:

1. `MqttLink`: the shared send buffer `c->buf`, into which the subscriber serialises an
   acknowledgement while the publisher's packet is being sent; the keep-alive.
2. `HttpAccess`: the access level that all clients of the HTTP server share.
