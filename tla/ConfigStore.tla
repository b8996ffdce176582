---------------------------- MODULE ConfigStore ----------------------------
(***************************************************************************)
(* The settings of the receiver: a copy in RAM (cfg, rds, adv, Profile,    *)
(* lic), a copy in the I2C EEPROM, and the one-byte mailbox flag_telemetry *)
(* through which the HTTP thread asks TaskMain to save a group of cells.   *)
(*                                                                         *)
(* TaskMain has the higher priority and blocks only in osDelay: 10 ms      *)
(* between two passes of its loop ("loop") and EEPROM_WRITE_DELAY after a  *)
(* page it wrote ("wait").  The HTTP thread runs only then, and TaskMain   *)
(* may pre-empt it between any two of its steps, an I2C transfer included. *)
(* Nothing guards hi2c1 or flag_telemetry: MutexI2C is not taken by the    *)
(* functions that are called.                                              *)
(*                                                                         *)
(* A cell is one EEPROM_Write: the pages a long cell spans are the         *)
(* business of module EepromPages.                                         *)
(***************************************************************************)
EXTENDS Integers, Sequences

CONSTANTS
    Requests,     \* the handlers the client calls, a subset of HandlerNames
    Patient,      \* TRUE: the client waits until what it saved is durable
    RestoreAlone, \* TRUE: it restores the factory settings only while no code is
                  \* pending, as code 12 is from a setNetwork to the next save
    ResetInLoad,  \* TRUE: a reset may interrupt the default load of the boot
    MaxReq,       \* bound: requests of a behaviour, and the values they carry
    MaxReset,     \* bound: resets of a behaviour
    MaxFault      \* bound: I2C transfers the hardware fails

HandlerNames ==
    {"setTime", "setNetwork", "setSNMP", "setPassword", "setStationProfile",
     "setConfigHold", "setAUDIOVOL", "setALARMMPX", "setAUDIO", "setAdvSet",
     "setService", "setSN", "setRF", "ClearLicense", "resetpassword",
     "SaveToken", "SaveBroker", "RFState", "SetRestoreFactory"}

ASSUME ConstantsAssumption ==
    /\ Requests \subseteq HandlerNames
    /\ Patient \in BOOLEAN /\ RestoreAlone \in BOOLEAN /\ ResetInLoad \in BOOLEAN
    /\ MaxReq \in Nat /\ MaxReset \in Nat /\ MaxFault \in Nat

(***************************************************************************)
(* Contents of a cell: the number of the request that set it, or one of    *)
(***************************************************************************)
Default == 0     \* what Carrega_Prog_Default stores
Erased  == -1    \* 0xFF, an EEPROM byte never written
Older   == -2    \* written by a firmware of another PRG_REVISION
Unset   == -3    \* RAM as the C start-up code or StartTaskMain leaves it
Foreign == -4    \* bytes of another cell, written over it
Values  == -4..MaxReq

\* Carrega_Prog_Default's EEPROM_Write calls, in their order.
DefaultSeq ==
    <<"ID", "REV", "MODEL", "SERV", "MODO",
      "PROCESSOR", "EMPHASE", "AES192", "AUDIO", "VOLMPX1", "VOLMPX2",
      "TIMERON", "TIMEROFF", "LEVELON", "LEVELOFF", "VOLPHONE", "FREQ",
      "SNMP", "PORTWEB", "IPADDR", "MASKADDR", "GWADDR", "DNSADDR",
      "CONFIGNTP", "TIMEZONE", "PASSADMIN", "PASSUSER", "CONFIGHOLD",
      "RDS_ENABLE", "RDS_EN_STATION", "RDS_EN_TEXT", "RDS_MS", "RDS_PTY",
      "RDS_TP", "RDS_TYPE", "RDS_CT", "RDS_PI", "RDS_AF", "RDS_PS",
      "RDS_TPS", "RDS_PTYN", "RDS_DYN", "RDS_RT",
      "ADV_RSSI1", "ADV_RSSI2", "ADV_MPX", "ADV_LEFT", "ADV_RIGHT",
      "PROF_STATION", "PROF_CITY", "PROF_STATE", "PROF_COUNTRY",
      "CFG_BW", "CFG_ATN">>

Elems(s) == {s[i] : i \in 1..Len(s)}

DefaultCells == Elems(DefaultSeq)
LicenseCells == {"SN", "LIC", "LIC_SEQ", "TMR_LIC"}   \* Read_Enviroment
Cells        == DefaultCells \cup LicenseCells

\* Cells whose addresses overlap: RDS_PI is written with four bytes at 128,
\* RDS_TP is the byte at 130 and RDS_CT the one at 131.
Clobbered == {"RDS_TP", "RDS_CT"}
Overlaps(c) == IF c = "RDS_PI" THEN Clobbered
               ELSE IF c \in Clobbered THEN {"RDS_PI"} ELSE {}

\* Telemetry_save: the cells case `code` writes, in its order.
SaveSeq(code) ==
    CASE code = 2  -> <<"PROCESSOR", "EMPHASE", "AES192", "AUDIO">>
      [] code = 4  -> <<"CONFIGNTP", "TIMEZONE">>
      [] code = 6  -> <<"VOLMPX1", "VOLMPX2", "VOLPHONE">>
      [] code = 9  -> <<"PASSADMIN", "PASSUSER">>
      [] code = 10 -> <<"CONFIGHOLD">>
      [] code = 11 -> <<"ADV_RSSI1", "ADV_RSSI2", "ADV_MPX", "ADV_LEFT",
                        "ADV_RIGHT">>
      [] code = 12 -> <<"SNMP", "PORTWEB", "IPADDR", "MASKADDR", "GWADDR",
                        "DNSADDR">>
      [] code = 17 -> <<"SN">>
      [] code = 19 -> <<"SERV">>
      [] code = 27 -> <<"PROF_STATION", "PROF_CITY", "PROF_STATE",
                        "PROF_COUNTRY">>
      [] code = 28 -> <<"LIC", "LIC_SEQ", "TMR_LIC">>
      [] code = 31 -> <<"SNMP">>
      [] code = 33 -> <<"TIMERON", "TIMEROFF", "LEVELON", "LEVELOFF">>
      [] OTHER     -> <<>>

\* Mutated: every case ends with `flag_telemetry = 0`.
FlagAfterAlwaysZero(code, current) == 0

\* Mutated: every case chains to 22, as the RDS case 5 does.
FlagAfterChains(code, current) == IF code = 12 THEN current ELSE 22

\* flag_telemetry when case `code` ends: case 12 has no `flag_telemetry = 0`.
FlagAfter(code, current) == IF code = 12 THEN current ELSE 0

\* What a handler does to the settings: the cells it assigns, in its order, and the
\* code it posts.  setRF posts none; SaveToken, SaveBroker and RFState only post.
setTime     == [code |-> 4, cells |-> <<"CONFIGNTP", "TIMEZONE">>]
setNetwork  == [code |-> 12, cells |-> <<"IPADDR", "MASKADDR", "GWADDR", "DNSADDR",
                                         "PORTWEB">>]
setSNMP     == [code |-> 31, cells |-> <<"SNMP">>]
SaveToken   == [code |-> 25, cells |-> <<>>]
SaveBroker  == [code |-> 29, cells |-> <<>>]
setPassword == [code |-> 9, cells |-> <<"PASSADMIN", "PASSUSER">>]
setStationProfile ==
    [code |-> 27, cells |-> <<"PROF_STATION", "PROF_CITY", "PROF_STATE",
                              "PROF_COUNTRY">>]
setConfigHold == [code |-> 10, cells |-> <<"CONFIGHOLD">>]
RFState       == [code |-> 1, cells |-> <<>>]
setAUDIOVOL   == [code |-> 6, cells |-> <<"VOLMPX1", "VOLMPX2", "VOLPHONE">>]
setALARMMPX   == [code |-> 33, cells |-> <<"LEVELON", "TIMERON", "LEVELOFF",
                                           "TIMEROFF">>]
setAUDIO      == [code |-> 2, cells |-> <<"EMPHASE", "PROCESSOR", "AES192">>]
setAdvSet     == [code |-> 11, cells |-> <<"ADV_RSSI1", "ADV_RSSI2", "ADV_MPX",
                                           "ADV_LEFT", "ADV_RIGHT">>]
setService    == [code |-> 19, cells |-> <<"SERV">>]
setSN         == [code |-> 17, cells |-> <<"SN">>]
setRF         == [code |-> 0, cells |-> <<"CFG_BW", "CFG_ATN">>]
ClearLicense  == [code |-> 28, cells |-> <<"LIC_SEQ", "TMR_LIC", "LIC">>]
resetpassword == [code |-> 253, cells |-> <<>>]
NoSettings    == [code |-> 0, cells |-> <<>>]

\* The handler of a request; SetRestoreFactory saves itself.
Handler(h) ==
    CASE h = "setTime" -> setTime          [] h = "setNetwork" -> setNetwork
      [] h = "setSNMP" -> setSNMP          [] h = "SaveToken" -> SaveToken
      [] h = "SaveBroker" -> SaveBroker    [] h = "setPassword" -> setPassword
      [] h = "setStationProfile" -> setStationProfile
      [] h = "setConfigHold" -> setConfigHold
      [] h = "RFState" -> RFState          [] h = "setAUDIOVOL" -> setAUDIOVOL
      [] h = "setALARMMPX" -> setALARMMPX  [] h = "setAUDIO" -> setAUDIO
      [] h = "setAdvSet" -> setAdvSet      [] h = "setService" -> setService
      [] h = "setSN" -> setSN              [] h = "setRF" -> setRF
      [] h = "ClearLicense" -> ClearLicense
      [] h = "resetpassword" -> resetpassword
      [] OTHER -> NoSettings

CodeOf(h) == Handler(h).code
SetSeq(h) == Handler(h).cells

\* What the n-th request stores in a cell: ClearLicense stores fixed values.
NewValue(h, c, n) ==
    IF h # "ClearLicense" THEN n ELSE IF c = "LIC" THEN Erased ELSE Default

\* Handlers that drive AD5242 and TPA6130, on the EEPROM's bus, then post.
UsesI2C(h) == h \in {"setAUDIO", "setAUDIOVOL"}

-----------------------------------------------------------------------------
VARIABLES
    ram,     \* cfg, rds, adv, Profile, lic
    eep,     \* the EEPROM
    flag,    \* flag_telemetry
    main,    \* TaskMain: pc, the case it serves, the cells it has yet to write
    http,    \* HTTP thread: pc, the handler, its cells to go, its number
    cycle,   \* whose page the EEPROM is programming: "none", "main", "http"
    protect, \* EEPROM_HOLD: TaskMain raised it inside the HTTP thread's EEPROM_Write
    quiet,   \* history: the mailbox was empty when the current request began
    reqs, resets, faults        \* counters, bounded by the Max constants

vars == <<ram, eep, flag, main, http, cycle, protect, quiet, reqs, resets, faults>>

Load == 256                    \* main.code of the boot's default load
MainIdle(pc) == [pc |-> pc, code |-> 0, todo |-> <<>>]
HttpIdle == [pc |-> "idle", h |-> "none", todo |-> <<>>, n |-> 0]

\* The RAM at start-up: zeroed, then License, LicSeq and licenseTimer are set.
PowerUpRam ==
    [c \in Cells |-> IF c = "LIC" THEN Erased
                     ELSE IF c \in {"LIC_SEQ", "TMR_LIC"} THEN Default
                     ELSE Unset]

\* ReadConfig brings LicSeq and licenseTimer back into their range.
Clamp(c, v) == IF c \in {"LIC_SEQ", "TMR_LIC"} /\ v = Erased THEN Default ELSE v

\* A new EEPROM, one programmed by this firmware, or by an older one.
BlankEeprom == [c \in Cells |-> Erased]
ProgrammedEeprom ==
    [c \in Cells |-> IF c \in Clobbered THEN Foreign
                     ELSE IF c \in DefaultCells \cup {"SN"} THEN Default
                     ELSE Erased]
OlderEeprom ==
    [c \in Cells |-> IF c = "ID" THEN Default
                     ELSE IF c \in DefaultCells THEN Older ELSE Erased]

Init == /\ eep \in {BlankEeprom, ProgrammedEeprom, OlderEeprom}
        /\ ram = PowerUpRam
        /\ flag = 0
        /\ main = MainIdle("boot")
        /\ http = HttpIdle
        /\ cycle = "none" /\ protect = FALSE /\ quiet = FALSE
        /\ reqs = 0 /\ resets = 0 /\ faults = 0

HeaderValid(m) == m["ID"] = Default /\ m["REV"] = Default /\ m["MODEL"] = Default

\* Cells whose RAM contents a restart would not bring back.
Unsaved == {c \in Cells : Clamp(c, ram[c]) # Clamp(c, eep[c])}

\* Cells the EEPROM does not keep: setRF posts no code, so its cells change in RAM
\* only, and RDS_PI is written over the two beside it.
Volatile == Elems(SetSeq("setRF")) \cup Clobbered

\* The EEPROM after cell c was written from RAM.
Written(c) == [d \in Cells |-> IF d = c THEN ram[c]
                               ELSE IF d \in Overlaps(c) THEN Foreign ELSE eep[d]]

CanFault == faults < MaxFault

-----------------------------------------------------------------------------
(***************************************************************************)
(* TaskMain.                                                               *)
(***************************************************************************)

\* Mutated: the revision of the header is not compared.
BootReadAnyRevision ==
    /\ main.pc = "boot" /\ eep["ID"] = Default
    /\ ram' = [c \in Cells |-> Clamp(c, eep[c])]
    /\ main' = MainIdle("loop")
    /\ UNCHANGED <<eep, flag, http, cycle, protect, reqs, quiet, resets, faults>>

\* A good header: Read_Profile, ReadConfig.  One transfer in all may fail, and
\* leaves its cell as it was: zero is MODELO, 0xFFFF neither 0x55AA nor the
\* revision, so a failed ID or REV read looks like a new EEPROM.
BootRead ==
    /\ main.pc = "boot"
    /\ \E bad \in {{}} \cup (IF CanFault THEN {{c} : c \in Cells} ELSE {}) :
         /\ HeaderValid(eep) /\ bad \cap {"ID", "REV"} = {}
         /\ ram' = [c \in Cells |->
                      IF c \notin bad THEN Clamp(c, eep[c])
                      ELSE IF c = "MODEL" THEN Default ELSE ram[c]]
         /\ faults' = IF bad = {} THEN faults ELSE faults + 1
    /\ main' = MainIdle("loop")
    /\ UNCHANGED <<eep, flag, http, cycle, protect, reqs, quiet, resets>>

\* Any other header: Carrega_Prog_Default, its RAM part.
BootDefaults ==
    /\ main.pc = "boot"
    /\ \/ ~HeaderValid(eep) /\ UNCHANGED faults
       \/ HeaderValid(eep) /\ CanFault /\ faults' = faults + 1
    /\ ram' = [c \in Cells |-> IF c \in DefaultCells THEN Default ELSE ram[c]]
    /\ main' = [pc |-> "save", code |-> Load, todo |-> DefaultSeq]
    /\ UNCHANGED <<eep, flag, http, cycle, protect, reqs, quiet, resets>>

\* Telemetry_save picks up the mailbox.
TelemetryPick ==
    /\ main.pc = "loop" /\ flag # 0
    /\ main' = [pc |-> "save", code |-> flag, todo |-> SaveSeq(flag)]
    /\ UNCHANGED <<ram, eep, flag, http, cycle, protect, reqs, quiet, resets, faults>>

\* The HTTP thread is in an EEPROM_Write that has not ended its transfer.
RestoreWriting == http.pc = "restore" /\ http.todo # <<>>

\* EEPROM_Write of the next cell: then EEPROM_WRITE_DELAY.  It leaves EEPROM_HOLD
\* high, as every EEPROM_Write does once its transfer is over.
MainWriteOk ==
    /\ main.pc = "save" /\ main.todo # <<>> /\ cycle = "none"
    /\ eep' = Written(Head(main.todo))
    /\ main' = [main EXCEPT !.pc = "wait", !.todo = Tail(@)]
    /\ cycle' = "main"
    /\ protect' = (protect \/ RestoreWriting)
    /\ UNCHANGED <<ram, flag, http, reqs, quiet, resets, faults>>

\* The HTTP thread was pre-empted inside a transfer (HAL_BUSY), or the EEPROM
\* is still programming its page (no acknowledge).
MainContended == \/ http.pc = "bus"
                 \/ RestoreWriting
                 \/ cycle # "none"

\* A failed EEPROM_Write returns at once and its status is not looked at; it leaves
\* EEPROM_HOLD high too.
MainWriteFail ==
    /\ main.pc = "save" /\ main.todo # <<>>
    /\ \/ MainContended /\ UNCHANGED faults
       \/ CanFault /\ faults' = faults + 1
    /\ main' = [main EXCEPT !.todo = Tail(@)]
    /\ protect' = (protect \/ RestoreWriting)
    /\ UNCHANGED <<ram, eep, flag, http, cycle, reqs, quiet, resets>>

MainWake ==
    /\ main.pc = "wait"
    /\ main' = [main EXCEPT !.pc = "save"]
    /\ cycle' = IF cycle = "main" THEN "none" ELSE cycle
    /\ UNCHANGED <<ram, eep, flag, http, protect, reqs, quiet, resets, faults>>

\* The boot's default load is over: Read_Enviroment, the stack is started.
LoadDone ==
    /\ main.pc = "save" /\ main.code = Load /\ main.todo = <<>>
    /\ \E bad \in {{}} \cup (IF CanFault THEN {{c} : c \in LicenseCells} ELSE {}) :
         /\ ram' = [c \in Cells |-> IF c \in LicenseCells \ bad THEN eep[c]
                                    ELSE ram[c]]
         /\ faults' = IF bad = {} THEN faults ELSE faults + 1
    /\ main' = MainIdle("loop")
    /\ UNCHANGED <<eep, flag, http, cycle, protect, reqs, quiet, resets>>

\* Mutated: Telemetry_save goes on until the mailbox is empty.
SaveDoneAgain ==
    /\ main.pc = "save" /\ main.code \notin {Load, 253} /\ main.todo = <<>>
    /\ flag' = FlagAfter(main.code, flag)
    /\ main' = IF flag' = 0 THEN MainIdle("loop")
               ELSE [pc |-> "save", code |-> flag', todo |-> SaveSeq(flag')]
    /\ UNCHANGED <<ram, eep, http, cycle, protect, reqs, quiet, resets, faults>>

\* Mutated: a case is repeated at once until the EEPROM has its cells.
SaveDoneWhenSaved ==
    /\ main.pc = "save" /\ main.code \notin {Load, 253} /\ main.todo = <<>>
    /\ IF \E c \in Elems(SaveSeq(main.code)) : eep[c] # ram[c]
       THEN main' = [main EXCEPT !.todo = SaveSeq(main.code)] /\ UNCHANGED flag
       ELSE main' = MainIdle("loop") /\ flag' = FlagAfter(main.code, flag)
    /\ UNCHANGED <<ram, eep, http, cycle, protect, reqs, quiet, resets, faults>>

\* The case served is over.
SaveDone ==
    /\ main.pc = "save" /\ main.code \notin {Load, 253} /\ main.todo = <<>>
    /\ flag' = FlagAfter(main.code, flag)
    /\ main' = MainIdle("loop")
    /\ UNCHANGED <<ram, eep, http, cycle, protect, reqs, quiet, resets, faults>>

\* Case 253, reset_password: the factory passwords, then two EEPROM_Read over
\* them; a read that fails leaves the factory password in RAM.
ResetPassword ==
    /\ main.pc = "save" /\ main.code = 253
    /\ \E bad \in SUBSET {"PASSADMIN", "PASSUSER"} :
         /\ \/ MainContended /\ UNCHANGED faults
            \/ ~MainContended /\ bad = {} /\ UNCHANGED faults
            \/ CanFault /\ bad # {} /\ faults' = faults + 1
         /\ ram' = [c \in Cells |-> IF c \in bad THEN Default
                                    ELSE IF c \in {"PASSADMIN", "PASSUSER"}
                                    THEN eep[c] ELSE ram[c]]
    /\ flag' = 0
    /\ main' = MainIdle("loop")
    /\ UNCHANGED <<eep, http, cycle, protect, reqs, quiet, resets>>

-----------------------------------------------------------------------------
(***************************************************************************)
(* The HTTP thread.                                                        *)
(***************************************************************************)
MainBlocked == main.pc \in {"loop", "wait"} /\ main.code # Load

\* All that was asked for is durable and no save but case 12 is under way: case
\* 12 is served again in every pass once it was posted.
Settled == /\ flag \in {0, 12} /\ main.code \in {0, 12}
           /\ Unsaved \subseteq Volatile

\* Mutated: the factory settings start from zeroes and forget cfg.prg_rev.
HttpRequestNoRevision ==
    /\ http.pc = "idle" /\ MainBlocked /\ reqs < MaxReq
    /\ reqs' = reqs + 1 /\ quiet' = (flag = 0)
    /\ \E h \in Requests :
         /\ Patient => Settled
         /\ RestoreAlone /\ h = "SetRestoreFactory" => flag = 0
         /\ IF h = "SetRestoreFactory"
            THEN /\ http' = [pc |-> "restore", h |-> h, todo |-> DefaultSeq,
                             n |-> reqs']
                 /\ ram' = [c \in Cells |-> IF c = "REV" THEN Unset
                                            ELSE IF c \in DefaultCells THEN Default
                                            ELSE ram[c]]
            ELSE /\ http' = [pc |-> "set", h |-> h, todo |-> SetSeq(h),
                             n |-> reqs']
                 /\ UNCHANGED ram
    /\ UNCHANGED <<eep, flag, main, cycle, protect, resets, faults>>

\* http_server_serve takes the next request: a handler that assigns cells, or
\* Carrega_Prog_Default, its RAM part.
HttpRequest ==
    /\ http.pc = "idle" /\ MainBlocked /\ reqs < MaxReq
    /\ reqs' = reqs + 1 /\ quiet' = (flag = 0)
    /\ \E h \in Requests :
         /\ Patient => Settled
         /\ RestoreAlone /\ h = "SetRestoreFactory" => flag = 0
         /\ IF h = "SetRestoreFactory"
            THEN /\ http' = [pc |-> "restore", h |-> h, todo |-> DefaultSeq,
                             n |-> reqs']
                 /\ ram' = [c \in Cells |-> IF c \in DefaultCells THEN Default
                                            ELSE ram[c]]
            ELSE /\ http' = [pc |-> "set", h |-> h, todo |-> SetSeq(h),
                             n |-> reqs']
                 /\ UNCHANGED ram
    /\ UNCHANGED <<eep, flag, main, cycle, protect, resets, faults>>

HttpSet ==
    /\ http.pc = "set" /\ MainBlocked /\ http.todo # <<>>
    /\ LET c == Head(http.todo)
       IN  ram' = [ram EXCEPT ![c] = NewValue(http.h, c, http.n)]
    /\ http' = [http EXCEPT !.todo = Tail(@)]
    /\ UNCHANGED <<eep, flag, main, cycle, protect, reqs, quiet, resets, faults>>

\* UpdateValores, or the volume writes: hi2c1 is in use from here to the post.
HttpBus ==
    /\ http.pc = "set" /\ MainBlocked /\ http.todo = <<>> /\ UsesI2C(http.h)
    /\ http' = [http EXCEPT !.pc = "bus"]
    /\ UNCHANGED <<ram, eep, flag, main, cycle, protect, reqs, quiet, resets, faults>>

\* Mutated: a code is dropped while another one is pending.
HttpPostIfFree ==
    /\ MainBlocked /\ http.todo = <<>>
    /\ http.pc = IF UsesI2C(http.h) THEN "bus" ELSE "set"
    /\ flag' = IF http.h = "setRF" \/ flag # 0 THEN flag ELSE CodeOf(http.h)
    /\ http' = HttpIdle
    /\ UNCHANGED <<ram, eep, main, cycle, protect, reqs, quiet, resets, faults>>

\* The handler's last statement; setRF has none.
HttpPost ==
    /\ MainBlocked /\ http.todo = <<>>
    /\ http.pc = IF UsesI2C(http.h) THEN "bus" ELSE "set"
    /\ flag' = IF http.h = "setRF" THEN flag ELSE CodeOf(http.h)
    /\ http' = HttpIdle
    /\ UNCHANGED <<ram, eep, main, cycle, protect, reqs, quiet, resets, faults>>

\* Mutated: the load does not wait EEPROM_WRITE_DELAY after a page.
RestoreWriteNoDelay ==
    /\ http.pc = "restore" /\ MainBlocked /\ http.todo # <<>>
    /\ cycle = "none"
    /\ eep' = Written(Head(http.todo))
    /\ http' = [http EXCEPT !.todo = Tail(@)]
    /\ cycle' = "http" /\ protect' = FALSE
    /\ UNCHANGED <<ram, flag, main, reqs, quiet, resets, faults>>

\* Carrega_Prog_Default in the HTTP thread: the EEPROM_Write of the next cell, which
\* begins by lowering EEPROM_HOLD.
RestoreWriteOk ==
    /\ http.pc = "restore" /\ MainBlocked /\ http.todo # <<>>
    /\ cycle = "none"
    /\ eep' = Written(Head(http.todo))
    /\ http' = [http EXCEPT !.pc = "rwait", !.todo = Tail(@)]
    /\ cycle' = "http" /\ protect' = FALSE
    /\ UNCHANGED <<ram, flag, main, reqs, quiet, resets, faults>>

RestoreWriteFail ==
    /\ http.pc = "restore" /\ MainBlocked /\ http.todo # <<>>
    /\ \/ cycle # "none" /\ UNCHANGED faults
       \/ CanFault /\ faults' = faults + 1
    /\ http' = [http EXCEPT !.todo = Tail(@)]
    /\ protect' = FALSE
    /\ UNCHANGED <<ram, eep, flag, main, cycle, reqs, quiet, resets>>

\* TaskMain raised EEPROM_HOLD before this transfer was over: the EEPROM takes the
\* bytes, the transfer returns HAL_OK, and nothing is stored.
RestoreWriteLost ==
    /\ http.pc = "restore" /\ MainBlocked /\ http.todo # <<>>
    /\ cycle = "none" /\ protect
    /\ http' = [http EXCEPT !.pc = "rwait", !.todo = Tail(@)]
    /\ protect' = FALSE
    /\ UNCHANGED <<ram, eep, flag, main, cycle, reqs, quiet, resets, faults>>

RestoreWake ==
    /\ http.pc = "rwait" /\ MainBlocked
    /\ http' = [http EXCEPT !.pc = "restore"]
    /\ cycle' = IF cycle = "http" THEN "none" ELSE cycle
    /\ UNCHANGED <<ram, eep, flag, main, protect, reqs, quiet, resets, faults>>

RestoreDone ==
    /\ http.pc = "restore" /\ MainBlocked /\ http.todo = <<>>
    /\ http' = HttpIdle
    /\ UNCHANGED <<ram, eep, flag, main, cycle, protect, reqs, quiet, resets, faults>>

-----------------------------------------------------------------------------
(***************************************************************************)
(* The EEPROM finishes its page before the writer's delay is over; the     *)
(* watchdog, the reboot request or the power supply restarts the firmware. *)
(***************************************************************************)
CycleEnds ==
    /\ cycle # "none" /\ cycle' = "none"
    /\ UNCHANGED <<ram, eep, flag, main, http, protect, reqs, quiet, resets, faults>>

Reset ==
    /\ resets < MaxReset /\ resets' = resets + 1
    /\ main.code = Load => ResetInLoad
    /\ ram' = PowerUpRam /\ flag' = 0 /\ cycle' = "none" /\ protect' = FALSE
    /\ main' = MainIdle("boot") /\ http' = HttpIdle
    /\ UNCHANGED <<eep, reqs, quiet, faults>>

\* The RTOS keeps TaskMain's loop running for ever.
Quiescent ==
    /\ main.pc = "loop" /\ flag = 0 /\ http.pc = "idle" /\ cycle = "none"
    /\ UNCHANGED vars

MainStep == \/ BootRead \/ BootDefaults \/ TelemetryPick \/ MainWriteOk
            \/ MainWriteFail \/ MainWake \/ LoadDone \/ SaveDone \/ ResetPassword
HttpStep == \/ HttpSet \/ HttpBus \/ HttpPost \/ RestoreWriteOk
            \/ RestoreWriteFail \/ RestoreWriteLost \/ RestoreWake \/ RestoreDone

Next == MainStep \/ HttpStep \/ HttpRequest \/ CycleEnds \/ Reset \/ Quiescent

\* TaskMain's delays end and it has the higher priority; it sleeps in every
\* pass, which is when the HTTP thread runs; the EEPROM's cycle is timed by the
\* chip.  Requests, resets and faults are under no obligation.
Fairness == WF_vars(MainStep) /\ SF_vars(HttpStep) /\ WF_vars(CycleEnds)

Spec == Init /\ [][Next]_vars /\ Fairness

-----------------------------------------------------------------------------
(***************************************************************************)
(* Properties.                                                             *)
(***************************************************************************)

Codes == {0, 1, 2, 4, 6, 9, 10, 11, 12, 17, 19, 25, 27, 28, 29, 31, 33, 253}

\* The mailbox holds nothing but the codes handlers post, every cell a value
\* somebody stored, and TaskMain serves a posted code or the default load.
TypeOK ==
    /\ ram \in [Cells -> Values] /\ eep \in [Cells -> Values]
    /\ flag \in Codes
    /\ main \in [pc : {"boot", "loop", "save", "wait"},
                 code : Codes \cup {Load}, todo : Seq(Cells)]
    /\ http \in [pc : {"idle", "set", "bus", "restore", "rwait"},
                 h : HandlerNames \cup {"none"}, todo : Seq(Cells),
                 n : 0..MaxReq]
    /\ cycle \in {"none", "main", "http"}
    /\ protect \in BOOLEAN /\ quiet \in BOOLEAN
    /\ reqs \in 0..MaxReq /\ resets \in 0..MaxReset /\ faults \in 0..MaxFault

\* Cells somebody is still going to write: TaskMain in the case it serves or for
\* the code that is posted, the HTTP thread itself or by the code it will post.
Pending ==
    Elems(SaveSeq(flag)) \cup Elems(main.todo)
      \cup Elems(http.todo) \cup Elems(SaveSeq(CodeOf(http.h)))
      \cup IF main.code = Load THEN LicenseCells ELSE {}

\* In a default load RDS_PI is written after the cells it overlaps.
PILast(todo) ==
    \A i \in 1..Len(todo) :
      todo[i] \in Clobbered => \E j \in i + 1..Len(todo) : todo[j] = "RDS_PI"

\* The inductive invariant behind SavesAreKept, for a patient client that restores
\* alone, on a healthy bus.  Who is where: the HTTP thread works while TaskMain is
\* idle or repeats case 12, a restore only while it is idle; any other case is served
\* with its code still in the mailbox; the EEPROM is busy only while its writer waits.
Places ==
    /\ main.pc \in {"boot", "loop"} <=> main.code = 0
    /\ main.pc \in {"boot", "loop"} => main.todo = <<>>
    /\ main.pc = "boot" => http.pc = "idle"
    /\ http.pc # "idle" => /\ flag \in {0, 12} /\ main.code \in {0, 12}
                           /\ http.h \in HandlerNames
    /\ http.pc \in {"restore", "rwait"} => flag = 0 /\ http.h = "SetRestoreFactory"
    /\ http.pc \in {"set", "bus"} => /\ http.h # "SetRestoreFactory"
                                    /\ Elems(http.todo) \subseteq Elems(SetSeq(http.h))
    /\ http.pc = "bus" => http.todo = <<>>
    /\ main.code = 12 => flag # 0
    /\ main.code \notin {0, 12, Load} => flag = main.code
    /\ main.code \notin {0, Load} => Elems(main.todo) \subseteq Elems(SaveSeq(main.code))
    /\ main.code = Load => PILast(main.todo)
    /\ http.pc \in {"restore", "rwait"} => PILast(http.todo)
    /\ cycle = "main" => main.pc = "wait"
    /\ cycle = "http" => http.pc = "rwait"
    /\ ~protect

\* The one party the unsaved cells are with.
Owner ==
    CASE main.code = Load -> Elems(main.todo) \cup LicenseCells
      [] main.code \notin {0, 12, Load} -> Elems(main.todo)
      [] main.code \in {0, 12} /\ http.pc = "idle" -> Elems(SaveSeq(flag))
      [] main.code \in {0, 12} /\ http.pc \in {"set", "bus"} ->
           Elems(SaveSeq(CodeOf(http.h)))
      [] OTHER -> Elems(http.todo)

IInv == /\ TypeOK /\ Places
        /\ (main.pc # "boot" => Unsaved \subseteq Owner \cup Volatile)

\* No setting that was posted for saving is forgotten: once the boot has loaded
\* the RAM, a cell the EEPROM does not hold is one somebody is going to write.
\* (httpserver_netconn.c posts, Telemetry_save clears the mailbox.)  For a client
\* that waits for each save and restores while no code is pending.
SavesAreKept == main.pc # "boot" => Unsaved \subseteq Pending \cup Volatile

\* The settings store as its client sees it.  Kept: the cells the EEPROM keeps and
\* nothing writes over on the way.  Shown: what the unit works with; while it boots,
\* what it is about to read.  Open: the cells of the save or the load under way.
Kept  == Cells \ (Volatile \cup {"RDS_PI"})
Saved == [c \in Kept |-> Clamp(c, eep[c])]
Shown ==
    [c \in Kept |-> IF main.pc = "boot" \/ (main.code = Load /\ c \in LicenseCells)
                    THEN Clamp(c, eep[c]) ELSE Clamp(c, ram[c])]
Open ==
    Kept \cap IF main.code = Load \/ http.pc \in {"restore", "rwait"}
              THEN DefaultCells
              ELSE Elems(SaveSeq(IF http.pc = "idle" THEN flag ELSE CodeOf(http.h)))

Store == INSTANCE SettingsStore
           WITH Cell <- Kept, value <- Shown, safe <- Saved, open <- Open,
                Group <- {Kept \cap Elems(SaveSeq(code)) : code \in Codes}
                           \cup {Kept \cap DefaultCells}

\* A client that waits for each save and restores while no code is pending has a
\* store it can rely on: whatever TaskMain saves meanwhile and wherever a reset comes,
\* a cell outside the group it is changing is safe, and one inside comes back old or
\* new.
ImplementsStore == Store!StoreSpec

\* "Restore Factory Settings": when the HTTP thread's Carrega_Prog_Default began with
\* an empty mailbox and no transfer failed, the EEPROM holds at its end the default
\* of every cell it writes but the two that RDS_PI runs over: whoever the client is,
\* however many saves and restores came before.  Begun under a pending code, the 12
\* of a setNetwork whose save is long durable included, it meets TaskMain on the bus
\* and may return with cells missing.
RestoreIsDurable ==
    [][RestoreDone /\ quiet /\ faults = 0 =>
         \A c \in DefaultCells \ Clobbered : eep[c] = Default]_vars

\* The inductive invariant behind HeaderStaysValid: after the boot the RAM has a good
\* header, and no handler assigns to it.
HeaderLoaded ==
    /\ main.pc # "boot" => HeaderValid(ram)
    /\ http.pc = "set" => Elems(http.todo) \cap {"ID", "REV", "MODEL"} = {}

\* With a good header in the EEPROM nothing the firmware does, no interleaving,
\* reset or fault leaves a header the next boot takes for a new EEPROM.
HeaderStaysValid == [][HeaderValid(eep) => HeaderValid(eep')]_vars

\* The firmware never works with settings nobody programmed: cells of an erased
\* EEPROM, or of another revision's layout.
NoErasedSettings ==
    main.pc # "boot" => \A c \in DefaultCells : ram[c] \notin {Erased, Older}

\* Whatever the operator did last becomes durable, and stays so when no more
\* requests come: the EEPROM catches up with the RAM.
EventuallySaved == <>[](main.pc # "boot" /\ Unsaved \subseteq Volatile)

\* TaskMain always gets back to its loop, which refreshes the watchdog: no
\* contention on the bus, failure or reset holds it up for ever.
MainReturns == []<>(main.pc = "loop")
=============================================================================
