------------------------- MODULE ConfigStore_proofs -------------------------
(***************************************************************************)
(* Proofs about ConfigStore, for any set of handlers and any number of     *)
(* requests and resets: its types, its header and its restores for every   *)
(* client, that a patient client that restores alone loses no save and has *)
(* a SettingsStore on a healthy bus, and that a unit works with programmed *)
(* settings once its first load was not interrupted.                       *)
(***************************************************************************)
EXTENDS ConfigStore, TLAPS

(***************************************************************************)
(* The tables.                                                             *)
(***************************************************************************)

\* The default load's sequence is made of cells.
LEMMA DefaultSeqCells ==
    DefaultSeq \in Seq(Cells) /\ DefaultSeq # <<>>
<1>1. DefaultSeq \in Seq(DefaultCells) /\ DefaultSeq # <<>>
  BY DEF DefaultSeq, DefaultCells, Elems
<1>2. QED
  BY <1>1 DEF Cells

\* The cells the tables below name are all in the default load or the licence.
LEMMA NamedCells ==
    {"PROCESSOR", "EMPHASE", "AES192", "AUDIO", "CONFIGNTP", "TIMEZONE",
     "VOLMPX1", "VOLMPX2", "VOLPHONE", "PASSADMIN", "PASSUSER", "CONFIGHOLD",
     "ADV_RSSI1", "ADV_RSSI2", "ADV_MPX", "ADV_LEFT", "ADV_RIGHT", "SNMP",
     "PORTWEB", "IPADDR", "MASKADDR", "GWADDR", "DNSADDR", "SERV",
     "PROF_STATION", "PROF_CITY", "PROF_STATE", "PROF_COUNTRY", "TIMERON",
     "TIMEROFF", "LEVELON", "LEVELOFF", "CFG_BW", "CFG_ATN",
     "SN", "LIC", "LIC_SEQ", "TMR_LIC", "ID", "REV", "MODEL"} \subseteq Cells
<1>1. {"PROCESSOR", "EMPHASE", "AES192", "AUDIO", "CONFIGNTP", "TIMEZONE",
       "VOLMPX1", "VOLMPX2", "VOLPHONE", "PASSADMIN", "PASSUSER", "CONFIGHOLD"}
        \subseteq DefaultCells
  BY DEF DefaultSeq, DefaultCells, Elems
<1>2. {"ADV_RSSI1", "ADV_RSSI2", "ADV_MPX", "ADV_LEFT", "ADV_RIGHT", "SNMP",
       "PORTWEB", "IPADDR", "MASKADDR", "GWADDR", "DNSADDR", "SERV"}
        \subseteq DefaultCells
  BY DEF DefaultSeq, DefaultCells, Elems
<1>3. {"PROF_STATION", "PROF_CITY", "PROF_STATE", "PROF_COUNTRY", "TIMERON",
       "TIMEROFF", "LEVELON", "LEVELOFF", "CFG_BW", "CFG_ATN",
       "ID", "REV", "MODEL"} \subseteq DefaultCells
  BY DEF DefaultSeq, DefaultCells, Elems
<1>4. QED
  BY <1>1, <1>2, <1>3 DEF Cells, LicenseCells

\* Each case of Telemetry_save writes cells.
LEMMA SaveSeqCells == \A code : SaveSeq(code) \in Seq(Cells)
  BY NamedCells DEF SaveSeq

\* The table of the handlers, by the name of the request.
LEMMA HandlerTable ==
    /\ Handler("setTime") = setTime
    /\ Handler("setNetwork") = setNetwork
    /\ Handler("setSNMP") = setSNMP
    /\ Handler("SaveToken") = SaveToken
    /\ Handler("SaveBroker") = SaveBroker
    /\ Handler("setPassword") = setPassword
    /\ Handler("setStationProfile") = setStationProfile
    /\ Handler("setConfigHold") = setConfigHold
    /\ Handler("RFState") = RFState
    /\ Handler("setAUDIOVOL") = setAUDIOVOL
    /\ Handler("setALARMMPX") = setALARMMPX
    /\ Handler("setAUDIO") = setAUDIO
    /\ Handler("setAdvSet") = setAdvSet
    /\ Handler("setService") = setService
    /\ Handler("setSN") = setSN
    /\ Handler("setRF") = setRF
    /\ Handler("ClearLicense") = ClearLicense
    /\ Handler("resetpassword") = resetpassword
    /\ Handler("SetRestoreFactory") = NoSettings
    /\ Handler("none") = NoSettings
  BY DEF Handler

\* Each handler assigns cells and posts a code of the mailbox.
LEMMA SetSeqCells ==
    \A h \in HandlerNames : SetSeq(h) \in Seq(Cells) /\ CodeOf(h) \in Codes
<1>1. \A h \in HandlerNames : SetSeq(h) \in Seq(Cells)
  <2>1. /\ setTime.cells \in Seq(Cells)
       /\ setNetwork.cells \in Seq(Cells)
       /\ setSNMP.cells \in Seq(Cells)
    BY NamedCells DEF setTime, setNetwork, setSNMP
  <2>2. /\ SaveToken.cells \in Seq(Cells)
       /\ SaveBroker.cells \in Seq(Cells)
    BY NamedCells DEF SaveToken, SaveBroker
  <2>3. /\ setPassword.cells \in Seq(Cells)
       /\ setStationProfile.cells \in Seq(Cells)
       /\ setConfigHold.cells \in Seq(Cells)
    BY NamedCells DEF setPassword, setStationProfile, setConfigHold
  <2>4. /\ setAUDIOVOL.cells \in Seq(Cells)
       /\ setALARMMPX.cells \in Seq(Cells)
       /\ setAUDIO.cells \in Seq(Cells)
    BY NamedCells DEF setAUDIOVOL, setALARMMPX, setAUDIO
  <2>5. /\ RFState.cells \in Seq(Cells)
       /\ resetpassword.cells \in Seq(Cells)
    BY NamedCells DEF RFState, resetpassword
  <2>6. /\ setAdvSet.cells \in Seq(Cells)
       /\ setService.cells \in Seq(Cells)
       /\ setSN.cells \in Seq(Cells)
    BY NamedCells DEF setAdvSet, setService, setSN
  <2>7. /\ setRF.cells \in Seq(Cells)
       /\ ClearLicense.cells \in Seq(Cells)
    BY NamedCells DEF setRF, ClearLicense
  <2>8. NoSettings.cells \in Seq(Cells)
    BY DEF NoSettings
  <2>9. \A h \in HandlerNames : Handler(h).cells \in Seq(Cells)
    <3> SUFFICES ASSUME NEW h \in HandlerNames
                 PROVE  Handler(h).cells \in Seq(Cells)
      OBVIOUS
    <3>1. QED
      BY <2>1, <2>2, <2>3, <2>4, <2>5, <2>6, <2>7, <2>8, HandlerTable, Zenon
         DEF HandlerNames
  <2>10. QED
    BY <2>9 DEF SetSeq
<1>2. \A h \in HandlerNames : CodeOf(h) \in Codes
  BY HandlerTable DEF CodeOf, HandlerNames, Codes, setTime, setNetwork, setSNMP,
     SaveToken, SaveBroker, setPassword, setStationProfile, setConfigHold, RFState,
     setAUDIOVOL, setALARMMPX, setAUDIO, setAdvSet, setService, setSN, setRF,
     ClearLicense, resetpassword, NoSettings
<1>3. QED
  BY <1>1, <1>2

\* Nothing is left of an empty sequence.
LEMMA ElemsEmpty == Elems(<<>>) = {}
  BY DEF Elems

\* The case of Telemetry_save a handler posts writes all the cells the handler
\* assigns; only setRF's are written by no case that is ever posted.
LEMMA PostCoversSet ==
    \A h \in HandlerNames :
        Elems(SetSeq(h)) \subseteq Elems(SaveSeq(CodeOf(h))) \cup Volatile
<1> SUFFICES ASSUME NEW h \in HandlerNames, NEW c \in Elems(SetSeq(h)),
                    h # "setRF"
             PROVE  c \in Elems(SaveSeq(CodeOf(h)))
  BY DEF Volatile
<1>1. CASE h = "setTime"
  <2>1. CodeOf(h) = 4 /\ SetSeq(h) = <<"CONFIGNTP", "TIMEZONE">>
    BY <1>1, HandlerTable DEF SetSeq, CodeOf, setTime
  <2>2. QED
    BY <2>1 DEF SaveSeq, Elems
<1>2. CASE h = "setSNMP"
  <2>1. CodeOf(h) = 31 /\ SetSeq(h) = <<"SNMP">>
    BY <1>2, HandlerTable DEF SetSeq, CodeOf, setSNMP
  <2>2. QED
    BY <2>1 DEF SaveSeq, Elems
<1>3. CASE h = "setPassword"
  <2>1. CodeOf(h) = 9 /\ SetSeq(h) = <<"PASSADMIN", "PASSUSER">>
    BY <1>3, HandlerTable DEF SetSeq, CodeOf, setPassword
  <2>2. QED
    BY <2>1 DEF SaveSeq, Elems
<1>4. CASE h = "setConfigHold"
  <2>1. CodeOf(h) = 10 /\ SetSeq(h) = <<"CONFIGHOLD">>
    BY <1>4, HandlerTable DEF SetSeq, CodeOf, setConfigHold
  <2>2. QED
    BY <2>1 DEF SaveSeq, Elems
<1>5. CASE h = "setService"
  <2>1. CodeOf(h) = 19 /\ SetSeq(h) = <<"SERV">>
    BY <1>5, HandlerTable DEF SetSeq, CodeOf, setService
  <2>2. QED
    BY <2>1 DEF SaveSeq, Elems
<1>6. CASE h = "setSN"
  <2>1. CodeOf(h) = 17 /\ SetSeq(h) = <<"SN">>
    BY <1>6, HandlerTable DEF SetSeq, CodeOf, setSN
  <2>2. QED
    BY <2>1 DEF SaveSeq, Elems
<1>7. CASE h = "setNetwork"
  <2>1. CodeOf(h) = 12 /\ SetSeq(h) = <<"IPADDR", "MASKADDR", "GWADDR",
                                        "DNSADDR", "PORTWEB">>
    BY <1>7, HandlerTable DEF SetSeq, CodeOf, setNetwork
  <2>2. QED
    BY <2>1 DEF SaveSeq, Elems
<1>8. CASE h = "setStationProfile"
  <2>1. CodeOf(h) = 27 /\ SetSeq(h) = <<"PROF_STATION", "PROF_CITY", "PROF_STATE",
                                        "PROF_COUNTRY">>
    BY <1>8, HandlerTable DEF SetSeq, CodeOf, setStationProfile
  <2>2. QED
    BY <2>1 DEF SaveSeq, Elems
<1>9. CASE h = "setAUDIOVOL"
  <2>1. CodeOf(h) = 6 /\ SetSeq(h) = <<"VOLMPX1", "VOLMPX2", "VOLPHONE">>
    BY <1>9, HandlerTable DEF SetSeq, CodeOf, setAUDIOVOL
  <2>2. QED
    BY <2>1 DEF SaveSeq, Elems
<1>10. CASE h = "setAUDIO"
  <2>1. CodeOf(h) = 2 /\ SetSeq(h) = <<"EMPHASE", "PROCESSOR", "AES192">>
    BY <1>10, HandlerTable DEF SetSeq, CodeOf, setAUDIO
  <2>2. QED
    BY <2>1 DEF SaveSeq, Elems
<1>11. CASE h = "ClearLicense"
  <2>1. CodeOf(h) = 28 /\ SetSeq(h) = <<"LIC_SEQ", "TMR_LIC", "LIC">>
    BY <1>11, HandlerTable DEF SetSeq, CodeOf, ClearLicense
  <2>2. QED
    BY <2>1 DEF SaveSeq, Elems
<1>12. CASE h = "setALARMMPX"
  <2>1. CodeOf(h) = 33 /\ SetSeq(h) = <<"LEVELON", "TIMERON", "LEVELOFF", "TIMEROFF">>
    BY <1>12, HandlerTable DEF SetSeq, CodeOf, setALARMMPX
  <2>2. QED
    BY <2>1 DEF SaveSeq, Elems
<1>13. CASE h = "setAdvSet"
  <2>1. CodeOf(h) = 11 /\ SetSeq(h) = <<"ADV_RSSI1", "ADV_RSSI2", "ADV_MPX",
                                        "ADV_LEFT", "ADV_RIGHT">>
    BY <1>13, HandlerTable DEF SetSeq, CodeOf, setAdvSet
  <2>2. QED
    BY <2>1 DEF SaveSeq, Elems
<1>14. CASE h \in {"resetpassword", "SaveToken", "SaveBroker", "RFState",
                   "SetRestoreFactory"}
  <2>1. SetSeq(h) = <<>>
    BY <1>14, HandlerTable DEF SetSeq, SaveToken, SaveBroker, RFState,
                      resetpassword, NoSettings
  <2>2. QED
    BY <2>1, ElemsEmpty
<1>15. QED
  BY <1>1, <1>2, <1>3, <1>4, <1>5, <1>6, <1>7,
     <1>8, <1>9, <1>10, <1>11, <1>12, <1>13, <1>14 DEF HandlerNames

\* A sequence of cells and what is left of it.
LEMMA ElemsTail ==
    ASSUME NEW s \in Seq(Cells), s # <<>>
    PROVE  /\ Head(s) \in Cells /\ Tail(s) \in Seq(Cells)
           /\ Head(s) \in Elems(s)
           /\ Elems(Tail(s)) \subseteq Elems(s)
           /\ Elems(s) \subseteq Elems(Tail(s)) \cup {Head(s)}
<1>1. /\ Head(s) = s[1] /\ Len(s) \in Nat /\ Len(s) > 0
      /\ Tail(s) \in Seq(Cells) /\ Len(Tail(s)) = Len(s) - 1
      /\ \A k \in 1..Len(s) - 1 : Tail(s)[k] = s[k + 1]
  OBVIOUS
<1>2. \A k \in 1..Len(s) : k # 1 => k - 1 \in 1..Len(s) - 1 /\ s[k] = Tail(s)[k - 1]
  BY <1>1
<1>3. QED
  BY <1>1, <1>2 DEF Elems

\* Before RDS_PI is written it is still to be written.
LEMMA PILastTail ==
    ASSUME NEW s \in Seq(Cells), s # <<>>, PILast(s)
    PROVE  /\ PILast(Tail(s))
           /\ Head(s) \in Clobbered => "RDS_PI" \in Elems(Tail(s))
<1>1. /\ Head(s) = s[1] /\ Len(s) \in Nat /\ Len(s) > 0
      /\ Len(Tail(s)) = Len(s) - 1
      /\ \A k \in 1..Len(s) - 1 : Tail(s)[k] = s[k + 1]
  OBVIOUS
<1>2. ASSUME NEW i \in 1..Len(s), s[i] \in Clobbered
      PROVE  \E k \in i..Len(s) - 1 : k \in 1..Len(s) - 1 /\ Tail(s)[k] = "RDS_PI"
  <2>1. PICK j \in i + 1..Len(s) : s[j] = "RDS_PI"
    BY <1>2 DEF PILast
  <2>2. j - 1 \in i..Len(s) - 1 /\ j - 1 \in 1..Len(s) - 1
        /\ Tail(s)[j - 1] = "RDS_PI"
    BY <1>1, <2>1
  <2>3. QED
    BY <2>2
<1>3. Head(s) \in Clobbered => "RDS_PI" \in Elems(Tail(s))
  BY <1>1, <1>2 DEF Elems
<1>4. ASSUME NEW i \in 1..Len(Tail(s)), Tail(s)[i] \in Clobbered
      PROVE  \E j \in i + 1..Len(Tail(s)) : Tail(s)[j] = "RDS_PI"
  <2>1. i + 1 \in 1..Len(s) /\ s[i + 1] \in Clobbered
    BY <1>1, <1>4
  <2>2. QED
    BY <1>1, <1>2, <2>1
<1>5. QED
  BY <1>3, <1>4 DEF PILast

\* The default load is such a sequence.
LEMMA DefaultPILast == PILast(DefaultSeq)
<1>1. DefaultSeq[37] = "RDS_PI" /\ Len(DefaultSeq) = 54
  BY DEF DefaultSeq
<1>2. \A i \in 37..54 : DefaultSeq[i] \notin Clobbered
  BY DEF DefaultSeq, Clobbered
<1>3. QED
  BY <1>1, <1>2 DEF PILast

\* No case of Telemetry_save that is posted touches the overlapping cells.
LEMMA SaveSeqApart == \A code : Elems(SaveSeq(code)) \cap Clobbered = {}
<1> SUFFICES ASSUME NEW code
             PROVE  \A k \in 1..Len(SaveSeq(code)) :
                       SaveSeq(code)[k] \notin Clobbered
  BY DEF Elems
<1> USE DEF SaveSeq, Clobbered
<1>1. CASE code \in {2, 4, 6, 9, 10}
  BY <1>1
<1>2. CASE code \in {11, 12, 17, 19}
  BY <1>2
<1>3. CASE code \in {27, 28, 31, 33}
  BY <1>3
<1>4. CASE code \notin {2, 4, 6, 9, 10, 11, 12, 17, 19, 27, 28, 31, 33}
  BY <1>4
<1>5. QED
  BY <1>1, <1>2, <1>3, <1>4

-----------------------------------------------------------------------------
(***************************************************************************)
(* Types.                                                                  *)
(***************************************************************************)
\* The named contents are values, and clamping stays among them.
LEMMA ValueTypes ==
    /\ Default \in Values /\ Erased \in Values /\ Unset \in Values
    /\ Older \in Values /\ Foreign \in Values /\ 0..MaxReq \subseteq Values
    /\ \A c \in Cells, v \in Values : Clamp(c, v) \in Values
    /\ PowerUpRam \in [Cells -> Values]
  BY ConstantsAssumption
     DEF Default, Erased, Unset, Older, Foreign, Values, Clamp, PowerUpRam

\* The three EEPROMs a unit may start with are typed.
LEMMA InitTypeOK == Init => TypeOK
<1> SUFFICES ASSUME Init PROVE TypeOK
  OBVIOUS
<1>1. eep \in [Cells -> Values]
  BY ValueTypes DEF Init, BlankEeprom, ProgrammedEeprom, OlderEeprom
<1>2. protect \in BOOLEAN /\ quiet \in BOOLEAN
  BY DEF Init
<1>3. QED
  BY <1>1, <1>2, ValueTypes, ConstantsAssumption
     DEF Init, TypeOK, MainIdle, HttpIdle, Codes

\* Every action keeps the types.
LEMMA StepTypeOK == TypeOK /\ [Next]_vars => TypeOK'
<1> SUFFICES ASSUME TypeOK, [Next]_vars PROVE TypeOK'
  OBVIOUS
<1> USE ConstantsAssumption, ValueTypes DEF TypeOK
<1>c. 0 \in Codes /\ 253 \in Codes /\ Load \notin Codes
  BY DEF Codes, Load
<1>t. /\ main.todo # <<>> => Head(main.todo) \in Cells /\ Tail(main.todo) \in Seq(Cells)
      /\ http.todo # <<>> => Head(http.todo) \in Cells /\ Tail(http.todo) \in Seq(Cells)
  BY ElemsTail
<1>1. CASE BootRead
  BY <1>1, <1>c DEF BootRead, MainIdle, CanFault
<1>2. CASE BootDefaults
  BY <1>2, <1>c, DefaultSeqCells DEF BootDefaults, CanFault
<1>3. CASE TelemetryPick
  BY <1>3, SaveSeqCells DEF TelemetryPick
<1>w. \A c \in Cells : Written(c) \in [Cells -> Values]
  BY DEF Written
<1>4. CASE MainWriteOk
  BY <1>4, <1>t, <1>w DEF MainWriteOk, RestoreWriting
<1>5. CASE MainWriteFail
  <2>1. faults' \in 0..MaxFault
    BY <1>5 DEF MainWriteFail, CanFault
  <2>2. /\ main.todo # <<>> /\ main' = [main EXCEPT !.todo = Tail(@)]
        /\ protect' = (protect \/ RestoreWriting)
        /\ UNCHANGED <<ram, eep, flag, http, cycle, reqs, quiet, resets>>
    BY <1>5 DEF MainWriteFail
  <2>3. QED
    BY <2>1, <2>2, <1>t DEF RestoreWriting
<1>6. CASE MainWake
  BY <1>6 DEF MainWake
<1>7. CASE LoadDone
  BY <1>7, <1>c DEF LoadDone, MainIdle, CanFault
<1>8. CASE SaveDone
  BY <1>8, <1>c DEF SaveDone, MainIdle, FlagAfter
<1>9. CASE ResetPassword
  BY <1>9, <1>c DEF ResetPassword, MainIdle, CanFault
<1>10. CASE HttpSet
  <2>1. NewValue(http.h, Head(http.todo), http.n) \in Values
    BY DEF NewValue
  <2>2. QED
    BY <1>10, <2>1, <1>t DEF HttpSet
<1>11. CASE HttpBus
  BY <1>11 DEF HttpBus
<1>12. CASE HttpPost
  <2>1. http.h \in HandlerNames => CodeOf(http.h) \in Codes
    BY SetSeqCells
  <2>2. http.h = "none" => CodeOf(http.h) = 0
    BY HandlerTable DEF CodeOf, NoSettings
  <2>3. flag' \in Codes
    BY <1>12, <2>1, <2>2, <1>c DEF HttpPost
  <2>4. QED
    BY <1>12, <2>3 DEF HttpPost, HttpIdle
<1>13. CASE RestoreWriteOk
  BY <1>13, <1>t, <1>w DEF RestoreWriteOk
<1>14. CASE RestoreWriteFail
  <2>1. faults' \in 0..MaxFault
    BY <1>14 DEF RestoreWriteFail, CanFault
  <2>2. /\ http.todo # <<>> /\ http' = [http EXCEPT !.todo = Tail(@)]
        /\ protect' = FALSE
        /\ UNCHANGED <<ram, eep, flag, main, cycle, reqs, quiet, resets>>
    BY <1>14 DEF RestoreWriteFail
  <2>3. QED
    BY <2>1, <2>2, <1>t
<1>22. CASE RestoreWriteLost
  BY <1>22, <1>t DEF RestoreWriteLost
<1>15. CASE RestoreWake
  BY <1>15 DEF RestoreWake
<1>16. CASE RestoreDone
  BY <1>16 DEF RestoreDone, HttpIdle
<1>17. CASE HttpRequest
  <2>1. /\ reqs' \in 0..MaxReq /\ quiet' \in BOOLEAN
        /\ UNCHANGED <<eep, flag, main, cycle, protect, resets, faults>>
    BY <1>17 DEF HttpRequest
  <2>2. PICK h \in Requests :
           IF h = "SetRestoreFactory"
           THEN /\ http' = [pc |-> "restore", h |-> h, todo |-> DefaultSeq,
                            n |-> reqs']
                /\ ram' = [c \in Cells |-> IF c \in DefaultCells THEN Default
                                           ELSE ram[c]]
           ELSE /\ http' = [pc |-> "set", h |-> h, todo |-> SetSeq(h),
                            n |-> reqs']
                /\ UNCHANGED ram
    BY <1>17 DEF HttpRequest
  <2>3. h \in HandlerNames /\ SetSeq(h) \in Seq(Cells)
    BY SetSeqCells
  <2>4. ram' \in [Cells -> Values]
    BY <2>2
  <2>5. http' \in [pc : {"idle", "set", "bus", "restore", "rwait"},
                   h : HandlerNames \cup {"none"}, todo : Seq(Cells),
                   n : 0..MaxReq]
    BY <2>1, <2>2, <2>3, DefaultSeqCells
  <2>6. QED
    BY <2>1, <2>4, <2>5
<1>18. CASE CycleEnds
  BY <1>18 DEF CycleEnds
<1>19. CASE Reset
  <2>1. protect' \in BOOLEAN /\ quiet' \in BOOLEAN
    BY <1>19 DEF Reset
  <2>2. QED
    BY <1>19, <2>1, <1>c DEF Reset, MainIdle, HttpIdle
<1>20. CASE UNCHANGED vars
  BY <1>20 DEF vars
<1>21. QED
  BY <1>1, <1>2, <1>3, <1>4, <1>5, <1>6, <1>7, <1>8, <1>9, <1>10, <1>11, <1>12,
     <1>13, <1>14, <1>15, <1>16, <1>17, <1>18, <1>19, <1>20, <1>22
     DEF Next, MainStep, HttpStep, Quiescent

\* Whatever the clients ask, however transfers fail and whenever a reset hits,
\* the mailbox and the two copies of the settings hold what they may hold.
THEOREM TypeCorrect == Spec => []TypeOK
  BY InitTypeOK, StepTypeOK, PTL DEF Spec

-----------------------------------------------------------------------------
(***************************************************************************)
(* TaskMain gets nearer to its loop with every step: the part of           *)
(* MainReturns that needs no fairness.                                     *)
(***************************************************************************)
\* What is left of the pass, in steps: a write and a delay for each cell at most.
PassLeft == CASE main.pc = "boot" -> 2 * Len(DefaultSeq) + 2
              [] main.pc = "save" -> 2 * Len(main.todo) + 1
              [] main.pc = "wait" -> 2 * Len(main.todo) + 2
              [] OTHER -> 0

\* Between two refreshes of the watchdog TaskMain makes a bounded number of steps:
\* each leaves less of the pass, a failed or contended transfer is not tried again,
\* and nobody but TaskMain and a reset has a say in where it is.
PassDescends ==
    [][main.pc # "loop" =>
         /\ MainStep => PassLeft \in Nat /\ PassLeft' \in 0..PassLeft - 1
         /\ main' # main => MainStep \/ Reset]_vars

\* One step of TaskMain.
LEMMA MainDescends ==
    ASSUME TypeOK, MainStep, main.pc # "loop"
    PROVE  PassLeft \in Nat /\ PassLeft' \in 0..PassLeft - 1
<1>1. /\ main.pc \in {"boot", "save", "wait"} /\ Len(main.todo) \in Nat
      /\ main = [pc |-> main.pc, code |-> main.code, todo |-> main.todo]
  BY DEF TypeOK
<1>2. Len(DefaultSeq) \in Nat
  BY DefaultSeqCells
<1>3. main.todo # <<>> => Len(Tail(main.todo)) = Len(main.todo) - 1 /\ Len(main.todo) > 0
  BY DEF TypeOK
<1>4. CASE main'.pc = "loop"
  BY <1>1, <1>2, <1>4 DEF PassLeft
<1>5. CASE BootDefaults
  BY <1>1, <1>2, <1>5 DEF BootDefaults, PassLeft
<1>6. CASE MainWriteOk
  BY <1>1, <1>3, <1>6 DEF MainWriteOk, PassLeft
<1>7. CASE MainWriteFail
  BY <1>1, <1>3, <1>7 DEF MainWriteFail, PassLeft
<1>8. CASE MainWake
  BY <1>1, <1>8 DEF MainWake, PassLeft
<1>9. BootRead \/ LoadDone \/ SaveDone \/ ResetPassword => main'.pc = "loop"
  BY DEF BootRead, LoadDone, SaveDone, ResetPassword, MainIdle
<1>10. QED
  BY <1>4, <1>5, <1>6, <1>7, <1>8, <1>9 DEF MainStep, TelemetryPick

\* No save, load, failure or contention keeps TaskMain from its watchdog for ever.
THEOREM PassDescendsHolds == Spec => PassDescends
<1>1. [Next]_vars /\ main' # main => MainStep \/ Reset
  BY DEF Next, vars, HttpStep, HttpSet, HttpBus, HttpPost, RestoreWriteOk,
     RestoreWriteFail, RestoreWriteLost, RestoreWake, RestoreDone, HttpRequest,
     CycleEnds, Quiescent
<1>2. TypeOK /\ [Next]_vars =>
        [main.pc # "loop" =>
           /\ MainStep => PassLeft \in Nat /\ PassLeft' \in 0..PassLeft - 1
           /\ main' # main => MainStep \/ Reset]_vars
  BY <1>1, MainDescends
<1>3. QED
  BY <1>2, TypeCorrect, PTL DEF Spec, PassDescends
-----------------------------------------------------------------------------
(***************************************************************************)
(* A patient client on a healthy bus: no save is lost.                     *)
(***************************************************************************)

\* Writing a cell makes that cell safe and none unsafe but those it overlaps.
LEMMA StoreSaves ==
    ASSUME TypeOK, NEW c \in Cells, eep' = Written(c), ram' = ram
    PROVE  Unsaved' \subseteq (Unsaved \ {c}) \cup Overlaps(c)
  BY DEF Unsaved, TypeOK, Written

\* The cells written over are RDS_PI, which a load has yet to write, or nobody's.
LEMMA OverlapsPending ==
    ASSUME NEW s \in Seq(Cells), s # <<>>,
           PILast(s) \/ Elems(s) \cap Clobbered = {}
    PROVE  Overlaps(Head(s)) \subseteq Elems(Tail(s)) \cup Volatile
  BY PILastTail, ElemsTail DEF Overlaps, Volatile

\* The initial states.
LEMMA InitIInv == Init => IInv
<1> SUFFICES ASSUME Init PROVE IInv
  OBVIOUS
<1>1. TypeOK
  BY InitTypeOK
<1>2. Places
  BY DEF Init, Places, MainIdle, HttpIdle, Load
<1>3. QED
  BY <1>1, <1>2 DEF IInv, Init, MainIdle

\* The steps of TaskMain.
LEMMA MainIInv ==
    ASSUME MaxFault = 0, IInv, MainStep
    PROVE  IInv'
<1>0. TypeOK /\ TypeOK'
  BY StepTypeOK DEF IInv, Next
<1>f. ~CanFault
  BY <1>0 DEF CanFault, TypeOK
<1>l. Load # 0 /\ Load # 12 /\ Load # 253
  BY DEF Load
<1> USE <1>l DEF IInv
<1>1. CASE BootRead
  <2>1. /\ main.pc = "boot" /\ main' = MainIdle("loop")
        /\ ram' = [c \in Cells |-> Clamp(c, eep[c])]
        /\ UNCHANGED <<eep, flag, http, cycle, protect>>
    BY <1>1, <1>f DEF BootRead
  <2>2. Places'
    BY <1>0, <2>1 DEF Places, MainIdle, TypeOK
  <2>3. Unsaved' = {}
    BY <2>1 DEF Unsaved, Clamp
  <2>4. QED
    BY <1>0, <2>2, <2>3
<1>2. CASE BootDefaults
  <2>1. /\ main.pc = "boot"
        /\ main' = [pc |-> "save", code |-> Load, todo |-> DefaultSeq]
        /\ UNCHANGED <<eep, flag, http, cycle, protect>>
    BY <1>2 DEF BootDefaults
  <2>2. Places'
    BY <1>0, <2>1, DefaultPILast DEF Places, TypeOK
  <2>3. Unsaved' \subseteq Owner'
    <3>1. Owner' = DefaultCells \cup LicenseCells
      BY <2>1 DEF Owner, DefaultCells
    <3>2. QED
      BY <3>1 DEF Unsaved, Cells
  <2>4. QED
    BY <1>0, <2>2, <2>3
<1>3. CASE TelemetryPick
  <2>1. /\ main.pc = "loop" /\ flag # 0 /\ main.code = 0
        /\ main' = [pc |-> "save", code |-> flag, todo |-> SaveSeq(flag)]
        /\ UNCHANGED <<ram, eep, flag, http, cycle, protect>>
    BY <1>3 DEF TelemetryPick, Places
  <2>2. flag # Load
    BY <1>0 DEF TypeOK, Codes, Load
  <2>3. Places'
    BY <1>0, <2>1, <2>2 DEF Places, TypeOK
  <2>4. Owner' = Owner
    BY <2>1, <2>2, <2>3 DEF Owner, Places
  <2>5. QED
    BY <1>0, <2>1, <2>3, <2>4 DEF Unsaved
<1>4. CASE MainWriteOk
  <2>1. /\ main.pc = "save" /\ main.todo # <<>> /\ main.todo \in Seq(Cells)
        /\ main' = [main EXCEPT !.pc = "wait", !.todo = Tail(@)]
        /\ eep' = Written(Head(main.todo))
        /\ cycle' = "main" /\ UNCHANGED <<ram, flag, http>>
        /\ protect' = (protect \/ RestoreWriting)
    BY <1>0, <1>4 DEF MainWriteOk, TypeOK
  <2>2. /\ main'.pc = "wait" /\ main'.code = main.code
        /\ main'.todo = Tail(main.todo)
    BY <1>0, <2>1 DEF TypeOK
  <2>3. Places'
    <3>1. ~protect'
      BY <2>1 DEF Places, RestoreWriting
    <3>2. QED
      BY <2>1, <2>2, <3>1, ElemsTail, PILastTail DEF Places
  <2>4. Unsaved' \subseteq (Unsaved \ {Head(main.todo)}) \cup Overlaps(Head(main.todo))
    BY <1>0, <2>1, ElemsTail, StoreSaves
  <2>5. Owner \ {Head(main.todo)} \subseteq Owner'
    BY <2>1, <2>2, ElemsTail DEF Owner
  <2>6. Overlaps(Head(main.todo)) \subseteq Owner' \cup Volatile
    <3>1. CASE main.code = Load
      <4>1. Overlaps(Head(main.todo)) \subseteq Elems(Tail(main.todo)) \cup Volatile
        BY <2>1, <3>1, OverlapsPending DEF Places
      <4>2. QED
        BY <2>2, <3>1, <4>1 DEF Owner
    <3>2. CASE main.code # Load
      <4>1. Elems(main.todo) \cap Clobbered = {}
        BY <2>1, <3>2, SaveSeqApart DEF Places
      <4>2. Head(main.todo) \notin Clobbered
        BY <2>1, <4>1, ElemsTail
      <4>3. QED
        BY <4>2 DEF Overlaps, Volatile
    <3>3. QED
      BY <3>1, <3>2
  <2>7. QED
    BY <1>0, <2>1, <2>3, <2>4, <2>5, <2>6
<1>5. CASE MainWriteFail
  <2>1. main.pc = "save" /\ main.todo # <<>> /\ main.todo \in Seq(Cells)
        /\ MainContended
        /\ main' = [main EXCEPT !.todo = Tail(@)]
        /\ protect' = (protect \/ RestoreWriting)
        /\ UNCHANGED <<ram, eep, flag, http, cycle>>
    BY <1>0, <1>5, <1>f DEF MainWriteFail, TypeOK
  <2>2. http.pc # "idle" /\ main.code = 12
    BY <1>0, <2>1 DEF MainContended, RestoreWriting, Places, TypeOK
  <2>3. /\ main'.pc = "save" /\ main'.code = 12
        /\ main'.todo = Tail(main.todo)
    BY <1>0, <2>1, <2>2 DEF TypeOK
  <2>4. Places'
    <3>1. ~protect'
      BY <2>1, <2>2 DEF Places, RestoreWriting
    <3>2. QED
      BY <2>1, <2>2, <2>3, <3>1, ElemsTail DEF Places
  <2>5. Owner' = Owner
    BY <2>1, <2>2, <2>3, <2>4 DEF Owner, Places
  <2>6. QED
    BY <1>0, <2>1, <2>4, <2>5 DEF Unsaved
<1>6. CASE MainWake
  <2>1. /\ main.pc = "wait" /\ main' = [main EXCEPT !.pc = "save"]
        /\ cycle' \in {"none", cycle} /\ cycle' # "main"
        /\ UNCHANGED <<ram, eep, flag, http, protect>>
    BY <1>0, <1>6 DEF MainWake, TypeOK
  <2>2. /\ main'.pc = "save" /\ main'.code = main.code
        /\ main'.todo = main.todo
    BY <1>0, <2>1 DEF TypeOK
  <2>3. Places'
    BY <2>1, <2>2 DEF Places
  <2>4. Owner' = Owner
    BY <2>1, <2>2 DEF Owner
  <2>5. QED
    BY <1>0, <2>1, <2>3, <2>4 DEF Unsaved
<1>7. CASE LoadDone
  <2>1. /\ main.pc = "save" /\ main.code = Load /\ main.todo = <<>>
        /\ ram' = [c \in Cells |-> IF c \in LicenseCells THEN eep[c] ELSE ram[c]]
        /\ main' = MainIdle("loop")
        /\ UNCHANGED <<eep, flag, http, cycle, protect>>
    BY <1>7, <1>f DEF LoadDone
  <2>2. Places'
    BY <1>0, <2>1 DEF Places, MainIdle, TypeOK
  <2>3. Unsaved \subseteq LicenseCells \cup Volatile
    BY <2>1, ElemsEmpty DEF Owner
  <2>4. Unsaved' \subseteq Volatile
    BY <2>1, <2>3 DEF Unsaved
  <2>5. QED
    BY <1>0, <2>2, <2>4
<1>8. CASE SaveDone
  <2>1. /\ main.pc = "save" /\ main.code \notin {0, Load} /\ main.todo = <<>>
        /\ flag' = FlagAfter(main.code, flag)
        /\ main' = MainIdle("loop")
        /\ UNCHANGED <<ram, eep, http, cycle, protect>>
    BY <1>8 DEF SaveDone, Places
  <2>2. main'.pc = "loop" /\ main'.code = 0 /\ main'.todo = <<>>
    BY <2>1 DEF MainIdle
  <2>3. main.code # 12 => http.pc = "idle"
    BY <2>1 DEF Places
  <2>4. Places'
    BY <2>1, <2>2, <2>3 DEF Places, FlagAfter
  <2>5. CASE main.code = 12
    <3>1. Owner' = Owner
      BY <2>1, <2>2, <2>4, <2>5 DEF Owner, FlagAfter
    <3>2. QED
      BY <1>0, <2>1, <2>4, <3>1 DEF Unsaved
  <2>6. CASE main.code # 12
    <3>1. Unsaved \subseteq Volatile
      BY <2>1, <2>6, ElemsEmpty DEF Owner
    <3>2. QED
      BY <1>0, <2>1, <2>4, <3>1 DEF Unsaved
  <2>7. QED
    BY <2>5, <2>6
<1>9. CASE ResetPassword
  <2>1. main.pc = "save" /\ main.code = 253 /\ http.pc = "idle"
        /\ ~MainContended
    BY <1>0, <1>9 DEF ResetPassword, Places, MainContended, RestoreWriting, TypeOK
  <2>2. /\ ram' = [c \in Cells |-> IF c \in {"PASSADMIN", "PASSUSER"}
                                   THEN eep[c] ELSE ram[c]]
        /\ flag' = 0 /\ main' = MainIdle("loop")
        /\ UNCHANGED <<eep, http, cycle, protect>>
    <3>1. PICK bad \in SUBSET {"PASSADMIN", "PASSUSER"} :
             /\ \/ MainContended /\ UNCHANGED faults
                \/ ~MainContended /\ bad = {} /\ UNCHANGED faults
                \/ CanFault /\ bad # {} /\ faults' = faults + 1
             /\ ram' = [c \in Cells |-> IF c \in bad THEN Default
                                        ELSE IF c \in {"PASSADMIN", "PASSUSER"}
                                        THEN eep[c] ELSE ram[c]]
      BY <1>9 DEF ResetPassword
    <3>2. bad = {}
      BY <1>f, <2>1, <3>1
    <3>3. QED
      BY <1>9, <3>1, <3>2 DEF ResetPassword
  <2>3. Places'
    BY <1>0, <2>1, <2>2 DEF Places, MainIdle, TypeOK
  <2>4. Unsaved \subseteq Volatile
    <3>1. Elems(main.todo) \subseteq Elems(SaveSeq(253))
      BY <2>1 DEF Places
    <3>2. SaveSeq(253) = <<>>
      BY DEF SaveSeq
    <3>3. QED
      BY <2>1, <3>1, <3>2, ElemsEmpty DEF Owner
  <2>5. Unsaved' \subseteq Unsaved
    BY <2>2 DEF Unsaved
  <2>6. QED
    BY <1>0, <2>3, <2>4, <2>5
<1>10. QED
  BY <1>1, <1>2, <1>3, <1>4, <1>5, <1>6, <1>7, <1>8, <1>9 DEF MainStep

\* The steps of the HTTP thread.
LEMMA HttpIInv ==
    ASSUME Patient, RestoreAlone, MaxFault = 0, IInv, HttpStep \/ HttpRequest
    PROVE  IInv'
<1>0. TypeOK /\ TypeOK'
  BY StepTypeOK DEF IInv, Next
<1>f. ~CanFault
  BY <1>0 DEF CanFault, TypeOK
<1>l. Load # 0 /\ Load # 12 /\ Load # 253
  BY DEF Load
<1>b. MainBlocked => main.pc # "boot" /\ main.pc \in {"loop", "wait"}
  BY DEF MainBlocked
<1> USE <1>l DEF IInv
<1>1. CASE HttpSet
  <2>1. /\ http.pc = "set" /\ MainBlocked /\ http.todo # <<>>
        /\ http.todo \in Seq(Cells)
        /\ http' = [http EXCEPT !.todo = Tail(@)]
        /\ ram' = [ram EXCEPT ![Head(http.todo)] =
                      NewValue(http.h, Head(http.todo), http.n)]
        /\ UNCHANGED <<eep, flag, main, cycle, protect>>
    BY <1>0, <1>1 DEF HttpSet, TypeOK
  <2>2. /\ http'.pc = "set" /\ http'.h = http.h
        /\ http'.todo = Tail(http.todo)
    BY <1>0, <2>1 DEF TypeOK
  <2>3. Places'
    BY <2>1, <2>2, ElemsTail DEF Places
  <2>4. main.code \in {0, 12} /\ http.h # "SetRestoreFactory"
    BY <2>1 DEF Places
  <2>5. Unsaved' \subseteq Unsaved \cup {Head(http.todo)}
    BY <1>0, <2>1 DEF Unsaved, TypeOK
  <2>6. Owner = Elems(SaveSeq(CodeOf(http.h))) /\ Owner' = Owner
    BY <2>1, <2>2, <2>4 DEF Owner
  <2>7. Head(http.todo) \in Elems(SetSeq(http.h))
    BY <2>1, ElemsTail DEF Places
  <2>8. http.h \in HandlerNames
    BY <2>1 DEF Places
  <2>9. QED
    BY <1>0, <1>b, <2>1, <2>3, <2>5, <2>6, <2>7, <2>8, PostCoversSet
<1>2. CASE HttpBus
  <2>1. /\ http.pc = "set" /\ http.todo = <<>> /\ MainBlocked
        /\ http' = [http EXCEPT !.pc = "bus"]
        /\ UNCHANGED <<ram, eep, flag, main, cycle, protect>>
    BY <1>2 DEF HttpBus
  <2>2. /\ http'.pc = "bus" /\ http'.h = http.h /\ http'.todo = <<>>
    BY <1>0, <2>1 DEF TypeOK
  <2>3. Places'
    BY <2>1, <2>2 DEF Places
  <2>4. Owner' = Owner
    BY <2>1, <2>2, <2>3 DEF Owner, Places
  <2>5. QED
    BY <1>0, <1>b, <2>1, <2>3, <2>4 DEF Unsaved
<1>3. CASE HttpPost
  <2>1. /\ http.pc \in {"set", "bus"} /\ MainBlocked
        /\ flag' = IF http.h = "setRF" THEN flag ELSE CodeOf(http.h)
        /\ http' = HttpIdle
        /\ UNCHANGED <<ram, eep, main, cycle, protect>>
    BY <1>3 DEF HttpPost
  <2>2. main.code \in {0, 12} /\ flag \in {0, 12} /\ http.h # "SetRestoreFactory"
    BY <2>1 DEF Places
  <2>3. http'.pc = "idle" /\ http'.h = "none" /\ http'.todo = <<>>
    BY <2>1 DEF HttpIdle
  <2>5. CASE http.h = "setRF"
    <3>1. Places'
      BY <2>1, <2>2, <2>3, <2>5 DEF Places
    <3>2. Unsaved' \subseteq Volatile
      <4>1. SaveSeq(CodeOf(http.h)) = <<>>
        BY <2>5, HandlerTable DEF CodeOf, setRF, SaveSeq
      <4>2. Unsaved \subseteq Volatile
        BY <1>b, <2>1, <2>2, <4>1, ElemsEmpty DEF Owner
      <4>3. QED
        BY <2>1, <4>2 DEF Unsaved
    <3>3. QED
      BY <1>0, <3>1, <3>2
  <2>6. CASE http.h \in HandlerNames \ {"setRF"}
    <3>1. CodeOf(http.h) # 0
      BY <2>2, <2>6, HandlerTable DEF CodeOf, HandlerNames, setTime, setNetwork,
           setSNMP, SaveToken, SaveBroker, setPassword, setStationProfile,
           setConfigHold, RFState, setAUDIOVOL, setALARMMPX, setAUDIO, setAdvSet,
           setService, setSN, setRF, ClearLicense, resetpassword
    <3>2. Places'
      BY <2>1, <2>2, <2>3, <2>6, <3>1 DEF Places
    <3>3. Owner' = Elems(SaveSeq(CodeOf(http.h))) /\ Owner' = Owner
      BY <2>1, <2>2, <2>3, <2>6 DEF Owner
    <3>4. QED
      BY <1>0, <1>b, <2>1, <3>2, <3>3 DEF Unsaved
  <2>7. QED
    BY <2>1, <2>5, <2>6 DEF Places
<1>4. CASE RestoreWriteOk
  <2>1. /\ http.pc = "restore" /\ MainBlocked /\ http.todo # <<>>
        /\ http.todo \in Seq(Cells)
        /\ eep' = Written(Head(http.todo))
        /\ http' = [http EXCEPT !.pc = "rwait", !.todo = Tail(@)]
        /\ cycle' = "http" /\ protect' = FALSE /\ UNCHANGED <<ram, flag, main>>
    BY <1>0, <1>4 DEF RestoreWriteOk, TypeOK
  <2>2. /\ http'.pc = "rwait" /\ http'.h = http.h
        /\ http'.todo = Tail(http.todo)
    BY <1>0, <2>1 DEF TypeOK
  <2>3. Places'
    BY <2>1, <2>2, PILastTail DEF Places
  <2>4. Unsaved' \subseteq (Unsaved \ {Head(http.todo)}) \cup Overlaps(Head(http.todo))
    BY <1>0, <2>1, ElemsTail, StoreSaves
  <2>5. Owner = Elems(http.todo) /\ Owner' = Elems(Tail(http.todo))
    BY <2>1, <2>2 DEF Owner, Places
  <2>6. Overlaps(Head(http.todo)) \subseteq Owner' \cup Volatile
    BY <2>1, <2>5, OverlapsPending DEF Places
  <2>7. QED
    BY <1>0, <1>b, <2>1, <2>3, <2>4, <2>5, <2>6, ElemsTail
<1>5. CASE RestoreWriteFail
  <2>1. http.pc = "restore" /\ cycle # "none"
    BY <1>5, <1>f DEF RestoreWriteFail
  <2>2. main.pc = "wait" /\ main.code = 0
    BY <1>0, <2>1 DEF Places, TypeOK
  <2>3. QED
    BY <2>2 DEF Places
<1>10. CASE RestoreWriteLost
  BY <1>10 DEF RestoreWriteLost, Places
<1>6. CASE RestoreWake
  <2>1. /\ http.pc = "rwait" /\ MainBlocked
        /\ http' = [http EXCEPT !.pc = "restore"]
        /\ cycle' \in {"none", cycle} /\ cycle' # "http"
        /\ UNCHANGED <<ram, eep, flag, main, protect>>
    BY <1>0, <1>6 DEF RestoreWake, TypeOK
  <2>2. /\ http'.pc = "restore" /\ http'.h = http.h
        /\ http'.todo = http.todo
    BY <1>0, <2>1 DEF TypeOK
  <2>3. Places'
    BY <2>1, <2>2 DEF Places
  <2>4. Owner' = Owner
    BY <2>1, <2>2, <2>3 DEF Owner, Places
  <2>5. QED
    BY <1>0, <1>b, <2>1, <2>3, <2>4 DEF Unsaved
<1>7. CASE RestoreDone
  <2>1. /\ http.pc = "restore" /\ MainBlocked /\ http.todo = <<>>
        /\ http' = HttpIdle
        /\ UNCHANGED <<ram, eep, flag, main, cycle, protect>>
    BY <1>7 DEF RestoreDone
  <2>2. Places'
    BY <1>0, <2>1 DEF Places, HttpIdle, TypeOK
  <2>3. Unsaved \subseteq Volatile
    BY <1>b, <2>1, ElemsEmpty DEF Owner, Places
  <2>4. QED
    BY <1>0, <2>1, <2>2, <2>3 DEF Unsaved
<1>8. CASE HttpRequest
  <2>1. /\ http.pc = "idle" /\ MainBlocked /\ Settled
        /\ UNCHANGED <<eep, flag, main, cycle, protect>>
    BY <1>8 DEF HttpRequest
  <2>2. PICK h \in Requests :
           /\ h = "SetRestoreFactory" => flag = 0
           /\ IF h = "SetRestoreFactory"
              THEN /\ http' = [pc |-> "restore", h |-> h, todo |-> DefaultSeq,
                               n |-> reqs']
                   /\ ram' = [c \in Cells |-> IF c \in DefaultCells THEN Default
                                              ELSE ram[c]]
              ELSE /\ http' = [pc |-> "set", h |-> h, todo |-> SetSeq(h),
                               n |-> reqs']
                   /\ UNCHANGED ram
    BY <1>8 DEF HttpRequest
  <2>3. Unsaved \subseteq Volatile /\ main.code \in {0, 12} /\ flag \in {0, 12}
    BY <2>1 DEF Settled
  <2>4. cycle # "http"
    BY <2>1 DEF Places
  <2>5. CASE h = "SetRestoreFactory"
    <3>1. http'.pc = "restore" /\ http'.todo = DefaultSeq /\ http'.h = h
      BY <2>2, <2>5
    <3>2. Places'
      BY <2>1, <2>2, <2>3, <2>4, <2>5, <3>1, <1>b, DefaultPILast, ConstantsAssumption
         DEF Places
    <3>3. Owner' = DefaultCells
      BY <2>1, <2>3, <3>1 DEF Owner, DefaultCells
    <3>4. Unsaved' \subseteq DefaultCells \cup Volatile
      BY <2>1, <2>2, <2>3, <2>5 DEF Unsaved
    <3>5. QED
      BY <1>0, <3>2, <3>3, <3>4
  <2>6. CASE h # "SetRestoreFactory"
    <3>1. http'.pc = "set" /\ http'.todo = SetSeq(h) /\ http'.h = h /\ ram' = ram
      BY <2>2, <2>6
    <3>2. Places'
      BY <2>1, <2>3, <2>4, <2>6, <3>1, <1>b, ConstantsAssumption DEF Places
    <3>3. Unsaved' \subseteq Volatile
      BY <2>1, <2>3, <3>1 DEF Unsaved
    <3>4. QED
      BY <1>0, <3>2, <3>3
  <2>7. QED
    BY <2>5, <2>6
<1>9. QED
  BY <1>1, <1>2, <1>3, <1>4, <1>5, <1>6, <1>7, <1>8, <1>10 DEF HttpStep

\* Every step keeps the inductive invariant.
LEMMA StepIInv ==
    ASSUME Patient, RestoreAlone, MaxFault = 0
    PROVE  IInv /\ [Next]_vars => IInv'
<1> SUFFICES ASSUME IInv, [Next]_vars PROVE IInv'
  OBVIOUS
<1>0. TypeOK'
  BY StepTypeOK DEF IInv
<1>1. CASE MainStep
  BY <1>1, MainIInv
<1>2. CASE HttpStep \/ HttpRequest
  BY <1>2, HttpIInv
<1>3. CASE CycleEnds
  <2>1. cycle' = "none" /\ UNCHANGED <<ram, eep, flag, main, http, protect>>
    BY <1>3 DEF CycleEnds
  <2>2. Places'
    BY <2>1 DEF IInv, Places
  <2>3. Owner' = Owner /\ Unsaved' = Unsaved
    BY <2>1 DEF Owner, Unsaved
  <2>4. QED
    BY <1>0, <2>1, <2>2, <2>3 DEF IInv
<1>4. CASE Reset
  <2>1. /\ main' = MainIdle("boot") /\ http' = HttpIdle /\ flag' = 0
        /\ cycle' = "none" /\ protect' = FALSE
    BY <1>4 DEF Reset
  <2>2. Places'
    BY <2>1 DEF Places, MainIdle, HttpIdle, Load
  <2>3. QED
    BY <1>0, <2>1, <2>2 DEF IInv, MainIdle
<1>5. CASE UNCHANGED vars
  BY <1>5 DEF vars, IInv, TypeOK, Places, Owner, Unsaved
<1>6. QED
  BY <1>1, <1>2, <1>3, <1>4, <1>5 DEF Next, Quiescent

\* One party at a time is at work, and every unsaved cell is with it.
THEOREM Invariance ==
    ASSUME Patient, RestoreAlone, MaxFault = 0
    PROVE  Spec => []IInv
  BY InitIInv, StepIInv, PTL DEF Spec

\* The invariant says who is going to write an unsaved cell.
LEMMA OwnerIsPending == IInv => SavesAreKept
<1> SUFFICES ASSUME IInv PROVE Owner \subseteq Pending
  BY DEF IInv, SavesAreKept
<1>1. QED
  BY DEF Owner, Pending, Load

\* A client that waits until what it saved is durable, and restores the factory
\* settings only while no code is pending, loses no save, whatever handlers it uses,
\* however often it saves and whenever the unit is reset.
THEOREM PatientSavesAreKept ==
    ASSUME Patient, RestoreAlone, MaxFault = 0
    PROVE  Spec => []SavesAreKept
  BY InitIInv, StepIInv, OwnerIsPending, PTL DEF Spec

-----------------------------------------------------------------------------
(***************************************************************************)
(* The header, for every client, any faults and any resets.                *)
(***************************************************************************)

\* No handler assigns to the header.
LEMMA SetSeqNoHeader ==
    \A h \in HandlerNames : Elems(SetSeq(h)) \cap {"ID", "REV", "MODEL"} = {}
<1> DEFINE Others == Cells \ {"ID", "REV", "MODEL"}
<1>1. /\ setTime.cells \in Seq(Others)
      /\ setSNMP.cells \in Seq(Others)
      /\ setPassword.cells \in Seq(Others)
      /\ setConfigHold.cells \in Seq(Others)
  BY NamedCells DEF setTime, setSNMP, setPassword, setConfigHold
<1>2. /\ setService.cells \in Seq(Others)
      /\ setSN.cells \in Seq(Others)
      /\ setRF.cells \in Seq(Others)
      /\ ClearLicense.cells \in Seq(Others)
  BY NamedCells DEF setService, setSN, setRF, ClearLicense
<1>3. /\ setAUDIOVOL.cells \in Seq(Others)
      /\ setALARMMPX.cells \in Seq(Others)
      /\ setAUDIO.cells \in Seq(Others)
      /\ setAdvSet.cells \in Seq(Others)
  BY NamedCells DEF setAUDIOVOL, setALARMMPX, setAUDIO, setAdvSet
<1>4. /\ setNetwork.cells \in Seq(Others)
      /\ setStationProfile.cells \in Seq(Others)
      /\ SaveToken.cells \in Seq(Others)
      /\ SaveBroker.cells \in Seq(Others)
  BY NamedCells DEF setNetwork, setStationProfile, SaveToken, SaveBroker
<1>5. /\ RFState.cells \in Seq(Others)
      /\ resetpassword.cells \in Seq(Others)
      /\ NoSettings.cells \in Seq(Others)
  BY NamedCells DEF RFState, resetpassword, NoSettings
<1>6. \A h \in HandlerNames : SetSeq(h) \in Seq(Others)
  <2> HIDE DEF Others
  <2> SUFFICES ASSUME NEW h \in HandlerNames
               PROVE  Handler(h).cells \in Seq(Others)
    BY DEF SetSeq
  <2>1. QED
    BY <1>1, <1>2, <1>3, <1>4, <1>5, HandlerTable, Zenon DEF HandlerNames
<1>7. QED
  BY <1>6 DEF Elems

\* A cell written from a RAM with a good header leaves a good header good.
LEMMA WriteKeepsHeader ==
    ASSUME TypeOK, HeaderValid(ram), HeaderValid(eep), NEW c \in Cells
    PROVE  HeaderValid(Written(c))
  BY NamedCells DEF HeaderValid, Written, Overlaps, Clobbered

\* The RAM part of Carrega_Prog_Default sets the header.
LEMMA DefaultsHeader ==
    ASSUME ram' = [c \in Cells |-> IF c \in DefaultCells THEN Default ELSE ram[c]]
    PROVE  HeaderValid(ram')
<1>1. {"ID", "REV", "MODEL"} \subseteq DefaultCells
  BY DEF DefaultSeq, DefaultCells, Elems
<1>2. QED
  BY <1>1 DEF HeaderValid, Cells

\* The boot loads a good header; afterwards nothing but defaults gets there.
LEMMA StepHeaderLoaded == TypeOK /\ HeaderLoaded /\ [Next]_vars => HeaderLoaded'
<1> SUFFICES ASSUME TypeOK, HeaderLoaded, [Next]_vars PROVE HeaderLoaded'
  OBVIOUS
<1>h. {"ID", "REV", "MODEL"} \subseteq Cells
  BY NamedCells
<1>t. http.todo # <<>> => /\ Head(http.todo) \in Elems(http.todo)
                          /\ Elems(Tail(http.todo)) \subseteq Elems(http.todo)
  BY ElemsTail DEF TypeOK
<1> USE DEF HeaderLoaded
<1>1. CASE BootRead
  <2>1. HeaderValid(ram') /\ UNCHANGED http
    BY <1>1, <1>h DEF BootRead, HeaderValid, Clamp
  <2>2. QED
    BY <2>1
<1>2. CASE BootDefaults
  BY <1>2, DefaultsHeader DEF BootDefaults
<1>3. CASE LoadDone
  <2>1. HeaderValid(ram') /\ UNCHANGED http
    BY <1>3, <1>h DEF LoadDone, HeaderValid, LicenseCells
  <2>2. QED
    BY <2>1
<1>4. CASE ResetPassword
  <2>1. HeaderValid(ram') /\ UNCHANGED http
    BY <1>4, <1>h DEF ResetPassword, HeaderValid
  <2>2. QED
    BY <2>1
<1>5. CASE TelemetryPick \/ MainWriteOk \/ MainWriteFail \/ MainWake \/ SaveDone
  BY <1>5 DEF TelemetryPick, MainWriteOk, MainWriteFail, MainWake, SaveDone
<1>6. CASE HttpSet
  <2>1. /\ main.pc # "boot" /\ UNCHANGED main
        /\ Head(http.todo) \notin {"ID", "REV", "MODEL"}
        /\ Elems(Tail(http.todo)) \subseteq Elems(http.todo)
        /\ http' = [http EXCEPT !.todo = Tail(@)]
        /\ ram' = [ram EXCEPT ![Head(http.todo)] =
                     NewValue(http.h, Head(http.todo), http.n)]
    BY <1>6, <1>t DEF HttpSet, MainBlocked
  <2>2. HeaderValid(ram')
    BY <2>1, <1>h DEF HeaderValid, TypeOK
  <2>3. http'.todo = Tail(http.todo) /\ http'.pc = http.pc /\ http.pc = "set"
    BY <1>6, <2>1 DEF HttpSet, TypeOK
  <2>4. QED
    BY <2>1, <2>2, <2>3
<1>7. CASE \/ HttpBus \/ HttpPost \/ RestoreWriteOk \/ RestoreWriteLost
          \/ RestoreWake \/ RestoreDone
  <2>1. http'.pc # "set"
    <3>1. CASE HttpBus \/ RestoreWake
      BY <3>1 DEF HttpBus, RestoreWake, TypeOK
    <3>2. CASE RestoreWriteOk \/ RestoreWriteLost
      BY <3>2 DEF RestoreWriteOk, RestoreWriteLost, TypeOK
    <3>3. CASE HttpPost \/ RestoreDone
      BY <3>3 DEF HttpPost, RestoreDone, HttpIdle
    <3>4. QED
      BY <1>7, <3>1, <3>2, <3>3
  <2>2. UNCHANGED <<main, ram>>
    BY <1>7 DEF HttpBus, HttpPost, RestoreWriteOk, RestoreWriteLost, RestoreWake,
       RestoreDone
  <2>3. QED
    BY <2>1, <2>2
<1>8. CASE RestoreWriteFail
  BY <1>8 DEF RestoreWriteFail, TypeOK
<1>9. CASE HttpRequest
  <2>1. UNCHANGED main /\ main.pc # "boot"
    BY <1>9 DEF HttpRequest, MainBlocked
  <2>2. PICK h \in Requests :
           IF h = "SetRestoreFactory"
           THEN /\ http' = [pc |-> "restore", h |-> h, todo |-> DefaultSeq,
                            n |-> reqs']
                /\ ram' = [c \in Cells |-> IF c \in DefaultCells THEN Default
                                           ELSE ram[c]]
           ELSE /\ http' = [pc |-> "set", h |-> h, todo |-> SetSeq(h),
                            n |-> reqs']
                /\ UNCHANGED ram
    BY <1>9 DEF HttpRequest
  <2>3. HeaderValid(ram')
    BY <2>1, <2>2, DefaultsHeader
  <2>4. http'.pc = "set" => Elems(http'.todo) \cap {"ID", "REV", "MODEL"} = {}
    BY <2>2, SetSeqNoHeader, ConstantsAssumption
  <2>5. QED
    BY <2>3, <2>4
<1>10. CASE CycleEnds \/ Quiescent \/ UNCHANGED vars
  BY <1>10 DEF CycleEnds, Quiescent, vars
<1>11. CASE Reset
  BY <1>11 DEF Reset, MainIdle, HttpIdle
<1>12. QED
  BY <1>1, <1>2, <1>3, <1>4, <1>5, <1>6, <1>7, <1>8, <1>9, <1>10, <1>11
     DEF Next, MainStep, HttpStep

\* Only two steps write the EEPROM, and both write from a RAM with a good header.
LEMMA StepKeepsHeader ==
    TypeOK /\ HeaderLoaded /\ [Next]_vars => (HeaderValid(eep) => HeaderValid(eep'))
<1> SUFFICES ASSUME TypeOK, HeaderLoaded, [Next]_vars, HeaderValid(eep)
             PROVE  HeaderValid(eep')
  OBVIOUS
<1>1. CASE MainWriteOk
  <2>1. main.pc = "save" /\ Head(main.todo) \in Cells /\ eep' = Written(Head(main.todo))
    BY <1>1, ElemsTail DEF MainWriteOk, TypeOK
  <2>2. QED
    BY <2>1, WriteKeepsHeader DEF HeaderLoaded
<1>2. CASE RestoreWriteOk
  <2>1. main.pc # "boot" /\ Head(http.todo) \in Cells /\ eep' = Written(Head(http.todo))
    BY <1>2, ElemsTail DEF RestoreWriteOk, MainBlocked, TypeOK
  <2>2. QED
    BY <2>1, WriteKeepsHeader DEF HeaderLoaded
<1>3. CASE UNCHANGED eep
  BY <1>3
<1>4. QED
  BY <1>1, <1>2, <1>3
     DEF Next, MainStep, HttpStep, vars, BootRead, BootDefaults, TelemetryPick,
         MainWriteFail, MainWake, LoadDone, SaveDone, ResetPassword, HttpSet, HttpBus,
         HttpPost, RestoreWriteFail, RestoreWriteLost, RestoreWake, RestoreDone,
         HttpRequest, CycleEnds, Reset, Quiescent

\* Whatever the clients ask, however many transfers fail and whenever the unit is
\* reset, a programmed EEPROM is never taken for a new one.
THEOREM HeaderKept == Spec => HeaderStaysValid
<1>1. Init => HeaderLoaded
  BY DEF Init, MainIdle, HttpIdle, HeaderLoaded
<1>2. Spec => [](TypeOK /\ HeaderLoaded)
  BY <1>1, InitTypeOK, StepTypeOK, StepHeaderLoaded, PTL DEF Spec
<1>3. QED
  BY <1>2, StepKeepsHeader, PTL DEF Spec, HeaderStaysValid
-----------------------------------------------------------------------------
(***************************************************************************)
(* No unprogrammed settings, for every client, when transfers do not fail  *)
(* and the default load of the boot is not interrupted.                    *)
(***************************************************************************)
Unprogrammed == {Erased, Older}
Programmed(m) == \A c \in DefaultCells : m[c] \notin Unprogrammed

\* During the boot TaskMain is alone: the HTTP thread is started after it.
BootAlone ==
    /\ main.pc = "boot" => main.code = 0 /\ http.pc = "idle" /\ cycle = "none"
    /\ main.code = Load => /\ main.pc \in {"save", "wait"} /\ http.pc = "idle"
                           /\ cycle \in {"none", "main"}
                           /\ cycle = "main" => main.pc = "wait"

\* What the load has not programmed yet is still on its list; once it is over, or
\* when the header promises it, the EEPROM is programmed.
LoadProgress ==
    /\ main.pc # "boot" => Programmed(ram)
    /\ main.code = Load =>
         \A c \in DefaultCells : eep[c] \in Unprogrammed => c \in Elems(main.todo)
    /\ main.code # Load /\ (main.pc # "boot" \/ HeaderValid(eep)) => Programmed(eep)

\* The licence is no part of the default load.
LEMMA LicenseApart == DefaultCells \subseteq Cells /\ DefaultCells \cap LicenseCells = {}
<1>1. \A i \in 1..54 : DefaultSeq[i] \notin LicenseCells
  BY DEF DefaultSeq, LicenseCells
<1>2. Len(DefaultSeq) = 54
  BY DEF DefaultSeq
<1>3. QED
  BY <1>1, <1>2 DEF DefaultCells, Elems, Cells

\* A cell written from a programmed RAM is programmed, those beside it keep or lose
\* their contents to it.
LEMMA WriteProgrammed ==
    ASSUME TypeOK, Programmed(ram), NEW c \in Cells
    PROVE  \A d \in DefaultCells :
              Written(c)[d] \in Unprogrammed => d # c /\ Written(c)[d] = eep[d]
  BY LicenseApart DEF Programmed, Unprogrammed, Written, Foreign, Erased, Older

\* The states a unit may start in.
LEMMA InitLoadProgress == Init => BootAlone /\ LoadProgress
<1> SUFFICES ASSUME Init PROVE BootAlone /\ LoadProgress
  OBVIOUS
<1>1. BootAlone
  BY DEF Init, MainIdle, HttpIdle, BootAlone, Load
<1>2. HeaderValid(eep) => eep = ProgrammedEeprom
  BY NamedCells DEF Init, HeaderValid, BlankEeprom, OlderEeprom, Default, Erased, Older,
     DefaultCells, Elems, DefaultSeq
<1>3. Programmed(ProgrammedEeprom)
  BY LicenseApart DEF Programmed, Unprogrammed, ProgrammedEeprom, Default, Foreign,
     Erased, Older
<1>4. QED
  BY <1>1, <1>2, <1>3 DEF Init, LoadProgress, MainIdle, Load

\* Nobody joins TaskMain before it is in its loop.
LEMMA StepBootAlone == TypeOK /\ BootAlone /\ [Next]_vars => BootAlone'
<1> SUFFICES ASSUME TypeOK, BootAlone, [Next]_vars PROVE BootAlone'
  OBVIOUS
<1>c. Load # 0 /\ flag # Load
  BY DEF Load, TypeOK, Codes
<1> USE <1>c DEF BootAlone
<1>1. CASE BootRead \/ LoadDone \/ SaveDone \/ ResetPassword
  <2>1. main'.pc = "loop" /\ main'.code = 0
    BY <1>1 DEF BootRead, LoadDone, SaveDone, ResetPassword, MainIdle
  <2>2. QED
    BY <2>1
<1>2. CASE BootDefaults
  BY <1>2 DEF BootDefaults
<1>3. CASE TelemetryPick
  BY <1>3 DEF TelemetryPick
<1>4. CASE MainWriteOk \/ MainWriteFail \/ MainWake
  <2>1. main'.code = main.code /\ http' = http /\ main'.pc \in {"save", "wait"}
    BY <1>4 DEF MainWriteOk, MainWriteFail, MainWake, TypeOK
  <2>2. main'.pc = "save" => cycle' \in {cycle, "none"} /\ (cycle' = "main" => main.pc = "save")
    BY <1>4 DEF MainWriteOk, MainWriteFail, MainWake, TypeOK
  <2>3. main'.pc = "wait" => cycle' = "main"
    BY <1>4 DEF MainWriteOk, MainWriteFail, MainWake, TypeOK
  <2>4. QED
    BY <2>1, <2>2, <2>3
<1>5. CASE HttpStep \/ HttpRequest
  <2>1. main' = main /\ MainBlocked
    BY <1>5 DEF HttpStep, HttpRequest, HttpSet, HttpBus, HttpPost, RestoreWriteOk,
       RestoreWriteFail, RestoreWriteLost, RestoreWake, RestoreDone
  <2>2. QED
    BY <2>1 DEF MainBlocked
<1>6. CASE CycleEnds
  BY <1>6 DEF CycleEnds
<1>7. CASE Reset
  BY <1>7 DEF Reset, MainIdle, HttpIdle
<1>8. CASE Quiescent \/ UNCHANGED vars
  BY <1>8 DEF Quiescent, vars
<1>9. QED
  BY <1>1, <1>2, <1>3, <1>4, <1>5, <1>6, <1>7, <1>8 DEF Next, MainStep

\* Every step keeps the RAM programmed, and the EEPROM but for the rest of a load.
LEMMA StepLoadProgress ==
    ASSUME MaxFault = 0, ~ResetInLoad
    PROVE  TypeOK /\ BootAlone /\ LoadProgress /\ [Next]_vars => LoadProgress'
<1> SUFFICES ASSUME TypeOK, BootAlone, LoadProgress, [Next]_vars PROVE LoadProgress'
  OBVIOUS
<1>f. ~CanFault
  BY DEF CanFault, TypeOK
<1>c. Load # 0 /\ flag # Load
  BY DEF Load, TypeOK, Codes
<1>d. Default \notin Unprogrammed /\ 0..MaxReq \cap Unprogrammed = {}
  BY ConstantsAssumption DEF Default, Unprogrammed, Erased, Older
<1> USE <1>c, LicenseApart
<1>1. CASE BootRead
  <2>1. /\ main.pc = "boot" /\ HeaderValid(eep) /\ main' = MainIdle("loop")
        /\ ram' = [c \in Cells |-> Clamp(c, eep[c])] /\ eep' = eep
    BY <1>1, <1>f DEF BootRead
  <2>2. Programmed(eep)
    BY <2>1 DEF BootAlone, LoadProgress
  <2>3. Programmed(ram')
    BY <2>1, <2>2, <1>d DEF Programmed, Clamp
  <2>4. QED
    BY <2>1, <2>2, <2>3 DEF LoadProgress, MainIdle
<1>2. CASE BootDefaults
  <2>1. /\ main' = [pc |-> "save", code |-> Load, todo |-> DefaultSeq] /\ eep' = eep
        /\ ram' = [c \in Cells |-> IF c \in DefaultCells THEN Default ELSE ram[c]]
    BY <1>2 DEF BootDefaults
  <2>2. QED
    BY <2>1, <1>d DEF LoadProgress, Programmed, DefaultCells
<1>3. CASE TelemetryPick
  BY <1>3 DEF TelemetryPick, LoadProgress, BootAlone
<1>4. CASE MainWriteOk
  <2>1. /\ main.pc = "save" /\ main.todo \in Seq(Cells) /\ main.todo # <<>>
        /\ eep' = Written(Head(main.todo)) /\ ram' = ram
        /\ main'.pc = "wait" /\ main'.code = main.code /\ main'.todo = Tail(main.todo)
    BY <1>4 DEF MainWriteOk, TypeOK
  <2>2. \A d \in DefaultCells :
           eep'[d] \in Unprogrammed => d # Head(main.todo) /\ eep'[d] = eep[d]
    BY <2>1, WriteProgrammed, ElemsTail DEF LoadProgress
  <2>3. QED
    BY <2>1, <2>2, ElemsTail DEF LoadProgress, Programmed
<1>5. CASE MainWriteFail
  <2>1. main.code # Load
    BY <1>5, <1>f DEF MainWriteFail, MainContended, RestoreWriting, BootAlone
  <2>2. /\ main.pc = "save" /\ main'.pc = "save" /\ main'.code = main.code
        /\ ram' = ram /\ eep' = eep
    BY <1>5 DEF MainWriteFail, TypeOK
  <2>3. QED
    BY <2>1, <2>2 DEF LoadProgress
<1>6. CASE MainWake
  <2>1. /\ main.pc = "wait" /\ main'.pc = "save" /\ main'.code = main.code
        /\ main'.todo = main.todo /\ ram' = ram /\ eep' = eep
    BY <1>6 DEF MainWake, TypeOK
  <2>2. QED
    BY <2>1 DEF LoadProgress
<1>7. CASE LoadDone
  <2>1. /\ main.pc = "save" /\ main.code = Load /\ main.todo = <<>>
        /\ ram' = [c \in Cells |-> IF c \in LicenseCells THEN eep[c] ELSE ram[c]]
        /\ main' = MainIdle("loop") /\ eep' = eep
    BY <1>7, <1>f DEF LoadDone
  <2>2. Programmed(eep)
    BY <2>1, ElemsEmpty DEF LoadProgress, Programmed
  <2>3. Programmed(ram')
    BY <2>1 DEF LoadProgress, Programmed
  <2>4. QED
    BY <2>1, <2>2, <2>3 DEF LoadProgress, MainIdle
<1>8. CASE SaveDone
  BY <1>8 DEF SaveDone, MainIdle, LoadProgress
<1>9. CASE ResetPassword
  <2>1. main.pc = "save" /\ main.code # Load /\ main' = MainIdle("loop") /\ eep' = eep
    BY <1>9 DEF ResetPassword, Load
  <2>2. Programmed(eep) /\ Programmed(ram)
    BY <2>1 DEF LoadProgress
  <2>3. \A c \in Cells : ram'[c] \in {Default, eep[c], ram[c]}
    BY <1>9 DEF ResetPassword
  <2>4. Programmed(ram')
    BY <2>2, <2>3, <1>d DEF Programmed
  <2>5. QED
    BY <2>1, <2>2, <2>4 DEF LoadProgress, MainIdle
<1>10. CASE HttpSet
  <2>1. main' = main /\ eep' = eep /\ main.pc # "boot"
        /\ http.todo \in Seq(Cells) /\ http.todo # <<>>
        /\ ram' = [ram EXCEPT ![Head(http.todo)] =
                      NewValue(http.h, Head(http.todo), http.n)]
    BY <1>10 DEF HttpSet, MainBlocked, TypeOK
  <2>2. \A c \in DefaultCells : NewValue(http.h, c, http.n) \notin Unprogrammed
    BY <1>d DEF NewValue, LicenseCells, TypeOK
  <2>3. Programmed(ram')
    BY <2>1, <2>2, ElemsTail DEF LoadProgress, Programmed, TypeOK
  <2>4. QED
    BY <2>1, <2>3 DEF LoadProgress
<1>11. CASE RestoreWriteOk
  <2>1. /\ main.pc # "boot" /\ main.code # Load /\ main' = main /\ ram' = ram
        /\ http.todo \in Seq(Cells) /\ http.todo # <<>>
        /\ eep' = Written(Head(http.todo))
    BY <1>11 DEF RestoreWriteOk, MainBlocked, TypeOK
  <2>2. \A d \in DefaultCells : eep'[d] \in Unprogrammed => eep'[d] = eep[d]
    BY <2>1, WriteProgrammed, ElemsTail DEF LoadProgress
  <2>3. QED
    BY <2>1, <2>2 DEF LoadProgress, Programmed
<1>12. CASE \/ HttpBus \/ HttpPost \/ RestoreWriteFail \/ RestoreWriteLost
           \/ RestoreWake \/ RestoreDone
  BY <1>12 DEF HttpBus, HttpPost, RestoreWriteFail, RestoreWriteLost, RestoreWake,
     RestoreDone, LoadProgress
<1>13. CASE HttpRequest
  <2>1. main' = main /\ eep' = eep /\ main.pc # "boot"
    BY <1>13 DEF HttpRequest, MainBlocked
  <2>2. \A c \in Cells : ram'[c] \in {Default, ram[c]}
    BY <1>13 DEF HttpRequest
  <2>3. Programmed(ram')
    BY <2>1, <2>2, <1>d DEF LoadProgress, Programmed
  <2>4. QED
    BY <2>1, <2>3 DEF LoadProgress
<1>14. CASE Reset
  <2>1. main.code # Load /\ main' = MainIdle("boot") /\ eep' = eep
    BY <1>14 DEF Reset
  <2>2. QED
    BY <2>1 DEF LoadProgress, MainIdle
<1>15. CASE CycleEnds \/ Quiescent \/ UNCHANGED vars
  BY <1>15 DEF CycleEnds, Quiescent, vars, LoadProgress
<1>16. QED
  BY <1>1, <1>2, <1>3, <1>4, <1>5, <1>6, <1>7, <1>8, <1>9, <1>10, <1>11, <1>12, <1>13,
     <1>14, <1>15 DEF Next, MainStep, HttpStep

\* On a healthy bus a unit whose first load is not interrupted never works with
\* settings nobody programmed: whatever the clients ask, patient or not, and whenever
\* it is reset later.
THEOREM NoErasedSettingsHolds ==
    ASSUME MaxFault = 0, ~ResetInLoad
    PROVE  Spec => []NoErasedSettings
<1>1. LoadProgress => NoErasedSettings
  BY DEF LoadProgress, Programmed, Unprogrammed, NoErasedSettings
<1>2. QED
  BY <1>1, InitTypeOK, StepTypeOK, InitLoadProgress, StepBootAlone, StepLoadProgress, PTL
     DEF Spec
-----------------------------------------------------------------------------
(***************************************************************************)
(* The factory restore that begins with an empty mailbox, for every client *)
(* and whatever came before it.                                            *)
(***************************************************************************)
Restoring == http.pc \in {"restore", "rwait"}

\* Who holds what: a case of Telemetry_save is served with a code in the mailbox, the
\* EEPROM is busy only while its writer waits, and EEPROM_HOLD is raised under a
\* transfer of the HTTP thread only.
Shared ==
    /\ main.pc \in {"save", "wait"} => main.code # 0
    /\ main.code \notin {0, Load} => flag # 0
    /\ http.pc \in {"set", "bus"} => http.h \in HandlerNames \ {"SetRestoreFactory"}
    /\ cycle = "main" => main.pc = "wait"
    /\ cycle = "http" => http.pc = "rwait"
    /\ protect => RestoreWriting

\* Such a restore has the bus for itself, the RAM holds the defaults to its end, and
\* what it has not written yet is on its list.
RestoreProgress ==
    quiet /\ faults = 0 /\ Restoring =>
      /\ flag = 0 /\ main.code = 0 /\ ~protect
      /\ PILast(http.todo)
      /\ \A c \in DefaultCells :
           /\ ram[c] = Default
           /\ c \notin Clobbered => eep[c] = Default \/ c \in Elems(http.todo)

\* Every handler but setRF posts a code.
LEMMA HandlersPost ==
    \A h \in HandlerNames \ {"SetRestoreFactory", "setRF"} : CodeOf(h) # 0
  BY HandlerTable DEF CodeOf, HandlerNames, setTime, setNetwork, setSNMP, SaveToken,
     SaveBroker, setPassword, setStationProfile, setConfigHold, RFState, setAUDIOVOL,
     setALARMMPX, setAUDIO, setAdvSet, setService, setSN, setRF, ClearLicense,
     resetpassword

\* Every step keeps to these rules.
LEMMA StepShared == TypeOK /\ Shared /\ [Next]_vars => Shared'
<1> SUFFICES ASSUME TypeOK, Shared, [Next]_vars PROVE Shared'
  OBVIOUS
<1>l. Load # 0
  BY DEF Load
<1> USE <1>l DEF Shared, RestoreWriting
<1>1. CASE BootRead \/ LoadDone \/ SaveDone \/ ResetPassword
  <2>1. /\ main'.pc = "loop" /\ main'.code = 0 /\ main.pc # "wait"
        /\ UNCHANGED <<http, cycle, protect>>
    BY <1>1 DEF BootRead, LoadDone, SaveDone, ResetPassword, MainIdle
  <2>2. QED
    BY <2>1
<1>2. CASE BootDefaults
  BY <1>2 DEF BootDefaults
<1>3. CASE TelemetryPick
  BY <1>3 DEF TelemetryPick
<1>4. CASE MainWriteOk \/ MainWriteFail
  <2>1. /\ main.pc = "save" /\ main'.pc \in {"save", "wait"} /\ main'.code = main.code
        /\ cycle' # cycle => cycle' = "main" /\ main'.pc = "wait"
        /\ protect' = (protect \/ RestoreWriting) /\ UNCHANGED <<flag, http>>
    BY <1>4 DEF MainWriteOk, MainWriteFail, TypeOK
  <2>2. QED
    BY <2>1
<1>5. CASE MainWake
  <2>1. /\ main.pc = "wait" /\ main'.code = main.code /\ cycle' \in {"none", "http"}
        /\ cycle' = "http" => cycle = "http"
        /\ UNCHANGED <<flag, http, protect>>
    BY <1>5 DEF MainWake, TypeOK
  <2>2. QED
    BY <2>1
<1>6. CASE HttpSet \/ HttpBus
  <2>1. /\ http.pc = "set" /\ http'.pc \in {"set", "bus"} /\ http'.h = http.h
        /\ UNCHANGED <<flag, main, cycle>> /\ ~protect'
    BY <1>6 DEF HttpSet, HttpBus, TypeOK
  <2>2. QED
    BY <2>1
<1>7. CASE HttpPost
  <2>1. /\ http.pc \in {"set", "bus"} /\ http'.pc = "idle"
        /\ UNCHANGED <<main, cycle, protect>>
        /\ flag' = IF http.h = "setRF" THEN flag ELSE CodeOf(http.h)
    BY <1>7 DEF HttpPost, HttpIdle
  <2>2. QED
    BY <2>1, HandlersPost
<1>8. CASE RestoreWriteOk \/ RestoreWriteLost
  <2>1. /\ http'.pc = "rwait" /\ cycle = "none" /\ cycle' \in {"none", "http"}
        /\ ~protect' /\ UNCHANGED <<flag, main>>
    BY <1>8 DEF RestoreWriteOk, RestoreWriteLost, TypeOK
  <2>2. QED
    BY <2>1
<1>9. CASE RestoreWriteFail
  <2>1. /\ http.pc = "restore" /\ http'.pc = "restore"
        /\ ~protect' /\ UNCHANGED <<flag, main, cycle>>
    BY <1>9 DEF RestoreWriteFail, TypeOK
  <2>2. QED
    BY <2>1
<1>10. CASE RestoreWake
  <2>1. /\ http.pc = "rwait" /\ http'.pc = "restore" /\ cycle' \in {"none", "main"}
        /\ cycle' = "main" => cycle = "main"
        /\ UNCHANGED <<flag, main, protect>>
    BY <1>10 DEF RestoreWake, TypeOK
  <2>2. QED
    BY <2>1
<1>11. CASE RestoreDone
  <2>1. /\ http.pc = "restore" /\ http.todo = <<>> /\ http'.pc = "idle"
        /\ UNCHANGED <<flag, main, cycle, protect>>
    BY <1>11 DEF RestoreDone, HttpIdle
  <2>2. QED
    BY <2>1
<1>12. CASE HttpRequest
  <2>1. http.pc = "idle" /\ UNCHANGED <<flag, main, cycle, protect>>
    BY <1>12 DEF HttpRequest
  <2>2. /\ http'.pc \in {"restore", "set"}
        /\ http'.pc = "set" => http'.h \in Requests \ {"SetRestoreFactory"}
    BY <1>12 DEF HttpRequest
  <2>3. QED
    BY <2>1, <2>2, ConstantsAssumption
<1>13. CASE CycleEnds \/ Quiescent \/ UNCHANGED vars
  BY <1>13 DEF CycleEnds, Quiescent, vars
<1>14. CASE Reset
  BY <1>14 DEF Reset, MainIdle, HttpIdle
<1>15. QED
  BY <1>1, <1>2, <1>3, <1>4, <1>5, <1>6, <1>7, <1>8, <1>9, <1>10, <1>11, <1>12, <1>13,
     <1>14 DEF Next, MainStep, HttpStep

\* During such a restore TaskMain only loops.
LEMMA RestoreUndisturbed ==
    TypeOK /\ BootAlone /\ Shared /\ RestoreProgress /\ quiet /\ faults = 0 /\ Restoring
      => /\ main.pc = "loop" /\ main.code = 0 /\ flag = 0
         /\ http.pc = "restore" => cycle = "none"
  BY DEF TypeOK, BootAlone, Shared, RestoreProgress, Restoring

\* Every step keeps the progress of a restore.
LEMMA StepRestoreProgress ==
    TypeOK /\ BootAlone /\ Shared /\ RestoreProgress /\ [Next]_vars => RestoreProgress'
<1> SUFFICES ASSUME TypeOK, BootAlone, Shared, RestoreProgress, [Next]_vars,
                    quiet', faults' = 0, Restoring'
             PROVE  RestoreProgress'
  BY DEF RestoreProgress
<1>d. DefaultCells \subseteq Cells /\ "RDS_PI" \in DefaultCells
  <2>1. "RDS_PI" \in DefaultCells
    <3>1. DefaultSeq[37] = "RDS_PI" /\ Len(DefaultSeq) = 54
      BY DEF DefaultSeq
    <3>2. QED
      BY <3>1 DEF DefaultCells, Elems
  <2>2. QED
    BY <2>1, LicenseApart
<1>1. CASE MainStep
  <2>1. /\ http' = http /\ quiet' = quiet /\ faults' \in {faults, faults + 1}
    BY <1>1 DEF MainStep, BootRead, BootDefaults, TelemetryPick,
       MainWriteOk, MainWriteFail, MainWake, LoadDone, SaveDone, ResetPassword
  <2>2. quiet /\ faults = 0 /\ Restoring
    BY <2>1 DEF Restoring, TypeOK
  <2>3. QED
    BY <1>1, <2>2, RestoreUndisturbed DEF MainStep, BootRead, BootDefaults, TelemetryPick,
       MainWriteOk, MainWriteFail, MainWake, LoadDone, SaveDone, ResetPassword
<1>2. CASE HttpSet \/ HttpBus \/ HttpPost \/ RestoreDone \/ Reset
  <2>1. CASE HttpSet \/ HttpBus
    BY <2>1 DEF HttpSet, HttpBus, Restoring, TypeOK
  <2>2. CASE HttpPost \/ RestoreDone \/ Reset
    <3>1. http' = HttpIdle
      BY <2>2 DEF HttpPost, RestoreDone, Reset
    <3>2. QED
      BY <3>1 DEF HttpIdle, Restoring
  <2>3. QED
    BY <1>2, <2>1, <2>2
<1>3. CASE RestoreWriteOk
  <2>1. /\ http.pc = "restore" /\ http.todo \in Seq(Cells) /\ http.todo # <<>>
        /\ eep' = Written(Head(http.todo)) /\ ram' = ram
        /\ http'.todo = Tail(http.todo) /\ ~protect'
        /\ UNCHANGED <<flag, main, quiet, faults>>
    BY <1>3 DEF RestoreWriteOk, TypeOK
  <2>2. /\ flag = 0 /\ main.code = 0 /\ PILast(http.todo)
        /\ \A c \in DefaultCells :
             /\ ram[c] = Default
             /\ c \notin Clobbered => eep[c] = Default \/ c \in Elems(http.todo)
    BY <2>1 DEF RestoreProgress, Restoring
  <2>3. /\ Head(http.todo) \in Cells
        /\ Elems(http.todo) \subseteq Elems(Tail(http.todo)) \cup {Head(http.todo)}
        /\ Head(http.todo) \in Clobbered => "RDS_PI" \in Elems(Tail(http.todo))
        /\ PILast(Tail(http.todo))
    BY <2>1, <2>2, ElemsTail, PILastTail
  <2>4. ASSUME NEW c \in DefaultCells, c \notin Clobbered
        PROVE  eep'[c] = Default \/ c \in Elems(http'.todo)
    <3>1. ram[c] = Default /\ (eep[c] = Default \/ c \in Elems(http.todo))
      BY <2>2, <2>4
    <3>2. CASE c = Head(http.todo)
      BY <1>d, <2>1, <3>1, <3>2 DEF Written
    <3>3. CASE c # Head(http.todo) /\ c \in Overlaps(Head(http.todo))
      <4>1. c = "RDS_PI" /\ Head(http.todo) \in Clobbered
        BY <2>4, <3>3 DEF Overlaps
      <4>2. QED
        BY <2>1, <2>3, <4>1
    <3>4. CASE c # Head(http.todo) /\ c \notin Overlaps(Head(http.todo))
      <4>1. eep'[c] = eep[c]
        BY <1>d, <2>1, <3>4 DEF Written
      <4>2. QED
        BY <2>1, <2>3, <3>1, <3>4, <4>1
    <3>5. QED
      BY <3>2, <3>3, <3>4
  <2>5. QED
    BY <2>1, <2>2, <2>3, <2>4 DEF RestoreProgress
<1>4. CASE RestoreWriteFail \/ RestoreWriteLost
  <2>1. /\ http.pc = "restore"
        /\ cycle # "none" \/ faults' = faults + 1 \/ protect
        /\ quiet' = quiet /\ faults' \in {faults, faults + 1}
    BY <1>4 DEF RestoreWriteFail, RestoreWriteLost
  <2>2. quiet /\ faults = 0 /\ Restoring /\ faults' = faults
    BY <2>1 DEF Restoring, TypeOK
  <2>3. cycle # "none" \/ protect
    BY <2>1, <2>2 DEF TypeOK
  <2>4. QED
    BY <2>1, <2>2, <2>3, RestoreUndisturbed DEF RestoreProgress
<1>5. CASE RestoreWake
  <2>1. /\ http.pc = "rwait" /\ http'.todo = http.todo
        /\ UNCHANGED <<ram, eep, flag, main, protect, quiet, faults>>
    BY <1>5 DEF RestoreWake, TypeOK
  <2>2. QED
    BY <2>1 DEF RestoreProgress, Restoring
<1>6. CASE HttpRequest
  <2>1. PICK h \in Requests :
           IF h = "SetRestoreFactory"
           THEN /\ http' = [pc |-> "restore", h |-> h, todo |-> DefaultSeq,
                            n |-> reqs']
                /\ ram' = [c \in Cells |-> IF c \in DefaultCells THEN Default
                                           ELSE ram[c]]
           ELSE /\ http' = [pc |-> "set", h |-> h, todo |-> SetSeq(h),
                            n |-> reqs']
                /\ UNCHANGED ram
    BY <1>6 DEF HttpRequest
  <2>2. /\ http.pc = "idle" /\ MainBlocked /\ quiet' = (flag = 0)
        /\ UNCHANGED <<flag, main, protect>>
    BY <1>6 DEF HttpRequest
  <2>3. flag = 0 /\ main.code = 0 /\ ~protect
    BY <2>2 DEF MainBlocked, Shared, RestoreWriting
  <2>4. CASE h = "SetRestoreFactory"
    <3>1. http'.todo = DefaultSeq
      BY <2>1, <2>4
    <3>2. \A c \in DefaultCells : ram'[c] = Default /\ c \in Elems(http'.todo)
      BY <1>d, <2>1, <2>4, <3>1 DEF DefaultCells
    <3>3. QED
      BY <2>2, <2>3, <3>1, <3>2, DefaultPILast DEF RestoreProgress
  <2>5. CASE h # "SetRestoreFactory"
    BY <2>1, <2>5 DEF Restoring
  <2>6. QED
    BY <2>4, <2>5
<1>7. CASE CycleEnds \/ Quiescent \/ UNCHANGED vars
  BY <1>7 DEF CycleEnds, Quiescent, vars, RestoreProgress, Restoring
<1>8. QED
  BY <1>1, <1>2, <1>3, <1>4, <1>5, <1>6, <1>7 DEF Next, HttpStep

\* A SetRestoreFactory that began with an empty mailbox, and met no failed transfer,
\* returns with the factory settings in the EEPROM: for every client, hurried or not,
\* whatever it saved and restored before and however often the unit was reset.
THEOREM RestoreIsDurableHolds == Spec => RestoreIsDurable
<1>1. Init => Shared /\ RestoreProgress
  BY DEF Init, MainIdle, HttpIdle, Shared, RestoreProgress, Restoring
<1>2. Spec => [](TypeOK /\ BootAlone /\ Shared /\ RestoreProgress)
  BY <1>1, InitTypeOK, StepTypeOK, InitLoadProgress, StepBootAlone, StepShared,
     StepRestoreProgress, PTL DEF Spec
<1>3. RestoreProgress /\ [Next]_vars
        => (RestoreDone /\ quiet /\ faults = 0
              => \A c \in DefaultCells \ Clobbered : eep[c] = Default)
  <2> SUFFICES ASSUME RestoreProgress, RestoreDone, quiet, faults = 0,
                      NEW c \in DefaultCells \ Clobbered
               PROVE  eep[c] = Default
    OBVIOUS
  <2>1. http.pc = "restore" /\ http.todo = <<>>
    BY DEF RestoreDone
  <2>2. QED
    BY <2>1, ElemsEmpty DEF RestoreProgress, Restoring
<1>4. QED
  BY <1>2, <1>3, PTL DEF Spec, RestoreIsDurable
-----------------------------------------------------------------------------
(***************************************************************************)
(* What a patient client on a healthy bus sees is a SettingsStore.         *)
(***************************************************************************)
Groups == {Kept \cap Elems(SaveSeq(code)) : code \in Codes} \cup {Kept \cap DefaultCells}

\* A load has cells of the default load on its list.
ListInv ==
    /\ main.code = Load => Elems(main.todo) \subseteq DefaultCells
    /\ Restoring => Elems(http.todo) \subseteq DefaultCells

StoreInv == IInv /\ ListInv

\* A load's list gets shorter only.
LEMMA StepListInv == TypeOK /\ ListInv /\ [Next]_vars => ListInv'
<1> SUFFICES ASSUME TypeOK, ListInv, [Next]_vars PROVE ListInv'
  OBVIOUS
<1>c. Load # 0 /\ flag # Load
  BY DEF Load, TypeOK, Codes
<1>t. /\ main.todo # <<>> => Elems(Tail(main.todo)) \subseteq Elems(main.todo)
      /\ http.todo # <<>> => Elems(Tail(http.todo)) \subseteq Elems(http.todo)
  BY ElemsTail DEF TypeOK
<1> USE <1>c DEF ListInv, Restoring
<1>1. CASE BootRead \/ LoadDone \/ SaveDone \/ ResetPassword
  <2>1. main'.code = 0 /\ http' = http
    BY <1>1 DEF BootRead, LoadDone, SaveDone, ResetPassword, MainIdle
  <2>2. QED
    BY <2>1
<1>2. CASE BootDefaults
  BY <1>2 DEF BootDefaults, DefaultCells
<1>3. CASE TelemetryPick
  BY <1>3 DEF TelemetryPick
<1>4. CASE MainWriteOk \/ MainWriteFail
  <2>1. /\ main'.code = main.code /\ http' = http
        /\ main.todo # <<>> /\ main'.todo = Tail(main.todo)
    BY <1>4 DEF MainWriteOk, MainWriteFail, TypeOK
  <2>2. QED
    BY <2>1, <1>t
<1>5. CASE MainWake
  <2>1. main'.code = main.code /\ http' = http /\ main'.todo = main.todo
    BY <1>5 DEF MainWake, TypeOK
  <2>2. QED
    BY <2>1
<1>6. CASE HttpSet \/ HttpBus \/ HttpPost \/ RestoreDone
  <2>1. main' = main /\ http'.pc \in {"set", "bus", "idle"}
    BY <1>6 DEF HttpSet, HttpBus, HttpPost, RestoreDone, HttpIdle, TypeOK
  <2>2. QED
    BY <2>1
<1>7. CASE RestoreWriteOk \/ RestoreWriteFail \/ RestoreWriteLost
  <2>1. /\ main' = main /\ http.pc = "restore"
        /\ http.todo # <<>> /\ http'.todo = Tail(http.todo)
    BY <1>7 DEF RestoreWriteOk, RestoreWriteFail, RestoreWriteLost, TypeOK
  <2>2. QED
    BY <2>1, <1>t
<1>8. CASE RestoreWake
  <2>1. main' = main /\ http.pc = "rwait" /\ http'.todo = http.todo
    BY <1>8 DEF RestoreWake, TypeOK
  <2>2. QED
    BY <2>1
<1>9. CASE HttpRequest
  <2>1. main' = main
    BY <1>9 DEF HttpRequest
  <2>2. http'.pc = "set" \/ http'.todo = DefaultSeq
    BY <1>9 DEF HttpRequest
  <2>3. QED
    BY <2>1, <2>2 DEF DefaultCells
<1>10. CASE Reset
  BY <1>10 DEF Reset, MainIdle, HttpIdle
<1>11. CASE CycleEnds \/ Quiescent \/ UNCHANGED vars
  BY <1>11 DEF CycleEnds, Quiescent, vars
<1>12. QED
  BY <1>1, <1>2, <1>3, <1>4, <1>5, <1>6, <1>7, <1>8, <1>9, <1>10, <1>11
     DEF Next, MainStep, HttpStep

\* A cell that is not safe is in the open group.
LEMMA OutsideOpen ==
    ASSUME StoreInv, NEW c \in Kept, Shown[c] # Saved[c]
    PROVE  c \in Open /\ c \in Owner /\ main.pc # "boot"
<1>1. main.pc # "boot" /\ c \in Cells /\ ~(main.code = Load /\ c \in LicenseCells)
  BY DEF Shown, Saved, Kept
<1>2. c \in Owner /\ c \notin Volatile
  <2>1. c \in Unsaved
    BY <1>1 DEF Shown, Saved, Unsaved
  <2>2. QED
    BY <1>1, <2>1 DEF StoreInv, IInv, Kept
<1> USE DEF StoreInv, IInv
<1>l. Load # 0 /\ Load # 12
  BY DEF Load
<1>3. CASE main.code = Load
  <2>1. Owner = Elems(main.todo) \cup LicenseCells
    BY <1>l, <1>3 DEF Owner
  <2>2. Open = Kept \cap DefaultCells
    BY <1>3 DEF Open
  <2>3. QED
    BY <1>1, <1>2, <1>3, <2>1, <2>2 DEF ListInv
<1>4. CASE main.code \notin {0, 12, Load}
  <2>1. http.pc = "idle" /\ flag = main.code
    BY <1>4 DEF Places
  <2>2. QED
    BY <1>2, <1>4, <2>1 DEF Owner, Open, Places
<1>5. CASE main.code \in {0, 12} /\ http.pc \in {"idle", "set", "bus"}
  <2>1. Owner = Elems(SaveSeq(IF http.pc = "idle" THEN flag ELSE CodeOf(http.h)))
    BY <1>l, <1>5 DEF Owner
  <2>2. Open = Kept \cap Owner
    BY <1>l, <1>5, <2>1 DEF Open
  <2>3. QED
    BY <1>1, <1>2, <2>2
<1>6. CASE main.code \in {0, 12} /\ http.pc \in {"restore", "rwait"}
  <2>1. Owner = Elems(http.todo)
    BY <1>l, <1>6 DEF Owner
  <2>2. Open = Kept \cap DefaultCells
    BY <1>6 DEF Open
  <2>3. QED
    BY <1>1, <1>2, <1>6, <2>1, <2>2 DEF ListInv, Restoring
<1>7. QED
  BY <1>1, <1>2, <1>3, <1>4, <1>5, <1>6 DEF TypeOK

\* Nobody has anything to write: what the unit shows is safe.
LEMMA Calm ==
    ASSUME StoreInv, Owner \subseteq LicenseCells, Owner = {} \/ main.code = Load
    PROVE  Shown = Saved
<1>1. ASSUME NEW c \in Kept PROVE Shown[c] = Saved[c]
  <2>1. SUFFICES ASSUME Shown[c] # Saved[c] PROVE FALSE
    OBVIOUS
  <2>2. c \in Owner
    BY <2>1, OutsideOpen
  <2>3. main.code = Load /\ c \in LicenseCells
    BY <2>2
  <2>4. QED
    BY <2>1, <2>3 DEF Shown, Saved
<1>2. QED
  BY <1>1 DEF Shown, Saved

\* The mapped variables depend on these only.
LEMMA Unchanged ==
    ASSUME ram' = ram, eep' = eep, main.pc = "boot" <=> main'.pc = "boot",
           main.code = Load <=> main'.code = Load
    PROVE  Shown' = Shown /\ Saved' = Saved
  BY DEF Shown, Saved

\* The open group is one that a case of Telemetry_save or a load writes.
LEMMA OpenIsGroup == IInv => Open \in Groups
<1> SUFFICES ASSUME IInv PROVE Open \in Groups
  OBVIOUS
<1>1. http.pc # "idle" => CodeOf(http.h) \in Codes
  BY SetSeqCells DEF IInv, Places
<1>2. QED
  BY <1>1 DEF IInv, TypeOK, Open, Groups

\* Changing the group that is open.
LEMMA StepToGroup ==
    ASSUME IInv', Saved' = Saved, Open' = Open \/ Shown = Saved,
           \A c \in Kept \ Open' : Shown'[c] = Shown[c]
    PROVE  Store!StoreNext
<1>1. Open' \in Groups
  <2>1. (IInv => Open \in Groups)'
    BY OpenIsGroup, PTL
  <2>2. QED
    BY <2>1 DEF Groups
<1>2. Store!Change(Open')
  BY DEF Store!Change
<1>3. QED
  BY <1>1, <1>2 DEF Store!StoreNext, Groups

\* Writing a cell of a list.
LEMMA StepToSave ==
    ASSUME StoreInv, TypeOK, NEW d \in Cells, eep' = Written(d), ram' = ram,
           main.pc # "boot", main'.pc # "boot", main.code = Load <=> main'.code = Load,
           main.code = Load => d \notin LicenseCells, Open' = Open
    PROVE  Store!StoreNext
<1>1. \A c \in Kept : c \in Cells /\ c \notin Overlaps(d)
  BY DEF Kept, Volatile, Overlaps
<1>2. \A c \in Kept : eep'[c] = IF c = d THEN ram[c] ELSE eep[c]
  BY <1>1 DEF Written
<1>3. Shown' = Shown
  BY <1>2 DEF Shown
<1>4. ASSUME NEW c \in Kept
      PROVE  \/ Saved'[c] = Saved[c]
             \/ c \in Open /\ Saved'[c] = Shown[c]
  <2>1. CASE c # d
    <3>1. eep'[c] = eep[c]
      BY <1>2, <2>1
    <3>2. Saved'[c] = Saved[c]
      BY <3>1 DEF Saved
    <3>3. QED
      BY <3>2
  <2>2. CASE c = d
    <3>1. Saved'[c] = Shown[c]
      BY <1>2, <2>2 DEF Saved, Shown
    <3>2. QED
      BY <3>1, OutsideOpen
  <2>3. QED
    BY <2>1, <2>2
<1>5. Store!Save
  BY <1>3, <1>4 DEF Store!Save
<1>6. QED
  BY <1>5 DEF Store!StoreNext

\* The steps of TaskMain.
LEMMA MainRefines ==
    ASSUME MaxFault = 0, StoreInv, IInv', MainStep
    PROVE  Store!StoreNext \/ UNCHANGED Store!storeVars
<1>0. TypeOK /\ ~CanFault
  BY DEF StoreInv, IInv, CanFault, TypeOK
<1>l. Load # 0 /\ Load # 12 /\ Load # 253 /\ flag # Load
  BY <1>0 DEF Load, TypeOK, Codes
<1>p. Places
  BY DEF StoreInv, IInv
<1>k. Kept \subseteq Cells /\ DefaultCells \cap LicenseCells = {}
  BY LicenseApart DEF Kept
<1>1. CASE BootRead
  <2>1. /\ main.pc = "boot" /\ main.code = 0 /\ main' = MainIdle("loop")
        /\ ram' = [c \in Cells |-> Clamp(c, eep[c])] /\ UNCHANGED <<eep, flag, http>>
    BY <1>0, <1>1, <1>p DEF BootRead, Places
  <2>2. Saved' = Saved
    BY <2>1 DEF Saved
  <2>3. Shown' = Shown
    BY <1>k, <1>l, <2>1 DEF Shown, Clamp, MainIdle
  <2>4. Open' = Open
    BY <1>l, <2>1 DEF Open, MainIdle
  <2>5. QED
    BY <2>2, <2>3, <2>4 DEF Store!storeVars
<1>2. CASE BootDefaults
  <2>1. /\ main.pc = "boot" /\ UNCHANGED <<eep, flag, http>>
        /\ ram' = [c \in Cells |-> IF c \in DefaultCells THEN Default ELSE ram[c]]
        /\ main' = [pc |-> "save", code |-> Load, todo |-> DefaultSeq]
    BY <1>2 DEF BootDefaults
  <2>2. Saved' = Saved /\ Shown = Saved
    BY <2>1 DEF Saved, Shown
  <2>3. Open' = Kept \cap DefaultCells
    BY <2>1 DEF Open
  <2>4. \A c \in Kept \ Open' : Shown'[c] = Shown[c]
    BY <1>k, <2>1, <2>3 DEF Shown, Cells
  <2>5. QED
    BY <2>2, <2>4, StepToGroup
<1>3. CASE TelemetryPick
  <2>1. /\ main.pc = "loop" /\ main.code = 0 /\ UNCHANGED <<ram, eep, flag, http>>
        /\ main' = [pc |-> "save", code |-> flag, todo |-> SaveSeq(flag)]
    BY <1>3, <1>p DEF TelemetryPick, Places
  <2>2. QED
    BY <1>l, <2>1, Unchanged DEF Open, Store!storeVars
<1>4. CASE MainWriteOk
  <2>1. /\ main.pc = "save" /\ main'.pc = "wait" /\ main'.code = main.code
        /\ main.todo # <<>> /\ main.todo \in Seq(Cells)
        /\ eep' = Written(Head(main.todo)) /\ UNCHANGED <<ram, flag, http>>
    BY <1>0, <1>4 DEF MainWriteOk, TypeOK
  <2>2. Head(main.todo) \in Cells /\ Head(main.todo) \in Elems(main.todo)
    BY <2>1, ElemsTail
  <2>3. main.code = Load => Head(main.todo) \notin LicenseCells
    BY <1>k, <2>2 DEF StoreInv, ListInv
  <2>4. Open' = Open
    BY <2>1 DEF Open
  <2>5. QED
    BY <1>0, <2>1, <2>2, <2>3, <2>4, StepToSave
<1>5. CASE MainWriteFail \/ MainWake
  <2>1. /\ main.pc # "boot" /\ main'.pc # "boot" /\ main'.code = main.code
        /\ UNCHANGED <<ram, eep, flag, http>>
    BY <1>0, <1>5 DEF MainWriteFail, MainWake, TypeOK
  <2>2. QED
    BY <2>1, Unchanged DEF Open, Store!storeVars
<1>6. CASE LoadDone
  <2>1. /\ main.pc = "save" /\ main.code = Load /\ main.todo = <<>>
        /\ ram' = [c \in Cells |-> IF c \in LicenseCells THEN eep[c] ELSE ram[c]]
        /\ main' = MainIdle("loop") /\ UNCHANGED <<eep, flag, http>>
    BY <1>0, <1>6 DEF LoadDone
  <2>2. Owner = LicenseCells
    BY <1>l, <2>1, ElemsEmpty DEF Owner
  <2>3. Shown = Saved
    BY <2>1, <2>2, Calm
  <2>4. Saved' = Saved /\ Shown' = Shown
    BY <1>k, <1>l, <2>1 DEF Saved, Shown, MainIdle
  <2>5. QED
    BY <2>3, <2>4, StepToGroup
<1>7. CASE SaveDone \/ ResetPassword
  <2>1. /\ main.pc = "save" /\ main.code \notin {0, Load} /\ main' = MainIdle("loop")
        /\ UNCHANGED <<eep, http>>
    BY <1>l, <1>7, <1>p DEF SaveDone, ResetPassword, Places
  <2>2. CASE SaveDone /\ main.code = 12
    <3>1. ram' = ram /\ flag' = flag
      BY <2>2 DEF SaveDone, FlagAfter
    <3>2. QED
      BY <1>l, <2>1, <2>2, <3>1, Unchanged DEF Open, MainIdle, Store!storeVars
  <2>3. CASE SaveDone /\ main.code # 12
    <3>1. ram' = ram /\ Elems(main.todo) = {}
      BY <2>3, ElemsEmpty DEF SaveDone
    <3>2. Owner = {}
      BY <2>1, <2>3, <3>1 DEF Owner
    <3>3. Shown = Saved
      BY <3>2, Calm
    <3>4. Shown' = Shown /\ Saved' = Saved
      BY <1>l, <2>1, <3>1, Unchanged DEF MainIdle
    <3>5. QED
      BY <3>3, <3>4, StepToGroup
  <2>4. CASE ResetPassword
    <3>1. main.code = 253 /\ http.pc = "idle"
      BY <1>l, <2>4, <1>p DEF ResetPassword, Places
    <3>2. ~MainContended
      BY <2>1, <3>1, <1>p, <1>0 DEF MainContended, RestoreWriting, Places, TypeOK
    <3>3. \A c \in Cells : ram'[c] \in {eep[c], ram[c]}
      <4>1. PICK bad \in SUBSET {"PASSADMIN", "PASSUSER"} :
               /\ \/ MainContended /\ UNCHANGED faults
                  \/ ~MainContended /\ bad = {} /\ UNCHANGED faults
                  \/ CanFault /\ bad # {} /\ faults' = faults + 1
               /\ ram' = [c \in Cells |-> IF c \in bad THEN Default
                                          ELSE IF c \in {"PASSADMIN", "PASSUSER"}
                                          THEN eep[c] ELSE ram[c]]
        BY <2>4 DEF ResetPassword
      <4>2. bad = {}
        BY <1>0, <3>2, <4>1
      <4>3. QED
        BY <4>1, <4>2
    <3>4. Owner = {}
      <4>1. Elems(main.todo) \subseteq Elems(SaveSeq(253))
        BY <1>l, <3>1, <1>p DEF Places
      <4>2. SaveSeq(253) = <<>>
        BY DEF SaveSeq
      <4>3. QED
        BY <1>l, <3>1, <4>1, <4>2, ElemsEmpty DEF Owner
    <3>5. Shown = Saved
      BY <3>4, Calm
    <3>6. Saved' = Saved
      BY <2>1 DEF Saved
    <3>7. \A c \in Kept : Shown'[c] = Shown[c]
      <4> SUFFICES ASSUME NEW c \in Kept PROVE Shown'[c] = Shown[c]
        OBVIOUS
      <4>1. Shown'[c] = Clamp(c, ram'[c])
        BY <1>l, <2>1 DEF Shown, MainIdle, Clamp
      <4>2. Shown[c] = Clamp(c, ram[c]) /\ Saved[c] = Clamp(c, eep[c])
        BY <1>l, <2>1 DEF Shown, Saved
      <4>3. ram'[c] \in {eep[c], ram[c]}
        BY <1>k, <3>3
      <4>4. QED
        BY <3>5, <4>1, <4>2, <4>3
    <3>8. QED
      BY <3>5, <3>6, <3>7, StepToGroup
  <2>5. QED
    BY <1>7, <2>2, <2>3, <2>4
<1>8. QED
  BY <1>1, <1>2, <1>3, <1>4, <1>5, <1>6, <1>7 DEF MainStep

\* The steps of the HTTP thread.
LEMMA HttpRefines ==
    ASSUME Patient, RestoreAlone, MaxFault = 0, StoreInv, IInv', HttpStep \/ HttpRequest
    PROVE  Store!StoreNext \/ UNCHANGED Store!storeVars
<1>0. TypeOK /\ ~CanFault /\ Places
  BY DEF StoreInv, IInv, CanFault, TypeOK
<1>l. Load # 0 /\ Load # 12
  BY DEF Load
<1>k. Kept \subseteq Cells /\ Kept \cap Volatile = {} /\ DefaultCells \cap LicenseCells = {}
  BY LicenseApart DEF Kept
<1>m. main' = main /\ MainBlocked /\ main.pc # "boot" /\ main.code # Load
  BY DEF MainBlocked, HttpStep, HttpRequest, HttpSet, HttpBus, HttpPost, RestoreWriteOk,
     RestoreWriteFail, RestoreWriteLost, RestoreWake, RestoreDone
<1>1. CASE HttpSet
  <2>1. /\ http.pc = "set" /\ http.h \in HandlerNames
        /\ http.todo \in Seq(Cells) /\ http.todo # <<>>
        /\ Elems(http.todo) \subseteq Elems(SetSeq(http.h))
        /\ UNCHANGED <<eep, flag>>
        /\ ram' = [ram EXCEPT ![Head(http.todo)] =
                     NewValue(http.h, Head(http.todo), http.n)]
        /\ http'.pc = "set" /\ http'.h = http.h
    BY <1>0, <1>1 DEF HttpSet, Places, TypeOK
  <2>2. Saved' = Saved /\ Open' = Open
    BY <1>m, <2>1 DEF Saved, Open
  <2>3. Open = Kept \cap Elems(SaveSeq(CodeOf(http.h)))
    BY <1>m, <2>1 DEF Open
  <2>4. Head(http.todo) \in Elems(SaveSeq(CodeOf(http.h))) \cup Volatile
    BY <2>1, ElemsTail, PostCoversSet
  <2>5. ASSUME NEW c \in Kept \ Open' PROVE Shown'[c] = Shown[c]
    <3>1. c # Head(http.todo)
      BY <1>k, <2>2, <2>3, <2>4, <2>5
    <3>2. ram'[c] = ram[c]
      BY <1>0, <1>k, <2>1, <3>1 DEF TypeOK
    <3>3. QED
      BY <1>m, <3>2 DEF Shown
  <2>6. QED
    BY <2>2, <2>5, StepToGroup
<1>2. CASE HttpBus
  <2>1. /\ http.pc = "set" /\ http'.pc = "bus" /\ http'.h = http.h
        /\ UNCHANGED <<ram, eep, flag>>
    BY <1>0, <1>2 DEF HttpBus, TypeOK
  <2>2. QED
    BY <1>m, <2>1, Unchanged DEF Open, Store!storeVars
<1>3. CASE HttpPost
  <2>1. /\ http.pc \in {"set", "bus"} /\ http'.pc = "idle" /\ UNCHANGED <<ram, eep>>
        /\ flag' = IF http.h = "setRF" THEN flag ELSE CodeOf(http.h)
    BY <1>3 DEF HttpPost, HttpIdle
  <2>2. Shown' = Shown /\ Saved' = Saved
    BY <1>m, <2>1, Unchanged
  <2>3. CASE http.h # "setRF"
    <3>1. Open' = Open
      BY <1>m, <2>1, <2>3 DEF Open
    <3>2. QED
      BY <2>2, <3>1 DEF Store!storeVars
  <2>4. CASE http.h = "setRF"
    <3>1. SaveSeq(CodeOf(http.h)) = <<>>
      BY <2>4, HandlerTable DEF CodeOf, setRF, SaveSeq
    <3>2. Owner = {}
      BY <1>0, <1>l, <2>1, <3>1, ElemsEmpty DEF Owner, Places
    <3>3. QED
      BY <2>2, <3>2, Calm, StepToGroup
  <2>5. QED
    BY <2>3, <2>4
<1>4. CASE RestoreWriteOk
  <2>1. /\ http.pc = "restore" /\ http'.pc = "rwait"
        /\ http.todo # <<>> /\ http.todo \in Seq(Cells)
        /\ eep' = Written(Head(http.todo)) /\ UNCHANGED <<ram, flag>>
    BY <1>0, <1>4 DEF RestoreWriteOk, TypeOK
  <2>2. Open' = Open
    BY <2>1 DEF Open
  <2>3. QED
    BY <1>0, <1>m, <2>1, <2>2, ElemsTail, StepToSave
<1>5. CASE RestoreWriteFail
  <2>1. http.pc = "restore" /\ cycle # "none"
    BY <1>0, <1>5 DEF RestoreWriteFail
  <2>2. main.pc = "wait" /\ main.code = 0
    BY <1>0, <2>1 DEF Places, TypeOK
  <2>3. QED
    BY <1>0, <2>2 DEF Places
<1>10. CASE RestoreWriteLost
  BY <1>0, <1>10 DEF RestoreWriteLost, Places
<1>6. CASE RestoreWake
  <2>1. http.pc = "rwait" /\ http'.pc = "restore" /\ UNCHANGED <<ram, eep, flag>>
    BY <1>0, <1>6 DEF RestoreWake, TypeOK
  <2>2. QED
    BY <1>m, <2>1, Unchanged DEF Open, Store!storeVars
<1>7. CASE RestoreDone
  <2>1. http.pc = "restore" /\ http.todo = <<>> /\ UNCHANGED <<ram, eep>>
    BY <1>7 DEF RestoreDone
  <2>2. Owner = {}
    BY <1>0, <1>l, <2>1, ElemsEmpty DEF Owner, Places
  <2>3. QED
    BY <1>m, <2>1, <2>2, Calm, Unchanged, StepToGroup
<1>8. CASE HttpRequest
  <2>1. UNCHANGED <<eep, flag>> /\ Unsaved \subseteq Volatile
    BY <1>8 DEF HttpRequest, Settled
  <2>2. Shown = Saved /\ Saved' = Saved
    BY <1>k, <1>m, <2>1 DEF Shown, Saved, Unsaved
  <2>3. PICK h \in Requests :
           IF h = "SetRestoreFactory"
           THEN /\ http' = [pc |-> "restore", h |-> h, todo |-> DefaultSeq,
                            n |-> reqs']
                /\ ram' = [c \in Cells |-> IF c \in DefaultCells THEN Default
                                           ELSE ram[c]]
           ELSE /\ http' = [pc |-> "set", h |-> h, todo |-> SetSeq(h),
                            n |-> reqs']
                /\ UNCHANGED ram
    BY <1>8 DEF HttpRequest
  <2>4. CASE h = "SetRestoreFactory"
    <3>1. Open' = Kept \cap DefaultCells
      BY <2>3, <2>4 DEF Open
    <3>2. \A c \in Kept \ Open' : ram'[c] = ram[c]
      BY <1>k, <2>3, <2>4, <3>1
    <3>3. \A c \in Kept \ Open' : Shown'[c] = Shown[c]
      BY <1>m, <3>2 DEF Shown
    <3>4. QED
      BY <2>2, <3>3, StepToGroup
  <2>5. CASE h # "SetRestoreFactory"
    BY <1>m, <2>1, <2>2, <2>3, <2>5, Unchanged, StepToGroup
  <2>6. QED
    BY <2>4, <2>5
<1>9. QED
  BY <1>1, <1>2, <1>3, <1>4, <1>5, <1>6, <1>7, <1>8, <1>10 DEF HttpStep

\* Every step is one of the abstract store or leaves it alone.
LEMMA StepRefines ==
    ASSUME Patient, RestoreAlone, MaxFault = 0
    PROVE  StoreInv /\ IInv' /\ [Next]_vars => [Store!StoreNext]_(Store!storeVars)
<1> SUFFICES ASSUME StoreInv, IInv', [Next]_vars
             PROVE  Store!StoreNext \/ UNCHANGED Store!storeVars
  OBVIOUS
<1>1. CASE MainStep
  BY <1>1, MainRefines
<1>2. CASE HttpStep \/ HttpRequest
  BY <1>2, HttpRefines
<1>3. CASE CycleEnds \/ Quiescent \/ UNCHANGED vars
  <2>1. UNCHANGED <<ram, eep, flag, main, http>>
    BY <1>3 DEF CycleEnds, Quiescent, vars
  <2>2. QED
    BY <2>1, Unchanged DEF Open, Store!storeVars
<1>4. CASE Reset
  <2>1. /\ main' = MainIdle("boot") /\ http' = HttpIdle /\ flag' = 0 /\ eep' = eep
    BY <1>4 DEF Reset
  <2>2. Saved' = Saved /\ Shown' = Saved
    BY <2>1 DEF Saved, Shown, MainIdle
  <2>3. Open' = {}
    <3>1. SaveSeq(0) = <<>>
      BY DEF SaveSeq
    <3>2. QED
      BY <2>1, <3>1, ElemsEmpty DEF Open, MainIdle, HttpIdle, Load
  <2>4. Store!Restart
    BY <2>2, <2>3 DEF Store!Restart
  <2>5. QED
    BY <2>4 DEF Store!StoreNext
<1>5. QED
  BY <1>1, <1>2, <1>3, <1>4 DEF Next

\* A client that waits for each save, and restores the factory settings only while no
\* code is pending, has, on a healthy bus, a store in which nothing is
\* lost but what it is changing: for any handlers and any number of requests and resets.
THEOREM Refinement ==
    ASSUME Patient, RestoreAlone, MaxFault = 0
    PROVE  Spec => ImplementsStore
<1>1. Init => Store!StoreInit /\ ListInv
  <2> SUFFICES ASSUME Init PROVE Store!StoreInit /\ ListInv
    OBVIOUS
  <2>1. main.pc = "boot" /\ main.code = 0 /\ http.pc = "idle" /\ flag = 0
    BY DEF Init, MainIdle, HttpIdle
  <2>2. SaveSeq(0) = <<>>
    BY DEF SaveSeq
  <2>3. Shown = Saved /\ Open = {}
    BY <2>1, <2>2, ElemsEmpty DEF Shown, Saved, Open, Load
  <2>4. QED
    BY <2>1, <2>3 DEF Store!StoreInit, ListInv, Restoring, Load
<1>2. IInv => TypeOK
  BY DEF IInv
<1>3. Spec => [](StoreInv)
  BY <1>1, <1>2, InitIInv, StepIInv, StepListInv, PTL DEF Spec, StoreInv
<1>4. QED
  BY <1>1, <1>3, InitIInv, StepIInv, StepRefines, PTL
     DEF Spec, StoreInv, ImplementsStore, Store!StoreSpec
=============================================================================
