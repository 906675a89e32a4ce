------------------------------ MODULE RmtCtrl ------------------------------
(***************************************************************************)
(* Remote control of the vehicle, PP_rmtCtrl.c and the controls it calls.  *)
(*                                                                         *)
(* A control is asked for by the TSP, in the protocol thread, or over      *)
(* Bluetooth, in the BLE thread.  The request takes the control's bit of   *)
(* the lock.  PP_rmtCtrl_mainfunction then authenticates with the BDCM     *)
(* and calls the controls' main functions until all of them have ended.    *)
(* An upgrade, asked for over HTTP in the OTA server's thread, shares the  *)
(* lock and the authentication.                                            *)
(*                                                                         *)
(* The waits are bounded by the clock; whether one is over, what the       *)
(* vehicle reports and how an authentication ends are free choices.        *)
(***************************************************************************)
EXTENDS OdcLock, Sequences

CONSTANTS
    PP_RmtCtrlFunc, \* the controls of this instance, in the order of the table
    ClearOrder,     \* the same, in the order of PP_rmtCtrl_clear
    Repeats,        \* a control may be asked for while it is busy
    BleRaces,       \* the BLE thread may run between two statements of others
    Stops           \* commands whose end is not waited for: sunroof stop, ...

ASSUME RmtCtrlAssumption ==
    /\ PP_RmtCtrlFunc \in Seq(Ctrl) /\ ClearOrder \in Seq(Ctrl)
    /\ PP_RmtCtrlFunc # <<>> /\ Len(ClearOrder) = Len(PP_RmtCtrlFunc)
    /\ \A o \in Ctrl : \E i \in DOMAIN PP_RmtCtrlFunc : PP_RmtCtrlFunc[i] = o
    /\ \A o \in Ctrl : \E i \in DOMAIN ClearOrder : ClearOrder[i] = o
    /\ Ctrl \subseteq {"DOORLOCK", "SUNROOF", "AUTODOOR", "SEARCHVEHI",
                       "CAMERA", "RMTSTART"}
    /\ Repeats \in BOOLEAN /\ BleRaces \in BOOLEAN /\ Stops \in BOOLEAN

VARIABLES
    rmtCtrlSt,      \* PP_rmtCtrl.rmtCtrlSt
    pc,             \* where in a turn the protocol thread is
    ctl,            \* per control: its state structure
    fota,           \* PP_rmtCtrl.fotaAuthReq, fotaAuthResult, fotaUpgradeSt
    wsrv,           \* s_u8BDCMAuthResult of the OTA server
    ble,            \* the control the BLE thread has the lock for, or "none"
    told            \* (history) who the last step sent an answer to

ctrlVars == <<PP_odc_lockflag, rmtCtrlSt, pc, ctl, fota, wsrv, ble, told>>

ppOnly == <<fota, wsrv, ble>>

At(place, i) == [at |-> place, no |-> i]

RmtCtrlInit ==
    /\ LockInit
    /\ rmtCtrlSt = "IDLE" /\ pc = At("turn", 1)
    /\ ctl = [o \in Ctrl |-> [req |-> FALSE, CtrlSt |-> "IDLE", style |-> "TSP",
                              cmd |-> "stop"]]
    /\ fota = [AuthReq |-> FALSE, AuthResult |-> 0, UpgradeSt |-> FALSE]
    /\ wsrv = 0 /\ ble = "none" /\ told = "nobody"

-----------------------------------------------------------------------------
(* SetPP_..._Request                                                       *)

Busy(o) == ctl[o].req \/ ctl[o].CtrlSt # "IDLE"

MayAsk(o) == Repeats \/ ~Busy(o)

Commands == IF Stops THEN {"go", "stop"} ELSE {"go"}

\* Only the sunroof has commands of both kinds; the search keeps the command
\* it had when a request names another one.
CommandOf(o, c) ==
    CASE o = "SUNROOF" -> c
      [] o = "SEARCHVEHI" -> IF c = "go" THEN "go" ELSE ctl[o].cmd
      [] OTHER -> "go"

\* The request is written into the control's structure, over whatever request
\* is there, even one that is being carried out.
Requested(o, style, c) ==
    [ctl EXCEPT ![o] = [@ EXCEPT !.req = TRUE, !.style = style,
                                 !.cmd = CommandOf(o, c)]]

\* Who is told of a refusal, a request of who for o: the callers compare the
\* value that came back with PP_LOCK_ERR_FOTAUPDATE.
RefusalTo(who, o) ==
    IF SetReturns(o, PP_odc_lockflag) = PP_LOCK_ERR_FOTAUPDATE THEN who
    ELSE "nobody"

\* Definitions named Mut... are mutated forms of the one that follows, used by
\* no action.  Here: a refused request is written all the same.
MutTspRequest(o) ==
    /\ o # "RMTSTART" /\ MayAsk(o)
    /\ setPP_lock_odcmtxlock(o)
    /\ \E c \in Commands : ctl' = Requested(o, "TSP", c)
    /\ told' = "nobody"

\* PP_rmtCtrl_RxMsgHandle
TspRequest(o) ==
    /\ o # "RMTSTART" /\ MayAsk(o)
    /\ setPP_lock_odcmtxlock(o)
    /\ IF Granted(o, PP_odc_lockflag)
       THEN \E c \in Commands : ctl' = Requested(o, "TSP", c) /\ told' = "nobody"
       ELSE told' = RefusalTo("TSP", o) /\ UNCHANGED ctl

\* One turn of the protocol thread begins with at most one message.
PP_rmtCtrl_do_rcvMsg ==
    /\ pc.at = "turn"
    /\ pc' = At(IF rmtCtrlSt = "COMMAND_LAUNCH" THEN "command" ELSE "switch", 1)
    /\ \/ \E o \in Ctrl : TspRequest(o)
       \/ UNCHANGED <<PP_odc_lockflag, ctl>> /\ told' = "nobody"
    /\ UNCHANGED <<rmtCtrlSt, ppOnly>>

-----------------------------------------------------------------------------
(* The controls.  One call of a main function is one step; next is what    *)
(* the protocol thread does after it.                                      *)

\* The control goes from one of its states to another.
CtrlMoves(o, from, to) ==
    /\ ctl[o].CtrlSt = from
    /\ ctl' = [ctl EXCEPT ![o] = [@ EXCEPT !.CtrlSt = to]]
    /\ told' = "nobody"
    /\ UNCHANGED PP_odc_lockflag

\* IDLE with a request.  Most controls want the vehicle switched off, and end
\* at once when it is not; the TSP is told when the control starts.
CtrlStarts(o, checksVehicle) ==
    /\ ctl[o].CtrlSt = "IDLE" /\ ctl[o].req
    /\ \E to \in {"REQSTART"} \cup (IF checksVehicle THEN {"END"} ELSE {}) :
          /\ ctl' = [ctl EXCEPT ![o] = [@ EXCEPT !.CtrlSt = to, !.req = FALSE]]
          /\ told' = IF to = "REQSTART" /\ ctl[o].style = "TSP" THEN "TSP"
                     ELSE "nobody"
    /\ UNCHANGED PP_odc_lockflag

\* Mutated form: the control stays at its end until it is asked for again.
MutCtrlEnds(o) ==
    /\ ctl[o].CtrlSt = "END" /\ ctl[o].req
    /\ told' = ctl[o].style
    /\ clearPP_lock_odcmtxlock(o)
    /\ ctl' = [ctl EXCEPT ![o] = [@ EXCEPT !.CtrlSt = "IDLE"]]

\* Mutated form: the answer goes to the TSP, whoever asked.
MutCtrlEndsTsp(o) ==
    /\ ctl[o].CtrlSt = "END"
    /\ told' = "TSP"
    /\ clearPP_lock_odcmtxlock(o)
    /\ ctl' = [ctl EXCEPT ![o] = [@ EXCEPT !.CtrlSt = "IDLE"]]

\* END: whoever asked last is answered, and the bit is given back although a
\* new request may be waiting.
CtrlEnds(o) ==
    /\ ctl[o].CtrlSt = "END"
    /\ told' = ctl[o].style
    /\ clearPP_lock_odcmtxlock(o)
    /\ ctl' = [ctl EXCEPT ![o] = [@ EXCEPT !.CtrlSt = "IDLE"]]

CtrlProgress(o, checksVehicle, unanswered) ==
    \/ CtrlStarts(o, checksVehicle)
    \/ CtrlMoves(o, "REQSTART", "RESPWAIT")
    \/ ~unanswered /\ CtrlMoves(o, "RESPWAIT", "END")
    \/ CtrlEnds(o)

PP_doorLockCtrl_mainfunction == CtrlProgress("DOORLOCK", TRUE, FALSE)

PP_autodoorCtrl_mainfunction == CtrlProgress("AUTODOOR", TRUE, FALSE)

\* RESPWAIT looks for the end of open, close and tilt, not of stop.
PP_sunroofctrl_mainfunction ==
    CtrlProgress("SUNROOF", FALSE, ctl["SUNROOF"].cmd = "stop")

\* RESPWAIT looks at the clock only for the search command.
PP_searchvehicle_mainfunction ==
    CtrlProgress("SEARCHVEHI", TRUE, ctl["SEARCHVEHI"].cmd = "stop")

PP_bluetoothstart_mainfunction == CtrlProgress("RMTSTART", TRUE, FALSE)

\* The request is passed on to the head unit in a single call.
PP_CameraCtr_mainfunction ==
    /\ ctl["CAMERA"].req
    /\ told' = "TSP"
    /\ clearPP_lock_odcmtxlock("CAMERA")
    /\ ctl' = [ctl EXCEPT !["CAMERA"] = [@ EXCEPT !.req = FALSE]]

mainFunc(o) ==
    \/ o = "DOORLOCK" /\ PP_doorLockCtrl_mainfunction
    \/ o = "AUTODOOR" /\ PP_autodoorCtrl_mainfunction
    \/ o = "SUNROOF" /\ PP_sunroofctrl_mainfunction
    \/ o = "SEARCHVEHI" /\ PP_searchvehicle_mainfunction
    \/ o = "RMTSTART" /\ PP_bluetoothstart_mainfunction
    \/ o = "CAMERA" /\ PP_CameraCtr_mainfunction

\* The call changes nothing: nothing asked for, or a wait that goes on.
CtrlStays(o) ==
    /\ \/ ctl[o].CtrlSt = "IDLE" /\ ~ctl[o].req
       \/ ctl[o].CtrlSt = "RESPWAIT"
    /\ told' = "nobody"
    /\ UNCHANGED <<PP_odc_lockflag, ctl>>

-----------------------------------------------------------------------------
(* The switch of PP_rmtCtrl_mainfunction.                                  *)

Switch(from, to) ==
    /\ pc.at = "switch" /\ rmtCtrlSt = from
    /\ rmtCtrlSt' = to
    /\ pc' = At("turn", 1)
    /\ told' = "nobody"
    /\ UNCHANGED <<PP_odc_lockflag, ctl, wsrv, ble>>

PP_rmtCtrl_request == \E o \in Ctrl : ctl[o].req

\* RMTCTRL_IDLE: an upgrade's wish to authenticate goes first.
SwitchIdle ==
    \/ /\ fota.AuthReq
       /\ Switch("IDLE", "IDENTIFICAT_LAUNCH")
       /\ fota' = [fota EXCEPT !.AuthReq = FALSE]
    \/ /\ ~fota.AuthReq
       /\ Switch("IDLE", IF PP_rmtCtrl_request THEN "IDENTIFICAT_QUERY"
                         ELSE "IDLE")
       /\ UNCHANGED fota

\* RMTCTRL_IDENTIFICAT_QUERY: an authentication may still be valid.
SwitchQuery ==
    /\ \/ Switch("IDENTIFICAT_QUERY", "COMMAND_LAUNCH")
       \/ Switch("IDENTIFICAT_QUERY", "IDENTIFICAT_LAUNCH")
    /\ UNCHANGED fota

\* RMTCTRL_IDENTIFICAT_LAUNCH, with the three results of
\* PP_identificat_mainfunction.  A failure is told to the TSP, whoever asked,
\* and every request is thrown away (PP_rmtCtrl_clear).
AuthSucceeds ==
    /\ Switch("IDENTIFICAT_LAUNCH",
              IF fota.UpgradeSt THEN "END" ELSE "COMMAND_LAUNCH")
    /\ fota' = [fota EXCEPT !.AuthResult = 1]

\* Mutated form: the upgrade is not told that the authentication failed.
MutAuthFails ==
    /\ pc.at = "switch" /\ rmtCtrlSt = "IDENTIFICAT_LAUNCH"
    /\ pc' = At("clearlock", 1)
    /\ told' = "TSP"
    /\ UNCHANGED <<PP_odc_lockflag, rmtCtrlSt, ctl, wsrv, ble, fota>>

AuthFails ==
    /\ pc.at = "switch" /\ rmtCtrlSt = "IDENTIFICAT_LAUNCH"
    /\ pc' = At("clearlock", 1)
    /\ fota' = [fota EXCEPT !.AuthResult = -1, !.UpgradeSt = FALSE]
    /\ told' = "TSP"
    /\ UNCHANGED <<PP_odc_lockflag, rmtCtrlSt, ctl, wsrv, ble>>

AuthGoesOn ==
    Switch("IDENTIFICAT_LAUNCH", "IDENTIFICAT_LAUNCH") /\ UNCHANGED fota

SwitchEnd == Switch("END", "IDLE") /\ UNCHANGED fota

-----------------------------------------------------------------------------
(* PP_rmtCtrl_clear, the two statements of each ..._ClearStatus.           *)

Current ==
    IF pc.at \in {"clearlock", "clearreq"} THEN ClearOrder[pc.no]
    ELSE PP_RmtCtrlFunc[pc.no]

IsLast == pc.no = Len(PP_RmtCtrlFunc)

\* Mutated form: only the request is cleared.
MutClearStatusLock ==
    /\ pc.at = "clearlock" /\ pc' = At("clearreq", pc.no)
    /\ told' = "nobody"
    /\ UNCHANGED <<PP_odc_lockflag, rmtCtrlSt, ctl, ppOnly>>

ClearStatusLock ==
    /\ pc.at = "clearlock" /\ pc' = At("clearreq", pc.no)
    /\ clearPP_lock_odcmtxlock(Current)
    /\ told' = "nobody"
    /\ UNCHANGED <<rmtCtrlSt, ctl, ppOnly>>

ClearStatusReq ==
    /\ pc.at = "clearreq"
    /\ pc' = IF IsLast THEN At("turn", 1) ELSE At("clearlock", pc.no + 1)
    /\ rmtCtrlSt' = IF IsLast THEN "END" ELSE rmtCtrlSt
    /\ ctl' = [ctl EXCEPT ![Current] = [@ EXCEPT !.req = FALSE]]
    /\ told' = "nobody"
    /\ UNCHANGED <<PP_odc_lockflag, ppOnly>>

-----------------------------------------------------------------------------
(* RMTCTRL_COMMAND_LAUNCH: every main function, then PP_rmtCtrl_end.       *)

CommandProgress ==
    /\ pc.at = "command"
    /\ pc' = IF IsLast THEN At("ended", 1) ELSE At("command", pc.no + 1)
    /\ mainFunc(Current)
    /\ UNCHANGED <<rmtCtrlSt, ppOnly>>

CommandStays ==
    /\ pc.at = "command"
    /\ pc' = IF IsLast THEN At("ended", 1) ELSE At("command", pc.no + 1)
    /\ CtrlStays(Current)
    /\ UNCHANGED <<rmtCtrlSt, ppOnly>>

\* Mutated form: the commands are over when no request is waiting.
MutEnd == \A o \in Ctrl : ~ctl[o].req

PP_rmtCtrl_end == \A o \in Ctrl : ~ctl[o].req /\ ctl[o].CtrlSt = "IDLE"

CommandsEnded ==
    /\ pc.at = "ended" /\ pc' = At("turn", 1)
    /\ rmtCtrlSt' = IF PP_rmtCtrl_end THEN "END" ELSE rmtCtrlSt
    /\ told' = "nobody"
    /\ UNCHANGED <<PP_odc_lockflag, ctl, ppOnly>>

-----------------------------------------------------------------------------
(* The BLE thread: PP_rmtCtrl_BluetoothCtrlReq.                            *)

bleKeeps == <<rmtCtrlSt, pc, fota, wsrv>>

BleMayAsk(o) ==
    /\ o # "CAMERA" /\ ble = "none" /\ MayAsk(o)
    /\ BleRaces \/ pc.at # "clearreq"

\* The lock is taken, then the request is written.
BleTakesLock(o) ==
    /\ BleMayAsk(o) /\ BleRaces
    /\ setPP_lock_odcmtxlock(o)
    /\ ble' = IF Granted(o, PP_odc_lockflag) THEN o ELSE "none"
    /\ told' = RefusalTo("BLE", o)
    /\ UNCHANGED <<bleKeeps, ctl>>

BleWritesRequest ==
    /\ ble # "none" /\ ble' = "none"
    /\ \E c \in Commands : ctl' = Requested(ble, "BLE", c)
    /\ told' = "nobody"
    /\ UNCHANGED <<bleKeeps, PP_odc_lockflag>>

\* Both in one, when no other thread runs in between.
BleRequest(o) ==
    /\ BleMayAsk(o) /\ ~BleRaces
    /\ setPP_lock_odcmtxlock(o)
    /\ \E c \in Commands :
          ctl' = IF Granted(o, PP_odc_lockflag) THEN Requested(o, "BLE", c)
                 ELSE ctl
    /\ told' = RefusalTo("BLE", o)
    /\ UNCHANGED <<bleKeeps, ble>>

-----------------------------------------------------------------------------
(* The OTA server: the requests to enter and to leave the OTA mode.        *)

wsrvKeeps == <<rmtCtrlSt, pc, ctl, ble>>

\* SetPP_rmtCtrl_FOTA_startInform
SetPP_rmtCtrl_FOTA_startInform ==
    /\ setPP_lock_odcmtxlock("FOTAUPDATE")
    /\ IF Granted("FOTAUPDATE", PP_odc_lockflag)
       THEN /\ fota' = [AuthReq |-> TRUE, AuthResult |-> 0, UpgradeSt |-> TRUE]
            /\ wsrv' = 0
       ELSE UNCHANGED fota /\ wsrv' = 2

\* Mutated form: the upgrade stays marked as under way.
MutEndInform(f) ==
    /\ fota' = f
    /\ clearPP_lock_odcmtxlock("FOTAUPDATE")

SetPP_rmtCtrl_FOTA_endInform(f) ==
    /\ fota' = [f EXCEPT !.UpgradeSt = FALSE]
    /\ clearPP_lock_odcmtxlock("FOTAUPDATE")

ModeIn ==
    /\ SetPP_rmtCtrl_FOTA_startInform
    /\ told' = "nobody"
    /\ UNCHANGED wsrvKeeps

\* The authentication is over and the vehicle is asked for the OTA mode.
AuthSeen ==
    /\ wsrv = 0 /\ fota.AuthResult = 1
    /\ wsrv' = 1
    /\ UNCHANGED <<PP_odc_lockflag, fota>>

\* Polled by the client.  The upgrade is given up when the authentication
\* failed, when the vehicle does not enter the OTA mode, and also when the
\* client asks for the result of a request that was refused.
ModeInResult ==
    /\ \/ AuthSeen
       \/ /\ \/ wsrv = 0 /\ fota.AuthResult = -1
             \/ wsrv = 1
             \/ wsrv = 2
          /\ SetPP_rmtCtrl_FOTA_endInform(fota)
          /\ UNCHANGED wsrv
    /\ told' = "nobody"
    /\ UNCHANGED wsrvKeeps

\* SetPP_rmtCtrl_AuthRequest, then the end of the upgrade.
ModeOut ==
    /\ SetPP_rmtCtrl_FOTA_endInform([fota EXCEPT !.AuthReq = TRUE, !.AuthResult = 0])
    /\ wsrv' = 0 /\ told' = "nobody"
    /\ UNCHANGED wsrvKeeps

\* A failure to leave the OTA mode is only reported.
ModeOutResult == AuthSeen /\ told' = "nobody" /\ UNCHANGED wsrvKeeps

-----------------------------------------------------------------------------

ProtocolThread ==
    \/ PP_rmtCtrl_do_rcvMsg
    \/ SwitchIdle \/ SwitchQuery \/ SwitchEnd
    \/ AuthSucceeds \/ AuthFails \/ AuthGoesOn
    \/ ClearStatusLock \/ ClearStatusReq
    \/ CommandProgress \/ CommandStays \/ CommandsEnded

RmtCtrlNext ==
    \/ ProtocolThread
    \/ \E o \in Ctrl : BleTakesLock(o) \/ BleRequest(o)
    \/ BleWritesRequest
    \/ ModeIn \/ ModeInResult \/ ModeOut \/ ModeOutResult

\* The protocol thread runs and the BLE thread finishes what it began.  Every
\* wait of a control and every authentication is bounded by the clock or by a
\* number of tries, so it ends if it is looked at again and again.
RmtCtrlFairness ==
    /\ WF_ctrlVars(ProtocolThread)
    /\ WF_ctrlVars(BleWritesRequest)
    /\ \A o \in Ctrl : SF_ctrlVars(CommandProgress /\ Current = o)
    /\ SF_ctrlVars(AuthSucceeds \/ AuthFails)

RmtCtrlSpec == RmtCtrlInit /\ [][RmtCtrlNext]_ctrlVars /\ RmtCtrlFairness

-----------------------------------------------------------------------------

ControlRecord ==
    [req : BOOLEAN, CtrlSt : {"IDLE", "REQSTART", "RESPWAIT", "END"},
     style : {"TSP", "BLE"}, cmd : {"go", "stop"}]

\* The state of PP_rmtCtrl and of the controls, and the place of the protocol
\* thread within its loops over the table and over PP_rmtCtrl_clear.
RmtCtrlTypeOK ==
    /\ LockTypeOK
    /\ rmtCtrlSt \in {"IDLE", "IDENTIFICAT_QUERY", "IDENTIFICAT_LAUNCH",
                      "COMMAND_LAUNCH", "END"}
    /\ pc \in [at : {"turn", "switch", "command", "ended", "clearlock",
                    "clearreq"},
              no : 1 .. Len(PP_RmtCtrlFunc)]
    /\ ctl \in [Ctrl -> ControlRecord]
    /\ fota \in [AuthReq : BOOLEAN, AuthResult : {-1, 0, 1},
                 UpgradeSt : BOOLEAN]
    /\ wsrv \in {0, 1, 2} /\ ble \in Ctrl \cup {"none"}
    /\ told \in {"nobody", "TSP", "BLE"}

\* A control that has begun is carried on: PP_rmtCtrl_mainfunction leaves
\* COMMAND_LAUNCH, the only state in which the controls are called, with every
\* control back in IDLE, whenever requests come in.
NoControlAbandoned ==
    (\E o \in Ctrl : ctl[o].CtrlSt # "IDLE") => rmtCtrlSt = "COMMAND_LAUNCH"

\* fotaUpgradeSt, which decides whether an authentication was for an upgrade,
\* is set only while the upgrade has the lock: neither a failed authentication
\* nor a second or a refused MODEIN separates the two.
UpgradeHoldsLock == fota.UpgradeSt => "FOTAUPDATE" \in PP_odc_lockflag

\* While an upgrade has the lock no control is waiting or under way, the
\* remote start excepted, which the lock always lets pass.  A request that a
\* failed authentication is throwing away no longer counts as waiting.
ControlExcludesFota ==
    "FOTAUPDATE" \in PP_odc_lockflag =>
        \A o \in Ctrl \ {"RMTSTART"} :
            Busy(o) => pc.at = "clearreq" /\ Current = o /\ ctl[o].CtrlSt = "IDLE"

\* A control's bit is set only for a request that is waiting, being written,
\* or under way: an upgrade is not refused for a control that is over.
NoControlLeak ==
    \A o \in Ctrl :
        o \in PP_odc_lockflag => Busy(o) \/ ble = o

\* Every control that is started comes to its end and gives its bit back.
ControlEnds ==
    \A o \in Ctrl : (ctl[o].CtrlSt # "IDLE") ~> (ctl[o].CtrlSt = "IDLE")

\* The client that polls for the result of MODEIN gets one.
UpgradeIsAnswered ==
    (fota.UpgradeSt /\ fota.AuthResult = 0)
        ~> (fota.AuthResult # 0 \/ ~fota.UpgradeSt)

\* "a Bluetooth control is answered once, when it is done": a control that was
\* started for Bluetooth is answered there.
BluetoothIsAnswered ==
    \A o \in Ctrl :
        (ctl[o].CtrlSt # "IDLE" /\ ctl[o].style = "BLE") ~> (told = "BLE")
=============================================================================
