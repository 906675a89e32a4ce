--------------------------- MODULE RmtCtrlProofs ---------------------------
(***************************************************************************)
(* Remote control for any number of the modelled controls, in any order of *)
(* the table and of PP_rmtCtrl_clear.                                      *)
(***************************************************************************)
EXTENDS RmtCtrl, OdcLockProofs

\* The control at the table index is one of the instance's, has a bit of its
\* own, and the next index is in range unless this one is the last.
LEMMA Table ==
    ASSUME RmtCtrlTypeOK
    PROVE  /\ Current \in Ctrl
           /\ Ctrl \subseteq Obj /\ "SEAT" \notin Ctrl /\ "FOTAUPDATE" \in Obj
           /\ "FOTAUPDATE" \notin Ctrl /\ Ctrl \subseteq CtrlAll
           /\ 1 \in 1 .. Len(PP_RmtCtrlFunc)
           /\ ~IsLast => pc.no + 1 \in 1 .. Len(PP_RmtCtrlFunc)
<1>1. /\ PP_RmtCtrlFunc \in Seq(Ctrl) /\ ClearOrder \in Seq(Ctrl)
      /\ PP_RmtCtrlFunc # <<>> /\ Len(ClearOrder) = Len(PP_RmtCtrlFunc)
  BY RmtCtrlAssumption
<1>2. Current \in Ctrl
  BY <1>1 DEF Current, RmtCtrlTypeOK
<1>3. 1 \in 1 .. Len(PP_RmtCtrlFunc)
  BY <1>1
<1>4. ~IsLast => pc.no + 1 \in 1 .. Len(PP_RmtCtrlFunc)
  BY <1>1 DEF IsLast, RmtCtrlTypeOK
<1> QED
  BY <1>2, <1>3, <1>4, CtrlAssumption, RmtCtrlAssumption
  DEF Obj, OtaAll, DiagAll, CtrlAll

\* The calls of the lock keep its type.
LEMMA CtrlLockCalls ==
    ASSUME NEW o \in Obj, LockTypeOK,
           setPP_lock_odcmtxlock(o) \/ clearPP_lock_odcmtxlock(o)
    PROVE  LockTypeOK'
  BY SetFlagType DEF LockTypeOK, setPP_lock_odcmtxlock, clearPP_lock_odcmtxlock

\* A request is written as a control record.
LEMMA RequestType ==
    ASSUME ctl \in [Ctrl -> ControlRecord], NEW o \in Ctrl,
           NEW style \in {"TSP", "BLE"}, NEW c \in Commands
    PROVE  Requested(o, style, c) \in [Ctrl -> ControlRecord]
<1>1. CommandOf(o, c) \in {"go", "stop"}
  BY DEF CommandOf, Commands, ControlRecord
<1> QED
  BY <1>1 DEF Requested, ControlRecord

\* Whoever is told of a refusal is a name of who may be told.
LEMMA RefusalType ==
    ASSUME NEW who \in {"TSP", "BLE"}, NEW o
    PROVE  RefusalTo(who, o) \in {"nobody", "TSP", "BLE"}
  BY DEF RefusalTo

\* What one call of a control's main function leaves behind.
LEMMA MainFuncType ==
    ASSUME RmtCtrlTypeOK, NEW o \in Ctrl, mainFunc(o) \/ CtrlStays(o)
    PROVE  /\ LockTypeOK' /\ ctl' \in [Ctrl -> ControlRecord]
           /\ told' \in {"nobody", "TSP", "BLE"}
<1> USE DEF RmtCtrlTypeOK
<1>1. CASE CtrlStays(o)
  BY <1>1 DEF CtrlStays, LockTypeOK
<1>2. ASSUME NEW checks, CtrlStarts(o, checks)
      PROVE  /\ LockTypeOK' /\ ctl' \in [Ctrl -> ControlRecord]
             /\ told' \in {"nobody", "TSP", "BLE"}
  <2>1. PICK to \in {"REQSTART", "END"} :
           /\ ctl' = [ctl EXCEPT ![o] = [@ EXCEPT !.CtrlSt = to, !.req = FALSE]]
           /\ told' = IF to = "REQSTART" /\ ctl[o].style = "TSP" THEN "TSP"
                      ELSE "nobody"
    BY <1>2 DEF CtrlStarts
  <2>2. ctl' \in [Ctrl -> ControlRecord]
    BY <2>1 DEF ControlRecord
  <2> QED
    BY <1>2, <2>1, <2>2 DEF CtrlStarts, LockTypeOK
<1>3. ASSUME NEW from, NEW to \in {"RESPWAIT", "END"}, CtrlMoves(o, from, to)
      PROVE  /\ LockTypeOK' /\ ctl' \in [Ctrl -> ControlRecord]
             /\ told' \in {"nobody", "TSP", "BLE"}
  BY <1>3 DEF CtrlMoves, LockTypeOK, ControlRecord
<1>4. ASSUME CtrlEnds(o)
      PROVE  /\ LockTypeOK' /\ ctl' \in [Ctrl -> ControlRecord]
             /\ told' \in {"nobody", "TSP", "BLE"}
  <2>1. LockTypeOK'
    BY <1>4, Table, CtrlLockCalls DEF CtrlEnds
  <2>2. ctl' \in [Ctrl -> ControlRecord] /\ told' \in {"TSP", "BLE"}
    BY <1>4 DEF CtrlEnds, ControlRecord
  <2> QED
    BY <2>1, <2>2
<1>5. CASE o = "CAMERA" /\ PP_CameraCtr_mainfunction
  <2>1. LockTypeOK'
    BY <1>5, Table, CtrlLockCalls DEF PP_CameraCtr_mainfunction
  <2>2. ctl' \in [Ctrl -> ControlRecord] /\ told' = "TSP"
    <3>1. "CAMERA" \in Ctrl /\ ctl["CAMERA"] \in ControlRecord
      BY <1>5
    <3>2. [ctl["CAMERA"] EXCEPT !.req = FALSE] \in ControlRecord
      BY <3>1 DEF ControlRecord
    <3> QED
      BY <1>5, <3>1, <3>2 DEF PP_CameraCtr_mainfunction
  <2> QED
    BY <2>1, <2>2
<1>6. ASSUME NEW checks, NEW unanswered, CtrlProgress(o, checks, unanswered)
      PROVE  /\ LockTypeOK' /\ ctl' \in [Ctrl -> ControlRecord]
             /\ told' \in {"nobody", "TSP", "BLE"}
  BY <1>2, <1>3, <1>4, <1>6 DEF CtrlProgress
<1>7. ASSUME mainFunc(o), o # "CAMERA"
      PROVE  \E checks, unanswered \in BOOLEAN : CtrlProgress(o, checks, unanswered)
  BY <1>7
  DEF mainFunc, PP_doorLockCtrl_mainfunction, PP_autodoorCtrl_mainfunction,
      PP_sunroofctrl_mainfunction, PP_searchvehicle_mainfunction,
      PP_bluetoothstart_mainfunction
<1> QED
  BY <1>1, <1>5, <1>6, <1>7 DEF mainFunc

\* A received message keeps the types.
LEMMA TypeRcvMsg ==
    ASSUME RmtCtrlTypeOK, PP_rmtCtrl_do_rcvMsg
    PROVE  RmtCtrlTypeOK'
<1> USE DEF RmtCtrlTypeOK
<1>1. ASSUME NEW o \in Ctrl, TspRequest(o)
      PROVE  /\ LockTypeOK' /\ ctl' \in [Ctrl -> ControlRecord]
             /\ told' \in {"nobody", "TSP", "BLE"}
  <2>1. LockTypeOK'
    BY <1>1, Table, CtrlLockCalls DEF TspRequest
  <2>2. ctl' \in [Ctrl -> ControlRecord]
    BY <1>1, RequestType DEF TspRequest
  <2>3. told' \in {"nobody", "TSP", "BLE"}
    BY <1>1, RefusalType DEF TspRequest
  <2> QED
    BY <2>1, <2>2, <2>3
<1>2. /\ LockTypeOK' /\ ctl' \in [Ctrl -> ControlRecord]
      /\ told' \in {"nobody", "TSP", "BLE"}
  BY <1>1 DEF PP_rmtCtrl_do_rcvMsg, LockTypeOK
<1> QED
  BY <1>2, Table DEF PP_rmtCtrl_do_rcvMsg, At, ppOnly

\* So do the states in which no control is called.
LEMMA TypeSwitch ==
    ASSUME RmtCtrlTypeOK,
           \/ SwitchIdle \/ SwitchQuery \/ SwitchEnd
           \/ AuthSucceeds \/ AuthFails \/ AuthGoesOn
    PROVE  RmtCtrlTypeOK'
<1> USE DEF RmtCtrlTypeOK
<1>1. ASSUME NEW from,
             NEW to \in {"IDLE", "IDENTIFICAT_QUERY", "IDENTIFICAT_LAUNCH",
                         "COMMAND_LAUNCH", "END"},
             Switch(from, to),
             fota' \in [AuthReq : BOOLEAN, AuthResult : {-1, 0, 1},
                        UpgradeSt : BOOLEAN]
      PROVE  RmtCtrlTypeOK'
  BY <1>1, Table DEF Switch, At, LockTypeOK
<1>2. CASE SwitchIdle
  BY <1>1, <1>2 DEF SwitchIdle
<1>3. CASE SwitchQuery
  BY <1>1, <1>3 DEF SwitchQuery
<1>4. CASE SwitchEnd
  BY <1>1, <1>4 DEF SwitchEnd
<1>5. CASE AuthSucceeds
  BY <1>1, <1>5 DEF AuthSucceeds
<1>6. CASE AuthGoesOn
  BY <1>1, <1>6 DEF AuthGoesOn
<1>7. CASE AuthFails
  BY <1>7, Table DEF AuthFails, At, LockTypeOK
<1> QED
  BY <1>2, <1>3, <1>4, <1>5, <1>6, <1>7

\* So does the clearing, whose index stays within ClearOrder.
LEMMA TypeClear ==
    ASSUME RmtCtrlTypeOK, ClearStatusLock \/ ClearStatusReq
    PROVE  RmtCtrlTypeOK'
<1> USE DEF RmtCtrlTypeOK
<1>1. CASE ClearStatusLock
  <2>1. LockTypeOK'
    BY <1>1, Table, CtrlLockCalls DEF ClearStatusLock
  <2> QED
    BY <1>1, <2>1 DEF ClearStatusLock, At, ppOnly
<1>2. CASE ClearStatusReq
  <2>1. ctl' \in [Ctrl -> ControlRecord]
    BY <1>2, Table DEF ClearStatusReq, ControlRecord
  <2> QED
    BY <1>2, <2>1, Table DEF ClearStatusReq, At, ppOnly, LockTypeOK
<1> QED
  BY <1>1, <1>2

\* So do the calls of the controls, whose index stays within the table.
LEMMA TypeCommand ==
    ASSUME RmtCtrlTypeOK, CommandProgress \/ CommandStays \/ CommandsEnded
    PROVE  RmtCtrlTypeOK'
<1> USE DEF RmtCtrlTypeOK
<1>1. CASE CommandProgress \/ CommandStays
  <2>1. /\ LockTypeOK' /\ ctl' \in [Ctrl -> ControlRecord]
        /\ told' \in {"nobody", "TSP", "BLE"}
    BY <1>1, Table, MainFuncType DEF CommandProgress, CommandStays
  <2> QED
    BY <1>1, <2>1, Table DEF CommandProgress, CommandStays, At, ppOnly
<1>2. CASE CommandsEnded
  BY <1>2, Table DEF CommandsEnded, At, ppOnly, LockTypeOK
<1> QED
  BY <1>1, <1>2

\* So do the steps of the BLE thread.
LEMMA TypeBle ==
    ASSUME RmtCtrlTypeOK,
           \/ \E o \in Ctrl : BleTakesLock(o) \/ BleRequest(o)
           \/ BleWritesRequest
    PROVE  RmtCtrlTypeOK'
<1> USE DEF RmtCtrlTypeOK, bleKeeps
<1>1. ASSUME NEW o \in Ctrl, BleTakesLock(o) PROVE RmtCtrlTypeOK'
  <2>1. LockTypeOK' /\ told' \in {"nobody", "TSP", "BLE"}
    BY <1>1, Table, CtrlLockCalls, RefusalType DEF BleTakesLock
  <2> QED
    BY <1>1, <2>1 DEF BleTakesLock
<1>2. ASSUME NEW o \in Ctrl, BleRequest(o) PROVE RmtCtrlTypeOK'
  <2>1. LockTypeOK' /\ told' \in {"nobody", "TSP", "BLE"}
    BY <1>2, Table, CtrlLockCalls, RefusalType DEF BleRequest
  <2>2. ctl' \in [Ctrl -> ControlRecord]
    BY <1>2, RequestType DEF BleRequest
  <2> QED
    BY <1>2, <2>1, <2>2 DEF BleRequest
<1>3. CASE BleWritesRequest
  <2>1. ctl' \in [Ctrl -> ControlRecord]
    BY <1>3, RequestType DEF BleWritesRequest
  <2> QED
    BY <1>3, <2>1 DEF BleWritesRequest, LockTypeOK
<1> QED
  BY <1>1, <1>2, <1>3

\* So do the requests handled by the OTA server.
LEMMA TypeOta ==
    ASSUME RmtCtrlTypeOK, ModeIn \/ ModeInResult \/ ModeOut \/ ModeOutResult
    PROVE  RmtCtrlTypeOK'
<1> USE DEF RmtCtrlTypeOK, wsrvKeeps
<1> DEFINE FotaType == [AuthReq : BOOLEAN, AuthResult : {-1, 0, 1},
                        UpgradeSt : BOOLEAN]
<1>1. ASSUME NEW f \in FotaType, SetPP_rmtCtrl_FOTA_endInform(f)
      PROVE  LockTypeOK' /\ fota' \in FotaType
  <2>1. LockTypeOK'
    BY <1>1, Table, CtrlLockCalls DEF SetPP_rmtCtrl_FOTA_endInform
  <2> QED
    BY <1>1, <2>1 DEF SetPP_rmtCtrl_FOTA_endInform
<1>2. CASE ModeIn
  <2>1. LockTypeOK'
    BY <1>2, Table, CtrlLockCalls DEF ModeIn, SetPP_rmtCtrl_FOTA_startInform
  <2>2. fota' \in FotaType /\ wsrv' \in {0, 1, 2}
    <3>1. CASE Granted("FOTAUPDATE", PP_odc_lockflag)
      <4>1. /\ fota' = [AuthReq |-> TRUE, AuthResult |-> 0, UpgradeSt |-> TRUE]
            /\ wsrv' = 0
        BY <1>2, <3>1 DEF ModeIn, SetPP_rmtCtrl_FOTA_startInform
      <4>2. [AuthReq |-> TRUE, AuthResult |-> 0, UpgradeSt |-> TRUE] \in FotaType
        OBVIOUS
      <4> QED
        BY <4>1, <4>2
    <3>2. CASE ~Granted("FOTAUPDATE", PP_odc_lockflag)
      BY <1>2, <3>2 DEF ModeIn, SetPP_rmtCtrl_FOTA_startInform
    <3> QED
      BY <3>1, <3>2
  <2> QED
    BY <1>2, <2>1, <2>2 DEF ModeIn
<1>3. CASE ModeInResult
  BY <1>1, <1>3 DEF ModeInResult, AuthSeen, LockTypeOK
<1>4. CASE ModeOut
  BY <1>1, <1>4 DEF ModeOut
<1>5. CASE ModeOutResult
  BY <1>5 DEF ModeOutResult, AuthSeen, LockTypeOK
<1> QED
  BY <1>2, <1>3, <1>4, <1>5

\* Every variable keeps its type, whatever the order and number of controls;
\* in particular the loops over the controls stay inside their tables.
THEOREM RmtCtrlTypeCorrect == RmtCtrlSpec => []RmtCtrlTypeOK
<1>1. RmtCtrlInit => RmtCtrlTypeOK
  BY RmtCtrlAssumption
  DEF RmtCtrlInit, LockInit, LockTypeOK, RmtCtrlTypeOK, ControlRecord, At
<1>2. RmtCtrlTypeOK /\ [RmtCtrlNext]_ctrlVars => RmtCtrlTypeOK'
  <2>1. ASSUME RmtCtrlTypeOK, UNCHANGED ctrlVars PROVE RmtCtrlTypeOK'
    BY <2>1 DEF RmtCtrlTypeOK, ctrlVars, LockTypeOK
  <2> QED
    BY <2>1, TypeRcvMsg, TypeSwitch, TypeClear, TypeCommand, TypeBle, TypeOta
    DEF RmtCtrlNext, ProtocolThread
<1> QED
  BY <1>1, <1>2, PTL DEF RmtCtrlSpec

-----------------------------------------------------------------------------
(* No control is abandoned.                                                *)

\* Where the protocol thread is determines the state of the switch: inside the
\* loop over the main functions it is COMMAND_LAUNCH, and while requests are
\* thrown away it is IDENTIFICAT_LAUNCH, with no control under way.
PlaceInv ==
    /\ pc.at \in {"command", "ended"} => rmtCtrlSt = "COMMAND_LAUNCH"
    /\ pc.at \in {"clearlock", "clearreq"} => rmtCtrlSt = "IDENTIFICAT_LAUNCH"
    /\ NoControlAbandoned

\* A request leaves the states of the controls alone.
LEMMA RequestKeepsStates ==
    ASSUME ctl \in [Ctrl -> ControlRecord], NEW o \in Ctrl, NEW style, NEW c,
           ctl' = Requested(o, style, c)
    PROVE  \A p \in Ctrl : ctl'[p].CtrlSt = ctl[p].CtrlSt
  BY DEF Requested, ControlRecord

\* Every step keeps the place of the protocol thread in accord with the state
\* of the controls.
LEMMA PlaceStep ==
    ASSUME RmtCtrlTypeOK, PlaceInv, [RmtCtrlNext]_ctrlVars
    PROVE  PlaceInv'
<1> USE DEF PlaceInv, NoControlAbandoned, RmtCtrlTypeOK
<1>1. CASE PP_rmtCtrl_do_rcvMsg
  <2>1. \A p \in Ctrl : ctl'[p].CtrlSt = ctl[p].CtrlSt
    BY <1>1, RequestKeepsStates DEF PP_rmtCtrl_do_rcvMsg, TspRequest
  <2> QED
    BY <1>1, <2>1 DEF PP_rmtCtrl_do_rcvMsg, At
<1>2. CASE SwitchIdle \/ SwitchQuery \/ SwitchEnd \/ AuthSucceeds \/ AuthGoesOn
  <2>1. UNCHANGED ctl /\ rmtCtrlSt # "COMMAND_LAUNCH" /\ pc'.at = "turn"
    BY <1>2 DEF SwitchIdle, SwitchQuery, SwitchEnd, AuthSucceeds, AuthGoesOn,
                Switch, At
  <2> QED
    BY <2>1
<1>3. CASE AuthFails
  BY <1>3 DEF AuthFails, At
<1>4. CASE ClearStatusLock
  BY <1>4 DEF ClearStatusLock, At
<1>5. CASE ClearStatusReq
  <2>1. \A p \in Ctrl : ctl'[p].CtrlSt = ctl[p].CtrlSt
    BY <1>5, Table DEF ClearStatusReq, ControlRecord
  <2> QED
    BY <1>5, <2>1 DEF ClearStatusReq, At
<1>6. CASE CommandProgress \/ CommandStays
  BY <1>6 DEF CommandProgress, CommandStays, At
<1>7. CASE CommandsEnded
  BY <1>7 DEF CommandsEnded, PP_rmtCtrl_end, At
<1>8. CASE \/ \E o \in Ctrl : BleTakesLock(o) \/ BleRequest(o)
           \/ BleWritesRequest
  <2>1. \A p \in Ctrl : ctl'[p].CtrlSt = ctl[p].CtrlSt
    BY <1>8, RequestKeepsStates DEF BleTakesLock, BleRequest, BleWritesRequest
  <2> QED
    BY <1>8, <2>1 DEF BleTakesLock, BleRequest, BleWritesRequest, bleKeeps
<1>9. CASE ModeIn \/ ModeInResult \/ ModeOut \/ ModeOutResult \/ UNCHANGED ctrlVars
  BY <1>9 DEF ModeIn, ModeInResult, ModeOut, ModeOutResult, wsrvKeeps, ctrlVars
<1> QED
  BY <1>1, <1>2, <1>3, <1>4, <1>5, <1>6, <1>7, <1>8, <1>9
  DEF RmtCtrlNext, ProtocolThread

\* It is so at the start.
LEMMA PlaceInit == RmtCtrlInit => PlaceInv
  BY DEF RmtCtrlInit, PlaceInv, NoControlAbandoned, At

\* PP_rmtCtrl_mainfunction never leaves COMMAND_LAUNCH with a control under
\* way, whenever and from wherever requests are written.
THEOREM NoControlAbandonedAlways == RmtCtrlSpec => []NoControlAbandoned
<1>1. PlaceInv => NoControlAbandoned
  BY DEF PlaceInv
<1> QED
  BY <1>1, PlaceInit, PlaceStep, RmtCtrlTypeCorrect, PTL DEF RmtCtrlSpec

-----------------------------------------------------------------------------
(* An upgrade that is marked as under way has its bit.                     *)

\* Only the OTA server's clear takes FOTAUPDATE out of the lock.
LEMMA CtrlKeepsFota ==
    ASSUME RmtCtrlTypeOK, NEW o \in Ctrl, "FOTAUPDATE" \in PP_odc_lockflag,
           setPP_lock_odcmtxlock(o) \/ clearPP_lock_odcmtxlock(o)
    PROVE  "FOTAUPDATE" \in PP_odc_lockflag'
  BY Table DEF setPP_lock_odcmtxlock, clearPP_lock_odcmtxlock, SetFlag, PP_lock_mask

\* What a main function does to the lock.
LEMMA MainFuncLock ==
    ASSUME NEW o \in Ctrl, mainFunc(o) \/ CtrlStays(o)
    PROVE  UNCHANGED PP_odc_lockflag \/ clearPP_lock_odcmtxlock(o)
<1>1. ASSUME NEW checks, NEW unanswered, CtrlProgress(o, checks, unanswered)
      PROVE  UNCHANGED PP_odc_lockflag \/ clearPP_lock_odcmtxlock(o)
  BY <1>1 DEF CtrlProgress, CtrlStarts, CtrlMoves, CtrlEnds
<1>2. CASE o = "CAMERA" /\ PP_CameraCtr_mainfunction
  BY <1>2 DEF PP_CameraCtr_mainfunction
<1> QED
  BY <1>1, <1>2
  DEF mainFunc, CtrlStays, PP_doorLockCtrl_mainfunction,
      PP_autodoorCtrl_mainfunction, PP_sunroofctrl_mainfunction,
      PP_searchvehicle_mainfunction, PP_bluetoothstart_mainfunction

\* fotaUpgradeSt implies the lock's FOTA bit, although the protocol thread
\* resets the one and only the OTA server the other.
THEOREM UpgradeHoldsLockAlways == RmtCtrlSpec => []UpgradeHoldsLock
<1>1. RmtCtrlInit => UpgradeHoldsLock
  BY DEF RmtCtrlInit, UpgradeHoldsLock
<1>2. RmtCtrlTypeOK /\ UpgradeHoldsLock /\ [RmtCtrlNext]_ctrlVars
        => UpgradeHoldsLock'
  <2> SUFFICES ASSUME RmtCtrlTypeOK, UpgradeHoldsLock, [RmtCtrlNext]_ctrlVars
               PROVE  UpgradeHoldsLock'
    OBVIOUS
  <2> USE DEF UpgradeHoldsLock, RmtCtrlTypeOK
  <2>1. CASE PP_rmtCtrl_do_rcvMsg
    BY <2>1, CtrlKeepsFota DEF PP_rmtCtrl_do_rcvMsg, TspRequest, ppOnly
  <2>2. CASE SwitchIdle \/ SwitchQuery \/ SwitchEnd \/ AuthSucceeds \/ AuthGoesOn
    <3>1. UNCHANGED PP_odc_lockflag /\ fota'.UpgradeSt = fota.UpgradeSt
      BY <2>2 DEF SwitchIdle, SwitchQuery, SwitchEnd, AuthSucceeds, AuthGoesOn,
                  Switch
    <3> QED
      BY <3>1
  <2>3. CASE AuthFails
    BY <2>3 DEF AuthFails
  <2>4. CASE ClearStatusLock \/ ClearStatusReq
    BY <2>4, Table, CtrlKeepsFota DEF ClearStatusLock, ClearStatusReq, ppOnly
  <2>5. CASE CommandProgress \/ CommandStays
    BY <2>5, Table, MainFuncLock, CtrlKeepsFota
    DEF CommandProgress, CommandStays, ppOnly
  <2>6. CASE CommandsEnded
    BY <2>6 DEF CommandsEnded, ppOnly
  <2>7. ASSUME NEW o \in Ctrl, BleTakesLock(o) \/ BleRequest(o)
        PROVE  UpgradeHoldsLock'
    BY <2>7, CtrlKeepsFota DEF BleTakesLock, BleRequest, bleKeeps
  <2>8. CASE BleWritesRequest
    BY <2>8 DEF BleWritesRequest, bleKeeps
  <2>9. CASE ModeIn
    <3>1. CASE Granted("FOTAUPDATE", PP_odc_lockflag)
      BY <2>9, <3>1 DEF ModeIn, SetPP_rmtCtrl_FOTA_startInform,
                        setPP_lock_odcmtxlock, SetFlag, PP_lock_mask
    <3>2. CASE ~Granted("FOTAUPDATE", PP_odc_lockflag)
      BY <2>9, <3>2 DEF ModeIn, SetPP_rmtCtrl_FOTA_startInform,
                        setPP_lock_odcmtxlock, SetFlag
    <3> QED
      BY <3>1, <3>2
  <2>10. CASE ModeInResult
    BY <2>10 DEF ModeInResult, AuthSeen, SetPP_rmtCtrl_FOTA_endInform
  <2>11. CASE ModeOut \/ ModeOutResult
    <3>1. CASE ModeOut
      BY <3>1 DEF ModeOut, SetPP_rmtCtrl_FOTA_endInform
    <3>2. CASE ModeOutResult
      BY <3>2 DEF ModeOutResult, AuthSeen
    <3> QED
      BY <2>11, <3>1, <3>2
  <2>12. CASE UNCHANGED ctrlVars
    BY <2>12 DEF ctrlVars
  <2> QED
    BY <2>1, <2>2, <2>3, <2>4, <2>5, <2>6, <2>7, <2>8, <2>9, <2>10, <2>11, <2>12
    DEF RmtCtrlNext, ProtocolThread
<1> QED
  BY <1>1, <1>2, RmtCtrlTypeCorrect, PTL DEF RmtCtrlSpec

-----------------------------------------------------------------------------
(* When a control is not asked for again before it has ended and no thread *)
(* runs between the two statements of a request or of a ..._ClearStatus,   *)
(* the bits of the lock are exactly the busy controls.                     *)

\* The request of o is being thrown away: its bit is already cleared.
BeingCleared(o) == pc.at = "clearreq" /\ Current = o

OrderlyInv ==
    /\ ble = "none"
    /\ \A o \in Ctrl : ctl[o].CtrlSt # "IDLE" => ~ctl[o].req
    /\ \A o \in Ctrl : o = "CAMERA" => ctl[o].CtrlSt = "IDLE"
    /\ \A o \in Ctrl : o \in PP_odc_lockflag <=> Busy(o) /\ ~BeingCleared(o)
    /\ FotaCtrlOn(PP_odc_lockflag)

\* The bits of the lock after the calls of a control or of the OTA server.
LEMMA BitsAfterSet ==
    ASSUME RmtCtrlTypeOK, NEW o \in Ctrl \cup {"FOTAUPDATE"},
           FotaCtrlOn(PP_odc_lockflag), setPP_lock_odcmtxlock(o)
    PROVE  /\ FotaCtrlOn(PP_odc_lockflag')
           /\ \A p \in Ctrl \ {o} : p \in PP_odc_lockflag' <=> p \in PP_odc_lockflag
           /\ Granted(o, PP_odc_lockflag) => o \in PP_odc_lockflag'
           /\ ~Granted(o, PP_odc_lockflag) => UNCHANGED PP_odc_lockflag
<1>1. o \in Obj /\ o # "SEAT"
  BY Table
<1>2. FotaCtrlOn(PP_odc_lockflag')
  BY <1>1, SetKeepsFotaCtrl DEF setPP_lock_odcmtxlock
<1> QED
  BY <1>1, <1>2 DEF setPP_lock_odcmtxlock, SetFlag, PP_lock_mask

\* The bits of the lock after one of them was given back.
LEMMA BitsAfterClear ==
    ASSUME RmtCtrlTypeOK, NEW o \in Ctrl \cup {"FOTAUPDATE"},
           FotaCtrlOn(PP_odc_lockflag), clearPP_lock_odcmtxlock(o)
    PROVE  /\ FotaCtrlOn(PP_odc_lockflag')
           /\ \A p \in Ctrl \ {o} : p \in PP_odc_lockflag' <=> p \in PP_odc_lockflag
           /\ o \notin PP_odc_lockflag'
<1>1. PP_odc_lockflag' = PP_odc_lockflag \ {o}
  BY Table DEF clearPP_lock_odcmtxlock, PP_lock_mask
<1> QED
  BY <1>1 DEF FotaCtrlOn

\* A step of the protocol thread outside the clearing, of which one control o
\* is the subject: the bits agree with the controls if o's bit does.
LEMMA OneControl ==
    ASSUME RmtCtrlTypeOK, OrderlyInv, NEW o \in Ctrl, ble' = "none",
           pc.at # "clearreq", pc'.at # "clearreq",
           \A p \in Ctrl \ {o} : ctl'[p] = ctl[p],
           \A p \in Ctrl \ {o} : p \in PP_odc_lockflag' <=> p \in PP_odc_lockflag,
           FotaCtrlOn(PP_odc_lockflag'),
           ctl'[o].CtrlSt # "IDLE" => ~ctl'[o].req,
           o = "CAMERA" => ctl'[o].CtrlSt = "IDLE",
           o \in PP_odc_lockflag' <=> Busy(o)'
    PROVE  OrderlyInv'
  BY DEF OrderlyInv, Busy, BeingCleared

\* One call of a main function.
LEMMA OrderlyMainFunc ==
    ASSUME RmtCtrlTypeOK, OrderlyInv, NEW o \in Ctrl, mainFunc(o) \/ CtrlStays(o),
           ble' = "none", pc.at # "clearreq", pc'.at # "clearreq"
    PROVE  OrderlyInv'
<1> USE DEF RmtCtrlTypeOK, ControlRecord
<1>0. FotaCtrlOn(PP_odc_lockflag) /\ (o \in PP_odc_lockflag <=> Busy(o))
  BY DEF OrderlyInv, BeingCleared
<1>1. CASE CtrlStays(o)
  BY <1>0, <1>1, OneControl DEF CtrlStays, OrderlyInv, Busy
<1>2. ASSUME NEW checks, CtrlStarts(o, checks), o # "CAMERA" PROVE OrderlyInv'
  <2>1. PICK to \in {"REQSTART", "END"} :
           ctl' = [ctl EXCEPT ![o] = [@ EXCEPT !.CtrlSt = to, !.req = FALSE]]
    BY <1>2 DEF CtrlStarts
  <2>2. ctl'[o].CtrlSt # "IDLE" /\ ~ctl'[o].req
    BY <2>1
  <2>3. \A p \in Ctrl \ {o} : ctl'[p] = ctl[p]
    BY <2>1
  <2>4. UNCHANGED PP_odc_lockflag /\ Busy(o)
    BY <1>2 DEF CtrlStarts, Busy
  <2> QED
    BY <1>0, <1>2, <2>2, <2>3, <2>4, OneControl DEF Busy
<1>3. ASSUME NEW from \in {"REQSTART", "RESPWAIT"}, NEW to \in {"RESPWAIT", "END"},
             CtrlMoves(o, from, to), o # "CAMERA"
      PROVE  OrderlyInv'
  <2>1. ctl'[o].CtrlSt = to /\ ctl'[o].req = ctl[o].req
    BY <1>3 DEF CtrlMoves
  <2>2. \A p \in Ctrl \ {o} : ctl'[p] = ctl[p]
    BY <1>3 DEF CtrlMoves
  <2>3. UNCHANGED PP_odc_lockflag /\ Busy(o) /\ ~ctl[o].req
    BY <1>3 DEF CtrlMoves, Busy, OrderlyInv
  <2> QED
    BY <1>0, <1>3, <2>1, <2>2, <2>3, OneControl DEF Busy
<1>4. ASSUME CtrlEnds(o) PROVE OrderlyInv'
  <2>1. ctl'[o].CtrlSt = "IDLE" /\ ctl'[o].req = ctl[o].req
    BY <1>4 DEF CtrlEnds
  <2>2. \A p \in Ctrl \ {o} : ctl'[p] = ctl[p]
    BY <1>4 DEF CtrlEnds
  <2>3. ~ctl[o].req
    BY <1>4 DEF CtrlEnds, OrderlyInv
  <2> QED
    BY <1>0, <1>4, <2>1, <2>2, <2>3, OneControl, BitsAfterClear DEF Busy, CtrlEnds
<1>5. CASE o = "CAMERA" /\ PP_CameraCtr_mainfunction
  <2>1. ctl'[o].CtrlSt = ctl[o].CtrlSt /\ ~ctl'[o].req
    BY <1>5 DEF PP_CameraCtr_mainfunction
  <2>2. \A p \in Ctrl \ {o} : ctl'[p] = ctl[p]
    BY <1>5 DEF PP_CameraCtr_mainfunction
  <2>3. ctl[o].CtrlSt = "IDLE"
    BY <1>5 DEF OrderlyInv
  <2>4. clearPP_lock_odcmtxlock(o)
    BY <1>5 DEF PP_CameraCtr_mainfunction
  <2> QED
    BY <1>0, <2>1, <2>2, <2>3, <2>4, OneControl, BitsAfterClear DEF Busy
<1>6. ASSUME NEW checks, NEW unanswered, CtrlProgress(o, checks, unanswered),
             o # "CAMERA"
      PROVE  OrderlyInv'
  BY <1>2, <1>3, <1>4, <1>6 DEF CtrlProgress
<1>7. ASSUME mainFunc(o), o # "CAMERA"
      PROVE  \E checks, unanswered \in BOOLEAN : CtrlProgress(o, checks, unanswered)
  BY <1>7
  DEF mainFunc, PP_doorLockCtrl_mainfunction, PP_autodoorCtrl_mainfunction,
      PP_sunroofctrl_mainfunction, PP_searchvehicle_mainfunction,
      PP_bluetoothstart_mainfunction
<1> QED
  BY <1>1, <1>5, <1>6, <1>7 DEF mainFunc

\* A request, of the TSP or over Bluetooth, for a control that is not busy.
LEMMA OrderlyRequest ==
    ASSUME RmtCtrlTypeOK, OrderlyInv, NEW o \in Ctrl, ~Busy(o),
           setPP_lock_odcmtxlock(o), NEW style, NEW c,
           ctl' = IF Granted(o, PP_odc_lockflag) THEN Requested(o, style, c)
                  ELSE ctl,
           ble' = "none", pc.at # "clearreq", pc'.at # "clearreq"
    PROVE  OrderlyInv'
<1> USE DEF RmtCtrlTypeOK, ControlRecord
<1>0. FotaCtrlOn(PP_odc_lockflag) /\ o \notin PP_odc_lockflag
  BY DEF OrderlyInv
<1>1. CASE Granted(o, PP_odc_lockflag)
  <2>1. ctl'[o].CtrlSt = ctl[o].CtrlSt /\ ctl'[o].req
    BY <1>1 DEF Requested
  <2>2. \A p \in Ctrl \ {o} : ctl'[p] = ctl[p]
    BY <1>1 DEF Requested
  <2>3. ctl[o].CtrlSt = "IDLE"
    BY DEF Busy
  <2> QED
    BY <1>0, <1>1, <2>1, <2>2, <2>3, OneControl, BitsAfterSet DEF Busy
<1>2. CASE ~Granted(o, PP_odc_lockflag)
  <2>1. UNCHANGED <<ctl, PP_odc_lockflag>>
    BY <1>0, <1>2, BitsAfterSet
  <2> QED
    BY <1>0, <2>1, OneControl DEF Busy, OrderlyInv
<1> QED
  BY <1>1, <1>2

\* The two statements of a ..._ClearStatus.
LEMMA OrderlyClear ==
    ASSUME RmtCtrlTypeOK, PlaceInv, OrderlyInv, ClearStatusLock \/ ClearStatusReq
    PROVE  OrderlyInv'
<1> USE DEF RmtCtrlTypeOK, ControlRecord
<1>1. \A o \in Ctrl : ctl[o].CtrlSt = "IDLE"
  BY DEF PlaceInv, NoControlAbandoned, ClearStatusLock, ClearStatusReq
<1>2. CASE ClearStatusLock
  <2>1. UNCHANGED <<ctl, ble>> /\ pc.at = "clearlock"
    BY <1>2 DEF ClearStatusLock, ppOnly
  <2>2. pc'.at = "clearreq" /\ Current' = Current
    BY <1>2 DEF ClearStatusLock, At, Current
  <2>3. /\ FotaCtrlOn(PP_odc_lockflag') /\ Current \notin PP_odc_lockflag'
        /\ \A p \in Ctrl \ {Current} :
              p \in PP_odc_lockflag' <=> p \in PP_odc_lockflag
    BY <1>2, Table, BitsAfterClear DEF ClearStatusLock, OrderlyInv
  <2> QED
    BY <2>1, <2>2, <2>3 DEF OrderlyInv, Busy, BeingCleared
<1>3. CASE ClearStatusReq
  <2>1. /\ UNCHANGED <<PP_odc_lockflag, ble>>
        /\ pc.at = "clearreq" /\ pc'.at # "clearreq"
    BY <1>3 DEF ClearStatusReq, At, ppOnly
  <2>2. /\ ~ctl'[Current].req /\ ctl'[Current].CtrlSt = "IDLE"
        /\ \A p \in Ctrl \ {Current} : ctl'[p] = ctl[p]
    BY <1>1, <1>3, Table DEF ClearStatusReq
  <2>3. Current \notin PP_odc_lockflag
    BY <2>1, Table DEF OrderlyInv, BeingCleared
  <2> QED
    BY <1>1, <2>1, <2>2, <2>3 DEF OrderlyInv, Busy, BeingCleared
<1> QED
  BY <1>2, <1>3

\* The OTA server touches no bit of a control.
LEMMA OrderlyOta ==
    ASSUME RmtCtrlTypeOK, OrderlyInv, ModeIn \/ ModeInResult \/ ModeOut \/ ModeOutResult
    PROVE  OrderlyInv'
<1>1. UNCHANGED <<pc, ctl, ble>>
  BY DEF ModeIn, ModeInResult, ModeOut, ModeOutResult, wsrvKeeps
<1>2. \/ UNCHANGED PP_odc_lockflag
      \/ setPP_lock_odcmtxlock("FOTAUPDATE")
      \/ clearPP_lock_odcmtxlock("FOTAUPDATE")
  BY DEF ModeIn, ModeInResult, ModeOut, ModeOutResult, AuthSeen,
         SetPP_rmtCtrl_FOTA_startInform, SetPP_rmtCtrl_FOTA_endInform
<1>3. /\ FotaCtrlOn(PP_odc_lockflag')
      /\ \A p \in Ctrl : p \in PP_odc_lockflag' <=> p \in PP_odc_lockflag
  BY <1>2, Table, BitsAfterSet, BitsAfterClear DEF OrderlyInv
<1> QED
  BY <1>1, <1>3 DEF OrderlyInv, Busy, BeingCleared, Current

\* Every step of an orderly instance keeps OrderlyInv.
LEMMA OrderlyStep ==
    ASSUME ~Repeats, ~BleRaces,
           RmtCtrlTypeOK, PlaceInv, OrderlyInv, [RmtCtrlNext]_ctrlVars
    PROVE  OrderlyInv'
<1> USE DEF RmtCtrlTypeOK
<1>0. ble = "none"
  BY DEF OrderlyInv
\* Steps that leave the lock, the controls and the clearing alone.
<1>1. ASSUME UNCHANGED <<PP_odc_lockflag, ctl, ble>>, pc.at # "clearreq",
             pc'.at # "clearreq"
      PROVE  OrderlyInv'
  BY <1>1 DEF OrderlyInv, Busy, BeingCleared
<1>2. CASE PP_rmtCtrl_do_rcvMsg
  <2>1. pc.at # "clearreq" /\ pc'.at # "clearreq" /\ ble' = "none"
    BY <1>0, <1>2 DEF PP_rmtCtrl_do_rcvMsg, At, ppOnly
  <2>2. ASSUME NEW o \in Ctrl, TspRequest(o) PROVE OrderlyInv'
    <3>1. ~Busy(o) /\ setPP_lock_odcmtxlock(o)
      BY <2>2 DEF TspRequest, MayAsk
    <3>2. PICK c : ctl' = IF Granted(o, PP_odc_lockflag)
                          THEN Requested(o, "TSP", c) ELSE ctl
      BY <2>2 DEF TspRequest
    <3> QED
      BY <2>1, <3>1, <3>2, OrderlyRequest
  <2> QED
    BY <1>0, <1>1, <1>2, <2>1, <2>2 DEF PP_rmtCtrl_do_rcvMsg
<1>3. CASE \/ SwitchIdle \/ SwitchQuery \/ SwitchEnd
           \/ AuthSucceeds \/ AuthFails \/ AuthGoesOn \/ CommandsEnded
  <2>1. /\ UNCHANGED <<PP_odc_lockflag, ctl, ble>>
        /\ pc.at # "clearreq" /\ pc'.at # "clearreq"
    BY <1>3 DEF SwitchIdle, SwitchQuery, SwitchEnd, AuthSucceeds, AuthFails,
                AuthGoesOn, CommandsEnded, Switch, At, ppOnly
  <2> QED
    BY <1>1, <2>1
<1>4. CASE ClearStatusLock \/ ClearStatusReq
  BY <1>4, OrderlyClear
<1>5. CASE CommandProgress \/ CommandStays
  <2>1. pc.at # "clearreq" /\ pc'.at # "clearreq" /\ ble' = "none"
    BY <1>0, <1>5 DEF CommandProgress, CommandStays, At, ppOnly
  <2> QED
    BY <1>5, <2>1, Table, OrderlyMainFunc DEF CommandProgress, CommandStays
<1>6. ASSUME NEW o \in Ctrl, BleTakesLock(o) \/ BleRequest(o) PROVE OrderlyInv'
  <2>1. BleRequest(o)
    BY <1>6 DEF BleTakesLock
  <2>2. /\ ~Busy(o) /\ setPP_lock_odcmtxlock(o) /\ ble' = "none"
        /\ pc.at # "clearreq" /\ pc'.at # "clearreq"
    BY <1>0, <2>1 DEF BleRequest, BleMayAsk, MayAsk, bleKeeps
  <2>3. PICK c : ctl' = IF Granted(o, PP_odc_lockflag)
                        THEN Requested(o, "BLE", c) ELSE ctl
    BY <2>1 DEF BleRequest
  <2> QED
    BY <2>2, <2>3, OrderlyRequest
<1>7. CASE BleWritesRequest
  BY <1>0, <1>7 DEF BleWritesRequest
<1>8. CASE ModeIn \/ ModeInResult \/ ModeOut \/ ModeOutResult
  BY <1>8, OrderlyOta
<1>9. CASE UNCHANGED ctrlVars
  BY <1>9 DEF ctrlVars, OrderlyInv, Busy, BeingCleared, Current
<1> QED
  BY <1>2, <1>3, <1>4, <1>5, <1>6, <1>7, <1>8, <1>9
  DEF RmtCtrlNext, ProtocolThread

\* OrderlyInv holds throughout.
LEMMA OrderlyAlways ==
    ASSUME ~Repeats, ~BleRaces
    PROVE  RmtCtrlSpec => [](OrderlyInv /\ PlaceInv)
<1>1. RmtCtrlInit => OrderlyInv
  BY CtrlAssumption
  DEF RmtCtrlInit, LockInit, OrderlyInv, Busy, BeingCleared, FotaCtrlOn, At
<1>2. RmtCtrlTypeOK /\ PlaceInv /\ OrderlyInv /\ [RmtCtrlNext]_ctrlVars
        => OrderlyInv'
  BY OrderlyStep
<1> QED
  BY <1>1, <1>2, PlaceInit, PlaceStep, RmtCtrlTypeCorrect, PTL DEF RmtCtrlSpec

\* With orderly requests no control but the remote start is waiting or under
\* way while an upgrade has the lock.
THEOREM ControlExcludesFotaOrderly ==
    ASSUME ~Repeats, ~BleRaces
    PROVE  RmtCtrlSpec => []ControlExcludesFota
<1>1. OrderlyInv /\ PlaceInv => ControlExcludesFota
  <2> SUFFICES ASSUME OrderlyInv, PlaceInv, "FOTAUPDATE" \in PP_odc_lockflag,
                      NEW o \in Ctrl \ {"RMTSTART"}, Busy(o)
               PROVE  /\ pc.at = "clearreq" /\ Current = o
                      /\ ctl[o].CtrlSt = "IDLE"
    BY DEF ControlExcludesFota
  <2>1. o \notin PP_odc_lockflag
    BY CtrlAssumption DEF OrderlyInv, FotaCtrlOn
  <2>2. BeingCleared(o)
    BY <2>1 DEF OrderlyInv
  <2> QED
    BY <2>2 DEF BeingCleared, PlaceInv, NoControlAbandoned
<1> QED
  BY <1>1, OrderlyAlways, PTL

\* With orderly requests a control's bit is set only while the control is
\* waiting or under way, through successful and failed authentications alike.
THEOREM NoControlLeakOrderly ==
    ASSUME ~Repeats, ~BleRaces
    PROVE  RmtCtrlSpec => []NoControlLeak
<1>1. OrderlyInv /\ PlaceInv => NoControlLeak
  BY DEF OrderlyInv, NoControlLeak
<1> QED
  BY <1>1, OrderlyAlways, PTL
=============================================================================
