--------------------------- MODULE RmtDiagProofs ---------------------------
(***************************************************************************)
(* Type correctness of PrvtProt_rmtDiag.c and the exclusion its three      *)
(* handlers get from the lock, for every bound on the mailbox and on the   *)
(* send pool, with or without ignition switching; and, with the ignition   *)
(* on and jobs that end in time, that bits are given back, that OTA finds  *)
(* the bus quiet and that completions reach the handler they belong to.    *)
(***************************************************************************)
EXTENDS RmtDiag, OdcLockProofs

\* The names of the handlers' bits are names of lock objects.
LEMMA DiagObjects ==
    /\ {"TSPDIAG", "CLEAN", "ACTIVE", "READECUVER", "FOTAUPDATE"} \subseteq Obj
    /\ {"TSP", "CLEAN", "ACTIVE"} = Job
  BY RmtDiagAssumption DEF Obj, DiagAll, OtaAll

\* The calls of the lock keep its type.
LEMMA LockCallsType ==
    ASSUME NEW o \in Obj, LockTypeOK,
           setPP_lock_odcmtxlock(o) \/ clearPP_lock_odcmtxlock(o)
    PROVE  LockTypeOK'
  BY SetFlagType DEF LockTypeOK, setPP_lock_odcmtxlock, clearPP_lock_odcmtxlock

\* What a handler does with the mailbox keeps its type.
LEMMA AskType ==
    ASSUME RmtDiagTypeOK, NEW j \in Job \cup {BadJob}, Ask(j), UNCHANGED job
    PROVE  ServiceTypeOK' /\ lastDone' \in Job \cup {NoJob}
  BY DEF RmtDiagTypeOK, ServiceTypeOK, Ask, Post

\* A call of the handler of the TSP's query keeps the types.
LEMMA TypeDiag ==
    ASSUME RmtDiagTypeOK, PP_rmtDiag_do_checkrmtDiag
    PROVE  RmtDiagTypeOK'
<1> USE RmtDiagTypeOK DEF RmtDiagTypeOK, envVars
<1>1. CASE DiagStays
  BY <1>1 DEF DiagStays, LockTypeOK, ServiceTypeOK
<1>2. CASE DiagProgress
  <2>0. /\ pc' = "clean"
        /\ UNCHANGED <<job, ign, IGNoldSt, reading, date, tm_datetime, tx>>
    BY <1>2 DEF DiagProgress
  <2>1. CASE DiagIdle
    <3>1. LockTypeOK'
      BY <2>1, LockCallsType, DiagObjects DEF DiagIdle
    <3>2. st' \in StateRecord
      BY <2>1 DEF DiagIdle, Fails, StateRecord, DiagStates
    <3> QED
      BY <2>0, <2>1, <3>1, <3>2 DEF DiagIdle, AsksNothing, ServiceTypeOK
  <2>2. CASE DiagQuery
    <3>1. ServiceTypeOK' /\ lastDone' \in Job \cup {NoJob}
      BY <2>0, <2>2, AskType, DiagObjects DEF DiagQuery, AsksNothing, ServiceTypeOK
    <3>2. st' \in StateRecord
      BY <2>2 DEF DiagQuery, Fails, StateRecord, DiagStates
    <3> QED
      BY <2>0, <2>2, <3>1, <3>2 DEF DiagQuery, LockTypeOK
  <2>3. CASE DiagWait
    <3>1. st' \in StateRecord
      BY <2>3 DEF DiagWait, Fails, StateRecord, DiagStates
    <3> QED
      BY <2>0, <2>3, <3>1 DEF DiagWait, AsksNothing, LockTypeOK, ServiceTypeOK
  <2>4. CASE DiagUpload
    <3>1. st' \in StateRecord
      BY <2>4 DEF DiagUpload, StateRecord, DiagStates
    <3> QED
      BY <2>0, <2>4, <3>1 DEF DiagUpload, LockTypeOK, ServiceTypeOK
  <2>5. CASE DiagEnd
    <3>1. LockTypeOK'
      BY <2>5, LockCallsType, DiagObjects DEF DiagEnd
    <3>2. st' \in StateRecord
      BY <2>5 DEF DiagEnd, StateRecord, DiagStates
    <3> QED
      BY <2>0, <2>5, <3>1, <3>2 DEF DiagEnd, AsksNothing, ServiceTypeOK
  <2> QED
    BY <1>2, <2>1, <2>2, <2>3, <2>4, <2>5 DEF DiagProgress
<1> QED
  BY <1>1, <1>2 DEF PP_rmtDiag_do_checkrmtDiag

\* So does a call of the handler that clears fault codes.
LEMMA TypeClean ==
    ASSUME RmtDiagTypeOK, PP_rmtDiag_do_FaultCodeClean
    PROVE  RmtDiagTypeOK'
<1> USE RmtDiagTypeOK DEF RmtDiagTypeOK, envVars
<1>1. CASE CleanStays
  BY <1>1 DEF CleanStays, LockTypeOK, ServiceTypeOK
<1>2. CASE CleanProgress
  <2>0. /\ pc' = "active"
        /\ UNCHANGED <<job, ign, IGNoldSt, reading, date, tm_datetime, tx>>
    BY <1>2 DEF CleanProgress
  <2>1. CASE CleanIdle
    <3>1. LockTypeOK'
      BY <2>1, LockCallsType, DiagObjects DEF CleanIdle
    <3>2. st' \in StateRecord
      BY <2>1 DEF CleanIdle, StateRecord, CleanStates
    <3> QED
      BY <2>0, <2>1, <3>1, <3>2 DEF CleanIdle, AsksNothing, ServiceTypeOK
  <2>2. CASE CleanReq
    <3>1. ServiceTypeOK' /\ lastDone' \in Job \cup {NoJob}
      BY <2>0, <2>2, AskType, DiagObjects DEF CleanReq
    <3>2. st' \in StateRecord
      BY <2>2 DEF CleanReq, StateRecord, CleanStates
    <3> QED
      BY <2>0, <2>2, <3>1, <3>2 DEF CleanReq, LockTypeOK
  <2>3. CASE CleanWait
    <3>1. st' \in StateRecord
      BY <2>3 DEF CleanWait, StateRecord, CleanStates
    <3> QED
      BY <2>0, <2>3, <3>1 DEF CleanWait, AsksNothing, LockTypeOK, ServiceTypeOK
  <2>4. CASE CleanEnd
    <3>1. LockTypeOK'
      BY <2>4, LockCallsType, DiagObjects DEF CleanEnd
    <3>2. st' \in StateRecord
      BY <2>4 DEF CleanEnd, StateRecord, CleanStates
    <3> QED
      BY <2>0, <2>4, <3>1, <3>2 DEF CleanEnd, AsksNothing, ServiceTypeOK
  <2> QED
    BY <1>2, <2>1, <2>2, <2>3, <2>4 DEF CleanProgress
<1> QED
  BY <1>1, <1>2 DEF PP_rmtDiag_do_FaultCodeClean

\* So does a call of the handler of the active report.
LEMMA TypeActive ==
    ASSUME RmtDiagTypeOK, PP_rmtDiag_do_DiagActiveReport
    PROVE  RmtDiagTypeOK'
<1> USE RmtDiagTypeOK DEF RmtDiagTypeOK, envVars
<1>1. CASE ActiveStays
  BY <1>1, RmtDiagAssumption DEF ActiveStays, Queued, LockTypeOK, ServiceTypeOK
<1>2. CASE ActiveProgress
  <2>0. pc' = "main" /\ UNCHANGED <<job, ign, IGNoldSt, reading>>
    BY <1>2 DEF ActiveProgress
  <2>1. CASE ActiveIdle
    <3>1. st' \in StateRecord
      BY <2>1 DEF ActiveIdle, Fails, StateRecord, ActiveStates
    <3> QED
      BY <2>0, <2>1, <3>1 DEF ActiveIdle, LockTypeOK, ServiceTypeOK
  <2>2. CASE ActiveCheckReportSt
    <3>1. st' \in StateRecord
      BY <2>2 DEF ActiveCheckReportSt, Fails, StateRecord, ActiveStates
    <3> QED
      BY <2>0, <2>2, <3>1 DEF ActiveCheckReportSt, LockTypeOK, ServiceTypeOK
  <2>3. CASE ActiveCheckOtaCond
    <3>1. st' \in StateRecord
      BY <2>3 DEF ActiveCheckOtaCond, Fails, StateRecord, ActiveStates
    <3>2. LockTypeOK'
      BY <2>3, LockCallsType, DiagObjects DEF ActiveCheckOtaCond
    <3> QED
      BY <2>0, <2>3, <3>1, <3>2 DEF ActiveCheckOtaCond, ServiceTypeOK
  <2>4. CASE ActiveCheckVehiCond
    <3>1. st' \in StateRecord
      BY <2>4 DEF ActiveCheckVehiCond, Fails, StateRecord, ActiveStates
    <3>2. ServiceTypeOK' /\ lastDone' \in Job \cup {NoJob}
      BY <2>0, <2>4, AskType, DiagObjects DEF ActiveCheckVehiCond, AsksNothing, ServiceTypeOK
    <3> QED
      BY <2>0, <2>4, <3>1, <3>2 DEF ActiveCheckVehiCond, LockTypeOK
  <2>5. CASE ActiveQueryWait
    <3>1. st' \in StateRecord
      BY <2>5 DEF ActiveQueryWait, Fails, StateRecord, ActiveStates
    <3> QED
      BY <2>0, <2>5, <3>1 DEF ActiveQueryWait, LockTypeOK, ServiceTypeOK
  <2>6. CASE ActiveUploadLast
    <3>1. st' \in StateRecord
      BY <2>6 DEF ActiveUploadLast, Fails, StateRecord, ActiveStates
    <3> QED
      BY <2>0, <2>6, <3>1, RmtDiagAssumption DEF ActiveUploadLast, LockTypeOK, ServiceTypeOK, Queued
  <2>7. CASE ActiveUploadFails
    <3>1. st' \in StateRecord
      BY <2>7 DEF ActiveUploadFails, Fails, StateRecord, ActiveStates
    <3> QED
      BY <2>0, <2>7, <3>1 DEF ActiveUploadFails, LockTypeOK, ServiceTypeOK
  <2>8. CASE ActiveEnd
    <3>1. st' \in StateRecord
      BY <2>8 DEF ActiveEnd, Fails, StateRecord, ActiveStates
    <3>2. LockTypeOK'
      BY <2>8, LockCallsType, DiagObjects DEF ActiveEnd
    <3> QED
      BY <2>0, <2>8, <3>1, <3>2 DEF ActiveEnd, ServiceTypeOK
  <2> QED
    BY <1>2, <2>1, <2>2, <2>3, <2>4, <2>5, <2>6, <2>7, <2>8 DEF ActiveProgress
<1> QED
  BY <1>1, <1>2 DEF PP_rmtDiag_do_DiagActiveReport

\* One turn's ignition handling and message reception yield a state record.
LEMMA TypeTurn ==
    ASSUME RmtDiagTypeOK, PP_rmtDiag_mainfunction
    PROVE  RmtDiagTypeOK'
<1> USE RmtDiagTypeOK DEF RmtDiagTypeOK
<1>1. IgnitionOff(st) \in StateRecord /\ IgnitionOn(st) \in StateRecord
  BY DEF IgnitionOff, IgnitionOn, StateRecord, DiagStates, CleanStates, ActiveStates
<1>2. ASSUME NEW s \in StateRecord,
             NEW mid \in {"nothing", "DIAG_REQ", "FAULTCODECLEAN"}
      PROVE  RxMsgHandle(s, mid) \in StateRecord
  <2>1. CASE mid = "nothing"
    BY <1>2, <2>1 DEF RxMsgHandle
  <2>2. CASE mid = "DIAG_REQ"
    BY <1>2, <2>2 DEF RxMsgHandle, StateRecord
  <2>3. CASE mid = "FAULTCODECLEAN"
    BY <1>2, <2>3 DEF RxMsgHandle, StateRecord
  <2> QED
    BY <1>2, <2>1, <2>2, <2>3
<1>3. ASSUME NEW s \in StateRecord, NEW next \in {"main", "diag", "active"},
             Turn(s, next)
      PROVE  RmtDiagTypeOK'
  BY <1>3 DEF Turn, LockTypeOK, ServiceTypeOK
<1> QED
  BY <1>1, <1>2, <1>3
  DEF PP_rmtDiag_mainfunction, TurnSocketOpen, TurnSocketClosed

\* The other threads.
LEMMA TypeOthers ==
    ASSUME RmtDiagTypeOK,
           \/ PP_rmtDiag_send_cb \/ EngineTakes \/ PP_rmtDiag_queryInform_cb
           \/ OtaServer \/ SwitchIgnition \/ Midnight \/ UNCHANGED diagVars
    PROVE  RmtDiagTypeOK'
<1> USE RmtDiagTypeOK DEF RmtDiagTypeOK, ppVars
<1>1. CASE PP_rmtDiag_send_cb
  BY <1>1, RmtDiagAssumption DEF PP_rmtDiag_send_cb, LockTypeOK, ServiceTypeOK
<1>2. CASE EngineTakes
  <2>1. ServiceTypeOK'
    BY <1>2 DEF EngineTakes, Take, ServiceTypeOK
  <2> QED
    BY <1>2, <2>1 DEF EngineTakes, LockTypeOK
<1>3. CASE PP_rmtDiag_queryInform_cb
  <2>1. st' \in StateRecord
    BY <1>3 DEF PP_rmtDiag_queryInform_cb, StateRecord
  <2> QED
    BY <1>3, <2>1 DEF PP_rmtDiag_queryInform_cb, Announce, LockTypeOK, ServiceTypeOK
<1>4. CASE OtaServer
  <2>1. LockTypeOK'
    BY <1>4, LockCallsType, DiagObjects DEF OtaServer
  <2>2. reading' \in BOOLEAN
    BY <1>4 DEF OtaServer, Granted, Compatible
  <2> QED
    BY <1>4, <2>1, <2>2 DEF OtaServer, ServiceTypeOK
<1>5. CASE SwitchIgnition
  BY <1>5 DEF SwitchIgnition, LockTypeOK, ServiceTypeOK
<1>6. CASE Midnight
  BY <1>6 DEF Midnight, LockTypeOK, ServiceTypeOK
<1>7. CASE UNCHANGED diagVars
  BY <1>7 DEF diagVars, LockTypeOK, ServiceTypeOK
<1> QED
  BY <1>1, <1>2, <1>3, <1>4, <1>5, <1>6, <1>7

\* PP_rmtDiag_init establishes the types.
LEMMA TypeInit == RmtDiagInit => RmtDiagTypeOK
<1> SUFFICES ASSUME RmtDiagInit PROVE RmtDiagTypeOK
  OBVIOUS
<1>1. LockTypeOK /\ ServiceTypeOK
  BY DEF RmtDiagInit, LockInit, LockTypeOK, ServiceInit, ServiceTypeOK
<1>2. st \in StateRecord
  BY DEF RmtDiagInit, StateRecord, DiagStates, CleanStates, ActiveStates
<1>3. tx \in 0 .. MaxTx
  BY RmtDiagAssumption DEF RmtDiagInit
<1> QED
  BY <1>1, <1>2, <1>3 DEF RmtDiagInit, RmtDiagTypeOK

\* Every variable keeps its type in every behaviour: the handlers' states stay
\* in their enumerations, the send pool within its size.
THEOREM RmtDiagTypeCorrect == RmtDiagSpec => []RmtDiagTypeOK
<1>1. RmtDiagTypeOK /\ [RmtDiagNext]_diagVars => RmtDiagTypeOK'
  BY TypeDiag, TypeClean, TypeActive, TypeTurn, TypeOthers
  DEF RmtDiagNext, ProtocolThread
<1> QED
  BY <1>1, TypeInit, PTL DEF RmtDiagSpec
-----------------------------------------------------------------------------

\* OneDiagnosisAtATime does not say where it comes from: a handler that is at
\* work has its bit, and so has the OTA server while it reads.
ExclusionInv ==
    /\ AtWork \subseteq PP_odc_lockflag
    /\ reading => "READECUVER" \in PP_odc_lockflag
    /\ DiagOtaOn(PP_odc_lockflag)

\* A step that sets no handler to work and leaves the lock alone.
LEMMA NoNewWork ==
    ASSUME ExclusionInv, AtWork' \subseteq AtWork,
           UNCHANGED <<PP_odc_lockflag, reading>>
    PROVE  ExclusionInv'
  BY DEF ExclusionInv

\* A handler asks for its bit and goes to work only if it is granted.
LEMMA WorkWithLock ==
    ASSUME ExclusionInv, UNCHANGED reading,
           NEW o \in DiagAll, setPP_lock_odcmtxlock(o),
           \/ AtWork' \subseteq AtWork
           \/ Granted(o, PP_odc_lockflag) /\ AtWork' \subseteq AtWork \cup {o}
    PROVE  ExclusionInv'
<1>1. o \in Obj /\ o # "SEAT"
  BY DEF Obj, DiagAll
<1>2. PP_odc_lockflag \subseteq PP_odc_lockflag'
  BY DEF setPP_lock_odcmtxlock, SetFlag
<1>3. DiagOtaOn(PP_odc_lockflag')
  BY <1>1, SetKeepsDiagOta DEF ExclusionInv, setPP_lock_odcmtxlock
<1>4. Granted(o, PP_odc_lockflag) => o \in PP_odc_lockflag'
  BY <1>1 DEF setPP_lock_odcmtxlock, SetFlag, PP_lock_mask
<1> QED
  BY <1>2, <1>3, <1>4 DEF ExclusionInv

\* A handler gives its bit back when it is not at work.
LEMMA WorkOver ==
    ASSUME ExclusionInv, UNCHANGED reading,
           NEW o \in DiagAll, clearPP_lock_odcmtxlock(o),
           AtWork' \subseteq AtWork \ {o}
    PROVE  ExclusionInv'
<1>1. PP_odc_lockflag' = PP_odc_lockflag \ {o}
  BY DEF clearPP_lock_odcmtxlock, PP_lock_mask, DiagAll
<1>2. DiagOtaOn(PP_odc_lockflag')
  BY <1>1 DEF ExclusionInv, DiagOtaOn
<1> QED
  BY <1>1, <1>2 DEF ExclusionInv, DiagAll

\* The handler of the TSP's query works only with its bit.
LEMMA ExclusionDiag ==
    ASSUME RmtDiagTypeOK, ExclusionInv, PP_rmtDiag_do_checkrmtDiag
    PROVE  ExclusionInv'
<1> USE DEF RmtDiagTypeOK, StateRecord, AtWork
<1>1. CASE DiagStays
  BY <1>1, NoNewWork DEF DiagStays, envVars
<1>2. CASE DiagProgress
  <2>0. UNCHANGED reading
    BY <1>2 DEF DiagProgress, envVars
  <2>1. CASE DiagIdle
    <3>1. CASE Granted("TSPDIAG", PP_odc_lockflag)
      <4>1. AtWork' \subseteq AtWork \cup {"TSPDIAG"}
        BY <2>1, <3>1 DEF DiagIdle, DiagAll
      <4> QED
        BY <2>0, <2>1, <3>1, <4>1, WorkWithLock DEF DiagIdle, DiagAll
    <3>2. CASE ~Granted("TSPDIAG", PP_odc_lockflag)
      <4>1. AtWork' \subseteq AtWork
        BY <2>1, <3>2 DEF DiagIdle, Fails
      <4> QED
        BY <2>0, <2>1, <4>1, WorkWithLock DEF DiagIdle, DiagAll
    <3> QED
      BY <3>1, <3>2
  <2>2. CASE DiagQuery
    <3>1. AtWork' \subseteq AtWork
      BY <2>2 DEF DiagQuery, Fails
    <3> QED
      BY <2>0, <2>2, <3>1, NoNewWork DEF DiagQuery
  <2>3. CASE DiagWait
    <3>1. AtWork' \subseteq AtWork
      BY <2>3 DEF DiagWait, Fails
    <3> QED
      BY <2>0, <2>3, <3>1, NoNewWork DEF DiagWait
  <2>4. CASE DiagUpload
    <3>1. AtWork' \subseteq AtWork
      BY <2>4 DEF DiagUpload
    <3> QED
      BY <2>0, <2>4, <3>1, NoNewWork DEF DiagUpload
  <2>5. CASE DiagEnd
    <3>1. AtWork' \subseteq AtWork \ {"TSPDIAG"}
      BY <2>5 DEF DiagEnd
    <3> QED
      BY <2>0, <2>5, <3>1, WorkOver DEF DiagEnd, DiagAll
  <2> QED
    BY <1>2, <2>1, <2>2, <2>3, <2>4, <2>5 DEF DiagProgress
<1> QED
  BY <1>1, <1>2 DEF PP_rmtDiag_do_checkrmtDiag

\* The handler that clears fault codes works only with its bit.
LEMMA ExclusionClean ==
    ASSUME RmtDiagTypeOK, ExclusionInv, PP_rmtDiag_do_FaultCodeClean
    PROVE  ExclusionInv'
<1> USE DEF RmtDiagTypeOK, StateRecord, AtWork
<1>1. CASE CleanStays
  BY <1>1, NoNewWork DEF CleanStays, envVars
<1>2. CASE CleanProgress
  <2>0. UNCHANGED reading
    BY <1>2 DEF CleanProgress, envVars
  <2>1. CASE CleanIdle
    <3>1. \/ AtWork' \subseteq AtWork
          \/ Granted("CLEAN", PP_odc_lockflag)
                /\ AtWork' \subseteq AtWork \cup {"CLEAN"}
      BY <2>1 DEF CleanIdle, DiagAll
    <3> QED
      BY <2>0, <2>1, <3>1, WorkWithLock DEF CleanIdle, DiagAll
  <2>2. CASE CleanReq
    <3>1. AtWork' \subseteq AtWork
      BY <2>2 DEF CleanReq
    <3> QED
      BY <2>0, <2>2, <3>1, NoNewWork DEF CleanReq
  <2>3. CASE CleanWait
    <3>1. AtWork' \subseteq AtWork
      BY <2>3 DEF CleanWait
    <3> QED
      BY <2>0, <2>3, <3>1, NoNewWork DEF CleanWait
  <2>4. CASE CleanEnd
    <3>1. AtWork' \subseteq AtWork \ {"CLEAN"}
      BY <2>4 DEF CleanEnd
    <3> QED
      BY <2>0, <2>4, <3>1, WorkOver DEF CleanEnd, DiagAll
  <2> QED
    BY <1>2, <2>1, <2>2, <2>3, <2>4 DEF CleanProgress
<1> QED
  BY <1>1, <1>2 DEF PP_rmtDiag_do_FaultCodeClean

\* The handler of the active report works only with its bit.
LEMMA ExclusionActive ==
    ASSUME RmtDiagTypeOK, ExclusionInv, PP_rmtDiag_do_DiagActiveReport
    PROVE  ExclusionInv'
<1> USE DEF RmtDiagTypeOK, StateRecord, AtWork
<1>1. CASE ActiveStays
  BY <1>1, NoNewWork DEF ActiveStays, envVars
<1>2. CASE ActiveProgress
  <2>0. UNCHANGED reading
    BY <1>2 DEF ActiveProgress, envVars
  <2>1. CASE ActiveCheckOtaCond
    <3>1. \/ AtWork' \subseteq AtWork
          \/ Granted("ACTIVE", PP_odc_lockflag)
                /\ AtWork' \subseteq AtWork \cup {"ACTIVE"}
      BY <2>1 DEF ActiveCheckOtaCond, Fails, DiagAll
    <3> QED
      BY <2>0, <2>1, <3>1, WorkWithLock DEF ActiveCheckOtaCond, DiagAll
  <2>2. CASE \/ ActiveIdle \/ ActiveCheckReportSt
             \/ ActiveUploadLast \/ ActiveUploadFails
    <3>1. AtWork' \subseteq AtWork /\ UNCHANGED PP_odc_lockflag
      BY <2>2 DEF ActiveIdle, ActiveCheckReportSt, ActiveUploadLast,
                  ActiveUploadFails
    <3> QED
      BY <2>0, <3>1, NoNewWork
  <2>3. CASE ActiveCheckVehiCond \/ ActiveQueryWait
    <3>1. AtWork' \subseteq AtWork /\ UNCHANGED PP_odc_lockflag
      BY <2>3 DEF ActiveCheckVehiCond, ActiveQueryWait, Fails
    <3> QED
      BY <2>0, <3>1, NoNewWork
  <2>4. CASE ActiveEnd
    <3>1. AtWork' \subseteq AtWork \ {"ACTIVE"}
      BY <2>4 DEF ActiveEnd
    <3> QED
      BY <2>0, <2>4, <3>1, WorkOver DEF ActiveEnd, DiagAll
  <2> QED
    BY <1>2, <2>1, <2>2, <2>3, <2>4 DEF ActiveProgress
<1> QED
  BY <1>1, <1>2 DEF PP_rmtDiag_do_DiagActiveReport

\* A turn's beginning can only stop handlers: the ignition sends them to IDLE.
LEMMA ExclusionTurn ==
    ASSUME RmtDiagTypeOK, ExclusionInv, PP_rmtDiag_mainfunction
    PROVE  ExclusionInv'
<1> USE DEF RmtDiagTypeOK, StateRecord, AtWork
<1>1. UNCHANGED <<PP_odc_lockflag, reading>>
  BY DEF PP_rmtDiag_mainfunction, TurnSocketOpen, TurnSocketClosed, Turn
<1>2. AtWork' \subseteq AtWork
  <2>1. CASE ~ign /\ Turn(IgnitionOff(st), "main")
    BY <2>1 DEF Turn, IgnitionOff
  <2>2. CASE TurnSocketOpen
    BY <2>2 DEF TurnSocketOpen, Turn, IgnitionOn, RxMsgHandle
  <2>3. CASE TurnSocketClosed
    BY <2>3 DEF TurnSocketClosed, Turn, IgnitionOn
  <2> QED
    BY <2>1, <2>2, <2>3 DEF PP_rmtDiag_mainfunction
<1> QED
  BY <1>1, <1>2, NoNewWork

\* The OTA server gets a bit only when no handler has one.
LEMMA ExclusionOta ==
    ASSUME ExclusionInv, OtaServer
    PROVE  ExclusionInv'
<1>1. UNCHANGED st
  BY DEF OtaServer
<1>2. ASSUME NEW o \in {"READECUVER", "FOTAUPDATE"}, setPP_lock_odcmtxlock(o)
      PROVE  /\ DiagOtaOn(PP_odc_lockflag') /\ AtWork' \subseteq PP_odc_lockflag'
             /\ PP_odc_lockflag \subseteq PP_odc_lockflag'
             /\ Granted(o, PP_odc_lockflag) => o \in PP_odc_lockflag'
  <2>1. DiagOtaOn(PP_odc_lockflag')
    BY <1>2, DiagObjects, SetKeepsDiagOta DEF setPP_lock_odcmtxlock, ExclusionInv
  <2> QED
    BY <1>1, <1>2, <2>1
    DEF setPP_lock_odcmtxlock, SetFlag, PP_lock_mask, ExclusionInv, AtWork
<1>3. ASSUME NEW o \in {"READECUVER", "FOTAUPDATE"}, clearPP_lock_odcmtxlock(o)
      PROVE  /\ DiagOtaOn(PP_odc_lockflag') /\ AtWork' \subseteq PP_odc_lockflag'
  BY <1>1, <1>3
  DEF clearPP_lock_odcmtxlock, PP_lock_mask, ExclusionInv, AtWork, DiagOtaOn, DiagAll
<1> QED
  BY <1>2, <1>3 DEF OtaServer, ExclusionInv

\* One step of the system keeps ExclusionInv.
LEMMA ExclusionStep ==
    RmtDiagTypeOK /\ ExclusionInv /\ [RmtDiagNext]_diagVars => ExclusionInv'
<1> SUFFICES ASSUME RmtDiagTypeOK, ExclusionInv, [RmtDiagNext]_diagVars
             PROVE  ExclusionInv'
  OBVIOUS
<1>1. CASE ProtocolThread
  BY <1>1, ExclusionTurn, ExclusionDiag, ExclusionClean, ExclusionActive
  DEF ProtocolThread
<1>2. CASE OtaServer
  BY <1>2, ExclusionOta
<1>3. CASE PP_rmtDiag_queryInform_cb
  <2>1. AtWork' \subseteq AtWork
    BY <1>3 DEF PP_rmtDiag_queryInform_cb, AtWork, RmtDiagTypeOK, StateRecord
  <2> QED
    BY <1>3, <2>1, NoNewWork DEF PP_rmtDiag_queryInform_cb
<1>4. CASE \/ PP_rmtDiag_send_cb \/ EngineTakes \/ SwitchIgnition \/ Midnight
           \/ UNCHANGED diagVars
  BY <1>4, NoNewWork
  DEF PP_rmtDiag_send_cb, EngineTakes, SwitchIgnition, Midnight, diagVars, AtWork
<1> QED
  BY <1>1, <1>2, <1>3, <1>4 DEF RmtDiagNext

\* No handler is at work when the thread starts.
LEMMA ExclusionInit == RmtDiagInit => ExclusionInv
  BY DEF RmtDiagInit, LockInit, ExclusionInv, AtWork, DiagOtaOn

\* At most one of the query, the clearing and the active report asks the ECUs
\* at a time, and none while the OTA server upgrades or reads versions,
\* although an ignition that goes off throws the handlers back to IDLE without
\* clearing their bits, and although anybody may clear the OTA bits.
THEOREM OneDiagnosisAlways == RmtDiagSpec => []OneDiagnosisAtATime
<1>1. ExclusionInv => OneDiagnosisAtATime
  BY DEF ExclusionInv, DiagOtaOn, OneDiagnosisAtATime, AtWork, OtaAll
<1> QED
  BY <1>1, ExclusionInit, ExclusionStep, RmtDiagTypeCorrect, PTL DEF RmtDiagSpec
-----------------------------------------------------------------------------

\* While the ignition is never switched it stays on, as PP_rmtDiag_init finds it.
LEMMA IgnitionStays ==
    ASSUME ~IgnSwitches, ign, [RmtDiagNext]_diagVars
    PROVE  ign'
<1>1. CASE ProtocolThread
  BY <1>1 DEF ProtocolThread, PP_rmtDiag_mainfunction, TurnSocketOpen,
     TurnSocketClosed, Turn, PP_rmtDiag_do_checkrmtDiag, DiagProgress, DiagStays,
     PP_rmtDiag_do_FaultCodeClean, CleanProgress, CleanStays,
     PP_rmtDiag_do_DiagActiveReport, ActiveProgress, ActiveStays, envVars
<1>2. CASE ~ProtocolThread
  BY <1>2 DEF RmtDiagNext, PP_rmtDiag_send_cb, EngineTakes,
     PP_rmtDiag_queryInform_cb, OtaServer, SwitchIgnition, Midnight, diagVars
<1> QED
  BY <1>1, <1>2

\* A handler that calls the lock changes no bit but its own.
LEMMA OneBit ==
    ASSUME NEW o \in Obj,
           setPP_lock_odcmtxlock(o) \/ clearPP_lock_odcmtxlock(o)
    PROVE  PP_odc_lockflag' \ {o} = PP_odc_lockflag \ {o}
  BY DEF setPP_lock_odcmtxlock, clearPP_lock_odcmtxlock, SetFlag, PP_lock_mask

\* The handler of the TSP's query comes back to IDLE only with its bit clear.
LEMMA FreedDiag ==
    ASSUME RmtDiagTypeOK, LockFreedWithItsUser, PP_rmtDiag_do_checkrmtDiag
    PROVE  LockFreedWithItsUser'
<1> USE DEF RmtDiagTypeOK, StateRecord, LockFreedWithItsUser
<1>1. CASE DiagStays
  BY <1>1 DEF DiagStays
<1>2. CASE DiagIdle
  <2>1. PP_odc_lockflag' \ {"TSPDIAG"} = PP_odc_lockflag \ {"TSPDIAG"}
    BY <1>2, OneBit, DiagObjects DEF DiagIdle
  <2> QED
    BY <1>2, <2>1 DEF DiagIdle, Fails
<1>3. CASE DiagQuery \/ DiagWait \/ DiagUpload
  BY <1>3 DEF DiagQuery, DiagWait, DiagUpload, Fails
<1>4. CASE DiagEnd
  <2>1. PP_odc_lockflag' = PP_odc_lockflag \ {"TSPDIAG"}
    BY <1>4 DEF DiagEnd, clearPP_lock_odcmtxlock, PP_lock_mask
  <2> QED
    BY <1>4, <2>1 DEF DiagEnd
<1> QED
  BY <1>1, <1>2, <1>3, <1>4 DEF PP_rmtDiag_do_checkrmtDiag, DiagProgress

\* So does the handler that clears fault codes.
LEMMA FreedClean ==
    ASSUME RmtDiagTypeOK, LockFreedWithItsUser, PP_rmtDiag_do_FaultCodeClean
    PROVE  LockFreedWithItsUser'
<1> USE DEF RmtDiagTypeOK, StateRecord, LockFreedWithItsUser
<1>1. CASE CleanStays
  BY <1>1 DEF CleanStays
<1>2. CASE CleanIdle
  <2>1. PP_odc_lockflag' \ {"CLEAN"} = PP_odc_lockflag \ {"CLEAN"}
    BY <1>2, OneBit, DiagObjects DEF CleanIdle
  <2> QED
    BY <1>2, <2>1 DEF CleanIdle
<1>3. CASE CleanReq \/ CleanWait
  BY <1>3 DEF CleanReq, CleanWait
<1>4. CASE CleanEnd
  <2>1. PP_odc_lockflag' = PP_odc_lockflag \ {"CLEAN"}
    BY <1>4 DEF CleanEnd, clearPP_lock_odcmtxlock, PP_lock_mask
  <2> QED
    BY <1>4, <2>1 DEF CleanEnd
<1> QED
  BY <1>1, <1>2, <1>3, <1>4 DEF PP_rmtDiag_do_FaultCodeClean, CleanProgress

\* So does the handler of the active report.
LEMMA FreedActive ==
    ASSUME RmtDiagTypeOK, LockFreedWithItsUser, PP_rmtDiag_do_DiagActiveReport
    PROVE  LockFreedWithItsUser'
<1> USE DEF RmtDiagTypeOK, StateRecord, LockFreedWithItsUser
<1>1. CASE ActiveStays
  BY <1>1 DEF ActiveStays
<1>2. CASE ActiveCheckOtaCond
  <2>1. PP_odc_lockflag' \ {"ACTIVE"} = PP_odc_lockflag \ {"ACTIVE"}
    BY <1>2, OneBit, DiagObjects DEF ActiveCheckOtaCond
  <2> QED
    BY <1>2, <2>1 DEF ActiveCheckOtaCond, Fails
<1>3. CASE \/ ActiveIdle \/ ActiveCheckReportSt \/ ActiveCheckVehiCond
           \/ ActiveQueryWait \/ ActiveUploadLast \/ ActiveUploadFails
  BY <1>3 DEF ActiveIdle, ActiveCheckReportSt, ActiveCheckVehiCond,
     ActiveQueryWait, ActiveUploadLast, ActiveUploadFails, Fails
<1>4. CASE ActiveEnd
  <2>1. PP_odc_lockflag' = PP_odc_lockflag \ {"ACTIVE"}
    BY <1>4 DEF ActiveEnd, clearPP_lock_odcmtxlock, PP_lock_mask
  <2> QED
    BY <1>4, <2>1 DEF ActiveEnd
<1> QED
  BY <1>1, <1>2, <1>3, <1>4 DEF PP_rmtDiag_do_DiagActiveReport, ActiveProgress

\* The beginning of a turn leaves the handlers' states alone while the ignition
\* is on.
LEMMA TurnKeepsHandlers ==
    ASSUME RmtDiagTypeOK, ign, PP_rmtDiag_mainfunction
    PROVE  /\ UNCHANGED <<PP_odc_lockflag, mailbox, job, lastDone>>
           /\ st'.diagrespSt = st.diagrespSt
           /\ st'.cleanfaultSt = st.cleanfaultSt
           /\ st'.activeDiagSt = st.activeDiagSt
           /\ st'.faultquerySt = st.faultquerySt
           /\ st'.faultCleanFinish = st.faultCleanFinish
<1> USE DEF RmtDiagTypeOK, StateRecord
<1>1. CASE TurnSocketOpen
  BY <1>1 DEF TurnSocketOpen, Turn, IgnitionOn, RxMsgHandle
<1>2. CASE TurnSocketClosed
  BY <1>2 DEF TurnSocketClosed, Turn, IgnitionOn
<1> QED
  BY <1>1, <1>2 DEF PP_rmtDiag_mainfunction

\* One step of the system keeps the bits with their users.
LEMMA FreedStep ==
    ASSUME RmtDiagTypeOK, ign, LockFreedWithItsUser, [RmtDiagNext]_diagVars
    PROVE  LockFreedWithItsUser'
<1>1. CASE PP_rmtDiag_mainfunction
  BY <1>1, TurnKeepsHandlers DEF LockFreedWithItsUser
<1>2. CASE \/ PP_rmtDiag_do_checkrmtDiag \/ PP_rmtDiag_do_FaultCodeClean
           \/ PP_rmtDiag_do_DiagActiveReport
  BY <1>2, FreedDiag, FreedClean, FreedActive
<1>3. CASE OtaServer
  <2>1. PICK o \in {"READECUVER", "FOTAUPDATE"} :
            setPP_lock_odcmtxlock(o) \/ clearPP_lock_odcmtxlock(o)
    BY <1>3 DEF OtaServer
  <2>2. PP_odc_lockflag' \ {o} = PP_odc_lockflag \ {o}
    BY <2>1, OneBit, DiagObjects
  <2> QED
    BY <1>3, <2>2 DEF OtaServer, LockFreedWithItsUser
<1>4. CASE PP_rmtDiag_queryInform_cb
  BY <1>4
  DEF PP_rmtDiag_queryInform_cb, LockFreedWithItsUser, RmtDiagTypeOK, StateRecord
<1>5. CASE \/ PP_rmtDiag_send_cb \/ EngineTakes \/ SwitchIgnition \/ Midnight
           \/ UNCHANGED diagVars
  BY <1>5 DEF PP_rmtDiag_send_cb, EngineTakes, SwitchIgnition, Midnight,
              diagVars, LockFreedWithItsUser
<1> QED
  BY <1>1, <1>2, <1>3, <1>4, <1>5 DEF RmtDiagNext, ProtocolThread

\* While the ignition stays on, a diagnosis bit is set only while its handler
\* is busy, whichever way the handler ends: refused by the lock, out of time,
\* unable to encode its answer, or done.  (With an ignition that is switched
\* off in between it is false: the handlers fall to IDLE with their bits set.)
THEOREM LockFreedSteady ==
    ASSUME ~IgnSwitches
    PROVE  RmtDiagSpec => []LockFreedWithItsUser
<1>1. RmtDiagInit => ign /\ LockFreedWithItsUser
  BY DEF RmtDiagInit, LockInit, LockFreedWithItsUser
<1>2. /\ RmtDiagTypeOK /\ ign /\ LockFreedWithItsUser
      /\ [RmtDiagNext]_diagVars
      => ign' /\ LockFreedWithItsUser'
  BY FreedStep, IgnitionStays
<1> QED
  BY <1>1, <1>2, RmtDiagTypeCorrect, PTL DEF RmtDiagSpec
-----------------------------------------------------------------------------
(* With the ignition on for good and every job over before its client      *)
(* gives up, the diagnosis thread has at most one job, that of the handler *)
(* that waits for it.                                                      *)

\* The handler waits for the job it posted.
Waiting ==
    {o \in DiagAll :
        \/ o = "TSPDIAG" /\ st.diagrespSt = "QUERYWAIT"
        \/ o = "CLEAN" /\ st.cleanfaultSt = "WAIT"
        \/ o = "ACTIVE" /\ st.activeDiagSt = "QUREYWAIT"}

\* The job a handler posts, and the flag it is told with that it is over.
JobOf(o) == IF o = "TSPDIAG" THEN "TSP" ELSE o

Told(o) == IF o = "CLEAN" THEN st.faultCleanFinish ELSE st.faultquerySt

\* The diagnosis thread has nothing to do.
Quiet == mailbox = <<>> /\ job = NoJob

\* A job that is posted or executed is not yet announced, and it is the
\* handler's own; once the thread is quiet the flag tells of that job, or the
\* job named no ECU and nothing will be announced.
OwnJob(o) ==
    \/ Quiet /\ Told(o) /\ lastDone = JobOf(o)
    \/ /\ ~Told(o) /\ lastDone = NoJob
       /\ \/ Quiet
          \/ mailbox \in {<<JobOf(o)>>, <<BadJob>>} /\ job = NoJob
          \/ mailbox = <<>> /\ job = JobOf(o)

SteadyInv ==
    /\ Waiting = {} => Quiet
    /\ \A o \in Waiting : OwnJob(o)

\* A handler that waits is at work, and so at most one waits.
LEMMA OneWaits ==
    ASSUME ExclusionInv
    PROVE  /\ Waiting \subseteq AtWork
           /\ \A a, b \in AtWork : a = b
  BY DEF ExclusionInv, DiagOtaOn, Waiting, AtWork

\* Nobody begins or ceases to wait, and nothing happens to the jobs.
LEMMA StillWaiting ==
    ASSUME SteadyInv, UNCHANGED <<mailbox, job, lastDone>>, Waiting' = Waiting,
           \A o \in Waiting : Told(o)' = Told(o)
    PROVE  SteadyInv'
  BY DEF SteadyInv, OwnJob, Quiet, JobOf

\* A handler that stops waiting leaves nothing behind.
LEMMA WaitEnds ==
    ASSUME SteadyInv, UNCHANGED <<mailbox, job, lastDone>>,
           NEW o \in Waiting, Told(o) \/ Quiet, Waiting' = {}
    PROVE  SteadyInv'
  BY DEF SteadyInv, OwnJob, Quiet

\* A handler that posts its job finds the diagnosis thread quiet.
LEMMA WaitBegins ==
    ASSUME SteadyInv, Waiting = {}, NEW o \in DiagAll, Waiting' = {o},
           NEW j \in {JobOf(o), BadJob}, Ask(j), UNCHANGED job, ~Told(o)'
    PROVE  SteadyInv'
<1>1. Quiet
  BY DEF SteadyInv
<1>2. mailbox' = <<j>> /\ job' = NoJob /\ lastDone' = NoJob
  BY <1>1 DEF Quiet, Ask, Post
<1> QED
  BY <1>2 DEF SteadyInv, OwnJob, JobOf

\* WaitIsOver says that the thread is quiet.
LEMMA OverIsQuiet ==
    ASSUME EngineInTime, WaitIsOver
    PROVE  Quiet
  BY DEF WaitIsOver, Quiet

\* The handler of the TSP's query.
LEMMA SteadyDiag ==
    ASSUME EngineInTime, RmtDiagTypeOK, ExclusionInv, SteadyInv,
           PP_rmtDiag_do_checkrmtDiag
    PROVE  SteadyInv'
<1> USE DEF RmtDiagTypeOK, StateRecord, Waiting, Told
<1>0. UNCHANGED job
  BY DEF PP_rmtDiag_do_checkrmtDiag, DiagProgress, DiagStays, envVars
<1>1. CASE DiagStays
  BY <1>0, <1>1, StillWaiting DEF DiagStays
<1>2. CASE DiagIdle \/ DiagUpload \/ DiagEnd
  <2>1. /\ UNCHANGED <<mailbox, lastDone>> /\ Waiting' = Waiting
        /\ \A o \in Waiting : Told(o)' = Told(o)
    BY <1>2 DEF DiagIdle, DiagUpload, DiagEnd, AsksNothing, Fails
  <2> QED
    BY <1>0, <2>1, StillWaiting
<1>3. CASE DiagQuery
  <2>0. "TSPDIAG" \in AtWork /\ "TSPDIAG" \notin Waiting
    BY <1>3 DEF DiagQuery, AtWork, DiagAll
  <2>1. Waiting = {}
    BY <2>0, OneWaits
  <2>2. CASE /\ \E j \in {"TSP", BadJob} : Ask(j)
             /\ st' = [st EXCEPT !.faultquerySt = FALSE,
                                 !.diagrespSt = "QUERYWAIT"]
    <3>1. Waiting' = {"TSPDIAG"} /\ ~Told("TSPDIAG")'
      BY <2>1, <2>2 DEF DiagAll
    <3> QED
      BY <1>0, <2>1, <2>2, <3>1, WaitBegins DEF JobOf, DiagAll
  <2>3. CASE /\ st' = [Fails(st) EXCEPT !.diagrespSt = "QUERYUPLOAD"]
             /\ AsksNothing
    <3>1. Waiting' = Waiting
      BY <2>1, <2>3 DEF Fails
    <3> QED
      BY <1>0, <2>1, <2>3, <3>1, StillWaiting DEF AsksNothing
  <2> QED
    BY <1>3, <2>2, <2>3 DEF DiagQuery
<1>4. CASE DiagWait
  <2>1. "TSPDIAG" \in Waiting /\ Waiting' = {}
    <3>1. "TSPDIAG" \in Waiting
      BY <1>4 DEF DiagWait, DiagAll
    <3>2. Waiting = {"TSPDIAG"}
      BY <3>1, OneWaits
    <3> QED
      BY <1>4, <3>1, <3>2 DEF DiagWait, Fails
  <2>2. Told("TSPDIAG") \/ Quiet
    BY <1>4, OverIsQuiet DEF DiagWait
  <2> QED
    BY <1>0, <1>4, <2>1, <2>2, WaitEnds DEF DiagWait, AsksNothing
<1> QED
  BY <1>1, <1>2, <1>3, <1>4 DEF PP_rmtDiag_do_checkrmtDiag, DiagProgress

\* The handler that clears fault codes.
LEMMA SteadyClean ==
    ASSUME EngineInTime, RmtDiagTypeOK, ExclusionInv, SteadyInv,
           PP_rmtDiag_do_FaultCodeClean
    PROVE  SteadyInv'
<1> USE DEF RmtDiagTypeOK, StateRecord, Waiting, Told
<1>0. UNCHANGED job
  BY DEF PP_rmtDiag_do_FaultCodeClean, CleanProgress, CleanStays, envVars
<1>1. CASE CleanStays
  BY <1>0, <1>1, StillWaiting DEF CleanStays
<1>2. CASE CleanIdle \/ CleanEnd
  <2>1. /\ UNCHANGED <<mailbox, lastDone>> /\ Waiting' = Waiting
        /\ \A o \in Waiting : Told(o)' = Told(o)
    BY <1>2 DEF CleanIdle, CleanEnd, AsksNothing
  <2> QED
    BY <1>0, <2>1, StillWaiting
<1>3. CASE CleanReq
  <2>0. "CLEAN" \in AtWork /\ "CLEAN" \notin Waiting
    BY <1>3 DEF CleanReq, AtWork, DiagAll
  <2>1. Waiting = {}
    BY <2>0, OneWaits
  <2>2. Waiting' = {"CLEAN"} /\ ~Told("CLEAN")'
    BY <1>3, <2>1 DEF CleanReq, DiagAll
  <2> QED
    BY <1>0, <1>3, <2>1, <2>2, WaitBegins DEF CleanReq, JobOf, DiagAll
<1>4. CASE CleanWait
  <2>1. "CLEAN" \in Waiting
    BY <1>4 DEF CleanWait, DiagAll
  <2>2. Waiting = {"CLEAN"}
    BY <2>1, OneWaits
  <2>3. Waiting' = {}
    BY <1>4, <2>2 DEF CleanWait
  <2>4. Told("CLEAN") \/ Quiet
    BY <1>4, OverIsQuiet DEF CleanWait
  <2> QED
    BY <1>0, <1>4, <2>1, <2>3, <2>4, WaitEnds DEF CleanWait, AsksNothing
<1> QED
  BY <1>1, <1>2, <1>3, <1>4 DEF PP_rmtDiag_do_FaultCodeClean, CleanProgress

\* The handler of the active report.
LEMMA SteadyActive ==
    ASSUME EngineInTime, RmtDiagTypeOK, ExclusionInv, SteadyInv,
           PP_rmtDiag_do_DiagActiveReport
    PROVE  SteadyInv'
<1> USE DEF RmtDiagTypeOK, StateRecord, Waiting, Told
<1>0. UNCHANGED job
  BY DEF PP_rmtDiag_do_DiagActiveReport, ActiveProgress, ActiveStays, envVars
<1>1. CASE ActiveStays
  BY <1>0, <1>1, StillWaiting DEF ActiveStays
<1>2. CASE \/ ActiveIdle \/ ActiveCheckReportSt \/ ActiveCheckOtaCond
           \/ ActiveUploadLast \/ ActiveUploadFails \/ ActiveEnd
  <2>1. /\ UNCHANGED <<mailbox, lastDone>> /\ Waiting' = Waiting
        /\ \A o \in Waiting : Told(o)' = Told(o)
    BY <1>2 DEF ActiveIdle, ActiveCheckReportSt, ActiveCheckOtaCond,
       ActiveUploadLast, ActiveUploadFails, ActiveEnd, Fails
  <2> QED
    BY <1>0, <2>1, StillWaiting
<1>3. CASE ActiveCheckVehiCond
  <2>0. "ACTIVE" \in AtWork /\ "ACTIVE" \notin Waiting
    BY <1>3 DEF ActiveCheckVehiCond, AtWork, DiagAll
  <2>1. Waiting = {}
    BY <2>0, OneWaits
  <2>2. CASE /\ Ask("ACTIVE")
             /\ st' = [st EXCEPT !.faultquerySt = FALSE,
                                 !.activeDiagSt = "QUREYWAIT"]
    <3>1. Waiting' = {"ACTIVE"} /\ ~Told("ACTIVE")'
      BY <2>1, <2>2 DEF DiagAll
    <3> QED
      BY <1>0, <2>1, <2>2, <3>1, WaitBegins DEF JobOf, DiagAll
  <2>3. CASE /\ st' = [Fails(st) EXCEPT !.activeDiagSt = "QUERYUPLOAD"]
             /\ AsksNothing
    <3>1. Waiting' = Waiting
      BY <2>1, <2>3 DEF Fails
    <3> QED
      BY <1>0, <2>1, <2>3, <3>1, StillWaiting DEF AsksNothing
  <2> QED
    BY <1>3, <2>2, <2>3 DEF ActiveCheckVehiCond
<1>4. CASE ActiveQueryWait
  <2>1. "ACTIVE" \in Waiting
    BY <1>4 DEF ActiveQueryWait, DiagAll
  <2>2. Waiting = {"ACTIVE"}
    BY <2>1, OneWaits
  <2>3. Waiting' = {}
    BY <1>4, <2>2 DEF ActiveQueryWait, Fails
  <2>4. Told("ACTIVE") \/ Quiet
    BY <1>4, OverIsQuiet DEF ActiveQueryWait
  <2> QED
    BY <1>0, <1>4, <2>1, <2>3, <2>4, WaitEnds DEF ActiveQueryWait
<1> QED
  BY <1>1, <1>2, <1>3, <1>4 DEF PP_rmtDiag_do_DiagActiveReport, ActiveProgress

\* The diagnosis thread takes the job of the handler that waits, or throws away
\* one that names no ECU.
LEMMA SteadyTakes ==
    ASSUME SteadyInv, ExclusionInv, EngineTakes
    PROVE  SteadyInv'
<1>1. ~Quiet
  BY DEF EngineTakes, Take, Quiet
<1>2. PICK o \in Waiting : OwnJob(o)
  BY <1>1 DEF SteadyInv
<1>3. Waiting' = {o} /\ Told(o)' = Told(o)
  BY <1>2, OneWaits DEF EngineTakes, Waiting, Told
<1>4. /\ ~Told(o) /\ lastDone = NoJob /\ job = NoJob
      /\ mailbox \in {<<JobOf(o)>>, <<BadJob>>}
  BY <1>2 DEF OwnJob, Quiet, EngineTakes, Take
<1>5. Head(mailbox) \in {JobOf(o), BadJob} /\ Tail(mailbox) = <<>>
  <2>1. mailbox \in {<<JobOf(o)>>, <<BadJob>>}
    BY <1>4
  <2>2. CASE mailbox = <<JobOf(o)>>
    BY <2>2
  <2>3. CASE mailbox = <<BadJob>>
    BY <2>3
  <2> QED
    BY <2>1, <2>2, <2>3
<1>6. mailbox' = <<>> /\ job' \in {NoJob, JobOf(o)} /\ lastDone' = NoJob
  BY <1>4, <1>5, ServiceAssumption DEF EngineTakes, Take
<1> QED
  BY <1>3, <1>4, <1>6 DEF SteadyInv, OwnJob, Quiet, JobOf

\* It announces the job of the handler that waits.
LEMMA SteadyInforms ==
    ASSUME RmtDiagTypeOK, SteadyInv, ExclusionInv, PP_rmtDiag_queryInform_cb
    PROVE  SteadyInv'
<1>1. job # NoJob /\ job' = NoJob /\ lastDone' = job /\ mailbox' = mailbox
  BY DEF PP_rmtDiag_queryInform_cb, Announce
<1>2. PICK o \in Waiting : OwnJob(o)
  BY <1>1 DEF SteadyInv, Quiet
<1>3. Waiting' = {o} /\ Told(o)'
  BY <1>2, OneWaits
  DEF PP_rmtDiag_queryInform_cb, Waiting, Told, RmtDiagTypeOK, StateRecord
<1>4. job = JobOf(o) /\ mailbox = <<>>
  BY <1>1, <1>2 DEF OwnJob, Quiet
<1> QED
  BY <1>1, <1>3, <1>4 DEF SteadyInv, OwnJob, Quiet, JobOf

\* One step of the system keeps SteadyInv.
LEMMA SteadyStep ==
    ASSUME EngineInTime, RmtDiagTypeOK, ign, ExclusionInv, SteadyInv,
           [RmtDiagNext]_diagVars
    PROVE  SteadyInv'
<1>1. CASE PP_rmtDiag_mainfunction
  BY <1>1, TurnKeepsHandlers, StillWaiting DEF Waiting, Told
<1>2. CASE \/ PP_rmtDiag_do_checkrmtDiag \/ PP_rmtDiag_do_FaultCodeClean
           \/ PP_rmtDiag_do_DiagActiveReport
  BY <1>2, SteadyDiag, SteadyClean, SteadyActive
<1>3. CASE EngineTakes \/ PP_rmtDiag_queryInform_cb
  BY <1>3, SteadyTakes, SteadyInforms
<1>4. CASE \/ PP_rmtDiag_send_cb \/ OtaServer \/ SwitchIgnition \/ Midnight
           \/ UNCHANGED diagVars
  BY <1>4, StillWaiting
  DEF PP_rmtDiag_send_cb, OtaServer, SwitchIgnition, Midnight, diagVars,
      Waiting, Told
<1> QED
  BY <1>1, <1>2, <1>3, <1>4 DEF RmtDiagNext, ProtocolThread

\* SteadyInv holds throughout.
LEMMA SteadyAlways ==
    ASSUME ~IgnSwitches, EngineInTime
    PROVE  RmtDiagSpec => [](ExclusionInv /\ SteadyInv)
<1>1. RmtDiagInit => ign /\ SteadyInv
  BY DEF RmtDiagInit, ServiceInit, SteadyInv, Waiting, Quiet
<1>2. /\ RmtDiagTypeOK /\ ign /\ ExclusionInv /\ SteadyInv
      /\ [RmtDiagNext]_diagVars
      => ign' /\ SteadyInv'
  BY SteadyStep, IgnitionStays
<1> QED
  BY <1>1, <1>2, ExclusionInit, ExclusionStep, RmtDiagTypeCorrect, PTL
  DEF RmtDiagSpec

\* While the ignition stays on and every job is over before its client gives
\* up, the diagnosis thread neither has nor is sent a job while the OTA server
\* upgrades or reads versions: the lock word, which knows the handlers only,
\* keeps the thread off the bus too.
THEOREM NoJobDuringOtaSteady ==
    ASSUME ~IgnSwitches, EngineInTime
    PROVE  RmtDiagSpec => []NoJobDuringOta
<1>1. ExclusionInv /\ SteadyInv => NoJobDuringOta
  <2> SUFFICES ASSUME ExclusionInv, SteadyInv, PP_odc_lockflag \cap OtaAll # {}
               PROVE  Quiet
    BY DEF NoJobDuringOta, Quiet
  <2>1. AtWork = {}
    BY DEF ExclusionInv, DiagOtaOn, AtWork
  <2> QED
    BY <2>1, OneWaits DEF SteadyInv
<1> QED
  BY <1>1, SteadyAlways, PTL

\* On the same two assumptions a handler that waits and sees the completion
\* flag, which one callback sets for all three, sees the end of its own job.
THEOREM CompletionIsOwnSteady ==
    ASSUME ~IgnSwitches, EngineInTime
    PROVE  RmtDiagSpec => []CompletionIsOwn
<1>1. SteadyInv => CompletionIsOwn
  BY DEF SteadyInv, OwnJob, Told, JobOf, Waiting, CompletionIsOwn, DiagAll
<1> QED
  BY <1>1, SteadyAlways, PTL
=============================================================================
