------------------------------ MODULE RmtDiag ------------------------------
(***************************************************************************)
(* Remote diagnosis in PrvtProt_rmtDiag.c: the query asked for by the TSP, *)
(* the clearing of fault codes, and the report the T-Box makes on its own  *)
(* once a day.  All three run in the protocol thread, one handler after    *)
(* the other in every turn of PP_rmtDiag_mainfunction, and share           *)
(*   - the lock of OdcLock, with each other and with the OTA server;       *)
(*   - the diagnosis thread (DiagService), which calls back from its own   *)
(*     thread when a job, whosever it was, is over;                        *)
(*   - the fields result and failureType of PP_rmtDiag.state.              *)
(* The handlers' waits are bounded by the clock: whether a wait is over is *)
(* a free choice, and so is how many messages a list of fault codes takes. *)
(***************************************************************************)
EXTENDS OdcLock, DiagService

CONSTANTS
    MaxTx,          \* status messages the send pool takes
    IgnSwitches,    \* the ignition may be switched while the T-Box runs
    EngineInTime    \* a job ends before its client gives up waiting for it

ASSUME RmtDiagAssumption ==
    /\ Job = {"TSP", "ACTIVE", "CLEAN"}
    /\ MaxTx \in Nat \ {0}
    /\ IgnSwitches \in BOOLEAN /\ EngineInTime \in BOOLEAN

VARIABLES
    pc,             \* the handler the protocol thread calls next
    ign,            \* dev_get_KL15_signal
    IGNoldSt,       \* its value in the turn before
    st,             \* PP_rmtDiag.state
    date,           \* rmtDiag_datetime: the day of the last recorded report
    tm_datetime,    \* the day the current active report was begun
    tx,             \* status messages whose send callback is outstanding
    reading,        \* the OTA server reads ECU versions
    lastDone        \* (history) the job announced since the last one was posted

diagVars == <<PP_odc_lockflag, mailbox, job, pc, ign, IGNoldSt, st, date,
              tm_datetime, tx, reading, lastDone>>

\* Everything but what a handler of the protocol thread may change.
envVars == <<job, ign, IGNoldSt, reading>>

\* PP_rmtDiag_init, with any date read back from the configuration.
RmtDiagInit ==
    /\ LockInit /\ ServiceInit
    /\ pc = "main" /\ ign = TRUE /\ IGNoldSt = FALSE
    /\ st = [diagReq |-> FALSE, diagrespSt |-> "IDLE", faultquerySt |-> FALSE,
             result |-> 0,
             cleanfaultReq |-> FALSE, cleanfaultSt |-> "IDLE",
             faultCleanFinish |-> FALSE,
             activeDiagFlag |-> TRUE, activeDiagSt |-> "IDLE"]
    /\ date \in {"today", "other"} /\ tm_datetime = "other"
    /\ tx = 0 /\ reading = FALSE
    /\ lastDone = NoJob

-----------------------------------------------------------------------------
(* PP_rmtDiag_mainfunction up to the first handler: the ignition, the      *)
(* socket and one received message.                                        *)

\* Every handler is sent back to IDLE.  The lock is not given back and a
\* pending cleanfaultReq is kept.
IgnitionOff(s) ==
    [s EXCEPT !.diagrespSt = "IDLE", !.activeDiagSt = "IDLE",
              !.cleanfaultSt = "IDLE", !.diagReq = FALSE]

IgnitionOn(s) ==
    [s EXCEPT !.activeDiagFlag = IF IGNoldSt THEN @ ELSE TRUE]

\* PP_rmtDiag_RxMsgHandle: a request that finds its handler busy is logged.
RxMsgHandle(s, mid) ==
    CASE mid = "DIAG_REQ" ->
           [s EXCEPT !.diagReq = @ \/ s.diagrespSt = "IDLE"]
      [] mid = "FAULTCODECLEAN" ->
           [s EXCEPT !.cleanfaultReq = @ \/ s.cleanfaultSt = "IDLE"]
      [] mid = "nothing" -> s

Turn(s, next) ==
    /\ pc = "main" /\ pc' = next
    /\ IGNoldSt' = ign
    /\ st' = s
    /\ UNCHANGED <<PP_odc_lockflag, mailbox, job, ign, date, tm_datetime, tx,
                   reading, lastDone>>

TurnSocketOpen ==
    /\ ign
    /\ \E mid \in {"nothing", "DIAG_REQ", "FAULTCODECLEAN"} :
           Turn(RxMsgHandle(IgnitionOn(st), mid), "diag")

\* PP_rmtDiag_do_checksock ends the chain of handlers; the active report looks
\* at the socket once more.
TurnSocketClosed == ign /\ Turn(IgnitionOn(st), "active")

PP_rmtDiag_mainfunction ==
    \/ ~ign /\ Turn(IgnitionOff(st), "main")
    \/ TurnSocketOpen
    \/ TurnSocketClosed

-----------------------------------------------------------------------------
(* What the three handlers have in common.                                 *)

\* A handler posts its job.
Ask(j) == Post(j) /\ lastDone' = NoJob

AsksNothing == UNCHANGED <<mailbox, lastDone>>

\* The clock has passed the limit of a wait.
WaitIsOver == EngineInTime => mailbox = <<>> /\ job = NoJob

\* The failureType written with it goes into the message only and is not kept.
Fails(s) == [s EXCEPT !.result = 0]

-----------------------------------------------------------------------------
(* PP_rmtDiag_do_checkrmtDiag, one action per case.                        *)

\* Definitions named Mut... are mutated forms of the one that follows, used by
\* no action.  Here: the query is started whatever the lock answered.
MutDiagIdle ==
    /\ st.diagrespSt = "IDLE" /\ st.diagReq
    /\ setPP_lock_odcmtxlock("TSPDIAG")
    /\ st' = [st EXCEPT !.diagReq = FALSE, !.diagrespSt = "QUERYFAILREQ"]
    /\ AsksNothing

\* PP_DIAGRESP_IDLE with a request.
DiagIdle ==
    /\ st.diagrespSt = "IDLE" /\ st.diagReq
    /\ setPP_lock_odcmtxlock("TSPDIAG")
    /\ LET s == [st EXCEPT !.diagReq = FALSE] IN
         st' = IF Granted("TSPDIAG", PP_odc_lockflag)
               THEN [s EXCEPT !.diagrespSt = "QUERYFAILREQ"]
               ELSE [Fails(s) EXCEPT !.diagrespSt = "QUERYUPLOAD"]
    /\ AsksNothing

\* Mutated form: the lock is given back as soon as the query is posted.
MutDiagQuery ==
    /\ st.diagrespSt = "QUERYFAILREQ"
    /\ \E j \in {"TSP", BadJob} : Ask(j)
    /\ st' = [st EXCEPT !.faultquerySt = FALSE, !.diagrespSt = "QUERYWAIT"]
    /\ clearPP_lock_odcmtxlock("TSPDIAG")

\* PP_DIAGRESP_QUERYFAILREQ.  The TSP may name an ECU that does not exist.
DiagQuery ==
    /\ st.diagrespSt = "QUERYFAILREQ"
    /\ \/ /\ \E j \in {"TSP", BadJob} : Ask(j)
          /\ st' = [st EXCEPT !.faultquerySt = FALSE,
                              !.diagrespSt = "QUERYWAIT"]
       \/ /\ st' = [Fails(st) EXCEPT !.diagrespSt = "QUERYUPLOAD"]
          /\ AsksNothing
    /\ UNCHANGED PP_odc_lockflag

\* Mutated form: the limit of the wait is not looked at.
MutDiagWait ==
    /\ st.diagrespSt = "QUERYWAIT"
    /\ st.faultquerySt
    /\ \E r \in {0, 1} :
          /\ st' = [st EXCEPT !.result = r,
                              !.diagrespSt = "QUERYUPLOAD"]
    /\ UNCHANGED PP_odc_lockflag /\ AsksNothing

\* PP_DIAGRESP_QUERYWAIT.  getPPrmtDiagCfg_Faultcode says whether the ECU
\* answered.
DiagWait ==
    /\ st.diagrespSt = "QUERYWAIT"
    /\ \/ /\ st.faultquerySt
          /\ \E r \in {0, 1} :
                /\ st' = [st EXCEPT !.result = r,
                                    !.diagrespSt = "QUERYUPLOAD"]
       \/ /\ WaitIsOver
          /\ st' = [Fails(st) EXCEPT !.diagrespSt = "QUERYUPLOAD"]
    /\ UNCHANGED PP_odc_lockflag /\ AsksNothing

\* PP_DIAGRESP_QUERYUPLOAD: PP_rmtDiag_DiagResponse returns 0 while codes are
\* left, 1 with the last ones and -1 when they cannot be encoded.
DiagUpload ==
    /\ st.diagrespSt = "QUERYUPLOAD"
    /\ st' = [st EXCEPT !.diagrespSt = "END"]
    /\ UNCHANGED <<PP_odc_lockflag, mailbox, lastDone>>

DiagUploadMore == st.diagrespSt = "QUERYUPLOAD" /\ st.result = 1

\* PP_DIAGRESP_END
DiagEnd ==
    /\ st.diagrespSt = "END"
    /\ clearPP_lock_odcmtxlock("TSPDIAG")
    /\ st' = [st EXCEPT !.diagrespSt = "IDLE"]
    /\ AsksNothing

DiagProgress ==
    /\ pc = "diag" /\ pc' = "clean"
    /\ DiagIdle \/ DiagQuery \/ DiagWait \/ DiagUpload \/ DiagEnd
    /\ UNCHANGED <<envVars, date, tm_datetime, tx>>

\* Nothing asked for, not yet the time, or more codes to come.
DiagStays ==
    /\ pc = "diag" /\ pc' = "clean"
    /\ \/ st.diagrespSt = "IDLE" /\ ~st.diagReq
       \/ st.diagrespSt = "QUERYWAIT" /\ ~st.faultquerySt
       \/ DiagUploadMore
    /\ UNCHANGED <<PP_odc_lockflag, mailbox, lastDone, st, envVars,
                   date, tm_datetime, tx>>

PP_rmtDiag_do_checkrmtDiag == DiagProgress \/ DiagStays

-----------------------------------------------------------------------------
(* PP_rmtDiag_do_FaultCodeClean                                            *)

CleanIdle ==
    /\ st.cleanfaultSt = "IDLE" /\ st.cleanfaultReq
    /\ setPP_lock_odcmtxlock("CLEAN")
    /\ st' = [st EXCEPT !.cleanfaultReq = FALSE,
                        !.cleanfaultSt =
                            IF Granted("CLEAN", PP_odc_lockflag) THEN "REQ"
                            ELSE "END"]
    /\ AsksNothing

\* Mutated form: the completion flag is not reset before the job is posted.
MutCleanReq ==
    /\ st.cleanfaultSt = "REQ"
    /\ \E j \in {"CLEAN", BadJob} : Ask(j)
    /\ st' = [st EXCEPT !.cleanfaultSt = "WAIT"]
    /\ UNCHANGED PP_odc_lockflag

CleanReq ==
    /\ st.cleanfaultSt = "REQ"
    /\ \E j \in {"CLEAN", BadJob} : Ask(j)
    /\ st' = [st EXCEPT !.faultCleanFinish = FALSE, !.cleanfaultSt = "WAIT"]
    /\ UNCHANGED PP_odc_lockflag

CleanWait ==
    /\ st.cleanfaultSt = "WAIT"
    /\ st.faultCleanFinish \/ WaitIsOver
    /\ st' = [st EXCEPT !.cleanfaultSt = "END"]
    /\ UNCHANGED PP_odc_lockflag /\ AsksNothing

\* Mutated form: the bit is given back only after a clearing that was done.
MutCleanEnd ==
    /\ st.cleanfaultSt = "END"
    /\ IF st.faultCleanFinish THEN clearPP_lock_odcmtxlock("CLEAN")
       ELSE UNCHANGED PP_odc_lockflag
    /\ st' = [st EXCEPT !.cleanfaultSt = "IDLE"]
    /\ AsksNothing

\* PP_rmtDiag_FaultCodeCleanResp, then the lock is given back.
CleanEnd ==
    /\ st.cleanfaultSt = "END"
    /\ clearPP_lock_odcmtxlock("CLEAN")
    /\ st' = [st EXCEPT !.cleanfaultSt = "IDLE"]
    /\ AsksNothing

CleanProgress ==
    /\ pc = "clean" /\ pc' = "active"
    /\ CleanIdle \/ CleanReq \/ CleanWait \/ CleanEnd
    /\ UNCHANGED <<envVars, date, tm_datetime, tx>>

CleanStays ==
    /\ pc = "clean" /\ pc' = "active"
    /\ \/ st.cleanfaultSt = "IDLE" /\ ~st.cleanfaultReq
       \/ st.cleanfaultSt = "WAIT" /\ ~st.faultCleanFinish
    /\ UNCHANGED <<PP_odc_lockflag, mailbox, lastDone, st, envVars,
                   date, tm_datetime, tx>>

PP_rmtDiag_do_FaultCodeClean == CleanProgress \/ CleanStays

-----------------------------------------------------------------------------
(* PP_rmtDiag_do_DiagActiveReport                                          *)

ActiveIdle ==
    /\ st.activeDiagSt = "IDLE" /\ st.activeDiagFlag
    /\ st' = [st EXCEPT !.activeDiagSt = "CHECKREPORTST",
                        !.activeDiagFlag = FALSE]
    /\ UNCHANGED <<PP_odc_lockflag, mailbox, lastDone, date,
                   tm_datetime, tx>>

\* PP_ACTIVEDIAG_CHECKREPORTST: was a report of today recorded?
ActiveCheckReportSt ==
    /\ st.activeDiagSt = "CHECKREPORTST"
    /\ tm_datetime' = "today"
    /\ st' = [st EXCEPT !.activeDiagSt =
                  IF date = "today" THEN "END" ELSE "CHECKOTACOND"]
    /\ UNCHANGED <<PP_odc_lockflag, mailbox, lastDone, date, tx>>

ActiveCheckOtaCond ==
    /\ st.activeDiagSt = "CHECKOTACOND"
    /\ setPP_lock_odcmtxlock("ACTIVE")
    /\ st' = IF Granted("ACTIVE", PP_odc_lockflag)
             THEN [st EXCEPT !.activeDiagSt = "CHECKVEHICOND"]
             ELSE [Fails(st) EXCEPT !.activeDiagSt = "QUERYUPLOAD"]
    /\ UNCHANGED <<mailbox, lastDone, date, tm_datetime, tx>>

\* PP_ACTIVEDIAG_CHECKVEHICOND, five seconds later.
ActiveCheckVehiCond ==
    /\ st.activeDiagSt = "CHECKVEHICOND"
    /\ \/ /\ Ask("ACTIVE")
          /\ st' = [st EXCEPT !.faultquerySt = FALSE,
                              !.activeDiagSt = "QUREYWAIT"]
       \/ /\ st' = [Fails(st) EXCEPT !.activeDiagSt = "QUERYUPLOAD"]
          /\ AsksNothing
    /\ UNCHANGED <<PP_odc_lockflag, date, tm_datetime, tx>>

ActiveQueryWait ==
    /\ st.activeDiagSt = "QUREYWAIT"
    /\ \/ /\ st.faultquerySt
          /\ st' = [st EXCEPT !.result = 1,
                              !.activeDiagSt = "QUERYUPLOAD"]
       \/ /\ WaitIsOver
          /\ st' = [Fails(st) EXCEPT !.activeDiagSt = "QUERYUPLOAD"]
    /\ UNCHANGED <<PP_odc_lockflag, mailbox, lastDone, date, tm_datetime, tx>>

\* SP_data_write of a status message.  With no free node nothing is queued
\* and no callback will come; the return value is not looked at.
Queued(n) == IF n < MaxTx THEN n + 1 ELSE n

\* PP_ACTIVEDIAG_QUERYUPLOAD: the last message of the report.  The report is
\* recorded if result, which the TSP's query also writes, is 1.
ActiveUploadLast ==
    /\ st.activeDiagSt = "QUERYUPLOAD"
    /\ st' = [st EXCEPT !.activeDiagSt = "END"]
    /\ tx' = Queued(tx)
    /\ date' = IF st.result = 1 THEN tm_datetime ELSE date
    /\ UNCHANGED <<PP_odc_lockflag, mailbox, lastDone, tm_datetime>>

\* PP_remotDiagnosticStatus cannot encode the message.
ActiveUploadFails ==
    /\ st.activeDiagSt = "QUERYUPLOAD"
    /\ st' = [st EXCEPT !.activeDiagSt = "END"]
    /\ UNCHANGED <<PP_odc_lockflag, mailbox, lastDone, date,
                   tm_datetime, tx>>

ActiveEnd ==
    /\ st.activeDiagSt = "END"
    /\ clearPP_lock_odcmtxlock("ACTIVE")
    /\ st' = [st EXCEPT !.activeDiagSt = "IDLE"]
    /\ UNCHANGED <<mailbox, lastDone, date, tm_datetime, tx>>

ActiveProgress ==
    /\ pc = "active" /\ pc' = "main"
    /\ \/ ActiveIdle \/ ActiveCheckReportSt \/ ActiveCheckOtaCond
       \/ ActiveCheckVehiCond \/ ActiveQueryWait
       \/ ActiveUploadLast \/ ActiveUploadFails \/ ActiveEnd
    /\ UNCHANGED envVars

\* The socket is closed, nothing is to be done, or it is not yet the time; a
\* message that is not the last of its report may be sent.
ActiveStays ==
    /\ pc = "active" /\ pc' = "main"
    /\ \/ UNCHANGED tx
       \/ st.activeDiagSt = "QUERYUPLOAD" /\ st.result = 1 /\ tx' = Queued(tx)
    /\ UNCHANGED <<PP_odc_lockflag, mailbox, lastDone, st, envVars,
                   date, tm_datetime>>

PP_rmtDiag_do_DiagActiveReport == ActiveProgress \/ ActiveStays

-----------------------------------------------------------------------------
(* The other threads.                                                      *)

ppVars == <<pc, IGNoldSt, tm_datetime>>

\* PP_rmtDiag_send_cb, called by the sending thread.  A message that could not
\* be sent erases the date and is put back, to be sent again.
PP_rmtDiag_send_cb ==
    /\ tx > 0
    /\ \/ tx' = tx - 1 /\ UNCHANGED date
       \/ date' = "other" /\ UNCHANGED tx
    /\ UNCHANGED <<ppVars, PP_odc_lockflag, mailbox, job, ign, st, reading,
                   lastDone>>

\* The diagnosis thread reads its mailbox.
EngineTakes ==
    /\ Take
    /\ UNCHANGED <<ppVars, PP_odc_lockflag, ign, st, date, tx, reading, lastDone>>

\* It ends a job: PP_rmtDiag_queryInform_cb and PP_rmtDiag_CleanFaultInform_cb.
PP_rmtDiag_queryInform_cb ==
    /\ Announce
    /\ st' = [st EXCEPT !.faultquerySt = TRUE, !.faultCleanFinish = TRUE]
    /\ lastDone' = job
    /\ UNCHANGED <<ppVars, PP_odc_lockflag, mailbox, ign, date, tx, reading>>

\* The OTA server: a version is read between the set and the clear of one
\* request, and the same thread starts and ends upgrades.
OtaServer ==
    /\ \/ /\ ~reading
          /\ setPP_lock_odcmtxlock("READECUVER")
          /\ reading' = Granted("READECUVER", PP_odc_lockflag)
       \/ reading /\ clearPP_lock_odcmtxlock("READECUVER") /\ reading' = FALSE
       \/ ~reading /\ setPP_lock_odcmtxlock("FOTAUPDATE") /\ UNCHANGED reading
       \/ ~reading /\ clearPP_lock_odcmtxlock("FOTAUPDATE") /\ UNCHANGED reading
    /\ UNCHANGED <<ppVars, mailbox, job, ign, st, date, tx, lastDone>>

SwitchIgnition ==
    /\ IgnSwitches /\ ign' = ~ign
    /\ UNCHANGED <<ppVars, PP_odc_lockflag, mailbox, job, st, date, tx,
                   reading, lastDone>>

Midnight ==
    /\ tm_datetime' = "other"
    /\ date' = "other"
    /\ UNCHANGED <<pc, IGNoldSt, PP_odc_lockflag, mailbox, job, ign, st,
                   tx, reading, lastDone>>

-----------------------------------------------------------------------------

ProtocolThread ==
    \/ PP_rmtDiag_mainfunction
    \/ PP_rmtDiag_do_checkrmtDiag
    \/ PP_rmtDiag_do_FaultCodeClean
    \/ PP_rmtDiag_do_DiagActiveReport

RmtDiagNext ==
    \/ ProtocolThread
    \/ PP_rmtDiag_send_cb
    \/ EngineTakes
    \/ PP_rmtDiag_queryInform_cb
    \/ OtaServer
    \/ SwitchIgnition
    \/ Midnight

\* The protocol thread and the diagnosis thread run.  Strong fairness of the
\* handlers: while the ignition is on the socket is found open again and again,
\* every wait is bounded by the clock, and every list of codes is finite.
RmtDiagFairness ==
    /\ WF_diagVars(ProtocolThread)
    /\ WF_diagVars(EngineTakes)
    /\ SF_diagVars(TurnSocketOpen)
    /\ SF_diagVars(DiagProgress)
    /\ SF_diagVars(CleanProgress)
    /\ SF_diagVars(ActiveProgress)

RmtDiagSpec == RmtDiagInit /\ [][RmtDiagNext]_diagVars /\ RmtDiagFairness

-----------------------------------------------------------------------------

DiagStates == {"IDLE", "QUERYFAILREQ", "QUERYWAIT", "QUERYUPLOAD", "END"}

CleanStates == {"IDLE", "REQ", "WAIT", "END"}

ActiveStates == {"IDLE", "CHECKREPORTST", "CHECKOTACOND", "CHECKVEHICOND",
                 "QUREYWAIT", "QUERYUPLOAD", "END"}

StateRecord ==
    [diagReq : BOOLEAN, diagrespSt : DiagStates, faultquerySt : BOOLEAN,
     result : {0, 1}, cleanfaultReq : BOOLEAN, cleanfaultSt : CleanStates,
     faultCleanFinish : BOOLEAN, activeDiagFlag : BOOLEAN,
     activeDiagSt : ActiveStates]

\* Every field of PP_rmtDiag.state keeps to its enumeration, and no more status
\* messages await their callback than the send pool has nodes.
RmtDiagTypeOK ==
    /\ LockTypeOK /\ ServiceTypeOK
    /\ pc \in {"main", "diag", "clean", "active"}
    /\ ign \in BOOLEAN /\ IGNoldSt \in BOOLEAN
    /\ st \in StateRecord
    /\ date \in {"today", "other"} /\ tm_datetime \in {"today", "other"}
    /\ tx \in 0 .. MaxTx /\ reading \in BOOLEAN
    /\ lastDone \in Job \cup {NoJob}

\* The handler is between being granted the lock and having its result.
AtWork ==
    {o \in DiagAll :
        \/ o = "TSPDIAG" /\ st.diagrespSt \in {"QUERYFAILREQ", "QUERYWAIT"}
        \/ o = "CLEAN" /\ st.cleanfaultSt \in {"REQ", "WAIT"}
        \/ o = "ACTIVE" /\ st.activeDiagSt \in {"CHECKVEHICOND", "QUREYWAIT"}}

\* Whatever the ignition, the socket, the diagnosis thread and the OTA server
\* do, at most one of the three handlers is asking the ECUs at a time, and
\* none while an upgrade is under way or ECU versions are read.
OneDiagnosisAtATime ==
    /\ \A a, b \in AtWork : a = b
    /\ AtWork # {} => PP_odc_lockflag \cap OtaAll = {} /\ ~reading

\* A diagnosis bit is set only while its handler is busy: an upgrade is never
\* refused on account of a diagnosis that nobody carries out.
LockFreedWithItsUser ==
    /\ "TSPDIAG" \in PP_odc_lockflag => st.diagrespSt # "IDLE"
    /\ "CLEAN" \in PP_odc_lockflag => st.cleanfaultSt # "IDLE"
    /\ "ACTIVE" \in PP_odc_lockflag => st.activeDiagSt # "IDLE"

\* The lock keeps diagnosis and OTA apart on the bus too: while an OTA bit is
\* set the diagnosis thread has no job, neither executed nor waiting.
NoJobDuringOta ==
    PP_odc_lockflag \cap OtaAll # {} => job = NoJob /\ mailbox = <<>>

\* A handler that waits for its job and sees the completion flag sees the
\* completion of that job, not of an earlier one.
CompletionIsOwn ==
    /\ st.diagrespSt = "QUERYWAIT" /\ st.faultquerySt => lastDone = "TSP"
    /\ st.activeDiagSt = "QUREYWAIT" /\ st.faultquerySt => lastDone = "ACTIVE"
    /\ st.cleanfaultSt = "WAIT" /\ st.faultCleanFinish => lastDone = "CLEAN"

\* Every diagnosis comes to its end: a request of the TSP is answered or
\* dropped with the ignition, a clearing is answered, an active report is made
\* or given up, although the diagnosis thread may never say that it is done.
DiagnosesEnd ==
    /\ (st.diagReq \/ st.diagrespSt # "IDLE")
          ~> (~st.diagReq /\ st.diagrespSt = "IDLE")
    /\ (st.cleanfaultSt # "IDLE") ~> (st.cleanfaultSt = "IDLE")
    /\ (st.activeDiagSt # "IDLE") ~> (st.activeDiagSt = "IDLE")
=============================================================================
