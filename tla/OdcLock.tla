------------------------------ MODULE OdcLock ------------------------------
(***************************************************************************)
(* The OTA / diagnosis / remote-control lock of PrvtProt_lock.c.           *)
(*                                                                         *)
(* PP_odc_lockflag is one 64-bit word with a bit per activity.  A caller   *)
(* asks for its bit with setPP_lock_odcmtxlock and gives it back with      *)
(* clearPP_lock_odcmtxlock; both run under odc_mtx, so each is one step.   *)
(* The word is modelled as the set of objects whose bit is 1.  There is no *)
(* owner and no count: anyone may clear any bit at any time, which is      *)
(* exactly what Next allows.                                               *)
(***************************************************************************)
EXTENDS Integers

CONSTANT
    Ctrl        \* the vehicle-control objects of this instance

\* PP_LOCK_MASK_DIAG_ALL, PP_LOCK_MASK_OTA_ALL and PP_LOCK_MASK_CTRL_ALL.
DiagAll == {"TSPDIAG", "ACTIVE", "CLEAN"}

OtaAll == {"READECUVER", "FOTAUPDATE"}

CtrlAll == {"AC", "AUTODOOR", "BLEKEYSTART", "CAMERA", "CHRG", "DOORLOCK",
            "SEARCHVEHI", "ENGINE", "FORBIDSTART", "SUNROOF", "RMTSTART",
            "SEAT"}

ASSUME CtrlAssumption == Ctrl \subseteq CtrlAll

Obj == DiagAll \cup OtaAll \cup Ctrl

VARIABLE PP_odc_lockflag

lockVars == <<PP_odc_lockflag>>

-----------------------------------------------------------------------------

\* PP_lock_mask[obj].mask.  The table has PP_LOCK_OBJ_MAX entries but no
\* initialiser for the last one, PP_LOCK_VEHICTRL_SEAT, whose mask is 0.
PP_lock_mask(obj) == IF obj = "SEAT" THEN {} ELSE {obj}

\* The object may take the lock while some bit of flag is set.
Compatible(obj, flag) ==
    \/ obj \in DiagAll /\ flag \cap (OtaAll \cup (DiagAll \ {obj})) = {}
    \/ obj = "READECUVER" /\ flag \cap DiagAll = {}
    \/ obj = "FOTAUPDATE" /\ flag \cap (DiagAll \cup CtrlAll) = {}
    \/ obj \in CtrlAll \ {"RMTSTART"} /\ "FOTAUPDATE" \notin flag
    \/ obj = "RMTSTART"

Granted(obj, flag) == flag = {} \/ Compatible(obj, flag)

PP_LOCK_OK == 0
PP_LOCK_ERR_FOTAREADVER == -1
PP_LOCK_ERR_FOTAUPDATE == -2
PP_LOCK_ERR_VEHICTRLING == -3
PP_LOCK_ERR_DIAGING == -4

\* The bits the CLEAN case tests for "reading ECU versions": it masks with the
\* enumerator PP_LOCK_OTA_READECUVER (3) where the other two cases mask with
\* PP_LOCK_MASK_READECUVER (8), that is with the bits of TSPDIAG and ACTIVE.
ReadVerBits(obj) ==
    IF obj = "CLEAN" THEN {"TSPDIAG", "ACTIVE"} ELSE {"READECUVER"}

\* The code assigned to the local variable ret when obj is refused.
Refusal(obj, flag) ==
    CASE obj \in DiagAll ->
           IF flag \cap ReadVerBits(obj) # {} THEN PP_LOCK_ERR_FOTAREADVER
           ELSE IF "FOTAUPDATE" \in flag THEN PP_LOCK_ERR_FOTAUPDATE
           ELSE PP_LOCK_ERR_DIAGING
      [] obj = "READECUVER" -> PP_LOCK_ERR_DIAGING
      [] obj = "FOTAUPDATE" ->
           IF flag \cap DiagAll # {} THEN PP_LOCK_ERR_DIAGING
           ELSE PP_LOCK_ERR_VEHICTRLING
      [] OTHER -> PP_LOCK_ERR_FOTAUPDATE

\* ret is an unsigned char, and the int the function returns is its value.
AsUnsignedChar(n) == n % 256

SetReturns(obj, flag) ==
    AsUnsignedChar(IF Granted(obj, flag) THEN PP_LOCK_OK
                   ELSE Refusal(obj, flag))

-----------------------------------------------------------------------------

\* InitPP_lock_parameter
LockInit == PP_odc_lockflag = {}

SetFlag(obj, flag) ==
    IF Granted(obj, flag) THEN flag \cup PP_lock_mask(obj) ELSE flag

setPP_lock_odcmtxlock(obj) ==
    PP_odc_lockflag' = SetFlag(obj, PP_odc_lockflag)

clearPP_lock_odcmtxlock(obj) ==
    PP_odc_lockflag' = PP_odc_lockflag \ PP_lock_mask(obj)

LockNext ==
    \E obj \in Obj : setPP_lock_odcmtxlock(obj) \/ clearPP_lock_odcmtxlock(obj)

LockSpec == LockInit /\ [][LockNext]_lockVars

-----------------------------------------------------------------------------

\* The word holds no bit but those of the table; the bit of the seat heating,
\* which has no entry in PP_lock_mask, is never set.
LockTypeOK == PP_odc_lockflag \subseteq Obj \ {"SEAT"}

\* Whatever the callers do, in whatever order: no diagnosis bit is ever set
\* together with an OTA bit, and at most one diagnosis bit is set.
DiagExcludesOta ==
    /\ PP_odc_lockflag \cap DiagAll # {} => PP_odc_lockflag \cap OtaAll = {}
    /\ \A a, b \in DiagAll \cap PP_odc_lockflag : a = b

\* While the FOTA upgrade bit is set the only vehicle-control bit that can be
\* set as well is the one of the remote start, which the code always grants.
FotaExcludesControl ==
    "FOTAUPDATE" \in PP_odc_lockflag =>
        PP_odc_lockflag \cap CtrlAll \subseteq {"RMTSTART"}
=============================================================================
