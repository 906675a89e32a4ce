--------------------------- MODULE OdcLockProofs ---------------------------
(***************************************************************************)
(* What setPP_lock_odcmtxlock and clearPP_lock_odcmtxlock guarantee for    *)
(* every set of vehicle-control objects and every sequence of calls.       *)
(***************************************************************************)
EXTENDS OdcLock, TLAPS

\* Setting or clearing a bit keeps the word inside the set of known bits.
LEMMA SetFlagType ==
    ASSUME NEW obj \in Obj, NEW flag \in SUBSET (Obj \ {"SEAT"})
    PROVE  /\ SetFlag(obj, flag) \subseteq Obj \ {"SEAT"}
           /\ flag \ PP_lock_mask(obj) \subseteq Obj \ {"SEAT"}
  BY DEF SetFlag, PP_lock_mask

\* The lock word only ever holds bits of the mask table.
THEOREM LockTypeCorrect == LockSpec => []LockTypeOK
<1>1. LockInit => LockTypeOK
  BY DEF LockInit, LockTypeOK
<1>2. LockTypeOK /\ [LockNext]_lockVars => LockTypeOK'
  <2> SUFFICES ASSUME LockTypeOK, [LockNext]_lockVars PROVE LockTypeOK'
    OBVIOUS
  <2>1. ASSUME NEW obj \in Obj, setPP_lock_odcmtxlock(obj) PROVE LockTypeOK'
    BY <2>1, SetFlagType DEF LockTypeOK, setPP_lock_odcmtxlock
  <2>2. ASSUME NEW obj \in Obj, clearPP_lock_odcmtxlock(obj) PROVE LockTypeOK'
    BY <2>2, SetFlagType DEF LockTypeOK, clearPP_lock_odcmtxlock
  <2>3. CASE UNCHANGED lockVars
    BY <2>3 DEF LockTypeOK, lockVars
  <2> QED
    BY <2>1, <2>2, <2>3 DEF LockNext
<1> QED
  BY <1>1, <1>2, PTL DEF LockSpec

-----------------------------------------------------------------------------

\* The exclusions, on a value of the word rather than on the variable.
DiagOtaOn(flag) ==
    /\ flag \cap DiagAll # {} => flag \cap OtaAll = {}
    /\ \A a, b \in DiagAll \cap flag : a = b

FotaCtrlOn(flag) ==
    "FOTAUPDATE" \in flag => flag \cap CtrlAll \subseteq {"RMTSTART"}

\* The classes of objects are pairwise disjoint.
LEMMA Classes ==
    /\ DiagAll \cap OtaAll = {}
    /\ DiagAll \cap CtrlAll = {}
    /\ OtaAll \cap CtrlAll = {}
    /\ \A o \in Obj : o \in DiagAll \/ o \in OtaAll \/ o \in CtrlAll
  BY CtrlAssumption DEF DiagAll, OtaAll, CtrlAll, Obj

\* A granted request of a diagnosis keeps the diagnosis / OTA exclusion.
LEMMA SetKeepsDiagOta ==
    ASSUME NEW obj \in Obj, NEW flag, DiagOtaOn(flag)
    PROVE  DiagOtaOn(SetFlag(obj, flag))
<1>1. CASE ~Granted(obj, flag)
  BY <1>1 DEF SetFlag
<1>2. CASE Granted(obj, flag)
  <2>0. SetFlag(obj, flag) \subseteq flag \cup {obj}
    BY DEF SetFlag, PP_lock_mask
  <2>1. CASE obj \in DiagAll
    <3>1. flag \cap OtaAll = {} /\ flag \cap DiagAll \subseteq {obj}
      BY <1>2, <2>1, Classes DEF Granted, Compatible, DiagAll, OtaAll, CtrlAll
    <3> QED
      BY <2>0, <2>1, <3>1, Classes DEF DiagOtaOn
  <2>2. CASE obj \in OtaAll
    <3>1. flag \cap DiagAll = {}
      BY <1>2, <2>2 DEF Granted, Compatible, DiagAll, OtaAll, CtrlAll
    <3> QED
      BY <2>0, <2>2, <3>1, Classes DEF DiagOtaOn
  <2>3. CASE obj \in CtrlAll
    <3>1. SetFlag(obj, flag) \cap (DiagAll \cup OtaAll)
              \subseteq flag \cap (DiagAll \cup OtaAll)
      BY <2>0, <2>3, Classes
    <3> QED
      BY <3>1 DEF DiagOtaOn
  <2> QED
    BY <2>1, <2>2, <2>3, Classes
<1> QED
  BY <1>1, <1>2

\* No diagnosis bit together with an OTA bit, and at most one diagnosis bit,
\* after any sequence of set and clear calls by any threads.
THEOREM DiagExcludesOtaAlways == LockSpec => []DiagExcludesOta
<1> DEFINE Inv == DiagOtaOn(PP_odc_lockflag)
<1>1. LockInit => Inv
  BY DEF LockInit, DiagOtaOn
<1>2. Inv /\ [LockNext]_lockVars => Inv'
  <2> SUFFICES ASSUME Inv, [LockNext]_lockVars PROVE Inv'
    OBVIOUS
  <2>1. ASSUME NEW obj \in Obj, setPP_lock_odcmtxlock(obj) PROVE Inv'
    BY <2>1, SetKeepsDiagOta DEF setPP_lock_odcmtxlock
  <2>2. ASSUME NEW obj \in Obj, clearPP_lock_odcmtxlock(obj) PROVE Inv'
    BY <2>2 DEF clearPP_lock_odcmtxlock, DiagOtaOn
  <2>3. CASE UNCHANGED lockVars
    BY <2>3 DEF lockVars
  <2> QED
    BY <2>1, <2>2, <2>3 DEF LockNext
<1>3. Inv => DiagExcludesOta
  BY DEF DiagOtaOn, DiagExcludesOta
<1> QED
  BY <1>1, <1>2, <1>3, PTL DEF LockSpec

-----------------------------------------------------------------------------

\* A granted request keeps the FOTA / vehicle-control exclusion.
LEMMA SetKeepsFotaCtrl ==
    ASSUME NEW obj \in Obj, NEW flag, FotaCtrlOn(flag)
    PROVE  FotaCtrlOn(SetFlag(obj, flag))
<1>1. CASE ~Granted(obj, flag)
  BY <1>1 DEF SetFlag
<1>2. CASE Granted(obj, flag)
  <2>0. SetFlag(obj, flag) \subseteq flag \cup {obj}
    BY DEF SetFlag, PP_lock_mask
  <2>1. CASE obj = "FOTAUPDATE"
    <3>1. flag \cap CtrlAll = {}
      BY <1>2, <2>1 DEF Granted, Compatible, DiagAll, CtrlAll
    <3> QED
      BY <2>0, <2>1, <3>1 DEF FotaCtrlOn, CtrlAll
  <2>2. CASE obj \in CtrlAll \ {"RMTSTART"}
    <3>1. "FOTAUPDATE" \notin flag
      BY <1>2, <2>2 DEF Granted, Compatible, DiagAll, CtrlAll
    <3> QED
      BY <2>0, <2>2, <3>1 DEF FotaCtrlOn, CtrlAll
  <2>3. CASE obj # "FOTAUPDATE" /\ obj \notin CtrlAll \ {"RMTSTART"}
    BY <2>0, <2>3 DEF FotaCtrlOn
  <2> QED
    BY <2>1, <2>2, <2>3
<1> QED
  BY <1>1, <1>2

\* While a FOTA upgrade holds its bit, no vehicle control but the remote start
\* holds one.
THEOREM FotaExcludesControlAlways == LockSpec => []FotaExcludesControl
<1> DEFINE Inv == FotaCtrlOn(PP_odc_lockflag)
<1>1. LockInit => Inv
  BY DEF LockInit, FotaCtrlOn
<1>2. Inv /\ [LockNext]_lockVars => Inv'
  <2> SUFFICES ASSUME Inv, [LockNext]_lockVars PROVE Inv'
    OBVIOUS
  <2>1. ASSUME NEW obj \in Obj, setPP_lock_odcmtxlock(obj) PROVE Inv'
    BY <2>1, SetKeepsFotaCtrl DEF setPP_lock_odcmtxlock
  <2>2. ASSUME NEW obj \in Obj, clearPP_lock_odcmtxlock(obj) PROVE Inv'
    BY <2>2 DEF clearPP_lock_odcmtxlock, FotaCtrlOn
  <2>3. CASE UNCHANGED lockVars
    BY <2>3 DEF lockVars
  <2> QED
    BY <2>1, <2>2, <2>3 DEF LockNext
<1>3. Inv => FotaExcludesControl
  BY DEF FotaCtrlOn, FotaExcludesControl
<1> QED
  BY <1>1, <1>2, <1>3, PTL DEF LockSpec
=============================================================================
