------------------------------- MODULE GbData -------------------------------
(***************************************************************************)
(* The report store of the GB/T 32960 client (gb32960_data.c): a fixed     *)
(* pool of packs that two threads move between lists.                      *)
(*   - The CAN thread saves a report every interval (every second after a  *)
(*     level 3 alarm), saves one for each event, and keeps the last half   *)
(*     minute in a ring of its own, which an alarm copies to the delayed   *)
(*     reports.                                                            *)
(*   - The protocol thread takes a pack, sends it, and puts it back or on  *)
(*     the list of packs in flight (gb32960_prot.c).                       *)
(* Packs are interchangeable here, so a list is the number of its packs;   *)
(* of a pack out of its list, its home is kept.  DAT_LOCK is held for one  *)
(* step; ERR_LOCK is held while the ring is copied, pack by pack.          *)
(***************************************************************************)
EXTENDS Integers

CONSTANTS
    Pool,           \* GB_MAX_REPORT: 2000
    ErrSlots,       \* slots of the ring: 30
    AlarmTicks,     \* seconds reported one by one after an alarm: 30
    Interval,       \* gb_datintv
    Word,           \* number of unsigned values: 2^32
    BufferNeed      \* sizeof(buf) + GB_SOCKET_RSVD: 2304

ASSUME GbDataAssumption ==
    /\ ErrSlots \in Nat \ {0} /\ AlarmTicks \in Nat \ {0} /\ Interval \in Nat \ {0}
    /\ Pool \in Nat /\ Pool > ErrSlots + 2
    /\ BufferNeed \in Nat /\ Word \in Nat /\ Word > BufferNeed

Homes == {"realtm", "delay"}

VARIABLES
    free, realtm, delay,    \* packs on gb_free_lst, gb_realtm_lst, gb_delay_lst
    trans,          \* packs on gb_trans_lst, by home
    hand,           \* home of the pack the protocol thread holds, or "none"
    tmp,            \* packs on flush_error's own list
    err,            \* slots of the ring that are filled
    errmtx,         \* ERR_LOCK: held by the CAN thread's copy
    can_pc, ret,    \* the CAN thread, and where its copy of the ring returns
    canact, warntrig, pendflag,
    ticks, times, triger,   \* the static variables of gb_data_periodic
    reload,         \* a new DBC file is in use, its ring is not set up yet
    gb_pc           \* the protocol thread

packLists == <<free, realtm, delay, trans, hand, tmp>>
periodic == <<ticks, times, triger>>
gbvars == <<packLists, err, errmtx, can_pc, ret, canact, warntrig, pendflag, periodic,
          reload, gb_pc>>

\* gb_data_clear_report and a first DBC file.
GbDataInit ==
    /\ free = Pool /\ realtm = 0 /\ delay = 0 /\ tmp = 0 /\ err = 0
    /\ trans = [h \in Homes |-> 0] /\ hand = "none"
    /\ errmtx = FALSE /\ can_pc = "idle" /\ ret = "idle"
    /\ canact = FALSE /\ warntrig = FALSE /\ pendflag = FALSE
    /\ ticks = 0 /\ times = 0 /\ triger = FALSE
    /\ reload = FALSE /\ gb_pc = "idle"

\* The pack a report is written to: a free one, else the oldest delayed one,
\* else the oldest real-time one.
Source == IF free > 0 THEN "free" ELSE IF delay > 0 THEN "delay" ELSE "realtm"

\* With none of them, "BIG ERROR: no buffer to use" and while (1), DAT_LOCK held.
NoBuffer == free = 0 /\ delay = 0 /\ realtm = 0

\* The pack leaves its list, and ends on the real-time list (saved = 1) or on
\* the caller's own (saved = 0).
Take(saved) ==
    /\ free' = IF Source = "free" THEN free - 1 ELSE free
    /\ delay' = IF Source = "delay" THEN delay - 1 ELSE delay
    /\ realtm' = (IF Source = "realtm" THEN realtm - 1 ELSE realtm) + saved

-----------------------------------------------------------------------------
(* The CAN thread.                                                         *)

\* What an alarm sets times to.
AlarmSeconds == AlarmTicks + 1

\* gb_data_periodic, first part: an alarm is taken.
gb_data_periodic ==
    /\ can_pc = "idle" /\ canact
    /\ warntrig' = FALSE
    /\ IF ~warntrig
       THEN can_pc' = "count" /\ UNCHANGED <<times, triger>>
       ELSE /\ times' = AlarmSeconds
            /\ IF pendflag
               THEN can_pc' = "flush_realtm" /\ UNCHANGED triger
               ELSE can_pc' = "count" /\ triger' = TRUE
    /\ UNCHANGED <<packLists, err, errmtx, ret, canact, pendflag, ticks, reload, gb_pc>>

\* gb_data_flush_realtm, from either thread.
FlushRealtm ==
    /\ delay' = delay + realtm /\ realtm' = 0
    /\ UNCHANGED <<free, trans, hand, tmp>>

PeriodicFlushRealtm ==
    /\ can_pc = "flush_realtm" /\ FlushRealtm
    /\ can_pc' = "flush_error" /\ ret' = "count"
    /\ UNCHANGED <<err, errmtx, canact, warntrig, pendflag, periodic, reload, gb_pc>>

\* ticks++, and the second is kept in the ring (gb_data_save_error) unless the
\* seconds after an alarm are being reported.
Period == IF times > 1 THEN 1 ELSE Interval
PeriodicCount ==
    /\ can_pc = "count"
    /\ times = 0 => ~errmtx
    /\ ticks' = ticks + 1
    /\ times' = IF times = 0 THEN 0 ELSE times - 1
    /\ err' = IF times = 0 /\ err < ErrSlots THEN err + 1 ELSE err
    /\ can_pc' = IF ticks + 1 >= Period THEN "save" ELSE "idle"
    /\ UNCHANGED <<packLists, errmtx, ret, canact, warntrig, pendflag, triger, reload, gb_pc>>

\* gb_data_save_realtm, and the ring after it when an alarm asked for it.
PeriodicSave ==
    /\ can_pc = "save" /\ ticks' = 0
    /\ IF NoBuffer
       THEN can_pc' = "stuck" /\ UNCHANGED <<free, delay, realtm, triger, ret>>
       ELSE /\ Take(1) /\ triger' = FALSE /\ ret' = "idle"
            /\ can_pc' = IF triger THEN "flush_error" ELSE "idle"
    /\ UNCHANGED <<trans, hand, tmp, err, errmtx, canact, warntrig, pendflag, times, reload, gb_pc>>

\* gb_data_flush_error takes ERR_LOCK ...
FlushErrorLock ==
    /\ can_pc = "flush_error" /\ ~errmtx
    /\ errmtx' = TRUE /\ can_pc' = "copy"
    /\ UNCHANGED <<packLists, err, ret, canact, warntrig, pendflag, periodic, reload, gb_pc>>

\* ... copies the filled slots, newest first, each into a pack of its own ...
FlushErrorCopy ==
    /\ can_pc = "copy" /\ err > 0
    /\ IF NoBuffer
       THEN can_pc' = "stuck" /\ UNCHANGED <<free, delay, realtm, tmp, err>>
       ELSE Take(0) /\ tmp' = tmp + 1 /\ err' = err - 1 /\ UNCHANGED can_pc
    /\ UNCHANGED <<trans, hand, errmtx, ret, canact, warntrig, pendflag, periodic, reload, gb_pc>>

FlushErrorUnlock ==
    /\ can_pc = "copy" /\ err = 0
    /\ errmtx' = FALSE
    /\ can_pc' = IF tmp = 0 THEN ret ELSE "append"
    /\ UNCHANGED <<packLists, err, ret, canact, warntrig, pendflag, periodic, reload, gb_pc>>

\* ... and appends its list to the delayed reports.
FlushErrorAppend ==
    /\ can_pc = "append" /\ can_pc' = ret
    /\ delay' = delay + tmp /\ tmp' = 0
    /\ UNCHANGED <<free, realtm, trans, hand, err, errmtx, ret, canact, warntrig, pendflag,
                   periodic, reload, gb_pc>>

\* gb_data_eventReport: an event of the vehicle, whether or not the bus is active.
gb_data_eventReport ==
    /\ can_pc = "idle"
    /\ IF NoBuffer
       THEN can_pc' = "stuck" /\ UNCHANGED <<free, delay, realtm>>
       ELSE Take(1) /\ UNCHANGED can_pc
    /\ UNCHANGED <<trans, hand, tmp, err, errmtx, ret, canact, warntrig, pendflag, periodic, reload, gb_pc>>

\* CAN_EVENT_ACTIVE, and CAN_EVENT_SLEEP or CAN_EVENT_TIMEOUT, which empties the ring.
CanActive ==
    /\ can_pc = "idle" /\ canact' = TRUE
    /\ UNCHANGED <<packLists, err, errmtx, can_pc, ret, warntrig, pendflag, periodic, reload, gb_pc>>
CanSilent ==
    /\ can_pc = "idle" /\ ~errmtx
    /\ canact' = FALSE /\ err' = 0
    /\ UNCHANGED <<packLists, errmtx, can_pc, ret, warntrig, pendflag, periodic, reload, gb_pc>>

-----------------------------------------------------------------------------
(* Other threads.                                                          *)

\* A warning signal rises, or the shell asks for a test alarm.
Alarm ==
    /\ warntrig' = TRUE
    /\ UNCHANGED <<packLists, err, errmtx, can_pc, ret, canact, pendflag, periodic, reload, gb_pc>>

\* gb_data_dbc_cb, DBC_EVENT_FINISHED: the new signals first, the ring under
\* ERR_LOCK after them.
ReloadInfo ==
    /\ ~reload /\ reload' = TRUE /\ warntrig' = FALSE
    /\ UNCHANGED <<packLists, err, errmtx, can_pc, ret, canact, pendflag, periodic, gb_pc>>
ReloadRing ==
    /\ reload /\ ~errmtx /\ reload' = FALSE /\ err' = 0
    /\ UNCHANGED <<packLists, errmtx, can_pc, ret, canact, warntrig, pendflag, periodic, gb_pc>>

-----------------------------------------------------------------------------
(* The protocol thread.                                                    *)

can == <<err, errmtx, can_pc, ret, canact, warntrig, pendflag, periodic, reload>>

\* The socket asked for its buffer is never opened when the link is the proxy's:
\* sock_bufsz answers -1, and the comparison is unsigned.
sock_bufsz == -1
FitsSigned == BufferNeed <= sock_bufsz
Fits == BufferNeed <= sock_bufsz % Word

\* gb_data_ack_pack: one pack in flight is free again.
NoAck == UNCHANGED <<free, trans>>
gb_data_ack_pack ==
    \/ \E h \in Homes :
          /\ trans[h] > 0
          /\ trans' = [trans EXCEPT ![h] = trans[h] - 1] /\ free' = free + 1
    \/ (\A h \in Homes : trans[h] = 0) /\ UNCHANGED <<free, trans>>

\* gb_do_report: a pack is taken, a real-time one first.
gb_data_get_pack ==
    /\ gb_pc = "idle"
    /\ \/ /\ realtm > 0 /\ realtm' = realtm - 1 /\ UNCHANGED delay
          /\ hand' = IF Fits THEN "realtm" ELSE "none"
       \/ /\ realtm = 0 /\ delay > 0 /\ delay' = delay - 1 /\ UNCHANGED realtm
          /\ hand' = IF Fits THEN "delay" ELSE "none"
    /\ gb_pc' = IF Fits THEN "report" ELSE "idle"
    /\ UNCHANGED <<free, trans, tmp, can>>

\* gb32960_MsgSend acknowledges the pack in flight before it sends the next ...
ReportAck ==
    /\ gb_pc = "report" /\ gb_data_ack_pack /\ gb_pc' = "sent"
    /\ UNCHANGED <<realtm, delay, hand, tmp, can>>

\* ... which is in flight when the send succeeds, and back at the head of its
\* list when it fails or is not tried.
gb_data_put_send ==
    /\ gb_pc = "sent" /\ gb_pc' = "idle"
    /\ trans' = [trans EXCEPT ![hand] = trans[hand] + 1] /\ hand' = "none"
    /\ UNCHANGED <<free, realtm, delay, tmp, can>>
gb_data_put_back ==
    /\ gb_pc = "sent" /\ gb_pc' = "idle" /\ hand' = "none"
    /\ \/ hand = "realtm" /\ realtm' = realtm + 1 /\ UNCHANGED delay
       \/ hand = "delay" /\ delay' = delay + 1 /\ UNCHANGED realtm
    /\ UNCHANGED <<free, trans, tmp, can>>

\* A logout or a time request, and a login, after which only its answer is awaited.
SendOther ==
    /\ gb_pc = "idle" /\ gb_data_ack_pack /\ gb_pc' \in {"idle", "login"}
    /\ UNCHANGED <<realtm, delay, hand, tmp, can>>

LoginFails ==
    /\ gb_pc = "login" /\ gb_pc' = "idle" /\ UNCHANGED <<packLists, can>>

\* The answer to a login while logged in: gb_data_flush_sending, then
\* gb_data_flush_realtm.
gb_data_flush_sending ==
    /\ gb_pc = "login" /\ gb_pc' = "flush_realtm"
    /\ realtm' = realtm + trans["realtm"] /\ delay' = delay + trans["delay"]
    /\ trans' = [h \in Homes |-> 0]
    /\ UNCHANGED <<free, hand, tmp, can>>
gb_data_flush_realtm ==
    /\ gb_pc = "flush_realtm" /\ gb_pc' = "idle" /\ FlushRealtm
    /\ UNCHANGED can

\* The answer to a first login: gb_data_clear_error.
gb_data_clear_error ==
    /\ gb_pc = "login" /\ ~errmtx /\ gb_pc' = "idle" /\ err' = 0
    /\ UNCHANGED <<packLists, errmtx, can_pc, ret, canact, warntrig, pendflag, periodic, reload>>

\* GB_MSG_SUSPEND and GB_MSG_RESUME.
gb_data_set_pendflag ==
    /\ gb_pc = "idle" /\ pendflag' \in BOOLEAN
    /\ UNCHANGED <<packLists, err, errmtx, can_pc, ret, canact, warntrig, periodic, reload, gb_pc>>

-----------------------------------------------------------------------------
FlushError == FlushErrorLock \/ FlushErrorCopy \/ FlushErrorUnlock \/ FlushErrorAppend
Periodic == PeriodicFlushRealtm \/ PeriodicCount \/ PeriodicSave \/ FlushError
Environment == CanActive \/ CanSilent \/ Alarm \/ ReloadInfo \/ ReloadRing
Client == gb_data_get_pack \/ ReportAck \/ gb_data_put_send \/ gb_data_put_back \/ SendOther
          \/ LoginFails \/ gb_data_flush_sending \/ gb_data_flush_realtm
          \/ gb_data_clear_error \/ gb_data_set_pendflag

GbDataNext == gb_data_periodic \/ Periodic \/ gb_data_eventReport \/ Environment \/ Client
GbDataSpec == GbDataInit /\ [][GbDataNext]_gbvars

-----------------------------------------------------------------------------
\* The values of the variables.
GbDataTypeOK ==
    /\ free \in 0..Pool /\ realtm \in 0..Pool /\ delay \in 0..Pool
    /\ trans \in [Homes -> 0..Pool] /\ hand \in Homes \cup {"none"}
    /\ tmp \in 0..ErrSlots /\ err \in 0..ErrSlots
    /\ errmtx \in BOOLEAN /\ ret \in {"idle", "count"}
    /\ can_pc \in {"idle", "flush_realtm", "flush_error", "copy", "append", "count", "save", "stuck"}
    /\ canact \in BOOLEAN /\ warntrig \in BOOLEAN /\ pendflag \in BOOLEAN
    /\ ticks \in 0..Interval /\ times \in 0..AlarmTicks + 1 /\ triger \in BOOLEAN
    /\ reload \in BOOLEAN
    /\ gb_pc \in {"idle", "report", "sent", "login", "flush_realtm"}

HeldPack == IF hand = "none" THEN 0 ELSE 1
InFlight == trans["realtm"] + trans["delay"]

\* No pack is ever lost: every one is on a list, in the hands of the protocol
\* thread or on the copy's own list.  A report that is not sent, because the
\* buffer check of gb_do_report fails, would drop its pack for good.
PacksConserved == free + realtm + delay + InFlight + HeldPack + tmp = Pool

\* A report always finds a pack to be written to: the endless loop entered with
\* DAT_LOCK held ("it should not be happened") is out of reach, because the
\* copy of the ring and the packs being sent never hold the whole pool.
BufferFound == can_pc # "stuck"

\* The callback that takes a level 3 alarm also moves the seconds before it to
\* the delayed reports (no request for it is left when it ends), and nothing is
\* added to the ring while the seconds after it are reported, whether the alarm
\* came before, during or after a suspension.
HistoryMovedAtOnce == can_pc = "idle" => ~triger /\ (times > 0 => err = 0)

=============================================================================
