------------------------------- MODULE GbProt -------------------------------
(***************************************************************************)
(* The protocol thread of the GB/T 32960 client (gb32960_prot.c): login,   *)
(* reports, time request and logout over the link of the socket proxy.     *)
(* Each pass of its loop takes one message, then runs a chain of steps     *)
(* that stops at the first one that fails.  Around it                      *)
(*   - the CAN thread tells when the bus wakes and falls silent, the shell *)
(*     suspends, resumes, reconfigures and asks for a time request;        *)
(*   - the link comes and goes between any two steps;                      *)
(*   - the server answers late, twice after a retry, or never.             *)
(* gb_allow_sleep, which the power manager reads, is the thread's result:  *)
(* the module may sleep once the session is closed.                        *)
(* The report lists are GbData's; here a list is empty or not.             *)
(***************************************************************************)
EXTENDS Naturals, Sequences

CONSTANTS
    MaxSeq,         \* last sequence number of a login: 65531
    MaxRetry,       \* logouts sent again: 3
    MaxFaults,      \* bound on the sends that fail over a link that is up, and on
                    \* the messages that reset the protocol
    MaxQueue        \* bound on the messages waiting for the thread

ASSUME GbProtAssumption ==
    /\ MaxSeq \in Nat \ {0, 1} /\ MaxRetry \in Nat
    /\ MaxFaults \in Nat /\ MaxQueue \in Nat \ {0}

Resetting == {"NETWORK", "CONFIG"}
Messages == {"CANON", "CANOFF", "SUSPEND", "RESUME"} \cup Resetting
Requests == {"LOGIN", "LOGOUT"}
Steps == {"msg", "checksock", "receive", "wait", "login", "report", "caltime", "logout"}

VARIABLES
    pc,             \* the step the thread runs next
    online, login, wait, retry, suspend, can, calflag,  \* of gb_stat_t
    waittime,       \* "zero", or "run" and then "out" once the time has passed
    gb_allow_sleep,
    gb_regseq, newday,  \* the next login's number; gb_regdate is not today
    reports, trans, \* some report waits; some pack is on gb_trans_lst
    queue,          \* messages for the thread
    link,           \* sockproxy_socketState
    owed,           \* requests the server has not answered yet
    faults,         \* sends that failed and resets that were asked for
    loginSeq,       \* the number in the last login sent
    overtaken       \* the bus woke while the answer to a logout was awaited

session == <<online, wait, retry, waittime>>
flags == <<login, suspend, can, calflag, gb_allow_sleep>>
seqs == <<gb_regseq, newday, loginSeq>>
store == <<reports, trans>>
net == <<link, owed>>
vars == <<pc, session, flags, seqs, store, queue, net, faults, overtaken>>

GbProtInit ==
    /\ pc = "msg"
    /\ online = FALSE /\ login = FALSE /\ wait = "none" /\ retry = 0 /\ waittime = "zero"
    /\ suspend = FALSE /\ can = FALSE /\ calflag = FALSE /\ gb_allow_sleep = TRUE
    /\ gb_regseq \in 0..MaxSeq /\ newday \in BOOLEAN
    /\ gb_regseq = 0 => newday      \* nothing is saved yet
    /\ reports = FALSE /\ trans = FALSE
    /\ queue = <<>> /\ link = FALSE /\ owed = {}
    /\ faults = 0 /\ loginSeq = 0 /\ overtaken = FALSE

gb_reset == online' = FALSE /\ wait' = "none" /\ retry' = 0 /\ waittime' = "zero"

-----------------------------------------------------------------------------
(* One message.  A pass with none is the wait of 200 ms.                   *)

\* GB_MSG_CANON; a logout whose answer is awaited, or has just come, goes on.
CanOnStaysAsleep ==
    /\ can' = TRUE /\ calflag' = TRUE
    /\ overtaken' = (wait = "LOGOUT") /\ UNCHANGED <<gb_allow_sleep, session, suspend>>
CanOn ==
    /\ can' = TRUE /\ gb_allow_sleep' = FALSE /\ calflag' = TRUE
    /\ overtaken' = (wait = "LOGOUT") /\ UNCHANGED <<session, suspend>>

\* GB_MSG_CANOFF: a session that is open is closed first.
CanOff ==
    /\ can' = FALSE /\ calflag' = FALSE /\ gb_allow_sleep' = ~online
    /\ overtaken' = FALSE /\ UNCHANGED <<session, suspend>>

gb_main_msg ==
    /\ pc = "msg" /\ pc' = "checksock"
    /\ \/ queue = <<>> /\ UNCHANGED <<queue, session, suspend, can, calflag, gb_allow_sleep, overtaken>>
       \/ /\ queue # <<>> /\ queue' = Tail(queue)
          /\ \/ Head(queue) = "CANON" /\ CanOn
             \/ Head(queue) = "CANOFF" /\ CanOff
             \/ /\ Head(queue) \in {"SUSPEND", "RESUME"} /\ suspend' = (Head(queue) = "SUSPEND")
                /\ UNCHANGED <<session, can, calflag, gb_allow_sleep, overtaken>>
             \/ /\ Head(queue) \in Resetting /\ gb_reset
                /\ UNCHANGED <<suspend, can, calflag, gb_allow_sleep, overtaken>>
    /\ UNCHANGED <<login, seqs, store, net, faults>>

-----------------------------------------------------------------------------
(* The chain of steps.                                                     *)

gb_do_checksock ==
    /\ pc = "checksock"
    /\ IF link /\ ~gb_allow_sleep
       THEN pc' = "receive" /\ UNCHANGED session
       ELSE pc' = "msg" /\ gb_reset
    /\ UNCHANGED <<flags, seqs, store, queue, net, faults, overtaken>>

\* ++gb_regseq, which wraps to 1.
NextSeq == IF gb_regseq + 1 > MaxSeq THEN 1 ELSE gb_regseq + 1

\* The answer to a login.  Packs still in flight return to their lists when the
\* session is not a first one.
LoginAnswered(accepted) ==
    /\ wait' = "none" /\ pc' = "wait"
    /\ IF accepted
       THEN /\ online' = TRUE /\ login' = TRUE
            /\ reports' = (reports \/ (login /\ trans)) /\ trans' = (trans /\ ~login)
            /\ gb_regseq' = NextSeq
            /\ UNCHANGED waittime
       ELSE waittime' = "run" /\ UNCHANGED <<online, login, store, gb_regseq>>
    /\ UNCHANGED gb_allow_sleep

\* The answer to a logout ends the pass; the next gb_do_checksock resets the rest.
LogoutAnswered(accepted) ==
    /\ IF accepted
       THEN login' = FALSE /\ gb_allow_sleep' = TRUE /\ pc' = "msg"
       ELSE pc' = "wait" /\ UNCHANGED <<login, gb_allow_sleep>>
    /\ UNCHANGED <<wait, online, waittime, store, gb_regseq>>

\* One answer of the server, to any request it has not answered, or none; one
\* that is not expected is dropped.
Receive(r, accepted) ==
    /\ pc = "receive" /\ r \in owed /\ owed' = owed \ {r}
    /\ \/ r = wait /\ r = "LOGIN" /\ LoginAnswered(accepted)
       \/ r = wait /\ r = "LOGOUT" /\ LogoutAnswered(accepted)
       \/ /\ r # wait /\ pc' = "wait"
          /\ UNCHANGED <<online, wait, waittime, login, gb_allow_sleep, store, gb_regseq>>
    /\ UNCHANGED <<retry, suspend, can, calflag, newday, loginSeq, queue, link, faults, overtaken>>
ReceiveNothing ==
    /\ pc = "receive" /\ pc' = "wait"
    /\ UNCHANGED <<session, flags, seqs, store, queue, net, faults, overtaken>>
gb_do_receive == ReceiveNothing \/ \E r \in Requests, accepted \in BOOLEAN : Receive(r, accepted)

\* sockproxy_MsgSend returns 0 when the link is down or its lock is taken, and -1
\* when the send fails.
sockproxy_MsgSend(res) ==
    \/ res = "ok" /\ link /\ UNCHANGED faults
    \/ res = "zero" /\ ~link /\ UNCHANGED faults
    \/ res \in {"zero", "error"} /\ link /\ faults < MaxFaults /\ faults' = faults + 1
\* gb32960_MsgSend acknowledges the pack in flight before every send.
gb32960_MsgSend(res) == sockproxy_MsgSend(res) /\ trans' = FALSE

\* gb_pack_logout: the number of the login it ends.
LogoutSeqPlain == gb_regseq - 1
LogoutSeq == IF gb_regseq = 1 THEN MaxSeq ELSE gb_regseq - 1

\* The waiting time of a request is over: a login is given up, a logout is sent
\* again MaxRetry times and then taken for done.
WaitGivesUp(res) ==
    /\ res = "none" /\ gb_reset
    /\ UNCHANGED <<login, gb_allow_sleep, trans, faults, owed>>
WaitOver(res) ==
    \/ /\ wait = "LOGIN" /\ res = "none" /\ gb_reset
       /\ UNCHANGED <<login, gb_allow_sleep, trans, faults, owed>>
    \/ /\ wait = "LOGOUT" /\ retry = MaxRetry /\ res = "none"
       /\ login' = FALSE /\ gb_allow_sleep' = TRUE /\ gb_reset
       /\ UNCHANGED <<trans, faults, owed>>
    \/ /\ wait = "LOGOUT" /\ retry < MaxRetry /\ gb32960_MsgSend(res)
       /\ \/ res = "error" /\ gb_reset /\ UNCHANGED owed
          \/ res = "zero" /\ retry' = retry + 1 /\ UNCHANGED <<online, wait, waittime, owed>>
          \/ /\ res = "ok" /\ retry' = retry + 1 /\ waittime' = "run"
             /\ owed' = owed \cup {"LOGOUT"} /\ UNCHANGED <<online, wait>>
       /\ UNCHANGED <<login, gb_allow_sleep>>

gb_do_wait ==
    /\ pc = "wait"
    /\ \/ /\ wait = "none" /\ pc' = "login"
          /\ UNCHANGED <<session, login, gb_allow_sleep, trans, faults, owed>>
       \/ /\ wait # "none" /\ waittime # "out" /\ pc' = "msg"
          /\ UNCHANGED <<session, login, gb_allow_sleep, trans, faults, owed>>
       \/ /\ wait # "none" /\ waittime = "out" /\ pc' = "msg"
          /\ \E res \in {"none", "ok", "zero", "error"} : WaitOver(res)
    /\ UNCHANGED <<suspend, can, calflag, seqs, reports, queue, link, overtaken>>

\* gb_pack_login starts the numbers of a new day at 1; the login is sent when
\* none was tried or the login interval is over.
LoginSent(res) ==
    /\ gb_regseq' = (IF newday THEN 1 ELSE gb_regseq) /\ newday' = FALSE
    /\ gb32960_MsgSend(res)
    /\ \/ res = "error" /\ gb_reset /\ UNCHANGED <<owed, loginSeq>>
       \/ res = "zero" /\ UNCHANGED <<session, owed, loginSeq>>
       \/ /\ res = "ok" /\ wait' = "LOGIN" /\ waittime' = "run"
          /\ owed' = owed \cup {"LOGIN"} /\ loginSeq' = gb_regseq'
          /\ UNCHANGED <<online, retry>>

\* gb_do_login, then gb_do_suspend.
gb_do_login ==
    /\ pc = "login"
    /\ \/ /\ ~online /\ waittime # "run" /\ pc' = "msg"
          /\ \E res \in {"ok", "zero", "error"} : LoginSent(res)
       \/ /\ ~online /\ waittime = "run" /\ pc' = "msg"
          /\ UNCHANGED <<session, seqs, trans, faults, owed>>
       \/ /\ online
          /\ pc' = IF suspend /\ ~trans THEN "msg" ELSE "report"
          /\ UNCHANGED <<session, seqs, trans, faults, owed>>
    /\ UNCHANGED <<flags, reports, queue, link, overtaken>>

gb_do_report ==
    /\ pc = "report"
    /\ \/ ~reports /\ pc' = "caltime" /\ UNCHANGED <<session, store, faults>>
       \/ /\ reports
          /\ \E res \in {"ok", "zero", "error"} :
                /\ sockproxy_MsgSend(res)
                /\ trans' = (res = "ok")
                /\ reports' \in (IF res = "ok" THEN BOOLEAN ELSE {TRUE})
                /\ IF res = "error" THEN pc' = "msg" /\ gb_reset ELSE pc' = "caltime" /\ UNCHANGED session
    /\ UNCHANGED <<flags, seqs, queue, net, overtaken>>

\* A time request; its failure resets the session and the chain goes on.
gb_do_caltime ==
    /\ pc = "caltime" /\ pc' = "logout"
    /\ calflag' = FALSE
    /\ \/ ~calflag /\ UNCHANGED <<session, trans, faults>>
       \/ /\ calflag
          /\ \E res \in {"ok", "zero", "error"} :
                /\ gb32960_MsgSend(res)
                /\ IF res = "error" THEN gb_reset ELSE UNCHANGED session
    /\ UNCHANGED <<login, suspend, can, gb_allow_sleep, seqs, reports, queue, net, overtaken>>

gb_do_logout ==
    /\ pc = "logout" /\ pc' = "msg"
    /\ \/ can /\ UNCHANGED <<session, trans, faults, owed>>
       \/ /\ ~can
          /\ \E res \in {"ok", "zero", "error"} :
                /\ gb32960_MsgSend(res)
                /\ \/ res = "error" /\ gb_reset /\ UNCHANGED owed
                   \/ res = "zero" /\ UNCHANGED <<session, owed>>
                   \/ /\ res = "ok" /\ wait' = "LOGOUT" /\ waittime' = "run"
                      /\ owed' = owed \cup {"LOGOUT"} /\ UNCHANGED <<online, retry>>
    /\ UNCHANGED <<flags, seqs, reports, queue, link, overtaken>>

-----------------------------------------------------------------------------
(* The surroundings.                                                       *)

Post(m) ==
    /\ Len(queue) < MaxQueue /\ queue' = Append(queue, m)
    /\ IF m \in Resetting THEN faults < MaxFaults /\ faults' = faults + 1 ELSE UNCHANGED faults
    /\ UNCHANGED <<pc, session, flags, seqs, store, net, overtaken>>

\* The time of waittime passes.
Expire ==
    /\ waittime = "run" /\ waittime' = "out"
    /\ UNCHANGED <<pc, online, wait, retry, flags, seqs, store, queue, net, faults, overtaken>>

\* The link of the socket proxy comes and goes.
Link ==
    /\ link' = ~link
    /\ UNCHANGED <<pc, session, flags, seqs, store, queue, owed, faults, overtaken>>

\* The CAN thread saves a report; midnight; gbcaltime of the shell.
SaveReport ==
    /\ ~reports /\ reports' = TRUE
    /\ UNCHANGED <<pc, session, flags, seqs, trans, queue, net, faults, overtaken>>
Midnight ==
    /\ ~newday /\ newday' = TRUE
    /\ UNCHANGED <<pc, session, flags, gb_regseq, loginSeq, store, queue, net, faults, overtaken>>
gb_shell_setcaltime ==
    /\ ~calflag /\ calflag' = TRUE
    /\ UNCHANGED <<pc, session, login, suspend, can, gb_allow_sleep, seqs, store, queue, net, faults, overtaken>>

gb_main == gb_main_msg \/ gb_do_checksock \/ gb_do_receive \/ gb_do_wait \/ gb_do_login
           \/ gb_do_report \/ gb_do_caltime \/ gb_do_logout
GbProtNext == gb_main \/ (\E m \in Messages : Post(m)) \/ Expire \/ Link
              \/ SaveReport \/ Midnight \/ gb_shell_setcaltime

\* The thread runs, time passes, and a server that is sent a login again and
\* again does not always answer too late.
GbProtSpec == GbProtInit /\ [][GbProtNext]_vars
              /\ WF_vars(gb_main) /\ WF_vars(Expire) /\ SF_vars(Receive("LOGIN", TRUE) /\ wait = "LOGIN")

-----------------------------------------------------------------------------
\* The values of the variables.
GbProtTypeOK ==
    /\ pc \in Steps /\ wait \in Requests \cup {"none"} /\ retry \in 0..MaxRetry
    /\ waittime \in {"zero", "run", "out"}
    /\ online \in BOOLEAN /\ login \in BOOLEAN /\ suspend \in BOOLEAN
    /\ can \in BOOLEAN /\ calflag \in BOOLEAN /\ gb_allow_sleep \in BOOLEAN
    /\ gb_regseq \in 0..MaxSeq /\ newday \in BOOLEAN /\ loginSeq \in 0..MaxSeq
    /\ reports \in BOOLEAN /\ trans \in BOOLEAN /\ overtaken \in BOOLEAN
    /\ queue \in Seq(Messages) /\ Len(queue) <= MaxQueue
    /\ link \in BOOLEAN /\ owed \subseteq Requests
    /\ faults \in 0..MaxFaults

\* A logout closes the session that was opened: while the thread is logged in,
\* the number it would put in a logout is that of the last login it sent, also
\* when the numbers wrap, when a new day restarts them and when an answer to an
\* earlier login is taken for the answer to the last one.
LogoutMatchesLogin == online => LogoutSeq = loginSeq

\* gb_data_flush_sending, called when a session is opened again, never finds a
\* pack to put back: sending the login has already acknowledged it.
NothingInFlightAtLogin == wait = "LOGIN" => ~trans

\* With the bus awake the module is kept awake, except when the bus woke while
\* a logout was under way, whose end then lets it sleep.
BusKeepsAwake == can /\ gb_allow_sleep => overtaken

\* A silent bus lets the module sleep: as long as the link is up and reporting
\* is not suspended, the session is closed, however often sends fail or the
\* server ignores the logout.
SilentBusSleeps == []<>(~can /\ link /\ ~suspend => gb_allow_sleep)

\* A waking bus opens a session: as long as the link is up, the thread logs in,
\* unless a logout under way was overtaken.
AwakeBusReports == []<>(can /\ link /\ ~overtaken => online)
=============================================================================
