------------------------------- MODULE TspLink -------------------------------
(***************************************************************************)
(* The connection to the TSP (sockproxy.c, with PKI enabled): a one-way    *)
(* TLS link while the certificate is not valid, a two-way link afterwards. *)
(*   - The socket thread opens the link, closes it when asked to, and by   *)
(*     force when the receiver does not let go of it in time: it cancels   *)
(*     the receiver, and creates it again before the next link.            *)
(*   - The receiver waits in the library's receive call; senders use the   *)
(*     link under sendmtx; any thread may ask for the link to be closed.   *)
(*   - The socket thread also decides when the link may sleep.             *)
(* conn is what the TLS library holds open, state what the proxy believes. *)
(***************************************************************************)
EXTENDS Naturals

CONSTANT SleepTries     \* sleepwaittimeoutcnt's limit: 3

ASSUME TspLinkAssumption == SleepTries \in Nat

Links == {"SG", "BDL"}  \* SOCKPROXY_SETUP_SGLINK, SOCKPROXY_SETUP_BDLLINK

VARIABLES
    sockpc,         \* the socket thread
    state,          \* sockSt.state
    asynCloseFlg, closer,   \* a close is asked for; who is in the middle of asking
    linkSt, step,   \* sockSt.linkSt; sglinkSt or BDLlinkSt
    conn,           \* the link the library has open, or "none"
    rcv, rcvflag,   \* the receiver; sockSt.rcvflag
    cancelRcvphreadFlag,
    sendmtx, sending,       \* who holds sendmtx; the link a sender uses
    closeLate,      \* the close has waited for SOCK_CHECKCLOSEDTIMEOUT
    sleepFlag, sleepLate, sleepwaittimeoutcnt,
    network, certOk, ign, ready     \* network, certificate, KL15; both protocols may sleep

closeVars == <<asynCloseFlg, closer>>
linkVars == <<state, linkSt, step, conn>>
rcvVars == <<rcv, rcvflag, cancelRcvphreadFlag>>
sendVars == <<sendmtx, sending>>
sleepVars == <<sleepFlag, sleepLate, sleepwaittimeoutcnt>>
envVars == <<network, certOk, ign, ready>>
sockVars == <<sockpc, closeVars, linkVars, rcvVars, sendVars, closeLate, sleepVars, envVars>>

TspLinkInit ==
    /\ sockpc = "check" /\ state = "CLOSED" /\ asynCloseFlg = FALSE /\ closer = "none"
    /\ linkSt = "CERT" /\ step = "INIT" /\ conn = "none"
    /\ rcv = "idle" /\ rcvflag = FALSE /\ cancelRcvphreadFlag = FALSE
    /\ sendmtx = "none" /\ sending = "none" /\ closeLate = FALSE
    /\ sleepFlag = FALSE /\ sleepLate = FALSE /\ sleepwaittimeoutcnt = 0
    /\ network = FALSE /\ certOk \in BOOLEAN /\ ign \in BOOLEAN /\ ready = FALSE

-----------------------------------------------------------------------------
(* sockproxy_do_checksock: a pass does nothing without a network.          *)

\* SOCKPROXY_CHECK_CERT: the receiver exists again before a link is set up.
CheckCertOnlyValid ==
    /\ sockpc = "check" /\ network /\ linkSt = "CERT" /\ sockpc' = "closewait"
    /\ IF sleepFlag \/ ~certOk
       THEN UNCHANGED <<linkVars, rcvVars>>
       ELSE /\ rcv' = IF cancelRcvphreadFlag THEN "idle" ELSE rcv
            /\ cancelRcvphreadFlag' = FALSE /\ linkSt' = "BDL" /\ step' = "INIT"
            /\ UNCHANGED <<state, conn, rcvflag>>
    /\ UNCHANGED <<closeVars, sendVars, closeLate, sleepVars, envVars>>
CheckCert ==
    /\ sockpc = "check" /\ network /\ linkSt = "CERT" /\ sockpc' = "closewait"
    /\ IF sleepFlag
       THEN UNCHANGED <<linkVars, rcvVars>>
       ELSE /\ rcv' = IF cancelRcvphreadFlag THEN "idle" ELSE rcv
            /\ cancelRcvphreadFlag' = FALSE
            /\ linkSt' = (IF certOk THEN "BDL" ELSE "SG") /\ step' = "INIT"
            /\ UNCHANGED <<state, conn, rcvflag>>
    /\ UNCHANGED <<closeVars, sendVars, closeLate, sleepVars, envVars>>

\* sockproxy_sgLink and sockproxy_BDLink.
LinkStarts ==
    /\ sockpc = "check" /\ network /\ linkSt \in Links /\ step = "INIT" /\ sockpc' = "closewait"
    /\ step' = "CREAT"
    /\ UNCHANGED <<state, linkSt, conn, closeVars, rcvVars, sendVars, closeLate, sleepVars, envVars>>

\* The address, the certificates and the connection: any of them may fail.
Connect(ok) ==
    /\ sockpc = "check" /\ network /\ linkSt \in Links /\ step = "CREAT" /\ state = "CLOSED"
    /\ sockpc' = "closewait"
    /\ IF ok
       THEN conn' = linkSt /\ state' = "OPENED" /\ UNCHANGED <<linkSt, step>>
       ELSE linkSt' = "CERT" /\ step' = "INIT" /\ UNCHANGED <<state, conn>>
    /\ UNCHANGED <<closeVars, rcvVars, sendVars, closeLate, sleepVars, envVars>>

\* A link that is open is left alone; one that waits is closed at the next pass.
LinkOpen ==
    /\ sockpc = "check" /\ network /\ linkSt \in Links /\ step = "CREAT" /\ state # "CLOSED"
    /\ sockpc' = "closewait"
    /\ IF state = "CLOSE_WAIT" /\ asynCloseFlg
       THEN step' = "CLOSE" /\ asynCloseFlg' = FALSE
       ELSE UNCHANGED <<step, asynCloseFlg>>
    /\ UNCHANGED <<state, linkSt, conn, closer, rcvVars, sendVars, closeLate, sleepVars, envVars>>

\* The link is closed when the receiver has let go and no sender has sendmtx.
CloseTries ==
    /\ sockpc = "check" /\ network /\ linkSt \in Links /\ step = "CLOSE"
    /\ IF ~rcvflag /\ sendmtx = "none"
       THEN sendmtx' = "socket" /\ sockpc' = "close"
       ELSE sockpc' = "closewait" /\ UNCHANGED sendmtx
    /\ UNCHANGED <<closeVars, linkVars, rcvVars, sending, closeLate, sleepVars, envVars>>

\* SgHzTboxClose or HzTboxClose closes the connection of its own library only.
Close(link) == conn' = IF conn = link THEN "none" ELSE conn
LinkCloses ==
    /\ sockpc = "close" /\ sockpc' = "closewait"
    /\ Close(linkSt) /\ state' = "CLOSED"
    /\ linkSt' = "CERT" /\ step' = "INIT" /\ sendmtx' = "none"
    /\ UNCHANGED <<closeVars, rcvVars, sending, closeLate, sleepVars, envVars>>

\* A close that waits too long is forced: sendmtx is waited for ...
ForcedCloseLock ==
    /\ sockpc = "closewait" /\ state = "CLOSE_WAIT" /\ closeLate /\ sendmtx = "none"
    /\ sendmtx' = "socket" /\ sockpc' = "join"
    /\ UNCHANGED <<closeVars, linkVars, rcvVars, sending, closeLate, sleepVars, envVars>>
NotForced ==
    /\ sockpc = "closewait" /\ ~(state = "CLOSE_WAIT" /\ closeLate)
    /\ sockpc' = "sleep" /\ closeLate' = FALSE
    /\ UNCHANGED <<closeVars, linkVars, rcvVars, sendVars, sleepVars, envVars>>

\* ... the receiver is cancelled at its next cancellation point ...
JoinReceiver ==
    /\ sockpc = "join" /\ rcv = "idle" /\ closer # "receiver"
    /\ rcv' = "gone" /\ cancelRcvphreadFlag' = TRUE
    /\ asynCloseFlg' = FALSE /\ rcvflag' = FALSE /\ sockpc' = "forced"
    /\ UNCHANGED <<closer, linkVars, sendVars, closeLate, sleepVars, envVars>>
CancelReceiver ==
    /\ sockpc = "join" /\ rcv \in {"idle", "recv"} /\ closer # "receiver"
    /\ rcv' = "gone" /\ cancelRcvphreadFlag' = TRUE
    /\ asynCloseFlg' = FALSE /\ rcvflag' = FALSE /\ sockpc' = "forced"
    /\ UNCHANGED <<closer, linkVars, sendVars, closeLate, sleepVars, envVars>>

\* ... and the link is closed and set up from the start.
ForcedCloseTwoWay ==
    /\ sockpc = "forced" /\ sockpc' = "unlock"
    /\ Close("BDL") /\ state' = "CLOSED" /\ linkSt' = "CERT" /\ step' = "INIT"
    /\ UNCHANGED <<closeVars, rcvVars, sendVars, closeLate, sleepVars, envVars>>
ForcedClose ==
    /\ sockpc = "forced" /\ sockpc' = "unlock"
    /\ Close(IF linkSt = "SG" THEN "SG" ELSE "BDL") /\ state' = "CLOSED"
    /\ linkSt' = "CERT" /\ step' = "INIT"
    /\ UNCHANGED <<closeVars, rcvVars, sendVars, closeLate, sleepVars, envVars>>
ForcedCloseUnlock ==
    /\ sockpc = "unlock" /\ sockpc' = "sleep" /\ sendmtx' = "none"
    /\ UNCHANGED <<closeVars, linkVars, rcvVars, sending, closeLate, sleepVars, envVars>>

\* The link may sleep with the ignition off once both protocols may: at once when
\* it is open, after a while when it is not.
SleepsOnlyOpen == sleepFlag' = (state = "OPENED") /\ UNCHANGED <<sleepwaittimeoutcnt, sleepLate>>
MaySleep ==
    /\ sleepFlag' = (state = "OPENED" \/ sleepwaittimeoutcnt >= SleepTries \/ sleepLate)
    /\ sleepwaittimeoutcnt' =
          IF state = "OPENED" THEN 0
          ELSE IF sleepwaittimeoutcnt < SleepTries /\ sleepLate THEN sleepwaittimeoutcnt + 1
          ELSE sleepwaittimeoutcnt
    /\ UNCHANGED sleepLate
CheckSleep ==
    /\ sockpc = "sleep" /\ sockpc' = "check"
    /\ \/ ~ign /\ ready /\ MaySleep
       \/ ~ign /\ ~ready /\ sleepLate' = FALSE /\ UNCHANGED <<sleepFlag, sleepwaittimeoutcnt>>
       \/ ign /\ sleepLate' = FALSE /\ sleepFlag' = FALSE /\ sleepwaittimeoutcnt' = 0
    /\ UNCHANGED <<closeVars, linkVars, rcvVars, sendVars, closeLate, envVars>>

SocketThread == CheckCert \/ LinkStarts \/ (\E ok \in BOOLEAN : Connect(ok)) \/ LinkOpen \/ CloseTries
                \/ LinkCloses \/ ForcedCloseLock \/ NotForced \/ CancelReceiver
                \/ ForcedClose \/ ForcedCloseUnlock \/ CheckSleep

-----------------------------------------------------------------------------
(* Closing is asked for by the receiver, a sender or another thread.       *)

\* sockproxy_socketclose: the state first, the flag after it; a caller that finds
\* closemtx taken leaves it to the one that has it.
AskClose(who) ==
    /\ closer' = IF closer = "none" /\ state = "OPENED" THEN who ELSE closer
    /\ state' = IF closer = "none" /\ state = "OPENED" THEN "CLOSE_WAIT" ELSE state
    /\ UNCHANGED <<linkSt, step, conn, asynCloseFlg>>
OtherCloses ==
    /\ closer = "none" /\ state = "OPENED" /\ AskClose("other")
    /\ UNCHANGED <<sockpc, rcvVars, sendVars, closeLate, sleepVars, envVars>>
CloseAsked ==
    /\ closer # "none" /\ closer' = "none" /\ asynCloseFlg' = TRUE
    /\ UNCHANGED <<sockpc, linkVars, rcvVars, sendVars, closeLate, sleepVars, envVars>>

\* sockproxy_do_receive: the state is read, then rcvflag set, then the library called.
ReceiverChecks ==
    /\ rcv = "idle" /\ state = "OPENED" /\ rcv' = "checked"
    /\ UNCHANGED <<sockpc, closeVars, linkVars, rcvflag, cancelRcvphreadFlag, sendVars, closeLate, sleepVars, envVars>>
ReceiverWaits ==
    /\ rcv = "checked" /\ rcv' = "recv" /\ rcvflag' = TRUE
    /\ UNCHANGED <<sockpc, closeVars, linkVars, cancelRcvphreadFlag, sendVars, closeLate, sleepVars, envVars>>
Received ==
    /\ rcv = "recv" /\ rcv' = "idle" /\ rcvflag' = FALSE
    /\ UNCHANGED <<sockpc, closeVars, linkVars, cancelRcvphreadFlag, sendVars, closeLate, sleepVars, envVars>>
ReceiveFails ==
    /\ rcv = "recv" /\ rcv' = "failed" /\ AskClose("receiver")
    /\ UNCHANGED <<sockpc, rcvflag, cancelRcvphreadFlag, sendVars, closeLate, sleepVars, envVars>>
ReceiverReturns ==
    /\ rcv = "failed" /\ closer # "receiver" /\ rcv' = "idle" /\ rcvflag' = FALSE
    /\ UNCHANGED <<sockpc, closeVars, linkVars, cancelRcvphreadFlag, sendVars, closeLate, sleepVars, envVars>>

\* sockproxy_MsgSend, called by the send thread and by the GB/T 32960 thread.
SendBegins ==
    /\ sendmtx = "none" /\ state # "CLOSED"
    /\ sendmtx' = "sender" /\ sending' = IF linkSt = "SG" THEN "SG" ELSE "BDL"
    /\ UNCHANGED <<sockpc, closeVars, linkVars, rcvVars, closeLate, sleepVars, envVars>>
\* The send returns; the caller asks for the link to be closed when it failed.
SendReturns ==
    /\ sending # "none" /\ sending' = "none" /\ sendmtx' = "none"
    /\ UNCHANGED <<sockpc, closeVars, linkVars, rcvVars, closeLate, sleepVars, envVars>>

-----------------------------------------------------------------------------
(* The surroundings.                                                       *)

CloseLate ==
    /\ state = "CLOSE_WAIT" /\ ~closeLate /\ closeLate' = TRUE
    /\ UNCHANGED <<sockpc, closeVars, linkVars, rcvVars, sendVars, sleepVars, envVars>>
SleepLate ==
    /\ ~sleepLate /\ sleepLate' = TRUE
    /\ UNCHANGED <<sockpc, closeVars, linkVars, rcvVars, sendVars, closeLate, sleepFlag, sleepwaittimeoutcnt, envVars>>
Setsocketproxy_Awaken ==
    /\ sleepFlag /\ sleepFlag' = FALSE
    /\ UNCHANGED <<sockpc, closeVars, linkVars, rcvVars, sendVars, closeLate, sleepLate, sleepwaittimeoutcnt, envVars>>
Surroundings ==
    /\ \/ network' = ~network /\ UNCHANGED <<certOk, ign, ready>>
       \/ certOk' = ~certOk /\ UNCHANGED <<network, ign, ready>>
       \/ ign' = ~ign /\ UNCHANGED <<network, certOk, ready>>
       \/ ready' = ~ready /\ UNCHANGED <<network, certOk, ign>>
    /\ UNCHANGED <<sockpc, closeVars, linkVars, rcvVars, sendVars, closeLate, sleepVars>>

ReceiverRuns == ReceiverWaits \/ ReceiverReturns
TspLinkNext == SocketThread \/ OtherCloses \/ CloseAsked \/ ReceiverChecks \/ ReceiverRuns
               \/ Received \/ ReceiveFails \/ SendBegins \/ SendReturns
               \/ CloseLate \/ SleepLate \/ Setsocketproxy_Awaken \/ Surroundings

\* The threads run and time passes; the send call returns, while the receive call
\* may wait for ever; the server can be reached now and then.
TspLinkSpec ==
    /\ TspLinkInit /\ [][TspLinkNext]_sockVars
    /\ WF_sockVars(SocketThread) /\ SF_sockVars(ForcedCloseLock) /\ SF_sockVars(Connect(TRUE))
    /\ WF_sockVars(CloseAsked) /\ WF_sockVars(ReceiverRuns) /\ WF_sockVars(SendReturns)
    /\ WF_sockVars(CloseLate) /\ WF_sockVars(SleepLate)

-----------------------------------------------------------------------------
\* The values of the variables.
TspLinkTypeOK ==
    /\ sockpc \in {"check", "close", "closewait", "join", "forced", "unlock", "sleep"}
    /\ state \in {"CLOSED", "CLOSE_WAIT", "OPENED"} /\ closer \in {"none", "receiver", "other"}
    /\ linkSt \in Links \cup {"CERT"} /\ step \in {"INIT", "CREAT", "CLOSE"}
    /\ conn \in Links \cup {"none"}
    /\ rcv \in {"idle", "checked", "recv", "failed", "gone"}
    /\ sendmtx \in {"none", "socket", "sender"} /\ sending \in Links \cup {"none"}
    /\ asynCloseFlg \in BOOLEAN /\ rcvflag \in BOOLEAN /\ cancelRcvphreadFlag \in BOOLEAN
    /\ closeLate \in BOOLEAN /\ sleepFlag \in BOOLEAN /\ sleepLate \in BOOLEAN
    /\ network \in BOOLEAN /\ certOk \in BOOLEAN /\ ign \in BOOLEAN /\ ready \in BOOLEAN
    /\ sleepwaittimeoutcnt \in 0..SleepTries

\* The proxy knows what the library has open: a link is open exactly when the
\* state says so, and it is the link that a close would close.  Otherwise a
\* connection is leaked, or the one-way link closed as a two-way one.
ClosesWhatItOpened ==
    /\ state = "CLOSED" <=> conn = "none"
    /\ conn # "none" => conn = linkSt

\* A sender never uses a link that has been closed under it, or the functions of
\* the other kind of link.
SendsOnOpenLink == sending # "none" => sending = conn

\* A link that is open has a receiver: one that was cancelled to force a close has
\* been created again.
OpenLinkHasReceiver == state = "OPENED" => rcv # "gone"

\* A link somebody asked to close is closed while there is a network, although
\* the receive call may never return.
CloseIsServed == []<>(network => state # "CLOSE_WAIT")

\* While there is a network and no reason to sleep, the link is opened again.
LinkReopens == []<>(network /\ ~sleepFlag => state = "OPENED")

\* With the ignition off and both protocols ready, the link does not keep the
\* module awake, although it cannot be opened.
LinkLetsSleep == []<>(network /\ ~ign /\ ready => sleepFlag)
=============================================================================
