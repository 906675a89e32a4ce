---------------------------- MODULE GbProtProofs ----------------------------
(***************************************************************************)
(* Theorems about the GB/T 32960 protocol thread of GbProt, for every      *)
(* range of sequence numbers and every number of retries and failures.     *)
(***************************************************************************)
EXTENDS GbProt, TLAPS

\* The type invariant in two parts: flags, and everything else.
BoolType ==
    /\ online \in BOOLEAN /\ login \in BOOLEAN /\ suspend \in BOOLEAN
    /\ can \in BOOLEAN /\ calflag \in BOOLEAN /\ gb_allow_sleep \in BOOLEAN
    /\ newday \in BOOLEAN /\ reports \in BOOLEAN /\ trans \in BOOLEAN
    /\ overtaken \in BOOLEAN /\ link \in BOOLEAN
DataType ==
    /\ pc \in Steps /\ wait \in Requests \cup {"none"} /\ retry \in 0..MaxRetry
    /\ waittime \in {"zero", "run", "out"}
    /\ gb_regseq \in 0..MaxSeq /\ loginSeq \in 0..MaxSeq
    /\ queue \in Seq(Messages) /\ Len(queue) <= MaxQueue
    /\ owed \subseteq Requests
    /\ faults \in 0..MaxFaults

\* What a step of the chain may rely on: it sends only with no answer awaited,
\* and while the answer to a login is awaited its number is the next one's.
SessionInv ==
    /\ pc \in {"login", "report", "caltime", "logout"} => wait = "none"
    /\ wait = "LOGIN" => ~online /\ gb_regseq = loginSeq /\ gb_regseq # 0
    /\ gb_regseq = 0 => newday
    /\ LogoutMatchesLogin
    /\ NothingInFlightAtLogin

\* A bus that wakes while the answer to a logout is awaited is noted.
AwakeInv ==
    /\ wait = "LOGOUT" /\ can => overtaken
    /\ BusKeepsAwake

-----------------------------------------------------------------------------
\* Every step keeps the flags Boolean.
LEMMA BoolStep == BoolType /\ [GbProtNext]_vars => BoolType'
<1> SUFFICES ASSUME BoolType, [GbProtNext]_vars PROVE BoolType'
    OBVIOUS
<1> USE Zenon DEF BoolType, session, flags, seqs, store, net
<1>1. CASE gb_main_msg
    BY <1>1 DEF gb_main_msg, CanOn, CanOff, gb_reset
<1>2. CASE gb_do_checksock
    BY <1>2 DEF gb_do_checksock, gb_reset
<1>3. CASE ReceiveNothing
    BY <1>3 DEF ReceiveNothing
<1>4. CASE \E r \in Requests, accepted \in BOOLEAN : Receive(r, accepted)
  <2>1. PICK r \in Requests, accepted \in BOOLEAN : Receive(r, accepted)
    BY <1>4
  <2>2. UNCHANGED <<suspend, can, calflag, newday, overtaken, link>>
    BY <2>1 DEF Receive
  <2>3. CASE LoginAnswered(accepted)
    BY <2>2, <2>3 DEF LoginAnswered
  <2>4. CASE LogoutAnswered(accepted)
    BY <2>2, <2>4 DEF LogoutAnswered
  <2>5. CASE UNCHANGED <<online, login, gb_allow_sleep, store>>
    BY <2>2, <2>5
  <2> QED
    BY <2>1, <2>3, <2>4, <2>5 DEF Receive
<1>5. CASE gb_do_wait
  <2>1. UNCHANGED <<suspend, can, calflag, newday, reports, overtaken, link>>
    BY <1>5 DEF gb_do_wait
  <2>2. CASE UNCHANGED <<session, login, gb_allow_sleep, trans>>
    BY <2>1, <2>2
  <2>3. CASE \E res \in {"none", "ok", "zero", "error"} : WaitOver(res)
    <3>1. /\ online' = FALSE \/ UNCHANGED online
          /\ login' = FALSE \/ UNCHANGED login
          /\ gb_allow_sleep' = TRUE \/ UNCHANGED gb_allow_sleep
          /\ trans' = FALSE \/ UNCHANGED trans
      BY <2>3 DEF WaitOver, gb_reset, gb32960_MsgSend
    <3> QED
      BY <2>1, <3>1
  <2> QED
    BY <1>5, <2>2, <2>3 DEF gb_do_wait
<1>6. CASE gb_do_login
    BY <1>6 DEF gb_do_login, LoginSent, gb_reset, gb32960_MsgSend, sockproxy_MsgSend
<1>7. CASE gb_do_report
    BY <1>7 DEF gb_do_report, gb_reset, sockproxy_MsgSend
<1>8. CASE gb_do_caltime
    BY <1>8 DEF gb_do_caltime, gb_reset, gb32960_MsgSend, sockproxy_MsgSend
<1>9. CASE gb_do_logout
    BY <1>9 DEF gb_do_logout, gb_reset, gb32960_MsgSend, sockproxy_MsgSend
<1>10. CASE \E m \in Messages : Post(m)
    BY <1>10 DEF Post
<1>11. CASE Expire
    BY <1>11 DEF Expire
<1>12. CASE Link
    BY <1>12 DEF Link
<1>13. CASE SaveReport
    BY <1>13 DEF SaveReport
<1>14. CASE Midnight
    BY <1>14 DEF Midnight
<1>15. CASE gb_shell_setcaltime
    BY <1>15 DEF gb_shell_setcaltime
<1>16. CASE UNCHANGED vars
    BY <1>16 DEF vars
<1> QED
    BY <1>1, <1>2, <1>3, <1>4, <1>5, <1>6, <1>7, <1>8, <1>9,
       <1>10, <1>11, <1>12, <1>13, <1>14, <1>15, <1>16
       DEF GbProtNext, gb_main, gb_do_receive

\* Every step keeps the types of the others.
LEMMA DataStep == DataType /\ [GbProtNext]_vars => DataType'
<1> SUFFICES ASSUME DataType, [GbProtNext]_vars PROVE DataType'
    OBVIOUS
<1> USE GbProtAssumption DEF DataType, Steps, Requests, session, flags, seqs, store, net
<1>1. CASE gb_main_msg
    BY <1>1 DEF gb_main_msg, CanOn, CanOff, gb_reset
<1>2. CASE gb_do_checksock
    BY <1>2 DEF gb_do_checksock, gb_reset
<1>3. CASE ReceiveNothing
    BY <1>3 DEF ReceiveNothing
<1>4. CASE \E r \in Requests, accepted \in BOOLEAN : Receive(r, accepted)
    BY <1>4 DEF Receive, LoginAnswered, LogoutAnswered, NextSeq
<1>5. CASE gb_do_wait
  <2>1. UNCHANGED faults \/ (faults < MaxFaults /\ faults' = faults + 1)
    BY <1>5, Zenon DEF gb_do_wait, WaitOver, gb32960_MsgSend, sockproxy_MsgSend
  <2>2. /\ pc' = "login" \/ pc' = "msg"
        /\ UNCHANGED <<seqs, queue>>
        /\ UNCHANGED owed \/ owed' = owed \cup {"LOGOUT"}
    BY <1>5, Zenon DEF gb_do_wait, WaitOver
  <2>3. \/ gb_reset \/ UNCHANGED session
        \/ /\ retry < MaxRetry /\ retry' = retry + 1 /\ UNCHANGED wait
           /\ UNCHANGED waittime \/ waittime' = "run"
    BY <1>5, Zenon DEF gb_do_wait, WaitOver
  <2>4. owed' \subseteq Requests
    BY <2>2, Zenon
  <2> QED
    BY <2>1, <2>2, <2>3, <2>4 DEF gb_reset
<1>6. CASE gb_do_login
  <2>1. UNCHANGED faults \/ (faults < MaxFaults /\ faults' = faults + 1)
    BY <1>6, Zenon DEF gb_do_login, LoginSent, gb32960_MsgSend, sockproxy_MsgSend
  <2>2. /\ pc' = "msg" \/ pc' = "report"
        /\ UNCHANGED queue
        /\ UNCHANGED owed \/ owed' = owed \cup {"LOGIN"}
        /\ UNCHANGED gb_regseq \/ gb_regseq' = 1
        /\ UNCHANGED loginSeq \/ loginSeq' = gb_regseq'
    BY <1>6, Zenon DEF gb_do_login, LoginSent
  <2>3. \/ gb_reset \/ UNCHANGED session
        \/ wait' = "LOGIN" /\ waittime' = "run" /\ UNCHANGED retry
    BY <1>6, Zenon DEF gb_do_login, LoginSent
  <2>4. owed' \subseteq Requests
    BY <2>2, Zenon
  <2> QED
    BY <2>1, <2>2, <2>3, <2>4 DEF gb_reset
<1>7. CASE gb_do_report
  <2>1. UNCHANGED faults \/ (faults < MaxFaults /\ faults' = faults + 1)
    BY <1>7, Zenon DEF gb_do_report, sockproxy_MsgSend
  <2>2. /\ pc' = "msg" \/ pc' = "caltime"
        /\ UNCHANGED <<seqs, queue, net>>
        /\ gb_reset \/ UNCHANGED session
    BY <1>7, Zenon DEF gb_do_report
  <2> QED
    BY <2>1, <2>2 DEF gb_reset
<1>8. CASE gb_do_caltime
    BY <1>8 DEF gb_do_caltime, gb_reset, gb32960_MsgSend, sockproxy_MsgSend
<1>9. CASE gb_do_logout
  <2>1. UNCHANGED faults \/ (faults < MaxFaults /\ faults' = faults + 1)
    BY <1>9, Zenon DEF gb_do_logout, gb32960_MsgSend, sockproxy_MsgSend
  <2>2. /\ pc' = "msg" /\ UNCHANGED <<seqs, queue>>
        /\ UNCHANGED owed \/ owed' = owed \cup {"LOGOUT"}
        /\ \/ gb_reset \/ UNCHANGED session
           \/ wait' = "LOGOUT" /\ waittime' = "run" /\ UNCHANGED retry
    BY <1>9, Zenon DEF gb_do_logout
  <2>3. owed' \subseteq Requests
    BY <2>2, Zenon
  <2> QED
    BY <2>1, <2>2, <2>3 DEF gb_reset
<1>10. CASE \E m \in Messages : Post(m)
    BY <1>10 DEF Post
<1>11. CASE Expire
    BY <1>11 DEF Expire
<1>12. CASE Link
    BY <1>12 DEF Link
<1>13. CASE SaveReport
    BY <1>13 DEF SaveReport
<1>14. CASE Midnight
    BY <1>14 DEF Midnight
<1>15. CASE gb_shell_setcaltime
    BY <1>15 DEF gb_shell_setcaltime
<1>16. CASE UNCHANGED vars
    BY <1>16 DEF vars
<1> QED
    BY <1>1, <1>2, <1>3, <1>4, <1>5, <1>6, <1>7, <1>8, <1>9,
       <1>10, <1>11, <1>12, <1>13, <1>14, <1>15, <1>16
       DEF GbProtNext, gb_main, gb_do_receive

\* Every step keeps the session's numbers in order.
LEMMA SessionStep == DataType /\ SessionInv /\ [GbProtNext]_vars => SessionInv'
<1> SUFFICES ASSUME DataType, SessionInv, [GbProtNext]_vars PROVE SessionInv'
    OBVIOUS
<1> USE GbProtAssumption
    DEF DataType, SessionInv, LogoutMatchesLogin, NothingInFlightAtLogin, LogoutSeq, Steps,
        Requests, session, flags, seqs, store, net
<1>1. CASE gb_main_msg
    BY <1>1 DEF gb_main_msg, CanOn, CanOff, gb_reset
<1>2. CASE gb_do_checksock
    BY <1>2 DEF gb_do_checksock, gb_reset
<1>3. CASE ReceiveNothing
    BY <1>3 DEF ReceiveNothing
<1>4. CASE \E r \in Requests, accepted \in BOOLEAN : Receive(r, accepted)
    BY <1>4 DEF Receive, LoginAnswered, LogoutAnswered, NextSeq
<1>5. CASE gb_do_wait
    BY <1>5 DEF gb_do_wait, WaitOver, gb_reset, gb32960_MsgSend, sockproxy_MsgSend
<1>6. CASE gb_do_login
    BY <1>6 DEF gb_do_login, LoginSent, gb_reset, gb32960_MsgSend, sockproxy_MsgSend
<1>7. CASE gb_do_report
    BY <1>7 DEF gb_do_report, gb_reset, sockproxy_MsgSend
<1>8. CASE gb_do_caltime
    BY <1>8 DEF gb_do_caltime, gb_reset, gb32960_MsgSend, sockproxy_MsgSend
<1>9. CASE gb_do_logout
    BY <1>9 DEF gb_do_logout, gb_reset, gb32960_MsgSend, sockproxy_MsgSend
<1>10. CASE \E m \in Messages : Post(m)
    BY <1>10 DEF Post
<1>11. CASE Expire
    BY <1>11 DEF Expire
<1>12. CASE Link
    BY <1>12 DEF Link
<1>13. CASE SaveReport
    BY <1>13 DEF SaveReport
<1>14. CASE Midnight
    BY <1>14 DEF Midnight
<1>15. CASE gb_shell_setcaltime
    BY <1>15 DEF gb_shell_setcaltime
<1>16. CASE UNCHANGED vars
    BY <1>16 DEF vars
<1> QED
    BY <1>1, <1>2, <1>3, <1>4, <1>5, <1>6, <1>7, <1>8, <1>9,
       <1>10, <1>11, <1>12, <1>13, <1>14, <1>15, <1>16
       DEF GbProtNext, gb_main, gb_do_receive

\* Every step keeps an awake bus from being slept through.
LEMMA AwakeStep == SessionInv /\ AwakeInv /\ [GbProtNext]_vars => AwakeInv'
<1> SUFFICES ASSUME SessionInv, AwakeInv, [GbProtNext]_vars PROVE AwakeInv'
    OBVIOUS
<1> USE DEF SessionInv, AwakeInv, BusKeepsAwake, session, flags, seqs, store, net
<1>1. CASE gb_main_msg
  <2>1. CASE CanOn
    <3>1. gb_allow_sleep' = FALSE /\ wait' = wait /\ overtaken' = (wait = "LOGOUT")
      BY <2>1 DEF CanOn
    <3> QED
      BY <3>1, Zenon
  <2>2. CASE CanOff
    BY <2>2 DEF CanOff
  <2>3. CASE UNCHANGED <<can, gb_allow_sleep, overtaken>> /\ (gb_reset \/ UNCHANGED session)
    BY <2>3 DEF gb_reset
  <2> QED
    BY <1>1, <2>1, <2>2, <2>3, Zenon DEF gb_main_msg
<1>2. CASE gb_do_checksock
    BY <1>2 DEF gb_do_checksock, gb_reset
<1>3. CASE ReceiveNothing
    BY <1>3 DEF ReceiveNothing
<1>4. CASE \E r \in Requests, accepted \in BOOLEAN : Receive(r, accepted)
    BY <1>4 DEF Receive, LoginAnswered, LogoutAnswered, NextSeq
<1>5. CASE gb_do_wait
    BY <1>5 DEF gb_do_wait, WaitOver, gb_reset, gb32960_MsgSend, sockproxy_MsgSend
<1>6. CASE gb_do_login
    BY <1>6 DEF gb_do_login, LoginSent, gb_reset, gb32960_MsgSend, sockproxy_MsgSend
<1>7. CASE gb_do_report
    BY <1>7 DEF gb_do_report, gb_reset, sockproxy_MsgSend
<1>8. CASE gb_do_caltime
    BY <1>8 DEF gb_do_caltime, gb_reset, gb32960_MsgSend, sockproxy_MsgSend
<1>9. CASE gb_do_logout
    BY <1>9 DEF gb_do_logout, gb_reset, gb32960_MsgSend, sockproxy_MsgSend
<1>10. CASE \E m \in Messages : Post(m)
    BY <1>10 DEF Post
<1>11. CASE Expire
    BY <1>11 DEF Expire
<1>12. CASE Link
    BY <1>12 DEF Link
<1>13. CASE SaveReport
    BY <1>13 DEF SaveReport
<1>14. CASE Midnight
    BY <1>14 DEF Midnight
<1>15. CASE gb_shell_setcaltime
    BY <1>15 DEF gb_shell_setcaltime
<1>16. CASE UNCHANGED vars
    BY <1>16 DEF vars
<1> QED
    BY <1>1, <1>2, <1>3, <1>4, <1>5, <1>6, <1>7, <1>8, <1>9,
       <1>10, <1>11, <1>12, <1>13, <1>14, <1>15, <1>16
       DEF GbProtNext, gb_main, gb_do_receive

-----------------------------------------------------------------------------
\* Everything that is kept, together.
GbProtInv == BoolType /\ DataType /\ SessionInv /\ AwakeInv

\* The invariant holds in every reachable state.
THEOREM GbProtInvariant == GbProtSpec => []GbProtInv
<1>1. GbProtInit => BoolType
    BY Zenon DEF GbProtInit, BoolType
<1>2. GbProtInit => DataType /\ SessionInv /\ AwakeInv
    BY GbProtAssumption DEF GbProtInit, DataType, SessionInv, AwakeInv, LogoutMatchesLogin,
       NothingInFlightAtLogin, BusKeepsAwake, Steps, Requests
<1>3. GbProtInv /\ [GbProtNext]_vars => GbProtInv'
    BY BoolStep, DataStep, SessionStep, AwakeStep, Zenon DEF GbProtInv
<1>4. GbProtInit => GbProtInv
    BY <1>1, <1>2, Zenon DEF GbProtInv
<1> QED
    BY <1>3, <1>4, PTL DEF GbProtSpec

\* The state of the protocol thread stays in its type: the numbers of the logins
\* wrap inside 0..MaxSeq and the logout is sent again at most MaxRetry times.
THEOREM GbProtTypeCorrect == GbProtSpec => []GbProtTypeOK
<1>1. GbProtInv => GbProtTypeOK
    BY Zenon DEF GbProtInv, BoolType, DataType, GbProtTypeOK
<1> QED
    BY GbProtInvariant, <1>1, PTL

\* A logout always has the number of the login it ends (gb_pack_logout), for every
\* range of numbers, however answers and midnights fall.
THEOREM LogoutAlwaysMatchesLogin == GbProtSpec => []LogoutMatchesLogin
<1>1. GbProtInv => LogoutMatchesLogin
    BY Zenon DEF GbProtInv, SessionInv
<1> QED
    BY GbProtInvariant, <1>1, PTL

\* When the answer to a login comes, gb_data_flush_sending has nothing to put back.
THEOREM NothingEverInFlightAtLogin == GbProtSpec => []NothingInFlightAtLogin
<1>1. GbProtInv => NothingInFlightAtLogin
    BY Zenon DEF GbProtInv, SessionInv
<1> QED
    BY GbProtInvariant, <1>1, PTL

\* gb_allow_sleep is clear while the bus is awake, but for a bus that woke during a
\* logout.
THEOREM BusAlwaysKeepsAwake == GbProtSpec => []BusKeepsAwake
<1>1. GbProtInv => BusKeepsAwake
    BY Zenon DEF GbProtInv, AwakeInv
<1> QED
    BY GbProtInvariant, <1>1, PTL
=============================================================================
