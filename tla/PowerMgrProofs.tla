---------------------------- MODULE PowerMgrProofs ----------------------------
(***************************************************************************)
(* Theorems about the power management of PowerMgr, for every set of       *)
(* modules, every length of the waits and every set of requests.           *)
(***************************************************************************)
EXTENDS PowerMgr, TLAPS

\* What the thread itself keeps, apart from its surroundings.
ThreadType ==
    /\ pm_state \in States /\ pm_check_cnt \in 0..SleepTicks
    /\ pm_ring_status \in BOOLEAN /\ vote \in {"oppose", "agree"}
    /\ app_sleep \in BOOLEAN /\ told \in Notices \cup {"partly"}
    /\ faults \in 0..MaxReadErrors
WaitType ==
    /\ wait \in [app : 0..RestartTicks + 1, g4 : 0..RestartTicks + 1,
                 fota : 0..FotaTicks + 1, err : 0..FotaErrors]
    /\ updates \in 0..MaxUpdates
OtherType ==
    /\ st_mode \in AllModes \cup {"unknown"} /\ pm_mode \in AllModes
    /\ report \in AllModes \cup {"none"}
    /\ mcu \in BOOLEAN /\ usb \in BOOLEAN /\ ready \subseteq Modules
    /\ fota \in {"none", "ing", "ok", "error"}
QueueType == queue \in Seq(Messages) /\ Len(queue) <= MaxQueue

ThreadInv == ThreadType /\ WakeLockFollowsState /\ ModulesKnowState

\* A new process satisfies everything.
LEMMA RebornThread == Reborn /\ faults' \in 0..MaxReadErrors => ThreadInv'
<1> SUFFICES ASSUME Reborn, faults' \in 0..MaxReadErrors PROVE ThreadInv'
    OBVIOUS
<1>1. pm_ring_status' \in BOOLEAN /\ app_sleep' \in BOOLEAN
    BY Zenon DEF Reborn
<1>2. 0 \in 0..SleepTicks
    BY PowerMgrAssumption
<1> QED
    BY <1>1, <1>2 DEF Reborn, ThreadInv, ThreadType, WakeLockFollowsState,
       ModulesKnowState, NoticesOf, States, Notices

\* A change of state with its notice.
LEMMA NoticeKnown ==
    ASSUME NEW s \in States, NEW n \in NoticesOf[s], Goto(s, n)
    PROVE  pm_state' \in States /\ told' \in Notices \cup {"partly"} /\ ModulesKnowState'
<1>1. n \in Notices
    BY DEF NoticesOf, Notices, States
<1> QED
    BY <1>1 DEF Goto, Notify, ModulesKnowState

\* The period timer in NORMAL.
LEMMA NormalTick ==
    ThreadInv /\ pm_state = "NORMAL" /\ pm_st_s0e3 => ThreadInv'
<1> SUFFICES ASSUME ThreadInv, pm_state = "NORMAL", pm_st_s0e3 PROVE ThreadInv'
    OBVIOUS
<1>1. pm_ring_status' \in BOOLEAN
    BY Zenon DEF ThreadInv, ThreadType, pm_st_s0e3, Check, pm_wakeup_low
<1>2. faults' \in 0..MaxReadErrors
    BY PowerMgrAssumption DEF ThreadInv, ThreadType, pm_st_s0e3, Check
<1> QED
    BY <1>1, <1>2, PowerMgrAssumption DEF ThreadInv, ThreadType, pm_st_s0e3, Check, pm_wakeup_low,
       WakeLockFollowsState, ModulesKnowState, Goto, Notify, NoticesOf, States, Notices

\* The checks of MCK_SLEEP, MCK_POWER_OFF and SLEEP, and the wait of an
\* emergency.
LEMMA CheckTick ==
    ASSUME ThreadInv, NEW data \in BOOLEAN,
           \/ pm_state = "MCK_SLEEP" /\ pm_st_s1e3
           \/ pm_state = "MCK_POWER_OFF" /\ pm_st_s2e3
           \/ pm_state = "MCK_EMERGENCY" /\ pm_st_s3e3
           \/ pm_state = "SLEEP" /\ pm_st_s4e3(data)
    PROVE  ThreadInv'
<1> USE PowerMgrAssumption DEF WakeUp, pm_mcu_wakeup, pm_wakeup_low, pm_wakeup_high
<1>1. CASE pm_state = "MCK_SLEEP" /\ pm_st_s1e3
  <2>1. pm_ring_status' \in BOOLEAN /\ app_sleep' \in BOOLEAN
    BY <1>1, Zenon DEF ThreadInv, ThreadType, pm_st_s1e3, Check
  <2>2. faults' \in 0..MaxReadErrors
    BY <1>1 DEF ThreadInv, ThreadType, pm_st_s1e3, Check
  <2> QED
    BY <2>1, <2>2, <1>1 DEF pm_st_s1e3, Check, ThreadInv, ThreadType, WakeLockFollowsState, ModulesKnowState,
       NoticesOf, States, Notices, Goto, Notify
<1>2. CASE pm_state = "MCK_POWER_OFF" /\ pm_st_s2e3
  <2>1. faults' \in 0..MaxReadErrors
    BY <1>2 DEF ThreadInv, ThreadType, pm_st_s2e3, Check
  <2>2. CASE Reborn
    BY <2>1, <2>2, RebornThread
  <2>3. CASE ~Reborn
    <3>1. pm_ring_status' \in BOOLEAN /\ app_sleep' \in BOOLEAN
      BY <1>2, <2>3, Zenon DEF ThreadInv, ThreadType, pm_st_s2e3, Check, pmVars
    <3>2. \/ UNCHANGED pmVars
          \/ WakeUp /\ UNCHANGED pm_check_cnt
      BY <1>2, <2>3, Zenon DEF pm_st_s2e3, Check
    <3> QED
      BY <2>1, <3>1, <3>2, <1>2 DEF pmVars, ThreadInv, ThreadType, WakeLockFollowsState, ModulesKnowState,
       NoticesOf, States, Notices, Goto, Notify
  <2> QED
    BY <2>2, <2>3
<1>3. CASE pm_state = "MCK_EMERGENCY" /\ pm_st_s3e3
  <2>1. pm_ring_status' \in BOOLEAN /\ app_sleep' \in BOOLEAN
    BY <1>3, Zenon DEF ThreadInv, ThreadType, pm_st_s3e3
  <2> QED
    BY <2>1, <1>3 DEF pm_st_s3e3, ThreadInv, ThreadType, WakeLockFollowsState, ModulesKnowState,
       NoticesOf, States, Notices, Goto, Notify
<1>4. CASE pm_state = "SLEEP" /\ pm_st_s4e3(data)
  <2>1. pm_ring_status' \in BOOLEAN /\ app_sleep' \in BOOLEAN
    BY <1>4, Zenon DEF ThreadInv, ThreadType, pm_st_s4e3, Check, Goto
  <2>2. faults' \in 0..MaxReadErrors
    BY <1>4 DEF ThreadInv, ThreadType, pm_st_s4e3, Check
  <2> QED
    BY <2>1, <2>2, <1>4 DEF pm_st_s4e3, Check, ThreadInv, ThreadType, WakeLockFollowsState, ModulesKnowState,
       NoticesOf, States, Notices, Goto, Notify
<1> QED
  BY <1>1, <1>2, <1>3, <1>4

\* The waits of a restart and of an update.
LEMMA WaitTick ==
    ASSUME ThreadInv,
           \/ \E r \in DOMAIN RestartState : pm_state = RestartState[r] /\ Restart(r)
           \/ pm_state = "MCK_FOTA_UPDATE" /\ pm_st_s7e3
    PROVE  ThreadInv'
<1>1. CASE \E r \in DOMAIN RestartState : pm_state = RestartState[r] /\ Restart(r)
  <2>1. PICK r \in DOMAIN RestartState : pm_state = RestartState[r] /\ Restart(r)
    BY <1>1
  <2>2. faults' \in 0..MaxReadErrors
    BY <2>1 DEF Restart, ThreadInv, ThreadType
  <2>3. CASE Reborn
    BY <2>2, <2>3, RebornThread
  <2>4. CASE UNCHANGED <<pm_state, pm_check_cnt, pm_ring_status, vote, app_sleep, told>>
    BY <2>2, <2>4 DEF ThreadInv, ThreadType, WakeLockFollowsState, ModulesKnowState
  <2> QED
    BY <2>1, <2>3, <2>4, Zenon DEF Restart
<1>2. CASE pm_state = "MCK_FOTA_UPDATE" /\ pm_st_s7e3
  <2>1. /\ UNCHANGED <<pm_check_cnt, pm_ring_status, vote, app_sleep, faults>>
        /\ UNCHANGED <<pm_state, told>> \/ Goto("NORMAL", "RUNNING")
    BY <1>2, Zenon DEF pm_st_s7e3
  <2> QED
    BY <2>1, <1>2 DEF ThreadInv, ThreadType, WakeLockFollowsState, ModulesKnowState,
       NoticesOf, States, Notices, Goto, Notify
<1> QED
  BY <1>1, <1>2

\* The events of the queue.
LEMMA EventThread == ThreadInv /\ pm_evt_proc => ThreadInv'
<1> SUFFICES ASSUME ThreadInv, pm_evt_proc PROVE ThreadInv'
    OBVIOUS
<1>1. CASE pm_st_ignore
    BY <1>1 DEF pm_st_ignore, pmVars, ThreadInv, ThreadType, WakeLockFollowsState,
       ModulesKnowState
<1>2. CASE Ring /\ ~pm_st_ignore
  <2>1. pm_ring_status' \in BOOLEAN
    BY <1>2, Zenon DEF Ring, pm_ring_wakeup, pm_wakeup_high
  <2>2. app_sleep' \in BOOLEAN
    BY <1>2, Zenon DEF Ring, ThreadInv, ThreadType
  <2> QED
    BY <2>1, <2>2, <1>2, PowerMgrAssumption DEF Ring, pm_ring_wakeup, pm_wakeup_high,
       ThreadInv, ThreadType, WakeLockFollowsState, ModulesKnowState,
       NoticesOf, States, Notices, Goto, Notify
<1>3. CASE Rtc /\ ~pm_st_ignore
    BY <1>3 DEF Rtc, ThreadInv, ThreadType, WakeLockFollowsState, ModulesKnowState,
       NoticesOf, States, Notices, Goto, Notify
<1>4. CASE Running /\ ~pm_st_ignore
  <2>1. app_sleep' \in BOOLEAN
    BY <1>4, Zenon DEF Running, pm_mcu_wakeup
  <2> QED
    BY <2>1, <1>4 DEF Running, pm_mcu_wakeup, ThreadInv, ThreadType, WakeLockFollowsState, ModulesKnowState,
       NoticesOf, States, Notices, Goto, Notify
<1>5. ASSUME NEW e \in DOMAIN Accepted, Request(e), ~pm_st_ignore
      PROVE  ThreadInv'
  <2>1. /\ Entered[e][1] \in States \ {"SLEEP"}
        /\ Entered[e][2] \in NoticesOf[Entered[e][1]]
    BY DEF Accepted, Entered, States, NoticesOf
  <2>2. /\ pm_state \in Accepted[e] /\ Goto(Entered[e][1], Entered[e][2])
        /\ UNCHANGED <<pm_check_cnt, pm_ring_status, vote, app_sleep, faults>>
    BY <1>5, Zenon DEF Request
  <2>3. pm_state # "SLEEP"
    BY <2>2 DEF Accepted
  <2>4. pm_state' \in States /\ told' \in Notices \cup {"partly"} /\ ModulesKnowState'
    BY <2>1, <2>2, NoticeKnown
  <2> QED
    BY <2>1, <2>2, <2>3, <2>4 DEF ThreadInv, ThreadType, WakeLockFollowsState, Goto
<1> QED
    BY <1>1, <1>2, <1>3, <1>4, <1>5 DEF pm_evt_proc

\* Every step of the system keeps the thread's invariant.
LEMMA ThreadStep == ThreadInv /\ [PowerNext]_vars => ThreadInv'
<1> SUFFICES ASSUME ThreadInv, [PowerNext]_vars PROVE ThreadInv'
    OBVIOUS
<1>1. CASE UNCHANGED <<pmVars, faults>>
    BY <1>1 DEF pmVars, ThreadInv, ThreadType, WakeLockFollowsState, ModulesKnowState
<1>2. CASE \E data \in BOOLEAN : Tick(data)
    BY <1>2, NormalTick, CheckTick, WaitTick, Zenon DEF Tick, pm_timeout
<1>3. CASE pm_evt_proc
    BY <1>3, EventThread
<1>4. Repost \/ RtcTimer \/ Ask \/ st_set \/ pm_mode_proc \/ McuWakes \/ Around
      \/ AtTakes \/ AtEnds \/ UNCHANGED vars => UNCHANGED <<pmVars, faults>>
    BY Zenon DEF Repost, RtcTimer, Ask, st_set, pm_mode_proc, McuWakes, Around, AtTakes,
       AtEnds, vars
<1> QED
    BY <1>1, <1>2, <1>3, <1>4, Zenon DEF PowerNext, pm_main

-----------------------------------------------------------------------------
(* The counters and the surroundings.                                      *)

\* The counters of the waits stay within their limits.
LEMMA WaitStep == WaitType /\ [PowerNext]_vars => WaitType'
<1> SUFFICES ASSUME WaitType, [PowerNext]_vars PROVE WaitType'
    OBVIOUS
<1> USE PowerMgrAssumption
<1>1. CASE UNCHANGED <<wait, updates>>
    BY <1>1 DEF WaitType
<1>2. CASE Reborn
    BY <1>2 DEF Reborn, WaitType
<1>3. CASE \E r \in DOMAIN RestartState : Restart(r)
    BY <1>2, <1>3 DEF RestartState, Restart, WaitType
<1>4. CASE pm_st_s7e3
  <2>1. updates' \in 0..MaxUpdates
    BY <1>4 DEF pm_st_s7e3, WaitType
  <2>2. \E w : /\ w = wait.fota \/ (~(wait.fota > FotaTicks) /\ w = wait.fota + 1)
              /\ \/ wait' = [wait EXCEPT !.fota = w]
                 \/ wait' = [wait EXCEPT !.fota = w, !.err = 0]
                 \/ /\ wait.err + 1 <= FotaErrors
                    /\ wait' = [wait EXCEPT !.fota = w, !.err = @ + 1]
    BY <1>4, Zenon DEF pm_st_s7e3
  <2>3. PICK w : /\ w = wait.fota \/ (~(wait.fota > FotaTicks) /\ w = wait.fota + 1)
                 /\ \/ wait' = [wait EXCEPT !.fota = w]
                    \/ wait' = [wait EXCEPT !.fota = w, !.err = 0]
                    \/ /\ wait.err + 1 <= FotaErrors
                       /\ wait' = [wait EXCEPT !.fota = w, !.err = @ + 1]
    BY <2>2
  <2>4. w \in 0..FotaTicks + 1
    BY <2>3 DEF WaitType
  <2> DEFINE T == [app : 0..RestartTicks + 1, g4 : 0..RestartTicks + 1,
                   fota : 0..FotaTicks + 1, err : 0..FotaErrors]
  <2>5. wait \in T /\ wait.err \in 0..FotaErrors
    BY DEF WaitType
  <2>6. CASE wait' = [wait EXCEPT !.fota = w]
    BY <2>1, <2>4, <2>5, <2>6 DEF WaitType
  <2>7. CASE wait' = [wait EXCEPT !.fota = w, !.err = 0]
    <3>1. wait' = [app |-> wait.app, g4 |-> wait.g4, fota |-> w, err |-> 0]
      BY <2>5, <2>7
    <3> QED
      BY <3>1, <2>1, <2>4, <2>5 DEF WaitType
  <2>8. CASE wait.err + 1 <= FotaErrors /\ wait' = [wait EXCEPT !.fota = w, !.err = @ + 1]
    <3>1. wait' = [app |-> wait.app, g4 |-> wait.g4, fota |-> w, err |-> wait.err + 1]
      BY <2>5, <2>8
    <3> QED
      BY <3>1, <2>1, <2>4, <2>5, <2>8 DEF WaitType
  <2> QED
    BY <2>3, <2>6, <2>7, <2>8
<1>5. CASE AtTakes
    BY <1>5 DEF AtTakes, WaitType, pmVars
<1>6. pm_st_s0e3 \/ pm_st_s1e3 \/ pm_st_s3e3 \/ (\E data \in BOOLEAN : pm_st_s4e3(data))
      => UNCHANGED <<wait, updates>>
    BY Zenon DEF pm_st_s0e3, pm_st_s1e3, pm_st_s3e3, pm_st_s4e3
<1>7. pm_st_s2e3 => Reborn \/ UNCHANGED <<wait, updates>>
    BY Zenon DEF pm_st_s2e3, Check, pmVars
<1>8. CASE \E data \in BOOLEAN : Tick(data)
    BY <1>1, <1>2, <1>3, <1>4, <1>6, <1>7, <1>8, Zenon DEF Tick, pm_timeout
<1>9. pm_evt_proc => UNCHANGED <<wait, updates>>
    BY Zenon DEF pm_evt_proc, Ring, Rtc, Running, Request, pm_st_ignore, pmVars, atVars
<1>10. Repost \/ RtcTimer \/ Ask \/ st_set \/ pm_mode_proc \/ McuWakes \/ Around
       \/ AtEnds \/ UNCHANGED vars => UNCHANGED <<wait, updates>>
    BY Zenon DEF Repost, RtcTimer, Ask, st_set, pm_mode_proc, McuWakes, Around, AtEnds,
       vars, pmVars, atVars
<1> QED
    BY <1>1, <1>5, <1>8, <1>9, <1>10, Zenon DEF PowerNext, pm_main

\* What a tick leaves alone.
LEMMA TickKeeps ==
    ASSUME NEW data \in BOOLEAN, Tick(data)
    PROVE  /\ UNCHANGED outVars
           /\ Reborn \/ UNCHANGED restVars
BY Zenon DEF Tick, pm_timeout, pm_st_s0e3, pm_st_s1e3, pm_st_s2e3, pm_st_s3e3, pm_st_s4e3,
   Restart, pm_st_s7e3, Check

\* The modes, the files and the modules keep their types.
LEMMA OtherStep == OtherType /\ [PowerNext]_vars => OtherType'
<1> SUFFICES ASSUME OtherType, [PowerNext]_vars PROVE OtherType'
    OBVIOUS
<1> USE PowerMgrAssumption DEF AllModes
<1>1. CASE \E data \in BOOLEAN : Tick(data)
  <2>1. UNCHANGED outVars /\ (Reborn \/ UNCHANGED restVars)
    BY <1>1, TickKeeps
  <2> QED
    BY <2>1 DEF OtherType, outVars, restVars, modeVars, Reborn
<1>2. CASE Repost \/ pm_evt_proc \/ RtcTimer \/ Ask \/ UNCHANGED vars
  <2>1. UNCHANGED <<modeVars, outVars, fota>>
    BY <1>2, Zenon DEF Repost, pm_evt_proc, RtcTimer, Ask, vars, atVars
  <2> QED
    BY <2>1 DEF OtherType, modeVars, outVars
<1>3. CASE st_set
    BY <1>3 DEF st_set, OtherType, outVars, atVars
<1>4. CASE pm_mode_proc
    BY <1>4 DEF pm_mode_proc, OtherType, outVars, atVars
<1>5. CASE McuWakes
  <2>1. mcu' \in BOOLEAN
    BY <1>5, Zenon DEF McuWakes
  <2> QED
    BY <2>1, <1>5 DEF McuWakes, OtherType, modeVars, atVars
<1>6. CASE Around
  <2>1. mcu' \in BOOLEAN /\ usb' \in BOOLEAN
    BY <1>6, Zenon DEF Around, OtherType
  <2>2. ready' \subseteq Modules
    BY <1>6, Zenon DEF Around, OtherType
  <2> QED
    BY <2>1, <2>2, <1>6 DEF Around, OtherType, modeVars, atVars
<1>7. CASE AtTakes \/ AtEnds
    BY <1>7 DEF AtTakes, AtEnds, OtherType, modeVars, outVars
<1> QED
    BY <1>1, <1>2, <1>3, <1>4, <1>5, <1>6, <1>7, Zenon DEF PowerNext, pm_main

-----------------------------------------------------------------------------
(* The queue: its order is what ends an emergency.                         *)

\* Behind every EMERGENCY there is a msg, and in the emergency state one waits.
Ends(msg) ==
    /\ \A i \in 1..Len(queue) :
          queue[i] = "EMERGENCY" => \E j \in (i + 1)..Len(queue) : queue[j] = msg
    /\ pm_state = "MCK_EMERGENCY" => Waiting(msg)

\* The events that leave the emergency state follow those that enter it, as
\* pm_mode_proc posts them in the order of the modes.
OrderInv ==
    /\ pm_mode = "running" => Ends("RUNNING")
    /\ pm_mode \in {"sleep", "off"} => Ends("POWER_OFF")

\* The queue holds messages, and no more than it has room for.
LEMMA QueueStep == QueueType /\ OtherType /\ [PowerNext]_vars => QueueType'
<1> SUFFICES ASSUME QueueType, OtherType, [PowerNext]_vars PROVE QueueType'
    OBVIOUS
<1> USE PowerMgrAssumption DEF QueueType, Messages
<1>1. CASE \E data \in BOOLEAN : Tick(data)
  <2>1. Reborn \/ UNCHANGED queue
    BY <1>1, TickKeeps, Zenon DEF restVars
  <2>2. CASE queue' = <<>>
    BY <2>2
  <2> QED
    BY <2>1, <2>2 DEF Reborn
<1>2. CASE Repost
  <2>1. PICK m \in {"RING", "RTC"} : queue # <<>> /\ queue' = Append(Tail(queue), m)
    BY <1>2 DEF Repost
  <2>2. Tail(queue) \in Seq(Messages) /\ Len(Tail(queue)) = Len(queue) - 1
    BY <2>1
  <2> QED
    BY <2>1, <2>2
<1>3. CASE pm_evt_proc
    BY <1>3 DEF pm_evt_proc
<1>4. CASE RtcTimer \/ Ask
    BY <1>4 DEF RtcTimer, Ask, Post
<1>5. CASE pm_mode_proc
  <2>1. ModeEvent[report] \in Messages
    BY <1>5 DEF pm_mode_proc, OtherType, AllModes, ModeEvent
  <2> QED
    BY <2>1, <1>5 DEF pm_mode_proc, Post
<1>6. CASE st_set \/ McuWakes \/ Around \/ AtTakes \/ AtEnds \/ UNCHANGED vars
  <2>1. UNCHANGED queue
    BY <1>6, Zenon DEF st_set, McuWakes, Around, AtTakes, AtEnds, vars
  <2> QED
    BY <2>1
<1> QED
    BY <1>1, <1>2, <1>3, <1>4, <1>5, <1>6, Zenon DEF PowerNext, pm_main

\* A message that is not EMERGENCY goes to the end.
LEMMA PostKeepsOrder ==
    ASSUME QueueType, NEW msg, Ends(msg), NEW m \in Messages \ {"EMERGENCY"},
           queue' = Append(queue, m), pm_state' = pm_state
    PROVE  Ends(msg)'
BY DEF QueueType, Ends, Waiting

\* The message itself goes to the end.
LEMMA PostEnds ==
    ASSUME QueueType, NEW msg \in {"RUNNING", "POWER_OFF"}, queue' = Append(queue, msg)
    PROVE  Ends(msg)'
BY DEF QueueType, Ends, Waiting, Messages

\* A ring or an RTC timer is posted again.
LEMMA RepostKeepsOrder ==
    ASSUME QueueType, NEW msg \in {"RUNNING", "POWER_OFF"}, Ends(msg), Repost
    PROVE  Ends(msg)'
<1>1. PICK m \in {"RING", "RTC"} : queue # <<>> /\ queue' = Append(Tail(queue), m)
    BY DEF Repost
<1>2. queue[1] # msg
    BY DEF Repost, QueueType, Messages
<1>3. pm_state' = pm_state
    BY DEF Repost, pmVars
<1>4. /\ Len(queue) \in Nat \ {0} /\ Len(queue') = Len(queue)
      /\ \A i \in 1..Len(queue) - 1 : queue'[i] = queue[i + 1]
      /\ queue'[Len(queue)] # "EMERGENCY"
    BY <1>1 DEF QueueType
<1>5. ASSUME NEW i \in 1..Len(queue'), queue'[i] = "EMERGENCY"
      PROVE  \E j \in (i + 1)..Len(queue') : queue'[j] = msg
  <2>1. i \in 1..Len(queue) - 1 /\ queue[i + 1] = "EMERGENCY"
    BY <1>4, <1>5
  <2>2. PICK j \in (i + 2)..Len(queue) : queue[j] = msg
    BY <2>1, <1>4 DEF Ends
  <2>3. j - 1 \in 1..Len(queue) - 1 /\ j - 1 \in (i + 1)..Len(queue')
    BY <2>1, <2>2, <1>4
  <2>4. queue'[j - 1] = queue[j]
    BY <2>3, <1>4
  <2> QED
    BY <2>2, <2>3, <2>4
<1>6. ASSUME pm_state = "MCK_EMERGENCY" PROVE Waiting(msg)'
  <2>1. PICK j \in 1..Len(queue) : queue[j] = msg
    BY <1>6 DEF Ends, Waiting
  <2>2. j - 1 \in 1..Len(queue) - 1
    BY <2>1, <1>2, <1>4
  <2>3. queue'[j - 1] = queue[j] /\ j - 1 \in 1..Len(queue')
    BY <2>2, <1>4
  <2> QED
    BY <2>1, <2>3 DEF Waiting
<1> QED
    BY <1>3, <1>5, <1>6 DEF Ends

\* An event is taken from the queue: EMERGENCY enters the state with msg behind
\* it, and a msg that is taken leaves the state.
LEMMA EventKeepsOrder ==
    ASSUME QueueType, NEW msg \in {"RUNNING", "POWER_OFF"}, Ends(msg), pm_evt_proc
    PROVE  Ends(msg)'
<1>1. queue # <<>> /\ queue' = Tail(queue)
    BY DEF pm_evt_proc
<1>2. /\ Len(queue) \in Nat \ {0} /\ Len(queue') = Len(queue) - 1
      /\ \A i \in 1..Len(queue) - 1 : queue'[i] = queue[i + 1]
      /\ Head(queue) = queue[1]
    BY <1>1 DEF QueueType
<1>3. ASSUME NEW i \in 1..Len(queue'), queue'[i] = "EMERGENCY"
      PROVE  \E j \in (i + 1)..Len(queue') : queue'[j] = msg
  <2>1. PICK j \in (i + 2)..Len(queue) : queue[j] = msg
    BY <1>2, <1>3 DEF Ends
  <2>2. j - 1 \in 1..Len(queue) - 1 /\ j - 1 \in (i + 1)..Len(queue')
    BY <2>1, <1>2, <1>3
  <2>3. queue'[j - 1] = queue[j]
    BY <2>2, <1>2
  <2> QED
    BY <2>1, <2>2, <2>3
<1>4. ASSUME pm_state' = "MCK_EMERGENCY" PROVE Waiting(msg)'
  <2>1. Head(queue) = "EMERGENCY" \/ (pm_state = "MCK_EMERGENCY" /\ Head(queue) # msg)
    BY <1>4 DEF pm_evt_proc, Ring, pm_ring_wakeup, Rtc, Running, pm_mcu_wakeup, Request,
       Accepted, Entered, Goto, pm_st_ignore, pmVars
  <2>2. PICK j \in 2..Len(queue) : queue[j] = msg
    BY <2>1, <1>2 DEF Ends, Waiting
  <2>3. queue'[j - 1] = queue[j] /\ j - 1 \in 1..Len(queue')
    BY <2>2, <1>2
  <2> QED
    BY <2>2, <2>3 DEF Waiting
<1> QED
    BY <1>3, <1>4 DEF Ends

\* Every step keeps the order.
LEMMA OrderStep ==
    QueueType /\ OtherType /\ OrderInv /\ [PowerNext]_vars => OrderInv'
<1> SUFFICES ASSUME QueueType, OtherType, OrderInv, [PowerNext]_vars PROVE OrderInv'
    OBVIOUS
<1>1. ASSUME UNCHANGED pm_mode, \A msg \in {"RUNNING", "POWER_OFF"} : Ends(msg) => Ends(msg)'
      PROVE  OrderInv'
    BY <1>1 DEF OrderInv
<1>2. CASE \E data \in BOOLEAN : Tick(data)
  <2>1. PICK data \in BOOLEAN : Tick(data)
    BY <1>2
  <2>2. CASE Reborn
    <3>1. Ends("RUNNING")' /\ Ends("POWER_OFF")'
      BY <2>2 DEF Reborn, Ends
    <3> QED
      BY <3>1 DEF OrderInv
  <2>3. CASE ~Reborn
    <3>1. UNCHANGED <<queue, pm_mode>>
      BY <2>1, <2>3, TickKeeps, Zenon DEF restVars, modeVars
    <3>2. pm_state' = "MCK_EMERGENCY" => pm_state = "MCK_EMERGENCY"
      BY <2>1, <2>3 DEF Tick, pm_timeout, pm_st_s0e3, pm_st_s1e3, pm_st_s2e3, pm_st_s3e3,
         pm_st_s4e3, Restart, pm_st_s7e3, Check, Goto, WakeUp, pm_mcu_wakeup, pmVars
    <3> QED
      BY <3>1, <3>2, <1>1 DEF Ends, Waiting
  <2> QED
    BY <2>2, <2>3
<1>3. CASE Repost
    BY <1>1, <1>3, RepostKeepsOrder DEF Repost, modeVars
<1>4. CASE pm_evt_proc
    BY <1>1, <1>4, EventKeepsOrder DEF pm_evt_proc, modeVars
<1>5. CASE RtcTimer \/ Ask
  <2>1. PICK m \in Messages \ {"EMERGENCY"} : queue' = Append(queue, m)
    BY <1>5, PowerMgrAssumption DEF RtcTimer, Ask, Post, Messages
  <2>2. UNCHANGED <<pm_state, pm_mode>>
    BY <1>5, Zenon DEF RtcTimer, Ask, pmVars, modeVars
  <2> QED
    BY <2>1, <2>2, <1>1, PostKeepsOrder
<1>6. CASE pm_mode_proc
  <2>1. queue' = Append(queue, ModeEvent[report]) /\ pm_mode' = report
    BY <1>6 DEF pm_mode_proc, Post
  <2>2. /\ pm_mode' = "running" => ModeEvent[report] = "RUNNING"
        /\ pm_mode' \in {"sleep", "off"} => ModeEvent[report] = "POWER_OFF"
    BY <2>1 DEF ModeEvent
  <2> QED
    BY <2>1, <2>2, PostEnds DEF OrderInv
<1>7. CASE st_set \/ McuWakes \/ Around \/ AtTakes \/ AtEnds \/ UNCHANGED vars
  <2>1. UNCHANGED <<queue, pm_state, pm_mode>>
    BY <1>7, Zenon DEF st_set, McuWakes, Around, AtTakes, AtEnds, vars, pmVars, modeVars
  <2> QED
    BY <2>1, <1>1 DEF Ends, Waiting
<1> QED
    BY <1>2, <1>3, <1>4, <1>5, <1>6, <1>7, Zenon DEF PowerNext, pm_main

-----------------------------------------------------------------------------
(* The theorems.                                                           *)

\* Everything that is kept, together.
PowerInv == ThreadInv /\ WaitType /\ OtherType /\ QueueType /\ OrderInv

\* The initial state satisfies the invariant.
LEMMA PowerInitial == PowerInit => PowerInv
<1> SUFFICES ASSUME PowerInit PROVE PowerInv
    OBVIOUS
<1> USE PowerMgrAssumption DEF PowerInit
<1>1. /\ pm_ring_status \in BOOLEAN /\ app_sleep \in BOOLEAN
      /\ mcu \in BOOLEAN /\ usb \in BOOLEAN
    BY Zenon
<1>2. ThreadInv
    BY <1>1 DEF ThreadInv, ThreadType, WakeLockFollowsState, ModulesKnowState, NoticesOf,
       States, Notices
<1>3. WaitType /\ OtherType /\ QueueType
    BY <1>1 DEF WaitType, OtherType, QueueType, AllModes
<1>4. OrderInv
    BY DEF OrderInv, Ends
<1> QED
    BY <1>2, <1>3, <1>4 DEF PowerInv

\* The invariant holds in every reachable state.
THEOREM PowerInvariant == PowerSpec => []PowerInv
<1>1. PowerInv /\ [PowerNext]_vars => PowerInv'
    BY ThreadStep, WaitStep, OtherStep, QueueStep, OrderStep, Zenon DEF PowerInv
<1> QED
    BY PowerInitial, <1>1, PTL DEF PowerSpec

\* The state of pm_state.c and of its surroundings stays in its type, the
\* counters of restart and update within their limits, for every choice of them.
THEOREM PowerTypeCorrect == PowerSpec => []PowerTypeOK
<1>1. PowerInv => PowerTypeOK
    BY Zenon DEF PowerInv, ThreadInv, ThreadType, WaitType, OtherType, QueueType, PowerTypeOK
<1> QED
    BY PowerInvariant, <1>1, PTL

\* The wake lock is released exactly in SLEEP, whichever of the handlers of
\* pm_state.c enters or leaves it.
THEOREM WakeLockAlwaysFollowsState == PowerSpec => []WakeLockFollowsState
<1>1. PowerInv => WakeLockFollowsState
    BY Zenon DEF PowerInv, ThreadInv
<1> QED
    BY PowerInvariant, <1>1, PTL

\* Unless a notice of pm_notify_moudle was lost, the modules know the state.
THEOREM ModulesAlwaysKnowState == PowerSpec => []ModulesKnowState
<1>1. PowerInv => ModulesKnowState
    BY Zenon DEF PowerInv, ThreadInv
<1> QED
    BY PowerInvariant, <1>1, PTL

\* An emergency that the MCU has ended is not left behind: the event that leaves
\* MCK_EMERGENCY is in the queue, for every order of modes and requests.
THEOREM EmergencyAlwaysEnds == PowerSpec => []EmergencyEnds
<1>1. PowerInv => EmergencyEnds
    BY Zenon DEF PowerInv, OrderInv, Ends, EmergencyEnds
<1> QED
    BY PowerInvariant, <1>1, PTL

-----------------------------------------------------------------------------
(* What a step may not do: sleep while the MCU is awake.                   *)

\* An MCU that is awake keeps the 4G module awake, whatever the result for the
\* cable that is or-ed with its own, unless a read failed.
LEMMA AwakeMcuIsSeen ==
    ASSUME mcu, usb \in BOOLEAN, NEW looks \in BOOLEAN,
           NEW uf \in BOOLEAN, NEW mf \in BOOLEAN, uf => looks,
           ~KeepsAwake(IF looks THEN Read(usb, uf) ELSE 0, Read(mcu, mf))
    PROVE  uf \/ mf
BY DEF KeepsAwake, Read

\* The timeout handler of MCK_SLEEP.
LEMMA SleepsFromCheck ==
    ASSUME PowerInv, mcu, pm_st_s1e3, pm_state # "SLEEP", pm_state' = "SLEEP"
    PROVE  faults' > faults
<1>1. usb \in BOOLEAN /\ faults \in Nat
    BY DEF PowerInv, OtherType, ThreadInv, ThreadType
<1>2. PICK uf \in BOOLEAN, mf \in BOOLEAN :
        /\ faults' = faults + ((IF uf THEN 1 ELSE 0) + (IF mf THEN 1 ELSE 0))
        /\ \/ WakeUp
           \/ ~KeepsAwake(IF TRUE THEN Read(usb, uf) ELSE 0, Read(mcu, mf))
    BY Zenon DEF pm_st_s1e3, Check
<1>3. ~WakeUp
    BY DEF WakeUp, pm_mcu_wakeup
<1>4. uf \/ mf
    BY <1>1, <1>2, <1>3, AwakeMcuIsSeen
<1> QED
    BY <1>1, <1>2, <1>4

\* The timeout handler of MCK_POWER_OFF.
LEMMA OffFromCheck ==
    ASSUME PowerInv, mcu, pm_st_s2e3, st_mode # "unknown", st_mode' = "unknown"
    PROVE  faults' > faults
<1>1. usb \in BOOLEAN /\ faults \in Nat
    BY DEF PowerInv, OtherType, ThreadInv, ThreadType
<1>2. PICK uf \in BOOLEAN, mf \in BOOLEAN :
        /\ faults' = faults + ((IF uf THEN 1 ELSE 0) + (IF mf THEN 1 ELSE 0))
        /\ uf => pm_mode # "off"
        /\ \/ UNCHANGED restVars
           \/ ~KeepsAwake(IF pm_mode # "off" THEN Read(usb, uf) ELSE 0, Read(mcu, mf))
    BY Zenon DEF pm_st_s2e3, Check
<1>3. ~UNCHANGED restVars
    BY DEF restVars, modeVars
<1>4. uf \/ mf
    BY <1>1, <1>2, <1>3, AwakeMcuIsSeen
<1> QED
    BY <1>1, <1>2, <1>4

\* The 4G module goes to sleep, or is switched off from MCK_POWER_OFF, only
\* with the MCU asleep or in a tick that failed to read one of the two files,
\* in whatever order rings, modes, restarts and ticks come.
THEOREM SleepsOnlyWithMcu == PowerSpec => SleepsWithMcu
<1> DEFINE Falls == pm_state # "SLEEP" /\ pm_state' = "SLEEP"
           Ends4G == /\ pm_state = "MCK_POWER_OFF"
                     /\ st_mode # "unknown" /\ st_mode' = "unknown"
<1>1. ASSUME PowerInv, [PowerNext]_vars, mcu, Falls PROVE faults' > faults
  <2>0. ~pm_evt_proc
    <3>1. ~(Ring \/ Rtc \/ Running)
      BY <1>1 DEF Ring, pm_ring_wakeup, Rtc, Running, pm_mcu_wakeup, Goto,
         pm_st_ignore, pmVars
    <3>2. \A evt \in DOMAIN Accepted : ~Request(evt)
      BY <1>1 DEF Request, Accepted, Entered, Goto, pm_st_ignore, pmVars
    <3> QED
      BY <3>1, <3>2 DEF pm_evt_proc
  <2>1. PICK data \in BOOLEAN : Tick(data)
    BY <1>1, <2>0, Zenon DEF PowerNext, pm_main, Repost, RtcTimer, Ask, st_set,
       pm_mode_proc, McuWakes, Around, AtTakes, AtEnds, pmVars, vars
  <2>2. pm_st_s1e3
    BY <1>1, <2>1 DEF Tick, pm_timeout, pm_st_s0e3, pm_st_s2e3, pm_st_s3e3,
       pm_st_s4e3, Restart, pm_st_s7e3, Check, Goto, Reborn, WakeUp, pm_mcu_wakeup,
       pmVars
  <2> QED
    BY <1>1, <2>2, SleepsFromCheck
<1>2. ASSUME PowerInv, [PowerNext]_vars, mcu, Ends4G PROVE faults' > faults
  <2>1. CASE \E data \in BOOLEAN : Tick(data)
    <3>1. pm_st_s2e3
      BY <1>2, <2>1 DEF Tick, pm_timeout, RestartState
    <3> QED
      BY <1>2, <3>1, OffFromCheck
  <2>2. CASE ~\E data \in BOOLEAN : Tick(data)
    <3>1. st_set
      BY <1>2, <2>2, Zenon DEF PowerNext, pm_main, Repost, pm_evt_proc, RtcTimer, Ask,
         pm_mode_proc, McuWakes, Around, AtTakes, AtEnds, modeVars, vars
    <3> QED
      BY <1>2, <3>1, PowerMgrAssumption DEF st_set, AllModes
  <2> QED
    BY <2>1, <2>2
<1>3. PowerInv /\ [PowerNext]_vars => [Falls \/ Ends4G => ~mcu \/ faults' > faults]_vars
    BY <1>1, <1>2
<1> QED
    BY <1>3, PowerInvariant, PTL DEF PowerSpec, SleepsWithMcu
=============================================================================
