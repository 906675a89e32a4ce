------------------------------ MODULE PowerMgr ------------------------------
(***************************************************************************)
(* Power management (src/app/base/pm): one thread that takes messages from *)
(* its queue and drives the state machine of pm_state.c.  Around it run    *)
(*   - the MCU: it reports the power mode (status.c calls pm_mode_proc in  *)
(*     the thread that received the report), sleeps and wakes, and is      *)
(*     woken by a pin;                                                     *)
(*   - the registered modules: told of each change of state, and asked     *)
(*     whether they are ready before the 4G module may sleep;              *)
(*   - the senders of rings, restarts and updates, the RTC timer, and the  *)
(*     AT thread that performs an update.                                  *)
(* A module's message goes through two pipes and may be lost in either     *)
(* (tcom_main.c), so a notification may reach some of the modules only.    *)
(* The two wake-up files of sysfs may fail to be read.                     *)
(***************************************************************************)
EXTENDS Integers, Sequences, FiniteSets

CONSTANTS
    Modules,        \* the modules in pm_regtbl
    SleepTicks,     \* quiet ticks before NORMAL is left: 10
    RestartTicks,   \* ticks a restart waits for the modules: 5
    FotaTicks,      \* ticks an update waits for the modules: 10
    FotaErrors,     \* failures after which an update is given up: 3
    MaxQueue,       \* bound on the messages waiting for the thread
    MaxReadErrors,  \* bound on the reads of sysfs that fail
    MaxUpdates,     \* bound on the update messages waiting for the AT thread
    Requests,       \* the events the other modules may ask for
    Modes           \* the power modes the MCU may report

States == {"NORMAL", "MCK_SLEEP", "MCK_POWER_OFF", "MCK_EMERGENCY", "SLEEP",
           "MCK_RESTART_APP", "MCK_RESTART_4G", "MCK_FOTA_UPDATE"}
\* "off" stands for the modes OFF and DEEP_SLEEP.
AllModes == {"running", "emergency", "listen", "sleep", "off"}
Notices == {"RUNNING", "SLEEP", "OFF", "EMERGENCY", "RTC_WAKEUP"}
Messages == {"AT_RING", "RTC_TIMER", "RING", "RTC", "RUNNING", "EMERGENCY",
             "POWER_OFF", "SLEEP_REQ", "RESTART_APP", "RESTART_4G", "FOTA"}

ASSUME PowerMgrAssumption ==
    /\ SleepTicks \in Nat \ {0} /\ RestartTicks \in Nat
    /\ FotaTicks \in Nat /\ FotaErrors \in Nat
    /\ MaxQueue \in Nat \ {0} /\ MaxReadErrors \in Nat
    /\ MaxUpdates \in Nat \ {0}
    /\ Modes \subseteq AllModes
    /\ Requests \subseteq {"AT_RING", "RING", "SLEEP_REQ", "RESTART_APP", "RESTART_4G", "FOTA"}

VARIABLES
    pm_state,
    pm_check_cnt,   \* quiet ticks seen in NORMAL
    pm_ring_status, \* the wake-up pin of the MCU is high
    vote,           \* "oppose": the wake lock is held
    app_sleep,      \* ST_ITEM_APP_SLEEP, synchronised to the MCU
    told,           \* the last notice, or "partly" when some module missed it
    wait,           \* the static counters of the restart and update states
    st_mode,        \* ST_ITEM_PM_MODE
    pm_mode,        \* pm_main.c's own copy of it
    report,         \* the mode whose callback has not run yet
    queue,          \* messages for the thread
    mcu, usb,       \* what the two wake-up files would say
    ready,          \* the modules whose handler returns 1
    faults,         \* reads of sysfs that failed
    fota,           \* fota_get_status
    updates         \* update messages the AT thread has not taken

pmVars == <<pm_state, pm_check_cnt, pm_ring_status, vote, app_sleep, told, wait>>
modeVars == <<st_mode, pm_mode, report>>
outVars == <<mcu, usb, ready>>
atVars == <<fota, updates>>
vars == <<pmVars, modeVars, queue, outVars, faults, atVars>>

\* pm_init_para, pm_init_state and the start of pm_main.
PowerInit ==
    /\ pm_state = "NORMAL" /\ pm_check_cnt = 0 /\ pm_ring_status = FALSE
    /\ vote = "oppose" /\ app_sleep = FALSE /\ told = "RUNNING"
    /\ wait = [app |-> 0, g4 |-> 0, fota |-> 0, err |-> 0]
    /\ st_mode = "unknown" /\ pm_mode = "running" /\ report = "none"
    /\ queue = <<>> /\ fota = "none" /\ updates = 0
    /\ mcu = TRUE /\ usb \in BOOLEAN /\ ready = {}
    /\ faults = 0

\* Ql_Powerdown, and pkill of the application: the process ends, and the next
\* one, when the module or the application is started again, knows nothing.
Reborn ==
    /\ pm_state' = "NORMAL" /\ pm_check_cnt' = 0 /\ pm_ring_status' = FALSE
    /\ vote' = "oppose" /\ app_sleep' = FALSE /\ told' = "RUNNING"
    /\ wait' = [app |-> 0, g4 |-> 0, fota |-> 0, err |-> 0]
    /\ st_mode' = "unknown" /\ pm_mode' = "running" /\ report' = "none"
    /\ queue' = <<>> /\ fota' = "none" /\ updates' = 0

-----------------------------------------------------------------------------
(* What the handlers are made of.                                          *)

\* pm_notify_moudle: it stops at the first message tcom refuses, and tcom
\* drops a message its receiver has no room for, so any module may miss it.
Notify(notice) == told' \in {notice, "partly"}

\* The wake-up pin.
pm_wakeup_low == pm_ring_status' = FALSE
pm_wakeup_high == pm_ring_status' = TRUE

\* pm_mcu_wakeup, but for the pin, which its callers set.
pm_mcu_wakeup ==
    /\ vote' = "oppose"
    /\ pm_state' = "NORMAL"
    /\ Notify("RUNNING")
    /\ app_sleep' = FALSE

\* pm_usb_wakeup_check and pm_mcu_wakeup_check: 1, 0 or -1.  The errors are
\* counted in faults.
Read(line, failed) == IF failed THEN -1 ELSE IF line THEN 1 ELSE 0

\* (mutant) The result for the MCU is not shifted in.
KeepsAwakeByUsb(u, m) == u >= 1

\* is_allow_sleep >= 1 in the timeout handlers: the two results are or-ed as
\* ints, and -1 or -2 makes the whole negative, whatever the other one says.
KeepsAwake(u, m) == u >= 0 /\ m >= 0 /\ u + m >= 1

\* The reads of a timeout handler and what follows from them.
Check(looksAtUsb, Asleep, Awake) ==
    \E uf, mf \in BOOLEAN :
        LET u == IF looksAtUsb THEN Read(usb, uf) ELSE 0
            errors == (IF uf THEN 1 ELSE 0) + (IF mf THEN 1 ELSE 0)
        IN  /\ uf => looksAtUsb
            /\ faults + errors <= MaxReadErrors
            /\ faults' = faults + errors
            /\ \/ KeepsAwake(u, Read(mcu, mf)) /\ Awake
               \/ ~KeepsAwake(u, Read(mcu, mf)) /\ Asleep

\* (mutant) One module too many is counted.
OneTooMany == Cardinality(ready) > Cardinality(Modules)

\* Every registered handler returns 1.
pm_is_sleep_ready == ready = Modules

Goto(state, notice) == pm_state' = state /\ Notify(notice)

\* (mutant) A ring does not raise the pin in NORMAL.
RingWithoutPin ==
    \/ /\ pm_state # "NORMAL"
       /\ vote' = "oppose" /\ Goto("NORMAL", "RUNNING") /\ pm_wakeup_high
       /\ UNCHANGED faults
    \/ /\ pm_state = "NORMAL"
       /\ UNCHANGED <<faults, pm_ring_status, vote, pm_state, told>>

\* pm_ring_wakeup.  A failed read looks like an MCU that is awake.
pm_ring_wakeup ==
    \/ /\ pm_state # "NORMAL"
       /\ vote' = "oppose"
       /\ Goto("NORMAL", "RUNNING")
       /\ pm_wakeup_high
       /\ UNCHANGED faults
    \/ /\ pm_state = "NORMAL"
       /\ \E failed \in BOOLEAN :
            /\ failed => faults < MaxReadErrors
            /\ faults' = IF failed THEN faults + 1 ELSE faults
            /\ pm_ring_status' = (pm_ring_status \/ Read(mcu, failed) = 0)
       /\ UNCHANGED <<vote, pm_state, told>>

-----------------------------------------------------------------------------
(* The period timer, by state.                                             *)

\* What only a restart changes, beside the queue.
restVars == <<modeVars, queue, fota>>

\* pm_st_s0e3: the mode decides, after SleepTicks quiet ticks, between
\* sleeping and being switched off; an unknown mode leaves the count alone.
pm_st_s0e3 ==
    /\ Check(TRUE,
             \/ /\ pm_check_cnt + 1 < SleepTicks
                /\ pm_check_cnt' = pm_check_cnt + 1
                /\ UNCHANGED <<pm_state, told, pm_ring_status>>
             \/ /\ pm_check_cnt + 1 >= SleepTicks /\ st_mode = "unknown"
                /\ pm_check_cnt' = SleepTicks
                /\ UNCHANGED <<pm_state, told, pm_ring_status>>
             \/ /\ pm_check_cnt + 1 >= SleepTicks /\ st_mode \in {"sleep", "off"}
                /\ Goto("MCK_POWER_OFF", "OFF")
                /\ pm_check_cnt' = 0 /\ UNCHANGED pm_ring_status
             \/ /\ pm_check_cnt + 1 >= SleepTicks
                /\ st_mode \in {"running", "emergency", "listen"}
                /\ Goto("MCK_SLEEP", "SLEEP")
                /\ pm_check_cnt' = 0 /\ UNCHANGED pm_ring_status,
             pm_check_cnt' = 0 /\ pm_wakeup_low /\ UNCHANGED <<pm_state, told>>)
    /\ UNCHANGED <<vote, app_sleep, wait, updates, restVars>>

\* Leaving a check state because something is awake.
WakeUp == pm_mcu_wakeup /\ pm_wakeup_low

\* pm_st_s1e3
pm_st_s1e3 ==
    /\ Check(TRUE,
             \/ /\ pm_is_sleep_ready /\ ~pm_ring_status
                /\ pm_state' = "SLEEP"
                /\ vote' = "agree"
                /\ UNCHANGED <<app_sleep, told, pm_ring_status>>
             \/ /\ ~(pm_is_sleep_ready /\ ~pm_ring_status)
                /\ UNCHANGED <<pm_state, vote, app_sleep, told, pm_ring_status>>,
             WakeUp)
    /\ UNCHANGED <<pm_check_cnt, wait, updates, restVars>>

\* pm_st_s2e3: a plugged USB cable does not keep a module awake that is told
\* to go off or to sleep deeply.
pm_st_s2e3 ==
    Check(pm_mode # "off",
          \/ pm_is_sleep_ready /\ ~pm_ring_status /\ Reborn
          \/ ~(pm_is_sleep_ready /\ ~pm_ring_status)
             /\ UNCHANGED <<pmVars, updates, restVars>>,
          WakeUp /\ UNCHANGED <<pm_check_cnt, wait, updates, restVars>>)

\* pm_st_s3e3
pm_st_s3e3 ==
    /\ pm_wakeup_low
    /\ app_sleep' = (app_sleep \/ pm_is_sleep_ready)
    /\ UNCHANGED <<pm_state, pm_check_cnt, vote, told, wait, faults, updates,
                   restVars>>

\* (mutant) Asleep, only received data is looked at.
AsleepToMcu(data) ==
    /\ \/ data /\ vote' = "oppose" /\ Goto("NORMAL", "RUNNING") /\ pm_wakeup_high
       \/ ~data /\ UNCHANGED <<pm_state, vote, told, pm_ring_status>>
    /\ UNCHANGED <<app_sleep, pm_check_cnt, wait, updates, faults, restVars>>

\* pm_st_s4e3: asleep, a peer wakes the module up, or data that a socket holds
\* (sock_recv_check).
pm_st_s4e3(data) ==
    /\ Check(TRUE,
             \/ /\ data
                /\ vote' = "oppose" /\ Goto("NORMAL", "RUNNING") /\ pm_wakeup_high
                /\ UNCHANGED app_sleep
             \/ ~data /\ UNCHANGED <<pm_state, vote, app_sleep, told, pm_ring_status>>,
             WakeUp)
    /\ UNCHANGED <<pm_check_cnt, wait, updates, restVars>>

RestartState == [app |-> "MCK_RESTART_APP", g4 |-> "MCK_RESTART_4G"]

\* pm_st_s5e3 and pm_st_s6e3: a restart waits a bounded time for the modules.
Restart(counter) ==
    /\ \/ (pm_is_sleep_ready \/ wait[counter] > RestartTicks) /\ Reborn
       \/ /\ ~(pm_is_sleep_ready \/ wait[counter] > RestartTicks)
          /\ wait' = [wait EXCEPT ![counter] = @ + 1]
          /\ UNCHANGED <<pm_state, pm_check_cnt, pm_ring_status, vote, app_sleep, told,
                         updates, restVars>>
    /\ UNCHANGED faults

\* pm_st_s7e3: the message that starts the update is repeated on every tick
\* until the AT thread has taken it; the counters are not reset but for err.
pm_st_s7e3 ==
    LET waited == IF pm_is_sleep_ready \/ wait.fota > FotaTicks
                  THEN wait.fota ELSE wait.fota + 1
        is_allow == pm_is_sleep_ready \/ waited > FotaTicks
        Start == updates' = IF is_allow /\ updates < MaxUpdates
                            THEN updates + 1 ELSE updates
    IN  /\ \/ /\ fota \in {"ok", "ing"}
              /\ wait' = [wait EXCEPT !.fota = waited]
              /\ UNCHANGED <<pm_state, told, updates>>
           \/ /\ fota = "error" /\ wait.err + 1 > FotaErrors
              /\ wait' = [wait EXCEPT !.fota = waited, !.err = 0]
              /\ Goto("NORMAL", "RUNNING")
              /\ UNCHANGED updates
           \/ /\ fota = "error" /\ wait.err + 1 <= FotaErrors
              /\ wait' = [wait EXCEPT !.fota = waited, !.err = @ + 1]
              /\ Start /\ UNCHANGED <<pm_state, told>>
           \/ /\ fota = "none"
              /\ wait' = [wait EXCEPT !.fota = waited]
              /\ Start /\ UNCHANGED <<pm_state, told>>
        /\ UNCHANGED <<pm_check_cnt, pm_ring_status, vote, app_sleep, faults,
                       restVars>>

pm_timeout(data) ==
    \/ pm_state = "NORMAL" /\ pm_st_s0e3
    \/ pm_state = "MCK_SLEEP" /\ pm_st_s1e3
    \/ pm_state = "MCK_POWER_OFF" /\ pm_st_s2e3
    \/ pm_state = "MCK_EMERGENCY" /\ pm_st_s3e3
    \/ pm_state = "SLEEP" /\ pm_st_s4e3(data)
    \/ \E r \in DOMAIN RestartState : pm_state = RestartState[r] /\ Restart(r)
    \/ pm_state = "MCK_FOTA_UPDATE" /\ pm_st_s7e3

-----------------------------------------------------------------------------
(* The other events, by state: the columns of state_tbl.                   *)

pm_st_ignore == UNCHANGED <<pmVars, faults>>

\* RING
Ring ==
    \/ /\ pm_state \in {"NORMAL", "MCK_SLEEP", "MCK_POWER_OFF", "SLEEP"}
       /\ pm_ring_wakeup
       /\ UNCHANGED <<pm_check_cnt, app_sleep, wait>>
    \/ /\ pm_state \notin {"NORMAL", "MCK_SLEEP", "MCK_POWER_OFF", "SLEEP"}
       /\ pm_st_ignore

\* MPU_RTC: pm_rtc_wakeup, and pm_st_s4e1 from SLEEP.
Rtc ==
    \/ /\ pm_state \in {"MCK_SLEEP", "SLEEP"}
       /\ vote' = "oppose"
       /\ Goto("MCK_SLEEP", "RTC_WAKEUP")
       /\ UNCHANGED <<pm_check_cnt, pm_ring_status, app_sleep, wait, faults>>
    \/ pm_state \notin {"MCK_SLEEP", "SLEEP"} /\ pm_st_ignore

\* (mutant) The emergency column is pm_st_ignore.
RunningNotInEmergency ==
    \/ /\ pm_state \in {"MCK_SLEEP", "MCK_POWER_OFF"}
       /\ pm_mcu_wakeup
       /\ UNCHANGED <<pm_check_cnt, pm_ring_status, wait, faults>>
    \/ pm_state \notin {"MCK_SLEEP", "MCK_POWER_OFF"} /\ pm_st_ignore

\* RUNNING
Running ==
    \/ /\ pm_state \in {"MCK_SLEEP", "MCK_POWER_OFF", "MCK_EMERGENCY"}
       /\ pm_mcu_wakeup
       /\ UNCHANGED <<pm_check_cnt, pm_ring_status, wait, faults>>
    \/ /\ pm_state \notin {"MCK_SLEEP", "MCK_POWER_OFF", "MCK_EMERGENCY"}
       /\ pm_st_ignore

\* EMERGENCY (s0e4, s1e4), POWER_OFF (s0e5, s3e5), SLEEP (s0e6), RESTART APP
\* (s0e7), RESTART 4G (s0e8), FOTA UPDATE (s0e9)
Accepted == [EMERGENCY   |-> {"NORMAL", "MCK_SLEEP"},
             POWER_OFF   |-> {"NORMAL", "MCK_EMERGENCY"},
             SLEEP_REQ   |-> {"NORMAL"},
             RESTART_APP |-> {"NORMAL"},
             RESTART_4G  |-> {"NORMAL"},
             FOTA        |-> {"NORMAL"}]
Entered == [EMERGENCY   |-> <<"MCK_EMERGENCY", "EMERGENCY">>,
            POWER_OFF   |-> <<"MCK_POWER_OFF", "OFF">>,
            SLEEP_REQ   |-> <<"MCK_SLEEP", "SLEEP">>,
            RESTART_APP |-> <<"MCK_RESTART_APP", "OFF">>,
            RESTART_4G  |-> <<"MCK_RESTART_4G", "OFF">>,
            FOTA        |-> <<"MCK_FOTA_UPDATE", "OFF">>]

Request(evt) ==
    \/ /\ pm_state \in Accepted[evt]
       /\ Goto(Entered[evt][1], Entered[evt][2])
       /\ UNCHANGED <<pm_check_cnt, pm_ring_status, vote, app_sleep, wait, faults>>
    \/ pm_state \notin Accepted[evt] /\ pm_st_ignore

-----------------------------------------------------------------------------
(* pm_main: one message per turn.                                          *)

\* A ring of the AT or BLE thread and the RTC timer are posted again, behind
\* what is waiting already.
Repost ==
    /\ queue # <<>>
    /\ \/ Head(queue) = "AT_RING" /\ queue' = Append(Tail(queue), "RING")
       \/ Head(queue) = "RTC_TIMER" /\ queue' = Append(Tail(queue), "RTC")
    /\ UNCHANGED <<pmVars, modeVars, outVars, faults, atVars>>

\* PM_MSG_ID_CHECK_TIMER.  The period timer's message may be anywhere among
\* those that wait, and carries nothing: that it is its turn is a free choice.
Tick(data) ==
    /\ pm_timeout(data)
    /\ UNCHANGED outVars

\* pm_evt_proc
pm_evt_proc ==
    /\ queue # <<>>
    /\ \/ Head(queue) = "RING" /\ Ring
       \/ Head(queue) = "RTC" /\ Rtc
       \/ Head(queue) = "RUNNING" /\ Running
       \/ Head(queue) \in DOMAIN Accepted /\ Request(Head(queue))
    /\ queue' = Tail(queue)
    /\ UNCHANGED <<modeVars, outVars, atVars>>

pm_main == Repost \/ (\E data \in BOOLEAN : Tick(data)) \/ pm_evt_proc

-----------------------------------------------------------------------------
(* Around the thread.                                                      *)

\* pm_send_evt, and the messages of the AT and BLE threads.
Post(msg) == Len(queue) < MaxQueue /\ queue' = Append(queue, msg)

\* pm_rtc_data_timer.  It is started when the module goes to sleep and not
\* stopped when it wakes, so it may expire in any state.
RtcTimer ==
    /\ Post("RTC_TIMER")
    /\ UNCHANGED <<pmVars, modeVars, outVars, faults, atVars>>

\* A ring, the shell, SIGTERM, the diagnosis of the 4G module, an update.
Ask ==
    /\ \E r \in Requests : Post(r)
    /\ UNCHANGED <<pmVars, modeVars, outVars, faults, atVars>>

\* st_set(ST_ITEM_PM_MODE): the item is written before the callback runs.
st_set ==
    /\ report = "none"
    /\ \E m \in Modes \ {st_mode} : st_mode' = m /\ report' = m
    /\ UNCHANGED <<pmVars, pm_mode, queue, outVars, faults, atVars>>

\* pm_mode_proc
ModeEvent == [running |-> "RUNNING", emergency |-> "EMERGENCY", listen |-> "SLEEP_REQ",
              sleep |-> "POWER_OFF", off |-> "POWER_OFF"]
pm_mode_proc ==
    /\ report # "none"
    /\ pm_mode' = report
    /\ Post(ModeEvent[report])
    /\ report' = "none"
    /\ UNCHANGED <<pmVars, st_mode, outVars, faults, atVars>>

\* The MCU, the cable and the modules.  The MCU stays awake under a high pin.
McuWakes ==
    /\ ~mcu /\ mcu' = TRUE
    /\ UNCHANGED <<pmVars, modeVars, queue, usb, ready, faults, atVars>>
Around ==
    /\ \/ mcu /\ ~pm_ring_status /\ mcu' = FALSE /\ UNCHANGED <<usb, ready>>
       \/ usb' = ~usb /\ UNCHANGED <<mcu, ready>>
       \/ \E m \in Modules : ready' = (ready \ {m}) \cup ({m} \ ready)
          /\ UNCHANGED <<mcu, usb>>
    /\ UNCHANGED <<pmVars, modeVars, queue, faults, atVars>>

\* The AT thread takes the update message, and the update ends.
AtTakes ==
    /\ updates > 0
    /\ updates' = updates - 1 /\ fota' = "ing"
    /\ UNCHANGED <<pmVars, modeVars, queue, outVars, faults>>
AtEnds ==
    /\ fota = "ing"
    /\ fota' \in {"ok", "error"}
    /\ UNCHANGED <<pmVars, modeVars, queue, outVars, faults, updates>>

PowerNext ==
    \/ pm_main \/ RtcTimer \/ Ask \/ st_set \/ pm_mode_proc
    \/ McuWakes \/ Around \/ AtTakes \/ AtEnds

\* The thread takes its messages and the period timer runs (but nobody sends
\* the module any data); callbacks return;
\* the MCU answers to its pin; the AT thread takes its messages and a modem
\* update ends.
PowerFairness ==
    /\ WF_vars(Repost) /\ WF_vars(pm_evt_proc) /\ WF_vars(Tick(FALSE))
    /\ WF_vars(pm_mode_proc)
    /\ WF_vars(pm_ring_status /\ McuWakes)
    /\ WF_vars(AtTakes) /\ WF_vars(AtEnds)

PowerSpec == PowerInit /\ [][PowerNext]_vars /\ PowerFairness

-----------------------------------------------------------------------------
(* Properties.                                                             *)

PowerTypeOK ==
    /\ pm_state \in States /\ pm_check_cnt \in 0..SleepTicks
    /\ pm_ring_status \in BOOLEAN /\ vote \in {"oppose", "agree"}
    /\ app_sleep \in BOOLEAN /\ told \in Notices \cup {"partly"}
    /\ wait \in [app : 0..RestartTicks + 1, g4 : 0..RestartTicks + 1,
                  fota : 0..FotaTicks + 1, err : 0..FotaErrors]
    /\ st_mode \in AllModes \cup {"unknown"} /\ pm_mode \in AllModes
    /\ report \in AllModes \cup {"none"}
    /\ queue \in Seq(Messages) /\ Len(queue) <= MaxQueue
    /\ mcu \in BOOLEAN /\ usb \in BOOLEAN /\ ready \subseteq Modules
    /\ faults \in 0..MaxReadErrors
    /\ fota \in {"none", "ing", "ok", "error"} /\ updates \in 0..MaxUpdates

\* The wake lock is released exactly in SLEEP, and never while a wake-up pin
\* that the MCU has not answered is high: whichever of the handlers leaves
\* SLEEP takes the lock back (pm_vote_agree, pm_vote_oppose).
WakeLockFollowsState ==
    /\ vote = "agree" <=> pm_state = "SLEEP"
    /\ pm_state = "SLEEP" => ~pm_ring_status

\* Unless a notice was lost, the last one the modules got is that of the
\* state: no path into a state forgets pm_notify_moudle or sends another's.
NoticesOf == [NORMAL |-> {"RUNNING"}, MCK_SLEEP |-> {"SLEEP", "RTC_WAKEUP"},
              SLEEP |-> {"SLEEP", "RTC_WAKEUP"}, MCK_POWER_OFF |-> {"OFF"},
              MCK_EMERGENCY |-> {"EMERGENCY"}, MCK_RESTART_APP |-> {"OFF"},
              MCK_RESTART_4G |-> {"OFF"}, MCK_FOTA_UPDATE |-> {"OFF"}]
ModulesKnowState == told # "partly" => told \in NoticesOf[pm_state]

\* The emergency state is not left behind: when the MCU has reported another
\* mode that ends it, the event that leaves the state is still in the queue,
\* behind the one that entered it.
Waiting(msg) == \E i \in 1..Len(queue) : queue[i] = msg
EmergencyEnds ==
    pm_state = "MCK_EMERGENCY" /\ report = "none" =>
        /\ pm_mode = "running" => Waiting("RUNNING")
        /\ pm_mode \in {"sleep", "off"} => Waiting("POWER_OFF")

\* The 4G module goes to sleep, or off, only with the MCU asleep, unless one
\* of the reads failed: their results are or-ed, and the -1 of a failed read
\* hides the 1 of the other.
SleepsWithMcu ==
    [][(pm_state # "SLEEP" /\ pm_state' = "SLEEP")
       \/ (pm_state = "MCK_POWER_OFF" /\ st_mode # "unknown" /\ st_mode' = "unknown")
       => ~mcu \/ faults' > faults]_vars

\* An MCU that stays awake does not leave the module asleep, or waiting to be.
AwakeMcuWakesModule ==
    []<>(mcu => pm_state \notin {"MCK_SLEEP", "SLEEP", "MCK_POWER_OFF"})

\* With everything quiet, every module ready and no mode that asks for power
\* off, the module sleeps again and again; only an emergency that the MCU did
\* not end with RUNNING, or updates, hold it back.
Quiet == ~mcu /\ ~usb /\ ready = Modules /\ st_mode \in {"running", "emergency", "listen"}
QuietModuleSleeps ==
    []<>(Quiet => pm_state \in {"SLEEP", "MCK_EMERGENCY", "MCK_FOTA_UPDATE"})

\* A ring wakes the MCU, unless it comes in a state that ignores rings, or the
\* process is restarted first (the mode is unknown then).  With a USB cable
\* plugged in this is not certain: the next tick finds the module awake and
\* lowers the pin, whether the MCU has answered or not.
RingWakesMcu ==
    (Waiting("RING") /\ faults = MaxReadErrors) ~>
        (\/ mcu \/ usb \/ st_mode = "unknown"
         \/ pm_state \notin {"NORMAL", "MCK_SLEEP", "MCK_POWER_OFF", "SLEEP"})

=============================================================================
