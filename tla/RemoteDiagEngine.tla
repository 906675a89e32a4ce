-------------------------- MODULE RemoteDiagEngine --------------------------
(***************************************************************************)
(* The remote diagnosis thread of interface/remote_diag.                   *)
(*                                                                         *)
(* A job is a list of ECUs.  For each one the thread opens a UDS client on *)
(* the MCU, sends the diagnostic request, stores the answer, switches the  *)
(* ECU back to its default session and goes on to the next.  One timer     *)
(* guards every wait.  Requests, answers and timeouts reach the thread     *)
(* through one pipe, in order, so a timeout can be read long after the     *)
(* wait it was started for is over.                                        *)
(*                                                                         *)
(* parsing_remote_diag_msg always asks for the default session and no      *)
(* security access, so the states between OPENED and SECURITY_KEY_SENDED   *)
(* are passed within one call and never seen between two messages.         *)
(***************************************************************************)
EXTENDS SequencesExt, Naturals

CONSTANTS
    EcuList,        \* REMOTE_DIAG_CAN_ID: every ECU, in the order of a full scan
    Asked,          \* the ECUs the clients ask for one by one
    TBox,           \* the ECU that is this T-Box itself
    NoEcu,
    MaxQueue,       \* bound on the pipe of the thread
    MaxSettings,    \* bound on setq
    MaxBus,         \* bound on bus
    MaxPend,        \* how often an ECU may answer "response pending" (0x78)
    Prompt          \* the MCU applies a client setting, and the thread reads an
                    \* answer, before a timer expires

Ecu == {EcuList[i] : i \in DOMAIN EcuList}

ASSUME EngineAssumption ==
    /\ EcuList \in Seq(Ecu) /\ EcuList # <<>>
    /\ NoEcu \notin Ecu /\ Asked \subseteq Ecu
    /\ MaxQueue \in Nat \ {0}
    /\ MaxSettings \in Nat \ {0} /\ MaxBus \in Nat \ {0}
    /\ MaxPend \in Nat
    /\ Prompt \in BOOLEAN

\* One ECU, or all of them when the ECU number is 0 (REMOTE_DIAG_ALL).
Job == {<<e>> : e \in Asked} \cup {EcuList}

BadJob == <<>>

CmdStates == {"NOT_START", "OPENING", "DIAGNOSING", "CLOSING", "FINISHED"}

\* How an answer ends a wait; "pend" is the code 0x78, "response pending".
Kinds == {"pos", "neg", "pend"}

Results == {"OK", "NEGATIVE", "CLOSING_FAILED", "TIMEOUT"}

VARIABLES
    eng,        \* remote_diag_state, the static structure of the thread
    timer,      \* remote_diag_request_timeout is running
    queue,      \* the messages in the pipe
    bus,        \* diagnostic requests an ECU may still answer
    setq,       \* UDS client settings the MCU has not acknowledged
    mcu,        \* the ECU whose answers the MCU passes on
    cb          \* uds_client_cb is remote_diag_set_client_callback

engVars == <<eng, timer, queue, bus, setq, mcu, cb>>

-----------------------------------------------------------------------------
(* The structure and what the helpers of remote_diag_state.c do to it.     *)

CurrentEcu(e) == e.request[e.current_cmd_no]

\* remote_diag_single_cmd_start on a command that is NOT_START: the T-Box
\* itself needs no client, so its request is sent at once.
StartCmd(e) ==
    [e EXCEPT !.current_cmd_state =
        IF CurrentEcu(e) = TBox THEN "DIAGNOSING" ELSE "OPENING"]

\* init_remote_diag_state, and the state change of remote_diag_process_start.
\* The response array is zeroed, and zero is REMOTE_DIAG_CMD_RESULT_OK.
StartJob(request) ==
    StartCmd([state |-> "EXECUTING", request |-> request,
              current_cmd_no |-> 1, current_cmd_state |-> "NOT_START",
              response |-> [i \in DOMAIN request |->
                              [result |-> "OK", from |-> NoEcu]],
              response_size |-> 0])

\* remote_diag_cmd_set_finish
SetFinish(e, r) ==
    [e EXCEPT !.response_size =
                  IF @ < Len(e.request) THEN @ + 1 ELSE @,
              !.response[e.current_cmd_no].result = r,
              !.current_cmd_state = "FINISHED"]

is_remote_diag_need(e) ==
    \/ e.response_size < Len(e.request)
    \/ Len(e.request) > 0 /\ e.current_cmd_state # "FINISHED"

\* Definitions named Mut... are mutated forms of the one that follows them.
\* They are used by no action: they only show that the properties can fail.
\* The job ends without a look at what is still needed.
MutFinishWithoutCheck(e) ==
    IF e.state = "EXECUTING" THEN [e EXCEPT !.state = "FINISHED"] ELSE e

\* remote_diag_finish_process when update_remote_diag_cmd_no found no further
\* command: with nothing left to do the job is FINISHED; otherwise the call of
\* remote_diag_single_cmd_start finds every state passed and does nothing.
FinishProcess(e) ==
    IF ~is_remote_diag_need(e) /\ e.state = "EXECUTING"
    THEN [e EXCEPT !.state = "FINISHED"] ELSE e

\* What follows a command that remote_diag_single_cmd_process calls ended.
CommandEnded(e) ==
    IF e.current_cmd_no < Len(e.request)
    THEN StartCmd([e EXCEPT !.current_cmd_no = @ + 1,
                            !.current_cmd_state = "NOT_START"])
    ELSE FinishProcess(e)

-----------------------------------------------------------------------------
(* Effects of a step outside the structure, read off its old and new value *)

\* remote_diag_excuted_result_output was called: PP_rmtDiag_queryInform_cb.
Informs(e, f) == e.state = "EXECUTING" /\ f.state = "FINISHED"

\* A step into another wait sends the request of that wait.
Enters(e, f, cs) ==
    /\ f.current_cmd_state = cs
    /\ \/ e.current_cmd_state # cs
       \/ e.current_cmd_no # f.current_cmd_no

\* The peers may lose what they are sent: when they fall behind by more than
\* the bound, the oldest is lost.
Sent(s, x, bound) ==
    LET t == Append(s, x) IN IF Len(t) > bound THEN Tail(t) ELSE t

Effects(e, f) ==
    /\ eng' = f
    /\ timer' = (f.current_cmd_state # "FINISHED")
    /\ bus' = IF Enters(e, f, "DIAGNOSING") \/ Enters(e, f, "CLOSING")
              THEN Sent(bus, [ecu |-> CurrentEcu(f), pend |-> 0], MaxBus)
              ELSE bus
    /\ setq' = IF Enters(e, f, "OPENING") THEN Sent(setq, CurrentEcu(f), MaxSettings)
               ELSE IF Informs(e, f) THEN Sent(setq, NoEcu, MaxSettings)
               ELSE setq
    /\ cb' = IF Enters(e, f, "OPENING") THEN TRUE
             ELSE IF Informs(e, f) THEN FALSE
             ELSE cb
    /\ UNCHANGED mcu

NoEffects == UNCHANGED <<eng, timer, bus, setq, mcu, cb>>

-----------------------------------------------------------------------------
(* One action per kind of message read by remote_diag_main.                *)

EngineInit ==
    /\ eng = [state |-> "IDLE", request |-> <<>>, current_cmd_no |-> 1,
              current_cmd_state |-> "NOT_START", response |-> <<>>,
              response_size |-> 0]
    /\ timer = FALSE
    /\ queue = <<>> /\ bus = <<>> /\ setq = <<>>
    /\ mcu = NoEcu /\ cb = FALSE

Read(id) ==
    /\ queue # <<>>
    /\ Head(queue).id = id
    /\ queue' = Tail(queue)

\* Mutated form: a new job replaces the one that is executed.
MutStartWhileBusy ==
    /\ Read("REQUEST")
    /\ IF Head(queue).job = BadJob THEN NoEffects
       ELSE Effects(eng, StartJob(Head(queue).job))

\* remote_diag_process_start.  A job that arrives while another is executed
\* is only logged.  parsing_remote_diag_msg has cleared the request array
\* when it finds the ECU number out of range.
remote_diag_process_start ==
    /\ Read("REQUEST")
    /\ LET request == Head(queue).job IN
         \/ eng.state = "EXECUTING" /\ NoEffects
         \/ /\ eng.state # "EXECUTING" /\ request = BadJob
            /\ eng' = [eng EXCEPT !.request = <<>>]
            /\ UNCHANGED <<timer, bus, setq, mcu, cb>>
         \/ /\ eng.state # "EXECUTING" /\ request # BadJob
            /\ Effects(eng, StartJob(request))

\* remote_diag_recieve_set_client_ack_process
SetClientAck ==
    /\ Read("SET_MCU")
    /\ IF eng.state = "EXECUTING" /\ eng.current_cmd_state = "OPENING"
       THEN Effects(eng, [eng EXCEPT !.current_cmd_state = "DIAGNOSING"])
       ELSE NoEffects

\* Mutated form: the message id is not compared.
MutAckAnyId ==
    /\ eng.state = "EXECUTING"
    /\ eng.current_cmd_state \in {"DIAGNOSING", "CLOSING"}

\* remtoe_diag_ack_process: the answers of the T-Box's own UDS server and of
\* the ECUs behind the MCU come with different message ids.
AckExpected ==
    /\ eng.state = "EXECUTING"
    /\ eng.current_cmd_state \in {"DIAGNOSING", "CLOSING"}
    /\ Head(queue).id = IF CurrentEcu(eng) = TBox THEN "UDS" ELSE "MCU"

\* remtoe_diag_set_ack in DIAGNOSING, followed by the request that closes.
DiagAck(m) ==
    LET answered == [eng EXCEPT
                        !.response[eng.current_cmd_no].from = m.ecu,
                        !.current_cmd_state = "CLOSING"]
    IN Effects(eng, CASE m.kind = "pos" -> answered
                      [] m.kind = "neg" -> CommandEnded(SetFinish(eng, "NEGATIVE"))
                      [] m.kind = "pend" -> eng)

\* remtoe_diag_set_ack in CLOSING.  Its return value is dropped, so after a
\* "pending" answer the chain of remote_diag_single_cmd_process still reports
\* an ended command, although remote_diag_cmd_set_finish was not called.
CloseAck(m) ==
    Effects(eng, CASE m.kind = "pos" -> CommandEnded(SetFinish(eng, "OK"))
                   [] m.kind = "neg" -> CommandEnded(SetFinish(eng, "CLOSING_FAILED"))
                   [] m.kind = "pend" -> CommandEnded(eng))

remote_diag_process(id) ==
    /\ Read(id)
    /\ \/ AckExpected /\ eng.current_cmd_state = "DIAGNOSING" /\ DiagAck(Head(queue))
       \/ AckExpected /\ eng.current_cmd_state = "CLOSING" /\ CloseAck(Head(queue))
       \/ ~AckExpected /\ NoEffects

\* Mutated form: a command that is being closed is closed again.
MutTimeoutClosesAgain(e) ==
    IF e.current_cmd_state \in {"DIAGNOSING", "CLOSING"}
    THEN [e EXCEPT !.current_cmd_state = "CLOSING"]
    ELSE CommandEnded(SetFinish(e, "TIMEOUT"))

\* remote_diag_timeout_process: a command that waits for its answer is closed;
\* any other one, whatever its state, is finished with REMOTE_DIAG_CMD_RESULT_TIMEOUT.
AfterTimeout(e) ==
    IF e.current_cmd_state = "DIAGNOSING"
    THEN [e EXCEPT !.current_cmd_state = "CLOSING"]
    ELSE CommandEnded(SetFinish(e, "TIMEOUT"))

remote_diag_timeout_process ==
    /\ Read("TIMEOUT")
    /\ Effects(eng, AfterTimeout(eng))

-----------------------------------------------------------------------------
(* The clients, the timer, the MCU and the ECUs.                           *)

Put(m) == Len(queue) < MaxQueue /\ queue' = Append(queue, m)

\* remote_diag_request
remote_diag_request ==
    \E j \in Job \cup {BadJob} :
        Put([id |-> "REQUEST", job |-> j]) /\ NoEffects

\* The timer expires and posts its message, which does not say what wait the
\* timer was started for.
TimerFires ==
    /\ timer
    /\ Prompt => setq = <<>> /\ \A i \in DOMAIN queue : queue[i].id = "REQUEST"
    /\ Put([id |-> "TIMEOUT"])
    /\ timer' = FALSE
    /\ UNCHANGED <<eng, bus, setq, mcu, cb>>

\* The MCU applies the oldest client setting; uds_proxy calls the callback
\* that is installed when the acknowledgement comes in, if there is one.
McuAck ==
    /\ setq # <<>>
    /\ setq' = Tail(setq) /\ mcu' = Head(setq)
    /\ IF cb THEN Put([id |-> "SET_MCU"]) ELSE UNCHANGED queue
    /\ UNCHANGED <<eng, timer, bus, cb>>

\* An ECU answers a request: positively, negatively, or "pending", after which
\* the request stays open.
EcuAnswers(i) ==
    LET a == bus[i] IN
    \E kind \in Kinds :
        /\ kind = "pend" => a.pend < MaxPend
        /\ bus' = IF kind = "pend" THEN [bus EXCEPT ![i].pend = @ + 1]
                  ELSE RemoveAt(bus, i)
        /\ \/ a.ecu = TBox /\ Put([id |-> "UDS", kind |-> kind, ecu |-> a.ecu])
           \/ /\ a.ecu # TBox /\ a.ecu = mcu /\ cb
              /\ Put([id |-> "MCU", kind |-> kind, ecu |-> a.ecu])
        /\ UNCHANGED <<eng, timer, setq, mcu, cb>>

\* An ECU that never answers, or whose answer finds the MCU set to another.
EcuSilent(i) ==
    /\ bus' = RemoveAt(bus, i)
    /\ UNCHANGED <<eng, timer, queue, setq, mcu, cb>>

-----------------------------------------------------------------------------

ThreadStep ==
    \/ remote_diag_process_start
    \/ SetClientAck
    \/ remote_diag_process("UDS")
    \/ remote_diag_process("MCU")
    \/ remote_diag_timeout_process

EngineNext ==
    \/ ThreadStep
    \/ remote_diag_request
    \/ TimerFires
    \/ McuAck
    \/ \E i \in DOMAIN bus : EcuAnswers(i) \/ EcuSilent(i)

\* The thread reads its pipe whenever something is in it.  A running timer
\* expires: strong fairness, because MaxQueue may disable TimerFires again and
\* again while clients post requests, which the real pipe does not.  Nothing
\* is assumed of the MCU and of the ECUs.
EngineFairness == WF_engVars(ThreadStep) /\ SF_engVars(TimerFires)

EngineSpec == EngineInit /\ [][EngineNext]_engVars /\ EngineFairness

-----------------------------------------------------------------------------

\* The messages of the pipe: each answer under the id of the server it is from.
Msg ==
    [id : {"REQUEST"}, job : Job \cup {BadJob}]
      \cup [id : {"SET_MCU", "TIMEOUT"}]
      \cup [id : {"UDS"}, kind : Kinds, ecu : {TBox}]
      \cup [id : {"MCU"}, kind : Kinds, ecu : Ecu \ {TBox}]

\* remote_diag_state with its arrays.
Structure ==
    [state : {"IDLE", "EXECUTING", "FINISHED"},
     request : Job \cup {BadJob},
     current_cmd_no : Nat \ {0},
     current_cmd_state : CmdStates,
     response : Seq([result : Results, from : Ecu \cup {NoEcu}]),
     response_size : Nat]

\* The command number and the response count stay within the arrays of the job.
WithinArrays(e) ==
    e.request # <<>> =>
        /\ e.current_cmd_no <= Len(e.request)
        /\ e.response_size <= Len(e.request)
        /\ Len(e.response) = Len(e.request)

\* Between two messages an executed job is in one of the waits.
EngineTypeOK ==
    /\ eng \in Structure /\ WithinArrays(eng)
    /\ eng.state = "EXECUTING" =>
          eng.request # <<>> /\ eng.current_cmd_state # "NOT_START"
    /\ queue \in Seq(Msg) /\ Len(queue) <= MaxQueue
    /\ bus \in Seq([ecu : Ecu, pend : Nat])
    /\ setq \in Seq(Ecu \cup {NoEcu})
    /\ mcu \in Ecu \cup {NoEcu}
    /\ timer \in BOOLEAN /\ cb \in BOOLEAN

\* When the client is told that a job is over, every ECU of the job has an
\* entry within remote_diag_response_size, the range PP_get_remote_result and
\* PP_get_remote_clearDTCresult search.
FinishedJobIsComplete ==
    eng.state = "FINISHED" /\ eng.request # <<>> =>
        /\ eng.response_size = Len(eng.request)
        /\ eng.current_cmd_no = Len(eng.request)
        /\ eng.current_cmd_state = "FINISHED"

\* When the MCU and the thread keep up with the timer, an answer is stored
\* under the ECU that gave it, whatever is still on the bus or in the pipe from
\* commands and jobs that were given up.
AnswerFromItsEcu ==
    Prompt /\ eng.request # <<>> =>
        \A i \in DOMAIN eng.response :
            eng.response[i].from \in {NoEcu, eng.request[i]}

\* A command other than the last was ended by a "pending" answer while it was
\* being closed, and not counted: see CloseAck.
Undercounted ==
    eng.response_size <
        eng.current_cmd_no - IF eng.current_cmd_state = "FINISHED" THEN 0 ELSE 1

\* Every job that is started is finished and announced, unless it lost count.
JobEnds == (eng.state = "EXECUTING") ~> (eng.state = "FINISHED" \/ Undercounted)

-----------------------------------------------------------------------------
(* The thread implements the service its clients rely on: the mailbox is   *)
(* what the pipe holds of requests, in their order.                        *)

RequestsAt(q) == {i \in DOMAIN q : q[i].id = "REQUEST"}

\* The place of the request at i among the requests.
Place(q, i) == Cardinality({j \in RequestsAt(q) : j <= i})

\* Where the k-th request is.
RequestAt(q, k) == CHOOSE i \in RequestsAt(q) : Place(q, i) = k

Requests(q) == [k \in 1 .. Cardinality(RequestsAt(q)) |-> q[RequestAt(q, k)].job]

Service == INSTANCE DiagService WITH
    NoJob <- <<NoEcu>>,
    MaxMailbox <- MaxQueue,
    mailbox <- Requests(queue),
    job <- IF eng.state = "EXECUTING" THEN eng.request ELSE <<NoEcu>>

ImplementsService == Service!ServiceSpec
=============================================================================
