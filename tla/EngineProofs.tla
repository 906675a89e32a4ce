---------------------------- MODULE EngineProofs ----------------------------
(***************************************************************************)
(* The remote diagnosis thread, for every list of ECUs and every bound:    *)
(* its types, the completeness of a job that is announced, the service it  *)
(* implements, and whose answers it stores.                                *)
(***************************************************************************)
EXTENDS RemoteDiagEngine, FiniteSetTheorems, FunctionTheorems, SequenceTheorems, TLAPS

-----------------------------------------------------------------------------
(* Sequences.                                                              *)

\* What is sent last is last in the queue of a peer, and the rest was in it
\* before.
LEMMA SentProperties ==
    ASSUME NEW S, NEW s \in Seq(S), NEW x \in S, NEW bound \in Nat \ {0}
    PROVE  /\ Sent(s, x, bound) \in Seq(S)
           /\ Sent(s, x, bound) # <<>>
           /\ Sent(s, x, bound)[Len(Sent(s, x, bound))] = x
           /\ \A i \in 1 .. Len(Sent(s, x, bound)) - 1 :
                \E j \in 1 .. Len(s) : Sent(s, x, bound)[i] = s[j]
  <1> DEFINE t == Append(s, x)
  <1>1. /\ t \in Seq(S) /\ Len(t) = Len(s) + 1 /\ t # <<>>
        /\ t[Len(s) + 1] = x
        /\ \A i \in 1 .. Len(s) : t[i] = s[i]
    BY AppendProperties
  <1>2. CASE Len(t) > bound
    <2>1. /\ Tail(t) \in Seq(S) /\ Len(Tail(t)) = Len(s)
          /\ \A i \in 1 .. Len(Tail(t)) : Tail(t)[i] = t[i + 1]
      BY <1>1, HeadTailProperties
    <2>2. Len(s) >= 1
      BY <1>1, <1>2
    <2>3. Sent(s, x, bound) = Tail(t)
      BY <1>2 DEF Sent
    <2> HIDE DEF t
    <2>4. \A i \in 1 .. Len(s) - 1 : Tail(t)[i] = s[i + 1] /\ i + 1 \in 1 .. Len(s)
      BY <1>1, <2>1
    <2>5. Tail(t)[Len(s)] = x /\ Tail(t) # <<>>
      BY <1>1, <2>1, <2>2, EmptySeq
    <2> QED
      BY <2>1, <2>3, <2>4, <2>5
  <1>3. CASE ~(Len(t) > bound)
    <2>1. Sent(s, x, bound) = t
      BY <1>3 DEF Sent
    <2> HIDE DEF t
    <2> QED
      BY <1>1, <2>1
  <1> QED
    BY <1>2, <1>3

\* A request that was answered is taken off the bus.
LEMMA RemoveAtType ==
    ASSUME NEW S, NEW s \in Seq(S), NEW i \in DOMAIN s
    PROVE  RemoveAt(s, i) \in Seq(S)
  <1>1. Len(s) \in Nat /\ i \in 1 .. Len(s) /\ \A j \in 1 .. Len(s) : s[j] \in S
    BY LenProperties, ElementOfSeq
  <1>2. SubSeq(s, 1, i - 1) \in Seq(S)
    BY <1>1, SubSeqProperties
  <1>3. SubSeq(s, i + 1, Len(s)) \in Seq(S)
    BY <1>1, SubSeqProperties
  <1> QED
    BY <1>2, <1>3, ConcatProperties DEF RemoveAt

\* One entry of a sequence is overwritten, or none if the index is outside.
LEMMA ExceptType ==
    ASSUME NEW S, NEW s \in Seq(S), NEW i, NEW e, i \notin DOMAIN s \/ e \in S
    PROVE  /\ [s EXCEPT ![i] = e] \in Seq(S)
           /\ Len([s EXCEPT ![i] = e]) = Len(s)
           /\ \A j \in 1 .. Len(s) : [s EXCEPT ![i] = e][j] = IF j = i THEN e ELSE s[j]
  <1>1. Len(s) \in Nat /\ DOMAIN s = 1 .. Len(s)
    BY LenProperties
  <1>2. CASE i \in DOMAIN s
    BY <1>1, <1>2, ExceptSeq
  <1>3. CASE i \notin DOMAIN s
    <2>1. [s EXCEPT ![i] = e] = s
      BY <1>1, <1>3
    <2> QED
      BY <1>1, <1>3, <2>1
  <1> QED
    BY <1>2, <1>3

-----------------------------------------------------------------------------
(* The structure.                                                          *)

\* A job is a nonempty sequence of ECUs, and never the value that means no job.
LEMMA JobFacts ==
    /\ Job \cup {BadJob} \subseteq Seq(Ecu)
    /\ \A j \in Job : j \in Seq(Ecu) /\ j # <<>> /\ j # <<NoEcu>> /\ Len(j) \in Nat \ {0}
  <1>1. EcuList \in Seq(Ecu) /\ EcuList # <<>>
    BY EngineAssumption
  <1>2. \A e \in Asked : <<e>> \in Seq(Ecu) /\ <<e>> # <<>> /\ e # NoEcu
    BY EngineAssumption
  <1>3. EcuList # <<NoEcu>>
    <2>1. SUFFICES ASSUME EcuList = <<NoEcu>> PROVE FALSE
      OBVIOUS
    <2>2. 1 \in DOMAIN EcuList /\ EcuList[1] = NoEcu
      BY <2>1
    <2> QED
      BY <2>2, EngineAssumption DEF Ecu
  <1>4. \A j \in Job : j \in Seq(Ecu) /\ j # <<>> /\ j # <<NoEcu>>
    <2> SUFFICES ASSUME NEW j \in Job
                 PROVE  j \in Seq(Ecu) /\ j # <<>> /\ j # <<NoEcu>>
      OBVIOUS
    <2>1. CASE j = EcuList
      BY <1>1, <1>3, <2>1
    <2>2. CASE \E e \in Asked : j = <<e>>
      <3> PICK e \in Asked : j = <<e>>
        BY <2>2
      <3> QED
        BY <1>2
    <2> QED
      BY <2>1, <2>2 DEF Job
  <1>5. BadJob \in Seq(Ecu)
    BY DEF BadJob
  <1>6. \A j \in Job : Len(j) \in Nat \ {0}
    BY <1>4, EmptySeq
  <1> QED
    BY <1>4, <1>5, <1>6

\* What a step on one job leaves alone: the job, where the stored answers are
\* from, and a job that is not executed.
SameJob(e, f) ==
    /\ f.request = e.request
    /\ Len(f.response) = Len(e.response)
    /\ \A i \in DOMAIN e.response : f.response[i].from = e.response[i].from
    /\ \/ f.state = e.state
       \/ e.state = "EXECUTING" /\ f.state = "FINISHED"

\* Starting a command changes its state only.
LEMMA StartCmdFacts ==
    ASSUME NEW e \in Structure, WithinArrays(e)
    PROVE  /\ StartCmd(e) \in Structure /\ WithinArrays(StartCmd(e))
           /\ SameJob(e, StartCmd(e)) /\ StartCmd(e).state = e.state
           /\ StartCmd(e).response = e.response
           /\ StartCmd(e).current_cmd_no = e.current_cmd_no
           /\ StartCmd(e).response_size = e.response_size
           /\ StartCmd(e).current_cmd_state =
                IF CurrentEcu(e) = TBox THEN "DIAGNOSING" ELSE "OPENING"
  BY DEF StartCmd, Structure, WithinArrays, SameJob, CmdStates

\* remote_diag_cmd_set_finish counts at most up to the size of the job, and
\* keeps where the answers are from.
LEMMA SetFinishFacts ==
    ASSUME NEW e \in Structure, WithinArrays(e), NEW r \in Results
    PROVE  /\ SetFinish(e, r) \in Structure /\ WithinArrays(SetFinish(e, r))
           /\ SameJob(e, SetFinish(e, r)) /\ SetFinish(e, r).state = e.state
           /\ SetFinish(e, r).current_cmd_no = e.current_cmd_no
           /\ SetFinish(e, r).current_cmd_state = "FINISHED"
           /\ SetFinish(e, r).response_size \in {e.response_size, e.response_size + 1}
           /\ e.response_size >= Len(e.request) =>
                SetFinish(e, r).response_size = e.response_size
  <1> DEFINE R == [result : Results, from : Ecu \cup {NoEcu}]
             i == e.current_cmd_no
             x == [e.response[i] EXCEPT !.result = r]
             resp == [e.response EXCEPT ![i] = x]
             n == IF e.response_size < Len(e.request) THEN e.response_size + 1
                  ELSE e.response_size
  <1>1. e.response \in Seq(R) /\ i \in Nat \ {0} /\ e.response_size \in Nat
    BY DEF Structure
  <1>2. i \in DOMAIN e.response => x \in R /\ x.from = e.response[i].from
    <2> SUFFICES ASSUME i \in DOMAIN e.response
                 PROVE  x \in R /\ x.from = e.response[i].from
      OBVIOUS
    <2>1. e.response[i] \in R
      <3> HIDE DEF R
      <3> QED BY <1>1, ElementOfSeq, LenProperties
    <2> QED
      BY <2>1
  <1>3. /\ resp \in Seq(R) /\ Len(resp) = Len(e.response)
        /\ \A j \in 1 .. Len(e.response) : resp[j] = IF j = i THEN x ELSE e.response[j]
    <2> HIDE DEF x, i, R
    <2>1. i \in DOMAIN e.response => x \in R
      BY <1>2
    <2>2. e.response \in Seq(R)
      BY <1>1
    <2>3. PICK s : s = e.response
      OBVIOUS
    <2>5. s \in Seq(R) /\ (i \notin DOMAIN s \/ x \in R)
      BY <2>1, <2>2, <2>3
    <2>6. [s EXCEPT ![i] = x] \in Seq(R)
      BY <2>5, ExceptType
    <2>7. Len([s EXCEPT ![i] = x]) = Len(s)
      BY <2>5, ExceptType
    <2>8. \A j \in 1 .. Len(s) : [s EXCEPT ![i] = x][j] = IF j = i THEN x ELSE s[j]
      BY <2>5, ExceptType
    <2> QED BY <2>3, <2>6, <2>7, <2>8
  <1>4. \A j \in DOMAIN e.response : resp[j].from = e.response[j].from
    <2> HIDE DEF x, i, R, resp
    <2> QED BY <1>1, <1>2, <1>3, LenProperties
  <1>5. Len(e.request) \in Nat
    BY JobFacts, LenProperties DEF Structure
  <1>6. SetFinish(e, r) = [e EXCEPT !.response_size = n, !.response = resp,
                                    !.current_cmd_state = "FINISHED"]
    BY DEF SetFinish
  <1>7. n \in Nat /\ n \in {e.response_size, e.response_size + 1}
        /\ (e.response_size <= Len(e.request) => n <= Len(e.request))
        /\ (e.response_size >= Len(e.request) => n = e.response_size)
    BY <1>1, <1>5
  <1> HIDE DEF n, resp, R
  <1>8. SetFinish(e, r) \in Structure
    BY <1>3, <1>6, <1>7 DEF Structure, R, CmdStates
  <1>9. /\ SetFinish(e, r).request = e.request
        /\ SetFinish(e, r).response = resp
        /\ SetFinish(e, r).state = e.state
        /\ SetFinish(e, r).current_cmd_no = e.current_cmd_no
        /\ SetFinish(e, r).current_cmd_state = "FINISHED"
        /\ SetFinish(e, r).response_size = n
    BY <1>6 DEF Structure
  <1>10. WithinArrays(SetFinish(e, r))
    BY <1>3, <1>7, <1>9 DEF WithinArrays
  <1> QED
    BY <1>3, <1>4, <1>7, <1>8, <1>9, <1>10 DEF SameJob

\* After a command comes the next one of the job, or nothing is started.
LEMMA CommandEndedFacts ==
    ASSUME NEW e \in Structure, WithinArrays(e),
           e.state = "EXECUTING" => e.request # <<>>
    PROVE  LET f == CommandEnded(e) IN
           /\ f \in Structure /\ WithinArrays(f) /\ SameJob(e, f)
           /\ f.response = e.response
           /\ f.response_size = e.response_size
           /\ \/ /\ e.current_cmd_no < Len(e.request)
                 /\ f.state = e.state
                 /\ f.current_cmd_no = e.current_cmd_no + 1
                 /\ f.current_cmd_state =
                      IF CurrentEcu(f) = TBox THEN "DIAGNOSING" ELSE "OPENING"
              \/ /\ e.current_cmd_no >= Len(e.request)
                 /\ f.current_cmd_no = e.current_cmd_no
                 /\ f.current_cmd_state = e.current_cmd_state
                 /\ IF ~is_remote_diag_need(e) /\ e.state = "EXECUTING"
                    THEN f.state = "FINISHED" ELSE f = e
  <1>0. Len(e.request) \in Nat /\ e.current_cmd_no \in Nat \ {0}
    BY JobFacts, LenProperties DEF Structure
  <1>1. CASE e.current_cmd_no < Len(e.request)
    <2> DEFINE g == [e EXCEPT !.current_cmd_no = @ + 1, !.current_cmd_state = "NOT_START"]
    <2>1. CommandEnded(e) = StartCmd(g)
      BY <1>1 DEF CommandEnded
    <2>2. /\ g \in Structure /\ WithinArrays(g)
          /\ g.current_cmd_no = e.current_cmd_no + 1 /\ g.state = e.state
          /\ g.request = e.request /\ g.response = e.response
          /\ g.response_size = e.response_size
      <3>1. e.current_cmd_no + 1 \in Nat \ {0} /\ e.current_cmd_no + 1 <= Len(e.request)
        BY <1>0, <1>1
      <3> QED
        BY <3>1 DEF Structure, WithinArrays, CmdStates
    <2> HIDE DEF g
    <2>3. CurrentEcu(StartCmd(g)) = CurrentEcu(g)
      BY <2>2, StartCmdFacts DEF CurrentEcu, SameJob
    <2> QED
      BY <1>0, <1>1, <2>1, <2>2, <2>3, StartCmdFacts DEF SameJob
  <1>2. CASE ~(e.current_cmd_no < Len(e.request))
    <2>1. CommandEnded(e) = FinishProcess(e)
      BY <1>2 DEF CommandEnded
    <2> QED
      BY <1>0, <1>2, <2>1 DEF FinishProcess, Structure, WithinArrays, SameJob
  <1> QED
    BY <1>1, <1>2

\* A job starts with its first command, no answer and no response counted.
LEMMA StartJobFacts ==
    ASSUME NEW j \in Job
    PROVE  LET f == StartJob(j) IN
           /\ f \in Structure /\ WithinArrays(f)
           /\ f.state = "EXECUTING" /\ f.request = j
           /\ f.current_cmd_no = 1 /\ f.response_size = 0
           /\ \A i \in DOMAIN f.response : f.response[i].from = NoEcu
           /\ f.current_cmd_state =
                IF CurrentEcu(f) = TBox THEN "DIAGNOSING" ELSE "OPENING"
  <1> DEFINE x == [result |-> "OK", from |-> NoEcu]
             resp == [i \in DOMAIN j |-> x]
             g == [state |-> "EXECUTING", request |-> j,
                   current_cmd_no |-> 1, current_cmd_state |-> "NOT_START",
                   response |-> resp, response_size |-> 0]
  <1>1. j # <<>> /\ Len(j) \in Nat \ {0} /\ DOMAIN j = 1 .. Len(j)
    BY JobFacts, LenProperties
  <1>2. /\ resp \in Seq([result : Results, from : Ecu \cup {NoEcu}])
        /\ Len(resp) = Len(j)
        /\ \A i \in DOMAIN resp : resp[i].from = NoEcu
    BY <1>1 DEF Results
  <1> HIDE DEF resp
  <1>3. g \in Structure /\ WithinArrays(g)
    BY <1>1, <1>2 DEF Structure, WithinArrays, CmdStates
  <1>4. StartJob(j) = StartCmd(g)
    BY DEF StartJob, resp
  <1>5. CurrentEcu(StartCmd(g)) = CurrentEcu(g)
    BY <1>3, StartCmdFacts DEF CurrentEcu, SameJob
  <1> QED
    BY <1>2, <1>3, <1>4, <1>5, StartCmdFacts DEF SameJob
-----------------------------------------------------------------------------
(* Types, and what a finished job holds.                                   *)

\* The states of a command that waits for a peer.
Waits == {"OPENING", "DIAGNOSING", "CLOSING"}

\* FinishedJobIsComplete of a value of the structure.
Complete(e) ==
    e.state = "FINISHED" /\ e.request # <<>> =>
        /\ e.response_size = Len(e.request)
        /\ e.current_cmd_no = Len(e.request)
        /\ e.current_cmd_state = "FINISHED"

\* The inductive invariant, its part about the structure: only an executed job
\* waits, and a stale timeout finds nothing to start in any other state.
Settled(e) ==
    /\ e \in Structure /\ WithinArrays(e)
    /\ e.state = "IDLE" => e.request = <<>>
    /\ e.state = "EXECUTING" => e.request # <<>> /\ e.current_cmd_state # "NOT_START"
    /\ e.current_cmd_state \in Waits => e.state = "EXECUTING"
    /\ Complete(e)

\* The inductive invariant of the thread.
EngineInv == EngineTypeOK /\ Settled(eng)

\* What the end of the current command leaves: the next command of the job in
\* its first wait, or the same command, FINISHED.
NextOrLast(e, f) ==
    \/ /\ f.state = "EXECUTING"
       /\ f.current_cmd_no = e.current_cmd_no + 1
       /\ f.current_cmd_state = IF CurrentEcu(f) = TBox THEN "DIAGNOSING" ELSE "OPENING"
    \/ /\ f.current_cmd_no = e.current_cmd_no
       /\ f.current_cmd_state = "FINISHED"

\* Finishing a command, with any result, keeps the structure settled: the last
\* command ends the job only when all were counted.
LEMMA EndedFacts ==
    ASSUME NEW e, Settled(e), NEW r \in Results
    PROVE  LET f == CommandEnded(SetFinish(e, r)) IN
           Settled(f) /\ SameJob(e, f) /\ NextOrLast(e, f)
  <1> DEFINE g == SetFinish(e, r)
             f == CommandEnded(g)
  <1> SUFFICES Settled(f) /\ SameJob(e, f) /\ NextOrLast(e, f)
    OBVIOUS
  <1>1. e \in Structure /\ WithinArrays(e)
    BY DEF Settled
  <1>2. /\ g \in Structure /\ WithinArrays(g) /\ SameJob(e, g)
        /\ g.state = e.state /\ g.current_cmd_no = e.current_cmd_no
        /\ g.current_cmd_state = "FINISHED"
        /\ g.response_size \in {e.response_size, e.response_size + 1}
        /\ e.response_size >= Len(e.request) => g.response_size = e.response_size
    BY <1>1, SetFinishFacts
  <1>3. g.request = e.request /\ (e.state = "EXECUTING" => g.request # <<>>)
    BY <1>2 DEF SameJob, Settled
  <1> HIDE DEF g
  <1>4. /\ f \in Structure /\ WithinArrays(f) /\ SameJob(g, f)
        /\ f.response_size = g.response_size
        /\ \/ /\ g.current_cmd_no < Len(g.request)
              /\ f.state = g.state
              /\ f.current_cmd_no = g.current_cmd_no + 1
              /\ f.current_cmd_state =
                   IF CurrentEcu(f) = TBox THEN "DIAGNOSING" ELSE "OPENING"
           \/ /\ g.current_cmd_no >= Len(g.request)
              /\ f.current_cmd_no = g.current_cmd_no
              /\ f.current_cmd_state = g.current_cmd_state
              /\ IF ~is_remote_diag_need(g) /\ g.state = "EXECUTING"
                 THEN f.state = "FINISHED" ELSE f = g
    BY <1>2, <1>3, CommandEndedFacts
  <1> HIDE DEF f
  <1>5. Len(e.request) \in Nat /\ e.current_cmd_no \in Nat \ {0} /\ e.response_size \in Nat
        /\ (e.request = <<>> => Len(e.request) = 0)
    BY <1>1, JobFacts, LenProperties, EmptySeq DEF Structure
  <1>6. SameJob(e, f)
    <2>1. DOMAIN e.response = DOMAIN g.response
      BY <1>1, <1>2, LenProperties DEF Structure, SameJob
    <2> QED
      BY <1>2, <1>4, <2>1 DEF SameJob
  <1>7. CASE g.current_cmd_no < Len(g.request)
    <2>1. e.state = "EXECUTING"
      BY <1>1, <1>2, <1>3, <1>5, <1>7 DEF Settled, Complete, Structure
    <2>2. /\ f.state = "EXECUTING" /\ f.request # <<>>
          /\ f.current_cmd_no = e.current_cmd_no + 1
          /\ f.current_cmd_state =
               IF CurrentEcu(f) = TBox THEN "DIAGNOSING" ELSE "OPENING"
      BY <1>2, <1>3, <1>4, <1>5, <1>7, <2>1 DEF SameJob
    <2>3. Complete(f)
      BY <2>2 DEF Complete
    <2>4. Settled(f)
      BY <1>4, <2>2, <2>3 DEF Settled
    <2> QED
      BY <1>6, <2>2, <2>4 DEF NextOrLast
  <1>8. CASE g.current_cmd_no >= Len(g.request)
    <2>1. f.current_cmd_state = "FINISHED" /\ f.current_cmd_no = e.current_cmd_no
          /\ f.request = e.request
      BY <1>2, <1>3, <1>4, <1>5, <1>8 DEF SameJob
    <2>2. CASE ~is_remote_diag_need(g) /\ g.state = "EXECUTING"
      <3>1. f.state = "FINISHED" /\ e.request # <<>>
        BY <1>2, <1>3, <1>4, <1>5, <1>8, <2>2
      <3>2. f.response_size >= Len(f.request) /\ f.current_cmd_no >= Len(f.request)
        BY <1>2, <1>3, <1>4, <1>5, <1>8, <2>1, <2>2 DEF is_remote_diag_need
      <3>3. f.response_size \in Nat /\ f.current_cmd_no \in Nat
        BY <1>4 DEF Structure
      <3>4. Complete(f)
        BY <1>4, <1>5, <2>1, <3>1, <3>2, <3>3 DEF Complete, WithinArrays
      <3>5. Settled(f)
        BY <1>4, <2>1, <3>1, <3>4 DEF Settled, Waits
      <3> QED
        BY <1>6, <2>1, <3>5 DEF NextOrLast
    <2>3. CASE ~(~is_remote_diag_need(g) /\ g.state = "EXECUTING")
      <3>1. f = g
        BY <1>2, <1>3, <1>4, <1>5, <1>8, <2>3
      <3>2. f.state = e.state
        BY <1>2, <3>1
      <3>3. Complete(f)
        BY <1>2, <1>3, <1>5, <3>1 DEF Settled, Complete
      <3>4. Settled(f)
        BY <1>4, <2>1, <3>2, <3>3 DEF Settled, Waits
      <3> QED
        BY <1>6, <2>1, <3>4 DEF NextOrLast
    <2> QED
      BY <2>2, <2>3
  <1> QED
    BY <1>2, <1>3, <1>5, <1>7, <1>8

\* So does the end of a command by a "pending" answer, which counts nothing.
LEMMA PendingFacts ==
    ASSUME NEW e, Settled(e), e.state = "EXECUTING", e.current_cmd_state = "CLOSING"
    PROVE  LET f == CommandEnded(e) IN
           Settled(f) /\ SameJob(e, f) /\ (f = e \/ NextOrLast(e, f))
  <1> DEFINE f == CommandEnded(e)
  <1> SUFFICES Settled(f) /\ SameJob(e, f) /\ (f = e \/ NextOrLast(e, f))
    OBVIOUS
  <1>1. e \in Structure /\ WithinArrays(e) /\ e.request # <<>>
    BY DEF Settled
  <1>2. Len(e.request) \in Nat \ {0} /\ e.current_cmd_no \in Nat \ {0}
    BY <1>1, JobFacts, LenProperties, EmptySeq DEF Structure
  <1>3. /\ f \in Structure /\ WithinArrays(f) /\ SameJob(e, f)
        /\ \/ /\ f.state = e.state
              /\ f.current_cmd_no = e.current_cmd_no + 1
              /\ f.current_cmd_state =
                   IF CurrentEcu(f) = TBox THEN "DIAGNOSING" ELSE "OPENING"
           \/ IF ~is_remote_diag_need(e) /\ e.state = "EXECUTING"
              THEN f.state = "FINISHED" ELSE f = e
    BY <1>1, CommandEndedFacts
  <1> HIDE DEF f
  <1>4. is_remote_diag_need(e)
    BY <1>2 DEF is_remote_diag_need
  <1>5. f = e \/ NextOrLast(e, f)
    BY <1>3, <1>4 DEF NextOrLast
  <1>6. CASE f = e
    BY <1>3, <1>5, <1>6
  <1>7. CASE f # e
    <2>1. /\ f.state = "EXECUTING" /\ f.request # <<>>
          /\ f.current_cmd_state \in {"DIAGNOSING", "OPENING"}
      BY <1>1, <1>3, <1>4, <1>7 DEF SameJob
    <2>2. Settled(f)
      BY <1>3, <2>1 DEF Settled, Complete
    <2> QED
      BY <1>3, <1>5, <2>2
  <1> QED
    BY <1>6, <1>7

\* A step from one wait of a command into the next one.
GoesOn(e, f, cs) ==
    /\ f.state = e.state /\ f.request = e.request
    /\ f.current_cmd_no = e.current_cmd_no
    /\ f.current_cmd_state = cs

\* Going on to another wait keeps the structure settled.
LEMMA GoesOnFacts ==
    ASSUME NEW e, Settled(e), e.state = "EXECUTING", NEW cs \in Waits
    PROVE  LET f == [e EXCEPT !.current_cmd_state = cs] IN
           Settled(f) /\ SameJob(e, f) /\ GoesOn(e, f, cs)
  BY DEF Settled, Structure, WithinArrays, Complete, SameJob, GoesOn, Waits, CmdStates

\* The answer of ecu is stored for the current command, which is then closed.
Stores(e, f, ecu) ==
    /\ GoesOn(e, f, "CLOSING")
    /\ Len(f.response) = Len(e.response)
    /\ \A j \in DOMAIN e.response :
         f.response[j].from = IF j = e.current_cmd_no THEN ecu ELSE e.response[j].from

\* Storing an answer keeps the structure settled and touches one entry.
LEMMA AnsweredFacts ==
    ASSUME NEW e, Settled(e), e.state = "EXECUTING", NEW ecu \in Ecu
    PROVE  LET f == [e EXCEPT !.response[e.current_cmd_no].from = ecu,
                              !.current_cmd_state = "CLOSING"]
           IN  Settled(f) /\ Stores(e, f, ecu)
  <1> DEFINE R == [result : Results, from : Ecu \cup {NoEcu}]
             i == e.current_cmd_no
             x == [e.response[i] EXCEPT !.from = ecu]
             resp == [e.response EXCEPT ![i] = x]
             f == [e EXCEPT !.response[e.current_cmd_no].from = ecu,
                            !.current_cmd_state = "CLOSING"]
  <1> SUFFICES Settled(f) /\ Stores(e, f, ecu)
    OBVIOUS
  <1>1. e \in Structure /\ e.response \in Seq(R) /\ i \in Nat \ {0}
    BY DEF Structure, Settled
  <1>2. i \in DOMAIN e.response => x \in R /\ x.from = ecu
    <2> SUFFICES ASSUME i \in DOMAIN e.response
                 PROVE  x \in R /\ x.from = ecu
      OBVIOUS
    <2>1. e.response[i] \in R
      <3> HIDE DEF R
      <3> QED BY <1>1, ElementOfSeq, LenProperties
    <2> QED
      BY <2>1
  <1>3. /\ resp \in Seq(R) /\ Len(resp) = Len(e.response)
        /\ \A j \in 1 .. Len(e.response) : resp[j] = IF j = i THEN x ELSE e.response[j]
    <2> HIDE DEF x, i, R
    <2>1. PICK s : s = e.response
      OBVIOUS
    <2>2. s \in Seq(R) /\ (i \notin DOMAIN s \/ x \in R)
      BY <1>1, <1>2, <2>1
    <2>3. [s EXCEPT ![i] = x] \in Seq(R)
      BY <2>2, ExceptType
    <2>4. Len([s EXCEPT ![i] = x]) = Len(s)
      BY <2>2, ExceptType
    <2>5. \A j \in 1 .. Len(s) : [s EXCEPT ![i] = x][j] = IF j = i THEN x ELSE s[j]
      BY <2>2, ExceptType
    <2> QED BY <2>1, <2>3, <2>4, <2>5
  <1>4. \A j \in DOMAIN e.response :
            resp[j].from = IF j = i THEN ecu ELSE e.response[j].from
    <2> HIDE DEF x, i, R, resp
    <2> QED BY <1>1, <1>2, <1>3, LenProperties
  <1>5. f = [e EXCEPT !.response = resp, !.current_cmd_state = "CLOSING"]
    OBVIOUS
  <1> HIDE DEF resp, R, f
  <1>6. f \in Structure
    BY <1>1, <1>3, <1>5 DEF Structure, R, CmdStates
  <1>7. /\ f.response = resp /\ GoesOn(e, f, "CLOSING")
        /\ f.response_size = e.response_size
    BY <1>1, <1>5 DEF Structure, GoesOn
  <1>8. Settled(f)
    BY <1>3, <1>6, <1>7 DEF Settled, GoesOn, WithinArrays, Complete
  <1> QED
    BY <1>3, <1>4, <1>7, <1>8 DEF Stores

\* A timeout may be read in any state, also when its wait is long over.
LEMMA TimeoutFacts ==
    ASSUME NEW e, Settled(e)
    PROVE  LET f == AfterTimeout(e) IN
           /\ Settled(f) /\ SameJob(e, f)
           /\ IF e.current_cmd_state = "DIAGNOSING" THEN GoesOn(e, f, "CLOSING")
              ELSE NextOrLast(e, f)
  <1> DEFINE f == AfterTimeout(e)
  <1>1. CASE e.current_cmd_state = "DIAGNOSING"
    <2>1. e.state = "EXECUTING"
      BY <1>1 DEF Settled, Waits
    <2>2. AfterTimeout(e) = [e EXCEPT !.current_cmd_state = "CLOSING"]
      BY <1>1 DEF AfterTimeout
    <2> QED
      BY <1>1, <2>1, <2>2, GoesOnFacts DEF Waits
  <1>2. CASE e.current_cmd_state # "DIAGNOSING"
    <2>1. AfterTimeout(e) = CommandEnded(SetFinish(e, "TIMEOUT")) /\ "TIMEOUT" \in Results
      BY <1>2 DEF AfterTimeout, Results
    <2> QED
      BY <1>2, <2>1, EndedFacts
  <1> QED
    BY <1>1, <1>2

\* A command in a wait has an ECU.
LEMMA CurrentEcuType ==
    ASSUME NEW e, Settled(e), e.current_cmd_state \in Waits
    PROVE  CurrentEcu(e) \in Ecu
  <1>1. e \in Structure /\ WithinArrays(e) /\ e.request # <<>>
    BY DEF Settled
  <1>2. e.request \in Seq(Ecu) /\ e.current_cmd_no \in 1 .. Len(e.request)
    BY <1>1, JobFacts, LenProperties DEF Structure, WithinArrays
  <1> QED
    BY <1>2, ElementOfSeq DEF CurrentEcu

\* Reading takes a message off the pipe.
LEMMA ReadFacts ==
    ASSUME EngineTypeOK, NEW id, Read(id)
    PROVE  /\ queue # <<>> /\ Head(queue) \in Msg /\ Head(queue).id = id
           /\ queue' = Tail(queue)
           /\ queue' \in Seq(Msg) /\ Len(queue') <= MaxQueue
  <1>1. queue \in Seq(Msg) /\ queue # <<>> /\ Len(queue) <= MaxQueue /\ MaxQueue \in Nat
    BY EngineAssumption DEF EngineTypeOK, Read
  <1>2. Head(queue) \in Msg /\ Tail(queue) \in Seq(Msg) /\ Len(Tail(queue)) = Len(queue) - 1
    BY <1>1, HeadTailProperties
  <1> QED
    BY <1>1, <1>2, LenProperties DEF Read

\* Posting keeps the pipe within its bound.
LEMMA PutFacts ==
    ASSUME EngineTypeOK, NEW m \in Msg, Put(m)
    PROVE  queue' \in Seq(Msg) /\ Len(queue') <= MaxQueue
  <1>1. queue \in Seq(Msg) /\ Len(queue) < MaxQueue /\ MaxQueue \in Nat /\ Len(queue) \in Nat
    BY EngineAssumption, LenProperties DEF EngineTypeOK, Put
  <1>2. queue' = Append(queue, m) /\ Append(queue, m) \in Seq(Msg)
        /\ Len(Append(queue, m)) = Len(queue) + 1
    BY <1>1, AppendProperties DEF Put
  <1> QED
    BY <1>1, <1>2

\* What each kind of message carries.
LEMMA MsgFacts ==
    ASSUME NEW m \in Msg
    PROVE  /\ m.id \in {"REQUEST", "SET_MCU", "TIMEOUT", "UDS", "MCU"}
           /\ m.id = "REQUEST" => m.job \in Job \cup {BadJob}
           /\ m.id = "UDS" => m.kind \in Kinds /\ m.ecu = TBox
           /\ m.id = "MCU" => m.kind \in Kinds /\ m.ecu \in Ecu \ {TBox}
  <1>1. CASE m \in [id : {"REQUEST"}, job : Job \cup {BadJob}]
    BY <1>1
  <1>2. CASE m \in [id : {"SET_MCU", "TIMEOUT"}]
    BY <1>2
  <1>3. CASE m \in [id : {"UDS"}, kind : Kinds, ecu : {TBox}]
    BY <1>3
  <1>4. CASE m \in [id : {"MCU"}, kind : Kinds, ecu : Ecu \ {TBox}]
    BY <1>4
  <1> QED
    BY <1>1, <1>2, <1>3, <1>4 DEF Msg

\* The ways an expected answer changes the structure.
LEMMA AckFacts ==
    ASSUME EngineInv, NEW id \in {"UDS", "MCU"}, remote_diag_process(id), AckExpected
    PROVE  \E f : /\ Settled(f) /\ Effects(eng, f)
                  /\ \/ f = eng
                     \/ SameJob(eng, f) /\ NextOrLast(eng, f)
                     \/ Stores(eng, f, Head(queue).ecu)
  <1> DEFINE m == Head(queue)
  <1>1. Settled(eng) /\ eng.state = "EXECUTING"
        /\ eng.current_cmd_state \in {"DIAGNOSING", "CLOSING"}
    BY DEF EngineInv, AckExpected
  <1>2. m \in Msg /\ m.id = id
    BY ReadFacts DEF EngineInv, remote_diag_process
  <1>3. m.kind \in {"pos", "neg", "pend"}
    BY <1>2, MsgFacts DEF Kinds
  <1>4. m.ecu \in Ecu
    <2>1. CurrentEcu(eng) \in Ecu
      BY <1>1, CurrentEcuType DEF Waits
    <2>2. m.id = "UDS" => CurrentEcu(eng) = TBox
      BY DEF AckExpected
    <2> QED
      BY <1>2, <2>1, <2>2, MsgFacts
  <1> HIDE DEF m
  <1>5. CASE eng.current_cmd_state = "DIAGNOSING"
    <2>1. DiagAck(m)
      BY <1>5 DEF remote_diag_process, m
    <2>2. CASE m.kind = "pos"
      <3>1. Effects(eng, [eng EXCEPT !.response[eng.current_cmd_no].from = m.ecu,
                                     !.current_cmd_state = "CLOSING"])
        BY <2>1, <2>2 DEF DiagAck
      <3> QED
        BY <1>1, <1>4, <3>1, AnsweredFacts DEF m
    <2>3. CASE m.kind = "neg"
      <3>1. Effects(eng, CommandEnded(SetFinish(eng, "NEGATIVE"))) /\ "NEGATIVE" \in Results
        BY <2>1, <2>3 DEF DiagAck, Results
      <3> QED
        BY <1>1, <3>1, EndedFacts
    <2>4. CASE m.kind = "pend"
      <3>1. Effects(eng, eng)
        BY <2>1, <2>4 DEF DiagAck
      <3> QED
        BY <1>1, <3>1
    <2> QED
      BY <1>3, <2>2, <2>3, <2>4
  <1>6. CASE eng.current_cmd_state = "CLOSING"
    <2>1. CloseAck(m)
      BY <1>6 DEF remote_diag_process, m
    <2>2. CASE m.kind = "pos"
      <3>1. Effects(eng, CommandEnded(SetFinish(eng, "OK"))) /\ "OK" \in Results
        BY <2>1, <2>2 DEF CloseAck, Results
      <3> QED
        BY <1>1, <3>1, EndedFacts
    <2>3. CASE m.kind = "neg"
      <3>1. Effects(eng, CommandEnded(SetFinish(eng, "CLOSING_FAILED")))
            /\ "CLOSING_FAILED" \in Results
        BY <2>1, <2>3 DEF CloseAck, Results
      <3> QED
        BY <1>1, <3>1, EndedFacts
    <2>4. CASE m.kind = "pend"
      <3>1. Effects(eng, CommandEnded(eng))
        BY <2>1, <2>4 DEF CloseAck
      <3> QED
        BY <1>1, <1>6, <3>1, PendingFacts
    <2> QED
      BY <1>3, <2>2, <2>3, <2>4
  <1> QED
    BY <1>1, <1>5, <1>6

\* A step of the thread that leaves the structure settled keeps the invariant.
LEMMA EffectsType ==
    ASSUME EngineInv, NEW f, Settled(f), Effects(eng, f),
           queue' \in Seq(Msg), Len(queue') <= MaxQueue
    PROVE  EngineInv'
  <1>1. eng' = f /\ mcu' = mcu /\ timer' \in BOOLEAN
    BY DEF Effects
  <1>2. cb' \in BOOLEAN
    BY DEF Effects, EngineInv, EngineTypeOK
  <1>3. f.current_cmd_state \in Waits => CurrentEcu(f) \in Ecu
    BY CurrentEcuType
  <1>4. bus' \in Seq([ecu : Ecu, pend : Nat])
    <2> DEFINE B == [ecu : Ecu, pend : Nat]
    <2>1. bus \in Seq(B) /\ MaxBus \in Nat \ {0}
      BY EngineAssumption DEF EngineInv, EngineTypeOK
    <2>2. CASE Enters(eng, f, "DIAGNOSING") \/ Enters(eng, f, "CLOSING")
      <3>1. [ecu |-> CurrentEcu(f), pend |-> 0] \in B
        BY <1>3, <2>2 DEF Enters, Waits
      <3>2. bus' = Sent(bus, [ecu |-> CurrentEcu(f), pend |-> 0], MaxBus)
        BY <2>2 DEF Effects
      <3> HIDE DEF B
      <3>3. bus' \in Seq(B)
        BY <2>1, <3>1, <3>2, SentProperties
      <3> QED
        BY <3>3 DEF B
    <2>3. CASE ~(Enters(eng, f, "DIAGNOSING") \/ Enters(eng, f, "CLOSING"))
      BY <2>1, <2>3 DEF Effects
    <2> QED
      BY <2>2, <2>3
  <1>5. setq' \in Seq(Ecu \cup {NoEcu})
    <2>1. setq \in Seq(Ecu \cup {NoEcu}) /\ MaxSettings \in Nat \ {0}
      BY EngineAssumption DEF EngineInv, EngineTypeOK
    <2>2. CASE Enters(eng, f, "OPENING")
      BY <1>3, <2>1, <2>2, SentProperties DEF Enters, Waits, Effects
    <2>3. CASE ~Enters(eng, f, "OPENING") /\ Informs(eng, f)
      BY <2>1, <2>3, SentProperties DEF Effects
    <2>4. CASE ~Enters(eng, f, "OPENING") /\ ~Informs(eng, f)
      BY <2>1, <2>4 DEF Effects
    <2> QED
      BY <2>2, <2>3, <2>4
  <1> QED
    BY <1>1, <1>2, <1>4, <1>5 DEF EngineInv, EngineTypeOK, Settled, Complete, Waits

\* The invariant holds when the thread starts.
LEMMA EngineInvInit == EngineInit => EngineInv
  <1> SUFFICES ASSUME EngineInit PROVE EngineInv
    OBVIOUS
  <1>1. \A S : <<>> \in Seq(S) /\ Len(<<>>) = 0
    BY EmptySeq
  <1>2. eng \in Structure
    BY <1>1 DEF EngineInit, Structure, CmdStates, BadJob
  <1>3. Settled(eng)
    BY <1>2 DEF EngineInit, WithinArrays, Settled, Complete, Waits
  <1>4. queue \in Seq(Msg) /\ Len(queue) <= MaxQueue
    BY <1>1, EngineAssumption DEF EngineInit
  <1>5. bus \in Seq([ecu : Ecu, pend : Nat]) /\ setq \in Seq(Ecu \cup {NoEcu})
    BY <1>1 DEF EngineInit
  <1>6. EngineTypeOK
    BY <1>2, <1>3, <1>4, <1>5 DEF EngineInit, EngineTypeOK, Settled
  <1> QED
    BY <1>3, <1>6 DEF EngineInv

\* A message that is only logged keeps the invariant.
LEMMA NoEffectsType ==
    ASSUME EngineInv, NoEffects, queue' \in Seq(Msg), Len(queue') <= MaxQueue
    PROVE  EngineInv'
  BY DEF EngineInv, EngineTypeOK, NoEffects, Settled, Complete, Waits

\* Each message handler keeps the invariant.
LEMMA EngineInvThread == EngineInv /\ ThreadStep => EngineInv'
  <1> SUFFICES ASSUME EngineInv, ThreadStep PROVE EngineInv'
    OBVIOUS
  <1>0. EngineTypeOK /\ Settled(eng)
    BY DEF EngineInv
  <1>1. CASE remote_diag_process_start
    <2>1. queue' \in Seq(Msg) /\ Len(queue') <= MaxQueue /\ Head(queue) \in Msg
          /\ Head(queue).id = "REQUEST"
      BY <1>0, <1>1, ReadFacts DEF remote_diag_process_start
    <2>2. Head(queue).job \in Job \cup {BadJob}
      BY <2>1, MsgFacts
    <2>3. CASE NoEffects
      BY <2>1, <2>3, NoEffectsType
    <2>4. CASE /\ eng.state # "EXECUTING"
               /\ eng' = [eng EXCEPT !.request = <<>>]
               /\ UNCHANGED <<timer, bus, setq, mcu, cb>>
      <3>1. Settled(eng')
        BY <1>0, <2>4 DEF Settled, Structure, WithinArrays, Complete, BadJob
      <3> QED
        BY <2>1, <2>4, <3>1
        DEF EngineInv, EngineTypeOK, Settled, Complete, Waits
    <2>5. CASE Head(queue).job # BadJob /\ Effects(eng, StartJob(Head(queue).job))
      <3> DEFINE f == StartJob(Head(queue).job)
      <3>1. /\ f \in Structure /\ WithinArrays(f) /\ f.state = "EXECUTING"
            /\ f.request # <<>>
            /\ f.current_cmd_state \in {"DIAGNOSING", "OPENING"}
        BY <2>2, <2>5, StartJobFacts, JobFacts
      <3> HIDE DEF f
      <3>2. Settled(f)
        BY <3>1 DEF Settled, Complete
      <3> QED
        BY <2>1, <2>5, <3>2, EffectsType DEF f
    <2> QED
      BY <1>1, <2>3, <2>4, <2>5 DEF remote_diag_process_start
  <1>2. CASE SetClientAck
    <2>1. queue' \in Seq(Msg) /\ Len(queue') <= MaxQueue
      BY <1>0, <1>2, ReadFacts DEF SetClientAck
    <2>2. CASE eng.state = "EXECUTING" /\ eng.current_cmd_state = "OPENING"
      <3>1. Effects(eng, [eng EXCEPT !.current_cmd_state = "DIAGNOSING"])
        BY <1>2, <2>2 DEF SetClientAck
      <3>2. Settled([eng EXCEPT !.current_cmd_state = "DIAGNOSING"])
        BY <1>0, <2>2, GoesOnFacts DEF Waits
      <3> QED
        BY <2>1, <3>1, <3>2, EffectsType
    <2>3. CASE ~(eng.state = "EXECUTING" /\ eng.current_cmd_state = "OPENING")
      BY <1>2, <2>1, <2>3, NoEffectsType DEF SetClientAck
    <2> QED
      BY <2>2, <2>3
  <1>3. ASSUME NEW id \in {"UDS", "MCU"}, remote_diag_process(id) PROVE EngineInv'
    <2>1. queue' \in Seq(Msg) /\ Len(queue') <= MaxQueue
      BY <1>0, <1>3, ReadFacts DEF remote_diag_process
    <2>2. CASE AckExpected
      BY <1>3, <2>1, <2>2, AckFacts, EffectsType
    <2>3. CASE ~AckExpected
      BY <1>3, <2>1, <2>3, NoEffectsType DEF remote_diag_process
    <2> QED
      BY <2>2, <2>3
  <1>4. CASE remote_diag_timeout_process
    <2>1. queue' \in Seq(Msg) /\ Len(queue') <= MaxQueue /\ Effects(eng, AfterTimeout(eng))
      BY <1>0, <1>4, ReadFacts DEF remote_diag_timeout_process
    <2>2. Settled(AfterTimeout(eng))
      BY <1>0, TimeoutFacts
    <2> QED
      BY <2>1, <2>2, EffectsType
  <1> QED
    BY <1>1, <1>2, <1>3, <1>4 DEF ThreadStep

\* So do the clients, the timer, the MCU and the ECUs.
LEMMA EngineInvPeers ==
    ASSUME EngineInv,
           \/ remote_diag_request \/ TimerFires \/ McuAck
           \/ \E i \in DOMAIN bus : EcuAnswers(i) \/ EcuSilent(i)
    PROVE  EngineInv'
  <1>0. EngineTypeOK
    BY DEF EngineInv
  <1>1. CASE remote_diag_request
    <2>1. PICK j \in Job \cup {BadJob} : Put([id |-> "REQUEST", job |-> j]) /\ NoEffects
      BY <1>1 DEF remote_diag_request
    <2>2. [id |-> "REQUEST", job |-> j] \in Msg
      BY DEF Msg
    <2> QED
      BY <1>0, <2>1, <2>2, PutFacts, NoEffectsType
  <1>2. CASE TimerFires
    <2>1. [id |-> "TIMEOUT"] \in Msg
      BY DEF Msg
    <2>2. queue' \in Seq(Msg) /\ Len(queue') <= MaxQueue
      BY <1>0, <1>2, <2>1, PutFacts DEF TimerFires
    <2> QED
      BY <1>2, <2>2 DEF TimerFires, EngineInv, EngineTypeOK, Settled, Complete, Waits
  <1>3. CASE McuAck
    <2>1. [id |-> "SET_MCU"] \in Msg
      BY DEF Msg
    <2>2. queue' \in Seq(Msg) /\ Len(queue') <= MaxQueue
      BY <1>0, <1>3, <2>1, PutFacts DEF McuAck, EngineTypeOK
    <2>3. setq' \in Seq(Ecu \cup {NoEcu}) /\ mcu' \in Ecu \cup {NoEcu}
      BY <1>0, <1>3, HeadTailProperties DEF McuAck, EngineTypeOK
    <2> QED
      BY <1>3, <2>2, <2>3 DEF McuAck, EngineInv, EngineTypeOK, Settled, Complete, Waits
  <1>4. ASSUME NEW i \in DOMAIN bus, EcuAnswers(i) PROVE EngineInv'
    <2> DEFINE B == [ecu : Ecu, pend : Nat]
    <2>1. bus \in Seq(B)
      BY <1>0 DEF EngineTypeOK
    <2>2. bus[i] \in B
      <3> HIDE DEF B
      <3> QED BY <2>1, ElementOfSeq, LenProperties
    <2>3. PICK kind \in Kinds :
             /\ bus' = IF kind = "pend" THEN [bus EXCEPT ![i].pend = @ + 1]
                       ELSE RemoveAt(bus, i)
             /\ \/ bus[i].ecu = TBox
                   /\ Put([id |-> "UDS", kind |-> kind, ecu |-> bus[i].ecu])
                \/ bus[i].ecu # TBox
                   /\ Put([id |-> "MCU", kind |-> kind, ecu |-> bus[i].ecu])
             /\ UNCHANGED <<eng, timer, setq, mcu, cb>>
      BY <1>4 DEF EcuAnswers
    <2>4. queue' \in Seq(Msg) /\ Len(queue') <= MaxQueue
      <3>1. CASE bus[i].ecu = TBox
        <4>1. [id |-> "UDS", kind |-> kind, ecu |-> bus[i].ecu] \in Msg
          BY <3>1 DEF Msg
        <4> QED
          BY <1>0, <2>3, <3>1, <4>1, PutFacts
      <3>2. CASE bus[i].ecu # TBox
        <4>1. [id |-> "MCU", kind |-> kind, ecu |-> bus[i].ecu] \in Msg
          BY <2>2, <3>2 DEF Msg
        <4> QED
          BY <1>0, <2>3, <3>2, <4>1, PutFacts
      <3> QED
        BY <3>1, <3>2
    <2>5. bus' \in Seq(B)
      <3>1. CASE kind = "pend"
        <4> DEFINE x == [bus[i] EXCEPT !.pend = @ + 1]
        <4>1. x \in B
          BY <2>2
        <4>2. bus' = [bus EXCEPT ![i] = x]
          BY <2>3, <3>1
        <4> HIDE DEF x, B
        <4> QED
          BY <2>1, <4>1, <4>2, ExceptSeq, LenProperties
      <3>2. CASE kind # "pend"
        <4> HIDE DEF B
        <4> QED
          BY <2>1, <2>3, <3>2, RemoveAtType
      <3> QED
        BY <3>1, <3>2
    <2> QED
      BY <2>3, <2>4, <2>5 DEF EngineInv, EngineTypeOK, Settled, Complete, Waits
  <1>5. ASSUME NEW i \in DOMAIN bus, EcuSilent(i) PROVE EngineInv'
    <2>1. bus' \in Seq([ecu : Ecu, pend : Nat])
      BY <1>0, <1>5, RemoveAtType DEF EcuSilent, EngineTypeOK
    <2> QED
      BY <1>5, <2>1 DEF EcuSilent, EngineInv, EngineTypeOK, Settled, Complete, Waits
  <1> QED
    BY <1>1, <1>2, <1>3, <1>4, <1>5

\* For every list of ECUs the thread's structure is settled between two messages:
\* only an executed job waits, and one that was announced is complete.
THEOREM EngineInvAlways == EngineSpec => []EngineInv
  <1>1. EngineInit => EngineInv
    BY EngineInvInit
  <1>2. EngineInv /\ [EngineNext]_engVars => EngineInv'
    <2>1. CASE UNCHANGED engVars
      BY <2>1 DEF engVars, EngineInv, EngineTypeOK, Settled, Complete, Waits
    <2> QED
      BY <2>1, EngineInvThread, EngineInvPeers DEF EngineNext
  <1> QED
    BY <1>1, <1>2, PTL DEF EngineSpec

\* For every list of ECUs, the structure, the pipe, the bus and the settings
\* keep their types, the command number and the response count of
\* remote_diag_state never leave its arrays, and an executed job is never
\* without a wait.
THEOREM EngineTypes == EngineSpec => []EngineTypeOK
  <1>1. EngineInv => EngineTypeOK
    BY DEF EngineInv
  <1> QED
    BY <1>1, EngineInvAlways, PTL

\* The client is told of the end of a job only when every ECU of the job has its
\* entry, however stale the timeouts and however odd the answers were.
THEOREM FinishedIsComplete == EngineSpec => []FinishedJobIsComplete
  <1>1. EngineInv => FinishedJobIsComplete
    BY DEF EngineInv, Settled, Complete, FinishedJobIsComplete
  <1> QED
    BY <1>1, EngineInvAlways, PTL
-----------------------------------------------------------------------------
(* What the pipe holds of requests.                                        *)

\* The requests in the pipe are finitely many.
LEMMA RequestsAtFinite ==
    ASSUME NEW q \in Seq(Msg)
    PROVE  /\ RequestsAt(q) \subseteq 1 .. Len(q)
           /\ IsFiniteSet(RequestsAt(q)) /\ Cardinality(RequestsAt(q)) \in Nat
           /\ Cardinality(RequestsAt(q)) <= Len(q)
           /\ \A T \in SUBSET RequestsAt(q) :
                /\ IsFiniteSet(T) /\ Cardinality(T) \in Nat
                /\ Cardinality(T) <= Cardinality(RequestsAt(q))
  <1>1. RequestsAt(q) \subseteq 1 .. Len(q) /\ Len(q) \in Nat
    BY LenProperties DEF RequestsAt
  <1>2. IsFiniteSet(1 .. Len(q)) /\ Cardinality(1 .. Len(q)) = Len(q)
    <2>1. \A n \in Nat : IsFiniteSet(1 .. n) /\ Cardinality(1 .. n) = n
      BY FS_Interval
    <2> QED
      BY <1>1, <2>1
  <1>3. IsFiniteSet(RequestsAt(q)) /\ Cardinality(RequestsAt(q)) <= Len(q)
    BY <1>1, <1>2, FS_Subset
  <1>4. \A T \in SUBSET RequestsAt(q) :
           IsFiniteSet(T) /\ Cardinality(T) <= Cardinality(RequestsAt(q))
    BY <1>3, FS_Subset
  <1> QED
    BY <1>1, <1>3, <1>4, FS_CardinalityType

\* The places number the requests from 1 on.
LEMMA PlaceBijection ==
    ASSUME NEW q \in Seq(Msg)
    PROVE  /\ \A i \in RequestsAt(q) :
                Place(q, i) \in 1 .. Cardinality(RequestsAt(q))
           /\ \A i, j \in RequestsAt(q) : Place(q, i) = Place(q, j) => i = j
           /\ \A k \in 1 .. Cardinality(RequestsAt(q)) :
                \E i \in RequestsAt(q) : Place(q, i) = k
  <1> DEFINE R == RequestsAt(q)
             Upto(i) == {j \in R : j <= i}
             P == [i \in R |-> Place(q, i)]
             N == 1 .. Cardinality(R)
  <1>1. /\ R \subseteq 1 .. Len(q) /\ IsFiniteSet(R) /\ Cardinality(R) \in Nat
        /\ \A i : IsFiniteSet(Upto(i)) /\ Cardinality(Upto(i)) \in Nat
                  /\ Cardinality(Upto(i)) <= Cardinality(R)
    <2>1. \A i : Upto(i) \in SUBSET R
      OBVIOUS
    <2> HIDE DEF Upto
    <2> QED
      BY <2>1, RequestsAtFinite
  <1>2. \A i \in R : i \in Int /\ i \in Upto(i)
    BY <1>1
  <1>3. \A i \in R : Place(q, i) = Cardinality(Upto(i))
    BY DEF Place
  <1>4. \A i \in R : Place(q, i) \in N
    <2> SUFFICES ASSUME NEW i \in R PROVE Place(q, i) \in N
      OBVIOUS
    <2>1. Upto(i) # {} /\ IsFiniteSet(Upto(i))
      BY <1>1, <1>2
    <2>2. Cardinality(Upto(i)) # 0
      BY <2>1, FS_EmptySet
    <2>3. Cardinality(Upto(i)) \in Nat /\ Cardinality(Upto(i)) <= Cardinality(R)
      BY <1>1
    <2> HIDE DEF Upto, R
    <2> QED
      BY <1>1, <1>3, <2>2, <2>3
  <1>5. \A i, j \in R : Place(q, i) = Place(q, j) => i = j
    <2>1. SUFFICES ASSUME NEW i \in R, NEW j \in R, i < j,
                          Cardinality(Upto(i)) = Cardinality(Upto(j))
                   PROVE  FALSE
      <3>1. \A i, j \in R : i < j \/ j < i \/ i = j
        BY <1>2
      <3> HIDE DEF Upto, R
      <3> QED BY <1>3, <3>1
    <2>2. Upto(i) \subseteq Upto(j) /\ j \notin Upto(i)
      BY <1>2, <2>1
    <2>3. IsFiniteSet(Upto(j))
      BY <1>1
    <2>4. Upto(i) = Upto(j)
      <3> HIDE DEF Upto
      <3> QED BY <2>1, <2>2, <2>3, FS_Subset
    <2> QED
      BY <1>2, <2>2, <2>4
  <1>6. P \in Injection(R, N)
    <2>1. P \in [R -> N]
      BY <1>4
    <2> QED
      BY <1>5, <2>1, Fun_IsInj
  <1>7. IsFiniteSet(N) /\ Cardinality(N) = Cardinality(R)
    BY <1>1, FS_Interval
  <1>8. P \in Surjection(R, N)
    <2> HIDE DEF P, N, R
    <2> QED BY <1>6, <1>7, FS_Injection
  <1>9. \A k \in N : \E i \in R : P[i] = k
    BY <1>8 DEF Surjection
  <1> QED
    BY <1>4, <1>5, <1>9

\* The k-th request is the one whose place is k.
LEMMA RequestAtPlace ==
    ASSUME NEW q \in Seq(Msg)
    PROVE  /\ \A i \in RequestsAt(q) : RequestAt(q, Place(q, i)) = i
           /\ \A k \in 1 .. Cardinality(RequestsAt(q)) :
                RequestAt(q, k) \in RequestsAt(q) /\ Place(q, RequestAt(q, k)) = k
  BY PlaceBijection DEF RequestAt

\* The requests in the pipe are a sequence of jobs, no longer than the pipe.
LEMMA RequestsType ==
    ASSUME NEW q \in Seq(Msg)
    PROVE  /\ Requests(q) \in Seq(Job \cup {BadJob})
           /\ Len(Requests(q)) = Cardinality(RequestsAt(q))
           /\ Len(Requests(q)) <= Len(q)
           /\ \A k \in 1 .. Cardinality(RequestsAt(q)) :
                 Requests(q)[k] = q[RequestAt(q, k)].job
  <1> DEFINE n == Cardinality(RequestsAt(q))
  <1>1. n \in Nat /\ n <= Len(q)
    BY RequestsAtFinite
  <1>2. \A k \in 1 .. n : q[RequestAt(q, k)].job \in Job \cup {BadJob}
    <2> SUFFICES ASSUME NEW k \in 1 .. n PROVE q[RequestAt(q, k)].job \in Job \cup {BadJob}
      OBVIOUS
    <2>1. RequestAt(q, k) \in RequestsAt(q)
      BY RequestAtPlace
    <2>2. q[RequestAt(q, k)] \in Msg /\ q[RequestAt(q, k)].id = "REQUEST"
      BY <2>1, ElementOfSeq, LenProperties DEF RequestsAt
    <2> QED
      BY <2>2, MsgFacts
  <1>3. Requests(q) = [k \in 1 .. n |-> q[RequestAt(q, k)].job]
    BY DEF Requests
  <1> HIDE DEF n
  <1>4. Requests(q) \in Seq(Job \cup {BadJob}) /\ Len(Requests(q)) = n
    BY <1>1, <1>2, <1>3
  <1> QED
    BY <1>1, <1>3, <1>4 DEF n

\* Requests(q) is the one sequence with each request at its place.
LEMMA RequestsUnique ==
    ASSUME NEW q \in Seq(Msg), NEW s \in Seq(Job \cup {BadJob}),
           Len(s) = Cardinality(RequestsAt(q)),
           \A i \in RequestsAt(q) : s[Place(q, i)] = q[i].job
    PROVE  Requests(q) = s
  <1>1. \A k \in 1 .. Len(s) : Requests(q)[k] = s[k]
    <2> SUFFICES ASSUME NEW k \in 1 .. Len(s) PROVE Requests(q)[k] = s[k]
      OBVIOUS
    <2>1. RequestAt(q, k) \in RequestsAt(q) /\ Place(q, RequestAt(q, k)) = k
      BY RequestAtPlace
    <2>2. Requests(q)[k] = q[RequestAt(q, k)].job
      BY RequestsType
    <2> QED
      BY <2>1, <2>2
  <1> QED
    BY <1>1, RequestsType, SeqEqual

\* Each request stands at its place.
LEMMA RequestsPlaces ==
    ASSUME NEW q \in Seq(Msg), NEW i \in RequestsAt(q)
    PROVE  Requests(q)[Place(q, i)] = q[i].job
  BY PlaceBijection, RequestAtPlace, RequestsType

\* An empty pipe holds no request.
LEMMA RequestsEmpty == Requests(<<>>) = <<>>
  <1>1. PICK q : q = <<>>
    OBVIOUS
  <1>2. q \in Seq(Msg) /\ Len(q) = 0
    BY <1>1, EmptySeq
  <1>3. Requests(q) \in Seq(Job \cup {BadJob}) /\ Len(Requests(q)) <= Len(q)
    BY <1>2, RequestsType
  <1>4. Requests(q) = <<>>
    BY <1>2, <1>3, EmptySeq
  <1> QED
    BY <1>1, <1>4

\* A message of another kind leaves the requests as they are.
LEMMA AppendOther ==
    ASSUME NEW q \in Seq(Msg), NEW m \in Msg, m.id # "REQUEST"
    PROVE  Requests(Append(q, m)) = Requests(q)
  <1> DEFINE p == Append(q, m)
  <1>1. /\ p \in Seq(Msg) /\ Len(p) = Len(q) + 1 /\ Len(q) \in Nat
        /\ \A i \in 1 .. Len(q) : p[i] = q[i]
        /\ p[Len(q) + 1] = m
    BY AppendProperties, LenProperties
  <1>2. DOMAIN p = 1 .. Len(q) + 1 /\ DOMAIN q = 1 .. Len(q)
    BY <1>1, LenProperties
  <1> HIDE DEF p
  <1>3. RequestsAt(p) = RequestsAt(q)
    BY <1>1, <1>2 DEF RequestsAt
  <1>4. \A i \in RequestsAt(p) : Place(p, i) = Place(q, i) /\ p[i] = q[i]
    BY <1>1, <1>2, <1>3 DEF Place, RequestsAt
  <1>5. \A i \in RequestsAt(p) : Requests(q)[Place(p, i)] = p[i].job
    BY <1>3, <1>4, RequestsPlaces
  <1>6. Requests(q) \in Seq(Job \cup {BadJob}) /\ Len(Requests(q)) = Cardinality(RequestsAt(p))
    BY <1>3, RequestsType
  <1>7. Requests(p) = Requests(q)
    BY <1>1, <1>5, <1>6, RequestsUnique
  <1> QED
    BY <1>7 DEF p

\* A request that is posted is the last one.
LEMMA AppendRequest ==
    ASSUME NEW q \in Seq(Msg), NEW m \in Msg, m.id = "REQUEST"
    PROVE  Requests(Append(q, m)) = Append(Requests(q), m.job)
  <1> DEFINE p == Append(q, m)
             n == Cardinality(RequestsAt(q))
             s == Append(Requests(q), m.job)
  <1>1. /\ p \in Seq(Msg) /\ Len(p) = Len(q) + 1 /\ Len(q) \in Nat
        /\ \A i \in 1 .. Len(q) : p[i] = q[i]
        /\ p[Len(q) + 1] = m
    BY AppendProperties, LenProperties
  <1>2. DOMAIN p = 1 .. Len(q) + 1 /\ DOMAIN q = 1 .. Len(q)
    BY <1>1, LenProperties
  <1> HIDE DEF p
  <1>3. RequestsAt(p) = RequestsAt(q) \cup {Len(q) + 1} /\ Len(q) + 1 \notin RequestsAt(q)
    BY <1>1, <1>2 DEF RequestsAt
  <1>4. IsFiniteSet(RequestsAt(q)) /\ n \in Nat /\ RequestsAt(q) \subseteq 1 .. Len(q)
    BY RequestsAtFinite
  <1>5. Cardinality(RequestsAt(p)) = n + 1
    BY <1>3, <1>4, FS_AddElement
  <1>6. \A i \in RequestsAt(q) : Place(p, i) = Place(q, i) /\ p[i] = q[i]
    <2> SUFFICES ASSUME NEW i \in RequestsAt(q)
                 PROVE  Place(p, i) = Place(q, i) /\ p[i] = q[i]
      OBVIOUS
    <2>1. {j \in RequestsAt(p) : j <= i} = {j \in RequestsAt(q) : j <= i}
      BY <1>1, <1>3, <1>4
    <2> QED
      BY <1>1, <1>4, <2>1 DEF Place
  <1>7. Place(p, Len(q) + 1) = n + 1
    <2>1. {j \in RequestsAt(p) : j <= Len(q) + 1} = RequestsAt(p)
      BY <1>1, <1>3, <1>4
    <2> QED
      BY <1>5, <2>1 DEF Place
  <1>8. m.job \in Job \cup {BadJob}
    BY MsgFacts
  <1>9. /\ s \in Seq(Job \cup {BadJob}) /\ Len(s) = n + 1
        /\ \A k \in 1 .. n : s[k] = Requests(q)[k]
        /\ s[n + 1] = m.job
    BY <1>8, RequestsType, AppendProperties
  <1> HIDE DEF s, n
  <1>10. \A i \in RequestsAt(p) : s[Place(p, i)] = p[i].job
    <2> SUFFICES ASSUME NEW i \in RequestsAt(p) PROVE s[Place(p, i)] = p[i].job
      OBVIOUS
    <2>1. CASE i = Len(q) + 1
      BY <1>1, <1>7, <1>9, <2>1
    <2>2. CASE i \in RequestsAt(q)
      <3>1. Place(q, i) \in 1 .. n
        BY <2>2, PlaceBijection DEF n
      <3> QED
        BY <1>6, <1>9, <2>2, <3>1, RequestsPlaces
    <2> QED
      BY <1>3, <2>1, <2>2
  <1>11. Requests(p) = s
    BY <1>1, <1>5, <1>9, <1>10, RequestsUnique
  <1> QED
    BY <1>11 DEF p, s

\* Moving indices by one does not change how many there are.
LEMMA ShiftCardinality ==
    ASSUME NEW S \in SUBSET Int, IsFiniteSet(S)
    PROVE  Cardinality({i - 1 : i \in S}) = Cardinality(S)
  <1> DEFINE T == {i - 1 : i \in S}
             f == [i \in S |-> i - 1]
  <1>1. f \in [S -> T] /\ \A i, j \in S : f[i] = f[j] => i = j
    OBVIOUS
  <1>2. \A t \in T : \E i \in S : f[i] = t
    OBVIOUS
  <1> HIDE DEF f, T
  <1>3. f \in Injection(S, T)
    BY <1>1, Fun_IsInj
  <1>4. f \in Surjection(S, T)
    BY <1>1, <1>2 DEF Surjection
  <1>5. Cardinality(T) = Cardinality(S)
    BY <1>3, <1>4, FS_Surjection
  <1> QED
    BY <1>5 DEF T

\* Where the requests are, and their places, once the head is read.
LEMMA TailPlaces ==
    ASSUME NEW q \in Seq(Msg), q # <<>>
    PROVE  LET R == RequestsAt(q) \ {1}
               p == Tail(q)
           IN  /\ p \in Seq(Msg)
               /\ RequestsAt(p) = {i - 1 : i \in R}
               /\ Cardinality(RequestsAt(p)) = Cardinality(R)
               /\ \A i \in R : /\ p[i - 1] = q[i]
                               /\ Place(p, i - 1) = Cardinality({j \in R : j <= i})
  <1> DEFINE R == RequestsAt(q) \ {1}
             p == Tail(q)
  <1>1. /\ p \in Seq(Msg) /\ Len(p) = Len(q) - 1 /\ Len(q) \in Nat \ {0}
        /\ \A i \in 1 .. Len(p) : p[i] = q[i + 1]
    BY HeadTailProperties, LenProperties, EmptySeq
  <1>2. DOMAIN p = 1 .. Len(q) - 1 /\ DOMAIN q = 1 .. Len(q)
    BY <1>1, LenProperties
  <1> HIDE DEF p
  <1>3. R \subseteq 2 .. Len(q)
    BY <1>1, <1>2 DEF RequestsAt
  <1>4. \A i \in R : i - 1 \in 1 .. Len(q) - 1 /\ p[i - 1] = q[i]
    BY <1>1, <1>3
  <1>5. RequestsAt(p) = {i - 1 : i \in R}
    <2>1. ASSUME NEW i \in RequestsAt(p) PROVE i \in {k - 1 : k \in R}
      <3>1. i \in 1 .. Len(q) - 1 /\ p[i].id = "REQUEST"
        BY <1>2 DEF RequestsAt
      <3>2. i + 1 \in R /\ i = (i + 1) - 1
        BY <1>1, <1>2, <3>1 DEF RequestsAt
      <3> HIDE DEF R
      <3> QED
        BY <3>2
    <2>2. ASSUME NEW i \in R PROVE i - 1 \in RequestsAt(p)
      <3>1. q[i].id = "REQUEST"
        BY DEF RequestsAt
      <3> QED
        BY <1>2, <1>4, <3>1 DEF RequestsAt
    <2> HIDE DEF R
    <2> QED
      BY <2>1, <2>2
  <1>6. IsFiniteSet(RequestsAt(q))
    BY RequestsAtFinite
  <1>7. IsFiniteSet(R) /\ R \in SUBSET Int
    BY <1>3, <1>6, FS_Subset
  <1> HIDE DEF R
  <1>8. Cardinality(RequestsAt(p)) = Cardinality(R)
    BY <1>5, <1>7, ShiftCardinality
  <1>9. \A i \in R : Place(p, i - 1) = Cardinality({j \in R : j <= i})
    <2> SUFFICES ASSUME NEW i \in R
                 PROVE  Place(p, i - 1) = Cardinality({j \in R : j <= i})
      OBVIOUS
    <2> DEFINE U == {j \in R : j <= i}
    <2>1. {j \in RequestsAt(p) : j <= i - 1} = {j - 1 : j \in U}
      BY <1>5, <1>7
    <2>2. IsFiniteSet(U) /\ U \in SUBSET Int
      BY <1>7, FS_Subset
    <2> HIDE DEF U
    <2>3. Cardinality({j - 1 : j \in U}) = Cardinality(U)
      BY <2>2, ShiftCardinality
    <2> QED
      BY <2>1, <2>3 DEF Place, U
  <1> QED
    BY <1>1, <1>4, <1>5, <1>8, <1>9 DEF R, p

\* Reading a message of another kind leaves the requests as they are.
LEMMA TailOther ==
    ASSUME NEW q \in Seq(Msg), q # <<>>, Head(q).id # "REQUEST"
    PROVE  Requests(Tail(q)) = Requests(q)
  <1> DEFINE p == Tail(q)
             R == RequestsAt(q) \ {1}
  <1>1. /\ p \in Seq(Msg)
        /\ RequestsAt(p) = {i - 1 : i \in R}
        /\ Cardinality(RequestsAt(p)) = Cardinality(R)
        /\ \A i \in R : /\ p[i - 1] = q[i]
                        /\ Place(p, i - 1) = Cardinality({j \in R : j <= i})
    BY TailPlaces
  <1>2. R = RequestsAt(q)
    BY DEF RequestsAt
  <1> HIDE DEF p, R
  <1>3. \A i \in R : Place(p, i - 1) = Place(q, i)
    BY <1>1, <1>2 DEF Place
  <1>4. \A i \in RequestsAt(p) : Requests(q)[Place(p, i)] = p[i].job
    <2> SUFFICES ASSUME NEW i \in R PROVE Requests(q)[Place(p, i - 1)] = p[i - 1].job
      BY <1>1
    <2>1. Requests(q)[Place(q, i)] = q[i].job
      BY <1>2, RequestsPlaces
    <2> QED
      BY <1>1, <1>3, <2>1
  <1>5. Requests(q) \in Seq(Job \cup {BadJob}) /\ Len(Requests(q)) = Cardinality(RequestsAt(p))
    BY <1>1, <1>2, RequestsType
  <1>6. Requests(p) = Requests(q)
    BY <1>1, <1>4, <1>5, RequestsUnique
  <1> QED
    BY <1>6 DEF p

\* A request that is read is the first one.
LEMMA TailRequest ==
    ASSUME NEW q \in Seq(Msg), q # <<>>, Head(q).id = "REQUEST"
    PROVE  /\ Requests(q) # <<>> /\ Head(Requests(q)) = Head(q).job
           /\ Requests(Tail(q)) = Tail(Requests(q))
  <1> DEFINE p == Tail(q)
             R == RequestsAt(q) \ {1}
             n == Cardinality(RequestsAt(q))
             s == Tail(Requests(q))
  <1>1. /\ p \in Seq(Msg)
        /\ RequestsAt(p) = {i - 1 : i \in R}
        /\ Cardinality(RequestsAt(p)) = Cardinality(R)
        /\ \A i \in R : /\ p[i - 1] = q[i]
                        /\ Place(p, i - 1) = Cardinality({j \in R : j <= i})
    BY TailPlaces
  <1>2. 1 \in RequestsAt(q) /\ q[1] = Head(q)
    BY LenProperties, EmptySeq DEF RequestsAt
  <1>3. IsFiniteSet(RequestsAt(q)) /\ n \in Nat /\ RequestsAt(q) \subseteq 1 .. Len(q)
    BY RequestsAtFinite
  <1>4. Cardinality(R) = n - 1
    BY <1>2, <1>3, FS_RemoveElement
  <1>5. Place(q, 1) = 1
    <2>1. {j \in RequestsAt(q) : j <= 1} = {1}
      BY <1>2, <1>3
    <2> QED
      BY <2>1, FS_Singleton DEF Place
  <1>6. /\ Requests(q) \in Seq(Job \cup {BadJob}) /\ Len(Requests(q)) = n
        /\ 1 \in 1 .. n /\ Requests(q)[1] = q[1].job
    BY <1>2, <1>5, RequestsType, RequestsPlaces, PlaceBijection
  <1>7. Requests(q) # <<>> /\ Head(Requests(q)) = q[1].job
    BY <1>6, EmptySeq
  <1>8. /\ s \in Seq(Job \cup {BadJob}) /\ Len(s) = n - 1
        /\ \A k \in 1 .. n - 1 : s[k] = Requests(q)[k + 1]
    BY <1>6, <1>7, HeadTailProperties
  <1>9. \A i \in R : /\ Place(p, i - 1) = Place(q, i) - 1
                     /\ Place(q, i) \in 2 .. n
    <2> SUFFICES ASSUME NEW i \in R
                 PROVE  Place(p, i - 1) = Place(q, i) - 1 /\ Place(q, i) \in 2 .. n
      OBVIOUS
    <2> DEFINE U == {j \in RequestsAt(q) : j <= i}
    <2>1. {j \in R : j <= i} = U \ {1} /\ 1 \in U
      BY <1>2, <1>3
    <2>2. IsFiniteSet(U)
      BY <1>3, FS_Subset
    <2>3. Place(q, i) = Cardinality(U) /\ Place(p, i - 1) = Cardinality({j \in R : j <= i})
      BY <1>1 DEF Place
    <2>4. Place(q, i) \in 1 .. n /\ Place(q, i) # 1
      BY <1>2, <1>5, PlaceBijection
    <2> HIDE DEF U
    <2>5. Cardinality(U \ {1}) = Cardinality(U) - 1
      BY <2>1, <2>2, FS_RemoveElement
    <2>6. Place(q, i) \in 2 .. n
      BY <1>3, <2>4
    <2> HIDE DEF R, n, p
    <2> QED
      BY <2>1, <2>3, <2>5, <2>6
  <1> HIDE DEF p, n, s
  <1>10. \A i \in RequestsAt(p) : s[Place(p, i)] = p[i].job
    <2> SUFFICES ASSUME NEW i \in R PROVE s[Place(p, i - 1)] = p[i - 1].job
      BY <1>1
    <2>1. Place(q, i) - 1 \in 1 .. n - 1 /\ (Place(q, i) - 1) + 1 = Place(q, i)
      BY <1>3, <1>9
    <2>2. s[Place(q, i) - 1] = Requests(q)[Place(q, i)]
      BY <1>8, <2>1
    <2> QED
      BY <1>1, <1>9, <2>2, RequestsPlaces
  <1>11. Requests(p) = s
    BY <1>1, <1>4, <1>8, <1>10, RequestsUnique
  <1> QED
    BY <1>2, <1>7, <1>11 DEF p, s
-----------------------------------------------------------------------------
(* The thread implements DiagService.                                      *)

\* The job the clients see.
JobOf(e) == IF e.state = "EXECUTING" THEN e.request ELSE <<NoEcu>>

\* A step on the job in hand ends it, or leaves it as it is.
LEMMA SameJobEnds ==
    ASSUME NEW e, NEW f, Settled(e),
           f = e \/ SameJob(e, f) \/ (f.state = e.state /\ f.request = e.request)
    PROVE  \/ JobOf(f) = JobOf(e)
           \/ JobOf(e) # <<NoEcu>> /\ JobOf(f) = <<NoEcu>>
  <1>1. e.state = "EXECUTING" => e.request # <<NoEcu>>
    BY JobFacts DEF Settled, Structure, BadJob
  <1> QED
    BY <1>1 DEF JobOf, SameJob

\* Every step is a Post, a Take or an Announce of the service, or a stutter.
LEMMA ServiceSteps ==
    ASSUME EngineInv, [EngineNext]_engVars
    PROVE  [Service!ServiceNext]_(Service!svcVars)
  <1> DEFINE mb == Requests(queue)
             jb == JobOf(eng)
  <1>0. EngineTypeOK /\ Settled(eng) /\ queue \in Seq(Msg)
    BY DEF EngineInv, EngineTypeOK
  <1>1. SUFFICES \/ \E j \in Job \cup {BadJob} :
                      Len(mb) < MaxQueue /\ mb' = Append(mb, j) /\ jb' = jb
                 \/ /\ mb # <<>> /\ mb' = Tail(mb)
                    /\ jb' = IF jb = <<NoEcu>> /\ Head(mb) \in Job THEN Head(mb) ELSE jb
                 \/ jb # <<NoEcu>> /\ jb' = <<NoEcu>> /\ mb' = mb
                 \/ mb' = mb /\ jb' = jb
    BY DEF Service!ServiceNext, Service!Post, Service!Take, Service!Announce,
           Service!svcVars, JobOf
  <1>2. ASSUME NEW id, Read(id), id # "REQUEST" PROVE mb' = mb
    BY <1>0, <1>2, ReadFacts, TailOther
  <1>3. ASSUME NEW m \in Msg, Put(m), m.id # "REQUEST" PROVE mb' = mb
    BY <1>0, <1>3, AppendOther DEF Put
  <1>4. NoEffects => jb' = jb
    BY DEF NoEffects, JobOf
  <1>5. ASSUME NEW f, Effects(eng, f) PROVE jb' = JobOf(f)
    BY <1>5 DEF Effects, JobOf
  <1>6. CASE remote_diag_process_start
    <2> DEFINE j == Head(queue).job
    <2>1. /\ mb # <<>> /\ mb' = Tail(mb) /\ Head(mb) = j
          /\ j \in Job \cup {BadJob}
      BY <1>0, <1>6, ReadFacts, TailRequest, MsgFacts DEF remote_diag_process_start
    <2>2. eng.state = "EXECUTING" => jb # <<NoEcu>>
      BY <1>0, JobFacts DEF Settled, Structure, BadJob, JobOf
    <2>3. CASE eng.state = "EXECUTING" /\ NoEffects
      BY <1>4, <2>1, <2>2, <2>3
    <2>4. CASE /\ eng.state # "EXECUTING" /\ j = BadJob
               /\ eng' = [eng EXCEPT !.request = <<>>]
      <3>1. eng'.state = eng.state
        BY <1>0, <2>4 DEF Settled, Structure
      <3>2. jb' = <<NoEcu>> /\ jb = <<NoEcu>> /\ j \notin Job
        BY <2>4, <3>1, JobFacts DEF JobOf, BadJob
      <3> QED
        BY <2>1, <3>2
    <2>5. CASE /\ eng.state # "EXECUTING" /\ j # BadJob
               /\ Effects(eng, StartJob(j))
      <3>1. j \in Job
        BY <2>1, <2>5
      <3>2. StartJob(j).state = "EXECUTING" /\ StartJob(j).request = j
        BY <3>1, StartJobFacts
      <3>3. jb' = j /\ jb = <<NoEcu>>
        BY <1>5, <2>5, <3>2 DEF JobOf
      <3> QED
        BY <2>1, <3>1, <3>3
    <2> QED
      BY <1>6, <2>3, <2>4, <2>5 DEF remote_diag_process_start
  <1>7. CASE SetClientAck
    <2>1. mb' = mb
      BY <1>2, <1>7 DEF SetClientAck
    <2>2. CASE eng.state = "EXECUTING" /\ eng.current_cmd_state = "OPENING"
      <3> DEFINE f == [eng EXCEPT !.current_cmd_state = "DIAGNOSING"]
      <3>1. Effects(eng, f) /\ SameJob(eng, f)
        BY <1>0, <1>7, <2>2, GoesOnFacts DEF SetClientAck, Waits
      <3> HIDE DEF f
      <3> QED
        BY <1>0, <1>5, <2>1, <3>1, SameJobEnds
    <2>3. CASE ~(eng.state = "EXECUTING" /\ eng.current_cmd_state = "OPENING")
      BY <1>4, <1>7, <2>1, <2>3 DEF SetClientAck
    <2> QED
      BY <2>2, <2>3
  <1>8. ASSUME NEW id \in {"UDS", "MCU"}, remote_diag_process(id)
        PROVE  \/ jb # <<NoEcu>> /\ jb' = <<NoEcu>> /\ mb' = mb
               \/ mb' = mb /\ jb' = jb
    <2>1. mb' = mb
      BY <1>2, <1>8 DEF remote_diag_process
    <2>2. CASE AckExpected
      <3>1. PICK f : /\ Effects(eng, f)
                     /\ \/ f = eng
                        \/ SameJob(eng, f)
                        \/ Stores(eng, f, Head(queue).ecu)
        BY <1>8, <2>2, AckFacts
      <3>2. f = eng \/ SameJob(eng, f) \/ (f.state = eng.state /\ f.request = eng.request)
        BY <3>1 DEF Stores, GoesOn
      <3> QED
        BY <1>0, <1>5, <2>1, <3>1, <3>2, SameJobEnds
    <2>3. CASE ~AckExpected
      BY <1>4, <1>8, <2>1, <2>3 DEF remote_diag_process
    <2> QED
      BY <2>2, <2>3
  <1>9. CASE remote_diag_timeout_process
    <2>1. mb' = mb /\ Effects(eng, AfterTimeout(eng))
      BY <1>2, <1>9 DEF remote_diag_timeout_process
    <2>2. SameJob(eng, AfterTimeout(eng))
      BY <1>0, TimeoutFacts
    <2> QED
      BY <1>0, <1>5, <2>1, <2>2, SameJobEnds
  <1>10. CASE remote_diag_request
    <2>1. PICK j \in Job \cup {BadJob} : Put([id |-> "REQUEST", job |-> j]) /\ NoEffects
      BY <1>10 DEF remote_diag_request
    <2> DEFINE m == [id |-> "REQUEST", job |-> j]
    <2>2. m \in Msg /\ m.id = "REQUEST" /\ m.job = j
      BY DEF Msg
    <2> HIDE DEF m
    <2>3. queue' = Append(queue, m) /\ Len(queue) < MaxQueue
      BY <2>1 DEF Put, m
    <2>4. mb' = Append(mb, j)
      BY <1>0, <2>2, <2>3, AppendRequest
    <2>5. Len(mb) <= Len(queue) /\ Len(mb) \in Nat /\ Len(queue) \in Nat
      BY <1>0, RequestsType, LenProperties
    <2>6. Len(mb) < MaxQueue
      BY <2>3, <2>5, EngineAssumption
    <2> QED
      BY <1>4, <2>1, <2>4, <2>6
  <1>11. CASE TimerFires
    <2>1. [id |-> "TIMEOUT"] \in Msg /\ [id |-> "TIMEOUT"].id # "REQUEST"
      BY DEF Msg
    <2> QED
      BY <1>3, <1>11, <2>1 DEF TimerFires, JobOf
  <1>12. CASE McuAck
    <2>1. [id |-> "SET_MCU"] \in Msg /\ [id |-> "SET_MCU"].id # "REQUEST"
      BY DEF Msg
    <2> QED
      BY <1>3, <1>12, <2>1 DEF McuAck, JobOf
  <1>13. ASSUME NEW i \in DOMAIN bus, EcuAnswers(i) PROVE mb' = mb /\ jb' = jb
    <2>1. bus[i] \in [ecu : Ecu, pend : Nat]
      <3> DEFINE B == [ecu : Ecu, pend : Nat]
      <3>1. bus \in Seq(B)
        BY <1>0 DEF EngineTypeOK
      <3> HIDE DEF B
      <3>2. bus[i] \in B
        BY <3>1, ElementOfSeq, LenProperties
      <3> QED
        BY <3>2 DEF B
    <2>2. PICK kind \in Kinds :
             \/ bus[i].ecu = TBox /\ Put([id |-> "UDS", kind |-> kind, ecu |-> bus[i].ecu])
             \/ bus[i].ecu # TBox /\ Put([id |-> "MCU", kind |-> kind, ecu |-> bus[i].ecu])
      BY <1>13 DEF EcuAnswers
    <2>3. PICK m \in Msg : Put(m) /\ m.id # "REQUEST"
      BY <2>1, <2>2 DEF Msg
    <2> QED
      BY <1>3, <1>13, <2>3 DEF EcuAnswers, JobOf
  <1>14. ASSUME NEW i \in DOMAIN bus, EcuSilent(i) PROVE mb' = mb /\ jb' = jb
    BY <1>14 DEF EcuSilent, JobOf
  <1>15. CASE UNCHANGED engVars
    BY <1>15 DEF engVars, JobOf
  <1> QED
    BY <1>6, <1>7, <1>8, <1>9, <1>10, <1>11, <1>12, <1>13, <1>14, <1>15
    DEF EngineNext, ThreadStep

\* For every list of ECUs and every bound, whatever the MCU, the ECUs and the
\* timer do, the clients see the service of DiagService: jobs are taken in the
\* order they were posted, one at a time, and each is announced at most once.
THEOREM EngineImplements == EngineSpec => ImplementsService
  <1>1. EngineInit => Service!ServiceInit
    BY RequestsEmpty DEF EngineInit, Service!ServiceInit
  <1>2. EngineInv /\ [EngineNext]_engVars => [Service!ServiceNext]_(Service!svcVars)
    BY ServiceSteps
  <1> QED
    BY <1>1, <1>2, EngineInvAlways, PTL DEF EngineSpec, ImplementsService, Service!ServiceSpec
-----------------------------------------------------------------------------
(* Where stored answers are from, when the MCU and the thread are prompt.  *)

\* An acknowledgement is at i.
SetAt(q, i) == q[i].id = "SET_MCU"

\* No client setting is under way but those that switch the MCU off, and none
\* of the acknowledgements in the pipe is still to be read.
NoneLeft(q, s) ==
    /\ \A i \in DOMAIN s : s[i] = NoEcu
    /\ \A i \in DOMAIN q : ~SetAt(q, i)

\* The thread has its acknowledgement when it reads what is at j.
Acked(e, q, j) ==
    \/ e.current_cmd_state # "OPENING"
    \/ \E i \in DOMAIN q : i < j /\ SetAt(q, i)

\* The MCU is set, or is being set, to the ECU of the current command; what it
\* passes on after the first acknowledgement is from that ECU, and comes when
\* no setting is left.
Serves(e, q, s, m) ==
    /\ \A i \in DOMAIN s : s[i] = IF i = Len(s) THEN CurrentEcu(e) ELSE NoEcu
    /\ s = <<>> => m = CurrentEcu(e)
    /\ s # <<>> /\ Acked(e, q, Len(q) + 1) => m = NoEcu
    /\ \A j \in DOMAIN q :
         q[j].id = "MCU" /\ Acked(e, q, j) =>
            /\ q[j].ecu = CurrentEcu(e) /\ s = <<>>
            /\ \A k \in DOMAIN q : j < k => ~SetAt(q, k)

\* What the MCU is, or is being, set to fits the command: without a job nothing
\* is left of earlier ones; the T-Box needs no client; any other ECU is served.
Linked(e, q, s, m, k) ==
    /\ e.state # "EXECUTING" => NoneLeft(q, s) /\ ~k
    /\ e.current_cmd_state \in Waits =>
         IF CurrentEcu(e) = TBox
         THEN NoneLeft(q, s) /\ (k => s = <<>>) /\ e.current_cmd_state # "OPENING"
         ELSE k /\ Serves(e, q, s, m)

\* A timeout in the pipe is of the wait the thread is in: only requests, which
\* an executed job ignores, are read before it.
Timed(e, q, s, t) ==
    /\ t => e.current_cmd_state \in Waits
    /\ \A k \in DOMAIN q :
         q[k].id = "TIMEOUT" =>
            /\ ~t /\ e.current_cmd_state \in Waits /\ s = <<>>
            /\ \A i \in DOMAIN q : i < k => q[i].id = "REQUEST"
            /\ \A i \in DOMAIN q : k < i => ~SetAt(q, i)

\* AnswerFromItsEcu of a value of the structure.
OwnAnswers(e) ==
    e.request # <<>> =>
        \A i \in DOMAIN e.response : e.response[i].from \in {NoEcu, e.request[i]}

\* The inductive invariant of the stored answers.
PromptInv ==
    /\ Linked(eng, queue, setq, mcu, cb)
    /\ Timed(eng, queue, setq, timer)
    /\ OwnAnswers(eng)

\* Indices in the pipe after its head was read.
LEMMA TailAt ==
    ASSUME NEW q \in Seq(Msg), q # <<>>
    PROVE  /\ Tail(q) \in Seq(Msg) /\ Len(q) \in Nat \ {0} /\ Len(Tail(q)) = Len(q) - 1
           /\ q[1] = Head(q) /\ 1 \in DOMAIN q
           /\ \A i \in DOMAIN Tail(q) : i \in Nat /\ i + 1 \in DOMAIN q /\ Tail(q)[i] = q[i + 1]
  <1>1. /\ Tail(q) \in Seq(Msg) /\ Len(Tail(q)) = Len(q) - 1 /\ Len(q) \in Nat \ {0}
        /\ \A i \in 1 .. Len(Tail(q)) : Tail(q)[i] = q[i + 1]
    BY HeadTailProperties, LenProperties, EmptySeq
  <1>2. DOMAIN Tail(q) = 1 .. Len(q) - 1 /\ DOMAIN q = 1 .. Len(q)
    BY <1>1, LenProperties
  <1> QED
    BY <1>1, <1>2

\* Indices in the pipe after a message was posted.
LEMMA AppendAt ==
    ASSUME NEW q \in Seq(Msg), NEW x \in Msg
    PROVE  /\ Append(q, x) \in Seq(Msg)
           /\ Len(q) \in Nat /\ Len(Append(q, x)) = Len(q) + 1
           /\ DOMAIN q = 1 .. Len(q) /\ DOMAIN Append(q, x) = 1 .. Len(q) + 1
           /\ \A i \in DOMAIN q : Append(q, x)[i] = q[i]
           /\ Append(q, x)[Len(q) + 1] = x
  <1>1. /\ Append(q, x) \in Seq(Msg) /\ Len(Append(q, x)) = Len(q) + 1 /\ Len(q) \in Nat
        /\ \A i \in 1 .. Len(q) : Append(q, x)[i] = q[i]
        /\ Append(q, x)[Len(q) + 1] = x
    BY AppendProperties, LenProperties
  <1> QED
    BY <1>1, LenProperties

\* Reading a message that leaves the command as it is, or takes it on to its
\* next wait.
LEMMA ServesRead ==
    ASSUME NEW e, NEW f, NEW q \in Seq(Msg), q # <<>>, NEW s, NEW m, Serves(e, q, s, m),
           CurrentEcu(f) = CurrentEcu(e),
           \/ f.current_cmd_state = "OPENING"
           \/ e.current_cmd_state # "OPENING"
           \/ Head(q).id = "SET_MCU"
    PROVE  Serves(f, Tail(q), s, m)
  <1> DEFINE p == Tail(q)
  <1>1. /\ p \in Seq(Msg) /\ Len(q) \in Nat \ {0} /\ Len(p) = Len(q) - 1
        /\ q[1] = Head(q) /\ 1 \in DOMAIN q
        /\ \A i \in DOMAIN p : i \in Nat /\ i + 1 \in DOMAIN q /\ p[i] = q[i + 1]
    BY TailAt
  <1>2. DOMAIN p = 1 .. Len(p)
    BY <1>1, LenProperties
  <1> HIDE DEF p
  <1>3. ASSUME NEW j \in Nat \ {0}, Acked(f, p, j) PROVE Acked(e, q, j + 1)
    <2>1. CASE e.current_cmd_state # "OPENING"
      BY <2>1 DEF Acked
    <2>2. CASE e.current_cmd_state = "OPENING" /\ f.current_cmd_state # "OPENING"
      <3>1. 1 < j + 1 /\ SetAt(q, 1)
        BY <1>1, <2>2 DEF SetAt
      <3> QED
        BY <1>1, <3>1 DEF Acked
    <2>3. CASE f.current_cmd_state = "OPENING"
      <3>1. PICK i \in DOMAIN p : i < j /\ SetAt(p, i)
        BY <1>3, <2>3 DEF Acked
      <3>2. i + 1 \in DOMAIN q /\ i + 1 < j + 1 /\ SetAt(q, i + 1)
        BY <1>1, <3>1 DEF SetAt
      <3> QED
        BY <3>2 DEF Acked
    <2> QED
      BY <2>1, <2>2, <2>3
  <1>4. s # <<>> /\ Acked(f, p, Len(p) + 1) => m = NoEcu
    <2>1. Len(p) + 1 \in Nat \ {0} /\ (Len(p) + 1) + 1 = Len(q) + 1
      BY <1>1
    <2>2. Acked(f, p, Len(p) + 1) => Acked(e, q, Len(q) + 1)
      BY <1>3, <2>1
    <2> QED
      BY <2>2 DEF Serves
  <1>5. ASSUME NEW j \in DOMAIN p, p[j].id = "MCU", Acked(f, p, j)
        PROVE  /\ p[j].ecu = CurrentEcu(f) /\ s = <<>>
               /\ \A k \in DOMAIN p : j < k => ~SetAt(p, k)
    <2>1. Acked(e, q, j + 1) /\ j + 1 \in DOMAIN q /\ q[j + 1] = p[j]
      BY <1>1, <1>2, <1>3, <1>5
    <2>2. /\ q[j + 1].ecu = CurrentEcu(e) /\ s = <<>>
          /\ \A k \in DOMAIN q : j + 1 < k => ~SetAt(q, k)
      BY <1>5, <2>1 DEF Serves
    <2>3. \A k \in DOMAIN p : j < k => ~SetAt(p, k)
      BY <1>1, <2>2 DEF SetAt
    <2> QED
      BY <2>1, <2>2, <2>3
  <1>6. Serves(f, p, s, m)
    BY <1>4, <1>5 DEF Serves
  <1> QED
    BY <1>6 DEF p

\* Reading leaves nothing new behind.
LEMMA NoneLeftRead ==
    ASSUME NEW q \in Seq(Msg), q # <<>>, NEW s, NoneLeft(q, s)
    PROVE  NoneLeft(Tail(q), s)
  BY TailAt DEF NoneLeft, SetAt

\* A message that is read and ignored keeps the link to the MCU as it is.
LEMMA LinkedRead ==
    ASSUME NEW e, NEW q \in Seq(Msg), q # <<>>, NEW s, NEW m, NEW k, Linked(e, q, s, m, k)
    PROVE  Linked(e, Tail(q), s, m, k)
  BY NoneLeftRead, ServesRead DEF Linked

\* Reading keeps the timeout in its place; once an answer or the timeout itself
\* is read there is none left.
LEMMA TimedRead ==
    ASSUME NEW e, NEW q \in Seq(Msg), q # <<>>, NEW s, NEW t, Timed(e, q, s, t)
    PROVE  /\ Timed(e, Tail(q), s, t)
           /\ Head(q).id # "REQUEST" => \A i \in DOMAIN Tail(q) : Tail(q)[i].id # "TIMEOUT"
  <1> DEFINE p == Tail(q)
  <1>1. /\ q[1] = Head(q) /\ 1 \in DOMAIN q
        /\ \A i \in DOMAIN p : i \in Nat /\ i + 1 \in DOMAIN q /\ p[i] = q[i + 1]
    BY TailAt
  <1>2. DOMAIN p = 1 .. Len(p)
    BY TailAt, LenProperties
  <1> HIDE DEF p
  <1>3. ASSUME NEW k \in DOMAIN p, p[k].id = "TIMEOUT"
        PROVE  /\ ~t /\ e.current_cmd_state \in Waits /\ s = <<>>
               /\ \A i \in DOMAIN p : i < k => p[i].id = "REQUEST"
               /\ \A i \in DOMAIN p : k < i => ~SetAt(p, i)
               /\ Head(q).id = "REQUEST"
    <2>1. k + 1 \in DOMAIN q /\ q[k + 1].id = "TIMEOUT" /\ k \in Nat \ {0}
      BY <1>1, <1>2, <1>3
    <2>2. /\ ~t /\ e.current_cmd_state \in Waits /\ s = <<>>
          /\ \A i \in DOMAIN q : i < k + 1 => q[i].id = "REQUEST"
          /\ \A i \in DOMAIN q : k + 1 < i => ~SetAt(q, i)
      BY <2>1 DEF Timed
    <2>3. \A i \in DOMAIN p : i < k => p[i].id = "REQUEST"
      BY <1>1, <2>1, <2>2
    <2>4. \A i \in DOMAIN p : k < i => ~SetAt(p, i)
      BY <1>1, <2>1, <2>2 DEF SetAt
    <2>5. Head(q).id = "REQUEST"
      BY <1>1, <2>1, <2>2
    <2> QED
      BY <2>2, <2>3, <2>4, <2>5
  <1>4. Timed(e, p, s, t) /\ (Head(q).id # "REQUEST" => \A i \in DOMAIN p : p[i].id # "TIMEOUT")
    BY <1>3 DEF Timed
  <1> QED
    BY <1>4 DEF p

\* A message put into the pipe that is no acknowledgement; an answer passed on
\* by the MCU after the acknowledgement must be the current ECU's.
LEMMA ServesPut ==
    ASSUME NEW e, NEW q \in Seq(Msg), NEW x \in Msg, NEW s, NEW m, Serves(e, q, s, m),
           x.id # "SET_MCU",
           x.id = "MCU" /\ Acked(e, q, Len(q) + 1) => x.ecu = CurrentEcu(e) /\ s = <<>>
    PROVE  Serves(e, Append(q, x), s, m)
  <1> DEFINE p == Append(q, x)
  <1>1. /\ Len(q) \in Nat /\ Len(p) = Len(q) + 1
        /\ DOMAIN q = 1 .. Len(q) /\ DOMAIN p = 1 .. Len(q) + 1
        /\ \A i \in DOMAIN q : p[i] = q[i]
        /\ p[Len(q) + 1] = x
    BY AppendAt
  <1> HIDE DEF p
  <1>2. ASSUME NEW j, Acked(e, p, j) PROVE Acked(e, q, j)
    <2>1. CASE e.current_cmd_state # "OPENING"
      BY <2>1 DEF Acked
    <2>2. CASE e.current_cmd_state = "OPENING"
      <3>1. PICK i \in DOMAIN p : i < j /\ SetAt(p, i)
        BY <1>2, <2>2 DEF Acked
      <3>2. i \in DOMAIN q /\ SetAt(q, i)
        BY <1>1, <3>1 DEF SetAt
      <3> QED
        BY <3>1, <3>2 DEF Acked
    <2> QED
      BY <2>1, <2>2
  <1>3. Acked(e, q, (Len(q) + 1) + 1) => Acked(e, q, Len(q) + 1)
    BY <1>1 DEF Acked
  <1>4. s # <<>> /\ Acked(e, p, Len(p) + 1) => m = NoEcu
    BY <1>1, <1>2, <1>3 DEF Serves
  <1>5. ASSUME NEW j \in DOMAIN p, p[j].id = "MCU", Acked(e, p, j)
        PROVE  /\ p[j].ecu = CurrentEcu(e) /\ s = <<>>
               /\ \A k \in DOMAIN p : j < k => ~SetAt(p, k)
    <2>1. CASE j \in DOMAIN q
      <3>1. /\ q[j].ecu = CurrentEcu(e) /\ s = <<>>
            /\ \A k \in DOMAIN q : j < k => ~SetAt(q, k)
        BY <1>1, <1>2, <1>5, <2>1 DEF Serves
      <3> QED
        BY <1>1, <2>1, <3>1 DEF SetAt
    <2>2. CASE j = Len(q) + 1
      BY <1>1, <1>2, <1>5, <2>2
    <2> QED
      BY <1>1, <2>1, <2>2
  <1>6. Serves(e, p, s, m)
    BY <1>4, <1>5 DEF Serves
  <1> QED
    BY <1>6 DEF p

\* The MCU applies the oldest setting and acknowledges it.
LEMMA ServesAck ==
    ASSUME NEW e, NEW q \in Seq(Msg), NEW x \in Msg, x.id = "SET_MCU",
           NEW S, NEW s \in Seq(S), s # <<>>, NEW m, Serves(e, q, s, m)
    PROVE  Serves(e, Append(q, x), Tail(s), Head(s))
  <1> DEFINE p == Append(q, x)
             u == Tail(s)
  <1>1. /\ Len(q) \in Nat /\ Len(p) = Len(q) + 1
        /\ DOMAIN q = 1 .. Len(q) /\ DOMAIN p = 1 .. Len(q) + 1
        /\ \A i \in DOMAIN q : p[i] = q[i]
        /\ p[Len(q) + 1] = x
    BY AppendAt
  <1>2. /\ u \in Seq(S) /\ Len(u) = Len(s) - 1 /\ Len(s) \in Nat \ {0}
        /\ \A i \in 1 .. Len(u) : u[i] = s[i + 1]
        /\ DOMAIN u = 1 .. Len(s) - 1 /\ DOMAIN s = 1 .. Len(s) /\ Head(s) = s[1]
    BY HeadTailProperties, LenProperties, EmptySeq
  <1> HIDE DEF p, u
  <1>3. u = <<>> <=> Len(s) = 1
    <2>1. u = <<>> => Len(u) = 0
      BY EmptySeq
    <2>2. u # <<>> => Len(u) # 0
      BY <1>2, EmptySeq
    <2> QED
      BY <1>2, <2>1, <2>2
  <1>4. \A i \in DOMAIN u : u[i] = IF i = Len(u) THEN CurrentEcu(e) ELSE NoEcu
    <2> SUFFICES ASSUME NEW i \in DOMAIN u
                 PROVE  u[i] = IF i = Len(u) THEN CurrentEcu(e) ELSE NoEcu
      OBVIOUS
    <2>1. i + 1 \in DOMAIN s /\ u[i] = s[i + 1] /\ (i + 1 = Len(s) <=> i = Len(u))
      BY <1>2
    <2>2. s[i + 1] = IF i + 1 = Len(s) THEN CurrentEcu(e) ELSE NoEcu
      BY <2>1 DEF Serves
    <2> QED
      BY <2>1, <2>2
  <1>5. /\ u = <<>> => Head(s) = CurrentEcu(e)
        /\ u # <<>> => Head(s) = NoEcu
    BY <1>2, <1>3 DEF Serves
  <1>6. \A j \in DOMAIN p : ~(p[j].id = "MCU" /\ Acked(e, p, j))
    <2> SUFFICES ASSUME NEW j \in DOMAIN p, p[j].id = "MCU", Acked(e, p, j) PROVE FALSE
      OBVIOUS
    <2>1. j \in DOMAIN q /\ p[j] = q[j]
      BY <1>1
    <2>2. Acked(e, q, j)
      <3>1. CASE e.current_cmd_state # "OPENING"
        BY <3>1 DEF Acked
      <3>2. CASE e.current_cmd_state = "OPENING"
        <4>1. PICK i \in DOMAIN p : i < j /\ SetAt(p, i)
          BY <3>2 DEF Acked
        <4>2. i \in DOMAIN q /\ SetAt(q, i)
          BY <1>1, <2>1, <4>1 DEF SetAt
        <4> QED
          BY <4>1, <4>2 DEF Acked
      <3> QED
        BY <3>1, <3>2
    <2> QED
      BY <2>1, <2>2 DEF Serves
  <1>7. Serves(e, p, u, Head(s))
    BY <1>4, <1>5, <1>6 DEF Serves
  <1> QED
    BY <1>7 DEF p, u

\* Posting anything but an acknowledgement leaves no setting under way.
LEMMA NoneLeftPut ==
    ASSUME NEW q \in Seq(Msg), NEW x \in Msg, x.id # "SET_MCU", NEW s, NoneLeft(q, s)
    PROVE  NoneLeft(Append(q, x), s)
  BY AppendAt DEF NoneLeft, SetAt

\* What neither acknowledges a setting nor is passed on by the MCU keeps the link
\* to the MCU as it is.
LEMMA LinkedPut ==
    ASSUME NEW e, NEW q \in Seq(Msg), NEW x \in Msg, NEW s, NEW m, NEW k,
           Linked(e, q, s, m, k), x.id \notin {"SET_MCU", "MCU"}
    PROVE  Linked(e, Append(q, x), s, m, k)
  BY NoneLeftPut, ServesPut DEF Linked

\* Posting keeps a timeout the thread's own: no acknowledgement comes behind it.
LEMMA TimedPut ==
    ASSUME NEW e, NEW q \in Seq(Msg), NEW x \in Msg, NEW s, NEW u, NEW t,
           Timed(e, q, s, t), x.id # "TIMEOUT",
           x.id = "SET_MCU" => s # <<>>, u = s \/ s # <<>>
    PROVE  Timed(e, Append(q, x), u, t)
  <1> DEFINE p == Append(q, x)
  <1>1. /\ Len(q) \in Nat /\ DOMAIN q = 1 .. Len(q) /\ DOMAIN p = 1 .. Len(q) + 1
        /\ \A i \in DOMAIN q : p[i] = q[i]
        /\ p[Len(q) + 1] = x
    BY AppendAt
  <1> HIDE DEF p
  <1>2. ASSUME NEW k \in DOMAIN p, p[k].id = "TIMEOUT"
        PROVE  /\ ~t /\ e.current_cmd_state \in Waits /\ u = <<>>
               /\ \A i \in DOMAIN p : i < k => p[i].id = "REQUEST"
               /\ \A i \in DOMAIN p : k < i => ~SetAt(p, i)
    <2>1. k \in DOMAIN q /\ q[k].id = "TIMEOUT"
      BY <1>1, <1>2
    <2>2. /\ ~t /\ e.current_cmd_state \in Waits /\ s = <<>>
          /\ \A i \in DOMAIN q : i < k => q[i].id = "REQUEST"
          /\ \A i \in DOMAIN q : k < i => ~SetAt(q, i)
      BY <2>1 DEF Timed
    <2>3. \A i \in DOMAIN p : i < k => p[i].id = "REQUEST"
      BY <1>1, <2>1, <2>2
    <2>4. \A i \in DOMAIN p : k < i => ~SetAt(p, i)
      BY <1>1, <2>1, <2>2 DEF SetAt
    <2> QED
      BY <2>2, <2>3, <2>4
  <1>3. Timed(e, p, u, t)
    BY <1>2 DEF Timed
  <1> QED
    BY <1>3 DEF p

\* A setting sent after settings that only switch the MCU off.
LEMMA SettingSent ==
    ASSUME setq \in Seq(Ecu \cup {NoEcu}), \A i \in DOMAIN setq : setq[i] = NoEcu,
           NEW x \in Ecu \cup {NoEcu}
    PROVE  LET s == Sent(setq, x, MaxSettings) IN
           s # <<>> /\ \A i \in DOMAIN s : s[i] = IF i = Len(s) THEN x ELSE NoEcu
  <1> DEFINE S == Ecu \cup {NoEcu}
             s == Sent(setq, x, MaxSettings)
  <1>1. setq \in Seq(S) /\ x \in S /\ MaxSettings \in Nat \ {0}
    BY EngineAssumption
  <1> HIDE DEF S
  <1>2. s \in Seq(S) /\ s # <<>> /\ s[Len(s)] = x
    BY <1>1, SentProperties
  <1>3. \A i \in 1 .. Len(s) - 1 : \E j \in 1 .. Len(setq) : s[i] = setq[j]
    BY <1>1, SentProperties
  <1>4. DOMAIN setq = 1 .. Len(setq) /\ DOMAIN s = 1 .. Len(s) /\ Len(s) \in Nat
    BY <1>1, <1>2, LenProperties
  <1> HIDE DEF s
  <1>5. \A i \in DOMAIN s : s[i] = IF i = Len(s) THEN x ELSE NoEcu
    BY <1>2, <1>3, <1>4
  <1> QED
    BY <1>2, <1>5 DEF s

\* The first wait of a command, when nothing is left of earlier settings.
LEMMA FirstWait ==
    ASSUME NEW f, Effects(eng, f), f.state = "EXECUTING",
           setq \in Seq(Ecu \cup {NoEcu}), CurrentEcu(f) \in Ecu,
           f.current_cmd_state = IF CurrentEcu(f) = TBox THEN "DIAGNOSING" ELSE "OPENING",
           f.current_cmd_state = "OPENING" => Enters(eng, f, "OPENING"),
           NoneLeft(queue', setq), cb => setq = <<>>
    PROVE  Linked(f, queue', setq', mcu', cb')
  <1>1. CASE CurrentEcu(f) = TBox
    <2>1. f.current_cmd_state = "DIAGNOSING"
      BY <1>1
    <2>2. setq' = setq /\ cb' = cb
      BY <2>1 DEF Effects, Enters, Informs
    <2> QED
      BY <1>1, <2>1, <2>2 DEF Linked
  <1>2. CASE CurrentEcu(f) # TBox
    <2>1. f.current_cmd_state = "OPENING"
      BY <1>2
    <2>2. cb' = TRUE /\ setq' = Sent(setq, CurrentEcu(f), MaxSettings)
      BY <2>1 DEF Effects
    <2>3. setq' # <<>> /\ \A i \in DOMAIN setq' :
                               setq'[i] = IF i = Len(setq') THEN CurrentEcu(f) ELSE NoEcu
      BY <2>2, SettingSent DEF NoneLeft
    <2>4. \A j : ~Acked(f, queue', j)
      BY <2>1 DEF Acked, NoneLeft
    <2>5. Serves(f, queue', setq', mcu')
      BY <2>3, <2>4 DEF Serves
    <2> QED
      BY <1>2, <2>1, <2>2, <2>5 DEF Linked, Waits
  <1> QED
    BY <1>1, <1>2

\* The end of a command, when nothing is left of earlier settings.
LEMMA CommandLeft ==
    ASSUME EngineInv, NEW f, Settled(f), Effects(eng, f), eng.state = "EXECUTING",
           SameJob(eng, f), NextOrLast(eng, f),
           NoneLeft(queue', setq), cb => setq = <<>>
    PROVE  Linked(f, queue', setq', mcu', cb')
  <1>1. setq \in Seq(Ecu \cup {NoEcu})
    BY DEF EngineInv, EngineTypeOK
  <1>2. CASE /\ f.state = "EXECUTING"
             /\ f.current_cmd_no = eng.current_cmd_no + 1
             /\ f.current_cmd_state =
                  IF CurrentEcu(f) = TBox THEN "DIAGNOSING" ELSE "OPENING"
    <2>1. CurrentEcu(f) \in Ecu
      BY <1>2, CurrentEcuType DEF Waits
    <2>2. f.current_cmd_state = "OPENING" => Enters(eng, f, "OPENING")
      BY <1>2 DEF Enters, EngineInv, EngineTypeOK, Structure
    <2> QED
      BY <1>1, <1>2, <2>1, <2>2, FirstWait
  <1>3. CASE f.current_cmd_state = "FINISHED" /\ f.state = "EXECUTING"
    BY <1>3 DEF Linked, Waits
  <1>4. CASE f.current_cmd_state = "FINISHED" /\ f.state = "FINISHED"
    <2>1. cb' = FALSE /\ setq' = Sent(setq, NoEcu, MaxSettings)
      BY <1>4 DEF Effects, Enters, Informs
    <2>2. \A i \in DOMAIN setq' : setq'[i] = NoEcu
      BY <1>1, <2>1, SettingSent DEF NoneLeft
    <2>3. NoneLeft(queue', setq')
      BY <2>2 DEF NoneLeft
    <2> QED
      BY <1>4, <2>1, <2>3 DEF Linked, Waits
  <1> QED
    BY <1>2, <1>3, <1>4 DEF NextOrLast, SameJob

\* Stored answers stay where they are, and a new one is the current ECU's.
LEMMA OwnAnswersKept ==
    ASSUME NEW e \in Structure, NEW f \in Structure, OwnAnswers(e),
           \/ SameJob(e, f)
           \/ Stores(e, f, CurrentEcu(e))
    PROVE  OwnAnswers(f)
  <1>1. Len(f.response) = Len(e.response) /\ f.request = e.request
    BY DEF SameJob, Stores, GoesOn
  <1>2. DOMAIN f.response = DOMAIN e.response
    BY <1>1, LenProperties DEF Structure
  <1> QED
    BY <1>1, <1>2 DEF SameJob, Stores, OwnAnswers, CurrentEcu

\* The thread steps that read anything but a request restart or stop the timer,
\* and find no timeout left.
LEMMA TimerRestarted ==
    ASSUME EngineInv, PromptInv, NEW id, id # "REQUEST", Read(id),
           NEW f, Effects(eng, f), f.current_cmd_state \in Waits \cup {"FINISHED"}
    PROVE  Timed(f, queue', setq', timer')
  <1>1. queue \in Seq(Msg) /\ queue # <<>> /\ Head(queue).id = id /\ queue' = Tail(queue)
    BY ReadFacts DEF EngineInv, EngineTypeOK
  <1>2. \A i \in DOMAIN queue' : queue'[i].id # "TIMEOUT"
    BY <1>1, TimedRead DEF PromptInv
  <1>3. timer' = (f.current_cmd_state # "FINISHED")
    BY DEF Effects
  <1> QED
    BY <1>2, <1>3 DEF Timed

\* A step within the current command.
LEMMA LinkedGoesOn ==
    ASSUME EngineInv, PromptInv, NEW id, Read(id), eng.current_cmd_state \in Waits,
           NEW f, Effects(eng, f), f.state = "EXECUTING", f.request = eng.request,
           f.current_cmd_no = eng.current_cmd_no,
           \/ f.current_cmd_state = eng.current_cmd_state
           \/ f.current_cmd_state \in {"DIAGNOSING", "CLOSING"} /\
              (eng.current_cmd_state # "OPENING" \/ id = "SET_MCU")
    PROVE  Linked(f, queue', setq', mcu', cb')
  <1>1. queue \in Seq(Msg) /\ queue # <<>> /\ Head(queue).id = id /\ queue' = Tail(queue)
    BY ReadFacts DEF EngineInv, EngineTypeOK
  <1>2. setq' = setq /\ cb' = cb /\ mcu' = mcu
    BY DEF Effects, Enters, Informs
  <1>3. CurrentEcu(f) = CurrentEcu(eng)
    BY DEF CurrentEcu
  <1>4. CASE CurrentEcu(eng) = TBox
    <2>1. NoneLeft(queue, setq) /\ (cb => setq = <<>>) /\ eng.current_cmd_state # "OPENING"
      BY <1>4 DEF PromptInv, Linked
    <2>2. NoneLeft(queue', setq)
      BY <1>1, <2>1, NoneLeftRead
    <2> QED
      BY <1>2, <1>3, <1>4, <2>1, <2>2 DEF Linked
  <1>5. CASE CurrentEcu(eng) # TBox
    <2>1. cb /\ Serves(eng, queue, setq, mcu)
      BY <1>5 DEF PromptInv, Linked
    <2>2. Serves(f, queue', setq, mcu)
      BY <1>1, <1>3, <2>1, ServesRead
    <2> QED
      BY <1>2, <1>3, <1>5, <2>1, <2>2 DEF Linked
  <1> QED
    BY <1>4, <1>5

\* An expected answer is the current ECU's, and nothing is left behind it.
LEMMA AckOwn ==
    ASSUME EngineInv, PromptInv, NEW id \in {"UDS", "MCU"}, Read(id), AckExpected
    PROVE  /\ Head(queue).ecu = CurrentEcu(eng)
           /\ NoneLeft(queue', setq) /\ (cb => setq = <<>>)
  <1>1. /\ queue \in Seq(Msg) /\ queue # <<>> /\ Head(queue) \in Msg
        /\ Head(queue).id = id /\ queue' = Tail(queue)
    BY ReadFacts DEF EngineInv, EngineTypeOK
  <1>2. /\ eng.current_cmd_state \in {"DIAGNOSING", "CLOSING"}
        /\ id = IF CurrentEcu(eng) = TBox THEN "UDS" ELSE "MCU"
    BY <1>1 DEF AckExpected
  <1>3. CASE CurrentEcu(eng) = TBox
    <2>1. NoneLeft(queue, setq) /\ (cb => setq = <<>>)
      BY <1>2, <1>3 DEF PromptInv, Linked, Waits
    <2>2. Head(queue).ecu = TBox
      BY <1>1, <1>2, <1>3, MsgFacts
    <2> QED
      BY <1>1, <1>3, <2>1, <2>2, NoneLeftRead
  <1>4. CASE CurrentEcu(eng) # TBox
    <2>1. Serves(eng, queue, setq, mcu)
      BY <1>2, <1>4 DEF PromptInv, Linked, Waits
    <2>2. /\ 1 \in DOMAIN queue /\ queue[1] = Head(queue)
          /\ \A i \in DOMAIN queue' :
               i \in Nat /\ i + 1 \in DOMAIN queue /\ queue'[i] = queue[i + 1]
      BY <1>1, TailAt
    <2>3. queue[1].id = "MCU" /\ Acked(eng, queue, 1)
      BY <1>1, <1>2, <1>4, <2>2 DEF Acked
    <2>4. /\ queue[1].ecu = CurrentEcu(eng) /\ setq = <<>>
          /\ \A k \in DOMAIN queue : 1 < k => ~SetAt(queue, k)
      BY <2>1, <2>2, <2>3 DEF Serves
    <2>5. \A i \in DOMAIN queue' : ~SetAt(queue', i)
      <3>1. queue' \in Seq(Msg)
        BY <1>1, TailAt
      <3>2. DOMAIN queue' = 1 .. Len(queue')
        BY <3>1, LenProperties
      <3> QED
        BY <2>2, <2>4, <3>2 DEF SetAt
    <2>6. \A i \in DOMAIN setq : setq[i] = NoEcu
      BY <2>4
    <2> QED
      BY <2>2, <2>4, <2>5, <2>6 DEF NoneLeft
  <1> QED
    BY <1>3, <1>4

\* Each message handler keeps the invariant of the stored answers.
LEMMA PromptThread ==
    ASSUME EngineInv, EngineInv', PromptInv, ThreadStep
    PROVE  PromptInv'
  <1>0. /\ EngineTypeOK /\ Settled(eng) /\ queue \in Seq(Msg)
        /\ setq \in Seq(Ecu \cup {NoEcu})
        /\ eng \in Structure /\ eng' \in Structure /\ Settled(eng')
    BY DEF EngineInv, EngineTypeOK
  <1>1. Linked(eng, queue, setq, mcu, cb) /\ Timed(eng, queue, setq, timer) /\ OwnAnswers(eng)
    BY DEF PromptInv
  <1>2. ASSUME NEW id, Read(id), NoEffects PROVE PromptInv'
    <2>1. queue # <<>> /\ queue' = Tail(queue)
      BY <1>0, <1>2, ReadFacts
    <2>2. Linked(eng, queue', setq, mcu, cb) /\ Timed(eng, queue', setq, timer)
      BY <1>0, <1>1, <2>1, LinkedRead, TimedRead
    <2> QED
      BY <1>1, <1>2, <2>2 DEF PromptInv, NoEffects
  <1>3. CASE remote_diag_process_start
    <2> DEFINE j == Head(queue).job
    <2>1. /\ Read("REQUEST") /\ queue # <<>> /\ queue' = Tail(queue)
          /\ j \in Job \cup {BadJob}
      BY <1>0, <1>3, ReadFacts, MsgFacts DEF remote_diag_process_start
    <2>2. CASE NoEffects
      BY <1>2, <2>1, <2>2
    <2>3. ASSUME eng.state # "EXECUTING"
          PROVE  /\ eng.current_cmd_state \notin Waits /\ ~timer /\ ~cb
                 /\ NoneLeft(queue', setq)
                 /\ \A i \in DOMAIN queue' : queue'[i].id # "TIMEOUT"
      <3>1. eng.current_cmd_state \notin Waits
        BY <1>0, <2>3 DEF Settled
      <3>2. Timed(eng, queue', setq, timer)
        BY <1>0, <1>1, <2>1, TimedRead
      <3>3. ~timer /\ \A i \in DOMAIN queue' : queue'[i].id # "TIMEOUT"
        BY <3>1, <3>2 DEF Timed
      <3>4. NoneLeft(queue, setq) /\ ~cb
        BY <1>1, <2>3 DEF Linked
      <3>5. NoneLeft(queue', setq)
        BY <1>0, <2>1, <3>4, NoneLeftRead
      <3> QED
        BY <3>1, <3>3, <3>4, <3>5
    <2>4. CASE /\ eng.state # "EXECUTING"
               /\ eng' = [eng EXCEPT !.request = <<>>]
               /\ UNCHANGED <<timer, bus, setq, mcu, cb>>
      <3>1. /\ eng'.state = eng.state /\ eng'.request = <<>>
            /\ eng'.current_cmd_state = eng.current_cmd_state
        BY <1>0, <2>4 DEF Structure
      <3>2. Linked(eng', queue', setq', mcu', cb')
        BY <2>3, <2>4, <3>1 DEF Linked
      <3>3. Timed(eng', queue', setq', timer')
        BY <2>3, <2>4, <3>1 DEF Timed
      <3> QED
        BY <3>1, <3>2, <3>3 DEF PromptInv, OwnAnswers
    <2>5. CASE eng.state # "EXECUTING" /\ j # BadJob /\ Effects(eng, StartJob(j))
      <3> DEFINE f == StartJob(j)
      <3>1. /\ f.state = "EXECUTING"
            /\ \A i \in DOMAIN f.response : f.response[i].from = NoEcu
            /\ f.current_cmd_state =
                 IF CurrentEcu(f) = TBox THEN "DIAGNOSING" ELSE "OPENING"
        BY <2>1, <2>5, StartJobFacts
      <3> HIDE DEF f
      <3>2. Effects(eng, f) /\ eng' = f /\ timer' = (f.current_cmd_state # "FINISHED")
        BY <2>5 DEF f, Effects
      <3>3. CurrentEcu(f) \in Ecu
        BY <1>0, <3>1, <3>2, CurrentEcuType DEF Waits
      <3>4. f.current_cmd_state = "OPENING" => Enters(eng, f, "OPENING")
        BY <2>3, <2>5 DEF Enters, Waits
      <3>5. Linked(f, queue', setq', mcu', cb')
        BY <1>0, <2>3, <2>5, <3>1, <3>2, <3>3, <3>4, FirstWait
      <3>6. Timed(f, queue', setq', timer')
        BY <2>3, <2>5, <3>1, <3>2 DEF Timed, Waits
      <3>7. OwnAnswers(f)
        BY <3>1 DEF OwnAnswers
      <3> QED
        BY <3>2, <3>5, <3>6, <3>7 DEF PromptInv
    <2> QED
      BY <1>3, <2>2, <2>4, <2>5 DEF remote_diag_process_start
  <1>4. CASE SetClientAck
    <2>1. Read("SET_MCU")
      BY <1>4 DEF SetClientAck
    <2>2. CASE eng.state = "EXECUTING" /\ eng.current_cmd_state = "OPENING"
      <3> DEFINE f == [eng EXCEPT !.current_cmd_state = "DIAGNOSING"]
      <3>1. /\ Effects(eng, f) /\ eng' = f /\ SameJob(eng, f)
            /\ GoesOn(eng, f, "DIAGNOSING")
        BY <1>0, <1>4, <2>2, GoesOnFacts DEF SetClientAck, Effects, Waits
      <3> HIDE DEF f
      <3>2. /\ f.state = "EXECUTING" /\ f.request = eng.request
            /\ f.current_cmd_no = eng.current_cmd_no
            /\ f.current_cmd_state = "DIAGNOSING"
        BY <2>2, <3>1 DEF GoesOn
      <3>3. Linked(f, queue', setq', mcu', cb')
        BY <2>1, <2>2, <3>1, <3>2, LinkedGoesOn DEF Waits
      <3>4. Timed(f, queue', setq', timer')
        BY <2>1, <3>1, <3>2, TimerRestarted DEF Waits
      <3>5. OwnAnswers(f)
        BY <1>0, <1>1, <3>1, OwnAnswersKept
      <3> QED
        BY <3>1, <3>3, <3>4, <3>5 DEF PromptInv
    <2>3. CASE ~(eng.state = "EXECUTING" /\ eng.current_cmd_state = "OPENING")
      BY <1>2, <1>4, <2>1, <2>3 DEF SetClientAck
    <2> QED
      BY <2>2, <2>3
  <1>5. ASSUME NEW id \in {"UDS", "MCU"}, remote_diag_process(id) PROVE PromptInv'
    <2>1. Read(id)
      BY <1>5 DEF remote_diag_process
    <2>2. CASE AckExpected
      <3>1. PICK f : /\ Settled(f) /\ Effects(eng, f)
                     /\ \/ f = eng
                        \/ SameJob(eng, f) /\ NextOrLast(eng, f)
                        \/ Stores(eng, f, Head(queue).ecu)
        BY <1>5, <2>2, AckFacts
      <3>2. /\ Head(queue).ecu = CurrentEcu(eng)
            /\ NoneLeft(queue', setq) /\ (cb => setq = <<>>)
        BY <2>1, <2>2, AckOwn
      <3>3. eng.state = "EXECUTING" /\ eng.current_cmd_state \in {"DIAGNOSING", "CLOSING"}
        BY <2>2 DEF AckExpected
      <3>4. eng' = f /\ f \in Structure
        BY <3>1 DEF Effects, Settled
      <3>5. f.current_cmd_state \in Waits \cup {"FINISHED"}
        BY <3>1, <3>3 DEF NextOrLast, Stores, GoesOn, Waits
      <3>6. OwnAnswers(f)
        BY <1>0, <1>1, <3>1, <3>2, <3>4, OwnAnswersKept
      <3>7. Linked(f, queue', setq', mcu', cb')
        <4>1. CASE f = eng \/ Stores(eng, f, Head(queue).ecu)
          <5>1. /\ f.state = "EXECUTING" /\ f.request = eng.request
                /\ f.current_cmd_no = eng.current_cmd_no
                /\ f.current_cmd_state \in {"DIAGNOSING", "CLOSING"}
            BY <3>3, <4>1 DEF Stores, GoesOn
          <5> QED
            BY <2>1, <3>1, <3>3, <5>1, LinkedGoesOn DEF Waits
        <4>2. CASE SameJob(eng, f) /\ NextOrLast(eng, f)
          BY <3>1, <3>2, <3>3, <4>2, CommandLeft
        <4> QED
          BY <3>1, <4>1, <4>2
      <3>8. Timed(f, queue', setq', timer')
        BY <2>1, <3>1, <3>5, TimerRestarted
      <3> QED
        BY <3>4, <3>6, <3>7, <3>8 DEF PromptInv
    <2>3. CASE ~AckExpected
      BY <1>2, <1>5, <2>1, <2>3 DEF remote_diag_process
    <2> QED
      BY <2>2, <2>3
  <1>6. CASE remote_diag_timeout_process
    <2> DEFINE f == AfterTimeout(eng)
    <2>1. Read("TIMEOUT") /\ Effects(eng, f)
      BY <1>6 DEF remote_diag_timeout_process
    <2>2. /\ Settled(f) /\ SameJob(eng, f)
          /\ IF eng.current_cmd_state = "DIAGNOSING" THEN GoesOn(eng, f, "CLOSING")
             ELSE NextOrLast(eng, f)
      BY <1>0, TimeoutFacts
    <2> HIDE DEF f
    <2>3. /\ queue # <<>> /\ queue' = Tail(queue) /\ 1 \in DOMAIN queue
          /\ queue[1].id = "TIMEOUT"
          /\ \A i \in DOMAIN queue' :
               i \in Nat /\ i + 1 \in DOMAIN queue /\ queue'[i] = queue[i + 1]
      BY <1>0, <2>1, ReadFacts, TailAt
    <2>4. /\ eng.current_cmd_state \in Waits /\ setq = <<>>
          /\ \A i \in DOMAIN queue : 1 < i => ~SetAt(queue, i)
      BY <1>1, <2>3 DEF Timed
    <2>5. NoneLeft(queue', setq)
      <3>1. DOMAIN queue' = 1 .. Len(queue')
        BY <1>0, <2>3, TailAt, LenProperties
      <3>2. \A i \in DOMAIN queue' : ~SetAt(queue', i)
        BY <2>3, <2>4, <3>1 DEF SetAt
      <3> QED
        BY <2>4, <3>2 DEF NoneLeft
    <2>6. eng.state = "EXECUTING"
      BY <1>0, <2>4 DEF Settled
    <2>7. eng' = f /\ f \in Structure
      BY <2>1, <2>2 DEF Effects, Settled
    <2>8. f.current_cmd_state \in Waits \cup {"FINISHED"}
      BY <2>2 DEF NextOrLast, GoesOn, Waits
    <2>9. Timed(f, queue', setq', timer')
      BY <2>1, <2>8, TimerRestarted
    <2>10. OwnAnswers(f)
      BY <1>0, <1>1, <2>2, <2>7, OwnAnswersKept
    <2>11. Linked(f, queue', setq', mcu', cb')
      <3>1. CASE eng.current_cmd_state = "DIAGNOSING"
        <4>1. /\ f.state = "EXECUTING" /\ f.request = eng.request
              /\ f.current_cmd_no = eng.current_cmd_no
              /\ f.current_cmd_state = "CLOSING"
          BY <2>2, <2>6, <3>1 DEF GoesOn
        <4> QED
          BY <2>1, <2>4, <3>1, <4>1, LinkedGoesOn
      <3>2. CASE eng.current_cmd_state # "DIAGNOSING"
        BY <2>1, <2>2, <2>4, <2>5, <2>6, <3>2, CommandLeft
      <3> QED
        BY <3>1, <3>2
    <2> QED
      BY <2>7, <2>9, <2>10, <2>11 DEF PromptInv
  <1> QED
    BY <1>3, <1>4, <1>5, <1>6 DEF ThreadStep

\* So do the clients, the timer, the MCU and the ECUs, as long as the timer is
\* the slower one.
LEMMA PromptPeers ==
    ASSUME Prompt, EngineInv, PromptInv,
           \/ remote_diag_request \/ TimerFires \/ McuAck
           \/ \E i \in DOMAIN bus : EcuAnswers(i) \/ EcuSilent(i)
    PROVE  PromptInv'
  <1>0. /\ EngineTypeOK /\ Settled(eng) /\ queue \in Seq(Msg)
        /\ setq \in Seq(Ecu \cup {NoEcu})
    BY DEF EngineInv, EngineTypeOK
  <1>1. Linked(eng, queue, setq, mcu, cb) /\ Timed(eng, queue, setq, timer) /\ OwnAnswers(eng)
    BY DEF PromptInv
  <1>2. CASE remote_diag_request
    <2>1. PICK j \in Job \cup {BadJob} : Put([id |-> "REQUEST", job |-> j]) /\ NoEffects
      BY <1>2 DEF remote_diag_request
    <2> DEFINE x == [id |-> "REQUEST", job |-> j]
    <2>2. x \in Msg /\ x.id = "REQUEST"
      BY DEF Msg
    <2> HIDE DEF x
    <2>3. queue' = Append(queue, x) /\ NoEffects
      BY <2>1 DEF Put, x
    <2>4. Linked(eng, queue', setq, mcu, cb) /\ Timed(eng, queue', setq, timer)
      BY <1>0, <1>1, <2>2, <2>3, LinkedPut, TimedPut
    <2> QED
      BY <1>1, <2>3, <2>4 DEF NoEffects, PromptInv
  <1>3. CASE TimerFires
    <2> DEFINE x == [id |-> "TIMEOUT"]
    <2>1. x \in Msg /\ x.id = "TIMEOUT"
      BY DEF Msg
    <2>2. /\ timer /\ ~timer' /\ setq = <<>>
          /\ \A i \in DOMAIN queue : queue[i].id = "REQUEST"
          /\ queue' = Append(queue, x)
          /\ UNCHANGED <<eng, setq, mcu, cb>>
      BY <1>3 DEF TimerFires, Put
    <2> HIDE DEF x
    <2>3. Linked(eng, queue', setq, mcu, cb)
      BY <1>0, <1>1, <2>1, <2>2, LinkedPut
    <2>4. eng.current_cmd_state \in Waits
      BY <1>1, <2>2 DEF Timed
    <2>5. /\ Len(queue) \in Nat
          /\ DOMAIN queue = 1 .. Len(queue) /\ DOMAIN queue' = 1 .. Len(queue) + 1
          /\ \A i \in DOMAIN queue : queue'[i] = queue[i]
          /\ queue'[Len(queue) + 1] = x
      BY <1>0, <2>1, <2>2, AppendAt
    <2>6. Timed(eng, queue', setq, timer')
      BY <2>1, <2>2, <2>4, <2>5 DEF Timed
    <2> QED
      BY <1>1, <2>2, <2>3, <2>6 DEF PromptInv
  <1>4. CASE McuAck
    <2> DEFINE x == [id |-> "SET_MCU"]
    <2>1. x \in Msg /\ x.id = "SET_MCU"
      BY DEF Msg
    <2>2. /\ setq # <<>> /\ setq' = Tail(setq) /\ mcu' = Head(setq)
          /\ queue' = IF cb THEN Append(queue, x) ELSE queue
          /\ UNCHANGED <<eng, timer, cb>>
      BY <1>4 DEF McuAck, Put
    <2> HIDE DEF x
    <2>3. Timed(eng, queue', setq', timer)
      <3>1. CASE cb
        BY <1>0, <1>1, <2>1, <2>2, <3>1, TimedPut
      <3>2. CASE ~cb
        BY <1>1, <2>2, <3>2 DEF Timed
      <3> QED
        BY <3>1, <3>2
    <2>4. Linked(eng, queue', setq', mcu', cb)
      <3>1. ASSUME NoneLeft(queue, setq), cb => setq = <<>>
            PROVE  NoneLeft(queue', setq') /\ ~cb
        <4>1. ~cb /\ queue' = queue
          BY <2>2, <3>1
        <4>2. \A i \in DOMAIN setq' : setq'[i] = NoEcu
          <5>1. /\ setq' \in Seq(Ecu \cup {NoEcu}) /\ Len(setq') = Len(setq) - 1
                /\ \A i \in 1 .. Len(setq') : setq'[i] = setq[i + 1]
            BY <1>0, <2>2, HeadTailProperties
          <5>2. DOMAIN setq' = 1 .. Len(setq') /\ DOMAIN setq = 1 .. Len(setq)
                /\ Len(setq) \in Nat
            BY <1>0, <5>1, LenProperties
          <5> QED
            BY <3>1, <5>1, <5>2 DEF NoneLeft
        <4> QED
          BY <3>1, <4>1, <4>2 DEF NoneLeft
      <3>2. ASSUME cb, Serves(eng, queue, setq, mcu)
            PROVE  Serves(eng, queue', setq', mcu')
        BY <1>0, <2>1, <2>2, <3>2, ServesAck
      <3> QED
        BY <1>1, <3>1, <3>2 DEF Linked
    <2> QED
      BY <1>1, <2>2, <2>3, <2>4 DEF PromptInv
  <1>5. ASSUME NEW i \in DOMAIN bus, EcuAnswers(i) PROVE PromptInv'
    <2>1. bus[i].ecu \in Ecu
      <3> DEFINE B == [ecu : Ecu, pend : Nat]
      <3>1. bus \in Seq(B)
        BY <1>0 DEF EngineTypeOK
      <3> HIDE DEF B
      <3>2. bus[i] \in B
        BY <3>1, ElementOfSeq, LenProperties
      <3> QED
        BY <3>2 DEF B
    <2>2. PICK kind \in Kinds :
             \/ bus[i].ecu = TBox /\ Put([id |-> "UDS", kind |-> kind, ecu |-> bus[i].ecu])
             \/ /\ bus[i].ecu # TBox /\ bus[i].ecu = mcu /\ cb
                /\ Put([id |-> "MCU", kind |-> kind, ecu |-> bus[i].ecu])
      BY <1>5 DEF EcuAnswers
    <2>3. UNCHANGED <<eng, timer, setq, mcu, cb>>
      BY <1>5 DEF EcuAnswers
    <2>4. CASE Put([id |-> "UDS", kind |-> kind, ecu |-> bus[i].ecu]) /\ bus[i].ecu = TBox
      <3> DEFINE x == [id |-> "UDS", kind |-> kind, ecu |-> bus[i].ecu]
      <3>1. x \in Msg /\ x.id = "UDS" /\ queue' = Append(queue, x)
        BY <2>4 DEF Msg, Put
      <3> HIDE DEF x
      <3>2. Linked(eng, queue', setq, mcu, cb) /\ Timed(eng, queue', setq, timer)
        BY <1>0, <1>1, <3>1, LinkedPut, TimedPut
      <3> QED
        BY <1>1, <2>3, <3>2 DEF PromptInv
    <2>5. CASE /\ bus[i].ecu # TBox /\ bus[i].ecu = mcu /\ cb
               /\ Put([id |-> "MCU", kind |-> kind, ecu |-> bus[i].ecu])
      <3> DEFINE x == [id |-> "MCU", kind |-> kind, ecu |-> bus[i].ecu]
      <3>1. /\ x \in Msg /\ x.id = "MCU" /\ x.ecu = mcu
            /\ queue' = Append(queue, x)
        BY <2>1, <2>5 DEF Msg, Put
      <3> HIDE DEF x
      <3>2. Timed(eng, queue', setq, timer)
        BY <1>0, <1>1, <3>1, TimedPut
      <3>3. ASSUME NoneLeft(queue, setq) PROVE NoneLeft(queue', setq)
        BY <1>0, <3>1, <3>3, NoneLeftPut
      <3>4. ASSUME Serves(eng, queue, setq, mcu) PROVE Serves(eng, queue', setq, mcu)
        <4>1. mcu # NoEcu
          BY <2>1, <2>5, EngineAssumption
        <4>2. Acked(eng, queue, Len(queue) + 1) => setq = <<>> /\ mcu = CurrentEcu(eng)
          BY <3>4, <4>1 DEF Serves
        <4> QED
          BY <1>0, <3>1, <3>4, <4>2, ServesPut
      <3>5. Linked(eng, queue', setq, mcu, cb)
        BY <1>1, <3>3, <3>4 DEF Linked
      <3> QED
        BY <1>1, <2>3, <3>2, <3>5 DEF PromptInv
    <2> QED
      BY <2>2, <2>4, <2>5
  <1>6. ASSUME NEW i \in DOMAIN bus, EcuSilent(i) PROVE PromptInv'
    BY <1>1, <1>6 DEF EcuSilent, PromptInv
  <1> QED
    BY <1>2, <1>3, <1>4, <1>5, <1>6

\* When the MCU applies a client setting and the thread reads an answer before
\* the timer expires, an answer is stored under the ECU that gave it: for every
\* list of ECUs, and however many answers of earlier jobs are still on the bus.
THEOREM AnswersAreOwn == EngineSpec => []AnswerFromItsEcu
  <1>1. EngineInit => PromptInv
    BY DEF EngineInit, PromptInv, Linked, NoneLeft, Timed, OwnAnswers, Waits
  <1>2. ASSUME Prompt, EngineInv, EngineInv', PromptInv, [EngineNext]_engVars
        PROVE  PromptInv'
    <2>1. CASE UNCHANGED engVars
      BY <1>2, <2>1 DEF engVars, PromptInv
    <2> QED
      BY <1>2, <2>1, PromptThread, PromptPeers DEF EngineNext
  <1>3. PromptInv => AnswerFromItsEcu
    BY DEF PromptInv, OwnAnswers, AnswerFromItsEcu
  <1>4. ~Prompt => AnswerFromItsEcu
    BY DEF AnswerFromItsEcu
  <1>5. Prompt => (EngineInv /\ EngineInv' /\ PromptInv /\ [EngineNext]_engVars => PromptInv')
    BY <1>2
  <1>6. CASE Prompt
    BY <1>1, <1>3, <1>5, <1>6, EngineInvAlways, PTL DEF EngineSpec
  <1>7. CASE ~Prompt
    BY <1>4, <1>7, PTL
  <1> QED
    BY <1>6, <1>7
=============================================================================
