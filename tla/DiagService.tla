---------------------------- MODULE DiagService ----------------------------
(***************************************************************************)
(* What the remote diagnosis thread promises to its clients.               *)
(*                                                                         *)
(* A client posts a job to the thread's mailbox and is not told whether it *)
(* was accepted.  The thread works on one job at a time: a job it takes    *)
(* out of the mailbox while it is busy, or that names no ECU, is thrown    *)
(* away.  The end of a job is announced with one callback, which carries   *)
(* nothing: not the job, not its client.                                   *)
(*                                                                         *)
(* RmtDiag is built on these actions, and RemoteDiagEngine is shown to     *)
(* implement them.                                                         *)
(***************************************************************************)
EXTENDS Sequences, Naturals

CONSTANTS
    Job,            \* the jobs that name at least one ECU
    BadJob,         \* a job whose ECU number is out of range
    NoJob,
    MaxMailbox      \* bound on the mailbox

ASSUME ServiceAssumption ==
    /\ BadJob \notin Job
    /\ NoJob \notin Job \cup {BadJob}
    /\ MaxMailbox \in Nat \ {0}

VARIABLES
    mailbox,        \* REMOTE_DIAG_REQUEST messages not yet read
    job             \* the job being executed, or NoJob

svcVars == <<mailbox, job>>

ServiceTypeOK ==
    /\ mailbox \in Seq(Job \cup {BadJob})
    /\ job \in Job \cup {NoJob}

ServiceInit == mailbox = <<>> /\ job = NoJob

\* remote_diag_request: tcom_send_msg to the thread.
Post(j) == Len(mailbox) < MaxMailbox /\ mailbox' = Append(mailbox, j)

\* remote_diag_process_start, with the three ways it can go.
Take ==
    /\ mailbox # <<>>
    /\ mailbox' = Tail(mailbox)
    /\ job' = IF job = NoJob /\ Head(mailbox) \in Job THEN Head(mailbox)
              ELSE job

\* remote_diag_excuted_result_output: the job ends and its client is called.
Announce == job # NoJob /\ job' = NoJob

ServiceNext ==
    \/ \E j \in Job \cup {BadJob} : Post(j) /\ UNCHANGED job
    \/ Take
    \/ Announce /\ UNCHANGED mailbox

ServiceSpec == ServiceInit /\ [][ServiceNext]_svcVars
=============================================================================
