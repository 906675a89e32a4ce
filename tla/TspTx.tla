-------------------------------- MODULE TspTx --------------------------------
(***************************************************************************)
(* The queue of messages to the TSP (sockproxy_txdata.c) and the send      *)
(* thread that empties it (sockproxy_do_send in sockproxy.c).  The nodes   *)
(* of a fixed pool move between three lists under SP_txmtx: free, waiting  *)
(* (realtm), and sent but not yet acknowledged (trans).  Every send, also  *)
(* one of the GB/T 32960 thread, acknowledges the oldest node of trans.    *)
(* The send thread tells the writer of a message what became of it, through*)
(* the callback it reads from the node after it has put the node on trans. *)
(* Messages are numbered in the order in which they are written.           *)
(***************************************************************************)
EXTENDS Naturals, Sequences

CONSTANTS
    SP_MAX_SENDQUEUE,       \* the nodes of the pool: 120
    MaxMessages     \* bound: how many messages are written

ASSUME TspTxAssumption == SP_MAX_SENDQUEUE \in Nat \ {0} /\ MaxMessages \in Nat

Kinds == {"SIGTIME", "SIGTRIG", "CONTINUE"}     \* pakgtype
Results == {"sent", "fail", "wait", "late"}     \* > 0, < 0 and 0 of the send; out of date
Messages == 1..MaxMessages
Nodes == 1..SP_MAX_SENDQUEUE

VARIABLES
    SP_free_lst, SP_realtm_lst, SP_trans_lst,
    msg,            \* the message in each node, which stands for its callback and parameter
    written, kind,  \* how many messages were written; the kind of each
    late,           \* the messages of kind SIGTIME that are past due
    pc, rpt, cur, res,      \* the send thread: its node, the message it took, the result
    fate, told,     \* what became of each message; what its writer was told last
    dry             \* history: the last free node, or one of trans, was given out

lists == <<SP_free_lst, SP_realtm_lst, SP_trans_lst>>
messageVars == <<msg, written, kind, fate, dry>>
vars == <<lists, messageVars, late, pc, rpt, cur, res, told>>

TxInit ==
    /\ SP_free_lst = [n \in Nodes |-> n] /\ SP_realtm_lst = <<>> /\ SP_trans_lst = <<>>
    /\ msg = [n \in Nodes |-> 0] /\ written = 0 /\ kind = [m \in Messages |-> "none"]
    /\ late = {} /\ pc = "get" /\ rpt = 1 /\ cur = 0 /\ res = "wait"
    /\ fate = [m \in Messages |-> "none"] /\ told = [m \in Messages |-> "none"]
    /\ dry = FALSE

-----------------------------------------------------------------------------
(* The queue.                                                              *)

\* SP_data_write puts the node at the end of realtm.
Enqueue(n, k) ==
    /\ SP_realtm_lst' = Append(SP_realtm_lst, n)
    /\ msg' = [msg EXCEPT ![n] = written + 1]
    /\ fate' = [fate EXCEPT ![written + 1] = "waiting"]
    /\ kind' = [kind EXCEPT ![written + 1] = k] /\ written' = written + 1
WriteTransFirst(k) ==
    /\ written < MaxMessages /\ SP_free_lst # <<>>
    /\ IF SP_trans_lst # <<>>
       THEN Enqueue(Head(SP_trans_lst), k) /\ SP_trans_lst' = Tail(SP_trans_lst)
            /\ UNCHANGED <<SP_free_lst, dry>>
       ELSE Enqueue(Head(SP_free_lst), k) /\ SP_free_lst' = Tail(SP_free_lst)
            /\ dry' = (dry \/ Len(SP_free_lst) = 1) /\ UNCHANGED SP_trans_lst
    /\ UNCHANGED <<late, pc, rpt, cur, res, told>>
WriteFree(k) ==
    /\ written < MaxMessages /\ SP_free_lst # <<>>
    /\ Enqueue(Head(SP_free_lst), k) /\ SP_free_lst' = Tail(SP_free_lst)
    /\ dry' = (dry \/ Len(SP_free_lst) = 1)
    /\ UNCHANGED <<SP_trans_lst, late, pc, rpt, cur, res, told>>
\* A node that is sent but not acknowledged is used when none is free.
WriteTrans(k) ==
    /\ written < MaxMessages /\ SP_free_lst = <<>> /\ SP_trans_lst # <<>>
    /\ Enqueue(Head(SP_trans_lst), k) /\ SP_trans_lst' = Tail(SP_trans_lst)
    /\ dry' = TRUE
    /\ UNCHANGED <<SP_free_lst, late, pc, rpt, cur, res, told>>
\* Without a node the message is dropped, and its writer does not learn of it.
WriteDrops(k) ==
    /\ written < MaxMessages /\ SP_free_lst = <<>> /\ SP_trans_lst = <<>>
    /\ kind' = [kind EXCEPT ![written + 1] = k] /\ written' = written + 1
    /\ fate' = [fate EXCEPT ![written + 1] = "dropped"]
    /\ UNCHANGED <<lists, msg, dry, late, pc, rpt, cur, res, told>>
SP_data_write(k) == WriteFree(k) \/ WriteTrans(k) \/ WriteDrops(k)

SP_data_ack_pack ==
    IF SP_trans_lst = <<>>
    THEN UNCHANGED <<SP_free_lst, SP_trans_lst>>
    ELSE /\ SP_free_lst' = Append(SP_free_lst, Head(SP_trans_lst))
         /\ SP_trans_lst' = Tail(SP_trans_lst)

PutBackLast == SP_realtm_lst' = Append(SP_realtm_lst, rpt)
SP_data_put_back == SP_realtm_lst' = <<rpt>> \o SP_realtm_lst
SP_data_put_send == SP_trans_lst' = Append(SP_trans_lst, rpt)

-----------------------------------------------------------------------------
(* The send thread: sockproxy_do_send.                                     *)

\* The kind and the time are read through the parameter that the node holds now.
SP_data_get_pack ==
    /\ pc = "get" /\ SP_realtm_lst # <<>>
    /\ rpt' = Head(SP_realtm_lst) /\ SP_realtm_lst' = Tail(SP_realtm_lst)
    /\ cur' = msg[rpt']
    /\ IF kind[cur'] = "SIGTIME" /\ cur' \in late
       THEN res' = "late" /\ pc' = "put"
       ELSE res' = res /\ pc' = "send"
    /\ UNCHANGED <<SP_free_lst, SP_trans_lst, messageVars, late, told>>

\* sockproxy_MsgSend: 0 when sendmtx is taken or the link is closed; otherwise it
\* acknowledges the oldest node first and then sends.
sockproxy_MsgSend(r) ==
    /\ pc = "send" /\ r \in {"sent", "fail", "wait"} /\ res' = r /\ pc' = "put"
    /\ IF r = "wait" THEN UNCHANGED <<SP_free_lst, SP_trans_lst>> ELSE SP_data_ack_pack
    /\ UNCHANGED <<SP_realtm_lst, messageVars, late, rpt, cur, told>>

\* A message that is to be sent again goes back to the head of the queue.
Retry == \/ res = "wait" /\ kind[cur] # "SIGTRIG"
         \/ res = "fail" /\ kind[cur] = "CONTINUE"
PutBack ==
    /\ pc = "put" /\ Retry /\ SP_data_put_back /\ pc' = "get"
    /\ told' = IF res = "fail" THEN [told EXCEPT ![msg[rpt]] = "fail"] ELSE told
    /\ UNCHANGED <<SP_free_lst, SP_trans_lst, messageVars, late, rpt, cur, res>>
\* One that is done goes to trans; a SIGTRIG that could not be sent at all has failed.
PutSend ==
    /\ pc = "put" /\ ~Retry /\ SP_data_put_send /\ pc' = "inform"
    /\ fate' = [fate EXCEPT ![cur] = IF res = "wait" THEN "fail" ELSE res]
    /\ UNCHANGED <<SP_free_lst, SP_realtm_lst, msg, written, kind, dry, late, rpt, cur, res, told>>
\* The callback of the node, with its parameter: the result is in it if it is still
\* the parameter the thread took, otherwise whatever the newer message has in it.
InformSent ==
    /\ pc = "inform" /\ pc' = "get"
    /\ told' = IF res = "sent" THEN [told EXCEPT ![msg[rpt]] = "sent"] ELSE told
    /\ UNCHANGED <<lists, messageVars, late, rpt, cur, res>>
Inform ==
    /\ pc = "inform" /\ pc' = "get"
    /\ \E t \in (IF msg[rpt] = cur THEN {fate[cur]} ELSE {"fail", "sent"}) :
          told' = [told EXCEPT ![msg[rpt]] = t]
    /\ UNCHANGED <<lists, messageVars, late, rpt, cur, res>>

SendThread == SP_data_get_pack \/ (\E r \in Results : sockproxy_MsgSend(r)) \/ PutBack
              \/ PutSend \/ Inform

\* The GB/T 32960 thread sends on the same link.
GbSends ==
    /\ SP_trans_lst # <<>> /\ SP_data_ack_pack
    /\ UNCHANGED <<SP_realtm_lst, messageVars, late, pc, rpt, cur, res, told>>
OutOfTime(m) ==
    /\ fate[m] = "waiting" /\ kind[m] = "SIGTIME" /\ m \notin late /\ late' = late \cup {m}
    /\ UNCHANGED <<lists, messageVars, pc, rpt, cur, res, told>>

TxNext == \/ \E k \in Kinds : SP_data_write(k)
          \/ SendThread \/ GbSends
          \/ \E m \in Messages : OutOfTime(m)

\* The thread runs, and a link that is lost comes back.
TxFairness == WF_vars(SendThread) /\ SF_vars(sockproxy_MsgSend("sent"))
TxSpec == TxInit /\ [][TxNext]_vars /\ TxFairness

-----------------------------------------------------------------------------
\* The values of the variables.
TxTypeOK ==
    /\ SP_free_lst \in Seq(Nodes) /\ SP_realtm_lst \in Seq(Nodes) /\ SP_trans_lst \in Seq(Nodes)
    /\ msg \in [Nodes -> 0..MaxMessages] /\ written \in 0..MaxMessages
    /\ kind \in [Messages -> Kinds \cup {"none"}] /\ late \subseteq Messages
    /\ pc \in {"get", "send", "put", "inform"} /\ rpt \in Nodes
    /\ cur \in 0..MaxMessages /\ res \in Results
    /\ fate \in [Messages -> {"none", "waiting", "sent", "fail", "late", "dropped"}]
    /\ told \in [Messages -> {"none", "sent", "fail", "late"}] /\ dry \in BOOLEAN

\* No node is lost or in two places: each is on exactly one of the lists, once, or
\* held by the send thread.
On(lst, n) == \E i \in DOMAIN lst : lst[i] = n
Held(n) == pc \in {"send", "put"} /\ rpt = n
Once(lst) == \A i, j \in DOMAIN lst : lst[i] = lst[j] => i = j
EachNodeOnce ==
    /\ Once(SP_free_lst) /\ Once(SP_realtm_lst) /\ Once(SP_trans_lst)
    /\ \A n \in Nodes :
          \/ On(SP_free_lst, n) /\ ~On(SP_realtm_lst, n) /\ ~On(SP_trans_lst, n) /\ ~Held(n)
          \/ ~On(SP_free_lst, n) /\ On(SP_realtm_lst, n) /\ ~On(SP_trans_lst, n) /\ ~Held(n)
          \/ ~On(SP_free_lst, n) /\ ~On(SP_realtm_lst, n) /\ On(SP_trans_lst, n) /\ ~Held(n)
          \/ ~On(SP_free_lst, n) /\ ~On(SP_realtm_lst, n) /\ ~On(SP_trans_lst, n) /\ Held(n)

\* Messages are done with in the order in which they were written: one that is put
\* back does not fall behind another, however often it is tried.
DoneInOrder ==
    \A m \in Messages : fate[m] = "waiting" =>
        \A later \in (m + 1)..MaxMessages : fate[later] \in {"none", "waiting", "dropped"}

\* A writer is told what became of its own message, as long as the pool has not
\* been drained: the node whose callback is read after it was put on trans has not
\* been given to another message in between.
ToldItsOwn ==
    ~dry => \A m \in Messages :
        \/ told[m] \in {"none", fate[m]}
        \/ told[m] = "fail" /\ kind[m] = "CONTINUE"

\* Every message that got a node is sent, or its writer learns that it was not,
\* as long as the pool has not been drained.
WritersLearn ==
    \A m \in Messages : fate[m] = "waiting" ~> dry \/ told[m] = fate[m]
=============================================================================
