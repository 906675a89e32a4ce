----------------------------- MODULE MCTspQueues -----------------------------
(***************************************************************************)
(* What the threads pass on to each other: both queues between the         *)
(* protocols and the TSP link, the report store of GB/T 32960, and the     *)
(* stream that is cut into messages.  They share nothing, so a behaviour   *)
(* exercises one of them and leaves the others as they start.              *)
(***************************************************************************)
EXTENDS TspTx, TspRx, GbData, TspStream

VARIABLE side

\* Of each kind the shortest message, one with more data and one that does not fit.
MCSendable == [kind : {"GB"}, bytes : {6, 7, 9}] \cup [kind : {"PRIV"}, bytes : {4, 6, 9}]

MCInit == TxInit /\ RxInit /\ GbDataInit /\ StInit /\ side \in {"tx", "rx", "gb", "st"}

MCNext == \/ side = "tx" /\ TxNext /\ UNCHANGED <<rxvars, gbvars, stvars, side>>
          \/ side = "rx" /\ RxNext /\ UNCHANGED <<vars, gbvars, stvars, side>>
          \/ side = "gb" /\ GbDataNext /\ UNCHANGED <<vars, rxvars, stvars, side>>
          \/ side = "st" /\ StNext /\ UNCHANGED <<vars, rxvars, gbvars, side>>

MCSpec == /\ MCInit /\ [][MCNext]_<<vars, rxvars, gbvars, stvars, side>>
          /\ TxFairness /\ RxFairness
=============================================================================
