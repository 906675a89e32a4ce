-------------------------------- MODULE TspRx --------------------------------
(***************************************************************************)
(* The ring through which the receive thread hands the messages of the TSP *)
(* to the thread of a protocol (sockproxy_rxdata.c; one ring for GB/T      *)
(* 32960, one for the private protocol).  There is no lock: the writer     *)
(* fills a slot and then sets its flag, the reader copies a slot and then  *)
(* clears its flag.  The writer does not look whether the slot it fills    *)
(* has been read.  Messages are numbered in the order of their arrival; a  *)
(* slot that is half written holds TORN.                                   *)
(***************************************************************************)
EXTENDS Naturals, Sequences

CONSTANTS
    SP_QUEUE_LNG,   \* the slots of a ring: 10
    MaxArrivals     \* bound: how many messages arrive

ASSUME TspRxAssumption == SP_QUEUE_LNG \in Nat \ {0} /\ MaxArrivals \in Nat

Slots == 0..(SP_QUEUE_LNG - 1)
TORN == MaxArrivals + 1

VARIABLES
    data, NonEmptyFlg,      \* SPCache
    HeadLabel, TialLabel,
    arrived, wr,            \* how many messages arrived; the writer is filling a slot
    rd, copy,               \* the reader; the message it copied
    got,                    \* the messages the protocol has got
    lapped                  \* history: a slot was filled that had not been read

writerVars == <<HeadLabel, arrived, wr, lapped>>
readerVars == <<TialLabel, rd, copy, got>>
rxvars == <<data, NonEmptyFlg, writerVars, readerVars>>

\* ClrSockproxyData_Queue.
RxInit ==
    /\ data = [s \in Slots |-> 0] /\ NonEmptyFlg = [s \in Slots |-> FALSE]
    /\ HeadLabel = 0 /\ TialLabel = 0 /\ arrived = 0 /\ wr = FALSE
    /\ rd = "check" /\ copy = 0 /\ got = <<>> /\ lapped = FALSE

NextSlot(s) == IF s + 1 = SP_QUEUE_LNG THEN 0 ELSE s + 1

\* WrSockproxyData_Queue: the data and the length first ...
FlagFirst ==
    /\ ~wr /\ arrived < MaxArrivals /\ wr' = TRUE /\ arrived' = arrived + 1
    /\ data' = [data EXCEPT ![HeadLabel] = TORN]
    /\ NonEmptyFlg' = [NonEmptyFlg EXCEPT ![HeadLabel] = TRUE]
    /\ lapped' = (lapped \/ NonEmptyFlg[HeadLabel])
    /\ UNCHANGED <<HeadLabel, readerVars>>
WriteFills ==
    /\ ~wr /\ arrived < MaxArrivals /\ wr' = TRUE /\ arrived' = arrived + 1
    /\ data' = [data EXCEPT ![HeadLabel] = TORN]
    /\ lapped' = (lapped \/ NonEmptyFlg[HeadLabel])
    /\ UNCHANGED <<NonEmptyFlg, HeadLabel, readerVars>>
\* ... then the flag, and the next slot.
WriteFlags ==
    /\ wr /\ wr' = FALSE
    /\ data' = [data EXCEPT ![HeadLabel] = arrived]
    /\ NonEmptyFlg' = [NonEmptyFlg EXCEPT ![HeadLabel] = TRUE]
    /\ HeadLabel' = NextSlot(HeadLabel)
    /\ UNCHANGED <<arrived, lapped, readerVars>>

\* RdSockproxyData_Queue: nothing without the flag; otherwise the slot is copied,
\* its flag cleared, and the reader goes on to the next slot.
ReadCopies ==
    /\ rd = "check" /\ NonEmptyFlg[TialLabel] /\ rd' = "clear"
    /\ copy' = data[TialLabel]
    /\ UNCHANGED <<data, NonEmptyFlg, writerVars, TialLabel, got>>
ReadStays ==
    /\ rd = "clear" /\ rd' = "check"
    /\ NonEmptyFlg' = [NonEmptyFlg EXCEPT ![TialLabel] = FALSE] /\ got' = Append(got, copy)
    /\ UNCHANGED <<data, writerVars, copy, TialLabel>>
ReadClears ==
    /\ rd = "clear" /\ rd' = "check"
    /\ NonEmptyFlg' = [NonEmptyFlg EXCEPT ![TialLabel] = FALSE]
    /\ TialLabel' = NextSlot(TialLabel) /\ got' = Append(got, copy)
    /\ UNCHANGED <<data, writerVars, copy>>

Reader == ReadCopies \/ ReadClears
RxNext == WriteFills \/ WriteFlags \/ Reader

RxFairness == WF_rxvars(WriteFlags) /\ WF_rxvars(Reader)
RxSpec == RxInit /\ [][RxNext]_rxvars /\ RxFairness

-----------------------------------------------------------------------------
\* The values of the variables.
RxTypeOK ==
    /\ data \in [Slots -> 0..TORN] /\ NonEmptyFlg \in [Slots -> BOOLEAN]
    /\ HeadLabel \in Slots /\ TialLabel \in Slots /\ arrived \in 0..MaxArrivals
    /\ wr \in BOOLEAN /\ rd \in {"check", "clear"} /\ copy \in 0..TORN
    /\ got \in Seq(0..TORN) /\ lapped \in BOOLEAN

\* Without a lock, the protocol gets every message whole, once and in the order of
\* arrival, until the ring overflows.
ReadsInOrder == ~lapped => \A i \in DOMAIN got : got[i] = i

\* Every message that arrives is read, until the ring overflows.
ArrivalsAreRead == []<>(lapped \/ Len(got) = arrived)
=============================================================================
