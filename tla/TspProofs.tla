----------------------------- MODULE TspProofs -----------------------------
(***************************************************************************)
(* Proofs about the way to the TSP: the link itself, for every limit of    *)
(* the sleep wait, the queues between the protocols and the link, and the  *)
(* report store of GB/T 32960, for every size of the rings and the pools;  *)
(* and the way back: how the stream is cut into messages, for every length *)
(* of the messages, of their headers and of the receive calls.             *)
(***************************************************************************)
EXTENDS TspLink, TspTx, TspRx, TspStream, GbData, TLAPS

-----------------------------------------------------------------------------
(* The link.                                                               *)

\* sendmtx is held by the socket thread while it closes the link, and by a sender
\* while it sends.
MutexInv ==
    /\ sendmtx = "socket" <=> sockpc \in {"close", "join", "forced", "unlock"}
    /\ sending # "none" <=> sendmtx = "sender"

\* The link that is open is the one of linkSt; a forced close finds it open.
LinkInv ==
    /\ ClosesWhatItOpened
    /\ conn # "none" => step \in {"CREAT", "CLOSE"}
    /\ sockpc \in {"join", "forced"} => state = "CLOSE_WAIT"
    /\ sockpc = "close" => linkSt \in Links

\* A receiver that was cancelled is missed only until a new link is set up.
ReceiverInv ==
    /\ rcv = "gone" <=> cancelRcvphreadFlag
    /\ rcv = "gone" => sockpc = "forced" \/ linkSt = "CERT"

SafetyInv == MutexInv /\ LinkInv /\ ReceiverInv /\ SendsOnOpenLink

-----------------------------------------------------------------------------
\* Every step keeps the type.
LEMMA TspLinkTypeStep == TspLinkTypeOK /\ [TspLinkNext]_sockVars => TspLinkTypeOK'
  <1> SUFFICES ASSUME TspLinkTypeOK, [TspLinkNext]_sockVars
               PROVE  TspLinkTypeOK'
    OBVIOUS
  <1> USE TspLinkAssumption
      DEF TspLinkTypeOK, Links, closeVars, linkVars, rcvVars, sendVars, sleepVars, envVars
  <1>1. CASE CheckCert
    <2>1. cancelRcvphreadFlag' \in BOOLEAN
      BY <1>1, Zenon DEF CheckCert
    <2> QED
      BY <2>1, <1>1 DEF CheckCert
  <1>2. CASE LinkStarts
    BY <1>2 DEF LinkStarts
  <1>3. CASE \E ok \in BOOLEAN : Connect(ok)
    BY <1>3 DEF Connect
  <1>4. CASE LinkOpen
    <2>1. asynCloseFlg' \in BOOLEAN
      BY <1>4, Zenon DEF LinkOpen
    <2> QED
      BY <2>1, <1>4 DEF LinkOpen
  <1>5. CASE CloseTries
    BY <1>5 DEF CloseTries
  <1>6. CASE LinkCloses
    BY <1>6 DEF LinkCloses, Close
  <1>7. CASE ForcedCloseLock
    BY <1>7 DEF ForcedCloseLock
  <1>8. CASE NotForced
    <2>1. closeLate' \in BOOLEAN
      BY <1>8, Zenon DEF NotForced
    <2> QED
      BY <2>1, <1>8 DEF NotForced
  <1>9. CASE CancelReceiver
    <2>1. cancelRcvphreadFlag' \in BOOLEAN /\ asynCloseFlg' \in BOOLEAN /\ rcvflag' \in BOOLEAN
      BY <1>9, Zenon DEF CancelReceiver
    <2> QED
      BY <2>1, <1>9 DEF CancelReceiver
  <1>10. CASE ForcedClose
    BY <1>10 DEF ForcedClose, Close
  <1>11. CASE ForcedCloseUnlock
    BY <1>11 DEF ForcedCloseUnlock
  <1>12. CASE CheckSleep
    <2>1. sleepLate' \in BOOLEAN /\ sleepFlag' \in BOOLEAN
      BY <1>12, Zenon DEF CheckSleep, MaySleep
    <2> QED
      BY <2>1, <1>12 DEF CheckSleep, MaySleep
  <1>13. CASE OtherCloses
    BY <1>13 DEF OtherCloses, AskClose
  <1>14. CASE CloseAsked
    BY <1>14 DEF CloseAsked
  <1>15. CASE ReceiverChecks
    BY <1>15 DEF ReceiverChecks
  <1>16. CASE ReceiverWaits
    BY <1>16 DEF ReceiverWaits
  <1>17. CASE ReceiverReturns
    <2>1. rcvflag' \in BOOLEAN
      BY <1>17, Zenon DEF ReceiverReturns
    <2> QED
      BY <2>1, <1>17 DEF ReceiverReturns
  <1>18. CASE Received
    <2>1. rcvflag' \in BOOLEAN
      BY <1>18, Zenon DEF Received
    <2> QED
      BY <2>1, <1>18 DEF Received
  <1>19. CASE ReceiveFails
    BY <1>19 DEF ReceiveFails, AskClose
  <1>20. CASE SendBegins
    BY <1>20 DEF SendBegins
  <1>21. CASE SendReturns
    BY <1>21 DEF SendReturns
  <1>22. CASE CloseLate
    BY <1>22 DEF CloseLate
  <1>23. CASE SleepLate
    BY <1>23 DEF SleepLate
  <1>24. CASE Setsocketproxy_Awaken
    <2>1. sleepFlag' \in BOOLEAN
      BY <1>24, Zenon DEF Setsocketproxy_Awaken
    <2> QED
      BY <2>1, <1>24 DEF Setsocketproxy_Awaken
  <1>25. CASE Surroundings
    <2>1. network' \in BOOLEAN /\ certOk' \in BOOLEAN /\ ign' \in BOOLEAN /\ ready' \in BOOLEAN
      BY <1>25, Zenon DEF Surroundings
    <2> QED
      BY <2>1, <1>25 DEF Surroundings
  <1>26. CASE UNCHANGED sockVars
    BY <1>26 DEF sockVars
  <1> QED
    BY <1>1, <1>2, <1>3, <1>4, <1>5, <1>6, <1>7, <1>8, <1>9, <1>10, <1>11, <1>12, <1>13, <1>14, <1>15, <1>16, <1>17, <1>18, <1>19, <1>20, <1>21, <1>22, <1>23, <1>24, <1>25, <1>26
    DEF TspLinkNext, SocketThread, ReceiverRuns

\* Every step keeps the safety invariant.
LEMMA SafetyStep ==
    TspLinkTypeOK /\ SafetyInv /\ [TspLinkNext]_sockVars => SafetyInv'
  <1> SUFFICES ASSUME TspLinkTypeOK, SafetyInv, [TspLinkNext]_sockVars
               PROVE  SafetyInv'
    OBVIOUS
  <1> USE DEF TspLinkTypeOK, Links, SafetyInv, MutexInv, LinkInv, ReceiverInv, SendsOnOpenLink,
              ClosesWhatItOpened, closeVars, linkVars, rcvVars, sendVars, sleepVars, envVars
  <1>1. CASE CheckCert
    BY <1>1 DEF CheckCert
  <1>2. CASE LinkStarts
    BY <1>2 DEF LinkStarts
  <1>3. CASE \E ok \in BOOLEAN : Connect(ok)
    BY <1>3 DEF Connect
  <1>4. CASE LinkOpen
    BY <1>4 DEF LinkOpen
  <1>5. CASE CloseTries
    BY <1>5 DEF CloseTries
  <1>6. CASE LinkCloses
    BY <1>6 DEF LinkCloses, Close
  <1>7. CASE ForcedCloseLock
    BY <1>7 DEF ForcedCloseLock
  <1>8. CASE NotForced
    BY <1>8 DEF NotForced
  <1>9. CASE CancelReceiver
    BY <1>9 DEF CancelReceiver
  <1>10. CASE ForcedClose
    BY <1>10 DEF ForcedClose, Close
  <1>11. CASE ForcedCloseUnlock
    BY <1>11 DEF ForcedCloseUnlock
  <1>12. CASE CheckSleep
    BY <1>12 DEF CheckSleep, MaySleep
  <1>13. CASE OtherCloses
    BY <1>13 DEF OtherCloses, AskClose
  <1>14. CASE CloseAsked
    BY <1>14 DEF CloseAsked
  <1>15. CASE ReceiverChecks
    BY <1>15 DEF ReceiverChecks
  <1>16. CASE ReceiverWaits
    BY <1>16 DEF ReceiverWaits
  <1>17. CASE ReceiverReturns
    BY <1>17 DEF ReceiverReturns
  <1>18. CASE Received
    BY <1>18 DEF Received
  <1>19. CASE ReceiveFails
    BY <1>19 DEF ReceiveFails, AskClose
  <1>20. CASE SendBegins
    BY <1>20 DEF SendBegins
  <1>21. CASE SendReturns
    BY <1>21 DEF SendReturns
  <1>22. CASE CloseLate
    BY <1>22 DEF CloseLate
  <1>23. CASE SleepLate
    BY <1>23 DEF SleepLate
  <1>24. CASE Setsocketproxy_Awaken
    BY <1>24 DEF Setsocketproxy_Awaken
  <1>25. CASE Surroundings
    BY <1>25 DEF Surroundings
  <1>26. CASE UNCHANGED sockVars
    BY <1>26 DEF sockVars
  <1> QED
    BY <1>1, <1>2, <1>3, <1>4, <1>5, <1>6, <1>7, <1>8, <1>9, <1>10, <1>11, <1>12, <1>13, <1>14, <1>15, <1>16, <1>17, <1>18, <1>19, <1>20, <1>21, <1>22, <1>23, <1>24, <1>25, <1>26
    DEF TspLinkNext, SocketThread, ReceiverRuns

-----------------------------------------------------------------------------
\* The state of the link, its threads and its flags stays in its type; the count of
\* sleep waits stays within its limit.
THEOREM TspLinkTypeCorrect == TspLinkSpec => []TspLinkTypeOK
  <1>1. TspLinkInit => TspLinkTypeOK
    <2> SUFFICES ASSUME TspLinkInit
                 PROVE  TspLinkTypeOK
      OBVIOUS
    <2>1. /\ asynCloseFlg \in BOOLEAN /\ rcvflag \in BOOLEAN /\ cancelRcvphreadFlag \in BOOLEAN
          /\ closeLate \in BOOLEAN /\ sleepFlag \in BOOLEAN /\ sleepLate \in BOOLEAN
          /\ network \in BOOLEAN /\ certOk \in BOOLEAN /\ ign \in BOOLEAN /\ ready \in BOOLEAN
      BY Zenon DEF TspLinkInit
    <2> QED
      BY <2>1, TspLinkAssumption DEF TspLinkInit, TspLinkTypeOK, Links
  <1> QED
    BY <1>1, TspLinkTypeStep, PTL DEF TspLinkSpec

\* The threads of the proxy keep the safety invariant for ever.
LEMMA SafetyInvariant == TspLinkSpec => []SafetyInv
  <1>1. TspLinkInit => SafetyInv
    BY DEF TspLinkInit, Links, SafetyInv, MutexInv, LinkInv, ReceiverInv, SendsOnOpenLink,
           ClosesWhatItOpened
  <1> QED
    BY <1>1, SafetyStep, TspLinkTypeCorrect, PTL DEF TspLinkSpec

\* The proxy always knows what the TLS library has open, whether the link is closed
\* on request or by force, and whatever fails while it is set up.
THEOREM ClosesWhatItOpenedAlways == TspLinkSpec => []ClosesWhatItOpened
  <1>1. SafetyInv => ClosesWhatItOpened
    BY DEF SafetyInv, LinkInv
  <1> QED
    BY <1>1, SafetyInvariant, PTL

\* No sender uses a link that is closed under it, because both closes take sendmtx.
THEOREM SendsOnOpenLinkAlways == TspLinkSpec => []SendsOnOpenLink
  <1>1. SafetyInv => SendsOnOpenLink
    BY DEF SafetyInv
  <1> QED
    BY <1>1, SafetyInvariant, PTL

\* An open link has a receiver: a forced close goes through SOCKPROXY_CHECK_CERT,
\* where the receiver is created again.
THEOREM OpenLinkHasReceiverAlways == TspLinkSpec => []OpenLinkHasReceiver
  <1>1. TspLinkTypeOK /\ SafetyInv => OpenLinkHasReceiver
    BY DEF TspLinkTypeOK, Links, SafetyInv, LinkInv, ReceiverInv, ClosesWhatItOpened,
           OpenLinkHasReceiver
  <1> QED
    BY <1>1, TspLinkTypeCorrect, SafetyInvariant, PTL


-----------------------------------------------------------------------------
(* The receive ring.                                                       *)

\* The messages that are in the ring, and the slot i places behind the reader.
Pending == arrived - (IF wr THEN 1 ELSE 0) - Len(got)
Behind(t, i) == IF t + i < SP_QUEUE_LNG THEN t + i ELSE t + i - SP_QUEUE_LNG

\* Until the ring overflows, the pending messages stand behind the reader, in
\* order and flagged, the writer is just behind them, and no other slot is flagged.
RingInv ==
    /\ Pending \in 0..SP_QUEUE_LNG /\ (wr => Pending < SP_QUEUE_LNG)
    /\ HeadLabel = Behind(TialLabel, Pending)
    /\ \A i \in 0..SP_QUEUE_LNG - 1 :
          IF i < Pending
          THEN NonEmptyFlg[Behind(TialLabel, i)] /\ data[Behind(TialLabel, i)] = Len(got) + 1 + i
          ELSE ~NonEmptyFlg[Behind(TialLabel, i)]
    /\ rd = "clear" => Pending > 0 /\ copy = Len(got) + 1
    /\ \A i \in DOMAIN got : got[i] = i

RxInv == RxTypeOK /\ (~lapped => RingInv)

\* NextSlot goes one place on, and the places behind the reader are different slots.
LEMMA BehindFacts ==
    ASSUME NEW t \in Slots
    PROVE /\ NextSlot(t) \in Slots
          /\ \A i \in 0..SP_QUEUE_LNG : Behind(t, i) \in Slots
          /\ \A i \in 0..SP_QUEUE_LNG - 1 : NextSlot(Behind(t, i)) = Behind(t, i + 1)
          /\ \A i \in 0..SP_QUEUE_LNG - 1 : Behind(NextSlot(t), i) = Behind(t, i + 1)
          /\ \A i, j \in 0..SP_QUEUE_LNG - 1 : Behind(t, i) = Behind(t, j) => i = j
          /\ Behind(t, 0) = t /\ Behind(t, SP_QUEUE_LNG) = t
BY TspRxAssumption DEF Slots, NextSlot, Behind

\* The ring's invariant holds at the start.
LEMMA RxInitInv == RxInit => RxInv
BY TspRxAssumption DEF RxInit, RxInv, RxTypeOK, RingInv, Pending, Behind, Slots, TORN

\* The two halves of a write and of a read keep the types.
LEMMA RxTypeStep == RxTypeOK /\ [RxNext]_rxvars => RxTypeOK'
<1> SUFFICES ASSUME RxTypeOK, [RxNext]_rxvars PROVE RxTypeOK'
    OBVIOUS
<1> USE TspRxAssumption DEF RxTypeOK, TORN
<1>0. HeadLabel \in Slots => NextSlot(HeadLabel) \in Slots
    BY BehindFacts
<1>1. TialLabel \in Slots => NextSlot(TialLabel) \in Slots
    BY BehindFacts
<1>2. CASE WriteFills
    BY <1>2 DEF WriteFills, readerVars
<1>3. CASE WriteFlags
    <2>1. NonEmptyFlg' \in [Slots -> BOOLEAN] /\ HeadLabel' \in Slots
        BY <1>0, <1>3 DEF WriteFlags
    <2>2. data' \in [Slots -> 0..TORN]
        BY <1>3 DEF WriteFlags
    <2> QED BY <1>3, <2>1, <2>2 DEF WriteFlags, readerVars
<1>4. CASE ReadCopies
    BY <1>4 DEF ReadCopies, writerVars
<1>5. CASE ReadClears
    BY <1>1, <1>5 DEF ReadClears, writerVars
<1>6. CASE UNCHANGED rxvars
    BY <1>6 DEF rxvars, writerVars, readerVars
<1> QED BY <1>2, <1>3, <1>4, <1>5, <1>6 DEF RxNext, Reader

\* They keep what was written and not yet read in order behind the reader.
LEMMA RxStep == RxInv /\ [RxNext]_rxvars => RxInv'
<1> SUFFICES ASSUME RxInv, [RxNext]_rxvars PROVE RxInv'
    OBVIOUS
<1>0. RxTypeOK /\ RxTypeOK'
    BY RxTypeStep DEF RxInv
<1>1. SUFFICES ASSUME ~lapped' PROVE RingInv'
    BY <1>0 DEF RxInv
<1>2. ~lapped
    BY <1>0, <1>1 DEF RxTypeOK, RxNext, Reader, WriteFills, WriteFlags, ReadCopies, ReadClears,
                      rxvars, writerVars
<1>3. RingInv
    BY <1>2 DEF RxInv
<1>4. Len(got) \in Nat /\ arrived \in Nat
    BY <1>0 DEF RxTypeOK
<1> USE TspRxAssumption
<1>5. CASE WriteFills
    <2>1. Pending < SP_QUEUE_LNG
        <3>1. ~NonEmptyFlg[HeadLabel]
            BY <1>1, <1>5 DEF WriteFills
        <3>2. Pending = SP_QUEUE_LNG => HeadLabel = TialLabel
            BY <1>0, <1>3, BehindFacts DEF RingInv, RxTypeOK
        <3>3. Pending = SP_QUEUE_LNG => NonEmptyFlg[TialLabel]
            <4>1. Behind(TialLabel, 0) = TialLabel
                BY <1>0, BehindFacts DEF RxTypeOK
            <4> QED BY <1>3, <4>1 DEF RingInv
        <3> QED BY <1>3, <3>1, <3>2, <3>3 DEF RingInv
    <2>2. Pending' = Pending
        BY <1>4, <1>5 DEF WriteFills, Pending, readerVars
    <2>3. \A i \in 0..SP_QUEUE_LNG - 1 : i < Pending =>
             data'[Behind(TialLabel, i)] = data[Behind(TialLabel, i)]
        <3>1. SUFFICES ASSUME NEW i \in 0..SP_QUEUE_LNG - 1, i < Pending
                       PROVE Behind(TialLabel, i) # HeadLabel
            BY <1>0, <1>5, BehindFacts DEF WriteFills, RxTypeOK
        <3>2. Pending \in 0..SP_QUEUE_LNG - 1
            BY <1>3, <2>1 DEF RingInv
        <3> QED BY <1>0, <1>3, <3>1, <3>2, BehindFacts DEF RingInv, RxTypeOK
    <2> QED BY <1>3, <1>5, <2>1, <2>2, <2>3 DEF RingInv, WriteFills, readerVars, Behind
<1>6. CASE WriteFlags
    <2>1. Pending' = Pending + 1 /\ Pending \in 0..SP_QUEUE_LNG - 1 /\ arrived = Len(got) + 1 + Pending
        BY <1>3, <1>4, <1>6 DEF WriteFlags, Pending, readerVars, RingInv
    <2>2. HeadLabel' = Behind(TialLabel, Pending + 1)
        <3>1. HeadLabel' = NextSlot(Behind(TialLabel, Pending))
            BY <1>3, <1>6 DEF WriteFlags, RingInv
        <3> QED BY <1>0, <2>1, <3>1, BehindFacts DEF RxTypeOK
    <2>3. ASSUME NEW i \in 0..SP_QUEUE_LNG - 1
          PROVE IF i < Pending + 1
                THEN NonEmptyFlg'[Behind(TialLabel, i)] /\ data'[Behind(TialLabel, i)] = Len(got) + 1 + i
                ELSE ~NonEmptyFlg'[Behind(TialLabel, i)]
        <3>1. Behind(TialLabel, i) \in Slots /\ (Behind(TialLabel, i) = HeadLabel <=> i = Pending)
            <4>1. TialLabel \in Slots /\ i \in 0..SP_QUEUE_LNG /\ HeadLabel = Behind(TialLabel, Pending)
                BY <1>0, <1>3 DEF RingInv, RxTypeOK
            <4> QED BY <2>1, <4>1, BehindFacts
        <3>2. CASE i = Pending
            BY <1>0, <1>6, <2>1, <3>1, <3>2 DEF WriteFlags, RxTypeOK
        <3>3. CASE i # Pending
            <4>1. i < Pending + 1 <=> i < Pending
                BY <2>1, <3>3
            <4>2. NonEmptyFlg'[Behind(TialLabel, i)] = NonEmptyFlg[Behind(TialLabel, i)]
                  /\ data'[Behind(TialLabel, i)] = data[Behind(TialLabel, i)]
                BY <1>0, <1>6, <3>1, <3>3 DEF WriteFlags, RxTypeOK
            <4> QED BY <1>3, <4>1, <4>2 DEF RingInv
        <3> QED BY <3>2, <3>3
    <2> QED BY <1>3, <1>6, <2>1, <2>2, <2>3 DEF RingInv, WriteFlags, readerVars, Behind
<1>7. CASE ReadCopies
    <2>1. Pending' = Pending
        BY <1>7 DEF ReadCopies, Pending, writerVars
    <2>2. Behind(TialLabel, 0) = TialLabel
        BY <1>0, BehindFacts DEF RxTypeOK
    <2>3. Pending > 0 /\ data[TialLabel] = Len(got) + 1
        BY <1>3, <1>4, <1>7, <2>2 DEF RingInv, ReadCopies
    <2> QED BY <1>3, <1>7, <2>1, <2>3 DEF RingInv, ReadCopies, writerVars, Behind
<1>8. CASE ReadClears
    <2>1. got' = Append(got, copy) /\ got \in Seq(0..TORN) /\ copy = Len(got) + 1
        BY <1>0, <1>3, <1>8 DEF ReadClears, RingInv, RxTypeOK
    <2>2. Len(got') = Len(got) + 1 /\ \A i \in DOMAIN got' : got'[i] = i
        BY <1>3, <2>1 DEF RingInv
    <2>3. Pending' = Pending - 1 /\ Pending \in 1..SP_QUEUE_LNG
        BY <1>3, <1>4, <1>8, <2>2 DEF ReadClears, Pending, writerVars, RingInv
    <2>4. HeadLabel' = Behind(TialLabel', Pending')
        BY <1>0, <1>3, <1>8, <2>3, BehindFacts DEF ReadClears, writerVars, RingInv, RxTypeOK
    <2>5. ASSUME NEW i \in 0..SP_QUEUE_LNG - 1
          PROVE IF i < Pending'
                THEN NonEmptyFlg'[Behind(TialLabel', i)] /\ data'[Behind(TialLabel', i)] = Len(got') + 1 + i
                ELSE ~NonEmptyFlg'[Behind(TialLabel', i)]
        <3>1. Behind(TialLabel', i) = Behind(TialLabel, i + 1)
            BY <1>0, <1>8, BehindFacts DEF ReadClears, RxTypeOK
        <3>2. CASE i + 1 = SP_QUEUE_LNG
            <4>1. Behind(TialLabel', i) = TialLabel
                BY <1>0, <3>1, <3>2, BehindFacts DEF RxTypeOK
            <4> QED BY <1>0, <1>8, <2>3, <3>2, <4>1 DEF ReadClears, RxTypeOK
        <3>3. CASE i + 1 # SP_QUEUE_LNG
            <4>1. i + 1 \in 0..SP_QUEUE_LNG - 1
                BY <3>3
            <4>2. Behind(TialLabel, i + 1) \in Slots \ {TialLabel}
                <5>1. TialLabel \in Slots /\ i + 1 \in 0..SP_QUEUE_LNG /\ i + 1 # 0
                      /\ 0 \in 0..SP_QUEUE_LNG - 1
                    BY <1>0, <4>1 DEF RxTypeOK
                <5> QED BY <4>1, <5>1, BehindFacts
            <4>3. NonEmptyFlg'[Behind(TialLabel', i)] = NonEmptyFlg[Behind(TialLabel, i + 1)]
                  /\ data'[Behind(TialLabel', i)] = data[Behind(TialLabel, i + 1)]
                BY <1>0, <1>8, <3>1, <4>2 DEF ReadClears, RxTypeOK
            <4>4. Len(got) + 1 + (i + 1) = Len(got') + 1 + i /\ (i + 1 < Pending <=> i < Pending')
                BY <1>4, <2>2, <2>3
            <4> QED BY <1>3, <4>1, <4>3, <4>4 DEF RingInv
        <3> QED BY <3>2, <3>3
    <2>6. wr' = wr /\ rd' = "check"
        BY <1>8 DEF ReadClears, writerVars
    <2> QED BY <1>3, <2>2, <2>3, <2>4, <2>5, <2>6 DEF RingInv
<1>9. CASE UNCHANGED rxvars
    BY <1>3, <1>9 DEF RingInv, rxvars, writerVars, readerVars, Pending, Behind
<1> QED BY <1>5, <1>6, <1>7, <1>8, <1>9 DEF RxNext, Reader

\* The ring's invariant, for every size.
LEMMA RxInvariant == RxSpec => []RxInv
<1>1. RxInit => RxInv BY RxInitInv
<1>2. RxInv /\ [RxNext]_rxvars => RxInv' BY RxStep
<1> QED BY <1>1, <1>2, PTL DEF RxSpec

\* WrSockproxyData_Queue and RdSockproxyData_Queue keep the ring in its type: the
\* labels stay within the slots, for every size of the ring.
THEOREM RxTypeCorrect == RxSpec => []RxTypeOK
<1>1. RxInv => RxTypeOK BY DEF RxInv
<1> QED BY <1>1, RxInvariant, PTL

\* For every size of the ring and any number of messages, RdSockproxyData_Queue
\* hands over whole messages in the order of arrival until the ring overflows.
THEOREM ReadsAlwaysInOrder == RxSpec => []ReadsInOrder
<1>1. RxInv => ReadsInOrder BY DEF RxInv, RingInv, ReadsInOrder
<1> QED BY <1>1, RxInvariant, PTL

-----------------------------------------------------------------------------
(* The lists of nodes.                                                     *)

\* What the three operations on a list do to the places of its nodes.
LEMMA AppendPlaces ==
    ASSUME NEW lst \in Seq(Nodes), NEW x \in Nodes
    PROVE /\ Append(lst, x) \in Seq(Nodes)
          /\ \A n : On(Append(lst, x), n) <=> On(lst, n) \/ n = x
          /\ Once(lst) /\ ~On(lst, x) => Once(Append(lst, x))
<1>1. Append(lst, x) \in Seq(Nodes) /\ Len(Append(lst, x)) = Len(lst) + 1
      /\ \A i \in DOMAIN lst : Append(lst, x)[i] = lst[i]
      /\ Append(lst, x)[Len(lst) + 1] = x
    OBVIOUS
<1>2. DOMAIN lst = 1..Len(lst) /\ DOMAIN Append(lst, x) = 1..(Len(lst) + 1) /\ Len(lst) \in Nat
    BY <1>1
<1>3. \A i \in DOMAIN Append(lst, x) : i \in DOMAIN lst \/ i = Len(lst) + 1
    BY <1>2
<1>4. DOMAIN lst \subseteq DOMAIN Append(lst, x) /\ Len(lst) + 1 \in DOMAIN Append(lst, x)
    BY <1>2
<1>5. \A n : On(Append(lst, x), n) <=> On(lst, n) \/ n = x
    BY <1>1, <1>3, <1>4 DEF On
<1>6. Once(lst) /\ ~On(lst, x) => Once(Append(lst, x))
    BY <1>1, <1>3 DEF On, Once
<1> QED BY <1>1, <1>5, <1>6

\* Places in a list after its head was taken.
LEMMA TailPlaces ==
    ASSUME NEW lst \in Seq(Nodes), lst # <<>>
    PROVE /\ Tail(lst) \in Seq(Nodes) /\ Head(lst) \in Nodes
          /\ \A n : On(lst, n) <=> On(Tail(lst), n) \/ n = Head(lst)
          /\ Once(lst) => Once(Tail(lst)) /\ ~On(Tail(lst), Head(lst))
<1>1. Tail(lst) \in Seq(Nodes) /\ Head(lst) = lst[1] /\ Len(Tail(lst)) = Len(lst) - 1
      /\ Len(lst) \in Nat \ {0}
    OBVIOUS
<1>2. DOMAIN lst = 1..Len(lst) /\ DOMAIN Tail(lst) = 1..(Len(lst) - 1)
    BY <1>1
<1>3. \A i \in DOMAIN Tail(lst) : Tail(lst)[i] = lst[i + 1] /\ i + 1 \in DOMAIN lst /\ i + 1 # 1
    BY <1>1, <1>2
<1>4. \A i \in DOMAIN lst : i = 1 \/ (i - 1 \in DOMAIN Tail(lst) /\ Tail(lst)[i - 1] = lst[i])
    BY <1>1, <1>2
<1>5. 1 \in DOMAIN lst /\ lst[1] \in Nodes
    BY <1>1, <1>2
<1>6. \A n : On(lst, n) <=> On(Tail(lst), n) \/ n = Head(lst)
    BY <1>1, <1>3, <1>4, <1>5 DEF On
<1>7. ASSUME Once(lst) PROVE Once(Tail(lst)) /\ ~On(Tail(lst), Head(lst))
    <2>1. Once(Tail(lst))
        BY <1>2, <1>3, <1>7 DEF Once
    <2>2. ~On(Tail(lst), Head(lst))
        BY <1>1, <1>3, <1>5, <1>7 DEF Once, On
    <2> QED BY <2>1, <2>2
<1> QED BY <1>1, <1>5, <1>6, <1>7

\* Places in a list after a node was put at its head.
LEMMA FirstPlaces ==
    ASSUME NEW lst \in Seq(Nodes), NEW x \in Nodes
    PROVE /\ <<x>> \o lst \in Seq(Nodes)
          /\ \A n : On(<<x>> \o lst, n) <=> On(lst, n) \/ n = x
          /\ Once(lst) /\ ~On(lst, x) => Once(<<x>> \o lst)
<1> DEFINE s == <<x>> \o lst
<1>1. s \in Seq(Nodes) /\ Len(s) = Len(lst) + 1 /\ s[1] = x /\ Len(lst) \in Nat
    OBVIOUS
<1>2. DOMAIN lst = 1..Len(lst) /\ DOMAIN s = 1..(Len(lst) + 1)
    BY <1>1
<1>3. \A i \in DOMAIN s : i = 1 \/ (i - 1 \in DOMAIN lst /\ s[i] = lst[i - 1])
    BY <1>1, <1>2
<1>4. \A i \in DOMAIN lst : i + 1 \in DOMAIN s /\ s[i + 1] = lst[i]
    BY <1>1, <1>2
<1>5. 1 \in DOMAIN s
    BY <1>1, <1>2
<1> HIDE DEF s
<1>6. \A n : On(s, n) <=> On(lst, n) \/ n = x
    BY <1>1, <1>3, <1>4, <1>5 DEF On
<1>7. Once(lst) /\ ~On(lst, x) => Once(s)
    BY <1>1, <1>2, <1>3 DEF On, Once
<1> QED BY <1>1, <1>6, <1>7 DEF s

\* The send thread holds a waiting message, a waiting node carries one, and what the
\* thread reports on is done.
CarryInv ==
    /\ pc \in {"send", "put"} =>
          msg[rpt] = cur /\ cur \in 1..written /\ fate[cur] = "waiting"
    /\ \A n \in Nodes : On(SP_realtm_lst, n) => msg[n] \in 1..written /\ fate[msg[n]] = "waiting"
    /\ pc = "inform" => cur \in 1..written /\ fate[cur] \in {"sent", "fail", "late"}
    /\ \A n \in Nodes : msg[n] <= written

\* The pool starts with every node free.
LEMMA TxInitInv == TxInit => TxTypeOK /\ EachNodeOnce /\ CarryInv
<1> SUFFICES ASSUME TxInit PROVE TxTypeOK /\ EachNodeOnce /\ CarryInv
    OBVIOUS
<1> USE TspTxAssumption DEF TxInit
<1>1. SP_free_lst \in Seq(Nodes)
    BY DEF Nodes
<1>2. TxTypeOK
    <2>1. msg \in [Nodes -> 0..MaxMessages] /\ rpt \in Nodes
        BY DEF Nodes
    <2>2. SP_realtm_lst \in Seq(Nodes) /\ SP_trans_lst \in Seq(Nodes)
        OBVIOUS
    <2> QED BY <1>1, <2>1, <2>2 DEF TxTypeOK, Results
<1>3. \A n : ~On(<<>>, n)
    BY DEF On
<1>4. Once(<<>>) /\ Once(SP_free_lst) /\ \A n \in Nodes : On(SP_free_lst, n)
    BY DEF Once, On, Nodes
<1>5. EachNodeOnce
    BY <1>3, <1>4 DEF EachNodeOnce, Held
<1> QED BY <1>2, <1>3, <1>5 DEF CarryInv

\* The list operations and the send thread keep the types.
LEMMA TxTypeStep == TxTypeOK /\ CarryInv /\ [TxNext]_vars => TxTypeOK'
<1> SUFFICES ASSUME TxTypeOK, CarryInv, [TxNext]_vars PROVE TxTypeOK'
    OBVIOUS
<1> USE TspTxAssumption DEF TxTypeOK, Messages
<1>1. ASSUME NEW n \in Nodes, NEW k \in Kinds, Enqueue(n, k), written < MaxMessages
      PROVE SP_realtm_lst' \in Seq(Nodes) /\ msg' \in [Nodes -> 0..MaxMessages]
            /\ written' \in 0..MaxMessages
            /\ kind' \in [Messages -> Kinds \cup {"none"}]
            /\ fate' \in [Messages -> {"none", "waiting", "sent", "fail", "late", "dropped"}]
    BY <1>1, AppendPlaces DEF Enqueue
<1>2. ASSUME NEW k \in Kinds, WriteFree(k) PROVE TxTypeOK'
    BY <1>1, <1>2, TailPlaces DEF WriteFree
<1>3. ASSUME NEW k \in Kinds, WriteTrans(k) PROVE TxTypeOK'
    BY <1>1, <1>3, TailPlaces DEF WriteTrans
<1>4. ASSUME NEW k \in Kinds, WriteDrops(k) PROVE TxTypeOK'
    BY <1>4 DEF WriteDrops, lists
<1>5. SP_data_ack_pack => SP_free_lst' \in Seq(Nodes) /\ SP_trans_lst' \in Seq(Nodes)
    <2>1. SP_trans_lst # <<>> => Head(SP_trans_lst) \in Nodes /\ Tail(SP_trans_lst) \in Seq(Nodes)
        BY TailPlaces
    <2>2. ASSUME NEW x \in Nodes PROVE Append(SP_free_lst, x) \in Seq(Nodes)
        BY AppendPlaces
    <2> QED BY <2>1, <2>2 DEF SP_data_ack_pack
<1>6. CASE SP_data_get_pack
    <2>1. rpt' \in Nodes /\ SP_realtm_lst' \in Seq(Nodes)
        BY <1>6, TailPlaces DEF SP_data_get_pack
    <2> QED BY <1>6, <2>1 DEF SP_data_get_pack, messageVars, Results
<1>7. ASSUME NEW r \in Results, sockproxy_MsgSend(r) PROVE TxTypeOK'
    BY <1>5, <1>7 DEF sockproxy_MsgSend, messageVars
<1>8. CASE PutBack
    <2>1. SP_realtm_lst' \in Seq(Nodes)
        BY <1>8, FirstPlaces DEF PutBack, SP_data_put_back
    <2> QED BY <1>8, <2>1 DEF PutBack, messageVars
<1>9. CASE PutSend
    <2>1. SP_trans_lst' \in Seq(Nodes)
        BY <1>9, AppendPlaces DEF PutSend, SP_data_put_send
    <2> QED BY <1>9, <2>1 DEF PutSend, Results
<1>10. CASE Inform
    <2>1. PICK t \in (IF msg[rpt] = cur THEN {fate[cur]} ELSE {"fail", "sent"}) :
             told' = [told EXCEPT ![msg[rpt]] = t]
        BY <1>10 DEF Inform
    <2>2. t \in {"sent", "fail", "late"}
        BY <1>10, <2>1 DEF Inform, CarryInv
    <2> QED BY <1>10, <2>1, <2>2 DEF Inform, lists, messageVars
<1>11. CASE GbSends
    BY <1>5, <1>11 DEF GbSends, messageVars
<1>12. ASSUME NEW m \in Messages, OutOfTime(m) PROVE TxTypeOK'
    BY <1>12 DEF OutOfTime, lists, messageVars
<1>13. CASE UNCHANGED vars
    BY <1>13 DEF vars, lists, messageVars
<1> QED BY <1>2, <1>3, <1>4, <1>6, <1>7, <1>8, <1>9, <1>10, <1>11, <1>12, <1>13
        DEF TxNext, SP_data_write, SendThread

\* They neither lose nor double a node.
LEMMA NodeStep == TxTypeOK /\ EachNodeOnce /\ [TxNext]_vars => EachNodeOnce'
<1> SUFFICES ASSUME TxTypeOK, EachNodeOnce, [TxNext]_vars PROVE EachNodeOnce'
    OBVIOUS
<1> USE DEF EachNodeOnce
<1>0. SP_free_lst \in Seq(Nodes) /\ SP_realtm_lst \in Seq(Nodes) /\ SP_trans_lst \in Seq(Nodes)
      /\ rpt \in Nodes
    BY DEF TxTypeOK
<1>1. ASSUME SP_data_ack_pack, UNCHANGED SP_realtm_lst, \A n \in Nodes : Held(n)' <=> Held(n)
      PROVE EachNodeOnce'
    <2>1. CASE SP_trans_lst = <<>>
        BY <1>1, <2>1 DEF SP_data_ack_pack
    <2>2. CASE SP_trans_lst # <<>>
        <3>1. Head(SP_trans_lst) \in Nodes /\ ~On(SP_free_lst, Head(SP_trans_lst))
            BY <1>0, <2>2, TailPlaces
        <3>2. /\ Once(SP_free_lst')
              /\ \A n : On(SP_free_lst', n) <=> On(SP_free_lst, n) \/ n = Head(SP_trans_lst)
            <4>1. ASSUME NEW x \in Nodes, ~On(SP_free_lst, x)
                  PROVE /\ Once(Append(SP_free_lst, x))
                        /\ \A n : On(Append(SP_free_lst, x), n) <=> On(SP_free_lst, n) \/ n = x
                BY <1>0, <4>1, AppendPlaces
            <4> QED BY <1>1, <2>2, <3>1, <4>1 DEF SP_data_ack_pack
        <3>3. /\ \A n : On(SP_trans_lst, n) <=> On(SP_trans_lst', n) \/ n = Head(SP_trans_lst)
              /\ ~On(SP_trans_lst', Head(SP_trans_lst)) /\ Once(SP_trans_lst')
            BY <1>0, <1>1, <2>2, TailPlaces DEF SP_data_ack_pack
        <3> QED BY <1>1, <3>2, <3>3
    <2> QED BY <2>1, <2>2
<1>2. ASSUME NEW k \in Kinds, WriteFree(k) PROVE EachNodeOnce'
    <2>1. Head(SP_free_lst) \in Nodes /\ ~On(SP_realtm_lst, Head(SP_free_lst))
        BY <1>0, <1>2, TailPlaces DEF WriteFree
    <2> QED BY <1>0, <1>2, <2>1, AppendPlaces, TailPlaces DEF WriteFree, Enqueue, Held
<1>3. ASSUME NEW k \in Kinds, WriteTrans(k) PROVE EachNodeOnce'
    <2>1. Head(SP_trans_lst) \in Nodes /\ ~On(SP_realtm_lst, Head(SP_trans_lst))
        BY <1>0, <1>3, TailPlaces DEF WriteTrans
    <2> QED BY <1>0, <1>3, <2>1, AppendPlaces, TailPlaces DEF WriteTrans, Enqueue, Held
<1>4. ASSUME NEW k \in Kinds, WriteDrops(k) PROVE EachNodeOnce'
    BY <1>4 DEF WriteDrops, lists, Held
<1>6. CASE SP_data_get_pack
    <2>1. Head(SP_realtm_lst) \in Nodes /\ pc = "get" /\ pc' \in {"send", "put"}
          /\ rpt' = Head(SP_realtm_lst)
        BY <1>0, <1>6, TailPlaces DEF SP_data_get_pack
    <2> QED BY <1>0, <1>6, <2>1, TailPlaces DEF SP_data_get_pack, Held
<1>7. ASSUME NEW r \in Results, sockproxy_MsgSend(r) PROVE EachNodeOnce'
    <2>1. UNCHANGED SP_realtm_lst /\ \A n \in Nodes : Held(n)' <=> Held(n)
        BY <1>7 DEF sockproxy_MsgSend, Held
    <2>2. CASE SP_data_ack_pack
        BY <1>1, <2>1, <2>2
    <2>3. CASE UNCHANGED <<SP_free_lst, SP_trans_lst>>
        BY <2>1, <2>3
    <2> QED BY <1>7, <2>2, <2>3 DEF sockproxy_MsgSend
<1>8. CASE PutBack
    <2>1. ~On(SP_realtm_lst, rpt) /\ Held(rpt)
        BY <1>0, <1>8 DEF PutBack, Held
    <2> QED BY <1>0, <1>8, <2>1, FirstPlaces DEF PutBack, SP_data_put_back, Held
<1>9. CASE PutSend
    <2>1. ~On(SP_trans_lst, rpt) /\ Held(rpt)
        BY <1>0, <1>9 DEF PutSend, Held
    <2> QED BY <1>0, <1>9, <2>1, AppendPlaces DEF PutSend, SP_data_put_send, Held
<1>10. CASE Inform
    BY <1>10 DEF Inform, lists, Held
<1>11. CASE GbSends
    BY <1>1, <1>11 DEF GbSends, Held
<1>12. ASSUME NEW m \in Messages, OutOfTime(m) PROVE EachNodeOnce'
    BY <1>12 DEF OutOfTime, lists, Held
<1>13. CASE UNCHANGED vars
    BY <1>13 DEF vars, lists, Held
<1> QED BY <1>2, <1>3, <1>4, <1>6, <1>7, <1>8, <1>9, <1>10, <1>11, <1>12, <1>13
        DEF TxNext, SP_data_write, SendThread

-----------------------------------------------------------------------------
(* The order of the messages.                                              *)

\* The nodes of a list carry messages in the order in which they were written.
Sorted(lst, f) == \A i, j \in DOMAIN lst : i < j => f[lst[i]] < f[lst[j]]

\* A newer message at the end keeps the numbers growing.
LEMMA AppendSorted ==
    ASSUME NEW lst \in Seq(Nodes), NEW x \in Nodes, NEW f, Sorted(lst, f),
           \A n \in Nodes : On(lst, n) => f[n] < f[x]
    PROVE Sorted(Append(lst, x), f)
<1>1. Append(lst, x) \in Seq(Nodes) /\ Len(Append(lst, x)) = Len(lst) + 1 /\ Len(lst) \in Nat
      /\ \A i \in DOMAIN lst : Append(lst, x)[i] = lst[i] /\ lst[i] \in Nodes
      /\ Append(lst, x)[Len(lst) + 1] = x
    OBVIOUS
<1>2. \A i \in DOMAIN Append(lst, x) : i \in DOMAIN lst \/ i = Len(lst) + 1
    BY <1>1
<1>3. \A i, j \in DOMAIN Append(lst, x) :
         i < j => i \in DOMAIN lst /\ (j \in DOMAIN lst \/ j = Len(lst) + 1)
    BY <1>1
<1> QED BY <1>1, <1>2, <1>3 DEF Sorted, On

\* So does taking the oldest one.
LEMMA TailSorted ==
    ASSUME NEW lst \in Seq(Nodes), lst # <<>>, NEW f, Sorted(lst, f)
    PROVE /\ Sorted(Tail(lst), f)
          /\ \A n \in Nodes : On(Tail(lst), n) => f[Head(lst)] < f[n]
<1>1. Len(lst) \in Nat \ {0} /\ Len(Tail(lst)) = Len(lst) - 1 /\ Head(lst) = lst[1]
      /\ DOMAIN lst = 1..Len(lst) /\ DOMAIN Tail(lst) = 1..(Len(lst) - 1)
    OBVIOUS
<1>2. \A i \in DOMAIN Tail(lst) : Tail(lst)[i] = lst[i + 1] /\ i + 1 \in DOMAIN lst /\ 1 < i + 1
    BY <1>1
<1>3. 1 \in DOMAIN lst /\ \A i, j \in DOMAIN Tail(lst) : i < j => i + 1 < j + 1
    BY <1>1
<1> QED BY <1>1, <1>2, <1>3 DEF Sorted, On

\* So does putting an older one back at the head.
LEMMA FirstSorted ==
    ASSUME NEW lst \in Seq(Nodes), NEW x \in Nodes, NEW f, Sorted(lst, f),
           \A n \in Nodes : On(lst, n) => f[x] < f[n]
    PROVE Sorted(<<x>> \o lst, f)
<1> DEFINE s == <<x>> \o lst
<1>1. s \in Seq(Nodes) /\ Len(s) = Len(lst) + 1 /\ s[1] = x /\ Len(lst) \in Nat
      /\ \A i \in DOMAIN lst : lst[i] \in Nodes
    OBVIOUS
<1>2. DOMAIN lst = 1..Len(lst) /\ DOMAIN s = 1..(Len(lst) + 1)
    BY <1>1
<1>3. \A i \in DOMAIN s : i = 1 \/ (i - 1 \in DOMAIN lst /\ s[i] = lst[i - 1])
    BY <1>1, <1>2
<1>4. \A i, j \in DOMAIN s : i < j => j # 1 /\ (i # 1 => i - 1 < j - 1)
    BY <1>2
<1> HIDE DEF s
<1>5. Sorted(s, f)
    BY <1>1, <1>3, <1>4 DEF On, Sorted
<1> QED BY <1>5 DEF s

\* Waiting messages are in the queue in their order, or before it in the hands of the
\* send thread; those done with are older than all of them.
OrderInv ==
    /\ Sorted(SP_realtm_lst, msg)
    /\ pc \in {"send", "put"} => \A n \in Nodes : On(SP_realtm_lst, n) => cur < msg[n]
    /\ \A m \in Messages : fate[m] = "waiting" =>
          \/ pc \in {"send", "put"} /\ cur = m
          \/ \E n \in Nodes : On(SP_realtm_lst, n) /\ msg[n] = m
    /\ \A m \in Messages : m > written => fate[m] = "none" /\ told[m] = "none"
    /\ DoneInOrder

TxInv == TxTypeOK /\ EachNodeOnce /\ CarryInv /\ OrderInv

\* Nothing waits at the start.
LEMMA OrderInit == TxInit => OrderInv
BY DEF TxInit, OrderInv, Sorted, DoneInOrder, Messages, On

\* A message that is written goes behind all others.
LEMMA EnqueueStep ==
    ASSUME TxInv, NEW x \in Nodes, NEW k \in Kinds, Enqueue(x, k), written < MaxMessages,
           ~On(SP_realtm_lst, x), ~Held(x), UNCHANGED <<pc, rpt, cur, told>>
    PROVE CarryInv' /\ OrderInv'
<1> USE TspTxAssumption DEF Messages
<1>1. /\ msg \in [Nodes -> 0..MaxMessages] /\ written \in 0..MaxMessages /\ rpt \in Nodes
      /\ fate \in [Messages -> {"none", "waiting", "sent", "fail", "late", "dropped"}]
      /\ SP_realtm_lst \in Seq(Nodes) /\ cur \in 0..MaxMessages
    BY DEF TxInv, TxTypeOK
<1>2. /\ SP_realtm_lst' = Append(SP_realtm_lst, x) /\ written' = written + 1
      /\ msg' = [msg EXCEPT ![x] = written + 1]
      /\ fate' = [fate EXCEPT ![written + 1] = "waiting"]
    BY DEF Enqueue
<1>3. \A n : On(SP_realtm_lst', n) <=> On(SP_realtm_lst, n) \/ n = x
    BY <1>1, <1>2, AppendPlaces
<1>4. \A n \in Nodes : msg'[n] = IF n = x THEN written + 1 ELSE msg[n]
    BY <1>1, <1>2
<1>5. \A m \in Messages : fate'[m] = IF m = written + 1 THEN "waiting" ELSE fate[m]
    BY <1>1, <1>2
<1>6. \A n \in Nodes : On(SP_realtm_lst, n) => n # x /\ msg[n] \in 1..written /\ fate[msg[n]] = "waiting"
    BY DEF TxInv, CarryInv
<1>7. CarryInv'
    <2>1. pc \in {"send", "put"} => rpt # x
        BY DEF Held
    <2>2. (pc \in {"send", "put"} =>
             msg[rpt] = cur /\ cur \in 1..written /\ fate[cur] = "waiting")'
        BY <1>1, <1>2, <1>4, <1>5, <2>1 DEF TxInv, CarryInv
    <2>3. (pc = "inform" => cur \in 1..written /\ fate[cur] \in {"sent", "fail", "late"})'
        BY <1>1, <1>2, <1>5 DEF TxInv, CarryInv
    <2>4. ASSUME NEW n \in Nodes, On(SP_realtm_lst', n)
          PROVE msg'[n] \in 1..written' /\ fate'[msg'[n]] = "waiting"
        BY <1>1, <1>2, <1>3, <1>4, <1>5, <1>6, <2>4
    <2>5. \A n \in Nodes : msg'[n] <= written'
        BY <1>1, <1>2, <1>4 DEF TxInv, CarryInv
    <2> QED BY <2>2, <2>3, <2>4, <2>5 DEF CarryInv
<1>8. Sorted(SP_realtm_lst, msg')
    <2>1. \A i \in DOMAIN SP_realtm_lst :
             SP_realtm_lst[i] \in Nodes /\ On(SP_realtm_lst, SP_realtm_lst[i])
        BY <1>1 DEF On
    <2>2. \A i \in DOMAIN SP_realtm_lst : msg'[SP_realtm_lst[i]] = msg[SP_realtm_lst[i]]
        BY <1>4, <1>6, <2>1
    <2> QED BY <2>2 DEF TxInv, OrderInv, Sorted
<1>9. Sorted(SP_realtm_lst, msg)'
    <2>1. \A n \in Nodes : On(SP_realtm_lst, n) => msg'[n] < msg'[x]
        BY <1>1, <1>4, <1>6
    <2> QED BY <1>1, <1>2, <1>8, <2>1, AppendSorted
<1>10. (pc \in {"send", "put"} => \A n \in Nodes : On(SP_realtm_lst, n) => cur < msg[n])'
    BY <1>1, <1>3, <1>4 DEF TxInv, OrderInv, CarryInv
<1>11. (\A m \in Messages : fate[m] = "waiting" =>
           \/ pc \in {"send", "put"} /\ cur = m
           \/ \E n \in Nodes : On(SP_realtm_lst, n) /\ msg[n] = m)'
    <2>1. ASSUME NEW m \in Messages, m # written + 1, fate[m] = "waiting"
          PROVE \/ pc' \in {"send", "put"} /\ cur' = m
                \/ \E n \in Nodes : On(SP_realtm_lst', n) /\ msg'[n] = m
        BY <1>3, <1>4, <1>6, <2>1 DEF TxInv, OrderInv
    <2>2. On(SP_realtm_lst', x) /\ msg'[x] = written + 1
        BY <1>3, <1>4
    <2> QED BY <1>5, <2>1, <2>2
<1>12. (\A m \in Messages : m > written => fate[m] = "none" /\ told[m] = "none")'
    BY <1>1, <1>2, <1>5 DEF TxInv, OrderInv
<1>13. DoneInOrder'
    BY <1>1, <1>5 DEF TxInv, OrderInv, DoneInOrder
<1> QED BY <1>7, <1>9, <1>10, <1>11, <1>12, <1>13 DEF OrderInv

\* Every step keeps the invariant of the send pool.
LEMMA TxStep == TxInv /\ [TxNext]_vars => TxInv'
<1> SUFFICES ASSUME TxInv, [TxNext]_vars PROVE TxInv'
    OBVIOUS
<1>1. TxTypeOK' /\ EachNodeOnce'
    BY TxTypeStep, NodeStep DEF TxInv
<1> SUFFICES CarryInv' /\ OrderInv'
    BY <1>1 DEF TxInv
<1> USE TspTxAssumption DEF Messages
<1>2. /\ TxTypeOK /\ EachNodeOnce /\ CarryInv /\ OrderInv
      /\ msg \in [Nodes -> 0..MaxMessages] /\ written \in 0..MaxMessages /\ rpt \in Nodes
      /\ fate \in [Messages -> {"none", "waiting", "sent", "fail", "late", "dropped"}]
      /\ told \in [Messages -> {"none", "sent", "fail", "late"}]
      /\ SP_free_lst \in Seq(Nodes) /\ SP_realtm_lst \in Seq(Nodes) /\ SP_trans_lst \in Seq(Nodes)
      /\ cur \in 0..MaxMessages /\ res \in Results
    BY DEF TxInv, TxTypeOK
<1>3. ASSUME NEW k \in Kinds, WriteFree(k) PROVE CarryInv' /\ OrderInv'
    <2>1. Head(SP_free_lst) \in Nodes /\ On(SP_free_lst, Head(SP_free_lst))
        BY <1>2, <1>3, TailPlaces DEF WriteFree
    <2>2. ~On(SP_realtm_lst, Head(SP_free_lst)) /\ ~Held(Head(SP_free_lst))
        BY <1>2, <2>1 DEF EachNodeOnce
    <2> QED BY <1>3, <2>1, <2>2, EnqueueStep DEF WriteFree
<1>4. ASSUME NEW k \in Kinds, WriteTrans(k) PROVE CarryInv' /\ OrderInv'
    <2>1. Head(SP_trans_lst) \in Nodes /\ On(SP_trans_lst, Head(SP_trans_lst))
        BY <1>2, <1>4, TailPlaces DEF WriteTrans
    <2>2. ~On(SP_realtm_lst, Head(SP_trans_lst)) /\ ~Held(Head(SP_trans_lst))
        BY <1>2, <2>1 DEF EachNodeOnce
    <2> QED BY <1>4, <2>1, <2>2, EnqueueStep DEF WriteTrans
<1>5. ASSUME NEW k \in Kinds, WriteDrops(k) PROVE CarryInv' /\ OrderInv'
    <2>1. /\ written' = written + 1 /\ written < MaxMessages
          /\ UNCHANGED <<SP_realtm_lst, msg, pc, rpt, cur, told>>
          /\ \A m \in Messages : fate'[m] = IF m = written + 1 THEN "dropped" ELSE fate[m]
        BY <1>2, <1>5 DEF WriteDrops, lists
    <2>2. CarryInv'
        BY <1>2, <2>1 DEF CarryInv
    <2>3. OrderInv'
        <3>1. DoneInOrder'
            BY <1>2, <2>1 DEF OrderInv, DoneInOrder
        <3>2. \A m \in Messages : m > written' => fate'[m] = "none" /\ told'[m] = "none"
            BY <1>2, <2>1 DEF OrderInv
        <3>3. \A m \in Messages : fate'[m] = "waiting" => fate[m] = "waiting"
            BY <1>2, <2>1
        <3> QED BY <1>2, <2>1, <3>1, <3>2, <3>3 DEF OrderInv
    <2> QED BY <2>2, <2>3
<1>6. ASSUME UNCHANGED <<SP_realtm_lst, msg, written, fate, rpt, cur, told>>,
             pc' \in {"send", "put"} <=> pc \in {"send", "put"}, pc' = "inform" => pc = "inform"
      PROVE CarryInv' /\ OrderInv'
    <2>1. CarryInv'
        BY <1>2, <1>6 DEF CarryInv
    <2>2. OrderInv'
        BY <1>2, <1>6 DEF OrderInv, DoneInOrder
    <2> QED BY <2>1, <2>2
<1>7. CASE SP_data_get_pack
    <2>1. /\ pc = "get" /\ SP_realtm_lst # <<>> /\ rpt' = Head(SP_realtm_lst)
          /\ SP_realtm_lst' = Tail(SP_realtm_lst) /\ cur' = msg[rpt']
          /\ pc' \in {"send", "put"} /\ UNCHANGED <<msg, written, fate, told>>
        BY <1>7 DEF SP_data_get_pack, messageVars
    <2>2. rpt' \in Nodes /\ \A n : On(SP_realtm_lst, n) <=> On(SP_realtm_lst', n) \/ n = rpt'
        BY <1>2, <2>1, TailPlaces
    <2>3. Sorted(SP_realtm_lst', msg) /\ \A n \in Nodes : On(SP_realtm_lst', n) => msg[rpt'] < msg[n]
        BY <1>2, <2>1, TailSorted DEF OrderInv
    <2>4. CarryInv'
        BY <1>2, <2>1, <2>2 DEF CarryInv
    <2>5. (\A m \in Messages : fate[m] = "waiting" =>
              \/ pc \in {"send", "put"} /\ cur = m
              \/ \E n \in Nodes : On(SP_realtm_lst, n) /\ msg[n] = m)'
        BY <1>2, <2>1, <2>2 DEF OrderInv
    <2> QED BY <1>2, <2>1, <2>3, <2>4, <2>5 DEF OrderInv, DoneInOrder
<1>8. ASSUME NEW r \in Results, sockproxy_MsgSend(r) PROVE CarryInv' /\ OrderInv'
    BY <1>6, <1>8 DEF sockproxy_MsgSend, messageVars
<1>9. CASE PutBack
    <2>1. /\ pc = "put" /\ pc' = "get" /\ SP_realtm_lst' = <<rpt>> \o SP_realtm_lst
          /\ UNCHANGED <<msg, written, fate, rpt, cur>>
        BY <1>9 DEF PutBack, SP_data_put_back, messageVars
    <2>2. \A n : On(SP_realtm_lst', n) <=> On(SP_realtm_lst, n) \/ n = rpt
        BY <1>2, <2>1, FirstPlaces
    <2>3. msg[rpt] = cur /\ cur \in 1..written /\ fate[cur] = "waiting"
        BY <1>2, <2>1 DEF CarryInv
    <2>4. Sorted(SP_realtm_lst', msg)
        BY <1>2, <2>1, <2>3, FirstSorted DEF OrderInv
    <2>5. CarryInv'
        BY <1>2, <2>1, <2>2, <2>3 DEF CarryInv
    <2>6. (\A m \in Messages : fate[m] = "waiting" =>
              \/ pc \in {"send", "put"} /\ cur = m
              \/ \E n \in Nodes : On(SP_realtm_lst, n) /\ msg[n] = m)'
        BY <1>2, <2>1, <2>2, <2>3 DEF OrderInv
    <2>7. \A m \in Messages : m > written => told'[m] = "none"
        <3>1. told' = told \/ told' = [told EXCEPT ![cur] = "fail"]
            BY <1>9, <2>3 DEF PutBack
        <3> QED BY <1>2, <2>3, <3>1 DEF OrderInv
    <2> QED BY <1>2, <2>1, <2>4, <2>5, <2>6, <2>7 DEF OrderInv, DoneInOrder
<1>10. CASE PutSend
    <2>1. /\ pc = "put" /\ pc' = "inform"
          /\ UNCHANGED <<SP_realtm_lst, msg, written, rpt, cur, told>>
          /\ fate' = [fate EXCEPT ![cur] = IF res = "wait" THEN "fail" ELSE res]
        BY <1>10 DEF PutSend
    <2>2. msg[rpt] = cur /\ cur \in 1..written /\ fate[cur] = "waiting"
        BY <1>2, <2>1 DEF CarryInv
    <2>3. /\ fate'[cur] \in {"sent", "fail", "late"}
          /\ \A m \in Messages : m # cur => fate'[m] = fate[m]
        BY <1>2, <2>1, <2>2 DEF Results
    <2>4. \A n \in Nodes : On(SP_realtm_lst, n) => cur < msg[n] /\ msg[n] \in 1..written
        BY <1>2, <2>1 DEF OrderInv, CarryInv
    <2>5. CarryInv'
        BY <1>2, <2>1, <2>2, <2>3, <2>4 DEF CarryInv
    <2>6. \A m \in Messages : fate'[m] = "waiting" =>
             fate[m] = "waiting" /\ cur < m /\ \E n \in Nodes : On(SP_realtm_lst, n) /\ msg[n] = m
        BY <1>2, <2>1, <2>2, <2>3, <2>4 DEF OrderInv
    <2>7. DoneInOrder'
        BY <1>2, <2>2, <2>3, <2>6 DEF OrderInv, DoneInOrder
    <2>8. \A m \in Messages : m > written => fate'[m] = "none" /\ told'[m] = "none"
        BY <1>2, <2>1, <2>2, <2>3 DEF OrderInv
    <2> QED BY <1>2, <2>1, <2>5, <2>6, <2>7, <2>8 DEF OrderInv
<1>11. CASE Inform
    <2>1. /\ pc = "inform" /\ pc' = "get"
          /\ UNCHANGED <<SP_realtm_lst, msg, written, fate, rpt, cur>>
        BY <1>11 DEF Inform, lists, messageVars
    <2>2. CarryInv'
        BY <1>2, <2>1 DEF CarryInv
    <2>3. \A m \in Messages : m > written => told'[m] = "none"
        <3>1. PICK t \in (IF msg[rpt] = cur THEN {fate[cur]} ELSE {"fail", "sent"}) :
                 told' = [told EXCEPT ![msg[rpt]] = t]
            BY <1>11 DEF Inform
        <3>2. msg[rpt] <= written
            BY <1>2 DEF CarryInv
        <3> QED BY <1>2, <3>1, <3>2 DEF OrderInv
    <2> QED BY <1>2, <2>1, <2>2, <2>3 DEF OrderInv, DoneInOrder
<1>12. CASE GbSends
    BY <1>6, <1>12 DEF GbSends, messageVars
<1>13. ASSUME NEW m \in Messages, OutOfTime(m) PROVE CarryInv' /\ OrderInv'
    BY <1>6, <1>13 DEF OutOfTime, lists, messageVars
<1>14. CASE UNCHANGED vars
    BY <1>6, <1>14 DEF vars, lists, messageVars
<1> QED BY <1>3, <1>4, <1>5, <1>7, <1>8, <1>9, <1>10, <1>11, <1>12, <1>13, <1>14
        DEF TxNext, SP_data_write, SendThread

-----------------------------------------------------------------------------
(* What the writers are told.                                              *)

LastOf(lst, n) == lst # <<>> /\ lst[Len(lst)] = n

\* Until the pool is drained, the node whose callback is about to be read is the
\* youngest of its list, which is not given out before the others.
TellInv ==
    ~dry => /\ pc = "inform" =>
                 /\ msg[rpt] = cur
                 /\ LastOf(SP_trans_lst, rpt) \/ (SP_trans_lst = <<>> /\ LastOf(SP_free_lst, rpt))
            /\ ToldItsOwn

\* What is appended is last.
LEMMA AppendLast ==
    ASSUME NEW lst \in Seq(Nodes), NEW x \in Nodes
    PROVE LastOf(Append(lst, x), x)
BY DEF LastOf

\* The last one stays last when the head is taken.
LEMMA TailLast ==
    ASSUME NEW lst \in Seq(Nodes), NEW x \in Nodes, LastOf(lst, x)
    PROVE /\ Len(lst) = 1 => Head(lst) = x /\ Tail(lst) = <<>>
          /\ Len(lst) # 1 => LastOf(Tail(lst), x) /\ (Once(lst) => Head(lst) # x)
<1>1. Len(lst) \in Nat \ {0} /\ Len(Tail(lst)) = Len(lst) - 1 /\ Head(lst) = lst[1]
      /\ DOMAIN lst = 1..Len(lst) /\ Tail(lst) \in Seq(Nodes) /\ lst[Len(lst)] = x
    BY DEF LastOf
<1>0. ASSUME NEW s \in Seq(Nodes) PROVE (s = <<>>) <=> (Len(s) = 0)
    BY <1>0
<1>2. ASSUME Len(lst) = 1 PROVE Head(lst) = x /\ Tail(lst) = <<>>
    <2>1. Head(lst) = x
        BY <1>1, <1>2
    <2>2. Len(Tail(lst)) = 0
        BY <1>1, <1>2
    <2> QED BY <1>0, <1>1, <2>1, <2>2
<1>3. ASSUME Len(lst) # 1 PROVE LastOf(Tail(lst), x)
    <2>1. Len(lst) - 1 \in 1..(Len(lst) - 1)
        BY <1>1, <1>3
    <2>2. Tail(lst)[Len(lst) - 1] = lst[Len(lst)]
        BY <1>1, <1>3, <2>1
    <2>3. Tail(lst) # <<>>
        <3>1. Len(Tail(lst)) # 0
            BY <1>1, <1>3
        <3> QED BY <1>0, <1>1, <3>1
    <2> QED BY <1>1, <2>2, <2>3 DEF LastOf
<1>4. ASSUME Len(lst) # 1, Once(lst) PROVE Head(lst) # x
    <2>1. 1 \in DOMAIN lst /\ Len(lst) \in DOMAIN lst
        BY <1>1
    <2> QED BY <1>1, <1>4, <2>1 DEF Once
<1> QED BY <1>2, <1>3, <1>4

\* Every step keeps the node that is about to be told safe from reuse.
LEMMA TellStep == TxInv /\ TellInv /\ [TxNext]_vars => TellInv'
<1> SUFFICES ASSUME TxInv, TellInv, [TxNext]_vars, ~dry' PROVE
             /\ (pc = "inform" =>
                   /\ msg[rpt] = cur
                   /\ LastOf(SP_trans_lst, rpt) \/ (SP_trans_lst = <<>> /\ LastOf(SP_free_lst, rpt)))'
             /\ ToldItsOwn'
    BY DEF TellInv
<1> DEFINE Youngest ==
              pc = "inform" =>
                 /\ msg[rpt] = cur
                 /\ LastOf(SP_trans_lst, rpt) \/ (SP_trans_lst = <<>> /\ LastOf(SP_free_lst, rpt))
<1> SUFFICES Youngest' /\ ToldItsOwn'
    OBVIOUS
<1> USE TspTxAssumption DEF Messages
<1>1. /\ EachNodeOnce /\ CarryInv /\ OrderInv
      /\ msg \in [Nodes -> 0..MaxMessages] /\ written \in 0..MaxMessages /\ rpt \in Nodes
      /\ fate \in [Messages -> {"none", "waiting", "sent", "fail", "late", "dropped"}]
      /\ told \in [Messages -> {"none", "sent", "fail", "late"}]
      /\ kind \in [Messages -> Kinds \cup {"none"}]
      /\ SP_free_lst \in Seq(Nodes) /\ SP_realtm_lst \in Seq(Nodes) /\ SP_trans_lst \in Seq(Nodes)
      /\ cur \in 0..MaxMessages /\ dry \in BOOLEAN
    BY DEF TxInv, TxTypeOK
<1>2. ~dry
    BY <1>1 DEF TxNext, SP_data_write, WriteFree, WriteTrans, WriteDrops, SendThread,
               SP_data_get_pack, sockproxy_MsgSend, PutBack, PutSend, Inform, GbSends, OutOfTime,
               vars, messageVars
<1>3. Youngest /\ ToldItsOwn
    BY <1>2 DEF TellInv
<1>4. ASSUME UNCHANGED <<told, fate, kind>> PROVE ToldItsOwn'
    BY <1>2, <1>3, <1>4 DEF ToldItsOwn
<1>5. ASSUME SP_data_ack_pack, UNCHANGED <<msg, rpt, cur>>, pc' = "inform" => pc = "inform"
      PROVE Youngest'
    <2> SUFFICES ASSUME pc = "inform", SP_trans_lst # <<>>
                 PROVE LastOf(SP_trans_lst', rpt) \/ (SP_trans_lst' = <<>> /\ LastOf(SP_free_lst', rpt))
        BY <1>3, <1>5 DEF SP_data_ack_pack
    <2>1. LastOf(SP_trans_lst, rpt)
        BY <1>3
    <2>2. SP_trans_lst' = Tail(SP_trans_lst)
          /\ SP_free_lst' = Append(SP_free_lst, Head(SP_trans_lst))
        BY <1>5 DEF SP_data_ack_pack
    <2>3. CASE Len(SP_trans_lst) = 1
        BY <1>1, <2>1, <2>2, <2>3, TailLast, AppendLast
    <2>4. CASE Len(SP_trans_lst) # 1
        BY <1>1, <2>1, <2>2, <2>4, TailLast
    <2> QED BY <2>3, <2>4
<1>6. ASSUME NEW k \in Kinds, WriteFree(k) PROVE Youngest' /\ ToldItsOwn'
    <2>1. /\ SP_free_lst # <<>> /\ Len(SP_free_lst) # 1 /\ SP_free_lst' = Tail(SP_free_lst)
          /\ Enqueue(Head(SP_free_lst), k) /\ written < MaxMessages
          /\ UNCHANGED <<SP_trans_lst, pc, rpt, cur, told>>
        BY <1>6 DEF WriteFree
    <2>2. Head(SP_free_lst) \in Nodes /\ On(SP_free_lst, Head(SP_free_lst))
        BY <1>1, <2>1, TailPlaces
    <2>3. ASSUME pc = "inform" PROVE Head(SP_free_lst) # rpt
        <3>1. CASE LastOf(SP_trans_lst, rpt)
            <4>1. On(SP_trans_lst, rpt)
                BY <1>1, <3>1 DEF LastOf, On
            <4> QED BY <1>1, <2>2, <4>1 DEF EachNodeOnce
        <3>2. CASE LastOf(SP_free_lst, rpt)
            BY <1>1, <2>1, <3>2, TailLast DEF EachNodeOnce
        <3> QED BY <1>3, <2>3, <3>1, <3>2
    <2>4. pc = "inform" => msg'[rpt] = msg[rpt]
        BY <1>1, <2>1, <2>3 DEF Enqueue
    <2>5. LastOf(SP_free_lst, rpt) => LastOf(SP_free_lst', rpt)
        BY <1>1, <2>1, TailLast
    <2>6. Youngest'
        BY <1>3, <2>1, <2>4, <2>5
    <2>7. ToldItsOwn'
        <3>1. /\ \A m \in Messages : m # written + 1 => fate'[m] = fate[m] /\ kind'[m] = kind[m]
              /\ told[written + 1] = "none"
            BY <1>1, <2>1 DEF Enqueue, OrderInv
        <3> QED BY <1>2, <1>3, <2>1, <3>1 DEF ToldItsOwn
    <2> QED BY <2>6, <2>7
<1>7. ASSUME NEW k \in Kinds, WriteDrops(k) PROVE Youngest' /\ ToldItsOwn'
    <2>1. Youngest'
        BY <1>3, <1>7 DEF WriteDrops, lists
    <2>2. /\ \A m \in Messages : m # written + 1 => fate'[m] = fate[m] /\ kind'[m] = kind[m]
          /\ told[written + 1] = "none" /\ told' = told
        BY <1>1, <1>7 DEF WriteDrops, OrderInv
    <2> QED BY <1>2, <1>3, <2>1, <2>2 DEF ToldItsOwn
<1>8. CASE SP_data_get_pack
    BY <1>4, <1>8 DEF SP_data_get_pack, messageVars
<1>9. ASSUME NEW r \in Results, sockproxy_MsgSend(r) PROVE Youngest' /\ ToldItsOwn'
    BY <1>4, <1>9 DEF sockproxy_MsgSend, messageVars
<1>10. CASE PutBack
    <2>1. msg[rpt] = cur /\ cur \in 1..written
        BY <1>1, <1>10 DEF PutBack, CarryInv
    <2>2. told' = told \/ (told' = [told EXCEPT ![cur] = "fail"] /\ kind[cur] = "CONTINUE")
        BY <1>10, <2>1 DEF PutBack, Retry
    <2>3. ToldItsOwn'
        BY <1>1, <1>2, <1>3, <1>10, <2>1, <2>2 DEF ToldItsOwn, PutBack, messageVars
    <2> QED BY <1>10, <2>3 DEF PutBack
<1>11. CASE PutSend
    <2>1. msg[rpt] = cur /\ cur \in 1..written /\ fate[cur] = "waiting"
        BY <1>1, <1>11 DEF PutSend, CarryInv
    <2>2. Youngest'
        BY <1>1, <1>11, <2>1, AppendLast DEF PutSend, SP_data_put_send
    <2>3. \A m \in Messages : m # cur => fate'[m] = fate[m]
        BY <1>1, <1>11 DEF PutSend
    <2>4. told[cur] = "none" \/ (told[cur] = "fail" /\ kind[cur] = "CONTINUE")
        <3>1. cur \in Messages /\ told[cur] \in {"none", "sent", "fail", "late"}
            BY <1>1, <2>1 DEF Messages
        <3>2. told[cur] \in {"none", fate[cur]} \/ (told[cur] = "fail" /\ kind[cur] = "CONTINUE")
            BY <1>2, <1>3, <3>1 DEF ToldItsOwn
        <3>3. told[cur] # "waiting"
            BY <3>1
        <3> QED BY <2>1, <3>2, <3>3
    <2>5. UNCHANGED <<told, kind>>
        BY <1>11 DEF PutSend
    <2> QED BY <1>2, <1>3, <2>2, <2>3, <2>4, <2>5 DEF ToldItsOwn
<1>12. CASE Inform
    <2>1. msg[rpt] = cur /\ cur \in 1..written
        BY <1>1, <1>3, <1>12 DEF Inform, CarryInv
    <2>2. told' = [told EXCEPT ![cur] = fate[cur]] /\ UNCHANGED <<fate, kind>>
        BY <1>12, <2>1 DEF Inform, messageVars
    <2>3. ToldItsOwn'
        BY <1>1, <1>2, <1>3, <2>1, <2>2 DEF ToldItsOwn
    <2> QED BY <1>12, <2>3 DEF Inform
<1>13. CASE GbSends
    BY <1>4, <1>5, <1>13 DEF GbSends, messageVars
<1>14. ASSUME NEW m \in Messages, OutOfTime(m) PROVE Youngest' /\ ToldItsOwn'
    BY <1>3, <1>4, <1>14 DEF OutOfTime, lists, messageVars
<1>15. CASE UNCHANGED vars
    BY <1>3, <1>4, <1>15 DEF vars, lists, messageVars
<1>16. ASSUME NEW k \in Kinds, WriteTrans(k) PROVE FALSE
    BY <1>16 DEF WriteTrans
<1> QED BY <1>6, <1>7, <1>8, <1>9, <1>10, <1>11, <1>12, <1>13, <1>14, <1>15, <1>16
        DEF TxNext, SP_data_write, SendThread

\* The invariants of the send pool, for every size.
LEMMA TxInvariant == TxSpec => [](TxInv /\ TellInv)
<1>1. TxInit => TxInv
    BY TxInitInv, OrderInit DEF TxInv
<1>2. TxInit => TellInv
    BY DEF TxInit, TellInv, ToldItsOwn
<1>3. TxInv /\ TellInv /\ [TxNext]_vars => (TxInv /\ TellInv)'
    BY TxStep, TellStep
<1> QED BY <1>1, <1>2, <1>3, PTL DEF TxSpec

\* The lists, the messages and the send thread stay in their types, for every size
\* of the pool and any number of messages.
THEOREM TxTypeCorrect == TxSpec => []TxTypeOK
<1>1. TxInv => TxTypeOK BY DEF TxInv
<1> QED BY <1>1, TxInvariant, PTL

\* For every size of the pool SP_data_write, SP_data_get_pack, SP_data_put_back,
\* SP_data_put_send and SP_data_ack_pack keep each node in exactly one place.
THEOREM EachNodeAlwaysOnce == TxSpec => []EachNodeOnce
<1>1. TxInv => EachNodeOnce BY DEF TxInv
<1> QED BY <1>1, TxInvariant, PTL

\* For every size of the pool and any number of messages, sockproxy_do_send is done
\* with them in the order of SP_data_write.
THEOREM AlwaysDoneInOrder == TxSpec => []DoneInOrder
<1>1. TxInv => DoneInOrder BY DEF TxInv, OrderInv
<1> QED BY <1>1, TxInvariant, PTL

\* For every size of the pool, as long as it is not drained, the callback that
\* sockproxy_do_send reads from a node it no longer holds is that of its message.
THEOREM AlwaysToldItsOwn == TxSpec => []ToldItsOwn
<1>1. TellInv => ToldItsOwn BY DEF TellInv, ToldItsOwn
<1> QED BY <1>1, TxInvariant, PTL

-----------------------------------------------------------------------------
(* The report store.                                                       *)


\* The protocol thread holds a pack exactly while it sends one, and at most one
\* pack is in flight: it is acknowledged before the next one is.
ClientInv ==
    /\ hand # "none" <=> gb_pc \in {"report", "sent"}
    /\ InFlight <= 1
    /\ gb_pc = "sent" => InFlight = 0

\* The copy of the ring takes one pack for each slot that it empties.
CopyInv ==
    /\ errmtx <=> can_pc = "copy"
    /\ tmp + err <= ErrSlots
    /\ tmp > 0 => can_pc \in {"copy", "append"}

\* An alarm whose history is still to be moved is in the hands of the callback.
AlarmInv ==
    /\ can_pc # "save" => ticks < Interval
    /\ triger => can_pc \in {"count", "save"}
    /\ triger /\ can_pc = "count" => times = AlarmTicks + 1
    /\ times > 0 /\ err > 0 => triger \/ can_pc \in {"flush_realtm", "flush_error", "copy"}

GbDataInv == GbDataTypeOK /\ PacksConserved /\ BufferFound /\ ClientInv /\ CopyInv /\ AlarmInv

-----------------------------------------------------------------------------
\* sock_bufsz answers -1, the largest unsigned value: gb_do_report never drops
\* the pack it has taken.
LEMMA AlwaysFits == Fits
  <1>1. -1 = Word * (-1) + (Word - 1) /\ 0 <= Word - 1 /\ Word - 1 < Word
    BY GbDataAssumption
  <1>2. (-1) % Word = Word - 1
    BY <1>1, GbDataAssumption
  <1> QED
    BY <1>2, GbDataAssumption DEF Fits, sock_bufsz

\* The copy and the packs being sent leave a pack of the pool to write to.
LEMMA PackLeft ==
    ASSUME GbDataInv
    PROVE  ~NoBuffer
  BY GbDataAssumption DEF GbDataInv, GbDataTypeOK, PacksConserved, ClientInv, CopyInv, NoBuffer,
     InFlight, HeldPack, Homes

\* The pack a report takes comes from a list that has one.
LEMMA TakesOne ==
    ASSUME GbDataInv, NEW saved \in {0, 1}, Take(saved)
    PROVE  /\ free' \in 0..Pool /\ delay' \in 0..Pool /\ realtm' \in 0..Pool
           /\ free' + delay' + realtm' = free + delay + realtm - 1 + saved
  BY PackLeft, GbDataAssumption DEF GbDataInv, GbDataTypeOK, PacksConserved, NoBuffer, Take, Source,
     InFlight, HeldPack, Homes

\* gb_data_ack_pack empties the list of packs in flight.
LEMMA AckFrees ==
    ASSUME GbDataInv, gb_data_ack_pack
    PROVE  /\ free' \in 0..Pool /\ trans' \in [Homes -> 0..Pool]
           /\ free' + InFlight' = free + InFlight /\ InFlight' = 0
  BY GbDataAssumption DEF GbDataInv, GbDataTypeOK, PacksConserved, ClientInv, gb_data_ack_pack,
     InFlight, HeldPack, Homes

-----------------------------------------------------------------------------
\* Every step keeps the invariant.
LEMMA GbDataStep == GbDataInv /\ [GbDataNext]_gbvars => GbDataInv'
  <1> SUFFICES ASSUME GbDataInv, [GbDataNext]_gbvars
               PROVE  GbDataInv'
    OBVIOUS
  <1> USE GbDataAssumption DEF GbDataInv, GbDataTypeOK, PacksConserved, BufferFound, ClientInv, CopyInv, AlarmInv, InFlight, HeldPack, Homes
  <1>1. CASE gb_data_periodic
    <2>1. GbDataTypeOK'
      <3>1. warntrig' \in BOOLEAN /\ triger' \in BOOLEAN
        BY <1>1, Zenon DEF gb_data_periodic
      <3> QED
        BY <3>1, <1>1 DEF gb_data_periodic, AlarmSeconds, packLists
    <2>2. PacksConserved' /\ BufferFound' /\ ClientInv'
      BY <1>1 DEF gb_data_periodic, AlarmSeconds, packLists
    <2>3. CopyInv'
      BY <1>1 DEF gb_data_periodic, AlarmSeconds, packLists
    <2>4. AlarmInv'
      BY <1>1 DEF gb_data_periodic, AlarmSeconds, packLists
    <2> QED
      BY <2>1, <2>2, <2>3, <2>4
  <1>2. CASE PeriodicFlushRealtm
    BY <1>2 DEF PeriodicFlushRealtm, FlushRealtm, periodic
  <1>3. CASE PeriodicCount
    BY <1>3 DEF PeriodicCount, Period, packLists
  <1>4. CASE PeriodicSave
    <2>1. GbDataTypeOK'
      <3>1. triger' \in BOOLEAN
        BY <1>4, PackLeft, Zenon DEF PeriodicSave
      <3> QED
        BY <3>1, <1>4, PackLeft, TakesOne DEF PeriodicSave
    <2>2. PacksConserved' /\ BufferFound' /\ ClientInv'
      BY <1>4, PackLeft, TakesOne DEF PeriodicSave
    <2>3. CopyInv'
      BY <1>4, PackLeft, TakesOne DEF PeriodicSave
    <2>4. AlarmInv'
      BY <1>4, PackLeft, TakesOne DEF PeriodicSave
    <2> QED
      BY <2>1, <2>2, <2>3, <2>4
  <1>5. CASE FlushErrorLock
    BY <1>5 DEF FlushErrorLock, packLists, periodic
  <1>6. CASE FlushErrorCopy
    BY <1>6, PackLeft, TakesOne DEF FlushErrorCopy, periodic
  <1>7. CASE FlushErrorUnlock
    <2>1. GbDataTypeOK'
      BY <1>7 DEF FlushErrorUnlock, packLists, periodic
    <2>2. PacksConserved' /\ BufferFound' /\ ClientInv'
      BY <1>7 DEF FlushErrorUnlock, packLists, periodic
    <2>3. CopyInv'
      BY <1>7 DEF FlushErrorUnlock, packLists, periodic
    <2>4. AlarmInv'
      BY <1>7 DEF FlushErrorUnlock, packLists, periodic
    <2> QED
      BY <2>1, <2>2, <2>3, <2>4
  <1>8. CASE FlushErrorAppend
    BY <1>8 DEF FlushErrorAppend, periodic
  <1>9. CASE gb_data_eventReport
    BY <1>9, PackLeft, TakesOne DEF gb_data_eventReport, periodic
  <1>10. CASE CanActive
    BY <1>10 DEF CanActive, packLists, periodic
  <1>11. CASE CanSilent
    <2>1. GbDataTypeOK'
      <3>1. canact' \in BOOLEAN
        BY <1>11, Zenon DEF CanSilent
      <3> QED
        BY <3>1, <1>11 DEF CanSilent, packLists, periodic
    <2>2. PacksConserved' /\ BufferFound' /\ ClientInv'
      BY <1>11 DEF CanSilent, packLists, periodic
    <2>3. CopyInv'
      BY <1>11 DEF CanSilent, packLists, periodic
    <2>4. AlarmInv'
      BY <1>11 DEF CanSilent, packLists, periodic
    <2> QED
      BY <2>1, <2>2, <2>3, <2>4
  <1>12. CASE Alarm
    BY <1>12 DEF Alarm, packLists, periodic
  <1>13. CASE ReloadInfo
    <2>1. GbDataTypeOK'
      BY <1>13 DEF ReloadInfo, packLists, periodic
    <2>2. PacksConserved' /\ BufferFound' /\ ClientInv'
      BY <1>13 DEF ReloadInfo, packLists, periodic
    <2>3. CopyInv'
      BY <1>13 DEF ReloadInfo, packLists, periodic
    <2>4. AlarmInv'
      BY <1>13 DEF ReloadInfo, packLists, periodic
    <2> QED
      BY <2>1, <2>2, <2>3, <2>4
  <1>14. CASE ReloadRing
    <2>1. GbDataTypeOK'
      <3>1. reload' \in BOOLEAN
        BY <1>14, Zenon DEF ReloadRing
      <3> QED
        BY <3>1, <1>14 DEF ReloadRing, packLists, periodic
    <2>2. PacksConserved' /\ BufferFound' /\ ClientInv'
      BY <1>14 DEF ReloadRing, packLists, periodic
    <2>3. CopyInv'
      BY <1>14 DEF ReloadRing, packLists, periodic
    <2>4. AlarmInv'
      BY <1>14 DEF ReloadRing, packLists, periodic
    <2> QED
      BY <2>1, <2>2, <2>3, <2>4
  <1>15. CASE gb_data_get_pack
    BY <1>15, AlwaysFits DEF gb_data_get_pack, can, periodic
  <1>16. CASE ReportAck
    BY <1>16, AckFrees DEF ReportAck, can, periodic
  <1>17. CASE gb_data_put_send
    BY <1>17 DEF gb_data_put_send, can, periodic
  <1>18. CASE gb_data_put_back
    BY <1>18 DEF gb_data_put_back, can, periodic
  <1>19. CASE SendOther
    BY <1>19, AckFrees DEF SendOther, can, periodic
  <1>20. CASE LoginFails
    BY <1>20 DEF LoginFails, packLists, can, periodic
  <1>21. CASE gb_data_flush_sending
    BY <1>21 DEF gb_data_flush_sending, can, periodic
  <1>22. CASE gb_data_flush_realtm
    BY <1>22 DEF gb_data_flush_realtm, FlushRealtm, can, periodic
  <1>23. CASE gb_data_clear_error
    BY <1>23 DEF gb_data_clear_error, packLists, periodic
  <1>24. CASE gb_data_set_pendflag
    BY <1>24 DEF gb_data_set_pendflag, packLists, periodic
  <1>25. CASE UNCHANGED gbvars
    BY <1>25 DEF gbvars, packLists, periodic
  <1> QED
    BY <1>1, <1>2, <1>3, <1>4, <1>5, <1>6, <1>7, <1>8, <1>9, <1>10, <1>11, <1>12, <1>13, <1>14, <1>15, <1>16, <1>17, <1>18, <1>19, <1>20, <1>21, <1>22, <1>23, <1>24, <1>25 DEF GbDataNext, Periodic, FlushError, Environment, Client

\* The report store starts in the invariant and never leaves it.
LEMMA GbDataInvariant == GbDataSpec => []GbDataInv
  <1>1. GbDataInit => GbDataInv
    <2> SUFFICES ASSUME GbDataInit
                 PROVE  GbDataInv
      OBVIOUS
    <2>1. /\ errmtx \in BOOLEAN /\ canact \in BOOLEAN /\ warntrig \in BOOLEAN
          /\ pendflag \in BOOLEAN /\ triger \in BOOLEAN /\ reload \in BOOLEAN
      BY Zenon DEF GbDataInit
    <2> QED
      BY <2>1, GbDataAssumption
      DEF GbDataInit, GbDataInv, GbDataTypeOK, PacksConserved, BufferFound, ClientInv, CopyInv,
          AlarmInv, InFlight, HeldPack, Homes
  <1> QED
    BY <1>1, GbDataStep, PTL DEF GbDataSpec

-----------------------------------------------------------------------------
\* For every size of the pool and of the ring the counts of the lists stay within
\* the pool, the seconds within the interval and the copy within the ring.
THEOREM GbDataTypeCorrect == GbDataSpec => []GbDataTypeOK
  <1>1. GbDataInv => GbDataTypeOK
    BY DEF GbDataInv
  <1> QED
    BY <1>1, GbDataInvariant, PTL

\* No pack is ever lost or doubled, whatever the two threads do: gb_do_report
\* puts each pack it takes on exactly one list, because the -1 of sock_bufsz
\* always passes for a large enough buffer.
THEOREM PacksConservedAlways == GbDataSpec => []PacksConserved
  <1>1. GbDataInv => PacksConserved
    BY DEF GbDataInv
  <1> QED
    BY <1>1, GbDataInvariant, PTL

\* The loop for ever on an empty pool is never entered: a pool of ErrSlots + 3
\* packs is enough, since the copy holds no more packs than the ring has slots,
\* the protocol thread one, and one is in flight.
THEOREM BufferAlwaysFound == GbDataSpec => []BufferFound
  <1>1. GbDataInv => BufferFound
    BY DEF GbDataInv
  <1> QED
    BY <1>1, GbDataInvariant, PTL

\* Whenever the callback of the CAN thread has ended, the history of the last
\* alarm has been moved to the delayed reports.
THEOREM HistoryAlwaysMoved == GbDataSpec => []HistoryMovedAtOnce
  <1>1. GbDataInv => HistoryMovedAtOnce
    BY DEF GbDataInv, GbDataTypeOK, AlarmInv, HistoryMovedAtOnce
  <1> QED
    BY <1>1, GbDataInvariant, PTL

-----------------------------------------------------------------------------
(* How the stream is cut into messages.                                    *)

\* The messages have a kind and the places of their bytes in the stream.
SentType == sent \in Seq([kind : {"GB", "PRIV"}, first : Nat, last : Nat])

\* Each begins where the one before it ends.
Gapless == \A k \in DOMAIN sent :
    sent[k].first = IF k = 1 THEN 1 ELSE sent[k - 1].last + 1

\* None is shorter than its header; a GB message has data and a check code.
LongEnough == \A k \in DOMAIN sent :
    IF sent[k].kind = "GB" THEN sent[k].last > sent[k].first + GbHead
    ELSE sent[k].last + 1 >= sent[k].first + PrivHead

\* A later one is behind an earlier one.
InOrder == \A j, k \in DOMAIN sent : j < k => sent[j].last < sent[k].first

\* Every byte belongs to one.
Covered == \A p \in 1 .. Total :
    \E k \in DOMAIN sent : sent[k].first <= p /\ p <= sent[k].last

\* The stream of the TSP.
StreamInv == SentType /\ Gapless /\ LongEnough /\ InOrder /\ Covered

\* The types of sockSt and of the loop.
Frames == [type : {"UNRCV", "GB", "PRIV"}, datalen : Nat, buf : Seq(Nat),
           step : {"IDLE", "SIGN", "CTRL", "DATALEN", "DATA", "CHECKCODE"}]
Loops == [type : {"UNRCV", "GB", "PRIV"}, data : Nat \ {0}, rlen : Nat, len : Nat]

\* Types; what is excused has begun to arrive.
StTypeOK ==
    /\ pos \in 0 .. Total /\ frame \in Frames /\ loop \in Loops
    /\ cut \in Seq(Nat)
    /\ excused \subseteq DOMAIN sent
    /\ \A k \in excused : sent[k].first <= pos
    /\ mixed \in BOOLEAN

\* The message is one that must be delivered.
Due(k) == Receivable(k) /\ k \notin excused

\* Step s with d in datalen, when the first n bytes of message k are in the buffer.
InStep(k, s, d, n) ==
    IF sent[k].kind = "GB"
    THEN \/ s = "CTRL" /\ 2 <= n /\ n < GbCtrl
         \/ s = "DATALEN" /\ GbCtrl <= n /\ n < GbHead
         \/ /\ s = "DATA" /\ GbHead <= n /\ n < GbHead + d
            /\ d = Bytes(k) - GbHead - 1 /\ Receivable(k)
         \/ s = "CHECKCODE" /\ n = Bytes(k) - 1 /\ Receivable(k)
    ELSE \/ s = "CTRL" /\ 2 <= n /\ n < PrivHead
         \/ s = "DATA" /\ PrivHead <= n /\ n < d /\ d = Bytes(k) /\ Receivable(k)

\* The bytes of message k before p are in the buffer, and p is next.
InMsg(k, p) ==
    /\ k \in DOMAIN sent /\ sent[k].first <= p /\ p <= sent[k].last
    /\ IF frame.step \in {"IDLE", "SIGN"}
       THEN p = sent[k].first /\ (frame.step = "SIGN" => frame.buf = <<>>)
       ELSE /\ Len(frame.buf) = p - sent[k].first
            /\ \A i \in DOMAIN frame.buf : frame.buf[i] = sent[k].first + i - 1
            /\ InStep(k, frame.step, frame.datalen, Len(frame.buf))

\* The loop is in message k: either the kind of the call was taken from it, or the
\* loop ran into it behind another and the kind is forgotten.  All that came before
\* it in the call is delivered.
LoopMsg(k) ==
    /\ InMsg(k, Byte) /\ sent[k].kind = loop.type
    /\ IF sent[k].first <= loop.data
       THEN /\ frame.type = loop.type /\ k \notin excused
            /\ sent[k].first = loop.data => loop.data < pos
       ELSE frame.type = "UNRCV"
    /\ \A j \in 1 .. k - 1 : sent[j].last >= loop.data => Due(j)

\* Of the messages that begin inside the call exactly those are excused that it
\* does not bring whole or that it drops; the others are of the kind of the loop.
CallInv ==
    \A j \in BeginInside(loop.data, pos) :
        /\ j \in excused <=> sent[j].last > pos \/ Dropped(loop.data, j)
        /\ sent[j].kind = sent[j - 1].kind \/ Dropped(loop.data, j)

\* While a loop runs: how many rounds are left, two bytes going in one round of
\* SIGN and none in IDLE, and the message it is in.
LoopInv ==
    loop.len > 0 =>
        /\ Byte + loop.len = pos + IF frame.step = "SIGN" THEN 0 ELSE 1
        /\ \E k \in DOMAIN sent : LoopMsg(k)
        /\ CallInv

\* Between two calls: without a kind, a message that is not complete is given up;
\* with one, it is the kind of the message the call ended inside of.
RestInv ==
    loop.len = 0 =>
        IF frame.type = "UNRCV"
        THEN \A k \in DOMAIN sent : sent[k].first <= pos /\ pos < sent[k].last => ~Due(k)
        ELSE \E k \in DOMAIN sent :
               /\ InMsg(k, pos + 1) /\ sent[k].first <= pos
               /\ sent[k].kind = frame.type /\ k \notin excused

\* The next byte to be looked at.
ReadTo == IF loop.len > 0 THEN Byte ELSE pos + 1

\* The queues were given, in order, exactly the messages that were due up to there.
CutInv ==
    /\ \A i, j \in DOMAIN cut : i < j => cut[i] < cut[j]
    /\ \A i \in DOMAIN cut :
         cut[i] \in DOMAIN sent /\ sent[cut[i]].last < ReadTo /\ Due(cut[i])
    /\ \A k \in DOMAIN sent :
         sent[k].last < ReadTo /\ Due(k) => \E i \in DOMAIN cut : cut[i] = k

\* The inductive invariant.
StInv == StreamInv /\ StTypeOK /\ (~mixed => LoopInv /\ RestInv /\ CutInv)

-----------------------------------------------------------------------------
\* What the places of the messages are.
LEMMA SentFacts ==
    ASSUME StreamInv
    PROVE  /\ DOMAIN sent = 1 .. Len(sent) /\ Len(sent) \in Nat
           /\ Total \in Nat
           /\ \A k \in DOMAIN sent :
                /\ sent[k].kind \in {"GB", "PRIV"}
                /\ sent[k].first \in Nat /\ sent[k].last \in Nat
                /\ sent[k].first + 2 <= sent[k].last
                /\ sent[k].first >= 1 /\ sent[k].last <= Total
                /\ Bytes(k) = sent[k].last - sent[k].first + 1
           /\ \A k \in DOMAIN sent : sent[k].last < Total =>
                k + 1 \in DOMAIN sent /\ sent[k + 1].first = sent[k].last + 1
  <1>1. DOMAIN sent = 1 .. Len(sent) /\ Len(sent) \in Nat
    BY DEF StreamInv, SentType
  <1>2. \A k \in DOMAIN sent :
          /\ sent[k].kind \in {"GB", "PRIV"}
          /\ sent[k].first \in Nat /\ sent[k].last \in Nat
    <2> TAKE k \in DOMAIN sent
    <2> DEFINE R == [kind : {"GB", "PRIV"}, first : Nat, last : Nat]
    <2>1. sent \in Seq(R)
      BY DEF StreamInv, SentType
    <2>2. sent[k] \in R
      <3> HIDE DEF R
      <3> QED
        BY <2>1, <1>1
    <2> QED
      BY <2>2
  <1>3. \A k \in DOMAIN sent : sent[k].first + 2 <= sent[k].last
    <2> TAKE k \in DOMAIN sent
    <2>1. /\ GbHead \in Nat /\ GbHead > 3 /\ PrivHead \in Nat /\ PrivHead > 2
      BY TspStreamAssumption
    <2>2. IF sent[k].kind = "GB" THEN sent[k].last > sent[k].first + GbHead
          ELSE sent[k].last + 1 >= sent[k].first + PrivHead
      BY DEF StreamInv, LongEnough
    <2> QED
      BY <1>2, <2>1, <2>2
  <1>4. Total \in Nat /\ \A k \in DOMAIN sent : sent[k].last <= Total
    <2>1. CASE sent = <<>>
      BY <2>1 DEF Total
    <2>2. CASE sent # <<>>
      <3>1. Len(sent) \in DOMAIN sent /\ Total = sent[Len(sent)].last
        BY <2>2, <1>1 DEF Total, StreamInv, SentType
      <3>2. ASSUME NEW k \in DOMAIN sent, k # Len(sent)
            PROVE  sent[k].last <= Total
        <4>1. k < Len(sent)
          BY <3>2, <1>1
        <4>2. sent[k].last < sent[Len(sent)].first
          BY <4>1, <3>1 DEF StreamInv, InOrder
        <4> QED
          BY <4>2, <3>1, <1>2, <1>3
      <3> QED
        BY <3>1, <3>2, <1>2
    <2> QED
      BY <2>1, <2>2
  <1>5. \A k \in DOMAIN sent : sent[k].first >= 1
    <2> TAKE k \in DOMAIN sent
    <2>1. CASE k = 1
      BY <2>1 DEF StreamInv, Gapless
    <2>2. CASE k # 1
      <3>1. k - 1 \in DOMAIN sent /\ sent[k].first = sent[k - 1].last + 1
        BY <2>2, <1>1 DEF StreamInv, Gapless
      <3> QED
        BY <3>1, <1>2
    <2> QED
      BY <2>1, <2>2
  <1>6. ASSUME NEW k \in DOMAIN sent, sent[k].last < Total
        PROVE  k + 1 \in DOMAIN sent /\ sent[k + 1].first = sent[k].last + 1
    <2>1. sent # <<>> /\ k # Len(sent)
      BY <1>6, <1>2 DEF Total
    <2>2. k + 1 \in DOMAIN sent /\ k + 1 # 1 /\ k + 1 - 1 = k
      BY <2>1, <1>1
    <2>3. \A m \in DOMAIN sent : m # 1 => sent[m].first = sent[m - 1].last + 1
      BY DEF StreamInv, Gapless
    <2>4. PICK m \in DOMAIN sent : m = k + 1 /\ m # 1 /\ m - 1 = k
      BY <2>2, <1>1
    <2>5. sent[m].first = sent[m - 1].last + 1
      BY <2>4, <2>3
    <2> QED
      BY <2>4, <2>5
  <1> QED
    BY <1>1, <1>2, <1>3, <1>4, <1>5, <1>6 DEF Bytes

\* Where one message is.
LEMMA PlaceOf ==
    ASSUME StreamInv, NEW k \in DOMAIN sent
    PROVE  /\ k \in Nat /\ sent[k].first \in Nat /\ sent[k].last \in Nat
           /\ sent[k].first + 2 <= sent[k].last /\ sent[k].last <= Total /\ Total \in Nat
  BY SentFacts

\* A byte is in one message.
LEMMA MsgAtIs ==
    ASSUME StreamInv, NEW k \in DOMAIN sent, NEW p \in Nat,
           sent[k].first <= p, p <= sent[k].last
    PROVE  MsgAt(p) = k
  <1>1. \A j \in DOMAIN sent : sent[j].first <= p /\ p <= sent[j].last => j = k
    <2> SUFFICES ASSUME NEW j \in DOMAIN sent, sent[j].first <= p, p <= sent[j].last, j # k
                 PROVE  FALSE
      OBVIOUS
    <2>1. j < k \/ k < j
      BY SentFacts
    <2>2. sent[j].last < sent[k].first \/ sent[k].last < sent[j].first
      BY <2>1 DEF StreamInv, InOrder
    <2> QED
      BY <2>2, SentFacts
  <1> QED
    BY <1>1 DEF MsgAt

\* Of two messages the later one is behind the other.
LEMMA Apart ==
    ASSUME StreamInv, NEW j \in DOMAIN sent, NEW k \in DOMAIN sent
    PROVE  /\ j < k <=> sent[j].last < sent[k].first
           /\ j < k <=> sent[j].last < sent[k].last
           /\ j < k <=> sent[j].first < sent[k].first
           /\ j \in Nat /\ k \in Nat
  <1>1. j \in Nat /\ k \in Nat
    BY SentFacts
  <1>2. CASE j < k
    <2>1. sent[j].last < sent[k].first
      BY <1>2 DEF StreamInv, InOrder
    <2> QED
      <3>1. /\ sent[j].first \in Nat /\ sent[j].last \in Nat
            /\ sent[j].first + 2 <= sent[j].last
            /\ sent[k].first \in Nat /\ sent[k].last \in Nat
            /\ sent[k].first + 2 <= sent[k].last
        BY PlaceOf
      <3> QED
        BY <1>1, <1>2, <2>1, <3>1
  <1>3. CASE k < j
    <2>1. sent[k].last < sent[j].first
      BY <1>3 DEF StreamInv, InOrder
    <2> QED
      <3>1. /\ sent[j].first \in Nat /\ sent[j].last \in Nat
            /\ sent[j].first + 2 <= sent[j].last
            /\ sent[k].first \in Nat /\ sent[k].last \in Nat
            /\ sent[k].first + 2 <= sent[k].last
        BY PlaceOf
      <3> QED
        BY <1>1, <1>3, <2>1, <3>1
  <1>4. CASE j = k
    BY <1>1, <1>4, SentFacts
  <1> QED
    BY <1>1, <1>2, <1>3, <1>4

\* What is known in a round of a loop that is in message k.
LEMMA RoundFacts ==
    ASSUME StInv, ~mixed, loop.len > 0, NEW k \in DOMAIN sent, LoopMsg(k)
    PROVE  /\ StreamInv /\ CallInv /\ CutInv
           /\ loop.len \in Nat /\ pos \in Nat /\ Byte \in Nat /\ loop.data \in Nat
           /\ sent[k].first <= Byte /\ Byte <= sent[k].last
           /\ loop.data <= Byte /\ Byte <= pos /\ pos <= Total
           /\ IF frame.step = "SIGN" THEN Byte + loop.len = pos ELSE Byte + loop.len = pos + 1
           /\ sent[k].kind = loop.type /\ loop.type \in {"GB", "PRIV"}
           /\ ReadTo = Byte
  <1>1. StreamInv /\ StTypeOK /\ LoopInv /\ CutInv
    BY DEF StInv
  <1>2. loop.len \in Nat /\ loop.data \in Nat /\ loop.rlen \in Nat /\ pos \in Nat /\ pos <= Total
    BY <1>1, SentFacts DEF StTypeOK, Loops
  <1>3. /\ CallInv
        /\ Byte + loop.len = pos + IF frame.step = "SIGN" THEN 0 ELSE 1
    BY <1>1 DEF LoopInv
  <1>4. Byte \in Nat /\ loop.data <= Byte
    BY <1>2 DEF Byte
  <1>5. IF frame.step = "SIGN" THEN Byte + loop.len = pos ELSE Byte + loop.len = pos + 1
    BY <1>2, <1>3, <1>4
  <1>6. /\ sent[k].first <= Byte /\ Byte <= sent[k].last /\ sent[k].kind = loop.type
    BY DEF LoopMsg, InMsg
  <1> QED
    BY <1>1, <1>2, <1>3, <1>4, <1>5, <1>6, SentFacts DEF ReadTo

\* Every message before the one a loop is in, and that one unless the call ends
\* inside of it, is excused only if it is dropped.
LEMMA RoundCall ==
    ASSUME StInv, ~mixed, loop.len > 0, NEW k \in DOMAIN sent, LoopMsg(k)
    PROVE  /\ sent[k].last <= pos => k \notin excused
           /\ loop.data < sent[k].first /\ sent[k].last > pos => k \in excused
           /\ \A m \in DOMAIN sent : k < m /\ sent[m].first <= pos /\ sent[m].last > pos
                => m \in excused
           /\ \A m \in DOMAIN sent : k < m /\ sent[m].first <= pos /\ ~Due(k) => m \in excused
           /\ k + 1 \in DOMAIN sent /\ sent[k + 1].first <= pos /\ Due(k)
                => sent[k + 1].kind = sent[k].kind
  <1>1. /\ StreamInv /\ CallInv /\ pos \in Nat /\ Byte \in Nat /\ loop.data \in Nat
        /\ sent[k].first <= Byte /\ Byte <= sent[k].last
        /\ loop.data <= Byte /\ Byte <= pos
    BY RoundFacts
  <1>2. \A j \in BeginInside(loop.data, pos) :
          /\ j \in excused <=> sent[j].last > pos \/ Dropped(loop.data, j)
          /\ sent[j].kind = sent[j - 1].kind \/ Dropped(loop.data, j)
    BY <1>1 DEF CallInv
  <1>3. \A j \in 1 .. k - 1 : sent[j].last >= loop.data => Due(j)
    BY DEF LoopMsg
  <1>4. ~Dropped(loop.data, k)
    BY <1>3 DEF Dropped, Due
  <1>5. sent[k].first <= loop.data => k \notin excused
    BY DEF LoopMsg
  <1>6. loop.data < sent[k].first => k \in BeginInside(loop.data, pos)
    BY <1>1, SentFacts DEF BeginInside
  <1>7. sent[k].last <= pos => k \notin excused
    BY <1>1, <1>2, <1>4, <1>5, <1>6, SentFacts
  <1>8. \A m \in DOMAIN sent : k < m /\ sent[m].first <= pos => m \in BeginInside(loop.data, pos)
    <2> TAKE m \in DOMAIN sent
    <2> HAVE k < m /\ sent[m].first <= pos
    <2>1. sent[k].last < sent[m].first
      BY <1>1, Apart
    <2> QED
      BY <1>1, <2>1, SentFacts DEF BeginInside
  <1>9. ASSUME NEW m \in DOMAIN sent, k < m, ~Due(k)
        PROVE  Dropped(loop.data, m)
    <2>1. k \in 1 .. m - 1 /\ sent[k].last >= loop.data
      BY <1>1, <1>9, SentFacts
    <2> QED
      BY <1>9, <2>1 DEF Dropped, Due
  <1>10. ASSUME k + 1 \in DOMAIN sent, sent[k + 1].first <= pos, Due(k)
         PROVE  sent[k + 1].kind = sent[k].kind
    <2>1. k \in Nat /\ k < k + 1 /\ k + 1 - 1 = k /\ k + 1 \in Nat
      BY <1>1, SentFacts
    <2>2. PICK m \in DOMAIN sent : m = k + 1
      BY <1>10
    <2>3. m \in BeginInside(loop.data, pos) /\ m - 1 = k
      BY <1>8, <1>10, <2>1, <2>2
    <2>4. \A j \in 1 .. m - 1 : j = k \/ j \in 1 .. k - 1
      BY <2>1, <2>2
    <2>5. ~Dropped(loop.data, m)
      BY <1>3, <1>10, <2>4 DEF Dropped, Due
    <2> QED
      BY <1>2, <2>2, <2>3, <2>5
  <1> QED
    BY <1>1, <1>2, <1>6, <1>7, <1>8, <1>9, <1>10

\* What a step that is no send of the TSP leaves as it was.
LEMMA SameStream ==
    ASSUME StreamInv, sent' = sent
    PROVE  /\ StreamInv' /\ Total' = Total
           /\ \A k \in DOMAIN sent : Receivable(k)' <=> Receivable(k)
  <1>1. Total' = Total
    BY DEF Total
  <1>2. StreamInv'
    BY <1>1 DEF StreamInv, SentType, Gapless, LongEnough, InOrder, Covered
  <1> QED
    BY <1>1, <1>2 DEF Receivable, Bytes

\* The rest of a call is judged as before by a round.
LEMMA RoundSame ==
    ASSUME StreamInv, UNCHANGED <<sent, pos, excused>>, loop'.data = loop.data
    PROVE  /\ CallInv => CallInv'
           /\ \A k \in DOMAIN sent : Due(k)' <=> Due(k)
  <1>1. \A k \in DOMAIN sent : Due(k)' <=> Due(k)
    BY DEF Due, Receivable, Bytes
  <1>2. BeginInside(loop.data, pos)' = BeginInside(loop.data, pos)
    BY DEF BeginInside
  <1>3. \A k \in DOMAIN sent : Dropped(loop.data, k)' <=> Dropped(loop.data, k)
    BY DEF Dropped, Receivable, Bytes
  <1>4. \A j \in BeginInside(loop.data, pos) : j \in DOMAIN sent
    BY DEF BeginInside
  <1> QED
    BY <1>1, <1>2, <1>3, <1>4 DEF CallInv

\* A round that goes on inside message k.
LEMMA RoundKeeps ==
    ASSUME StInv, ~mixed, loop.len > 0, NEW k \in DOMAIN sent, LoopMsg(k),
           UNCHANGED <<sent, pos, excused, mixed, cut>>, StTypeOK',
           loop'.type = loop.type, loop'.data = loop.data, loop'.len = loop.len - 1,
           frame'.type = frame.type, InMsg(k, Byte)', Byte' \in Nat, Byte <= Byte',
           IF frame'.step = "SIGN" THEN Byte' + loop'.len = pos ELSE Byte' + loop'.len = pos + 1
    PROVE  StInv'
  <1>1. /\ StreamInv /\ CallInv /\ CutInv
        /\ loop.len \in Nat /\ pos \in Nat /\ Byte \in Nat /\ loop.data \in Nat
        /\ sent[k].first <= Byte /\ Byte <= sent[k].last
        /\ loop.data <= Byte /\ Byte <= pos /\ pos <= Total
        /\ sent[k].kind = loop.type /\ loop.type \in {"GB", "PRIV"}
        /\ ReadTo = Byte
    BY RoundFacts
  <1>2. StreamInv' /\ CallInv' /\ \A m \in DOMAIN sent : Due(m)' <=> Due(m)
    BY <1>1, SameStream, RoundSame
  <1>3. /\ IF sent[k].first <= loop.data
           THEN /\ frame.type = loop.type /\ k \notin excused
                /\ sent[k].first = loop.data => loop.data < pos
           ELSE frame.type = "UNRCV"
        /\ \A j \in 1 .. k - 1 : sent[j].last >= loop.data => Due(j)
    BY DEF LoopMsg
  <1>4. /\ sent[k].first <= Byte' /\ Byte' <= sent[k].last
        /\ frame'.step = "SIGN" => Byte' = sent[k].first
    BY DEF InMsg
  <1>5. LoopMsg(k)'
    <2>1. \A j \in 1 .. k - 1 : sent[j].last >= loop.data => Due(j)'
      <3> TAKE j \in 1 .. k - 1
      <3>1. j \in DOMAIN sent
        BY <1>1, SentFacts
      <3> QED
        BY <1>2, <1>3, <3>1
    <2> QED
      BY <1>1, <1>3, <2>1 DEF LoopMsg
  <1>6. LoopInv'
    <2>1. (Byte + loop.len = pos + IF frame.step = "SIGN" THEN 0 ELSE 1)'
      BY <1>1
    <2> QED
      BY <1>2, <1>5, <2>1 DEF LoopInv
  <1>7. /\ sent[k].first \in Nat /\ sent[k].last \in Nat
        /\ sent[k].first + 2 <= sent[k].last
    BY <1>1, SentFacts
  <1>8. ASSUME loop'.len = 0
        PROVE  /\ pos <= Byte' /\ Byte' <= pos + 1
               /\ IF frame'.step = "SIGN" THEN Byte' = pos ELSE Byte' = pos + 1
    BY <1>1, <1>8
  <1>9. ASSUME loop'.len = 0, frame'.type = "UNRCV",
               NEW m \in DOMAIN sent, sent[m].first <= pos, pos < sent[m].last
        PROVE  ~Due(m)
    <2>1. m = k
      <3>1. ~(k < m)
        <4>1. sent[m].first \in Nat
          BY <1>1, SentFacts
        <4>2. pos <= sent[k].last
          BY <1>7, <1>1, <1>4, <1>9, <1>8
        <4>3. ~(sent[k].last < sent[m].first)
          BY <1>7, <1>1, <1>9, <4>1, <4>2
        <4> QED
          BY <1>1, <4>3, Apart
      <3>2. ~(m < k)
        BY <1>1, <1>4, <1>9, Apart, SentFacts
      <3> QED
        BY <1>1, <3>1, <3>2, SentFacts
    <2>2. ~(sent[k].first <= loop.data)
      BY <1>1, <1>3, <1>9
    <2>3. loop.data < sent[k].first
      BY <1>7, <1>1, <2>2
    <2> QED
      BY <1>9, <2>1, <2>3, RoundCall DEF Due
  <1>10. ASSUME loop'.len = 0, frame'.type # "UNRCV"
        PROVE  /\ InMsg(k, pos + 1)' /\ sent[k].first <= pos
               /\ sent[k].kind = frame.type /\ k \notin excused
    <2>1. sent[k].first <= loop.data /\ frame.type = loop.type /\ k \notin excused
      BY <1>3, <1>10
    <2>2. sent[k].first <= pos
      BY <1>1, <1>7, <2>1
    <2>3. frame'.step # "SIGN"
      BY <1>1, <1>3, <1>4, <1>7, <1>8, <1>10, <2>1
    <2>4. Byte' = pos' + 1
      BY <1>1, <1>10, <2>3
    <2> QED
      BY <1>1, <2>1, <2>2, <2>4
  <1>11. RestInv'
    BY <1>2, <1>9, <1>10 DEF RestInv
  <1>12. ReadTo' \in Nat /\ Byte <= ReadTo' /\ ReadTo' <= sent[k].last
    <2>1. CASE loop'.len = 0
      <3>1. ReadTo' = pos + 1
        BY <2>1 DEF ReadTo
      <3>2. pos + 1 <= sent[k].last
        BY <1>7, <1>1, <1>4, <1>8, <2>1
      <3> QED
        BY <1>1, <3>1, <3>2
    <2>2. CASE loop'.len # 0
      <3>1. loop'.len > 0
        BY <1>1, <2>2
      <3>2. ReadTo' = Byte'
        BY <3>1 DEF ReadTo
      <3> QED
        BY <1>4, <3>2
    <2> QED
      BY <2>1, <2>2
  <1>13. \A m \in DOMAIN sent : sent[m].last < ReadTo' <=> sent[m].last < ReadTo
    <2> TAKE m \in DOMAIN sent
    <2>1. CASE m < k
      <3>1. sent[m].last < sent[k].first
        BY <1>1, <2>1, Apart
      <3>2. sent[m].last \in Nat
        BY <1>1, PlaceOf
      <3> QED
        BY <1>1, <1>7, <1>12, <3>1, <3>2
    <2>2. CASE ~(m < k)
      <3>1. ~(sent[m].last < sent[k].last)
        BY <1>1, <2>2, Apart
      <3> QED
        BY <1>1, <1>12, <3>1, SentFacts
    <2> QED
      BY <2>1, <2>2
  <1>14. CutInv'
    BY <1>1, <1>2, <1>13 DEF CutInv
  <1> QED
    BY <1>2, <1>6, <1>11, <1>14 DEF StInv

\* A round that puts message k, complete, into its queue.
LEMMA RoundFinishes ==
    ASSUME StInv, ~mixed, loop.len > 0, NEW k \in DOMAIN sent, LoopMsg(k),
           UNCHANGED <<sent, pos, excused, mixed>>, StTypeOK', frame.step # "SIGN",
           Byte = sent[k].last, Receivable(k), cut' = Append(cut, k),
           loop'.type = loop.type, loop'.data = loop.data, loop'.len = loop.len - 1,
           Byte' = Byte + 1, frame'.type = "UNRCV", frame'.step = "IDLE"
    PROVE  StInv'
  <1>1. /\ StreamInv /\ CallInv /\ CutInv
        /\ loop.len \in Nat /\ pos \in Nat /\ Byte \in Nat /\ loop.data \in Nat
        /\ sent[k].first <= Byte /\ loop.data <= Byte /\ Byte <= pos /\ pos <= Total
        /\ Byte + loop.len = pos + 1
        /\ sent[k].kind = loop.type /\ loop.type \in {"GB", "PRIV"}
        /\ ReadTo = Byte
    BY RoundFacts
  <1>2. StreamInv' /\ CallInv' /\ \A m \in DOMAIN sent : Due(m)' <=> Due(m)
    BY <1>1, SameStream, RoundSame
  <1>3. Due(k)
    BY <1>1, RoundCall DEF Due
  <1>4. ASSUME loop'.len > 0
        PROVE  k + 1 \in DOMAIN sent /\ LoopMsg(k + 1)'
    <2>1. Byte + 1 <= pos /\ sent[k].last < Total
      <3>1. Total \in Nat
        BY <1>1, PlaceOf
      <3> QED
        BY <1>1, <1>4, <3>1
    <2>2. k + 1 \in DOMAIN sent /\ sent[k + 1].first = Byte'
      BY <1>1, <2>1, SentFacts
    <2>3. sent[k + 1].first <= pos
      BY <1>1, <2>1, <2>2
    <2>4. sent[k + 1].kind = loop.type
      BY <1>1, <1>3, <2>2, <2>3, RoundCall
    <2>5. ~(sent[k + 1].first <= loop.data)
      BY <1>1, <2>2
    <2>6. ASSUME NEW j \in 1 .. k, sent[j].last >= loop.data
          PROVE  Due(j)'
      <3>1. j = k \/ j \in 1 .. k - 1
        BY <1>1, SentFacts
      <3>2. j \in DOMAIN sent
        BY <1>1, SentFacts
      <3> QED
        BY <1>2, <1>3, <2>6, <3>1, <3>2 DEF LoopMsg
    <2>7. k \in Nat /\ k + 1 - 1 = k
      BY <1>1, PlaceOf
    <2>8. PICK m \in DOMAIN sent : m = k + 1
      BY <2>2
    <2>9. /\ m - 1 = k /\ m \in DOMAIN sent' /\ sent'[m].kind = loop'.type
          /\ sent'[m].first = Byte' /\ Byte' <= sent'[m].last
          /\ ~(sent'[m].first <= loop'.data)
      <3>1. /\ m - 1 = k /\ sent[m].kind = loop.type /\ sent[m].first = Byte'
            /\ ~(sent[m].first <= loop.data)
        BY <2>2, <2>4, <2>5, <2>7, <2>8
      <3>2. Byte' <= sent[m].last
        <4>1. /\ sent[m].first \in Nat /\ sent[m].last \in Nat
              /\ sent[m].first + 2 <= sent[m].last
          BY <1>1, SentFacts
        <4> QED
          BY <3>1, <4>1
      <3> QED
        BY <3>1, <3>2
    <2>10. InMsg(m, Byte)'
      BY <1>1, <2>9 DEF InMsg
    <2>11. LoopMsg(m)'
      BY <2>6, <2>9, <2>10 DEF LoopMsg
    <2> QED
      BY <2>8, <2>11
  <1>5. LoopInv'
    <2>1. Byte \in Nat /\ loop.len \in Nat /\ pos \in Nat /\ Byte + loop.len = pos + 1
      BY <1>1
    <2>2. Byte' + loop'.len = pos + 1
      BY <2>1
    <2> QED
      BY <1>2, <1>4, <2>2 DEF LoopInv
  <1>6. ASSUME loop'.len = 0, NEW m \in DOMAIN sent, sent[m].first <= pos, pos < sent[m].last
        PROVE  FALSE
    <2>1. pos = sent[k].last
      BY <1>1, <1>6
    <2> QED
      <3>1. k < m
        BY <1>1, <1>6, <2>1, Apart
      <3>2. sent[k].last < sent[m].first /\ sent[m].first \in Nat
        BY <1>1, <3>1, Apart, PlaceOf
      <3> QED
        BY <1>1, <1>6, <2>1, <3>2
  <1>7. RestInv'
    BY <1>6 DEF RestInv
  <1>8. ReadTo' = Byte + 1
    BY <1>1 DEF ReadTo
  <1>9. \A m \in DOMAIN sent : sent[m].last < ReadTo' <=> m = k \/ sent[m].last < ReadTo
    <2> TAKE m \in DOMAIN sent
    <2>1. sent[m].last = sent[k].last => m = k
      BY <1>1, Apart, SentFacts
    <2>2. sent[m].last \in Nat
      BY <1>1, SentFacts
    <2> QED
      BY <1>1, <1>8, <2>1, <2>2
  <1>10. /\ cut \in Seq(Nat) /\ k \in Nat /\ Len(cut) \in Nat
         /\ DOMAIN cut = 1 .. Len(cut) /\ DOMAIN cut' = 1 .. Len(cut) + 1
         /\ \A i \in 1 .. Len(cut) : cut'[i] = cut[i]
         /\ cut'[Len(cut) + 1] = k
    <2>1. cut \in Seq(Nat) /\ k \in Nat
      BY <1>1, SentFacts DEF StInv, StTypeOK
    <2> QED
      BY <2>1
  <1>11. \A i \in 1 .. Len(cut) : cut[i] < k
    <2> TAKE i \in 1 .. Len(cut)
    <2>1. cut[i] \in DOMAIN sent /\ sent[cut[i]].last < sent[k].last
      BY <1>1, <1>10 DEF CutInv
    <2> QED
      BY <1>1, <2>1, Apart
  <1>12. (\A i, j \in DOMAIN cut : i < j => cut[i] < cut[j])'
    <2> SUFFICES ASSUME NEW i \in DOMAIN cut', NEW j \in DOMAIN cut', i < j
                 PROVE  cut'[i] < cut'[j]
      OBVIOUS
    <2>1. i \in 1 .. Len(cut) /\ cut'[i] = cut[i]
      BY <1>10
    <2>2. CASE j = Len(cut) + 1
      BY <1>10, <1>11, <2>1, <2>2
    <2>3. CASE j # Len(cut) + 1
      <3>1. j \in DOMAIN cut /\ cut'[j] = cut[j]
        BY <1>10, <2>3
      <3> QED
        BY <1>1, <1>10, <2>1, <3>1 DEF CutInv
    <2> QED
      BY <2>2, <2>3
  <1>13. (\A i \in DOMAIN cut :
            cut[i] \in DOMAIN sent /\ sent[cut[i]].last < ReadTo /\ Due(cut[i]))'
    <2> SUFFICES ASSUME NEW i \in DOMAIN cut'
                 PROVE  (cut[i] \in DOMAIN sent /\ sent[cut[i]].last < ReadTo /\ Due(cut[i]))'
      OBVIOUS
    <2>1. CASE i = Len(cut) + 1
      BY <1>2, <1>3, <1>9, <1>10, <2>1
    <2>2. CASE i # Len(cut) + 1
      <3>1. i \in DOMAIN cut /\ cut'[i] = cut[i]
        BY <1>10, <2>2
      <3>2. cut[i] \in DOMAIN sent /\ sent[cut[i]].last < ReadTo /\ Due(cut[i])
        BY <1>1, <3>1 DEF CutInv
      <3> QED
        BY <1>2, <1>9, <3>1, <3>2
    <2> QED
      BY <2>1, <2>2
  <1>14. \A m \in DOMAIN sent : sent[m].last < ReadTo' /\ Due(m)' => \E i \in DOMAIN cut' : cut'[i] = m
    <2> TAKE m \in DOMAIN sent
    <2> HAVE sent[m].last < ReadTo' /\ Due(m)'
    <2>1. CASE m = k
      <3>1. Len(cut) + 1 \in DOMAIN cut'
        BY <1>10
      <3> QED
        BY <1>10, <2>1, <3>1
    <2>2. CASE m # k
      <3>1. PICK i \in DOMAIN cut : cut[i] = m
        BY <1>1, <1>2, <1>9, <2>2 DEF CutInv
      <3>2. i \in DOMAIN cut'
        BY <1>10
      <3> QED
        BY <1>10, <3>1, <3>2
    <2> QED
      BY <2>1, <2>2
  <1>15. CutInv'
    BY <1>12, <1>13, <1>14 DEF CutInv
  <1> QED
    BY <1>2, <1>5, <1>7, <1>15 DEF StInv

\* A round that drops message k, too long, and the rest of the call.
LEMMA RoundRefuses ==
    ASSUME StInv, ~mixed, loop.len > 0, NEW k \in DOMAIN sent, LoopMsg(k),
           UNCHANGED <<sent, pos, excused, mixed, cut>>, StTypeOK',
           ~Receivable(k), loop'.data = loop.data, loop'.len = 0, frame'.type = "UNRCV"
    PROVE  StInv'
  <1>1. /\ StreamInv /\ CallInv /\ CutInv
        /\ loop.len \in Nat /\ pos \in Nat /\ Byte \in Nat /\ loop.data \in Nat
        /\ sent[k].first <= Byte /\ Byte <= sent[k].last
        /\ loop.data <= Byte /\ Byte <= pos /\ pos <= Total
        /\ ReadTo = Byte
    BY RoundFacts
  <1>2. StreamInv' /\ \A m \in DOMAIN sent : Due(m)' <=> Due(m)
    BY <1>1, SameStream, RoundSame
  <1>3. ~Due(k)
    BY DEF Due
  <1>4. ASSUME NEW m \in DOMAIN sent, sent[m].first <= pos, sent[m].last >= Byte
        PROVE  ~Due(m)
    <2>1. CASE m = k
      BY <1>3, <2>1
    <2>2. CASE k < m
      BY <1>3, <1>4, <2>2, RoundCall DEF Due
    <2>3. CASE m < k
      <3>1. sent[m].last < sent[k].first
        BY <1>1, <2>3, Apart
      <3> QED
        BY <1>1, <1>4, <3>1, SentFacts
    <2> QED
      BY <1>1, <2>1, <2>2, <2>3, SentFacts
  <1>5. LoopInv'
    BY <1>1 DEF LoopInv
  <1>6. RestInv'
    <2>1. ASSUME NEW m \in DOMAIN sent, sent[m].first <= pos, pos < sent[m].last
          PROVE  ~Due(m)
      BY <1>1, <1>4, <2>1, SentFacts
    <2> QED
      BY <1>2, <2>1 DEF RestInv
  <1>7. ReadTo' = pos + 1
    BY DEF ReadTo
  <1>8. \A m \in DOMAIN sent : Due(m) => (sent[m].last < ReadTo' <=> sent[m].last < ReadTo)
    <2> TAKE m \in DOMAIN sent
    <2> HAVE Due(m)
    <2>1. ASSUME sent[m].last < pos + 1
          PROVE  sent[m].last < Byte
      <3>1. /\ sent[m].first \in Nat /\ sent[m].last \in Nat
            /\ sent[m].first + 2 <= sent[m].last
        BY <1>1, SentFacts
      <3>2. sent[m].first <= pos
        BY <1>1, <2>1, <3>1
      <3> QED
        BY <1>1, <1>4, <3>1, <3>2
    <2>2. sent[m].last \in Nat /\ Byte \in Nat /\ pos \in Nat /\ Byte <= pos
      BY <1>1, PlaceOf
    <2> QED
      BY <1>1, <1>7, <2>1, <2>2
  <1>9. CutInv'
    BY <1>1, <1>2, <1>8 DEF CutInv
  <1> QED
    BY <1>2, <1>5, <1>6, <1>9 DEF StInv

\* A round keeps the types when what it writes has its type.
LEMMA RoundTypes ==
    ASSUME StTypeOK, UNCHANGED <<sent, pos, excused, mixed>>,
           frame' \in Frames, loop' \in Loops, cut' \in Seq(Nat)
    PROVE  StTypeOK'
  BY DEF StTypeOK, Total

\* A round that takes n bytes moves on by n and leaves one round less.
LEMMA TakesFacts ==
    ASSUME loop \in Loops, loop.len > 0, NEW n \in Nat, Takes(n)
    PROVE  /\ loop' \in Loops /\ loop'.type = loop.type /\ loop'.data = loop.data
           /\ loop'.len = loop.len - 1 /\ Byte' = Byte + n
  <1>1. loop.data \in Nat /\ loop.rlen \in Nat /\ loop.len \in Nat
    BY DEF Loops
  <1>2. loop.rlen + n \in Nat /\ loop.len - 1 \in Nat
    BY <1>1
  <1>3. loop' = [loop EXCEPT !.rlen = loop.rlen + n, !.len = loop.len - 1]
    BY DEF Takes
  <1>4. /\ loop' \in Loops /\ loop'.type = loop.type /\ loop'.data = loop.data
        /\ loop'.len = loop.len - 1 /\ loop'.rlen = loop.rlen + n
    BY <1>2, <1>3 DEF Loops
  <1> QED
    BY <1>1, <1>4 DEF Byte

\* The buffer with the byte of this round.
LEMMA BufFacts ==
    ASSUME StInv, ~mixed, loop.len > 0, NEW k \in DOMAIN sent, LoopMsg(k),
           frame.step \notin {"IDLE", "SIGN"}
    PROVE  /\ Buf \in Seq(Nat) /\ Len(Buf) \in Nat /\ Len(Buf) = Byte + 1 - sent[k].first
           /\ \A i \in DOMAIN Buf : Buf[i] = sent[k].first + i - 1
           /\ InStep(k, frame.step, frame.datalen, Len(Buf) - 1)
           /\ LengthIn(Buf) = Bytes(k)
           /\ Len(Buf) = Bytes(k) => Written(sent[k].kind, Buf) = k
  <1>1. /\ StreamInv /\ pos \in Nat /\ Byte \in Nat
        /\ sent[k].first <= Byte /\ Byte <= sent[k].last
    BY RoundFacts
  <1>2. /\ sent[k].first \in Nat /\ sent[k].last \in Nat
    BY <1>1, SentFacts
  <1>3. frame.buf \in Seq(Nat)
    BY DEF StInv, StTypeOK, Frames
  <1>4. /\ Len(frame.buf) = Byte - sent[k].first
        /\ \A i \in DOMAIN frame.buf : frame.buf[i] = sent[k].first + i - 1
        /\ InStep(k, frame.step, frame.datalen, Len(frame.buf))
    BY DEF LoopMsg, InMsg
  <1>5. /\ Buf \in Seq(Nat) /\ Len(Buf) \in Nat /\ Len(Buf) = Len(frame.buf) + 1
        /\ Len(frame.buf) \in Nat
        /\ DOMAIN frame.buf = 1 .. Len(frame.buf) /\ DOMAIN Buf = 1 .. Len(frame.buf) + 1
        /\ \A i \in 1 .. Len(frame.buf) : Buf[i] = frame.buf[i]
        /\ Buf[Len(frame.buf) + 1] = Byte
    <2>1. DOMAIN frame.buf = 1 .. Len(frame.buf) /\ Len(frame.buf) \in Nat
      BY <1>3
    <2> QED
      BY <1>1, <1>3, <2>1 DEF Buf
  <1>6. Len(Buf) = Byte + 1 - sent[k].first /\ Len(Buf) - 1 = Len(frame.buf) /\ Len(Buf) >= 1
    <2>1. Len(Buf) = Len(frame.buf) + 1 /\ Len(frame.buf) \in Nat
      BY <1>5
    <2>2. Len(frame.buf) = Byte - sent[k].first
      BY <1>4
    <2> QED
      BY <1>1, <1>2, <2>1, <2>2
  <1>7. \A i \in DOMAIN Buf : Buf[i] = sent[k].first + i - 1
    <2> TAKE i \in DOMAIN Buf
    <2>1. CASE i = Len(frame.buf) + 1
      BY <1>1, <1>2, <1>4, <1>5, <2>1
    <2>2. CASE i # Len(frame.buf) + 1
      BY <1>4, <1>5, <2>2
    <2> QED
      BY <2>1, <2>2
  <1>8. LengthIn(Buf) = Bytes(k)
    <2>1. Buf[Len(Buf)] = Byte
      BY <1>5
    <2>2. MsgAt(Byte) = k
      BY <1>1, MsgAtIs
    <2> QED
      BY <2>1, <2>2 DEF LengthIn
  <1>9. ASSUME Len(Buf) = Bytes(k)
        PROVE  Written(sent[k].kind, Buf) = k
    <2>1. Buf[1] = sent[k].first
      BY <1>2, <1>5, <1>7
    <2>2. MsgAt(Buf[1]) = k
      BY <1>1, <1>2, <2>1, MsgAtIs
    <2> QED
      BY <1>7, <1>9, <2>2 DEF Written
  <1> QED
    BY <1>4, <1>5, <1>6, <1>7, <1>8, <1>9

\* A byte goes into the buffer, and message k goes on.
LEMMA FillsKeeps ==
    ASSUME StInv, ~mixed, loop.len > 0, NEW k \in DOMAIN sent, LoopMsg(k),
           frame.step \notin {"IDLE", "SIGN"}, UNCHANGED <<sent, pos, excused, mixed>>,
           NEW s \in {"CTRL", "DATALEN", "DATA", "CHECKCODE"}, NEW n \in Nat, Fills(s, n),
           InStep(k, s, n, Len(Buf)), Byte < sent[k].last
    PROVE  StInv'
  <1>1. /\ StreamInv /\ Byte \in Nat /\ pos \in Nat /\ loop.len \in Nat
        /\ sent[k].first <= Byte /\ Byte + loop.len = pos + 1
    BY RoundFacts
  <1>2. frame \in Frames /\ loop \in Loops /\ cut \in Seq(Nat) /\ StTypeOK
    BY DEF StInv, StTypeOK
  <1>3. /\ Buf \in Seq(Nat) /\ Len(Buf) \in Nat /\ Len(Buf) = Byte + 1 - sent[k].first
        /\ \A i \in DOMAIN Buf : Buf[i] = sent[k].first + i - 1
    BY BufFacts
  <1>4. /\ loop' \in Loops /\ loop'.type = loop.type /\ loop'.data = loop.data
        /\ loop'.len = loop.len - 1 /\ Byte' = Byte + 1 /\ cut' = cut
    BY <1>2, TakesFacts DEF Fills
  <1>5. /\ frame' \in Frames /\ frame'.type = frame.type /\ frame'.step = s
        /\ frame'.datalen = n /\ frame'.buf = Buf
    BY <1>2, <1>3 DEF Fills, Frames
  <1>6. StTypeOK'
    BY <1>2, <1>4, <1>5, RoundTypes
  <1>7. InStep(k, frame.step, frame.datalen, Len(frame.buf))'
    BY <1>5 DEF InStep, Receivable, Bytes
  <1>8. sent[k].first \in Nat /\ sent[k].last \in Nat
    BY <1>1, SentFacts
  <1>9. sent[k].first <= Byte' /\ Byte' <= sent[k].last /\ Len(frame'.buf) = Byte' - sent[k].first
    <2>1. Len(frame'.buf) = Len(Buf) /\ Byte' = Byte + 1
      BY <1>4, <1>5
    <2>2. Len(Buf) = Byte + 1 - sent[k].first
      BY <1>3
    <2> QED
      BY <1>1, <1>8, <2>1, <2>2
  <1>10. InMsg(k, Byte)'
    BY <1>3, <1>5, <1>7, <1>9 DEF InMsg
  <1>11. frame'.step # "SIGN" /\ Byte' + loop'.len = pos + 1 /\ Byte' \in Nat /\ Byte <= Byte'
    BY <1>1, <1>4, <1>5
  <1> QED
    BY <1>4, <1>5, <1>6, <1>10, <1>11, RoundKeeps

\* The last byte of message k is read.
LEMMA FinishesKeeps ==
    ASSUME StInv, ~mixed, loop.len > 0, NEW k \in DOMAIN sent, LoopMsg(k),
           frame.step \notin {"IDLE", "SIGN"}, UNCHANGED <<sent, pos, excused, mixed>>,
           NEW n \in Nat, Finishes(sent[k].kind, n), Byte = sent[k].last, Receivable(k)
    PROVE  StInv'
  <1>1. StreamInv
    BY RoundFacts
  <1>2. frame \in Frames /\ loop \in Loops /\ cut \in Seq(Nat) /\ StTypeOK
    BY DEF StInv, StTypeOK
  <1>3. Buf \in Seq(Nat) /\ Written(sent[k].kind, Buf) = k
    <2>1. Len(Buf) = Bytes(k)
      BY <1>1, BufFacts, SentFacts
    <2> QED
      BY <2>1, BufFacts
  <1>4. /\ loop' \in Loops /\ loop'.type = loop.type /\ loop'.data = loop.data
        /\ loop'.len = loop.len - 1 /\ Byte' = Byte + 1
    BY <1>2, TakesFacts DEF Finishes
  <1>5. frame' \in Frames /\ frame'.type = "UNRCV" /\ frame'.step = "IDLE"
    BY <1>3 DEF Finishes, Frames
  <1>6. k \in Nat
    BY <1>1, SentFacts
  <1>7. cut' = Append(cut, k) /\ cut' \in Seq(Nat)
    BY <1>2, <1>3, <1>6 DEF Finishes
  <1>8. StTypeOK'
    BY <1>2, <1>4, <1>5, <1>7, RoundTypes
  <1> QED
    BY <1>4, <1>5, <1>7, <1>8, RoundFinishes

\* Message k does not fit.
LEMMA RefusesKeeps ==
    ASSUME StInv, ~mixed, loop.len > 0, NEW k \in DOMAIN sent, LoopMsg(k),
           frame.step \notin {"IDLE", "SIGN"}, UNCHANGED <<sent, pos, excused, mixed>>,
           NEW n \in Nat, Refuses(n), ~Receivable(k)
    PROVE  StInv'
  <1>1. frame \in Frames /\ loop \in Loops /\ cut \in Seq(Nat) /\ StTypeOK
    BY DEF StInv, StTypeOK
  <1>2. Buf \in Seq(Nat)
    BY BufFacts
  <1>3. loop' \in Loops /\ loop'.data = loop.data /\ loop'.len = 0
    <2>1. loop.rlen + 1 \in Nat
      BY <1>1 DEF Loops
    <2>2. loop' = [loop EXCEPT !.rlen = loop.rlen + 1, !.len = 0]
      BY DEF Refuses
    <2> QED
      BY <1>1, <2>1, <2>2 DEF Loops
  <1>4. frame' \in Frames /\ frame'.type = "UNRCV" /\ cut' = cut
    BY <1>2 DEF Refuses, Frames
  <1>5. StTypeOK'
    BY <1>1, <1>3, <1>4, RoundTypes
  <1> QED
    BY <1>3, <1>4, <1>5, RoundRefuses

\* The first round of a message takes no byte.
LEMMA IdleKeeps ==
    ASSUME StInv, ~mixed, loop.len > 0, NEW k \in DOMAIN sent, LoopMsg(k),
           UNCHANGED <<sent, pos, excused, mixed>>, Idle
    PROVE  StInv'
  <1>1. /\ StreamInv /\ Byte \in Nat /\ pos \in Nat /\ loop.len \in Nat
        /\ Byte <= sent[k].last /\ Byte + loop.len = pos + 1
    BY RoundFacts DEF Idle
  <1>2. frame \in Frames /\ loop \in Loops /\ cut \in Seq(Nat) /\ StTypeOK
    BY DEF StInv, StTypeOK
  <1>3. /\ loop' \in Loops /\ loop'.type = loop.type /\ loop'.data = loop.data
        /\ loop'.len = loop.len - 1 /\ Byte' = Byte + 0 /\ cut' = cut
    BY <1>2, TakesFacts DEF Idle
  <1>4. /\ frame' \in Frames /\ frame'.type = frame.type /\ frame'.step = "SIGN"
        /\ frame'.buf = <<>>
    <2>1. <<>> \in Seq(Nat)
      OBVIOUS
    <2>2. frame' = [frame EXCEPT !.step = "SIGN", !.buf = <<>>]
      BY DEF Idle
    <2> QED
      BY <1>2, <2>1, <2>2 DEF Frames
  <1>5. StTypeOK'
    BY <1>2, <1>3, <1>4, RoundTypes
  <1>6. Byte = sent[k].first
    BY DEF LoopMsg, InMsg, Idle
  <1>7. Byte' = Byte
    BY <1>1, <1>3
  <1>8. InMsg(k, Byte)'
    BY <1>1, <1>4, <1>6, <1>7 DEF InMsg
  <1>9. Byte' + loop'.len = pos /\ Byte' \in Nat /\ Byte <= Byte'
    BY <1>1, <1>3, <1>7
  <1> QED
    BY <1>3, <1>4, <1>5, <1>8, <1>9, RoundKeeps

\* The second takes the two bytes of the sign.
LEMMA SignKeeps ==
    ASSUME StInv, ~mixed, loop.len > 0, NEW k \in DOMAIN sent, LoopMsg(k),
           UNCHANGED <<sent, pos, excused, mixed>>, Sign
    PROVE  StInv'
  <1>1. /\ StreamInv /\ Byte \in Nat /\ pos \in Nat /\ loop.len \in Nat
        /\ Byte + loop.len = pos
    BY RoundFacts DEF Sign
  <1>2. frame \in Frames /\ loop \in Loops /\ cut \in Seq(Nat) /\ StTypeOK
    BY DEF StInv, StTypeOK
  <1>3. /\ loop' \in Loops /\ loop'.type = loop.type /\ loop'.data = loop.data
        /\ loop'.len = loop.len - 1 /\ Byte' = Byte + 2 /\ cut' = cut
    BY <1>2, TakesFacts DEF Sign
  <1>4. Byte = sent[k].first /\ frame.buf = <<>>
    BY DEF LoopMsg, InMsg, Sign
  <1>5. /\ frame' \in Frames /\ frame'.type = frame.type /\ frame'.step = "CTRL"
        /\ frame'.buf \in Seq(Nat) /\ Len(frame'.buf) = 2
        /\ frame'.buf[1] = Byte /\ frame'.buf[2] = Byte + 1
    <2> DEFINE b == Append(Append(frame.buf, Byte), Byte + 1)
    <2>1. Append(<<>>, Byte) \in Seq(Nat) /\ Len(Append(<<>>, Byte)) = 1
          /\ Append(<<>>, Byte)[1] = Byte
      BY <1>1
    <2>2. b \in Seq(Nat) /\ Len(b) = 2 /\ b[1] = Byte /\ b[2] = Byte + 1
      BY <1>1, <1>4, <2>1
    <2>3. frame' = [frame EXCEPT !.step = "CTRL", !.buf = b]
      BY DEF Sign
    <2> HIDE DEF b
    <2>4. frame' \in Frames /\ frame'.type = frame.type /\ frame'.step = "CTRL" /\ frame'.buf = b
      BY <1>2, <2>2, <2>3 DEF Frames
    <2> QED
      BY <2>2, <2>4
  <1>6. StTypeOK'
    BY <1>2, <1>3, <1>5, RoundTypes
  <1>7. sent[k].first \in Nat /\ sent[k].last \in Nat /\ sent[k].first + 2 <= sent[k].last
    BY <1>1, SentFacts
  <1>8. Len(frame'.buf) = 2 /\ \A i \in DOMAIN frame'.buf : frame'.buf[i] = sent[k].first + i - 1
    <2>1. DOMAIN frame'.buf = 1 .. 2
      BY <1>5
    <2> QED
      BY <1>1, <1>4, <1>5, <2>1
  <1>9. GbCtrl \in Nat /\ 2 < GbCtrl /\ PrivHead \in Nat /\ 2 < PrivHead
    BY TspStreamAssumption
  <1>10. InStep(k, frame.step, frame.datalen, Len(frame.buf))'
    BY <1>5, <1>9 DEF InStep
  <1>11. /\ sent[k].first <= Byte' /\ Byte' <= sent[k].last
         /\ Len(frame'.buf) = Byte' - sent[k].first
    BY <1>1, <1>3, <1>4, <1>7, <1>8
  <1>12. InMsg(k, Byte)'
    <2>1. \A i \in DOMAIN frame'.buf : frame'.buf[i] = sent[k].first + i - 1
      BY <1>8
    <2>2. frame'.step \notin {"IDLE", "SIGN"}
      BY <1>5
    <2> QED
      BY <1>10, <1>11, <2>1, <2>2 DEF InMsg
  <1>13. Byte' + loop'.len = pos + 1 /\ Byte' \in Nat /\ Byte <= Byte'
    BY <1>1, <1>3
  <1>14. frame'.step # "SIGN" /\ frame'.type = frame.type
    BY <1>5
  <1> QED
    BY <1>3, <1>6, <1>12, <1>13, <1>14, RoundKeeps

\* A round of the loop of the GB messages.
LEMMA GbKeeps ==
    ASSUME StInv, gbMakeupMsg
    PROVE  StInv'
  <1>1. ~mixed /\ loop.len > 0 /\ loop.type = "GB" /\ UNCHANGED <<sent, pos, excused, mixed>>
    BY DEF gbMakeupMsg
  <1>2. PICK k \in DOMAIN sent : LoopMsg(k)
    BY <1>1 DEF StInv, LoopInv
  <1>3. /\ StreamInv /\ Byte \in Nat /\ sent[k].first <= Byte /\ Byte <= sent[k].last
        /\ sent[k].kind = "GB" /\ frame.datalen \in Nat
    BY <1>1, <1>2, RoundFacts DEF StInv, StTypeOK, Frames
  <1>4. /\ sent[k].first \in Nat /\ sent[k].last \in Nat /\ Bytes(k) \in Nat
        /\ Bytes(k) = sent[k].last - sent[k].first + 1 /\ Bytes(k) > GbHead + 1
    <2>1. /\ sent[k].first \in Nat /\ sent[k].last \in Nat
          /\ Bytes(k) = sent[k].last - sent[k].first + 1
      BY <1>3, SentFacts
    <2>2. sent[k].last > sent[k].first + GbHead
      BY <1>3 DEF StreamInv, LongEnough
    <2> QED
      BY <2>1, <2>2, TspStreamAssumption
  <1>5. CASE Idle
    BY <1>1, <1>2, <1>5, IdleKeeps
  <1>6. CASE Sign
    BY <1>1, <1>2, <1>6, SignKeeps
  <1>7. ASSUME frame.step \notin {"IDLE", "SIGN"}
        PROVE  /\ Len(Buf) \in Nat /\ Len(Buf) = Byte + 1 - sent[k].first
               /\ InStep(k, frame.step, frame.datalen, Len(Buf) - 1)
               /\ LengthIn(Buf) = Bytes(k)
    BY <1>1, <1>2, <1>7, BufFacts
  <1>8. GbHead \in Nat /\ GbCtrl \in Nat /\ GbCtrl < GbHead /\ SOCK_PROXY_RCVLEN \in Nat
    BY TspStreamAssumption
  <1>9. Receivable(k) <=> Bytes(k) - 1 < SOCK_PROXY_RCVLEN
    BY <1>3 DEF Receivable
  <1>10. CASE /\ frame.step = "CTRL"
              /\ Fills(IF Len(Buf) = GbCtrl THEN "DATALEN" ELSE "CTRL", frame.datalen)
    <2>1. Len(Buf) \in Nat /\ Len(Buf) = Byte + 1 - sent[k].first /\ Len(Buf) - 1 < GbCtrl
          /\ 2 <= Len(Buf) - 1
      BY <1>3, <1>7, <1>10 DEF InStep
    <2>2. Byte < sent[k].last
      <3>1. Byte + 1 - sent[k].first <= GbHead
        BY <1>8, <2>1
      <3> QED
        BY <1>3, <1>4, <1>8, <3>1
    <2>3. CASE Len(Buf) = GbCtrl
      <3>1. InStep(k, "DATALEN", frame.datalen, Len(Buf))
        BY <1>3, <1>8, <2>1, <2>3 DEF InStep
      <3> QED
        BY <1>1, <1>2, <1>3, <1>10, <2>2, <2>3, <3>1, FillsKeeps
    <2>4. CASE Len(Buf) # GbCtrl
      <3>1. InStep(k, "CTRL", frame.datalen, Len(Buf))
        BY <1>3, <1>8, <2>1, <2>4 DEF InStep
      <3> QED
        BY <1>1, <1>2, <1>3, <1>10, <2>2, <2>4, <3>1, FillsKeeps
    <2> QED
      BY <2>3, <2>4
  <1>11. CASE frame.step = "DATALEN" /\ GbDataLen
    <2> DEFINE n == Bytes(k) - GbHead - 1
    <2>1. Len(Buf) \in Nat /\ Len(Buf) = Byte + 1 - sent[k].first
          /\ Len(Buf) - 1 < GbHead /\ GbCtrl <= Len(Buf) - 1
      BY <1>3, <1>7, <1>11 DEF InStep
    <2>2. Byte < sent[k].last /\ n \in Nat /\ n > 0
      <3>1. Byte < sent[k].last
        <4>1. Byte + 1 - sent[k].first <= GbHead
          BY <1>8, <2>1
        <4> QED
          BY <1>3, <1>4, <1>8, <4>1
      <3>2. n \in Nat /\ n > 0
        BY <1>4, <1>8
      <3> QED
        BY <3>1, <3>2
    <2>3. /\ Len(Buf) # GbHead => Fills("DATALEN", frame.datalen)
          /\ Len(Buf) = GbHead /\ n + GbHead < SOCK_PROXY_RCVLEN => Fills("DATA", n)
          /\ Len(Buf) = GbHead /\ ~(n + GbHead < SOCK_PROXY_RCVLEN) => Refuses(n)
      BY <1>7, <1>11 DEF GbDataLen
    <2>4. n + GbHead < SOCK_PROXY_RCVLEN <=> Receivable(k)
      BY <1>4, <1>8, <1>9
    <2>5. CASE Len(Buf) # GbHead
      <3>1. InStep(k, "DATALEN", frame.datalen, Len(Buf))
        BY <1>3, <1>8, <2>1, <2>5 DEF InStep
      <3> QED
        BY <1>1, <1>2, <1>3, <1>11, <2>2, <2>3, <2>5, <3>1, FillsKeeps
    <2>6. CASE Len(Buf) = GbHead /\ Receivable(k)
      <3>1. InStep(k, "DATA", n, Len(Buf))
        BY <1>3, <1>8, <2>1, <2>2, <2>6 DEF InStep
      <3> HIDE DEF n
      <3> QED
        BY <1>1, <1>2, <1>3, <1>11, <2>2, <2>3, <2>4, <2>6, <3>1, FillsKeeps
    <2>7. CASE Len(Buf) = GbHead /\ ~Receivable(k)
      <3> HIDE DEF n
      <3> QED
        BY <1>1, <1>2, <1>11, <2>2, <2>3, <2>4, <2>7, RefusesKeeps
    <2> QED
      BY <2>5, <2>6, <2>7
  <1>12. CASE frame.step = "DATA" /\ GbDataRound
    <2>1. /\ Len(Buf) \in Nat /\ Len(Buf) = Byte + 1 - sent[k].first /\ GbHead <= Len(Buf) - 1
          /\ Len(Buf) - 1 < GbHead + frame.datalen
          /\ frame.datalen = Bytes(k) - GbHead - 1 /\ Receivable(k)
      BY <1>3, <1>7, <1>12 DEF InStep
    <2>2. Byte < sent[k].last
      <3>1. Byte + 1 - sent[k].first < Bytes(k)
        BY <1>4, <1>8, <2>1
      <3> QED
        BY <1>3, <1>4, <3>1
    <2>3. CASE Len(Buf) = GbHead + frame.datalen
      <3>1. InStep(k, "CHECKCODE", frame.datalen, Len(Buf))
        BY <1>3, <1>4, <1>8, <2>1, <2>3 DEF InStep
      <3> QED
        BY <1>1, <1>2, <1>3, <1>12, <2>2, <2>3, <3>1, FillsKeeps DEF GbDataRound
    <2>4. CASE Len(Buf) # GbHead + frame.datalen
      <3>1. GbHead <= Len(Buf) /\ Len(Buf) < GbHead + frame.datalen
        BY <1>3, <1>8, <2>1, <2>4
      <3>2. InStep(k, "DATA", frame.datalen, Len(Buf))
        BY <1>3, <2>1, <3>1 DEF InStep
      <3> QED
        BY <1>1, <1>2, <1>3, <1>12, <2>2, <2>4, <3>2, FillsKeeps DEF GbDataRound
    <2> QED
      BY <2>3, <2>4
  <1>13. CASE frame.step = "CHECKCODE" /\ Finishes("GB", frame.datalen)
    <2>1. /\ Len(Buf) \in Nat /\ Len(Buf) = Byte + 1 - sent[k].first
          /\ Len(Buf) - 1 = Bytes(k) - 1 /\ Receivable(k)
      BY <1>3, <1>7, <1>13 DEF InStep
    <2>2. Byte = sent[k].last
      BY <1>3, <1>4, <2>1
    <2> QED
      BY <1>1, <1>2, <1>3, <1>13, <2>1, <2>2, FinishesKeeps
  <1> QED
    BY <1>5, <1>6, <1>10, <1>11, <1>12, <1>13 DEF gbMakeupMsg

\* A round of the loop of the private messages.
LEMMA PrivKeeps ==
    ASSUME StInv, privMakeupMsg
    PROVE  StInv'
  <1>1. ~mixed /\ loop.len > 0 /\ loop.type = "PRIV" /\ UNCHANGED <<sent, pos, excused, mixed>>
    BY DEF privMakeupMsg
  <1>2. PICK k \in DOMAIN sent : LoopMsg(k)
    BY <1>1 DEF StInv, LoopInv
  <1>3. /\ StreamInv /\ Byte \in Nat /\ sent[k].first <= Byte /\ Byte <= sent[k].last
        /\ sent[k].kind = "PRIV" /\ frame.datalen \in Nat
    BY <1>1, <1>2, RoundFacts DEF StInv, StTypeOK, Frames
  <1>4. /\ sent[k].first \in Nat /\ sent[k].last \in Nat /\ Bytes(k) \in Nat
        /\ Bytes(k) = sent[k].last - sent[k].first + 1 /\ Bytes(k) >= PrivHead
    <2>1. /\ sent[k].first \in Nat /\ sent[k].last \in Nat
          /\ sent[k].first + 2 <= sent[k].last
          /\ Bytes(k) = sent[k].last - sent[k].first + 1
      BY <1>3, SentFacts
    <2>2. sent[k].last + 1 >= sent[k].first + PrivHead
      BY <1>3 DEF StreamInv, LongEnough
    <2> QED
      BY <2>1, <2>2, TspStreamAssumption
  <1>5. CASE Idle
    BY <1>1, <1>2, <1>5, IdleKeeps
  <1>6. CASE Sign
    BY <1>1, <1>2, <1>6, SignKeeps
  <1>7. ASSUME frame.step \notin {"IDLE", "SIGN"}
        PROVE  /\ Len(Buf) \in Nat /\ Len(Buf) = Byte + 1 - sent[k].first
               /\ InStep(k, frame.step, frame.datalen, Len(Buf) - 1)
               /\ LengthIn(Buf) = Bytes(k)
    BY <1>1, <1>2, <1>7, BufFacts
  <1>8. PrivHead \in Nat /\ SOCK_PROXY_RCVLEN \in Nat /\ PrivHead <= SOCK_PROXY_RCVLEN
    BY TspStreamAssumption
  <1>9. Receivable(k) <=> Bytes(k) <= SOCK_PROXY_RCVLEN
    BY <1>3 DEF Receivable
  <1>10. CASE frame.step = "CTRL" /\ PrivCtrl
    <2>1. Len(Buf) \in Nat /\ Len(Buf) = Byte + 1 - sent[k].first
          /\ Len(Buf) - 1 < PrivHead /\ 2 <= Len(Buf) - 1
      BY <1>3, <1>7, <1>10 DEF InStep
    <2>2. /\ Len(Buf) # PrivHead => Fills("CTRL", frame.datalen)
          /\ Len(Buf) = PrivHead /\ Bytes(k) = PrivHead => Finishes("PRIV", Bytes(k))
          /\ Len(Buf) = PrivHead /\ Bytes(k) # PrivHead /\ Bytes(k) > SOCK_PROXY_RCVLEN
               => Refuses(Bytes(k))
          /\ Len(Buf) = PrivHead /\ Bytes(k) # PrivHead /\ ~(Bytes(k) > SOCK_PROXY_RCVLEN)
               => Fills("DATA", Bytes(k))
      BY <1>7, <1>10 DEF PrivCtrl
    <2>3. CASE Len(Buf) # PrivHead
      <3>1. InStep(k, "CTRL", frame.datalen, Len(Buf)) /\ Byte < sent[k].last
        BY <1>3, <1>4, <1>8, <2>1, <2>3 DEF InStep
      <3> QED
        BY <1>1, <1>2, <1>3, <1>10, <2>2, <2>3, <3>1, FillsKeeps
    <2>4. CASE Len(Buf) = PrivHead /\ Bytes(k) = PrivHead
      <3>1. Byte = sent[k].last /\ Receivable(k)
        BY <1>3, <1>4, <1>8, <1>9, <2>1, <2>4
      <3> QED
        BY <1>1, <1>2, <1>3, <1>4, <1>10, <2>2, <2>4, <3>1, FinishesKeeps
    <2>5. CASE Len(Buf) = PrivHead /\ Bytes(k) # PrivHead /\ Bytes(k) > SOCK_PROXY_RCVLEN
      <3>1. ~Receivable(k)
        BY <1>4, <1>8, <1>9, <2>5
      <3> QED
        BY <1>1, <1>2, <1>4, <1>10, <2>2, <2>5, <3>1, RefusesKeeps
    <2>6. CASE Len(Buf) = PrivHead /\ Bytes(k) # PrivHead /\ ~(Bytes(k) > SOCK_PROXY_RCVLEN)
      <3>1. Receivable(k) /\ Byte < sent[k].last
        BY <1>3, <1>4, <1>8, <1>9, <2>1, <2>6
      <3>2. InStep(k, "DATA", Bytes(k), Len(Buf))
        BY <1>3, <1>4, <1>8, <2>1, <2>6, <3>1 DEF InStep
      <3> QED
        BY <1>1, <1>2, <1>4, <1>10, <2>2, <2>6, <3>1, <3>2, FillsKeeps
    <2> QED
      BY <2>3, <2>4, <2>5, <2>6
  <1>11. CASE /\ frame.step = "DATA"
              /\ IF Len(Buf) = frame.datalen THEN Finishes("PRIV", frame.datalen)
                 ELSE Fills("DATA", frame.datalen)
    <2>1. /\ Len(Buf) \in Nat /\ Len(Buf) = Byte + 1 - sent[k].first /\ PrivHead <= Len(Buf) - 1
          /\ Len(Buf) - 1 < frame.datalen /\ frame.datalen = Bytes(k) /\ Receivable(k)
      BY <1>3, <1>7, <1>11 DEF InStep
    <2>2. CASE Len(Buf) = frame.datalen
      <3>1. Byte = sent[k].last
        BY <1>3, <1>4, <2>1, <2>2
      <3> QED
        BY <1>1, <1>2, <1>3, <1>11, <2>1, <2>2, <3>1, FinishesKeeps
    <2>3. CASE Len(Buf) # frame.datalen
      <3>1. Len(Buf) < frame.datalen /\ PrivHead <= Len(Buf)
        BY <1>3, <1>8, <2>1, <2>3
      <3>2. Byte < sent[k].last
        BY <1>3, <1>4, <2>1, <3>1
      <3>3. InStep(k, "DATA", frame.datalen, Len(Buf))
        BY <1>3, <2>1, <3>1 DEF InStep
      <3> QED
        BY <1>1, <1>2, <1>3, <1>11, <2>3, <3>2, <3>3, FillsKeeps
    <2> QED
      BY <2>2, <2>3
  <1> QED
    BY <1>5, <1>6, <1>10, <1>11 DEF privMakeupMsg

\* What a receive call of the bytes up to q does to the messages it brings.
LEMMA CallBegins ==
    ASSUME StreamInv, StTypeOK, NEW q \in Nat, pos < q, sent' = sent, pos' = q,
           loop'.data = pos + 1, excused' = excused \cup NewlyExcused(pos + 1, q),
           ~Mixes(pos + 1, q)
    PROVE  CallInv'
  <1> DEFINE p == pos + 1
  <1>1. pos \in Nat /\ p \in Nat /\ pos < p
    BY SentFacts DEF StTypeOK
  <1>2. BeginInside(loop.data, pos)' = BeginInside(p, q)
    BY DEF BeginInside
  <1>3. \A j \in BeginInside(p, q) :
          j \in DOMAIN sent /\ p < sent[j].first /\ sent[j].first <= q
    BY DEF BeginInside
  <1>4. ASSUME NEW j \in BeginInside(p, q)
        PROVE  j \in excused' <=> sent[j].last > q \/ Dropped(p, j)
    <2>1. j \in DOMAIN sent /\ sent[j].first \in Nat /\ p < sent[j].first
      BY <1>3, SentFacts
    <2>2. j \notin excused
      BY <1>1, <2>1 DEF StTypeOK
    <2>3. sent[j].first # p
      BY <1>1, <2>1
    <2> QED
      BY <1>4, <2>2, <2>3 DEF NewlyExcused
  <1>5. ASSUME NEW j \in BeginInside(p, q), NEW i \in 1 .. j - 1, sent[i].last >= p,
               i \in excused', i \notin excused
        PROVE  Dropped(p, j)
    <2>1. j \in DOMAIN sent /\ i \in DOMAIN sent /\ i < j /\ i \in Nat /\ j \in Nat
      BY <1>3, SentFacts
    <2>2. /\ sent[j].first \in Nat /\ sent[i].first \in Nat /\ sent[i].last \in Nat
          /\ p < sent[j].first /\ sent[j].first <= q /\ sent[i].last < sent[j].first
      BY <1>3, <2>1, SentFacts, Apart
    <2>3. ~(sent[i].last > q) /\ q # p
      BY <1>1, <2>2
    <2>4. Dropped(p, i)
      BY <1>5, <2>3 DEF NewlyExcused
    <2>5. PICK h \in 1 .. i - 1 : sent[h].last >= p /\ (~Receivable(h) \/ h \in excused)
      BY <2>4 DEF Dropped
    <2>6. h \in 1 .. j - 1
      BY <2>1, <2>5
    <2> QED
      BY <2>5, <2>6 DEF Dropped
  <1>6. ASSUME NEW j \in BeginInside(p, q)
        PROVE  Dropped(loop.data, j)' <=> Dropped(p, j)
    <2>1. \A i \in 1 .. j - 1 : Receivable(i)' <=> Receivable(i)
      BY DEF Receivable, Bytes
    <2>2. ASSUME Dropped(p, j) PROVE Dropped(loop.data, j)'
      <3>1. PICK i \in 1 .. j - 1 : sent[i].last >= p /\ (~Receivable(i) \/ i \in excused)
        BY <2>2 DEF Dropped
      <3> QED
        BY <2>1, <3>1 DEF Dropped
    <2>3. ASSUME Dropped(loop.data, j)' PROVE Dropped(p, j)
      <3>1. PICK i \in 1 .. j - 1 : sent[i].last >= p /\ (~Receivable(i) \/ i \in excused')
        BY <2>1, <2>3 DEF Dropped
      <3>2. CASE ~Receivable(i) \/ i \in excused
        BY <3>1, <3>2 DEF Dropped
      <3>3. CASE i \in excused' /\ i \notin excused
        BY <1>5, <3>1, <3>3
      <3> QED
        BY <3>1, <3>2, <3>3
    <2> QED
      BY <2>2, <2>3
  <1>7. \A j \in BeginInside(p, q) : sent[j].kind = sent[j - 1].kind \/ Dropped(p, j)
    BY DEF Mixes
  <1> HIDE DEF p
  <1> QED
    BY <1>2, <1>4, <1>6, <1>7 DEF CallInv

\* It changes nothing about the messages received before.
LEMMA CallSame ==
    ASSUME StreamInv, StTypeOK, NEW q \in Nat, pos < q, sent' = sent,
           excused' = excused \cup NewlyExcused(pos + 1, q), NEW m \in DOMAIN sent
    PROVE  /\ Due(m)' => Due(m)
           /\ sent[m].first <= pos => (m \in excused' <=> m \in excused)
           /\ sent[m].first <= pos => (Due(m)' <=> Due(m))
  <1>1. pos \in Nat /\ sent[m].first \in Nat
    BY SentFacts DEF StTypeOK
  <1>2. Receivable(m)' <=> Receivable(m)
    BY DEF Receivable, Bytes
  <1>3. ASSUME sent[m].first <= pos
        PROVE  m \notin NewlyExcused(pos + 1, q)
    <2>1. ~(pos + 1 < sent[m].first) /\ sent[m].first # pos + 1
      BY <1>1, <1>3
    <2> QED
      BY <2>1 DEF NewlyExcused, BeginInside
  <1> QED
    BY <1>2, <1>3 DEF Due

\* A receive call enters the loop, in message k, which the call before left or
\* which begins with the call.
LEMMA CallEnters ==
    ASSUME StInv, ~mixed, loop.len = 0, NEW q \in Nat, pos < q, q <= Total, sent' = sent,
           pos' = q, cut' = cut, excused' = excused \cup NewlyExcused(pos + 1, q),
           ~Mixes(pos + 1, q), StTypeOK', NEW k \in DOMAIN sent,
           loop' = [type |-> sent[k].kind, data |-> pos + 1, rlen |-> 0, len |-> q - pos],
           frame'.type = sent[k].kind, frame'.step # "SIGN", InMsg(k, Byte)',
           k \notin excused, sent[k].first = pos + 1 => pos + 1 < q
    PROVE  LoopInv' /\ RestInv' /\ CutInv'
  <1>1. StreamInv /\ StTypeOK /\ CutInv
    BY DEF StInv
  <1>2. pos \in Nat /\ sent[k].first \in Nat /\ sent[k].kind \in {"GB", "PRIV"}
    BY <1>1, SentFacts DEF StTypeOK
  <1>3. /\ loop'.type = sent[k].kind /\ loop'.data = pos + 1 /\ loop'.len = q - pos
        /\ loop'.len > 0 /\ Byte' = pos + 1
    BY <1>2 DEF Byte
  <1>4. sent[k].first <= pos + 1
    BY <1>3 DEF InMsg
  <1>5. k \notin excused'
    <2>1. ~(pos + 1 < sent[k].first) /\ ~(sent[k].first = pos + 1 /\ q = pos + 1)
      BY <1>2, <1>4
    <2> QED
      BY <2>1 DEF NewlyExcused, BeginInside
  <1>6. ASSUME NEW j \in 1 .. k - 1 PROVE ~(sent[j].last >= pos + 1)
    <2>1. j \in DOMAIN sent /\ sent[j].last \in Nat /\ j < k
      BY <1>1, SentFacts
    <2>2. sent[j].last < sent[k].first
      BY <1>1, <2>1, Apart
    <2> QED
      BY <1>2, <1>4, <2>1, <2>2
  <1>7. LoopMsg(k)'
    BY <1>3, <1>4, <1>5, <1>6 DEF LoopMsg
  <1>8. CallInv'
    BY <1>1, <1>3, CallBegins
  <1>9. LoopInv'
    <2>1. (Byte + loop.len = pos + IF frame.step = "SIGN" THEN 0 ELSE 1)'
      BY <1>2, <1>3
    <2> QED
      BY <1>7, <1>8, <2>1 DEF LoopInv
  <1>10. RestInv'
    BY <1>3 DEF RestInv
  <1>11. ReadTo = pos + 1 /\ ReadTo' = pos + 1
    BY <1>3 DEF ReadTo
  <1>12. \A m \in DOMAIN sent : sent[m].last < pos + 1 => (Due(m)' <=> Due(m))
    <2> TAKE m \in DOMAIN sent
    <2> HAVE sent[m].last < pos + 1
    <2>1. sent[m].first <= pos
      <3>1. /\ sent[m].first \in Nat /\ sent[m].last \in Nat
            /\ sent[m].first + 2 <= sent[m].last
        BY <1>1, PlaceOf
      <3> QED
        BY <1>2, <3>1
    <2> QED
      BY <1>1, <2>1, CallSame
  <1>13. CutInv'
    BY <1>1, <1>11, <1>12 DEF CutInv
  <1> QED
    BY <1>9, <1>10, <1>13

\* A receive call of bytes that begin no message, or of one: all are dropped.
LEMMA CallDrops ==
    ASSUME StInv, ~mixed, loop.len = 0, NEW q \in Nat, pos < q, q <= Total, sent' = sent,
           pos' = q, cut' = cut, excused' = excused \cup NewlyExcused(pos + 1, q),
           StTypeOK', frame.type = "UNRCV", KindOf(pos + 1, q) = "UNRCV",
           loop'.len = 0, frame'.type = "UNRCV"
    PROVE  LoopInv' /\ RestInv' /\ CutInv'
  <1>1. StreamInv /\ StTypeOK /\ CutInv /\ RestInv
    BY DEF StInv
  <1>2. pos \in Nat /\ Total \in Nat
    BY <1>1, SentFacts DEF StTypeOK
  <1>3. \A m \in DOMAIN sent : sent[m].first \in Nat /\ sent[m].last \in Nat
                                /\ sent[m].first + 2 <= sent[m].last
    BY <1>1, SentFacts
  <1>4. \A m \in DOMAIN sent : sent[m].first <= pos /\ pos < sent[m].last => ~Due(m)
    BY <1>1 DEF RestInv
  <1>5. ASSUME NEW m \in DOMAIN sent, sent[m].first = pos + 1
        PROVE  q = pos + 1
    <2>1. MsgAt(pos + 1) = m
      BY <1>1, <1>2, <1>3, <1>5, MsgAtIs
    <2>2. sent[m].kind # "UNRCV"
      BY <1>1, SentFacts
    <2>3. ~(q > pos + 1)
      BY <1>5, <2>1, <2>2 DEF KindOf
    <2> QED
      BY <1>2, <2>3
  <1>6. ASSUME NEW m \in DOMAIN sent, pos + 1 < sent[m].first, sent[m].first <= q
        PROVE  m \in excused'
    <2>1. PICK k \in DOMAIN sent : sent[k].first <= pos + 1 /\ pos + 1 <= sent[k].last
      <3>1. pos + 1 \in 1 .. Total
        BY <1>2
      <3> QED
        BY <1>1, <3>1 DEF StreamInv, Covered
    <2>2. sent[k].first # pos + 1
      BY <1>2, <1>3, <1>5, <1>6
    <2>3. sent[k].first <= pos /\ pos < sent[k].last
      BY <1>2, <1>3, <2>1, <2>2
    <2>4. ~Due(k)
      BY <1>4, <2>3
    <2>5. sent[k].first < sent[m].first
      BY <1>2, <1>3, <1>6, <2>3
    <2>6. k \in 1 .. m - 1
      BY <1>1, <2>5, Apart, SentFacts
    <2>7. Dropped(pos + 1, m)
      BY <1>2, <1>3, <2>1, <2>4, <2>6 DEF Dropped, Due
    <2>8. m \in BeginInside(pos + 1, q)
      BY <1>6 DEF BeginInside
    <2> QED
      BY <2>7, <2>8 DEF NewlyExcused
  <1>7. ASSUME NEW m \in DOMAIN sent, sent[m].first <= q, pos < sent[m].last
        PROVE  ~Due(m)'
    <2>1. CASE sent[m].first <= pos
      BY <1>1, <1>4, <1>7, <2>1, CallSame
    <2>2. CASE sent[m].first = pos + 1
      <3>1. q = pos + 1
        BY <1>5, <2>2
      <3>2. m \in excused'
        BY <2>2, <3>1 DEF NewlyExcused
      <3> QED
        BY <3>2 DEF Due
    <2>3. CASE pos + 1 < sent[m].first
      BY <1>6, <1>7, <2>3 DEF Due
    <2> QED
      BY <1>2, <1>3, <2>1, <2>2, <2>3
  <1>8. LoopInv'
    BY DEF LoopInv
  <1>9. RestInv'
    <2>1. \A m \in DOMAIN sent : sent[m].first <= q /\ q < sent[m].last => ~Due(m)'
      BY <1>2, <1>3, <1>7
    <2> QED
      BY <2>1 DEF RestInv
  <1>10. ReadTo = pos + 1 /\ ReadTo' = q + 1
    BY DEF ReadTo
  <1>11. ASSUME NEW m \in DOMAIN sent
         PROVE  sent[m].last < q + 1 /\ Due(m)' <=> sent[m].last < pos + 1 /\ Due(m)
    <2>1. CASE sent[m].last < pos + 1
      <3>1. sent[m].first <= pos /\ sent[m].last < q + 1
        BY <1>2, <1>3, <2>1
      <3> QED
        BY <1>1, <2>1, <3>1, CallSame
    <2>2. CASE ~(sent[m].last < pos + 1) /\ sent[m].last < q + 1
      <3>1. sent[m].first <= q /\ pos < sent[m].last
        BY <1>2, <1>3, <2>2
      <3> QED
        BY <1>7, <2>2, <3>1
    <2> QED
      BY <1>2, <1>3, <2>1, <2>2
  <1>12. CutInv'
    BY <1>1, <1>10, <1>11 DEF CutInv
  <1> QED
    BY <1>8, <1>9, <1>12

\* A receive call, of any length and from any place in the stream on.
LEMMA ReceiveKeeps ==
    ASSUME StInv, Receive
    PROVE  StInv'
  <1> DEFINE Type(q) == IF frame.type = "UNRCV" THEN KindOf(pos + 1, q) ELSE frame.type
  <1>1. PICK q \in pos + 1 .. pos + MaxBytes :
          /\ ~mixed /\ loop.len = 0 /\ q <= Total /\ pos' = q
          /\ frame' = IF frame.type = "UNRCV"
                      THEN [frame EXCEPT !.type = Type(q), !.step = "IDLE", !.buf = <<>>]
                      ELSE frame
          /\ loop' = [type |-> Type(q), data |-> pos + 1, rlen |-> 0,
                      len |-> IF Type(q) = "UNRCV" THEN 0 ELSE q - pos]
          /\ excused' = excused \cup NewlyExcused(pos + 1, q)
          /\ mixed' = Mixes(pos + 1, q)
          /\ sent' = sent /\ cut' = cut
    BY DEF Receive
  <1>2. StreamInv /\ StTypeOK /\ RestInv
    BY <1>1 DEF StInv
  <1>3. pos \in Nat /\ q \in Nat /\ pos < q /\ Total \in Nat
    BY <1>1, <1>2, SentFacts, TspStreamAssumption DEF StTypeOK
  <1>4. StreamInv' /\ Total' = Total
    BY <1>1, <1>2, SameStream
  <1>5. PICK k \in DOMAIN sent : sent[k].first <= pos + 1 /\ pos + 1 <= sent[k].last
    <2>1. pos + 1 \in 1 .. Total
      BY <1>1, <1>3
    <2> QED
      BY <1>2, <2>1 DEF StreamInv, Covered
  <1>6. /\ MsgAt(pos + 1) = k /\ sent[k].kind \in {"GB", "PRIV"}
        /\ sent[k].first \in Nat /\ sent[k].last \in Nat
    BY <1>2, <1>3, <1>5, MsgAtIs, SentFacts
  <1>7. frame \in Frames /\ frame.type \in {"UNRCV", "GB", "PRIV"}
    BY <1>2 DEF StTypeOK, Frames
  <1>8. Type(q) \in {"UNRCV", "GB", "PRIV"}
    BY <1>6, <1>7 DEF KindOf
  <1>9. /\ frame' \in Frames /\ frame'.type = Type(q)
        /\ frame.type = "UNRCV" => frame'.step = "IDLE"
    <2>1. <<>> \in Seq(Nat)
      OBVIOUS
    <2>2. CASE frame.type = "UNRCV"
      <3> HIDE DEF Type
      <3>1. frame' = [frame EXCEPT !.type = Type(q), !.step = "IDLE", !.buf = <<>>]
        BY <1>1, <2>2
      <3> QED
        BY <1>7, <1>8, <2>1, <3>1 DEF Frames
    <2>3. CASE frame.type # "UNRCV"
      BY <1>1, <1>7, <2>3
    <2> QED
      BY <2>2, <2>3
  <1>10. StTypeOK'
    <2>1. loop' \in Loops
      <3>1. q - pos \in Nat /\ pos + 1 \in Nat \ {0}
        BY <1>3
      <3> HIDE DEF Type
      <3> QED
        BY <1>1, <1>8, <3>1 DEF Loops
    <2>2. \A m \in NewlyExcused(pos + 1, q) : m \in DOMAIN sent /\ sent[m].first <= q
      <3> TAKE m \in NewlyExcused(pos + 1, q)
      <3>1. m \in DOMAIN sent /\ (sent[m].first <= q \/ (sent[m].first = pos + 1 /\ q = pos + 1))
        BY DEF NewlyExcused, BeginInside
      <3> QED
        BY <1>3, <3>1
    <2>3. \A m \in excused : m \in DOMAIN sent /\ sent[m].first <= q
      <3> TAKE m \in excused
      <3>1. m \in DOMAIN sent /\ sent[m].first <= pos
        BY <1>2 DEF StTypeOK
      <3> QED
        BY <1>2, <1>3, <3>1, SentFacts
    <2>4. q \in 0 .. Total /\ mixed' \in BOOLEAN /\ cut \in Seq(Nat)
      BY <1>1, <1>2, <1>3 DEF StTypeOK, Mixes
    <2> QED
      BY <1>1, <1>4, <1>9, <2>1, <2>2, <2>3, <2>4 DEF StTypeOK
  <1>11. ASSUME ~mixed' PROVE LoopInv' /\ RestInv' /\ CutInv'
    <2>1. ~Mixes(pos + 1, q)
      BY <1>1, <1>11
    <2>2. CASE Type(q) = "UNRCV"
      <3>1. frame.type = "UNRCV" /\ KindOf(pos + 1, q) = "UNRCV"
        BY <2>2
      <3>2. loop'.len = 0 /\ frame'.type = "UNRCV"
        BY <1>1, <1>9, <2>2
      <3> QED
        BY <1>1, <1>3, <1>10, <3>1, <3>2, CallDrops
    <2>3. CASE frame.type = "UNRCV" /\ Type(q) # "UNRCV"
      <3>1. q > pos + 1 /\ sent[k].first = pos + 1 /\ Type(q) = sent[k].kind
        BY <1>6, <2>3 DEF KindOf
      <3>2. k \notin excused
        BY <1>2, <1>3, <3>1 DEF StTypeOK
      <3>3. loop' = [type |-> sent[k].kind, data |-> pos + 1, rlen |-> 0, len |-> q - pos]
        BY <1>1, <2>3, <3>1
      <3>4. Byte' = pos + 1
        BY <1>3, <3>3 DEF Byte
      <3>5. InMsg(k, Byte)'
        BY <1>1, <1>3, <1>5, <1>9, <2>3, <3>1, <3>4 DEF InMsg
      <3>6. frame'.type = sent[k].kind /\ frame'.step # "SIGN" /\ pos + 1 < q
        BY <1>3, <1>9, <2>3, <3>1
      <3> QED
        BY <1>1, <1>3, <1>10, <2>1, <3>2, <3>3, <3>5, <3>6, CallEnters
    <2>4. CASE frame.type # "UNRCV"
      <3>1. PICK j \in DOMAIN sent :
              /\ InMsg(j, pos + 1) /\ sent[j].first <= pos
              /\ sent[j].kind = frame.type /\ j \notin excused
        BY <1>1, <1>2, <2>4 DEF RestInv
      <3>2. Type(q) = sent[j].kind /\ frame' = frame
        BY <1>1, <2>4, <3>1
      <3>3. loop' = [type |-> sent[j].kind, data |-> pos + 1, rlen |-> 0, len |-> q - pos]
        BY <1>1, <2>4, <3>1
      <3>4. Byte' = pos + 1
        BY <1>3, <3>3 DEF Byte
      <3>5. sent[j].first # pos + 1
        BY <1>2, <1>3, <3>1, SentFacts
      <3>6. frame'.type = sent[j].kind /\ frame'.step # "SIGN"
        BY <3>1, <3>2, <3>5 DEF InMsg
      <3>7. InMsg(j, Byte)'
        BY <1>1, <3>1, <3>2, <3>4 DEF InMsg, InStep, Receivable, Bytes
      <3> QED
        BY <1>1, <1>3, <1>10, <2>1, <3>1, <3>3, <3>5, <3>6, <3>7, CallEnters
    <2> QED
      BY <2>2, <2>3, <2>4
  <1> QED
    BY <1>4, <1>10, <1>11 DEF StInv

\* The link is lost in message k, which is given up.
LEMMA ReconnectKeeps ==
    ASSUME StInv, Reconnect
    PROVE  StInv'
  <1>1. PICK k \in DOMAIN sent :
          /\ sent[k].first <= pos /\ pos < sent[k].last
          /\ pos' = sent[k].last /\ excused' = excused \cup {k}
    BY DEF Reconnect
  <1>2. /\ ~mixed /\ loop.len = 0 /\ mixed' = (frame.type # "UNRCV")
        /\ sent' = sent /\ frame' = frame /\ loop' = loop /\ cut' = cut
    BY DEF Reconnect
  <1>3. StreamInv /\ StTypeOK /\ CutInv
    BY <1>2 DEF StInv
  <1>4. pos \in Nat /\ \A m \in DOMAIN sent : /\ sent[m].first \in Nat /\ sent[m].last \in Nat
                                              /\ sent[m].first + 2 <= sent[m].last
                                              /\ sent[m].last <= Total
    BY <1>3, SentFacts DEF StTypeOK
  <1>5. StreamInv' /\ Total' = Total
    BY <1>2, <1>3, SameStream
  <1>6. StTypeOK'
    <2>1. \A m \in excused : m \in DOMAIN sent /\ sent[m].first <= sent[k].last
      <3> TAKE m \in excused
      <3>1. m \in DOMAIN sent /\ sent[m].first <= pos
        BY <1>3 DEF StTypeOK
      <3> QED
        BY <1>1, <1>4, <3>1
    <2>2. sent[k].first <= sent[k].last /\ sent[k].last \in 0 .. Total
      BY <1>3, <1>4, SentFacts
    <2> QED
      BY <1>1, <1>2, <1>3, <1>5, <2>1, <2>2 DEF StTypeOK
  <1>7. \A m \in DOMAIN sent : Due(m)' <=> Due(m) /\ m # k
    BY <1>1, <1>2 DEF Due, Receivable, Bytes
  <1>8. ASSUME ~mixed' PROVE LoopInv' /\ RestInv' /\ CutInv'
    <2>1. LoopInv'
      BY <1>2 DEF LoopInv
    <2>2. ASSUME NEW m \in DOMAIN sent, sent[m].first <= sent[k].last, sent[k].last < sent[m].last
          PROVE  FALSE
      <3>1. sent[k].last < sent[m].first
        BY <1>3, <2>2, Apart
      <3> QED
        BY <1>4, <2>2, <3>1
    <2>3. RestInv'
      BY <1>1, <1>2, <1>8, <2>2 DEF RestInv
    <2>4. ReadTo = pos + 1 /\ ReadTo' = sent[k].last + 1
      BY <1>1, <1>2 DEF ReadTo
    <2>5. ASSUME NEW m \in DOMAIN sent
          PROVE  sent[m].last < sent[k].last + 1 /\ m # k <=> sent[m].last < pos + 1
      <3>1. CASE m < k
        <4>1. sent[m].last < sent[k].first
          BY <1>3, <3>1, Apart
        <4>2. m # k
          BY <1>3, <3>1, PlaceOf
        <4> QED
          BY <1>1, <1>4, <4>1, <4>2
      <3>2. CASE k < m
        <4>1. sent[k].last < sent[m].last
          BY <1>3, <3>2, Apart
        <4> QED
          BY <1>1, <1>4, <4>1
      <3>3. CASE m = k
        BY <1>1, <1>4, <3>3
      <3> QED
        BY <1>3, <3>1, <3>2, <3>3, SentFacts
    <2>6. CutInv'
      BY <1>2, <1>3, <1>7, <2>4, <2>5 DEF CutInv
    <2> QED
      BY <2>1, <2>3, <2>6
  <1> QED
    BY <1>5, <1>6, <1>8 DEF StInv

\* What one more message of the TSP leaves as it was.
LEMMA SendsFacts ==
    ASSUME StreamInv, TspSends
    PROVE  /\ Total \in Nat /\ Len(sent) \in Nat /\ DOMAIN sent = 1 .. Len(sent)
           /\ DOMAIN sent' = 1 .. Len(sent) + 1
           /\ \A m \in DOMAIN sent : m \in DOMAIN sent' /\ sent'[m] = sent[m]
           /\ sent'[Len(sent) + 1].first = Total + 1
           /\ sent'[Len(sent) + 1].last \in Nat /\ sent'[Len(sent) + 1].last > Total
           /\ Total' = sent'[Len(sent) + 1].last
           /\ StreamInv'
  <1>1. PICK x \in Sendable :
          sent' = Append(sent, [kind |-> x.kind, first |-> Total + 1, last |-> Total + x.bytes])
    BY DEF TspSends
  <1>2. /\ x.kind \in {"GB", "PRIV"} /\ x.bytes \in Nat /\ x.bytes > 0
        /\ IF x.kind = "GB" THEN x.bytes > GbHead + 1 ELSE x.bytes >= PrivHead
    BY TspStreamAssumption
  <1>3. /\ Total \in Nat /\ Len(sent) \in Nat /\ DOMAIN sent = 1 .. Len(sent)
    BY SentFacts
  <1> DEFINE N == Len(sent) + 1
             y == [kind |-> x.kind, first |-> Total + 1, last |-> Total + x.bytes]
             R == [kind : {"GB", "PRIV"}, first : Nat, last : Nat]
  <1>4. y \in R /\ y.kind = x.kind /\ y.first = Total + 1 /\ y.last = Total + x.bytes
    BY <1>2, <1>3
  <1>5. sent \in Seq(R)
    BY DEF StreamInv, SentType
  <1>6. /\ sent' \in Seq(R) /\ Len(sent') = N /\ DOMAIN sent' = 1 .. N /\ sent'[N] = y
        /\ \A m \in 1 .. Len(sent) : sent'[m] = sent[m]
    <2> HIDE DEF R, y
    <2>1. sent' = Append(sent, y)
      BY <1>1 DEF y
    <2> QED
      BY <1>4, <1>5, <2>1
  <1> HIDE DEF y
  <1>7. \A m \in DOMAIN sent : m \in DOMAIN sent' /\ sent'[m] = sent[m]
    BY <1>3, <1>6
  <1>8. N \in Nat /\ N > 0 /\ sent' # <<>>
    <2>1. N \in Nat /\ N > 0
      BY <1>3
    <2> QED
      BY <1>6, <2>1
  <1>9. /\ sent'[N].first = Total + 1 /\ sent'[N].last = Total + x.bytes
        /\ sent'[N].last \in Nat /\ sent'[N].last > Total /\ Total' = sent'[N].last
    BY <1>2, <1>3, <1>4, <1>6, <1>8 DEF Total
  <1>10. \A m \in DOMAIN sent' : m = N \/ m \in DOMAIN sent
    BY <1>3, <1>6
  <1>11. SentType'
    BY <1>6 DEF SentType
  <1>12. Gapless'
    <2> SUFFICES ASSUME NEW m \in DOMAIN sent'
                 PROVE  sent'[m].first = IF m = 1 THEN 1 ELSE sent'[m - 1].last + 1
      BY DEF Gapless
    <2>1. CASE m = N
      <3>1. CASE Len(sent) = 0
        <4>1. sent = <<>>
          BY <1>5, <3>1
        <4> QED
          BY <1>3, <1>9, <2>1, <3>1, <4>1 DEF Total
      <3>2. CASE Len(sent) # 0
        <4>1. m # 1 /\ m - 1 = Len(sent) /\ Len(sent) \in DOMAIN sent /\ sent # <<>>
          BY <1>3, <2>1, <3>2
        <4>2. Total = sent[Len(sent)].last /\ sent'[Len(sent)] = sent[Len(sent)]
          BY <1>7, <4>1 DEF Total
        <4> QED
          BY <1>9, <2>1, <4>1, <4>2
      <3> QED
        BY <3>1, <3>2
    <2>2. CASE m \in DOMAIN sent
      <3>1. sent[m].first = IF m = 1 THEN 1 ELSE sent[m - 1].last + 1
        BY <2>2 DEF StreamInv, Gapless
      <3>2. m # 1 => m - 1 \in DOMAIN sent
        BY <1>3, <2>2
      <3> QED
        BY <1>7, <2>2, <3>1, <3>2
    <2> QED
      BY <1>10, <2>1, <2>2
  <1>13. LongEnough'
    <2> SUFFICES ASSUME NEW m \in DOMAIN sent'
                 PROVE  IF sent'[m].kind = "GB" THEN sent'[m].last > sent'[m].first + GbHead
                        ELSE sent'[m].last + 1 >= sent'[m].first + PrivHead
      BY DEF LongEnough
    <2>1. CASE m = N
      <3>1. sent'[m].kind = x.kind
        BY <1>4, <1>6, <2>1
      <3>2. GbHead \in Nat /\ PrivHead \in Nat
        BY TspStreamAssumption
      <3> QED
        BY <1>2, <1>3, <1>9, <2>1, <3>1, <3>2
    <2>2. CASE m \in DOMAIN sent
      BY <1>7, <2>2 DEF StreamInv, LongEnough
    <2> QED
      BY <1>10, <2>1, <2>2
  <1>14. InOrder'
    <2> SUFFICES ASSUME NEW j \in DOMAIN sent', NEW m \in DOMAIN sent', j < m
                 PROVE  sent'[j].last < sent'[m].first
      BY DEF InOrder
    <2>1. j \in DOMAIN sent
      BY <1>3, <1>6
    <2>2. CASE m = N
      <3>1. sent[j].last \in Nat /\ sent[j].last <= Total
        BY <2>1, SentFacts
      <3> QED
        BY <1>3, <1>7, <1>9, <2>1, <2>2, <3>1
    <2>3. CASE m \in DOMAIN sent
      BY <1>7, <2>1, <2>3 DEF StreamInv, InOrder
    <2> QED
      BY <1>10, <2>2, <2>3
  <1>15. Covered'
    <2> SUFFICES ASSUME NEW p \in 1 .. Total'
                 PROVE  \E m \in DOMAIN sent' : sent'[m].first <= p /\ p <= sent'[m].last
      BY DEF Covered
    <2>1. CASE p <= Total
      <3>1. p \in 1 .. Total
        BY <1>3, <1>9, <2>1
      <3>2. PICK m \in DOMAIN sent : sent[m].first <= p /\ p <= sent[m].last
        BY <3>1 DEF StreamInv, Covered
      <3> QED
        BY <1>7, <3>2
    <2>2. CASE ~(p <= Total)
      <3>1. N \in DOMAIN sent'
        BY <1>6, <1>8
      <3>2. sent'[N].first <= p /\ p <= sent'[N].last
        BY <1>3, <1>9, <2>2
      <3> QED
        BY <3>1, <3>2
    <2> QED
      BY <2>1, <2>2
  <1>16. StreamInv'
    BY <1>11, <1>12, <1>13, <1>14, <1>15 DEF StreamInv
  <1> QED
    BY <1>3, <1>6, <1>7, <1>9, <1>16

\* The TSP sends one more message, which nothing has seen yet.
LEMMA SendsKeeps ==
    ASSUME StInv, TspSends
    PROVE  StInv'
  <1> DEFINE N == Len(sent) + 1
  <1>1. StreamInv /\ StTypeOK
    BY DEF StInv
  <1>2. UNCHANGED <<pos, frame, loop, cut, excused, mixed>>
    BY DEF TspSends
  <1>3. /\ Total \in Nat /\ Len(sent) \in Nat /\ DOMAIN sent = 1 .. Len(sent)
        /\ DOMAIN sent' = 1 .. N
        /\ \A m \in DOMAIN sent : m \in DOMAIN sent' /\ sent'[m] = sent[m]
        /\ sent'[N].first = Total + 1 /\ sent'[N].last \in Nat /\ sent'[N].last > Total
        /\ Total' = sent'[N].last /\ StreamInv'
    BY <1>1, SendsFacts
  <1>4. \A m \in DOMAIN sent' : m = N \/ m \in DOMAIN sent
    BY <1>3
  <1>5. pos \in Nat /\ pos <= Total
    BY <1>1, <1>3 DEF StTypeOK
  <1> HIDE DEF N
  <1>6. StTypeOK'
    <2>1. pos \in 0 .. Total'
      BY <1>3, <1>5
    <2>2. \A m \in excused : m \in DOMAIN sent' /\ sent'[m].first <= pos
      BY <1>1, <1>3 DEF StTypeOK
    <2> QED
      BY <1>1, <1>2, <2>1, <2>2 DEF StTypeOK
  <1>7. \A m \in DOMAIN sent : /\ Receivable(m)' <=> Receivable(m)
                               /\ Due(m)' <=> Due(m)
    BY <1>2, <1>3 DEF Due, Receivable, Bytes
  <1>8. ASSUME NEW m \in DOMAIN sent, NEW p, InMsg(m, p)
        PROVE  InMsg(m, p)'
    BY <1>2, <1>3, <1>8 DEF InMsg, InStep, Receivable, Bytes
  <1>9. ASSUME ~mixed' PROVE LoopInv' /\ RestInv' /\ CutInv'
    <2>1. ~mixed /\ LoopInv /\ RestInv /\ CutInv
      BY <1>2, <1>9 DEF StInv
    <2>2. ASSUME loop.len > 0 PROVE CallInv'
      <3>1. loop.data \in Nat /\ loop.data > 0 /\ CallInv
        BY <1>1, <2>1, <2>2 DEF StTypeOK, Loops, LoopInv
      <3>2. BeginInside(loop.data, pos)' = BeginInside(loop.data, pos)
        <4>1. ~(sent'[N].first <= pos)
          BY <1>3, <1>5
        <4> QED
          BY <1>2, <1>3, <1>4, <4>1 DEF BeginInside
      <3>3. ASSUME NEW j \in BeginInside(loop.data, pos)
            PROVE  /\ j \in DOMAIN sent /\ j - 1 \in DOMAIN sent
                   /\ Dropped(loop.data, j)' <=> Dropped(loop.data, j)
        <4>1. j \in DOMAIN sent /\ loop.data < sent[j].first
          BY DEF BeginInside
        <4>2. j # 1
          <5>1. sent[1].first = 1 \/ 1 \notin DOMAIN sent
            BY <1>1 DEF StreamInv, Gapless
          <5> QED
            BY <3>1, <4>1, <5>1
        <4>3. j - 1 \in DOMAIN sent
          BY <1>3, <4>1, <4>2
        <4>4. \A i \in 1 .. j - 1 : i \in DOMAIN sent
          BY <1>3, <4>1
        <4> QED
          BY <1>2, <1>3, <1>7, <4>1, <4>3, <4>4 DEF Dropped
      <3> QED
        BY <1>2, <1>3, <3>1, <3>2, <3>3 DEF CallInv
    <2>3. ASSUME loop.len > 0 PROVE \E k \in DOMAIN sent' : LoopMsg(k)'
      <3>1. PICK k \in DOMAIN sent : LoopMsg(k)
        BY <2>1, <2>3 DEF LoopInv
      <3>2. Byte' = Byte
        BY <1>2 DEF Byte
      <3>3. InMsg(k, Byte)'
        BY <1>8, <3>1, <3>2 DEF LoopMsg
      <3>4. \A j \in 1 .. k - 1 : j \in DOMAIN sent
        BY <1>3
      <3>5. LoopMsg(k)'
        BY <1>2, <1>3, <1>7, <3>1, <3>3, <3>4 DEF LoopMsg
      <3> QED
        BY <1>3, <3>5
    <2>4. LoopInv'
      <3>1. Byte' = Byte
        BY <1>2 DEF Byte
      <3> QED
        BY <1>2, <2>1, <2>2, <2>3, <3>1 DEF LoopInv
    <2>5. RestInv'
      <3>1. ASSUME loop.len = 0, frame.type = "UNRCV",
                   NEW m \in DOMAIN sent', sent'[m].first <= pos, pos < sent'[m].last
            PROVE  ~Due(m)'
        <4>1. m # N
          BY <1>3, <1>5, <3>1
        <4>2. m \in DOMAIN sent
          BY <1>4, <4>1
        <4> QED
          BY <1>3, <1>7, <2>1, <3>1, <4>2 DEF RestInv
      <3>2. ASSUME loop.len = 0, frame.type # "UNRCV"
            PROVE  \E k \in DOMAIN sent' :
                     /\ InMsg(k, pos + 1)' /\ sent'[k].first <= pos
                     /\ sent'[k].kind = frame.type /\ k \notin excused
        <4>1. PICK k \in DOMAIN sent :
                /\ InMsg(k, pos + 1) /\ sent[k].first <= pos
                /\ sent[k].kind = frame.type /\ k \notin excused
          BY <2>1, <3>2 DEF RestInv
        <4>2. InMsg(k, pos + 1)'
          BY <1>2, <1>8, <4>1
        <4> QED
          BY <1>3, <4>1, <4>2
      <3> QED
        BY <1>2, <3>1, <3>2 DEF RestInv
    <2>6. CutInv'
      <3>1. ReadTo' = ReadTo
        BY <1>2 DEF ReadTo, Byte
      <3>2. ReadTo \in Nat /\ ReadTo <= pos + 1
        <4>1. CASE loop.len > 0
          <5>1. PICK k \in DOMAIN sent : LoopMsg(k)
            BY <2>1, <4>1 DEF LoopInv
          <5>2. Byte \in Nat /\ Byte <= pos /\ ReadTo = Byte
            BY <2>1, <4>1, <5>1, RoundFacts
          <5> QED
            BY <1>5, <5>2
        <4>2. CASE ~(loop.len > 0)
          BY <1>5, <4>2 DEF ReadTo
        <4> QED
          BY <4>1, <4>2
      <3>3. ~(sent'[N].last < ReadTo)
        BY <1>3, <1>5, <3>2
      <3> QED
        BY <1>2, <1>3, <1>4, <1>7, <2>1, <3>1, <3>3 DEF CutInv
    <2> QED
      BY <2>4, <2>5, <2>6
  <1> QED
    BY <1>3, <1>6, <1>9 DEF StInv

\* Nothing is sent at the start.
LEMMA StInitInv == StInit => StInv
  <1> SUFFICES ASSUME StInit PROVE StInv
    OBVIOUS
  <1>1. /\ sent = <<>> /\ pos = 0 /\ cut = <<>> /\ excused = {} /\ mixed = FALSE
        /\ frame.type = "UNRCV" /\ loop.len = 0 /\ DOMAIN sent = {} /\ DOMAIN cut = {}
    BY DEF StInit
  <1>2. Total = 0
    BY <1>1 DEF Total
  <1>3. StreamInv
    <2>1. SentType
      BY <1>1 DEF SentType
    <2>2. 1 .. Total = {}
      BY <1>2
    <2>3. Covered
      BY <2>2 DEF Covered
    <2> QED
      BY <1>1, <2>1, <2>3 DEF StreamInv, Gapless, LongEnough, InOrder
  <1>4. StTypeOK
    <2>1. frame \in Frames /\ loop \in Loops
      <3>1. <<>> \in Seq(Nat)
        OBVIOUS
      <3> QED
        BY <3>1 DEF StInit, Frames, Loops
    <2>2. pos \in 0 .. Total /\ cut \in Seq(Nat)
      BY <1>1, <1>2
    <2>3. excused \subseteq DOMAIN sent /\ (\A k \in excused : sent[k].first <= pos)
          /\ mixed \in BOOLEAN
      BY <1>1
    <2> QED
      BY <2>1, <2>2, <2>3 DEF StTypeOK
  <1>5. LoopInv /\ RestInv /\ CutInv
    BY <1>1 DEF LoopInv, RestInv, CutInv
  <1> QED
    BY <1>3, <1>4, <1>5 DEF StInv

\* A step of somebody else changes nothing.
LEMMA StStutter == StInv /\ UNCHANGED stvars => StInv'
  BY DEF stvars, StInv, StreamInv, SentType, Gapless, LongEnough, InOrder, Covered, Total,
         StTypeOK, LoopInv, RestInv, CutInv, CallInv, LoopMsg, InMsg, InStep, Due, Receivable,
         Bytes, Byte, ReadTo, BeginInside, Dropped

\* Every step keeps the invariant.
LEMMA StNextInv == StInv /\ [StNext]_stvars => StInv'
  BY SendsKeeps, ReceiveKeeps, GbKeeps, PrivKeeps, ReconnectKeeps, StStutter DEF StNext

\* Between two calls it says what the queues were given.
LEMMA StInvCuts == StInv => CutsAsSent
  <1> SUFFICES ASSUME StInv, ~mixed, loop.len = 0
               PROVE  /\ \A i, j \in DOMAIN cut : i < j => cut[i] < cut[j]
                      /\ {cut[i] : i \in DOMAIN cut} =
                           {k \in DOMAIN sent :
                              sent[k].last <= pos /\ Receivable(k) /\ k \notin excused}
    BY DEF CutsAsSent
  <1>1. StreamInv /\ StTypeOK /\ CutInv
    BY DEF StInv
  <1>2. ReadTo = pos + 1 /\ pos \in Nat
    BY <1>1, SentFacts DEF ReadTo, StTypeOK
  <1>3. \A k \in DOMAIN sent : sent[k].last < ReadTo <=> sent[k].last <= pos
    BY <1>1, <1>2, SentFacts
  <1> QED
    BY <1>1, <1>3 DEF CutInv, Due

\* The invariant of the stream, for every length of the messages and of the calls.
LEMMA StInvariant == StSpec => []StInv
  BY StInitInv, StNextInv, PTL DEF StSpec

\* However the stream is cut into receive calls, and whatever the lengths of the
\* messages and of the headers, gbMakeupMsg and privMakeupMsg put every message that
\* fits into the queue of its protocol, whole, once and in order, except exactly
\* the excused ones.
THEOREM StreamAlwaysCut == StSpec => []CutsAsSent
  BY StInvariant, StInvCuts, PTL
=============================================================================
