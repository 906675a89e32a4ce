------------------------------ MODULE TspStream ------------------------------
(***************************************************************************)
(* How the receiver cuts the stream of bytes from the TSP into messages    *)
(* (sockproxy.c).  Messages of the two protocols share the link: GB/T      *)
(* 32960 (a header that ends with the length of the data, the data, a      *)
(* check code) and the private protocol (a header that holds the length of *)
(* the whole).  A receive call returns any number of the next bytes.       *)
(*   The kind of a message is decided by the first two bytes of a receive  *)
(* call and kept until the message is complete; a message that begins in   *)
(* the middle of a call is read by the loop of the one before it, but when *)
(* the call ends the kind is forgotten.  Hence the messages the code does  *)
(* not promise to deliver (excused), and those it mixes up (mixed), where  *)
(* the model ends.  No byte inside a message is taken for the first of a   *)
(* message.                                                                *)
(*   A step is one round of a loop; nobody else uses what the loops use.   *)
(***************************************************************************)
EXTENDS Naturals, Sequences

CONSTANTS
    GbCtrl, GbHead,     \* bytes of a GB message up to the length, and with it: 22 and 24
    PrivHead,           \* bytes of a private message's header: 18
    SOCK_PROXY_RCVLEN,  \* the longest message: 1456
    MaxBytes,           \* bytes of a receive call, at most: 1456
    Sendable,           \* the messages the TSP may send, with their kind and length
    MaxSent             \* bound: how many it sends

\* A GB message has at least one byte of data: without, the loop waits for ever.
ASSUME TspStreamAssumption ==
    /\ GbCtrl \in 3..GbHead - 1 /\ GbHead \in Nat
    /\ SOCK_PROXY_RCVLEN \in Nat /\ PrivHead \in 3..SOCK_PROXY_RCVLEN
    /\ MaxBytes \in Nat \ {0} /\ MaxSent \in Nat
    /\ Sendable \subseteq [kind : {"GB", "PRIV"}, bytes : Nat]
    /\ \A x \in Sendable : IF x.kind = "GB" THEN x.bytes > GbHead + 1 ELSE x.bytes >= PrivHead

VARIABLES
    sent,           \* the messages of the TSP: kind, place of the first and of the last byte
    pos,            \* the bytes received so far
    frame,          \* sockSt: rcvType, rcvstep, datalen and rcvbuf
    loop,           \* the loop under way: which one, the place of data[0], rlen and len
    cut,            \* the messages put into the queues: their number, 0 for anything else
    excused, mixed  \* history

stvars == <<sent, pos, frame, loop, cut, excused, mixed>>

StInit ==
    /\ sent = <<>> /\ pos = 0
    /\ frame = [type |-> "UNRCV", step |-> "IDLE", datalen |-> 0, buf |-> <<>>]
    /\ loop = [type |-> "UNRCV", data |-> 1, rlen |-> 0, len |-> 0]
    /\ cut = <<>> /\ excused = {} /\ mixed = FALSE

-----------------------------------------------------------------------------
(* The stream.  A byte is its place in it.                                 *)

Total == IF sent = <<>> THEN 0 ELSE sent[Len(sent)].last

\* The TSP sends one more message.
TspSends ==
    /\ Len(sent) < MaxSent
    /\ \E x \in Sendable :
         sent' = Append(sent, [kind |-> x.kind, first |-> Total + 1, last |-> Total + x.bytes])
    /\ UNCHANGED <<pos, frame, loop, cut, excused, mixed>>

MsgAt(p) == CHOOSE k \in DOMAIN sent : sent[k].first <= p /\ p <= sent[k].last
Bytes(k) == sent[k].last - sent[k].first + 1

\* The length in the header of the message in the buffer.
LengthIn(buf) == Bytes(MsgAt(buf[Len(buf)]))

\* What WrSockproxyData_Queue is given: a message of that protocol, or something else.
Written(kind, buf) ==
    LET k == MsgAt(buf[1])
    IN  IF /\ sent[k].kind = kind /\ Len(buf) = Bytes(k)
           /\ \A i \in DOMAIN buf : buf[i] = sent[k].first + i - 1
        THEN k ELSE 0

-----------------------------------------------------------------------------
(* The rounds of the loops, while (len--).                                 *)

\* data[rlen]
Byte == loop.data + loop.rlen

\* A round that takes n bytes.
Takes(n) == loop' = [loop EXCEPT !.rlen = @ + n, !.len = @ - 1]

\* No byte is taken in IDLE, and two in SIGN.
Idle ==
    /\ frame.step = "IDLE"
    /\ frame' = [frame EXCEPT !.step = "SIGN", !.buf = <<>>]
    /\ Takes(0) /\ UNCHANGED cut

Sign ==
    /\ frame.step = "SIGN"
    /\ frame' = [frame EXCEPT !.step = "CTRL", !.buf = Append(Append(@, Byte), Byte + 1)]
    /\ Takes(2) /\ UNCHANGED cut

Buf == Append(frame.buf, Byte)

Fills(step, n) ==
    /\ frame' = [frame EXCEPT !.step = step, !.datalen = n, !.buf = Buf]
    /\ Takes(1) /\ UNCHANGED cut

Finishes(kind, n) ==
    /\ frame' = [type |-> "UNRCV", step |-> "IDLE", datalen |-> n, buf |-> Buf]
    /\ cut' = Append(cut, Written(kind, Buf))
    /\ Takes(1)

\* A message that does not fit: the rest of the call is dropped with it.
Refuses(n) ==
    /\ frame' = [type |-> "UNRCV", step |-> "IDLE", datalen |-> n, buf |-> Buf]
    /\ loop' = [loop EXCEPT !.rlen = @ + 1, !.len = 0]
    /\ UNCHANGED cut

GbDataLen ==
    LET n == LengthIn(Buf) - GbHead - 1
    IN  IF Len(Buf) # GbHead THEN Fills("DATALEN", frame.datalen)
        ELSE IF n + GbHead < SOCK_PROXY_RCVLEN THEN Fills("DATA", n)
        ELSE Refuses(n)

\* Mutated form: the check code is taken for the beginning of the next message.
GbNoCheckCode ==
    IF Len(Buf) = GbHead + frame.datalen THEN Finishes("GB", frame.datalen)
    ELSE Fills("DATA", frame.datalen)

GbDataRound ==
    Fills(IF Len(Buf) = GbHead + frame.datalen THEN "CHECKCODE" ELSE "DATA", frame.datalen)

gbMakeupMsg ==
    /\ loop.len > 0 /\ loop.type = "GB" /\ ~mixed
    /\ \/ Idle
       \/ Sign
       \/ /\ frame.step = "CTRL"
          /\ Fills(IF Len(Buf) = GbCtrl THEN "DATALEN" ELSE "CTRL", frame.datalen)
       \/ frame.step = "DATALEN" /\ GbDataLen
       \/ frame.step = "DATA" /\ GbDataRound
       \/ frame.step = "CHECKCODE" /\ Finishes("GB", frame.datalen)
    /\ UNCHANGED <<sent, pos, excused, mixed>>

PrivCtrl ==
    LET n == LengthIn(Buf)
    IN  IF Len(Buf) # PrivHead THEN Fills("CTRL", frame.datalen)
        ELSE IF n = PrivHead THEN Finishes("PRIV", n)
        ELSE IF n > SOCK_PROXY_RCVLEN THEN Refuses(n)
        ELSE Fills("DATA", n)

privMakeupMsg ==
    /\ loop.len > 0 /\ loop.type = "PRIV" /\ ~mixed
    /\ \/ Idle
       \/ Sign
       \/ frame.step = "CTRL" /\ PrivCtrl
       \/ /\ frame.step = "DATA"
          /\ IF Len(Buf) = frame.datalen THEN Finishes("PRIV", frame.datalen)
             ELSE Fills("DATA", frame.datalen)
    /\ UNCHANGED <<sent, pos, excused, mixed>>

-----------------------------------------------------------------------------
(* History: what a call of the bytes p to q does to the messages.          *)

Receivable(k) == IF sent[k].kind = "GB" THEN Bytes(k) - 1 < SOCK_PROXY_RCVLEN
                 ELSE Bytes(k) <= SOCK_PROXY_RCVLEN

BeginInside(p, q) == {k \in DOMAIN sent : p < sent[k].first /\ sent[k].first <= q}

\* The rest of the call is dropped from a message before k on.
Dropped(p, k) ==
    \E j \in 1..k - 1 : sent[j].last >= p /\ (~Receivable(j) \/ j \in excused)

NewlyExcused(p, q) ==
    {k \in BeginInside(p, q) : sent[k].last > q \/ Dropped(p, k)}
        \cup {k \in DOMAIN sent : sent[k].first = p /\ q = p}

Mixes(p, q) == \E k \in BeginInside(p, q) : sent[k].kind # sent[k - 1].kind /\ ~Dropped(p, k)

-----------------------------------------------------------------------------
\* The kind by the first two bytes of a call; unknown bytes are dropped.
KindOf(p, q) == IF q > p /\ sent[MsgAt(p)].first = p THEN sent[MsgAt(p)].kind ELSE "UNRCV"

\* sockproxy_do_receive, after the receive call, up to the loop it enters.
Receive ==
    \E q \in pos + 1..pos + MaxBytes :
        LET type == IF frame.type = "UNRCV" THEN KindOf(pos + 1, q) ELSE frame.type
        IN  /\ ~mixed /\ loop.len = 0 /\ q <= Total
            /\ pos' = q
            /\ frame' = IF frame.type = "UNRCV"
                      THEN [frame EXCEPT !.type = type, !.step = "IDLE", !.buf = <<>>] ELSE frame
            /\ loop' = [type |-> type, data |-> pos + 1, rlen |-> 0,
                        len |-> IF type = "UNRCV" THEN 0 ELSE q - pos]
            /\ excused' = excused \cup NewlyExcused(pos + 1, q)
            /\ mixed' = Mixes(pos + 1, q)
            /\ UNCHANGED <<sent, cut>>

\* The link is lost and opened again: the rest of a message never comes, and what
\* was received of it stays in the buffer.
Reconnect ==
    /\ ~mixed /\ loop.len = 0
    /\ \E k \in DOMAIN sent :
         /\ sent[k].first <= pos /\ pos < sent[k].last
         /\ pos' = sent[k].last /\ excused' = excused \cup {k}
    /\ mixed' = (frame.type # "UNRCV")
    /\ UNCHANGED <<sent, frame, loop, cut>>

StNext == TspSends \/ Receive \/ gbMakeupMsg \/ privMakeupMsg \/ Reconnect
StSpec == StInit /\ [][StNext]_stvars
-----------------------------------------------------------------------------
\* However the bytes arrive, the queues have been given, when a call is dealt with,
\* every message of the stream that fits, whole, in order and in the queue of its
\* protocol, except exactly those that a receive call began with their first byte
\* only or ended inside of, having brought another before; and what follows one in
\* the same call.
CutsAsSent ==
    ~mixed /\ loop.len = 0 =>
        /\ \A i, j \in DOMAIN cut : i < j => cut[i] < cut[j]
        /\ {cut[i] : i \in DOMAIN cut} =
             {k \in DOMAIN sent : sent[k].last <= pos /\ Receivable(k) /\ k \notin excused}
=============================================================================
