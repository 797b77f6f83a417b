---------------------------- MODULE UecTransport ----------------------------
(***************************************************************************)
(* One UEC flow under sender-based congestion control (NSCC): UecSrc on a  *)
(* NIC with one port, UecSink, and a fabric that reorders, drops and trims *)
(* packets.  Source: sim/uec.cpp.                                          *)
(*                                                                         *)
(* Sizes are the two the bookkeeping tells apart: a full packet and a bare *)
(* header.  Sequence numbers in src.ctrl were consumed by an RTS, so their *)
(* record is one header long, also when the RTS is retransmitted as data.  *)
(* Time is the order of sends: a record's send_time is the value of a      *)
(* counter, and the timer remembers the record it was started for.         *)
(***************************************************************************)
EXTENDS Integers, FiniteSets, FiniteSetsExt

CONSTANTS
    NPkts,          \* data packets of the flow
    PktSize,        \* _mtu
    HdrSize,        \* _hdr_size
    CwndValues,     \* what the NSCC window update may leave in _cwnd
    SackWidth,      \* width of the selective-ack bitmap (64 in the code)
    SackThreshold,  \* _bytes_unacked_threshold of the sink
    MaxRts,         \* bound: RTS packets
    MaxLosses,      \* bound: packets the fabric drops
    MaxTrims,       \* bound: packets the fabric trims to their header
    MaxSpurious     \* bound: timer expiries while an answer is on its way

ASSUME TransportAssumption ==
    /\ NPkts \in Nat \ {0}
    /\ HdrSize \in Nat \ {0}
    /\ PktSize \in Nat /\ PktSize > HdrSize
    /\ CwndValues \subseteq Nat /\ CwndValues # {}
    /\ \A w \in CwndValues : w >= PktSize
    /\ SackWidth \in Nat \ {0}
    /\ SackThreshold \in Nat
    /\ MaxRts \in Nat \ {0}
    /\ MaxLosses \in Nat /\ MaxTrims \in Nat /\ MaxSpurious \in Nat

SeqNo == 0 .. (NPkts + MaxRts - 1)

VARIABLES
    src,     \* the sender, and what its NIC knows of it
    sink,    \* the receiver
    net,     \* packets in the fabric
    faults   \* how many faults of each kind have happened

vars == <<src, sink, net, faults>>

-----------------------------------------------------------------------------
(* The sender's bookkeeping.  Every operator maps a sender record to the   *)
(* record the C++ method of that name leaves behind; packets it emits are  *)
(* collected in the field out.                                             *)

\* Mutant: an RTS is recorded with the size of a full packet.
SizeIgnoresRts(s, q) == PktSize

Size(s, q) == IF q \in s.ctrl THEN HdrSize ELSE PktSize

\* Bytes of the records of a set of sequence numbers.
Bytes(s, S) == PktSize * Cardinality(S \ s.ctrl) + HdrSize * Cardinality(S \cap s.ctrl)

\* _send_times.begin()->first; 0 stands for "no timer".
Earliest(times) == IF times = {} THEN 0 ELSE Min({p[1] : p \in times})

\* Mutant: every send restarts the timer.
StartRTOLatest(s, t) == [s EXCEPT !.rto = t]

StartRTO(s, t) ==
    [s EXCEPT !.rto = IF @ = 0 \/ t < @ THEN t ELSE @]

\* Mutant: the timer of an answered record is cancelled and not set again.
RecalculateRTOCancels(s) == [s EXCEPT !.rto = 0]

RecalculateRTO(s) == [s EXCEPT !.rto = Earliest(s.sendTimes)]

CancelRTO(s) == [s EXCEPT !.rto = 0]

CreateSendRecord(s, q) ==
    [s EXCEPT !.clock = @ + 1,
              !.tx = [p \in DOMAIN s.tx \cup {q} |-> IF p = q THEN s.clock + 1 ELSE s.tx[p]],
              !.sendTimes = @ \cup {<<s.clock + 1, q>>}]

\* Drop the records of A from _tx_bitmap and _send_times.
EraseRecords(s, A) ==
    [s EXCEPT !.tx = [p \in DOMAIN s.tx \ A |-> s.tx[p]],
              !.sendTimes = @ \ {<<s.tx[q], q>> : q \in A \cap DOMAIN s.tx}]

\* DATA_PULL for a first transmission, DATA_RTX for a repeated one; ar asks for an ack.
Data(s, q, rtx, ar) ==
    [type |-> "data", seq |-> q, size |-> Size(s, q), rtx |-> rtx, ar |-> ar]

SendNewPacket(s) ==
    LET q == s.highestSent
        a == [s EXCEPT !.backlog = @ - 1, !.inFlight = @ + PktSize]
        ar == a.backlog = 0 \/ a.inFlight + PktSize >= a.cwnd
        b == CreateSendRecord(a, q)
        c == [b EXCEPT !.highestSent = q + 1, !.out = @ \cup {Data(s, q, FALSE, ar)}]
    IN  StartRTO(c, c.clock)

SendRtxPacket(s) ==
    LET q == Min(s.rtxQueue)
        a == [s EXCEPT !.rtxQueue = @ \ {q},
                       !.rtxBacklog = @ - Size(s, q),
                       !.inFlight = @ + Size(s, q),
                       !.out = @ \cup {Data(s, q, TRUE, TRUE)}]
        b == CreateSendRecord(a, q)
    IN  StartRTO(b, b.clock)

SendPacket(s) == IF s.rtxQueue = {} THEN SendNewPacket(s) ELSE SendRtxPacket(s)

NextPacketSize(s) == IF s.rtxQueue = {} THEN PktSize ELSE Size(s, Min(s.rtxQueue))

\* Mutant: only the window is looked at.
IsSendPermittedWindow(s) == s.cwnd >= s.inFlight + NextPacketSize(s)

\* isSendPermitted, and the same conditions in sendIfPermitted and timeToSend.
IsSendPermitted(s) ==
    /\ s.rtxQueue # {} \/ s.backlog > 0
    /\ s.cwnd >= s.inFlight + NextPacketSize(s)

\* requestSending when every port is busy: the NIC queues the source.
Register(s) == [s EXCEPT !.registered = @ + 1]

\* startSending: the source leaves the NIC's queue, if it was there, for the port.
StartSending(s) ==
    [s EXCEPT !.portBusy = TRUE,
              !.registered = IF s.registered > 0 THEN s.registered - 1 ELSE 0]

RequestAgain(s) == IF IsSendPermitted(s) THEN [Register(s) EXCEPT !.blocked = TRUE] ELSE s

\* With one port a send leaves the port busy: the recursive call can only register.
SendIfPermitted(s) ==
    IF ~IsSendPermitted(s) \/ s.blocked THEN s
    ELSE IF s.portBusy THEN RequestAgain(s)
    ELSE RequestAgain(StartSending(SendPacket(s)))

QueueForRtx(s, q) ==
    SendIfPermitted([s EXCEPT !.rtxQueue = @ \cup {q},
                              !.rtxBacklog = @ + Size(s, q)])

\* Mutant: the source does not note that the NIC has called it back.
TimeToSendStaysBlocked(s) ==
    IF IsSendPermitted(s)
    THEN RequestAgain(StartSending(SendPacket(s)))
    ELSE [s EXCEPT !.registered = 0]

\* The NIC's turn for the first queued source.  A source that cannot send
\* leaves the queue and the next one is asked; asked again, it answers the same.
TimeToSend(s) ==
    LET a == [s EXCEPT !.blocked = FALSE]
    IN  IF IsSendPermitted(a)
        THEN RequestAgain(StartSending(SendPacket(a)))
        ELSE [a EXCEPT !.registered = 0]

-----------------------------------------------------------------------------
(* The sender's handlers.                                                  *)

\* Packets the receiver has: records are erased; queued retransmissions are
\* dropped and their bytes counted in flight again, since the ack that brings
\* them has subtracted them once more.
Settle(s, fromTx, fromRtx) ==
    LET a == [s EXCEPT !.rtxQueue = @ \ fromRtx,
                       !.rtxBacklog = @ - Bytes(s, fromRtx),
                       !.inFlight = @ + Bytes(s, fromRtx)]
        b == EraseRecords(a, fromTx)
    IN  IF \E q \in fromTx : s.tx[q] = s.rto THEN RecalculateRTO(b) ELSE b

HandleCumulativeAck(s, cum) ==
    Settle(s, {q \in DOMAIN s.tx : q < cum}, {q \in s.rtxQueue : q < cum})

\* handleAckno for every set bit of the bitmap.
HandleSacks(s, sacks) ==
    Settle(s, sacks \cap DOMAIN s.tx, (sacks \cap s.rtxQueue) \ DOMAIN s.tx)

\* Mutant: sequence numbers spent on RTS count as data.
CheckFinishedCountsRts(s, cum) ==
    IF ~s.done /\ cum >= NPkts THEN [CancelRTO(s) EXCEPT !.done = TRUE] ELSE s

CheckFinished(s, cum) ==
    IF ~s.done /\ cum - Cardinality(s.ctrl) >= NPkts
    THEN [CancelRTO(s) EXCEPT !.done = TRUE]
    ELSE s

\* w is the window NSCC chooses.
ProcessAck(s, m, w) ==
    LET newly == IF m.recvd > s.recvd THEN m.recvd - s.recvd ELSE 0
        a == [s EXCEPT !.recvd = @ + newly, !.inFlight = @ - newly]
        b == HandleSacks(HandleCumulativeAck(a, m.cum), m.sacks)
        c == CheckFinished([b EXCEPT !.cwnd = w], m.cum)
    IN  IF c.done THEN c ELSE SendIfPermitted(c)

ProcessNack(s, q, w) ==
    LET sent == s.tx[q]
        a == EraseRecords([s EXCEPT !.cwnd = w, !.inFlight = @ - Size(s, q)], {q})
        b == QueueForRtx(a, q)
        c == IF sent = b.rto THEN RecalculateRTO(b) ELSE b
    IN  IF q \in DOMAIN s.tx THEN SendIfPermitted(c) ELSE s

SendRTS(s) ==
    LET q == s.highestSent
        a == CreateSendRecord(s, q)
        b == [a EXCEPT !.ctrl = @ \cup {q}, !.highestSent = q + 1,
                       !.out = @ \cup {[type |-> "rts", seq |-> q]}]
    IN  StartRTO(b, b.clock)

\* gate: more than a network RTT has passed since the last RTS.
RtxTimerExpired(s, gate) ==
    LET q == (CHOOSE p \in s.sendTimes : p[1] = Earliest(s.sendTimes))[2]
        a == RecalculateRTO(EraseRecords(CancelRTO(s), {q}))
        shrunk == s.cwnd - Size(s, q)
        b == [a EXCEPT !.inFlight = @ - Size(s, q),
                       !.cwnd = IF shrunk > PktSize THEN shrunk ELSE PktSize]
        c == QueueForRtx(b, q)
    IN  IF b.rtxQueue # {} THEN c
        ELSE IF c.cwnd < Size(s, q) + c.inFlight THEN IF gate THEN SendRTS(c) ELSE c
        ELSE IF c.portBusy THEN Register(c)
        ELSE StartSending(SendRtxPacket(c))

-----------------------------------------------------------------------------
(* The receiver.                                                           *)

Have(k, q) == q < k.expected \/ q \in k.ooo

\* Mutant: an out-of-order packet is counted but not recorded.
AcceptForgetsOoo(k, q) == IF q # k.expected THEN k ELSE [k EXCEPT !.expected = q + 1]

\* Record q; the expected sequence number moves past everything contiguous.
Accept(k, q) ==
    IF q # k.expected THEN [k EXCEPT !.ooo = @ \cup {q}]
    ELSE LET e == Min({p \in (q + 1) .. (q + 1 + Cardinality(k.ooo)) : p \notin k.ooo})
         IN  [k EXCEPT !.expected = e, !.ooo = {p \in k.ooo : p > e}]

SackBitmapBase(k, q) ==
    IF q - (SackWidth - 1) > k.expected + 1 THEN q - (SackWidth - 1) ELSE k.expected + 1

\* Mutant: the bitmap starts one past the reference it is sent with.
SackShifted(k, ref) ==
    [type |-> "ack", cum |-> k.expected, recvd |-> k.recvd,
     sacks |-> {q - 1 : q \in {p \in k.ooo : p >= ref /\ p < ref + SackWidth}}]

Sack(k, ref) ==
    [type |-> "ack", cum |-> k.expected, recvd |-> k.recvd,
     sacks |-> {q \in k.ooo : q >= ref /\ q < ref + SackWidth}]

Nack(q) == [type |-> "nack", seq |-> q]

\* The sink's state and its reply after a data packet with its payload.
ProcessData(k, m, ecn) ==
    LET a == Accept([k EXCEPT !.accepted = @ + m.size,
                              !.recvd = @ + m.size,
                              !.payload = @ + m.size - HdrSize,
                              !.ackRequest = @ \/ m.ar], m.seq)
        drained == m.seq = k.expected /\ a.ooo = {} /\ a.ackRequest
        b == [a EXCEPT !.ackRequest = @ /\ ~drained]
        ackNow == ecn \/ b.accepted >= SackThreshold \/ k.payload = 0 \/ m.ar \/ drained
        ref == IF ecn \/ m.ar THEN m.seq ELSE SackBitmapBase(b, m.seq)
    IN  IF Have(k, m.seq)
        THEN [sink |-> [k EXCEPT !.accepted = 0],
              reply |-> {Sack(k, IF ecn THEN m.seq ELSE SackBitmapBase(k, m.seq))}]
        ELSE IF ackNow
        THEN [sink |-> [b EXCEPT !.accepted = 0], reply |-> {Sack(b, ref)}]
        ELSE [sink |-> b, reply |-> {}]

ProcessTrimmed(k, q) ==
    [sink |-> k,
     reply |-> {IF Have(k, q) THEN Sack(k, SackBitmapBase(k, q)) ELSE Nack(q)}]

\* An RTS takes a sequence number like data but counts no bytes.
ProcessRts(k, q) ==
    LET a == Accept(k, q)
        drained == q = k.expected /\ a.ooo = {}
        b == [a EXCEPT !.ackRequest = @ /\ ~drained]
    IN  IF Have(k, q)
        THEN [sink |-> [k EXCEPT !.accepted = 0], reply |-> {Sack(k, SackBitmapBase(k, q))}]
        ELSE [sink |-> b, reply |-> {Sack(b, q)}]

-----------------------------------------------------------------------------
(* Initial state and actions: one event of the simulator each.             *)

SrcInit(w) ==
    [started |-> FALSE, highestSent |-> 0, backlog |-> NPkts, tx |-> <<>>,
     sendTimes |-> {}, rtxQueue |-> {}, rtxBacklog |-> 0, ctrl |-> {},
     inFlight |-> 0, recvd |-> 0, cwnd |-> w, rto |-> 0, clock |-> 0,
     blocked |-> FALSE, done |-> FALSE, portBusy |-> FALSE, registered |-> 0,
     out |-> {}]

Init ==
    /\ \E w \in CwndValues : src = SrcInit(w)
    /\ sink = [expected |-> 0, ooo |-> {}, recvd |-> 0, payload |-> 0,
               accepted |-> 0, ackRequest |-> FALSE]
    /\ net = {}
    /\ faults = [losses |-> 0, trims |-> 0, spurious |-> 0]

\* The handler left sender record s; its packets go to the fabric, which
\* no longer holds the packet m the handler consumed.
SrcDone(s, consumed) ==
    /\ src' = [s EXCEPT !.out = {}]
    /\ net' = (net \ consumed) \cup s.out

StartConnection ==
    /\ ~src.started
    /\ SrcDone(SendIfPermitted([src EXCEPT !.started = TRUE]), {})
    /\ UNCHANGED <<sink, faults>>

\* The port finishes a packet and the NIC offers it to the queued source.
PortFree ==
    /\ src.portBusy
    /\ LET s == [src EXCEPT !.portBusy = FALSE]
       IN  SrcDone(IF s.registered > 0 THEN TimeToSend(s) ELSE s, {})
    /\ UNCHANGED <<sink, faults>>

\* Another source, or a control packet, takes the idle port.
OtherTraffic ==
    /\ ~src.portBusy
    /\ src' = [src EXCEPT !.portBusy = TRUE]
    /\ UNCHANGED <<sink, net, faults>>

ReceiveAck(m, w) ==
    /\ m.type = "ack"
    /\ SrcDone(ProcessAck(src, m, w), {m})
    /\ UNCHANGED <<sink, faults>>

ReceiveNack(m, w) ==
    /\ m.type = "nack"
    /\ SrcDone(ProcessNack(src, m.seq, w), {m})
    /\ UNCHANGED <<sink, faults>>

\* Something on its way could still answer for sequence number q.
Answerable(q) ==
    \E m \in net :
        IF m.type = "ack" THEN m.cum > q \/ q \in m.sacks ELSE m.seq = q

Late == \E p \in src.sendTimes : p[1] = src.rto /\ Answerable(p[2])

CanExpire == src.rto # 0 /\ (Late => faults.spurious < MaxSpurious)

TimerExpires(gate) ==
    /\ CanExpire
    /\ gate => Cardinality(src.ctrl) < MaxRts
    /\ ~gate => src.ctrl # {}
    /\ SrcDone(RtxTimerExpired(src, gate), {})
    /\ faults' = [faults EXCEPT !.spurious = IF Late THEN @ + 1 ELSE @]
    /\ UNCHANGED sink

SinkDone(r, m) ==
    /\ sink' = r.sink
    /\ net' = (net \ {m}) \cup r.reply
    /\ UNCHANGED <<src, faults>>

ReceiveData(m, ecn) == m.type = "data" /\ SinkDone(ProcessData(sink, m, ecn), m)

ReceiveTrimmed(m) == m.type = "trimmed" /\ SinkDone(ProcessTrimmed(sink, m.seq), m)

ReceiveRts(m) == m.type = "rts" /\ SinkDone(ProcessRts(sink, m.seq), m)

Lose(m) ==
    /\ faults.losses < MaxLosses
    /\ faults' = [faults EXCEPT !.losses = @ + 1]
    /\ net' = net \ {m}
    /\ UNCHANGED <<src, sink>>

Trim(m) ==
    /\ m.type = "data" /\ faults.trims < MaxTrims
    /\ faults' = [faults EXCEPT !.trims = @ + 1]
    /\ net' = (net \ {m}) \cup {[type |-> "trimmed", seq |-> m.seq]}
    /\ UNCHANGED <<src, sink>>

Deliver(m) ==
    \/ \E w \in CwndValues : ReceiveAck(m, w) \/ ReceiveNack(m, w)
    \/ \E ecn \in BOOLEAN : ReceiveData(m, ecn)
    \/ ReceiveTrimmed(m)
    \/ ReceiveRts(m)

Expire == \E gate \in BOOLEAN : TimerExpires(gate)

Next ==
    \/ StartConnection
    \/ PortFree
    \/ OtherTraffic
    \/ Expire
    \/ \E m \in net : Deliver(m) \/ Lose(m) \/ Trim(m)

Spec == Init /\ [][Next]_vars

\* Every event of the simulator is eventually processed: a packet in the fabric
\* arrives, a running timer fires, a busy port finishes, the flow starts.  Each
\* conjunct is weak fairness of an action, written with the condition that
\* enables it.
FairSpec ==
    /\ Spec
    /\ []<>src.started \/ []<><<StartConnection>>_vars
    /\ []<>~src.portBusy \/ []<><<PortFree>>_vars
    /\ []<>~CanExpire \/ []<><<Expire>>_vars
    /\ []<>(net = {}) \/ []<><<\E m \in net : Deliver(m)>>_vars

-----------------------------------------------------------------------------
(* Properties.                                                             *)

Sent == 0 .. (src.highestSent - 1)
Outstanding == DOMAIN src.tx
Settled == Sent \ (Outstanding \cup src.rtxQueue)

Message ==
         [type : {"data"}, seq : SeqNo, size : {PktSize, HdrSize}, rtx : BOOLEAN, ar : BOOLEAN]
    \cup [type : {"trimmed", "rts", "nack"}, seq : SeqNo]
    \cup [type : {"ack"}, cum : 0 .. (NPkts + MaxRts), recvd : Nat, sacks : SUBSET SeqNo]

\* Types of the state of uec.h's UecSrc and UecSink and of the packets.
TypeOK ==
    /\ src.started \in BOOLEAN /\ src.blocked \in BOOLEAN
    /\ src.done \in BOOLEAN /\ src.portBusy \in BOOLEAN
    /\ src.highestSent \in 0 .. (NPkts + MaxRts)
    /\ src.backlog \in 0 .. NPkts
    /\ Outstanding \subseteq SeqNo /\ src.rtxQueue \subseteq SeqNo /\ src.ctrl \subseteq SeqNo
    /\ \A q \in Outstanding : src.tx[q] \in 1 .. src.clock
    /\ src.sendTimes \subseteq (1 .. src.clock) \X SeqNo
    /\ src.rtxBacklog \in Int /\ src.recvd \in Nat /\ src.cwnd \in Nat
    /\ src.inFlight \in Int /\ src.clock \in Nat /\ src.registered \in Nat
    /\ src.rto \in 0 .. src.clock /\ src.out = {}
    /\ sink.expected \in 0 .. (NPkts + MaxRts) /\ sink.ooo \subseteq SeqNo
    /\ sink.recvd \in Nat /\ sink.payload \in Nat /\ sink.accepted \in Nat
    /\ sink.ackRequest \in BOOLEAN
    /\ net \subseteq Message

\* uec.cpp:668: a sequence number is in _tx_bitmap or in _rtx_queue or in
\* neither, never in both: or a retransmission would break createSendRecord's
\* assertion, or an ack would settle it twice.
NeverInBoth == Outstanding \cap src.rtxQueue = {}

\* What the sender has forgotten the receiver has: an ack, selective ack or
\* finish never settles a packet that still has to be delivered.
NothingForgotten == \A q \in Settled : Have(sink, q)

\* The timer runs exactly while something is outstanding, and for the oldest
\* record: a younger one would postpone the retransmission, a dropped one
\* would leave rtxTimerExpired without a record to find.
TimerTracksOldest ==
    /\ src.sendTimes = {<<src.tx[q], q>> : q \in Outstanding}
    /\ src.rto = Earliest(src.sendTimes)

\* _in_flight and the receiver's byte count stay consistent through losses,
\* duplicates and nacks: together they are the bytes sent of everything not
\* waiting for retransmission; an RTS is only ever subtracted (when its timer
\* expires) and added back.
InFlightExact ==
    src.inFlight + src.recvd =
        PktSize * Cardinality(Sent \ (src.ctrl \cup src.rtxQueue))
        - HdrSize * Cardinality(src.ctrl \cap src.rtxQueue)

\* uec.cpp:1686: a flow that has started and is not finished is either waiting
\* for its timer or waiting for the NIC; otherwise nothing would ever wake it.
NeverStuck == src.started /\ ~src.done => src.rto # 0 \/ src.registered > 0

\* The flow finishes only when the receiver has everything, and leaves nothing
\* behind: no record, no queued retransmission, no timer.
FinishIsSound ==
    src.done =>
        /\ src.backlog = 0 /\ Outstanding = {} /\ src.rtxQueue = {} /\ src.rto = 0
        /\ sink.expected = src.highestSent

\* Bytes are counted once per packet, however often it arrives.
CountedOnce ==
    sink.recvd <= Bytes(src, {q \in Sent : Have(sink, q)})

\* The cumulative ack point never goes back and the receiver never loses an
\* out-of-order packet it has recorded.
ReceiverNeverForgets ==
    [][\A q \in SeqNo : Have(sink, q) => Have(sink', q)]_vars

\* Every flow finishes, whatever the fabric drops, trims or delays, once the
\* faults stop.
EventuallyDone == <>src.done

\* The flow does what a reliable flow promises (ReliableFlow): sequence numbers
\* are handed out once and in order, none is delivered twice, none is sent or
\* invented after the sender has declared the flow finished, and it does so
\* once, when the receiver has everything.
Flow == INSTANCE ReliableFlow WITH
    Total <- NPkts, offered <- src.highestSent, control <- src.ctrl,
    delivered <- {q \in Sent : Have(sink, q)}, completed <- src.done

IsReliableFlow == Flow!Spec

=============================================================================
