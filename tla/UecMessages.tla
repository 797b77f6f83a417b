----------------------------- MODULE UecMessages -----------------------------
(***************************************************************************)
(* A reusable connection: UecPdcSes cuts messages into packets for one     *)
(* UecSrc and learns from the sink and from acknowledgements how far each  *)
(* message is.  The connection itself is UecTransport; here its sender     *)
(* gets its backlog from the messages and asks the tracker whether it is   *)
(* finished.  Source: sim/uec_pdcses.cpp, and sim/uec.cpp where            *)
(* _msg_tracker has a value.                                               *)
(*                                                                         *)
(* Messages are numbered as enque numbers them; a message becomes eligible *)
(* at its time, or when another message reaches a status (a trigger).      *)
(* Bytes are counted in packets.  A failed assertion sets pdc.fault, and   *)
(* the program stops.                                                      *)
(***************************************************************************)
EXTENDS Integers, Sequences, FiniteSets, Functions

CONSTANTS
    MsgPkts,        \* packets of each message: a sequence
    Batch,          \* when each message is enqueued: batch 1 first, then 2, ...
    Slot,           \* when each scheduled message is due: earlier slots first
    After,          \* [triggered message -> [msg, status] that triggers it]
    PktSize, HdrSize, CwndValues, SackWidth, SackThreshold,
    MaxRts, MaxLosses, MaxTrims, MaxSpurious    \* as in UecTransport

Msgs == DOMAIN MsgPkts
Statuses == {"init", "sentFirst", "sentLast", "recvdLast", "finished"}

ASSUME MessagesAssumption ==
    /\ MsgPkts \in Seq(Nat \ {0})
    /\ Batch \in [Msgs -> Nat \ {0}] /\ Slot \in [Msgs -> Nat]
    /\ DOMAIN After \subseteq Msgs
    /\ After \in [DOMAIN After -> [msg : Msgs, status : Statuses]]
    /\ \A m \in DOMAIN After : After[m].msg # m /\ Batch[m] = Batch[After[m].msg]
    /\ MaxRts \in Nat \ {0}

VARIABLES
    src, sink, net, faults,     \* the connection: see UecTransport
    pdc      \* the messages: UecPdcSes and its UecMsgs, and triggers that have fired

vars == <<src, sink, net, faults, pdc>>

\* The packets of the messages ms.
PktsOf(ms) == SumFunctionOnSet(MsgPkts, ms)

T == INSTANCE UecTransport WITH NPkts <- PktsOf(Msgs)

\* The messages of S, by their numbers.
Ascending(S) ==
    LET upTo[n \in 0 .. Len(MsgPkts)] ==
            IF n = 0 THEN <<>>
            ELSE IF n \in S THEN Append(upTo[n - 1], n) ELSE upTo[n - 1]
    IN  upTo[Len(MsgPkts)]

\* A step for every sequence number of S, in ascending order.
NSeqs == PktsOf(Msgs) + MaxRts

InOrder(step(_, _), p, S) ==
    LET upTo[n \in 0 .. NSeqs] ==
            IF n = 0 THEN p
            ELSE IF n - 1 \in S THEN step(upTo[n - 1], n - 1) ELSE upTo[n - 1]
    IN  upTo[NSeqs]

Fails(p, assertion, what) == [p EXCEPT !.fault = IF @ = "none" /\ assertion THEN what ELSE @]

-----------------------------------------------------------------------------
(* A message.                                                              *)

\* set_status: the triggers set for this status put their targets on the event list.
SetStatus(p, m, status) ==
    [p EXCEPT !.msg[m].status = status,
              !.fired = @ \o Ascending({t \in DOMAIN After : After[t] = [msg |-> m, status |-> status]})]

\* getNextSegment
Segment(p, m, q) ==
    LET a == [p EXCEPT !.msg[m].unsent = @ - 1,
                       !.msg[m].notrecvd = @ \cup {q},
                       !.msg[m].status = IF @ = "init" THEN "sentFirst" ELSE @]
    IN  IF a.msg[m].unsent = 0 THEN SetStatus(a, m, "sentLast") ELSE a

\* Mutant: a message counts as received once nothing sent of it is missing.
ReceivedEarly(p, m, q) ==
    LET a == [p EXCEPT !.msg[m].notrecvd = @ \ {q},
                       !.msg[m].notacked = @ \cup {q},
                       !.msg[m].recvd = @ + 1,
                       !.recvd = @ + 1]
    IN  IF a.msg[m].notrecvd # {} THEN a ELSE SetStatus(a, m, "recvdLast")

\* UecMsg::addRecvd, for a packet of m not yet received.
Received(p, m, q) ==
    LET a == [p EXCEPT !.msg[m].notrecvd = @ \ {q},
                       !.msg[m].notacked = @ \cup {q},
                       !.msg[m].recvd = @ + 1,
                       !.recvd = @ + 1]
    IN  IF a.msg[m].recvd < MsgPkts[m] THEN a
        ELSE SetStatus(Fails(a, a.msg[m].status # "sentLast" \/ a.msg[m].notrecvd # {}, "message"),
                       m, "recvdLast")

\* UecMsg::addAck, for a packet of m not yet acked, and the end of the message.
Acknowledged(p, m, q) ==
    LET a == [p EXCEPT !.msg[m].notacked = @ \ {q},
                       !.msg[m].acked = @ + 1,
                       !.acked = @ + 1]
        b == Fails(a, a.msg[m].status # "recvdLast" \/ a.msg[m].unsent > 0 \/ a.msg[m].notacked # {},
                   "message")
    IN  IF a.msg[m].acked < MsgPkts[m] THEN a
        ELSE [SetStatus(b, m, "finished") EXCEPT !.inFlight = @ \ {m}, !.complete = Append(@, m)]

-----------------------------------------------------------------------------
(* The connection's messages.                                              *)

Owning(owner, q, m) ==
    [r \in DOMAIN owner \cup {q} |-> IF r \in DOMAIN owner THEN owner[r] ELSE m]

\* Mutant: the message being sent is forgotten with every packet.
GetNextPacketForgets(p, q) ==
    LET m == Head(p.eligible)
    IN  IF p.eligible = <<>> THEN Fails(p, TRUE, "no_message")
        ELSE [Segment(p, m, q) EXCEPT
                !.eligible = Tail(@), !.inFlight = @ \cup {m},
                !.sent = @ + 1, !.owner = Owning(@, q, m), !.maxSeq = q]

\* getNextPacket: the message being sent, or the next eligible one.
GetNextPacket(p, q) ==
    LET m == IF p.cur # 0 THEN p.cur ELSE Head(p.eligible)
        a == IF p.cur # 0 THEN p
             ELSE [p EXCEPT !.eligible = Tail(@), !.inFlight = @ \cup {m}]
        b == Fails(Segment(a, m, q), q \in DOMAIN p.owner \/ q <= p.maxSeq, "number")
    IN  IF p.cur = 0 /\ p.eligible = <<>> THEN Fails(p, TRUE, "no_message")
        ELSE [b EXCEPT !.cur = IF b.msg[m].unsent = 0 THEN 0 ELSE m,
                       !.sent = @ + 1,
                       !.owner = Owning(@, q, m),
                       !.maxSeq = q]

\* addRecvd; sequence numbers without a message (an RTS, or acked) are ignored.
AddRecvd(p, q) ==
    IF q \in DOMAIN p.owner /\ q \in p.msg[p.owner[q]].notrecvd
    THEN Received(p, p.owner[q], q) ELSE p

Forget(p, q) == [p EXCEPT !.owner = [r \in DOMAIN @ \ {q} |-> @[r]]]

\* maxSeq is -1 while no message has a packet outstanding.
ResetMax(p) == IF DOMAIN p.owner = {} THEN [p EXCEPT !.maxSeq = -1] ELSE p

\* addCumAck, for one sequence number it covers.
CumAcked(p, q) ==
    IF q \in DOMAIN p.owner /\ q \in p.msg[p.owner[q]].notacked
    THEN Forget(Acknowledged(p, p.owner[q], q), q) ELSE p

\* Mutant: the cumulative ack is taken as the last number received.
AddCumAckInclusive(p, cum) == ResetMax(InOrder(CumAcked, p, {q \in DOMAIN p.owner : q <= cum}))

AddCumAck(p, cum) == ResetMax(InOrder(CumAcked, p, {q \in DOMAIN p.owner : q < cum}))

\* addSAck; ctrl: sequence numbers of RTSs.
AddSAck(p, q, ctrl) ==
    LET a == Fails(p, q > p.maxSeq, "sack_beyond")
        m == p.owner[q]
    IN  IF q \in ctrl \/ q \notin DOMAIN p.owner THEN a
        ELSE ResetMax(Forget(IF q \in a.msg[m].notacked THEN Acknowledged(a, m, q) ELSE a, q))

AddSAcks(p, S, ctrl) == InOrder(LAMBDA a, q : AddSAck(a, q, ctrl), p, S)

\* checkFinished and checkDoneSending, with their assertions.
AllAcked(p) == p.acked = p.eligiblePkts

Checked(p) ==
    LET a == Fails(p, AllAcked(p) # (p.inFlight = {} /\ p.eligible = <<>>), "counters")
        b == Fails(a, AllAcked(p) /\ (p.cur # 0 \/ p.sent # p.acked \/ p.recvd # p.acked), "counters")
    IN  Fails(b, AllAcked(p) /\ Len(p.complete) # Cardinality(p.known), "messages_left")

\* The messages ms become eligible: updateScheduledMsgs, makeMsgEligible.
MakeEligible(p, ms) ==
    [p EXCEPT !.eligible = @ \o Ascending(ms),
              !.scheduled = @ \ ms,
              !.triggered = @ \ ms,
              !.eligiblePkts = @ + PktsOf(ms)]

-----------------------------------------------------------------------------
(* The sender of a reusable connection.                                    *)

\* What the packets a handler sent mean for the messages.
Emitted(p, s) ==
    LET fresh == {m \in s.out : m.type = "data" /\ ~m.rtx}
        rts == {m \in s.out : m.type = "rts"}
        a == InOrder(GetNextPacket, p, {m.seq : m \in fresh})
    IN  [a EXCEPT !.maxSeq = IF rts = {} THEN @ ELSE (CHOOSE m \in rts : TRUE).seq]

IsActivelySending(s) == s.blocked \/ s.backlog > 0 \/ s.rtxQueue # {}

AddToBacklog(s, n) == [s EXCEPT !.backlog = @ + n, !.done = FALSE]

\* Mutant: an idle connection is not continued.
ScheduleConnectionIdles(s, n) ==
    IF s.started THEN AddToBacklog(s, n)
    ELSE T!SendIfPermitted([AddToBacklog(s, n) EXCEPT !.started = TRUE])

\* schedule_connection: start, continue or leave alone.
ScheduleConnection(s, n) ==
    LET a == AddToBacklog(s, n)
    IN  IF ~s.started THEN T!SendIfPermitted([a EXCEPT !.started = TRUE])
        ELSE IF IsActivelySending(s) THEN a
        ELSE T!SendIfPermitted(a)

\* The assertions of isActivelySending and continueConnection.
CheckSchedule(p, s, n) ==
    LET idle == s.started /\ ~IsActivelySending(s)
        a == Fails(p, idle /\ s.done /\ s.rto # 0, "timer_left")
        b == Fails(a, idle /\ ~s.done /\ s.rto = 0, "no_timer")
    IN  Fails(b, idle /\ s.rto = 0 /\ ~T!IsSendPermitted(AddToBacklog(s, n)), "no_timer")

CheckFinished(s, p) ==
    IF ~s.done /\ AllAcked(p) THEN [T!CancelRTO(s) EXCEPT !.done = TRUE] ELSE s

-----------------------------------------------------------------------------
(* Initial state and actions.                                              *)

Init ==
    /\ \E w \in CwndValues : src = [T!SrcInit(w) EXCEPT !.backlog = 0]
    /\ sink = [expected |-> 0, ooo |-> {}, recvd |-> 0, payload |-> 0,
               accepted |-> 0, ackRequest |-> FALSE]
    /\ net = {}
    /\ faults = [losses |-> 0, trims |-> 0, spurious |-> 0]
    /\ pdc = [known |-> {}, scheduled |-> {}, triggered |-> {}, eligible |-> <<>>, cur |-> 0,
              inFlight |-> {}, complete |-> <<>>, owner |-> <<>>, maxSeq |-> -1, fired |-> <<>>,
              msg |-> [m \in Msgs |->
                 [status |-> "init", unsent |-> MsgPkts[m], notrecvd |-> {}, notacked |-> {},
                  recvd |-> 0, acked |-> 0]],
              eligiblePkts |-> 0, sent |-> 0, recvd |-> 0, acked |-> 0, fault |-> "none"]

Running == pdc.fault = "none"

\* A fired trigger is handled before any other event.
Ready == Running /\ pdc.fired = <<>>

\* The sender's handler left s and, before its packets, p; consumed leaves the fabric.
SrcDone(s, p, consumed) ==
    /\ src' = [s EXCEPT !.out = {}]
    /\ net' = (net \ consumed) \cup s.out
    /\ pdc' = Emitted(p, s)

\* enque, for the next messages the upper layer has.
Enque ==
    /\ Ready /\ pdc.known # Msgs
    /\ LET next == {m \in Msgs \ pdc.known : \A n \in Msgs \ pdc.known : Batch[m] <= Batch[n]}
       IN  pdc' = [pdc EXCEPT !.known = @ \cup next,
                              !.scheduled = @ \cup (next \ DOMAIN After),
                              !.triggered = @ \cup (next \cap DOMAIN After)]
    /\ UNCHANGED <<src, sink, net, faults>>

\* The connection has n more packets to send, of the messages ms.
Schedule(p, ms) ==
    LET n == PktsOf(ms)
    IN  SrcDone(ScheduleConnection(src, n), CheckSchedule(MakeEligible(p, ms), src, n), {})

\* UecPdcSes::doNextEvent: the messages due next.
Due ==
    /\ Ready /\ pdc.scheduled # {}
    /\ Schedule(pdc, {m \in pdc.scheduled : \A n \in pdc.scheduled : Slot[m] <= Slot[n]})
    /\ UNCHANGED <<sink, faults>>

\* UecMsg::activate, last fired first.
Activate ==
    /\ Running /\ pdc.fired # <<>>
    /\ LET m == pdc.fired[Len(pdc.fired)]
           p == Fails([pdc EXCEPT !.fired = SubSeq(@, 1, Len(@) - 1)], m \notin pdc.triggered, "trigger")
       IN  Schedule(p, {m})
    /\ UNCHANGED <<sink, faults>>

PortFree ==
    /\ Ready /\ src.portBusy
    /\ LET s == [src EXCEPT !.portBusy = FALSE]
       IN  SrcDone(IF s.registered > 0 THEN T!TimeToSend(s) ELSE s, pdc, {})
    /\ UNCHANGED <<sink, faults>>

OtherTraffic == Ready /\ T!OtherTraffic /\ UNCHANGED pdc

\* processAck with a message tracker; w is the window NSCC chooses.
ReceiveAck(m, w) ==
    /\ Ready /\ m.type = "ack"
    /\ LET newly == IF m.recvd > src.recvd THEN m.recvd - src.recvd ELSE 0
           a == T!HandleCumulativeAck([src EXCEPT !.recvd = @ + newly, !.inFlight = @ - newly], m.cum)
           b == [T!HandleSacks(a, m.sacks) EXCEPT !.cwnd = w]
           p == AddSAcks(AddCumAck(pdc, m.cum), m.sacks \cap (DOMAIN a.tx \cup a.rtxQueue), src.ctrl)
           c == CheckFinished(b, p)
       IN  SrcDone(IF c.done THEN c ELSE T!SendIfPermitted(c),
                   IF src.done THEN p ELSE Checked(p), {m})
    /\ UNCHANGED <<sink, faults>>

ReceiveNack(m, w) ==
    /\ Ready /\ m.type = "nack"
    /\ SrcDone(T!ProcessNack(src, m.seq, w), pdc, {m})
    /\ UNCHANGED <<sink, faults>>

TimerExpires(gate) ==
    /\ Ready /\ T!CanExpire
    /\ gate => Cardinality(src.ctrl) < MaxRts
    /\ ~gate => src.ctrl # {}
    /\ SrcDone(T!RtxTimerExpired(src, gate), pdc, {})
    /\ faults' = [faults EXCEPT !.spurious = IF T!Late THEN @ + 1 ELSE @]
    /\ UNCHANGED sink

\* The sink tells the messages of every packet that arrives untrimmed.
ReceiveData(m, ecn) == Ready /\ T!ReceiveData(m, ecn) /\ pdc' = AddRecvd(pdc, m.seq)
ReceiveRts(m) == Ready /\ T!ReceiveRts(m) /\ pdc' = AddRecvd(pdc, m.seq)
ReceiveTrimmed(m) == Ready /\ T!ReceiveTrimmed(m) /\ UNCHANGED pdc

Lose(m) == Ready /\ T!Lose(m) /\ UNCHANGED pdc
Trim(m) == Ready /\ T!Trim(m) /\ UNCHANGED pdc

Deliver(m) ==
    \/ \E w \in CwndValues : ReceiveAck(m, w) \/ ReceiveNack(m, w)
    \/ \E ecn \in BOOLEAN : ReceiveData(m, ecn)
    \/ ReceiveTrimmed(m)
    \/ ReceiveRts(m)

Expire == \E gate \in BOOLEAN : TimerExpires(gate)

Next ==
    \/ Enque
    \/ Due
    \/ Activate
    \/ PortFree
    \/ OtherTraffic
    \/ Expire
    \/ \E m \in net : Deliver(m) \/ Lose(m) \/ Trim(m)

Spec == Init /\ [][Next]_vars

\* Every event is processed: packets arrive, timers fire, ports finish, messages
\* fall due, and the upper layer enqueues what it has.  Each conjunct is weak
\* fairness of an action, written with the condition that enables it.
FairSpec ==
    /\ Spec
    /\ []<>~(Ready /\ pdc.known # Msgs) \/ []<><<Enque>>_vars
    /\ []<>~(Ready /\ pdc.scheduled # {}) \/ []<><<Due>>_vars
    /\ []<>~(Running /\ pdc.fired # <<>>) \/ []<><<Activate>>_vars
    /\ []<>~(Ready /\ src.portBusy) \/ []<><<PortFree>>_vars
    /\ []<>~(Ready /\ T!CanExpire) \/ []<><<Expire>>_vars
    /\ []<>~(Ready /\ net # {}) \/ []<><<\E m \in net : Deliver(m)>>_vars

-----------------------------------------------------------------------------
(* Properties.                                                             *)

Assertions == {"message", "no_message", "number", "sack_beyond", "counters", "messages_left",
               "no_timer", "timer_left", "trigger"}

\* Types of the state of UecPdcSes and UecMsg.
TypeOK ==
    /\ pdc.known \subseteq Msgs /\ pdc.scheduled \subseteq Msgs /\ pdc.triggered \subseteq Msgs
    /\ pdc.eligible \in Seq(Msgs) /\ pdc.complete \in Seq(Msgs) /\ pdc.fired \in Seq(Msgs)
    /\ pdc.inFlight \subseteq Msgs /\ pdc.cur \in Msgs \cup {0}
    /\ DOMAIN pdc.owner \subseteq T!SeqNo /\ Range(pdc.owner) \subseteq Msgs
    /\ pdc.maxSeq \in T!SeqNo \cup {-1}
    /\ \A m \in Msgs :
          /\ pdc.msg[m].status \in Statuses /\ pdc.msg[m].unsent \in 0 .. MsgPkts[m]
          /\ pdc.msg[m].notrecvd \subseteq T!SeqNo /\ pdc.msg[m].notacked \subseteq T!SeqNo
    /\ pdc.fault \in Assertions \cup {"none"}

\* A message is in one place: waiting, eligible, being sent, in flight or
\* complete, and never in two, whatever order triggers, times and acks come in.
OnePlace ==
    \A m \in pdc.known :
        Cardinality({i \in {1} : m \in pdc.scheduled} \cup {i \in {2} : m \in pdc.triggered}
                    \cup {i \in {3} : m \in pdc.inFlight}
                    \cup {10 + i : i \in {j \in DOMAIN pdc.eligible : pdc.eligible[j] = m}}
                    \cup {20 + i : i \in {j \in DOMAIN pdc.complete : pdc.complete[j] = m}}) = 1

\* The sender and the message tracker count alike: the backlog is what eligible
\* messages have not sent, the packets the messages have counted as received
\* and as acked are those the receiver has and those the sender has settled, and
\* every message is in one place.
BooksAgree ==
    /\ OnePlace
    /\ Running =>
        /\ src.backlog = pdc.eligiblePkts - pdc.sent
        /\ pdc.recvd = Cardinality({q \in T!Sent \ src.ctrl : T!Have(sink, q)})
        /\ pdc.acked = Cardinality(T!Settled \ src.ctrl)
        /\ DOMAIN pdc.owner = (T!Outstanding \cup src.rtxQueue) \ src.ctrl

\* A triggered message sends nothing before the message it waits for has
\* reached the status that triggers it.
CausalOrder ==
    \A m \in DOMAIN After :
        pdc.msg[m].status # "init" =>
            CASE After[m].status = "sentLast" -> pdc.msg[After[m].msg].unsent = 0
              [] After[m].status = "recvdLast" -> pdc.msg[After[m].msg].status \in {"recvdLast", "finished"}
              [] OTHER -> pdc.msg[After[m].msg].status = "finished"

\* The assertions of the code hold, but for three.  messages_left: checkFinished
\* (uec_pdcses.cpp:591) takes a connection whose eligible messages are all acked
\* to be complete, while others may still be scheduled or wait for a trigger.
\* timer_left: an RTS that outlives the end of the flow can be sent again by the
\* NIC, its timer then runs while the flow is done, and isActivelySending
\* (uec.cpp:1711) expects none.  sack_beyond: an ack whose cumulative part leaves
\* no message in flight has _max_seq_no forgotten (uec_pdcses.cpp:434), and when
\* it also acks a second RTS past a first that is still missing, addSAck compares
\* that RTS with it (459) before it looks whether it is an RTS (462).
AssertionsHold == TypeOK /\ pdc.fault \in {"none", "messages_left", "timer_left", "sack_beyond"}

\* Every message finishes, if no assertion fails and no RTS is sent.
AllMessagesFinish ==
    [](Running /\ src.ctrl = {}) => <>(\A m \in Msgs : pdc.msg[m].status = "finished")

\* Claim of the comment at uec.cpp:1688: with packets in the backlog or in the
\* retransmission queue the connection is still being serviced.
BacklogIsServiced ==
    Running /\ src.backlog > 0 => src.rto # 0 \/ src.registered > 0 \/ net # {}

=============================================================================
