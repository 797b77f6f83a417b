---------------------------- MODULE UecRecovery -----------------------------
(***************************************************************************)
(* Loss recovery in simulated time: the retransmission timers of NSCC      *)
(* senders, the probes and the loss recovery of SLEEK, and the triggers by *)
(* which a finished flow starts others, all driven by one event list.      *)
(* Source: sim/uec.cpp (UecSrc, UecSink), composed with EventList.         *)
(*                                                                         *)
(* A data packet occupies the one port of the NIC for one tick and reaches *)
(* its sink one tick after it was sent, an answer or a probe needs one     *)
(* tick and no port.  The fabric is external: it may lose or delay up to   *)
(* MaxFaults packets.  The window always suffices and nothing is trimmed   *)
(* (see UecTransport), so sendRTS is not reached and _in_flight left out.  *)
(***************************************************************************)
EXTENDS EventList

CONSTANTS
    Flows,
    Size,           \* flow -> its packets
    StartAt,        \* flow -> start time, or TriggerStart
    EndTrigger,     \* flow -> the trigger it activates when it is done, or NoTrigger
    TriggerStart, NoTrigger,
    Modes,          \* [end, sleek]: end of the simulation, SLEEK enabled
    MinRto,         \* _min_rto
    BaseRtt,        \* _base_rtt
    TargetQDelay,   \* _target_Qdelay
    ProbeFirst,     \* probe_first_trial_time * _base_rtt
    ProbeRetry,     \* probe_retry_time * _base_rtt
    RtxThreshold,   \* SLEEK's threshold, in packets
    Window,         \* _cwnd, in packets
    AckEvery,       \* packets per acknowledgement unless one is requested
    LogPeriod,      \* period of a logger
    LateBy,         \* delay of a late packet
    MaxFaults       \* bound: packets lost or late

Feeding(g) == {f \in Flows : EndTrigger[f] = g}

\* A connection of the traffic matrix has a start time or one trigger.  The
\* flows that lead to a trigger are no more than its assertions allow.
ASSUME TriggerAssumption ==
    /\ TriggerOf \in [Triggers -> [kind : {"single", "multi", "barrier"},
                                  targets : Seq(Flows), needed : Nat]]
    /\ StartAt \in [Flows -> Nat \cup {TriggerStart}]
    /\ EndTrigger \in [Flows -> Triggers \cup {NoTrigger}]
    /\ NoTrigger \notin Triggers
    /\ \A g \in Triggers :
          LET t == TriggerOf[g]
          IN  /\ t.kind = "single" => Cardinality(Feeding(g)) <= 1
              /\ t.kind = "barrier" => Cardinality(Feeding(g)) <= t.needed
              /\ \A i \in DOMAIN t.targets :
                    /\ StartAt[t.targets[i]] = TriggerStart
                    /\ \A h \in Triggers : \A j \in DOMAIN TriggerOf[h].targets :
                          TriggerOf[h].targets[j] = t.targets[i] => h = g /\ j = i

ASSUME RecoveryAssumption ==
    /\ IsFiniteSet(Flows) /\ Size \in [Flows -> Nat \ {0}]
    /\ Modes \subseteq [end : Nat, sleek : BOOLEAN]
    /\ MinRto \in Nat /\ TargetQDelay \in Nat /\ ProbeRetry \in Nat
    /\ BaseRtt \in Nat \ {0} /\ ProbeFirst \in Nat \ {0}
    /\ RtxThreshold \in Nat /\ Window \in Nat /\ AckEvery \in Nat
    /\ LogPeriod \in Nat /\ LateBy \in Nat /\ MaxFaults \in Nat

VARIABLES
    sim,     \* l: the event list; flow: the senders; nic: the port and who waits for it
    sink,    \* the receivers
    mode,    \* the options of this simulation
    faults   \* packets lost or late so far

vars == <<sim, sink, mode, faults>>

-----------------------------------------------------------------------------
(* Senders.                                                                *)

Never == -1

MaxSize == CHOOSE n \in {Size[f] : f \in Flows} : \A f \in Flows : Size[f] <= n
Seqs == 0 .. MaxSize - 1

IdleFlow ==
    [started |-> FALSE, backlog |-> 0, next |-> 0, done |-> FALSE, blocked |-> FALSE,
     sent |-> [q \in Seqs |-> Never], timed |-> {}, resent |-> {}, rtx |-> {},
     pending |-> FALSE, rto |-> 0, rtoOf |-> 0, rtoHandle |-> NullHandle,
     probeWhen |-> 0, probeHandle |-> NullHandle, probeSeq |-> 0, probeSent |-> 0,
     loss |-> FALSE, recovery |-> 0, highestRtx |-> 0]

\* Records of _tx_bitmap; those in timed are in _send_times as well.
Out(r) == {q \in Seqs : r.sent[q] # Never}

\* Mutant: the end of _send_times is taken for its beginning.
Newest(r) == CHOOSE q \in r.timed : \A p \in r.timed : r.sent[p] <= r.sent[q]

Oldest(r) == CHOOSE q \in r.timed : \A p \in r.timed : r.sent[q] <= r.sent[p]

Wants(r) == r.backlog > 0 \/ r.rtx # {}

SrcOf(f) == [kind |-> "src", f |-> f]
Port == [kind |-> "nic"]
Logger == [kind |-> "logger"]

At(s, src, when) == [s EXCEPT !.l = SourceIsPending(@, src, when)]

-----------------------------------------------------------------------------
(* The retransmission timer.                                               *)

ClearRTO(s, f) == [s EXCEPT !.flow[f] = [@ EXCEPT !.rtoHandle = NullHandle, !.pending = FALSE]]

CancelRTO(s, f) ==
    IF s.flow[f].pending
    THEN ClearRTO([s EXCEPT !.l = CancelByHandle(@, SrcOf(f), s.flow[f].rtoHandle)], f)
    ELSE s

\* The timer is pending only if the event list took it: not past the end.
ArmRTO(s, f, time) ==
    LET when == IF time + MinRto < s.l.now THEN s.l.now ELSE time + MinRto
        handle == HandleFor(s.l, SrcOf(f), when)
    IN  [At(s, SrcOf(f), when) EXCEPT
            !.flow[f] = [@ EXCEPT !.rto = when, !.rtoOf = time,
                                  !.rtoHandle = handle, !.pending = handle # NullHandle]]

StartRTO(s, f, time) ==
    IF ~s.flow[f].pending THEN ArmRTO(s, f, time)
    ELSE IF time + MinRto < s.flow[f].rto THEN ArmRTO(CancelRTO(s, f), f, time)
    ELSE s

\* Mutant: the timer is stopped and not set for the oldest packet left.
OnlyCancelRTO(s, f) == CancelRTO(s, f)

RecalculateRTO(s, f) ==
    LET c == CancelRTO(s, f)
        r == c.flow[f]
    IN  IF r.timed = {} THEN c ELSE StartRTO(c, f, r.sent[Oldest(r)])

-----------------------------------------------------------------------------
(* Sending through the port of the NIC.                                    *)

\* A source that has to wait; requestSending puts it on the list.
Register(s, f) == [s EXCEPT !.nic.active = Append(@, f)]

StartSending(s, f) ==
    LET waiting == s.nic.active
    IN  At([s EXCEPT !.l = Check(@, waiting = <<>> \/ Head(waiting) = f, "not_first"),
                     !.nic = [busy |-> TRUE, active |-> IF waiting = <<>> THEN <<>> ELSE Tail(waiting)]],
           Port, s.l.now + 1)

Data(f, q, ar) == [kind |-> "data", f |-> f, psn |-> q, ar |-> ar, probe |-> FALSE, late |-> FALSE]
Probe(f, q) == [kind |-> "data", f |-> f, psn |-> q, ar |-> FALSE, probe |-> TRUE, late |-> FALSE]

\* A packet leaves: its record, the packet, the timer.
Emit(s, f, q, ar) ==
    LET r == s.flow[f]
        recorded == [s EXCEPT !.l = Check(@, r.sent[q] = Never, "sent_twice"),
                              !.flow[f] = [r EXCEPT !.sent[q] = s.l.now, !.timed = @ \cup {q}]]
    IN  StartRTO(At(recorded, Data(f, q, ar), s.l.now + 1), f, s.l.now)

SendNewPacket(s, f) ==
    LET r == s.flow[f]
    IN  Emit([s EXCEPT !.flow[f] = [r EXCEPT !.backlog = @ - 1, !.next = @ + 1]],
             f, r.next, r.backlog = 1)

SendRtxPacket(s, f) ==
    LET r == s.flow[f]
        q == CHOOSE q \in r.rtx : \A p \in r.rtx : q <= p
    IN  Emit([s EXCEPT !.flow[f] = [r EXCEPT !.rtx = @ \ {q}, !.resent = @ \cup {q}]], f, q, TRUE)

SendPacket(s, f) ==
    StartSending(IF s.flow[f].rtx = {} THEN SendNewPacket(s, f) ELSE SendRtxPacket(s, f), f)

\* The source asks again and waits, if it has more to send.
RequestAgain(s, f) ==
    IF Wants(s.flow[f]) THEN Register([s EXCEPT !.flow[f].blocked = TRUE], f) ELSE s

\* sendIfPermitted: with one port at most one packet leaves at once.
SendIfPermitted(s, f) ==
    IF ~Wants(s.flow[f]) \/ s.flow[f].blocked THEN s
    ELSE IF s.nic.busy THEN RequestAgain(s, f)
    ELSE RequestAgain(SendPacket(s, f), f)

QueueForRtx(s, f, q) ==
    SendIfPermitted([s EXCEPT !.l = Check(@, q \notin s.flow[f].rtx, "queued_twice"),
                              !.flow[f].rtx = @ \cup {q}], f)

\* UecNIC::doNextEvent: the port falls idle, those that wait get their turn;
\* cantSend passes it on.
PortDone(s) ==
    LET active == s.nic.active
        able == {i \in DOMAIN active : Wants(s.flow[active[i]])}
        skipped == IF able = {} THEN Len(active)
                   ELSE (CHOOSE i \in able : \A j \in able : i <= j) - 1
        called == {active[i] : i \in 1 .. (IF able = {} THEN skipped ELSE skipped + 1)}
        turn == [s EXCEPT !.nic = [busy |-> FALSE, active |-> SubSeq(active, skipped + 1, Len(active))],
                          !.flow = [f \in Flows |-> [s.flow[f] EXCEPT !.blocked = @ /\ f \notin called]]]
    IN  IF able = {} THEN turn
        ELSE RequestAgain(SendPacket(turn, active[skipped + 1]), active[skipped + 1])

-----------------------------------------------------------------------------
(* Timers: start of the flow, retransmission timeout, probes.              *)

\* startConnection: a flow starts once.
StartConnection(s, f) ==
    IF s.flow[f].started THEN [s EXCEPT !.l = Check(@, FALSE, "started_twice")]
    ELSE SendIfPermitted(ClearRTO([s EXCEPT !.flow[f] = [@ EXCEPT !.started = TRUE,
                                                                  !.backlog = Size[f]]], f), f)

\* The probe timer, at when; that the event list may not take it is not looked at.
ArmProbe(s, f, when) ==
    [At(s, SrcOf(f), when) EXCEPT
        !.flow[f] = [@ EXCEPT !.probeWhen = when, !.probeHandle = HandleFor(s.l, SrcOf(f), when)]]

SendProbe(s, f) ==
    LET r == s.flow[f]
    IN  ArmProbe([At(s, Probe(f, r.probeSeq + 1), s.l.now + 1) EXCEPT
                    !.flow[f] = [r EXCEPT !.probeSeq = @ + 1, !.probeSent = s.l.now]],
                 f, s.l.now + ProbeRetry)

\* The end of rtxTimerExpired: one more request, though the packet may have gone.
Insist(s, f) ==
    IF s.nic.busy THEN Register(s, f)
    ELSE IF s.flow[f].rtx = {} THEN [s EXCEPT !.l = Check(@, FALSE, "rtx_empty")]
    ELSE StartSending(SendRtxPacket(s, f), f)

\* While SLEEK recovers, the packet only loses its send time.
LeaveToSleek(s, f, q) ==
    IF q \notin s.flow[f].resent THEN RecalculateRTO(s, f)
    ELSE [s EXCEPT !.flow[f].highestRtx = q]

TimeOut(s, f, q) ==
    LET a == RecalculateRTO([s EXCEPT !.flow[f].sent[q] = Never], f)
    IN  IF a.flow[f].rtx # {} THEN QueueForRtx(a, f, q)
        ELSE Insist(QueueForRtx(a, f, q), f)

\* Mutant: the expired timer is not cleared.
RtxTimerKept(s, f) ==
    IF s.flow[f].timed = {} THEN [s EXCEPT !.l = Check(@, FALSE, "no_record")]
    ELSE LET q == Oldest(s.flow[f])
             a == [s EXCEPT !.flow[f].timed = @ \ {q}]
         IN  IF mode.sleek /\ a.flow[f].loss THEN LeaveToSleek(a, f, q) ELSE TimeOut(a, f, q)

RtxTimerExpired(s, f) ==
    IF s.flow[f].timed = {} THEN [s EXCEPT !.l = Check(@, FALSE, "no_record")]
    ELSE LET q == Oldest(s.flow[f])
             a == [ClearRTO(s, f) EXCEPT !.flow[f].timed = @ \ {q}]
         IN  IF mode.sleek /\ a.flow[f].loss THEN LeaveToSleek(a, f, q) ELSE TimeOut(a, f, q)

\* UecSrc::doNextEvent does not know which of its events this is.
SrcWakes(s, f) ==
    LET r == s.flow[f]
        a == IF r.pending /\ r.rto = s.l.now THEN RtxTimerExpired(s, f)
             ELSE IF r.next = 0 THEN StartConnection(s, f)
             ELSE s
        when == a.flow[f].probeWhen
    IN  IF mode.sleek /\ when # 0 /\ when = s.l.now THEN SendProbe(a, f) ELSE a

-----------------------------------------------------------------------------
(* Acknowledgements.                                                       *)

\* A record is settled by handleCumulativeAck or handleAckno.
Settle(s, f, q) ==
    LET r == s.flow[f]
        a == [s EXCEPT !.flow[f] = [r EXCEPT !.sent[q] = Never, !.timed = @ \ {q}]]
    IN  IF r.sent[q] = r.rtoOf THEN RecalculateRTO(a, f) ELSE a

\* The records of the packets in S are settled in ascending order.
SettleAll(s, f, S) ==
    LET upTo[n \in 0 .. MaxSize] ==
            IF n = 0 THEN s
            ELSE IF n - 1 \in S THEN Settle(upTo[n - 1], f, n - 1)
            ELSE upTo[n - 1]
    IN  upTo[MaxSize]

HandleCumulativeAck(s, f, cum) ==
    LET acked == {q \in Out(s.flow[f]) : q < cum}
        a == SettleAll(s, f, acked)
        r == a.flow[f]
    IN  [a EXCEPT !.flow[f] = [r EXCEPT !.rtx = {q \in @ : q >= cum}, !.resent = @ \ acked]]

HandleSacks(s, f, sacks) ==
    LET a == SettleAll(s, f, sacks \cap Out(s.flow[f]))
    IN  [a EXCEPT !.flow[f].rtx = @ \ sacks]

\* Mutant: a cancelled probe timer is still taken to be running.
CancelProbeOnly(s, f, cum) ==
    LET r == s.flow[f]
        a == IF r.probeWhen = 0 THEN s
             ELSE [s EXCEPT !.l = CancelByHandle(@, SrcOf(f), r.probeHandle)]
    IN  IF cum < r.next \/ r.backlog > 0
        THEN ArmProbe(a, f, s.l.now + (IF r.backlog = 0 THEN BaseRtt + TargetQDelay ELSE ProbeFirst))
        ELSE a

\* The probe timer is set anew while anything is unacknowledged.
HandleProbeTimer(s, f, cum) ==
    LET r == s.flow[f]
        a == IF r.probeWhen = 0 THEN s
             ELSE [s EXCEPT !.l = CancelByHandle(@, SrcOf(f), r.probeHandle),
                            !.flow[f] = [@ EXCEPT !.probeWhen = 0, !.probeHandle = NullHandle]]
    IN  IF cum < r.next \/ r.backlog > 0
        THEN ArmProbe(a, f, s.l.now + (IF r.backlog = 0 THEN BaseRtt + TargetQDelay ELSE ProbeFirst))
        ELSE a

\* Is the delay of the answered probe below the target?  For an old probe the
\* average delay decides, which is not modelled: avgLow.
LowDelay(s, f, p, avgLow) ==
    LET r == s.flow[f]
    IN  IF p.psn = r.probeSeq THEN s.l.now - r.probeSent - BaseRtt < TargetQDelay ELSE avgLow

\* runSleek moves packet q to the retransmission queue.  _rto_send_time is read
\* after queueForRtx, which may have sent q and set an idle timer for it.
Recover(s, f, q) ==
    LET r == s.flow[f]
        a == QueueForRtx([s EXCEPT !.flow[f] = [r EXCEPT !.sent[q] = Never, !.timed = @ \ {q},
                                                         !.highestRtx = q + 1]], f, q)
    IN  IF q < r.highestRtx \/ q \notin Out(r) \/ q \in r.rtx THEN s
        ELSE IF r.sent[q] = a.flow[f].rtoOf THEN RecalculateRTO(a, f) ELSE a

RecoverAll(s, f, S) ==
    LET upTo[n \in 0 .. MaxSize] ==
            IF n = 0 THEN s
            ELSE IF n - 1 \in S THEN Recover(upTo[n - 1], f, n - 1)
            ELSE upTo[n - 1]
    IN  upTo[MaxSize]

RunSleek(s, f, ooo, cum) ==
    LET r == [s.flow[f] EXCEPT !.loss = @ /\ cum < s.flow[f].recovery]
        enters == ~r.loss /\ r.rtx = {}
        a == [s EXCEPT !.flow[f] = IF enters THEN [r EXCEPT !.loss = TRUE, !.recovery = r.next] ELSE r]
        range == {q \in Seqs : cum <= q /\ q < a.flow[f].recovery /\ q < cum + Window}
    IN  IF ooo < RtxThreshold /\ ~r.loss THEN [s EXCEPT !.flow[f] = r]
        ELSE SendIfPermitted(RecoverAll(a, f, range), f)

\* The SLEEK part of processAck.
Sleek(s, f, p, avgLow) ==
    LET a == HandleProbeTimer(s, f, p.cum)
        b == IF p.probe /\ LowDelay(s, f, p, avgLow)
             THEN [a EXCEPT !.flow[f] = [@ EXCEPT !.loss = TRUE, !.recovery = s.flow[f].next,
                                                  !.highestRtx = p.cum]]
             ELSE a
    IN  RunSleek(b, f, p.ooo, p.cum)

Finish(s, f) ==
    LET a == IF EndTrigger[f] = NoTrigger THEN s ELSE [s EXCEPT !.l = Activate(@, EndTrigger[f])]
    IN  [CancelRTO(a, f) EXCEPT !.flow[f].done = TRUE]

ProcessAck(s, f, p, avgLow) ==
    LET a == HandleSacks(HandleCumulativeAck(s, f, p.cum), f, p.sacks)
        b == IF mode.sleek THEN Sleek(a, f, p, avgLow) ELSE a
    IN  IF b.flow[f].done THEN b
        ELSE IF p.cum >= Size[f] THEN Finish(b, f)
        ELSE SendIfPermitted(b, f)

-----------------------------------------------------------------------------
(* The receiver: what its answer to packet p is.                           *)

EmptySink == [cum |-> 0, have |-> {}, accepted |-> 0, request |-> FALSE]

Ack(k, p, base) ==
    [kind |-> "ack", f |-> p.f, cum |-> k.cum, sacks |-> {q \in k.have : q >= base},
     ooo |-> Cardinality(k.have), probe |-> p.probe, psn |-> p.psn, late |-> FALSE]

IsDuplicate(k, p) == p.psn < k.cum \/ p.psn \in k.have

NextMissing(have, from) == CHOOSE n \in from .. from + Cardinality(have) :
    n \notin have /\ \A q \in from .. n - 1 : q \in have

\* The receiver with packet p, and whether it must answer at once.
Accept(k, p) ==
    LET have == IF p.psn = k.cum THEN {q \in k.have : q >= NextMissing(k.have, p.psn + 1)}
                ELSE k.have \cup {p.psn}
        cum == IF p.psn = k.cum THEN NextMissing(k.have, p.psn + 1) ELSE k.cum
        request == k.request \/ p.ar
        drained == p.psn = k.cum /\ have = {} /\ request
        first == k.cum = 0 /\ k.have = {}
        answers == first \/ p.ar \/ drained \/ k.accepted + 1 >= AckEvery
    IN  [sink |-> [cum |-> cum, have |-> have, request |-> request /\ ~drained,
                   accepted |-> IF answers THEN 0 ELSE k.accepted + 1],
         answers |-> answers]

-----------------------------------------------------------------------------
(* Initial state and actions: each event is handled as a whole.            *)

Running == sim.l.fault = "none"

\* The loggers are entered first, then the flows that have a start time.
Entered(end) ==
    LET starts == SetToSeq({f \in Flows : StartAt[f] # TriggerStart})
        upTo[n \in 0 .. Len(starts)] ==
            IF n = 0 THEN SourceIsPending(EmptyList(end), Logger, 0)
            ELSE SourceIsPending(upTo[n - 1], SrcOf(starts[n]), StartAt[starts[n]])
    IN  upTo[Len(starts)]

Init ==
    /\ mode \in Modes
    /\ sim = [l |-> Entered(mode.end), flow |-> [f \in Flows |-> IdleFlow],
              nic |-> [busy |-> FALSE, active |-> <<>>]]
    /\ sink = [f \in Flows |-> EmptySink]
    /\ faults = 0

\* The next event is of this kind, and no trigger comes before it.
NextIs(kind) ==
    /\ Running /\ sim.l.targets = <<>> /\ sim.l.pending # <<>>
    /\ Head(sim.l.pending).src.kind = kind

Event == Head(sim.l.pending).src

Popped == [sim EXCEPT !.l = Pop(@)]

TriggerFires ==
    /\ Running /\ sim.l.targets # <<>>
    /\ sim' = StartConnection([sim EXCEPT !.l = PopTarget(@)], Last(sim.l.targets))
    /\ UNCHANGED <<sink, mode, faults>>

SrcEvent ==
    /\ NextIs("src")
    /\ sim' = SrcWakes(Popped, Event.f)
    /\ UNCHANGED <<sink, mode, faults>>

NicEvent ==
    /\ NextIs("nic")
    /\ sim' = PortDone(Popped)
    /\ UNCHANGED <<sink, mode, faults>>

LoggerEvent ==
    /\ NextIs("logger")
    /\ sim' = At(Popped, Logger, Popped.l.now + LogPeriod)
    /\ UNCHANGED <<sink, mode, faults>>

\* processData: probes and duplicates are answered at once.
DataArrives ==
    /\ NextIs("data")
    /\ LET p == Event
           k == sink[p.f]
           a == Accept(k, p)
           answer(l, base) == SourceIsPending(Popped.l, Ack(l, p, base), Popped.l.now + 1)
       IN  \/ /\ p.probe
              /\ sim' = [Popped EXCEPT !.l = answer(k, 0)]
              /\ UNCHANGED sink
           \/ /\ ~p.probe /\ IsDuplicate(k, p)
              /\ sim' = [Popped EXCEPT !.l = answer(k, 0)]
              /\ sink' = [sink EXCEPT ![p.f].accepted = 0]
           \/ /\ ~p.probe /\ ~IsDuplicate(k, p)
              /\ sim' = IF a.answers
                        THEN [Popped EXCEPT !.l = answer(a.sink, IF p.ar THEN p.psn ELSE 0)]
                        ELSE Popped
              /\ sink' = [sink EXCEPT ![p.f] = a.sink]
    /\ UNCHANGED <<mode, faults>>

AckArrives ==
    /\ NextIs("ack")
    /\ \E avgLow \in BOOLEAN : sim' = ProcessAck(Popped, Event.f, Event, avgLow)
    /\ UNCHANGED <<sink, mode, faults>>

InFabric == NextIs("data") \/ NextIs("ack")

PacketLost ==
    /\ InFabric /\ faults < MaxFaults
    /\ sim' = Popped
    /\ faults' = faults + 1
    /\ UNCHANGED <<sink, mode>>

PacketLate ==
    /\ InFabric /\ faults < MaxFaults /\ ~Event.late
    /\ sim' = At(Popped, [Event EXCEPT !.late = TRUE], Popped.l.now + LateBy)
    /\ faults' = faults + 1
    /\ UNCHANGED <<sink, mode>>

Next ==
    \/ TriggerFires \/ SrcEvent \/ NicEvent \/ LoggerEvent
    \/ DataArrives \/ AckArrives \/ PacketLost \/ PacketLate

Spec == Init /\ [][Next]_vars

\* main loops until doNextEvent finds nothing: weak fairness of Next, written
\* with what enables it.
FairSpec ==
    /\ Spec
    /\ []<>~(Running /\ (sim.l.targets # <<>> \/ sim.l.pending # <<>>)) \/ []<><<Next>>_vars

-----------------------------------------------------------------------------
(* Properties.                                                             *)

SimFaults == {"none", "past", "handle", "trigger", "not_first", "sent_twice", "queued_twice",
              "started_twice", "rtx_empty", "no_record"}

\* Types of the senders and receivers, and the order of the event list.
TypeOK ==
    /\ sim.flow \in [Flows -> [
            started : BOOLEAN, backlog : Nat, next : Nat, done : BOOLEAN, blocked : BOOLEAN,
            sent : [Seqs -> Nat \cup {Never}], timed : SUBSET Seqs, resent : SUBSET Seqs,
            rtx : SUBSET Seqs, pending : BOOLEAN, rto : Nat, rtoOf : Nat, rtoHandle : Nat,
            probeWhen : Nat, probeHandle : Nat, probeSeq : Nat, probeSent : Nat,
            loss : BOOLEAN, recovery : Nat, highestRtx : Nat]]
    /\ sink \in [Flows -> [cum : Nat, have : SUBSET Seqs, accepted : Nat, request : BOOLEAN]]
    /\ sim.l.fault \in SimFaults
    /\ \A i \in 1 .. Len(sim.l.pending) - 1 : sim.l.pending[i].when <= sim.l.pending[i + 1].when

\* A flow that waits for a barrier starts only when all flows that lead to it
\* are done.
CausalStart ==
    \A g \in Triggers : TriggerOf[g].kind = "barrier" =>
        \A i \in DOMAIN TriggerOf[g].targets :
            sim.flow[TriggerOf[g].targets[i]].started => \A f \in Feeding(g) : sim.flow[f].done

\* The code's assertions hold: no event in the past, no handle used after its
\* event is gone, no trigger activated too often, no flow started twice, no
\* timer without a record, and no flow started by a barrier before its time.
AssertionsHold == TypeOK /\ CausalStart /\ sim.l.fault = "none"

\* A running timer was set for a packet whose send time is still kept, and does
\* not expire before _min_rto has passed for it.
TimerHasRecord ==
    Running => \A f \in Flows : LET r == sim.flow[f] IN
        r.pending => /\ \E q \in r.timed : r.sent[q] = r.rtoOf
                     /\ r.rto >= r.rtoOf + MinRto
                     /\ r.timed \subseteq Out(r)

\* Nothing outstanding is unwatched: a flow with unacknowledged packets has a
\* retransmission or a probe timer running, unless it lies past the end; with
\* something to send it is registered at the NIC.
AlwaysAlarmed ==
    Running => \A f \in Flows : LET r == sim.flow[f] IN
        /\ Out(r) # {} => \/ r.pending \/ r.probeWhen # 0
                          \/ mode.end # 0 /\ sim.l.now + MinRto >= mode.end
        /\ Wants(r) /\ ~r.done => \E i \in DOMAIN sim.nic.active : sim.nic.active[i] = f

\* A timer the sender believes to be running is in the event list under its
\* handle and at its time (eventlist.h: "be careful to ensure handle is still
\* valid"), although any event of the flow may serve any of its timers; its
\* record is kept, and nothing outstanding is left without a timer.
TimersAreLive ==
    /\ TimerHasRecord /\ AlwaysAlarmed
    /\ Running => \A f \in Flows : LET r == sim.flow[f] IN
          /\ r.pending => \E i \in Live(sim.l, SrcOf(f), r.rtoHandle) : sim.l.pending[i].when = r.rto
          /\ r.probeWhen # 0 =>
                \E i \in Live(sim.l, SrcOf(f), r.probeHandle) : sim.l.pending[i].when = r.probeWhen

\* A packet is given up by a timer only when _min_rto has passed since it was
\* last sent, whichever packet the timer was set for.
NoEarlyTimeout ==
    [][SrcEvent => \A f \in Flows : \A q \in sim.flow[f].timed :
        q \notin sim'.flow[f].timed => sim'.l.now >= sim.flow[f].sent[q] + MinRto]_vars

\* Without an end time every flow is completed, and the simulation ends: the
\* loggers do not keep it alive.
SimulationEnds ==
    mode.end = 0 => <>(/\ \A f \in Flows : sim.flow[f].done
                       /\ sim.l.pending = <<>> /\ sim.l.targets = <<>>)

=============================================================================
