------------------------------ MODULE UecCredit ------------------------------
(***************************************************************************)
(* Receiver-based congestion control (RCCC): flows from several senders to *)
(* one receiver, whose UecPullPacer hands out credit.  A sender starts     *)
(* with a window of speculative credit, tells the receiver with every      *)
(* packet how far it wants to be pulled, and afterwards sends only against *)
(* pulled credit.  Source: sim/uec.cpp.                                    *)
(*                                                                         *)
(* UecTransport has the sequence numbers, timers and acknowledgements in   *)
(* detail; here every packet is acknowledged by itself and the timer of a  *)
(* packet fires once nothing can answer for it any more.  _network_rtt is  *)
(* 0 under RCCC (only initNsccParams sets it), so sendRTS is never held    *)
(* back.  Credit is in bytes at the sender and in quanta at the receiver.  *)
(***************************************************************************)
EXTENDS Integers, Sequences, FiniteSets, FiniteSetsExt

CONSTANTS
    Flows,          \* flows to this receiver
    NPkts,          \* data packets of each flow
    PktSize,        \* _mtu
    HdrSize,        \* _hdr_size
    Quantum,        \* UEC_PULL_QUANTUM, bytes
    CreditPerPull,  \* UecSink::_credit_per_pull, quanta
    MaxWnd,         \* _configured_maxwnd, bytes
    MaxSources,     \* largest number of active sources on a sender's NIC
    MaxFaults       \* bound: packets the fabric trims or drops

ASSUME CreditAssumption ==
    /\ NPkts \in [Flows -> Nat \ {0}]
    /\ HdrSize \in Nat \ {0} /\ PktSize \in Nat /\ PktSize > HdrSize
    /\ Quantum \in Nat \ {0} /\ CreditPerPull \in Nat \ {0}
    /\ MaxWnd \in Nat /\ MaxWnd >= PktSize
    /\ MaxSources \in Nat \ {0}
    /\ MaxFaults \in Nat

VARIABLES
    src,     \* the senders, with what their NICs know of them; spent is history
    sink,    \* the receiver's ends of the flows
    pacer,   \* the receiver's UecPullPacer
    net,     \* packets of each flow in the fabric
    faults   \* how many packets were trimmed or dropped, how many of them pulls

vars == <<src, sink, pacer, net, faults>>

Larger(a, b) == IF a > b THEN a ELSE b

-----------------------------------------------------------------------------
(* The sender.                                                             *)

Size(s, q) == IF q \in s.ctrl THEN HdrSize ELSE PktSize

RtxBytes(s) ==
    PktSize * Cardinality(s.rtx \ s.ctrl) + HdrSize * Cardinality(s.rtx \cap s.ctrl)

QuantizeCeil(b) == (b + Quantum - 1) \div Quantum
QuantizeFloor(b) == b \div Quantum

\* Integer division of C++, towards zero.
Truncated(a, n) == IF a >= 0 THEN a \div n ELSE -((-a) \div n)

\* Mutant: a short flow asks only for what its credit does not cover.
ComputePullTargetShort(s, n) ==
    LET backlog == PktSize * s.backlog + RtxBytes(s)
        ask == (IF backlog > MaxWnd THEN MaxWnd ELSE backlog) - s.credit
    IN  QuantizeCeil(Truncated(ask, n) + Quantum * s.pull)

\* n: _nic.activeSources(), at least 1 here.
ComputePullTarget(s, n) ==
    LET backlog == PktSize * s.backlog + RtxBytes(s)
        ask == (IF backlog > MaxWnd THEN MaxWnd ELSE backlog) - s.credit
        atLeast == IF s.speculating /\ ask < PktSize /\ s.backlog > 0 THEN PktSize ELSE ask
    IN  QuantizeCeil(Truncated(atLeast, n) + Quantum * s.pull)

CanSend(s) == s.credit > 0 /\ (s.rtx # {} \/ s.backlog > 0)

Data(q, pt) == [type |-> "data", seq |-> q, pt |-> pt]

\* sendNewPacket and sendRtxPacket: spend the credit, then say how much more is wanted.
SendPacket(s, n) ==
    LET fresh == s.rtx = {}
        q == IF fresh THEN s.next ELSE Min(s.rtx)
        z == Size(s, q)
        a == [s EXCEPT !.credit = @ - z, !.spent = @ + z, !.rtx = @ \ {q},
                       !.backlog = IF fresh THEN @ - 1 ELSE @,
                       !.next = IF fresh THEN @ + 1 ELSE @,
                       !.outstanding = @ \cup {q}]
        pt == ComputePullTarget(a, n)
    IN  [a EXCEPT !.target = pt, !.out = @ \cup {Data(q, pt)}]

\* requestSending when every port is busy.
Register(s) == [s EXCEPT !.registered = @ + 1]

RequestAgain(s) == IF CanSend(s) THEN [Register(s) EXCEPT !.blocked = TRUE] ELSE s

\* free: the NIC's port is idle; after a send it is not.
SendIfPermitted(s, n, free) ==
    IF ~CanSend(s) \/ s.blocked THEN s
    ELSE IF free THEN RequestAgain(SendPacket(s, n))
    ELSE RequestAgain(s)

\* Mutant: speculative credit survives the first answer.
StopSpeculatingKeeps(s) ==
    [s EXCEPT !.speculating = FALSE, !.spent = IF s.speculating THEN 0 ELSE @]

\* spent restarts with the credit it is measured against.
StopSpeculating(s) ==
    [s EXCEPT !.speculating = FALSE,
              !.credit = IF s.speculating /\ @ > 0 THEN 0 ELSE @,
              !.spent = IF s.speculating THEN 0 ELSE @]

HandlePull(s, no) ==
    LET c == s.credit + Quantum * (no - s.pull)
    IN  IF no > s.pull
        THEN [s EXCEPT !.credit = IF c > MaxWnd THEN MaxWnd ELSE c, !.pull = no]
        ELSE s

QueueForRtx(s, q, n, free) ==
    LET a == [s EXCEPT !.rtx = @ \cup {q}]
    IN  IF s.speculating THEN a ELSE SendIfPermitted(a, n, free)

\* The RTS repeats the target of the last packet sent.
SendRTS(s) ==
    [s EXCEPT !.ctrl = @ \cup {s.next}, !.outstanding = @ \cup {s.next}, !.next = @ + 1,
              !.out = @ \cup {[type |-> "rts", seq |-> s.next, pt |-> s.target]}]

RtxTimerExpired(s, q, n, free) ==
    LET a == [s EXCEPT !.outstanding = @ \ {q}]
        b == QueueForRtx(a, q, n, free)
    IN  IF a.rtx # {} THEN SendRTS(QueueForRtx(StopSpeculating(a), q, n, free))
        ELSE IF b.credit <= 0 THEN SendRTS(b)
        ELSE IF free /\ b.rtx # {} THEN SendPacket(b, n)
        ELSE Register(b)

-----------------------------------------------------------------------------
(* The receiver and its pacer.                                             *)

Backlog(k) == IF k.highest > k.latest THEN k.highest - k.latest ELSE 0
SlowCredit(k) == IF k.latest > k.highest THEN k.latest - k.highest ELSE 0

\* requestPull: the flow joins the active list; the pacer is started if idle.
RequestPull(p, f) ==
    [p EXCEPT !.active = Append(@, f),
              !.events = IF p.running THEN @ ELSE @ + 1,
              !.running = TRUE]

\* Mutant: the pull target is raised but the pacer is not asked.
AskedSilently(k, pt, must) == must

\* Does a packet with target pt make the flow ask for pulls?  must: also
\* without new demand, for a trimmed packet or an RTS.
Asked(k, pt, must) == ~k.inPull /\ (pt > k.highest \/ must)

\* handlePullTarget and the request that may follow it.
Demand(k, pt, must) ==
    [k EXCEPT !.highest = Larger(@, pt), !.inPull = @ \/ Asked(k, pt, must)]

\* Mutant: the last pull goes past what the sender asked for.
PullOvershoots(k, extra) == [k EXCEPT !.latest = @ + CreditPerPull]

\* UecSink::pull: up to the target, never back; or extra credit nobody asked for.
Pull(k, extra) ==
    LET up == k.latest + CreditPerPull
    IN  IF extra > 0 THEN [k EXCEPT !.latest = @ + extra]
        ELSE [k EXCEPT !.latest = IF up > k.highest THEN Larger(k.highest, @) ELSE up]

\* Serve the first flow with demand; a satisfied one joins the idle list.
ServeActive(f) ==
    LET k == Pull(sink[f], 0)
        rest == Tail(pacer.active)
        more == Backlog(k) > 0
    IN  /\ sink' = [sink EXCEPT ![f] =
                      IF more THEN k ELSE [k EXCEPT !.inPull = FALSE, !.inSlow = TRUE]]
        /\ pacer' = [pacer EXCEPT
                       !.active = IF more THEN Append(rest, f) ELSE rest,
                       !.idle = IF more THEN @ ELSE Append(@, f)]
        /\ net' = [net EXCEPT ![f] = @ \cup {[type |-> "pull", no |-> k.latest]}]

\* Mutant: an idle flow is served once and forgotten.
ServeIdleOnce(f) ==
    LET k == Pull(sink[f], CreditPerPull)
    IN  /\ sink' = [sink EXCEPT ![f] = [k EXCEPT !.inPull = FALSE]]
        /\ pacer' = [pacer EXCEPT !.idle = Tail(@)]
        /\ net' = [net EXCEPT ![f] = @ \cup {[type |-> "pull", no |-> k.latest]}]

\* Nobody has demand: the first idle flow gets credit it did not ask for.
ServeIdle(f) ==
    LET k == Pull(sink[f], CreditPerPull)
        more == Backlog(k) = 0 /\ SlowCredit(k) < QuantizeFloor(MaxWnd)
    IN  /\ sink' = [sink EXCEPT ![f] = 
                      [k EXCEPT !.inPull = @ /\ k.inSlow /\ more, !.inSlow = more]]
        /\ pacer' = [pacer EXCEPT !.idle = IF more THEN Append(Tail(@), f) ELSE Tail(@)]
        /\ net' = [net EXCEPT ![f] = @ \cup {[type |-> "pull", no |-> k.latest]}]

\* UecPullPacer::doNextEvent; serving a flow schedules the next event.
PacerEvent ==
    /\ pacer.events > 0
    /\ \/ /\ pacer.active # <<>>
          /\ ServeActive(Head(pacer.active))
       \/ /\ pacer.active = <<>> /\ pacer.idle # <<>>
          /\ ServeIdle(Head(pacer.idle))
       \/ /\ pacer.active = <<>> /\ pacer.idle = <<>>
          /\ pacer' = [pacer EXCEPT !.running = FALSE, !.events = @ - 1]
          /\ UNCHANGED <<sink, net>>
    /\ UNCHANGED <<src, faults>>

-----------------------------------------------------------------------------
(* Initial state and actions.                                              *)

Init ==
    /\ src = [f \in Flows |->
                [started |-> FALSE, next |-> 0, backlog |-> NPkts[f], outstanding |-> {},
                 rtx |-> {}, ctrl |-> {}, credit |-> MaxWnd, pull |-> 0, target |-> 0,
                 speculating |-> TRUE, blocked |-> FALSE, registered |-> 0,
                 spent |-> 0, out |-> {}]]
    /\ sink = [f \in Flows |->
                [got |-> {}, latest |-> 0, highest |-> 0, inPull |-> FALSE, inSlow |-> FALSE]]
    /\ pacer = [active |-> <<>>, idle |-> <<>>, running |-> FALSE, events |-> 0]
    /\ net = [f \in Flows |-> {}]
    /\ faults = [total |-> 0, pulls |-> 0]

\* The handler left sender record s and has consumed the packets of the set gone.
SrcDone(f, s, gone) ==
    /\ src' = [src EXCEPT ![f] = [s EXCEPT !.out = {}]]
    /\ net' = [net EXCEPT ![f] = (@ \ gone) \cup s.out]
    /\ UNCHANGED <<sink, pacer>>

StartConnection(f, n, free) ==
    /\ ~src[f].started
    /\ SrcDone(f, SendIfPermitted([src[f] EXCEPT !.started = TRUE], n, free), {})
    /\ UNCHANGED faults

\* The NIC's turn for a queued source: it sends, or leaves the NIC's queue.
TimeToSend(f, n) ==
    /\ src[f].registered > 0
    /\ LET s == [src[f] EXCEPT !.blocked = FALSE, !.registered = @ - 1]
       IN  SrcDone(f, IF CanSend(s) THEN RequestAgain(SendPacket(s, n)) ELSE s, {})
    /\ UNCHANGED faults

\* processAck: the packet it acknowledges is settled.
ReceiveAck(f, m, n, free) ==
    /\ m.type = "ack"
    /\ LET s == StopSpeculating([src[f] EXCEPT !.outstanding = @ \ {m.seq}, !.rtx = @ \ {m.seq}])
       IN  SrcDone(f, SendIfPermitted(s, n, free), {m})
    /\ UNCHANGED faults

\* processNack: for a packet without a record it returns at once.
ReceiveNack(f, m, n, free) ==
    /\ m.type = "nack"
    /\ LET s == StopSpeculating([src[f] EXCEPT !.outstanding = @ \ {m.seq}])
       IN  SrcDone(f, IF m.seq \in src[f].outstanding
                      THEN QueueForRtx(s, m.seq, n, free) ELSE src[f], {m})
    /\ UNCHANGED faults

ReceivePull(f, m, n, free) ==
    /\ m.type = "pull"
    /\ SrcDone(f, SendIfPermitted(HandlePull(StopSpeculating(src[f]), m.no), n, free), {m})
    /\ UNCHANGED faults

\* Nothing in the fabric could still answer for the packet q.
Unanswered(f, q) ==
    \A m \in {x \in net[f] : x.type # "pull"} : m.seq # q

TimerExpires(f, n, free) ==
    /\ \E q \in src[f].outstanding :
          Unanswered(f, q) /\ SrcDone(f, RtxTimerExpired(src[f], q, n, free), {})
    /\ UNCHANGED faults

\* The receiver's end of the flow becomes k, asks for pulls or not, and replies.
SinkDone(f, k, asked, m, reply) ==
    /\ sink' = [sink EXCEPT ![f] = k]
    /\ pacer' = IF asked THEN RequestPull(pacer, f) ELSE pacer
    /\ net' = [net EXCEPT ![f] = (@ \ {m}) \cup {[type |-> reply, seq |-> m.seq]}]
    /\ UNCHANGED <<src, faults>>

ReceiveData(f, m) ==
    /\ m.type = "data"
    /\ SinkDone(f, [Demand(sink[f], m.pt, FALSE) EXCEPT !.got = @ \cup {m.seq}],
                Asked(sink[f], m.pt, FALSE), m, "ack")

ReceiveTrimmed(f, m) ==
    /\ m.type = "trimmed"
    /\ IF m.seq \in sink[f].got THEN SinkDone(f, sink[f], FALSE, m, "ack")
       ELSE SinkDone(f, Demand(sink[f], m.pt, TRUE), Asked(sink[f], m.pt, TRUE), m, "nack")

ReceiveRts(f, m) ==
    /\ m.type = "rts"
    /\ SinkDone(f, [Demand(sink[f], m.pt, TRUE) EXCEPT !.got = @ \cup {m.seq}],
                Asked(sink[f], m.pt, TRUE), m, "ack")

Trim(f, m) ==
    /\ m.type = "data" /\ faults.total < MaxFaults
    /\ faults' = [faults EXCEPT !.total = @ + 1]
    /\ net' = [net EXCEPT ![f] = (@ \ {m}) \cup {[m EXCEPT !.type = "trimmed"]}]
    /\ UNCHANGED <<src, sink, pacer>>

Lose(f, m) ==
    /\ m.type \in {"data", "rts"} /\ faults.total < MaxFaults
    /\ faults' = [faults EXCEPT !.total = @ + 1]
    /\ net' = [net EXCEPT ![f] = @ \ {m}]
    /\ UNCHANGED <<src, sink, pacer>>

LosePull(f, m) ==
    /\ m.type = "pull" /\ faults.total < MaxFaults
    /\ faults' = [faults EXCEPT !.total = @ + 1, !.pulls = @ + 1]
    /\ net' = [net EXCEPT ![f] = @ \ {m}]
    /\ UNCHANGED <<src, sink, pacer>>

\* How many sources share the sender's NIC, and whether its port is idle.
Shares == 1 .. MaxSources

Deliver(f) ==
    \E m \in net[f] :
        \/ \E n \in Shares, free \in BOOLEAN :
              ReceiveAck(f, m, n, free) \/ ReceiveNack(f, m, n, free) \/ ReceivePull(f, m, n, free)
        \/ ReceiveData(f, m) \/ ReceiveTrimmed(f, m) \/ ReceiveRts(f, m)

Start(f) == \E n \in Shares, free \in BOOLEAN : StartConnection(f, n, free)
Turn(f) == \E n \in Shares : TimeToSend(f, n)
Expire(f) == \E n \in Shares, free \in BOOLEAN : TimerExpires(f, n, free)
Fault(f) == \E m \in net[f] : Trim(f, m) \/ Lose(f, m) \/ LosePull(f, m)

Next ==
    \/ PacerEvent
    \/ \E f \in Flows : Start(f) \/ Turn(f) \/ Deliver(f) \/ Expire(f) \/ Fault(f)

Spec == Init /\ [][Next]_vars

\* Every event of the simulator is processed: flows start, the NIC serves its
\* queue, packets arrive, timers fire, the pacer runs.  Each conjunct is weak
\* fairness of an action, written with the condition that enables it.
FairSpec ==
    /\ Spec
    /\ []<>(pacer.events = 0) \/ []<><<PacerEvent>>_vars
    /\ \A f \in Flows :
          /\ []<>src[f].started \/ []<><<Start(f)>>_vars
          /\ []<>(src[f].registered = 0) \/ []<><<Turn(f)>>_vars
          /\ []<>(net[f] = {}) \/ []<><<Deliver(f)>>_vars
          /\ []<>(\A q \in src[f].outstanding : ~Unanswered(f, q)) \/ []<><<Expire(f)>>_vars

-----------------------------------------------------------------------------
(* Properties.                                                             *)

Packet ==
    [type : {"data", "trimmed", "rts"}, seq : Nat, pt : Int]
      \cup [type : {"ack", "nack"}, seq : Nat] \cup [type : {"pull"}, no : Nat]

\* Types; _credit is signed, a packet may be sent on a byte of it.
TypeOK ==
    /\ src \in [Flows ->
         [started : BOOLEAN, next : Nat, backlog : Nat, outstanding : SUBSET Nat,
          rtx : SUBSET Nat, ctrl : SUBSET Nat, credit : Int, pull : Nat, target : Int,
          speculating : BOOLEAN, blocked : BOOLEAN, registered : Nat, spent : Nat, out : {{}}]]
    /\ sink \in [Flows ->
         [got : SUBSET Nat, latest : Nat, highest : Nat, inPull : BOOLEAN, inSlow : BOOLEAN]]
    /\ pacer.active \in Seq(Flows) /\ pacer.idle \in Seq(Flows)
    /\ pacer.running \in BOOLEAN /\ pacer.events \in Nat
    /\ net \in [Flows -> SUBSET Packet]

At(list, f) == {i \in DOMAIN list : list[i] = f}

\* The flags of a flow agree with the pacer's lists: it is in the active list
\* exactly when _in_pull says so, and at one place only.  Otherwise requestPull
\* aborts (uec.cpp:3181) or doNextEvent fails its assertion (uec.cpp:3097).
ListsMatchFlags ==
    \A f \in Flows :
        /\ sink[f].inPull <=> At(pacer.active, f) # {}
        /\ \A i, j \in At(pacer.active, f) : i = j
        /\ sink[f].inSlow => At(pacer.idle, f) # {}

\* A flow whose pull target is not reached is waiting in the active list, and
\* the pacer that will get to it has exactly one event pending.
DemandIsServed ==
    /\ \A f \in Flows : Backlog(sink[f]) > 0 => sink[f].inPull
    /\ pacer.events = IF pacer.running THEN 1 ELSE 0
    /\ pacer.active # <<>> \/ pacer.idle # <<>> => pacer.running

\* A sender sends one window of bytes on speculation; from the receiver's first
\* answer on, only what it was pulled for, which is no more than the receiver
\* granted.  Either way any credit at all lets it send one whole packet.
CreditCovered ==
    \A f \in Flows :
        /\ src[f].spent < PktSize + IF src[f].speculating THEN MaxWnd ELSE Quantum * src[f].pull
        /\ src[f].pull <= sink[f].latest

\* While somebody has asked for more, nobody is given more than he asked for.
NoCreditBeyondDemand ==
    [][\A f \in Flows :
         sink'[f].latest > Larger(sink[f].highest, sink[f].latest) =>
             \A g \in Flows : ~sink[g].inPull]_vars

Finished(s) == s.started /\ s.backlog = 0 /\ s.outstanding = {} /\ s.rtx = {}

\* No flow starves: unless pulls are lost, every flow is pulled to its end,
\* whatever else is trimmed or lost and whoever shares the receiver.
EveryFlowFinishes ==
    [](faults.pulls = 0) => \A f \in Flows : <>[]Finished(src[f])

=============================================================================
