----------------------------- MODULE LosslessPfc -----------------------------
(***************************************************************************)
(* Lossless Ethernet: a switch whose input queues tell the output queues   *)
(* that feed them to PAUSE and to go on (priority flow control).           *)
(* Source: sim/queue_lossless_input.cpp, sim/queue_lossless_output.cpp,    *)
(* sim/callback_pipe.cpp, and the wiring of the fat trees: every link has  *)
(* an input queue at its far end whose frames travel back on a pipe of the *)
(* link's latency.                                                         *)
(*                                                                         *)
(* The packets that leave an output queue of the switch are still counted  *)
(* by the input queue they came through, so one slow or paused output      *)
(* holds back every port that sends to it.  Time advances in the units it  *)
(* takes to send one unit of data; events due at the same time happen in   *)
(* any order.  A packet is its output, its size and the input queue it is  *)
(* accounted to.                                                           *)
(***************************************************************************)
EXTENDS Integers, Sequences, SequencesExt, FiniteSets, Functions

CONSTANTS
    Ups,            \* links into the switch: an output queue, a wire, an input queue
    Outs,           \* output queues of the switch
    Sizes,          \* sizes of packets
    Scenes,         \* who sends what to which output, and which outputs are paused
    Latency,        \* of a wire, in either direction
    SwitchDelay,    \* from an input to an output queue of the switch
    High, Low,      \* _high_threshold and _low_threshold
    MaxBacklog      \* bound: packets waiting in an upstream output queue

ASSUME PfcAssumption ==
    /\ Ups \cap Outs = {} /\ IsFiniteSet(Outs)
    /\ Sizes \subseteq Nat \ {0} /\ Sizes # {} /\ IsFiniteSet(Sizes)
    /\ Latency \in Nat \ {0} /\ SwitchDelay \in Nat
    /\ Low \in Nat \ {0} /\ High \in Nat /\ Low < High
    /\ MaxBacklog \in Nat
    /\ Scenes \subseteq [traffic: SUBSET (Ups \X Outs \X Sizes), paused: SUBSET Outs]

VARIABLES
    scene,    \* the traffic of this simulation; it does not change
    port,     \* LosslessOutputQueue: packets, _state_send, _sending and what is left to send
    input,    \* LosslessInputQueue: _queuesize and whether _state_recv is PAUSED
    wire,     \* per link, the packets on it
    back,     \* per link, the frames on their way back: TRUE for PAUSE, FALSE to go on
    fabric    \* the packets between the inputs and the outputs of the switch

vars == <<scene, port, input, wire, back, fabric>>

Packet == [from: Ups, out: Outs, size: Sizes]

-----------------------------------------------------------------------------
(* A pipe delivers in order, each item a fixed time after it was put in.   *)

InTransit(Item) == Seq([item: Item, left: Nat])

Enter(line, x, delay) == Append(line, [item |-> x, left |-> delay])

Due(line) == line # <<>> /\ Head(line).left = 0

Later(line) == [i \in DOMAIN line |-> [line[i] EXCEPT !.left = @ - 1]]

-----------------------------------------------------------------------------
(* The output queue.                                                       *)

\* beginService: the packet stays in the queue until it is sent.
Begin(p) == [p EXCEPT !.sending = TRUE, !.left = Head(p.q).size]

\* Mutant: a queue that is going on forgets to start with what it holds.
GoOnLazily(p) == [p EXCEPT !.state = "READY"]

GoOn(p) ==
    LET a == [p EXCEPT !.state = "READY"]
    IN  IF a.q # <<>> /\ ~a.sending THEN Begin(a) ELSE a

Pause(p) == [p EXCEPT !.state = IF p.sending THEN "PAUSE_RECEIVED" ELSE "PAUSED"]

ReceiveFrame(p, pause) == IF pause THEN Pause(p) ELSE GoOn(p)

ReceiveData(p, pkt) ==
    LET a == [p EXCEPT !.q = Append(@, pkt)]
    IN  IF p.q = <<>> /\ p.state = "READY" THEN Begin(a) ELSE a

\* Mutant: a PAUSE that came while a packet was being sent is forgotten.
CompleteServiceReady(p) ==
    LET a == [p EXCEPT !.q = Tail(@), !.sending = FALSE, !.left = 0,
                       !.state = IF @ = "PAUSE_RECEIVED" THEN "READY" ELSE @]
    IN  IF a.q # <<>> /\ a.state = "READY" THEN Begin(a) ELSE a

CompleteService(p) ==
    LET a == [p EXCEPT !.q = Tail(@), !.sending = FALSE, !.left = 0,
                       !.state = IF @ = "PAUSE_RECEIVED" THEN "PAUSED" ELSE @]
    IN  IF a.q # <<>> /\ a.state = "READY" THEN Begin(a) ELSE a

-----------------------------------------------------------------------------
(* The input queue; its frames go back on the pipe of its link.            *)

\* Mutant: only a port that is paused already sends the frame.
CrossesHighAgain(in, size) == size > High /\ in.paused

CrossesHigh(in, size) == size > High /\ ~in.paused

\* Mutant: the port goes on one unit too late.
FallsBelowLowLate(in, size) == size < Low - 1 /\ in.paused

FallsBelowLow(in, size) == size < Low /\ in.paused

\* receivePacket and completedService set _queuesize and may turn the port around.
SetSize(u, size) ==
    LET in == input[u]
        pause == CrossesHigh(in, size)
        resume == FallsBelowLow(in, size)
    IN  /\ input' = [input EXCEPT ![u] = [size |-> size, paused |-> (in.paused \/ pause) /\ ~resume]]
        /\ back' = IF pause \/ resume
                   THEN [back EXCEPT ![u] = Enter(@, pause, Latency)] ELSE back

-----------------------------------------------------------------------------
(* Initial state and actions.                                              *)

Init ==
    /\ scene \in Scenes
    /\ port = [p \in Ups \cup Outs |->
                  [q |-> <<>>, state |-> "READY", sending |-> FALSE, left |-> 0]]
    /\ input = [u \in Ups |-> [size |-> 0, paused |-> FALSE]]
    /\ wire = [u \in Ups |-> <<>>]
    /\ back = [u \in Ups |-> <<>>]
    /\ fabric = <<>>

\* The upstream switch hands a packet to the output queue of a link.
Inject(u) ==
    /\ Len(port[u].q) < MaxBacklog
    /\ \E o \in Outs, s \in Sizes :
           /\ <<u, o, s>> \in scene.traffic
           /\ port' = [port EXCEPT ![u] = ReceiveData(@, [from |-> u, out |-> o, size |-> s])]
    /\ UNCHANGED <<scene, input, wire, back, fabric>>

Sent(p) == port[p].sending /\ port[p].left = 0

\* An output queue upstream has sent a packet: it is on the wire.
UpstreamSends(u) ==
    /\ Sent(u)
    /\ port' = [port EXCEPT ![u] = CompleteService(@)]
    /\ wire' = [wire EXCEPT ![u] = Enter(@, Head(port[u].q), Latency)]
    /\ UNCHANGED <<scene, input, back, fabric>>

\* It arrives at the input queue, which counts it and passes it to the switch.
Arrives(u) ==
    /\ Due(wire[u])
    /\ LET pkt == Head(wire[u]).item
       IN  /\ SetSize(u, input[u].size + pkt.size)
           /\ fabric' = Enter(fabric, pkt, SwitchDelay)
    /\ wire' = [wire EXCEPT ![u] = Tail(@)]
    /\ UNCHANGED <<scene, port>>

\* The switch puts a packet into its output queue.
Switches ==
    /\ Due(fabric)
    /\ LET pkt == Head(fabric).item
       IN  port' = [port EXCEPT ![pkt.out] = ReceiveData(@, pkt)]
    /\ fabric' = Tail(fabric)
    /\ UNCHANGED <<scene, input, wire, back>>

\* An output queue of the switch has sent a packet: its input queue is told.
SwitchSends(o) ==
    /\ Sent(o)
    /\ port' = [port EXCEPT ![o] = CompleteService(@)]
    /\ LET pkt == Head(port[o].q)
       IN  SetSize(pkt.from, input[pkt.from].size - pkt.size)
    /\ UNCHANGED <<scene, wire, fabric>>

\* A frame of the input queue reaches the output queue of its link.
FrameArrives(u) ==
    /\ Due(back[u])
    /\ port' = [port EXCEPT ![u] = ReceiveFrame(@, Head(back[u]).item)]
    /\ back' = [back EXCEPT ![u] = Tail(@)]
    /\ UNCHANGED <<scene, input, wire, fabric>>

\* The next switch pauses an output queue of this one, and lets it go on.
DownstreamPauses(o) ==
    /\ o \in scene.paused /\ port[o].state = "READY"
    /\ port' = [port EXCEPT ![o] = ReceiveFrame(@, TRUE)]
    /\ UNCHANGED <<scene, input, wire, back, fabric>>

DownstreamResumes(o) ==
    /\ port[o].state # "READY"
    /\ port' = [port EXCEPT ![o] = ReceiveFrame(@, FALSE)]
    /\ UNCHANGED <<scene, input, wire, back, fabric>>

\* Something happens later, and nothing now: the clock moves.
Tick ==
    /\ ~Due(fabric) /\ \A u \in Ups : ~Due(wire[u]) /\ ~Due(back[u])
    /\ \A p \in Ups \cup Outs : ~Sent(p)
    /\ \/ fabric # <<>>
       \/ \E u \in Ups : wire[u] # <<>> \/ back[u] # <<>>
       \/ \E p \in Ups \cup Outs : port[p].sending
    /\ fabric' = Later(fabric)
    /\ wire' = [u \in Ups |-> Later(wire[u])]
    /\ back' = [u \in Ups |-> Later(back[u])]
    /\ port' = [p \in Ups \cup Outs |->
                   [port[p] EXCEPT !.left = IF port[p].sending THEN @ - 1 ELSE @]]
    /\ UNCHANGED <<scene, input>>

System ==
    \/ \E u \in Ups : UpstreamSends(u) \/ Arrives(u) \/ FrameArrives(u)
    \/ \E o \in Outs : SwitchSends(o)
    \/ Switches
    \/ Tick

Next ==
    \/ System
    \/ \E u \in Ups : Inject(u)
    \/ \E o \in Outs : DownstreamPauses(o) \/ DownstreamResumes(o)

\* The event list runs every event in turn, and downstream ports are paused for
\* some time only: this switch is not part of a cycle of paused ports.
Fairness == WF_vars(System) /\ \A o \in Outs : WF_vars(DownstreamResumes(o))

Spec == Init /\ [][Next]_vars /\ Fairness

-----------------------------------------------------------------------------
(* Properties.                                                             *)

Port == [q: Seq(Packet), state: {"READY", "PAUSED", "PAUSE_RECEIVED"},
         sending: BOOLEAN, left: Nat]

TypeOK ==
    /\ scene \in Scenes
    /\ port \in [Ups \cup Outs -> Port]
    /\ input \in [Ups -> [size: Int, paused: BOOLEAN]]
    /\ wire \in [Ups -> InTransit(Packet)]
    /\ back \in [Ups -> InTransit(BOOLEAN)]
    /\ fabric \in InTransit(Packet)

\* An output queue is serving exactly when it may and has something to serve, or
\* when the PAUSE came during the packet: beginService's assertion never fails,
\* and no queue that may send sits idle over its packets.
PortConsistent(p) ==
    /\ p.state = "READY" => (p.sending <=> p.q # <<>>)
    /\ p.state = "PAUSED" => ~p.sending
    /\ p.state = "PAUSE_RECEIVED" => p.sending /\ p.q # <<>>

\* What an output queue will know once every frame on its way has arrived.
Told(u) == IF back[u] = <<>> THEN port[u].state # "READY" ELSE Last(back[u]).item

\* The two ends of a link never disagree for longer than the frames take: the
\* last frame says what the input queue decided (sendPause, receivePacket), and
\* each output queue is serving exactly when it should.
PauseAgreement ==
    /\ TypeOK
    /\ \A p \in Ups \cup Outs : PortConsistent(port[p])
    /\ \A u \in Ups : Told(u) <=> input[u].paused

\* What a packet, or the packets of a list, count at input queue u.
Share(pkt, u) == IF pkt.from = u THEN pkt.size ELSE 0

Bytes(q, u) == SumFunction([i \in DOMAIN q |-> Share(q[i], u)])

Items(line) == [i \in DOMAIN line |-> line[i].item]

\* _queuesize of an input queue is the data of its packets inside the switch, in
\* whichever output queue they wait; a port that is paused holds at least Low.
InputExact ==
    \A u \in Ups :
        /\ input[u].size = Bytes(Items(fabric), u) + SumFunction([o \in Outs |-> Bytes(port[o].q, u)])
        /\ input[u].paused => input[u].size >= Low
        /\ input[u].size > High => input[u].paused

MaxSize == CHOOSE s \in Sizes : \A t \in Sizes : t <= s

\* A packet never finds the buffer overflowing ("LOSSLESS not working"): above
\* the threshold only what crosses it, what the wire can carry until the frame
\* has arrived and the packet then being sent come in.
HeadroomSuffices == \A u \in Ups : input[u].size <= High + 2 * MaxSize + 2 * Latency

\* Every PAUSE ends, whatever other ports and the ports downstream do.
EveryPauseEnds == \A u \in Ups : input[u].paused ~> ~input[u].paused
=============================================================================
