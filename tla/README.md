# TLA+ models of htsim's UEC stack

htsim (`src/htsim/sim`) is a single-threaded discrete-event network simulator.
Its maintained part, as the repository's README says, is the Ultra Ethernet
(UEC) transport with sender-based (NSCC) and receiver-based (RCCC) congestion
control over trimming fat trees; the older transports are kept but not
maintained. This directory holds TLA+ models of that part, translated from the
C++ source, the TLC runs that check them and TLAPS proofs of what matters most.

All concurrency in the simulator is that of its events: a handler runs to its
end, then the event list chooses the next one. A model has one action per event
(a packet arrives, a timer fires, a port falls idle, a message falls due), and an
action is the whole handler with every call it makes. In most modules simulated
time is abstracted to the order in which events may happen, so they also cover
link speeds, queue lengths and delays nobody has simulated. `UecRecovery` keeps
time, because its properties are about timers: there the event list itself is
modelled and every step takes its next event. `LosslessPfc` keeps it too, because
how much a lossless buffer must hold depends on latencies.

`S` below stands for `src/htsim/sim`.

## Inventory

| component | state it keeps | operations | what makes it hard | what makes it correct |
|---|---|---|---|---|
| UEC sender and receiver of a flow, NSCC (`S/uec.cpp`, `uec.h`, `uecpacket.*`) | `_tx_bitmap`, `_send_times`, `_rtx_queue`, `_in_flight`, `_cwnd`, `_backlog`, one timer; at the sink `_expected_epsn`, the out-of-order bitmap, byte counts, the ack policy | start, data, retransmission, RTS, ACK with selective acks, NACK, timeout; at the sink data, trimmed packet, RTS | reordering, loss, trimming, duplicates, spurious timeouts, an RTS that takes a sequence number but carries no data | nothing forgotten, no number both outstanding and queued, the timer stands for the oldest record, exact in-flight count, sound and eventual finish |
| UEC credit, RCCC (same files: `computePullTarget`, `UecPullPacer`) | `_credit`, `_pull`, `_pull_target`, speculation; at the sink `_highest_pull_target`, `_latest_pull`, `_in_pull`, `_in_slow_pull`; the pacer's active and idle lists | spend and gain credit, ask, pull, serve active, serve idle | a request racing the end of the previous one, pulls out of order, integer division, flows competing | flags agree with lists, demand is served, no sender ahead of its credit, no credit unasked while others wait, every flow finishes |
| UEC NIC (same files: `UecNIC`) | busy ports, `_active_srcs`, `_control`, `_crt` | request, start, refuse, control packet, port idle | senders call the NIC inside their handlers and it calls them back; several ports; two classes of traffic | work conserving, no lost wake-up, NIC and sender agree, no starvation |
| UEC messages (`S/uec_pdcses.*`, `uec_base.h`) | per message its state and packets; queues of scheduled, triggered and eligible messages; the map from sequence numbers to messages; byte counters | enqueue, due, trigger, next packet, received, cumulative and selective ack, finished | messages become eligible while others are sent or acked; the connection goes idle and is restarted | the tracker's books and the sender's agree, a message is in one place, triggers are causal, the assertions hold, every message finishes |
| SLEEK loss detection and probes (`uec.cpp` 1460-1549, 2181) | `_loss_recovery_mode`, recovery point, probe timer | mark lost, probe, answer | a second mechanism that queues for retransmission | as for the flow; timers are live and never early |
| path selection (`S/uec_mp.*`, `buffer_reps.*`) | an index and a mask over the paths, penalties and their count, the ring of fresh entropies, the list of paths to use again | next entropy, feedback, freeze and thaw | wrap-around, freezing, counters kept beside the data | spraying is even, counters agree with the data, penalised paths are avoided |
| event list (`S/eventlist.*`) and triggers (`trigger.*`) | pending sources by time, LIFO of triggers, count of traffic sources | schedule, cancel by source, time or handle, run; activate | a handle outlives its event; a trigger inside a handler | time never goes back, nothing runs twice, triggers run before the next event |
| composite queue (`S/compositequeue.*`) | low (data) and high (header) list, byte counts, packet in service | receive, begin and complete service | the packet at the tail may be trimmed instead of the arriving one, while it is in service | bytes counted exactly, limits kept, what is served is there |
| lossless queues and PFC (`queue_lossless_input.*`, `queue_lossless_output.*`, `callback_pipe.*`) | pause state and byte count of an input, queue and pause state of an output, pause frames on their way | receive, serve, pause, resume | thresholds with delayed control; one packet counted by one queue and held by another | both ends agree on PAUSE, counts exact, nothing overflows within the headroom, every pause ends |
| pipes and packet pools (`pipe.*`, `network.*`, `circular_buffer.h`) | ring of packets and times; free lists with reference counts | receive, deliver; allocate, free | ring growth while in use; stale fields in reused packets | FIFO, one pending event while not empty |
| reorder bitmap (`reorder_bitmap.h`) | a growing ring of flags and a base | get, set, setBase | positions alias after the base moves | equals the set of numbers received |
| in-network all-reduce (`datacenter/inc_switch.cpp`, `uec_inc_src.cpp`, ...) | per block the sum and who was heard; completed blocks; at a source its records, timer and answers | contribute, combine, multicast, made-up ack, timeout | packets of one block take different ways up, repeats, drops, a NIC that calls out of turn | every participant counted once, sources settle, nothing is held back |
| NSCC window update (`uec.cpp` 1156-1410) | `_cwnd`, `_achieved_bytes`, `_increase`, moving averages | fair increase, proportional increase, multiplicative decrease, quick adapt | floating-point and integer arithmetic at its limits | window within its bounds |
| drop-tail, priority, ECN, random queues (`queue.*`, `prioqueue.*`, ...) | a queue and its bytes | receive, serve | variants of one design | bytes conserved |
| oversubscribed CC, PCIe model (`oversubscribed_cc.*`, `pciemodel.*`) | rate, backlog | account, adapt | rates on the receiver side | rate within its bounds |
| topologies and switches (`datacenter/*_topology*`, `*_switch*`) | static tables, route caches | build, route | large, arithmetic, repeated in variants | a route reaches its destination |
| drivers and matrices (`datacenter/main_*.cpp`, `connection_matrix.*`) | set-up | parse, build, run | command-line handling | - |
| LogGOPSim driver (`S/lgs`, `logsim-interface.*`, `atlahs_htsim_api.*`) | external trace simulator's queue | send, receive, compute | two event queues in step | - |
| other transports (`tcp`, `mtcp`, `ndp`, `eqds`, `swift`, `roce`, `hpcc`, `strack`, `dcqcn`) | as their protocols | as their protocols | - | unmaintained, by the repository's README |
| loggers, parsers | output | output | - | - |

How they interact. The driver creates a `UecNIC` per host, a `UecSrc`/`UecSink`
pair per connection and, under RCCC, a `UecPullPacer` per receiving host. A
source asks its NIC before it sends (`requestSending`) and, when refused, is
called back (`timeToSend`); it asks its `UecMultipath` for the path of the packet
and tells it what acks and nacks report. The sink's acks, nacks and pulls go
through the receiving host's NIC as control packets. Packets travel through
composite queues, which may trim a data packet to its header or drop it, and
pipes; a trimmed packet reaches the sink and is nacked. On lossless fabrics
input and output queues with PAUSE frames take the place of the composite queue.
With `-conn_reuse` a `UecPdcSes` sits on top of a source and owns its backlog; it
calls the source to start or go on, and the source and the sink call it for
every packet sent, received and acked. In the all-reduce the switches themselves
add up packets and a `UecIncSrc`, called by a `UecIncNIC`, takes the result for
its acknowledgement. Everything is driven by callbacks from the event list.

## Modules

| module | models | state | actions |
|---|---|---|---|
| `UecTransport` | one NSCC flow: `UecSrc`, its one-port NIC, `UecSink`, a fabric that reorders, loses and trims | `src`, `sink`, `net`, `faults` | `StartConnection`, `PortFree` (the NIC's event), `OtherTraffic` (another user of the port), `ReceiveAck`, `ReceiveNack`, `TimerExpires`, `ReceiveData`, `ReceiveTrimmed`, `ReceiveRts`, `Lose`, `Trim` |
| `ReliableFlow` | what a flow promises, without windows, timers or packets | `offered`, `control`, `delivered`, `completed` | `Offer`, `Receive`, `Complete` |
| `UecCredit` | several RCCC flows to one receiver and its `UecPullPacer` | `src`, `sink` per flow, `pacer`, `net`, `faults` | `StartConnection`, `TimeToSend`, `ReceiveAck`, `ReceiveNack`, `ReceivePull`, `ReceiveData`, `ReceiveTrimmed`, `ReceiveRts`, `TimerExpires`, `PacerEvent`, `Trim`, `Lose`, `LosePull` |
| `UecNIC` | a host's NIC with several ports, its senders and control packets | `host`, `losses` | `PortDone` (the NIC's event), `Grow`, `Shrink` (the window or the work changes), `Acked`, `Nacked`, `TimerExpires`, `ControlPacket` |
| `UecIncNIC` | the NIC of an all-reduce host, which extends `UecNIC` | as `UecNIC` | `IncPortDone` and the actions of `UecNIC` |
| `EventList` | `EventList` and the `Trigger` classes, as operators on a record | (the record) `now`, `end`, `pending`, `targets`, `traffic`, `shots` | operators `SourceIsPending`, `HandleFor`, `CancelByHandle`, `Pop`, `PopTarget`, `Activate` |
| `UecRecovery` | several flows in simulated time on one `EventList`: retransmission timers, SLEEK, probes, end triggers | `sim` (event list, senders, NIC port), `sink`, `mode`, `faults` | `TriggerFires`, `SrcEvent` (either timer of a source, or its start), `NicEvent`, `LoggerEvent`, `DataArrives`, `AckArrives`, `PacketLost`, `PacketLate` |
| `UecMessages` | `UecPdcSes` and `UecMsg`, composed with `UecTransport` (`INSTANCE`) | `pdc` and the variables of the flow | `Enque`, `Due`, `Activate`, and the flow's actions with their calls into the tracker |
| `PathSelection` | the six implementations of `UecMultipath` and the ring of REPS | `scan`, `ring`, `list`, `crt`, ... | `NextOblivious`, `NextBitmap`, `NextReps`, `NextRepsLegacy`, `NextRecycled`, `NextEcmp`, `Report` (feedback on a packet), `Thaw` |
| `CircularBuffer` | `CircularBuffer<T>`, the ring of queues and pipes, as operators | (the record) slots, push, pop, count, size | `Push`, `Pop`, `PopFront`, `Grow` |
| `ReorderBitmap` | `ReorderBitmap<MaxSize>`, as operators | (the record) base, size, buf | `Get`, `Put`, `ClearRange`, `SetBase`, `GrowTo` |
| `CompositeQueue` | the trimming queue, as operators | (the record) low, high, lowBytes, highBytes, serv, crt | `ReceivePacket`, `BeginService`, `CompleteService` |
| `Spraying` | the three above composed: a flow over several paths, each a composite queue and a pipe, into the receiver's reordering | `queue`, `pipe`, `pending`, `sink`, `next` | `SendNew`, `SendAgain`, `CrossTraffic`, `QueueEvent`, `PipeEvent` |
| `LosslessPfc` | a switch with lossless input and output queues, its links and the frames on their way back, in time | `port`, `input`, `wire`, `back`, `fabric` | `Inject`, `UpstreamSends`, `Arrives`, `Switches`, `SwitchSends`, `FrameArrives`, `DownstreamPauses`, `DownstreamResumes`, `Tick` |
| `IncReduce` | the switches and sources of an all-reduce | `up`, `down`, `table`, `completed`, `flow` | `SendNew`, `SendRtx`, `RtxTimerExpired`, `Contribution` (a switch combines, passes on or multicasts), `PassDown`, `Result`, `Drop` |

| proofs | about |
|---|---|
| `ArithmeticTheorems` | lemmas the others share: induction over the naturals and over finite sets, sums over sets and sequences, indices of rings |
| `UecTransportProofs` | `UecTransport`: the sender's handlers, the invariants, the theorems and the refinement |
| `UecCreditProofs` | `UecCredit` |
| `NicAndReduceProofs` | `UecNIC`; `IncReduce`, in any tree, whose specification is `ReduceSpec` |
| `LosslessPfcProofs` | `LosslessPfc` |
| `UecRecoveryProofs` | `UecRecovery` with its event list and triggers: handles, timers, barriers |
| `MultipathProofs` | the data structures (a ring is a sequence, a bitmap is a set) and `Spraying` from these; `PathSelection`: the exclusive or, the scan, the ring of REPS |
| `UecMessagesProofs` | `UecMessages`: the messages and the lists of the tracker |

A method of the code is an operator that maps a record (the object) to the
record the method leaves; a handler composes them in the order of the calls. The
operators keep the names of the methods: `SendIfPermitted`, `QueueForRtx`,
`HandleCumulativeAck`. Packets a handler sends collect in the field `out` and go
to the fabric when it ends.

What is abstracted, and why that is sound:

- Sizes. Bookkeeping tells a full packet from a header, so `PktSize` and
  `HdrSize` are all there is in the transport; where sizes decide (the composite
  queue, lossless thresholds) they are numbers.
- Time. In `UecTransport` `send_time` is a counter of sends, so records are
  ordered as in the code; a timer may fire at any moment, once an answer can no
  longer arrive or, up to `MaxSpurious` times, while one is on its way.
- NSCC. What the window update leaves in `_cwnd` is any value of `CwndValues`;
  the decrease by a timeout is modelled as it is. No property depends on which
  value is chosen.
- The fabric of `UecTransport`, `UecCredit` and `UecMessages` is a set: any packet
  may arrive next. An ack that equals another one on its way is one element; a
  lost duplicate is the same as none. `Spraying` is the fabric in detail: each
  path in order, the paths among each other in any.
- In `UecCredit` a sequence number is acknowledged by itself and the timer
  belongs to the packet, since `UecTransport` has both in detail.
- In `UecRecovery` time is an integer. A data packet takes one tick of the one
  port and one tick to its sink; probes and answers take one tick and no port, so
  the order of events at equal times is that of the event list's multimap. The
  window always suffices and nothing is trimmed, so NACKs, `sendRTS` and
  `_in_flight`, which `UecTransport` has, are not reached. When an old probe is
  answered, the code compares the average delay with the target; that delay is
  not modelled and either outcome may follow. The fabric may lose or delay any
  packet, at most `MaxFaults` in a run. A handle is the smallest positive
  number no pending event has, so a stale one may come to name another event,
  as a freed iterator may; using one that is not live sets `fault`.
- In `UecNIC` a sender is what decides its calls: work, window and packets out.
- In `PathSelection` a path is the low bits of an entropy: the upper ones never
  change and `processEv` masks them off. Every `rand()` is a choice. The exclusive or
  of two paths is written as its recursion over the bits (`Xor`), and that
  `_no_of_paths` is a power of two as having no odd divisor but 1, so that the
  proofs can use both.
- In `CompositeQueue` the random choice between the arriving and the last packet is a
  parameter; a list is a sequence, which the theorems about `CircularBuffer` justify. In
  `ReorderBitmap` all positive counts of a slot are one value, TRUE, and
  `idx & (size - 1)` is `idx % size`, every size being a power of two.
- In `Spraying` the sender is any that stays within `Span` of what the receiver
  expects (`UecTransport` has the real one), and events come in any order.
- In `LosslessPfc` the unit of time is what it takes to send one unit of data;
  events due at the same time come in any order.
- In `IncReduce` a sum is the number of times each participant entered it, and a
  source may send whenever it has something to send; its window is not modelled.
- A failed `assert` (assertions are always compiled in, `S/CMakeLists.txt:8-10`)
  sets `fault` or `stopped`, after which nothing happens.

## Runs

| run | instance | states | shows |
|---|---|---|---|
| `uec_transport` | 3 packets, window of 2, 1 RTS, 1 loss, 1 trim, 1 spurious timeout, a selective-ack bitmap of one bit | 145,769 | safety and liveness of the flow, and that it implements `ReliableFlow` |
| `uec_credit` | 2 flows of 2 and 1 packets, 1 or 2 active sources, 1 fault | 187,772 | pacer lists, credit, demand and that every flow finishes |
| `uec_nic` | 2 senders of 2 packets, 2 ports, ratio 1 to 2, 2 waiting control packets, 2 losses | 153,204 | NIC and senders in step, no lost wake-up, no starvation |
| `uec_messages` | 3 messages of 2, 1 and 1 packets; the second triggered by the first being received, the third enqueued later; 1 RTS, 1 loss, 1 trim | 43,240 | the books of tracker and sender agree, messages are in one place, triggers are causal, the assertions hold, all messages finish |
| `uec_recovery` | flows of 5, 1 and 1 packets; the third starts by a barrier of the other two; 4 losses or delays; without an end with and without SLEEK, and with an end at time 10 without SLEEK | 152,412 | timers and event list agree, nothing outstanding is unwatched, no early timeout, barriers are causal, the simulation ends |
| `lossless_pfc` | two links and two outputs of a switch; two links into one output, one link into two outputs paused from downstream, packets of two sizes into one of them; latency 1, thresholds 2 and 1 | 312,016 | both ends agree on PAUSE, input counts are exact, the headroom suffices, every PAUSE ends |
| `spraying` | 5 packets on two paths, a window of 3, rings of size 1, a bitmap of at most 4, a queue of 3 units with packets of 2; one packet sent again, or one large header of another flow | 395,873 | queues count bytes and keep limits, pipes keep order and one event, the bitmap is the set received |
| `paths` | 4 paths, all six implementations, a ring of 3, 2 packets in flight | 240,122 | even spraying, exact skip count, penalised paths avoided, the REPS ring is a queue |
| `inc_reduce` | 3 participants, 2 ToRs and 2 spines, 2 blocks, 2 timeouts or drops | 616,013 | everybody counted once, sources settle, nothing is held back |
| `nic_rtx_assert` | 1 sender, 2 ports, 1 timeout | few | violated: the assertion of `sendRtxPacket` |
| `message_stuck` | 3 messages of 1 packet, 2 spurious timeouts | many | violated: a backlog that nobody serves |
| `inc_nic` | one port, a flow of the all-reduce and a normal one | few | violated: the two kinds of flow can share a host |

What the properties of the newer runs mean:

- `PauseAgreement`: the last PAUSE or resume frame on its way, or what the
  upstream port has been told if there is none, is what the input queue decided,
  and each output queue serves exactly when it may and has something to serve.
  `InputExact`: the byte count of an input queue is that of its packets in the
  switch, in whatever output queue they wait. `HeadroomSuffices`: it never exceeds
  the threshold by more than two packets and two latencies, the margin over the
  threshold a buffer must be given for "LOSSLESS not working"
  (`queue_lossless_input.cpp`) not to be printed.
- `BytesCounted`, `QueuesSound`: the counters by which packets are trimmed are the
  bytes that are there, also after the packet in service was trimmed; the low
  list exceeds its limit by its last packet at most, which has taken the place of
  a smaller one; what is served is there.
- `PipesInOrder`, `BitmapIsSet`: the structures are the sequence and the set they
  stand for, and a pipe has exactly one event pending while it holds packets.
- `AvoidsPenalised`: a packet takes a penalised path only when fewer than half of
  the paths are good. The scan changes the order it goes through (the XOR mask) when
  it wraps, so it can miss good paths; "never while a good path is left" is not
  what the code does, and not what a comment says.
- `RepsIsFifo`: while not frozen, the ring is the queue of the latest reports not
  used; its counts agree with its slots through freezing, replay and thawing.
- `EveryoneCounted`: a result counts every participant, once each unless a timer
  made somebody send twice (the switch adds a repeated packet to an open block);
  no participant is given a block twice. `NothingHeldBack`: when the links are empty and
  nothing was dropped, a block that everybody sent has reached everybody, but for
  blocks whose parts went up through different spines (see below).

Why the bounds are enough. Three packets are the fewest with which a packet can
be missing below and above the one that arrives, so the cumulative ack, the
selective acks and the out-of-order set all differ; with a window of two the
third packet is always sent by an ack, a timer or the NIC. One RTS puts a number
without data among them, and it is lost, acked or retransmitted as data. One
loss, one trim and one spurious timeout in a run combine to the races of the
hazard list (for example a nack and a timeout for the same packet, both copies
arriving). The bitmap of one bit makes its base matter. In `uec_credit` two
flows compete and one of them returns with a new request after its last pull.
With two ports, one becomes free while the sender that holds the other is inside
its handler. In `uec_recovery` five packets and a window of four let SLEEK skip
records above the window; with four faults a packet, its retransmission, a probe
and an answer can all be lost or late in one run, and a delay of 3 makes an answer
arrive after later ones but before the timeout (8) that the loss of it would
cause, so timers are set, moved and cancelled in every order. The logger's period
(7) divides no other delay.

In `lossless_pfc` each scene is the smallest with its difficulty: two links that
compete for one output, one link whose packets wait in two outputs with different
fates, packets larger than the gap between the thresholds. In `spraying` rings of
one slot double several times and wrap in between, five numbers exceed the bitmap
of four, so its slots are used again, and three units of queue are less than two
packets. In `paths` a
ring of three fills, wraps and freezes with reports still to come. In
`inc_reduce` two tiers make a switch both child and parent, two blocks let one
overtake the other, two mishaps let a packet be dropped and sent again or sent
twice. Where a theorem is proved (below), the bounds do not matter.

Deadlock is checked in `uec_transport` (other users keep taking the port), in
`lossless_pfc` (traffic never ends) and in `paths`. The other runs stop when
everything is delivered, so it is not checked there; `EveryFlowFinishes`,
`AllMessagesFinish` and `NoStarvation` say what must have happened. In
`uec_recovery` the empty event list is the end of the simulation: `SimulationEnds`
says it is reached with every flow complete.

Fairness. Each conjunct of a `FairSpec` is weak fairness of one kind of event,
written out with the condition that enables it. It is what the event list gives:
an event that is scheduled is executed after finitely many others, because every
event has a finite time, and no handler can keep scheduling events in the past.
In `UecRecovery` the event list is part of the model and `main` runs
`while (eventlist.doNextEvent())`, so the only assumption is that `Next` goes on
while an event or a target is pending. `LosslessPfc` has time in its steps, so weak
fairness of `System` (some event of the switch, or the clock) is enough, with that of
`DownstreamResumes`: a port downstream is paused for some time only, as the switch
is not part of a cycle of paused ports. Nothing is assumed about which window NSCC
chooses, and nothing makes the fabric lose less than its bounds. `EventuallyDone`
needs that faults stop, which `MaxLosses`, `MaxTrims` and `MaxSpurious` say.
`EveryFlowFinishes` is stated for behaviours in which no pull is lost,
`AllMessagesFinish` for those in which no assertion fails and no RTS is sent:
`message_stuck` shows why.

## Findings

Shown by a run (details in `PROJECT.json`):

- On a NIC with two free ports `rtxTimerExpired` runs into the assertion of
  `sendRtxPacket` (`nic_rtx_assert`).
- A message enqueued after an RTS was left in the retransmission queue is never
  sent (`message_stuck`).
- A normal flow and one of the all-reduce on the same host fail the assertions of
  `startSending` or `cantSend`, though `README_imp.md` says they can coexist
  (`inc_nic`).

Met while modelling, with the property that once showed it or the place to look;
none of the runs above is about them:

- `rtxTimerExpired` (`uec.cpp:2419`) sends an RTS "to cover the case where the
  receiver doesn't know we're waiting" although the packet may just have been sent
  by `queueForRtx`, whose `_in_flight` it then counts twice.
- The pacer's bound of one window of unasked credit (`uec.cpp:3131`) is exceeded
  through duplicate entries in the idle list, which `requestPull` leaves behind.
- `UecPdcSes::checkFinished` (`uec_pdcses.cpp:591`) asserts that every message is
  complete whenever all eligible ones are; a scheduled or triggered one may be
  left. `AssertionsHold` of `UecMessages` therefore excepts it (`messages_left`), and
  `timer_left`: an RTS left behind can be sent again by the NIC after the flow is
  done, its timer then runs, and `isActivelySending` (`uec.cpp:1711`) expects none.
- `UecPdcSes::addSAck` asserts `ackno <= _max_seq_no` (`uec_pdcses.cpp:459`) before it
  looks whether `ackno` is an RTS (462). An ack whose cumulative part leaves no message
  in flight has `_max_seq_no` reset (434-436); when its selective part then names an
  RTS that overtook an earlier one, `handleAckno` (`uec.cpp:685`, `707`) calls `addSAck`
  for it, and a number is not `<=` an empty optional. `AssertionsHold` excepts this too
  (`sack_beyond`). It takes two RTSs under way: `uec_messages`, with one loss, sends one
  only and does not reach it, but the same instance with `MaxRts = 2`, `MaxLosses = 2`
  and three messages of one packet does, in 250,000 states in which the other
  properties of the run hold.
- While SLEEK recovers, `rtxTimerExpired` removes the send time of the oldest packet
  and leaves it to "fast loss recovery" (`uec.cpp:2378-2379`). That resends only
  what was sent before recovery began, so a packet sent since is left without a
  retransmission timer until a probe brings it back.
- If that packet had been resent before, the timer is cleared and not set for the others
  (`uec.cpp:2380-2386`). When `runSleek` then sends it again at once, `queueForRtx`
  starts the idle timer for this new copy (`uec.cpp:2028-2030`) and the comparison with
  `_rto_send_time` after it (1535) no longer sees the old send time: the timer stands
  for the newest packet and the older ones have none until `_min_rto` after that send. `Recover` reads the
  timer after the send, as the code does; `uec_recovery` reaches this case with five
  packets and four faults, and its properties hold in it.
- `sendProbe` and `processAck` keep the handle of a probe timer without looking
  whether the event list took it. Past the end of the simulation it did not, and the
  next acknowledgement cancels `_pendingsources.end()` (`uec.cpp:1109`).
  `uec_recovery` therefore has no scene with both SLEEK and an end.
- A timeout is reported to the path selection as `UNKNOWN_EV`, which the
  implementations mask to path 0 (`uec.cpp:2360`): `PathSelection` penalises path 0,
  whichever path the packet took.
- The guard of the receive bitmap (`uec.cpp:2619`) compares packets with bytes.
- All-reduce. `UecIncSrc::receivePacket` raises `_recvd_bytes` before the made-up
  ack carries it (`uec_inc_src.cpp:114-115`), so `_in_flight` is never lowered. A timer
  that expires with no send record fails the assertion at `uec.cpp:2351` (`stopped` in
  the model). A block whose parts went up through different spines is never reduced
  (`Split` in `NothingHeldBack`). The made-up ack is cumulative, so a flow may finish
  although an earlier block was never reduced. A retransmission is added twice to a
  block still open.
- A low threshold of 0 would leave a paused port paused for ever
  (`queue_lossless_input.cpp` asserts only that it is below the high one), so `LosslessPfc` assumes it
  positive.

## Proofs

All theorems are for every value of the constants allowed by the module's ASSUME,
in particular any number of packets, flows, ports, paths, faults and any window.

`UecTransport`. The invariants the runs check are not inductive. The inductive
one (`Inv`, `UecTransportProofs`) is

- `Shape(src)`: types, records and send times correspond one to one, send times
  are distinct and older than the clock, no number is both outstanding and queued,
  every number is below `highestSent`, numbers without data are counted;
- `TimerRight(src)`: the timer is the earliest send time;
- `Exact(src)`: the in-flight equation, over the sender's own count of what
  was received;
- `Finished(src)`: done means no backlog, records or queue;
- the receiver's books are well formed, and every packet in the fabric is
  `Truthful`: it names a number handed out, an ack claims only what the receiver
  has;
- whatever the sender has forgotten the receiver has.

`Truthful` is what makes acks safe in any order: the receiver never loses what it
has, so a true ack stays true. The sender's operators are treated one by one:
each lemma says that an operator keeps the sender's part
and what it forgets or hands out, and the relations compose, so a handler
follows from the operators it calls. The receiver and
the fabric are added with one lemma per kind of action. From it follow
`NeverInBothAlways`,
`TimerTracksOldestAlways`, `InFlightExactAlways`, `NothingForgottenAlways`,
`FinishIsSoundAlways`, `ReceiverNeverForgetsAlways`, `TypeOKAlways`. The refinement
`ImplementsReliableFlow` maps a state to `offered = highestSent`, `control = ctrl`,
`delivered` = what the sink has of it, `completed = done`: a sender's step is
`Offer`, `Complete` or a stutter, a receiver's step `Receive` or a stutter.

Two more properties need to know what the receiver has been through. `CountedOnceAlways`:
what the receiver has counted is worth what it has, give or take the bytes of
numbers that were spent on an RTS (`Counts`; such a number may come as a header
first and not as data, or as data first). `NeverStuckAlways` is the deepest of
them, because a sender that is neither timed nor registered could still be one
whose window is full of bytes that no ack will ever free. It rests on three
invariants beside `Inv`: `History` (the receiver's counts that acks report are
those of some growing sequence of sets, so a later ack never reports less, and
an ack that reports all reports what is there), `Holes` (the first number the
receiver misses is one no ack of the fabric makes the sender forget), `Alive` (a
flow not finished has something outstanding, or nothing it may send, or its turn
at the NIC to come). With nothing outstanding and nothing queued the in-flight
equation leaves room in the window, so the handler that ran last has sent.

`UecCredit`. Here `Inv` (`UecCreditProofs`) says for every flow that what it has
spent and still has does not exceed what it was granted, by less than a packet,
with no pulls while it speculates (`Fits`); that flags, lists, running and events
of the pacer match (`Served`); that pulls in the fabric do not exceed what the
receiver has given. From it: `CreditTypeOK`, `ListsMatchFlagsAlways`,
`DemandIsServedAlways`, `CreditCoveredAlways`, `NoCreditBeyondDemandAlways`.

`UecNIC`. `Sound(h)` (`NicAndReduceProofs`) says that while a port is free nothing waits
(`PortsSound`), that every sender that is blocked or can send is on the list
(`SenderSound`), and that no assertion has failed. It holds between the calls a
handler makes as well as between events, except for the one sender the handler is
about, so the lemmas carry it through each call with that sender left out. A
retransmission timer may fail the assertion `nic_rtx_assert` shows, after which
nothing happens; hence `Good(h)`: that fault or `Sound(h)`. From it `WorkConserving`,
`NoLostWakeup` and `InStep`, which says that no other assertion between senders
and NIC can fail.

`LosslessPfc`. `PauseAgreement` is inductive together with `Pipes`, the types and
delays of what is in the pipes. A crossing of a threshold changes the input's state
and appends a frame, so what the upstream port will have been told changes with
it; an arriving frame moves the truth from the pipe to the port.
`InputsCountExactly` adds `Counts`: the size of an input is the sum of its packets
in the switch fabric and in all output queues (`Exact`), a packet belongs to the
link it came by, and an input is paused as its size says. Sums over lists and over
the outputs change by one packet at a time. `HeadroomIsEnough` needs
the motion of packets on the wire: they are no closer to each other than
they were sent (`Spaced`, `Behind`), so what may still come in after a PAUSE is
what is on the wire, the rest of the packet being sent and what can begin until
the frame arrives (`Rest`); once paused, size, wire and rest together stay
within the threshold, two packets and two latencies (`Owes`).

`UecRecovery`. The invariant (`Inv`, `UecRecoveryProofs`) is `SimSound` of the event
list and the senders together, with a sink that claims no more than was sent. Of the
list (`ListSound`): events are in the order of their times, none is past, each has its
own handle. Of a sender: its books (`Books`); its timer was set for a packet whose send
time is kept (`Recorded`), not before `_min_rto` (`NotEarly`), and its event is in the
list (`RtoLive`), as is that of the probe timer, which is another one (`ProbeLive`); what
is outstanding is watched by one of the two, or lies too close to the end for a timer
(`Watched`); before it has sent anything its only event is its start (`StartsOnce`),
which is why `UecSrc::doNextEvent`, which only looks at `_highest_sent`, starts a flow
once. Of the port: who is blocked or wants to send waits, and nobody waits while it is
idle (`PortSound`), so `startSending` meets the right source. Of the packets: they name what was
sent (`Truthful`). Of the triggers: one has been activated once for every flow done
that leads to it, and who has been started by it was due (`TriggersSound`). Handles are
the delicate part: an entry put into the list takes the smallest free one and moves the
others, cancelling takes one out, and both must leave alone every timer but that of the flow in
question; `ProbeLive` says that its handle is not the one of the retransmission timer, so cancelling
the one never removes the other. A handler breaks `Recorded` and `Watched` of its
flow between two calls (a record is gone before `recalculateRTO` runs), so each lemma
says what its operator requires and restores. Where the timer is looked at after a packet
may have been sent (`Recover`), the lemmas say that it stands for what it stood for or
for a packet whose send time is kept (`Retimes`). From `Inv` follow `AssertionsAlwaysHold` and
`TimersAreAlwaysLive`; `TimeoutsAreNotEarly`, an action property, follows step by step.
`TriggerAssumption` says what connection matrices give: a flow has a start time or is one
target of one trigger, and no more flows lead to a trigger than its own assertions
(`trigger.cpp`) allow. The theorems have one hypothesis, that no scene has both SLEEK
and an end: with both the code does use a handle it was never given (see Findings).

`UecMessages`. The invariant (`Sound`, `UecMessagesProofs`) is about the tracker alone,
because the tracker checks what it is told: a packet it does not own or has counted
is passed over. `MsgSound`: the packets of a message are sent, received and acked in
turn, the sets of those not yet received and not yet acked have as many members as
the counts say and do not meet, and the status is the one the counts give. `Placed`: the
queue, the set in flight and the list of complete messages hold each message once
and where its counts say. `Awaiting`: a triggered message waits exactly until
the message it names has come so far, or its activation is on the list `fired`, once. A
status is reached once, so a trigger fires once; that is what the proof follows through
each handler. A handler treats several sequence numbers in turn (`InOrder`, a recursive
function), so what each step keeps is carried through by induction (`InOrderSteps`,
`StaysIn`). From it `MessagesKeepCausalOrder`, `MessagesAreInOnePlace` (the first conjunct
of `BooksAgree`) and `MessageAssertionsAlwaysHold`, for those assertions of `AssertionsHold`
that are about a message.

`CircularBuffer`. A ring in order (`IsRing`) stands for `Contents`. `PushAppends`,
`PopTakesOldest` and `PopFrontTakesYoungest` say what the operations do to it,
through any growth. The heart is `GrowKeeps`: doubling moves exactly the
items that had wrapped.

`ReorderBitmap`. A bitmap `Represents` a set of numbers within its window. `GetReads`,
`PutAdds` and `BaseMoves` say what the operations do to it; they rest on
`OwnSlot` (numbers less than `n` apart differ modulo `n`) and on `GrowToKeeps`.

`Spraying`. `Inv` (`MultipathProofs`) has a part for each object: `SinkGood` (expected
number, bitmap and count stand for the set that has arrived, which is what the
three theorems about the bitmap keep), `PipeGood` (a ring whose contents are on the
wire, one event while there are any), `QueueGood` (types, limits, service, and that
the low counter is the sum of the list, without which the last packet might be
taken from an empty list). The one delicate step is
`AdvanceKeeps`: the loop over `_expected_epsn` may ask the bitmap for the number one
past its window; it answers no, because that number has the slot of the base.
From it `QueuesStaySound`, `PipesStayInOrder`, `BitmapStaysSet` and, with the sums of
both lists, `BytesStayCounted`.

`PathSelection` (also in `MultipathProofs`, where its specification is `SelectSpec`). `Xor` is defined by recursion over the bits; it is
shown to be a total function, to stay among the paths when their number is a power
of two (`XorIsPath`) and to be its own inverse (`XorTwice`), so any mask gives
an order in which every path comes once (`XorOrder`). `OrdersAreEven`: the packets
of the order begun are one on each path passed, and none is left when the next
mask is drawn. `SkipCountKept`: the count moves exactly when a penalty leaves or
reaches zero. `PenalisedAvoided`, an action property, is a pigeonhole argument: a
scan that gives up has found penalised all places from its own to the end of the
order and, under the next mask, as many as lay before it and one more; one
of the two is more than half of the paths. `RingIsFifo`: slots are written from the
first (`Placed`), and while the ring is not frozen the valid ones are those of the
unused reports in order (`Queue`); the oldest is overwritten exactly when all slots are
fresh.

`IncReduce` (also in `NicAndReduceProofs`), in any tree, for any number of blocks and mishaps. The
invariant follows the share of one host in one block. `Shares`: it is in one place
only, a packet on a link up or an entry of a table, and what a switch has heard
from a child agrees with what the child has sent. `Weighed`: what is there counts every
host below, once while no timer has fired, and no other. `Returned`: on the way down a host
is headed for by one copy of a block and all copies have the sum that was made
at the top. From these `EveryoneIsCounted`. `SourcesSettle` adds `Settles`, and that
a host has sent everything before it gets the last block. `NothingIsHeldBack` adds
`Somewhere`: as long as nothing was dropped every share that was sent waits on a link,
has been completed above, or is held by a switch that waits for another child. When
the links are empty the shares of a block all wait in tables; the highest such
switch waits for a child all of whose shares are with another switch, which
`Split` excepts. Only this theorem uses `TierAssumption`: where a
switch `s` shares hosts with a child of `t`, either `s` covers no host beyond that
child or it covers all that `t` does, as the tiers of a fat tree do.

Induction. The provers cannot instantiate the library's induction theorems, which
take an operator. `ArithmeticTheorems` therefore states induction with a set in its place
(`NaturalsByInduction`, `FiniteSetsByInduction`): the least counterexample
exists because `<` is well-founded on the naturals. What a recursive function
(`Xor`) or a fold (`SumFunctionOnSet`) computes is proved from that: a
function that satisfies the recursion is built up to `n`, so the one `CHOOSE`
picks satisfies it too.

Only model-checked: all liveness properties, which are out of the prover's reach as
`ENABLED` and fairness are, and of `UecMessages` what relates the tracker to the sender:
`BooksAgree` beyond its first conjunct, and the assertions in `AssertionsHold` that compare the
two. `Inv` of `UecTransportProofs` is not an invariant there: a connection is finished
and started again, and may keep the record of an RTS in between.

## Not modelled

Each with its reason in `PROJECT.json`:

- The NSCC window arithmetic and the receiver's rate control (`oversubscribed_cc`,
  `pciemodel`): doubles, moving averages and picoseconds; the models are checked for
  any window.
- Topologies, routing, drivers, connection matrices: static set-up.
- The older transports, with the queues only they use (drop-tail, priority, random,
  fair, ...): not maintained, by the repository's README. They and the copies of
  the topologies (`_sh`, `_mg`, ...), the LogGOPSim driver with its generated
  parsers and the loggers are most of the repository's lines, so the share of it that
  these modules cover is small and would not grow by modelling more of what runs.
- Packet pools. A packet keeps `_is_inc` when it is freed, which matters where an
  all-reduce shares the fabric with other flows (`network.h:73`).
- In modelled parts: returning headers to the sender (nothing calls `setRTS`),
  entropies of REPS used more than once and compression of its ring (no driver calls the
  setters), `LosslessQueue`, the older one-object variant, `IncCompositeQueue`
  (`IncSwitch` takes every packet it would intercept), cancelling events by source or by
  time (not reached from the modelled code), ECN marks, statistics.

## Plan

1. Done: the core (`UecTransport`, `UecCredit`, `UecNIC`, `UecMessages`, `EventList`,
   `UecRecovery`), the fabric (`CompositeQueue`, `CircularBuffer`, `ReorderBitmap`,
   composed in `Spraying`; `LosslessPfc`), `PathSelection`, the all-reduce (`IncReduce`,
   `UecIncNIC`), with the proofs above.
2. Proofs still worth having: the rest of `BooksAgree`, for which the lemmas of
   `UecTransportProofs` must be carried to the instance of it in `UecMessages`, with a
   weaker `Finished`.
3. Models: the window of an all-reduce source, with the in-flight count that is never
   lowered; several connections in `UecMessages`; the packet pools; the NSCC update
   as operators on integers with the bounds of its result.
