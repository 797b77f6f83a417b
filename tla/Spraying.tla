------------------------------ MODULE Spraying ------------------------------
(***************************************************************************)
(* A flow sprayed over several paths: on each path a composite queue that  *)
(* trims and a pipe, at the end the receiver that puts packets in order.   *)
(* Source: sim/compositequeue.cpp, sim/pipe.cpp, sim/reorder_bitmap.h and  *)
(* UecSink::processData, processTrimmed (sim/uec.cpp).                     *)
(*                                                                         *)
(* The sender is any that stays within Span of the receiver: it sends new  *)
(* numbers in order, old ones again, each on any path.  Other flows send   *)
(* headers through the same queues.  Events happen in any order.           *)
(***************************************************************************)
EXTENDS CompositeQueue, CircularBuffer, ReorderBitmap, FiniteSets, FiniteSetsExt

CONSTANTS
    Routes,
    NPkts,           \* packets of the flow; the last one is short
    DataSize, LastSize,
    CrossSize,       \* size of the headers of other flows
    Span,            \* how far the sender goes beyond what the receiver expects
    PipeSize,        \* slots a pipe starts with
    Budgets          \* bounds: packets sent again, headers of other flows

ASSUME SprayingAssumption ==
    /\ NPkts \in Nat \ {0} /\ PipeSize \in Nat \ {0}
    /\ {DataSize, LastSize} \subseteq 1 .. MaxQ
    /\ CrossSize \in Nat \ {0}
    /\ Span \in 0 .. MaxSize - 1
    /\ Budgets \subseteq [again: Nat, cross: Nat]

VARIABLES
    queue,     \* per path, its CompositeQueue
    pipe,      \* per path, the ring of a Pipe
    pending,   \* per path, how many events of the pipe are on the event list
    sink,      \* UecSink: expected, bitmap, ooo (_out_of_order_count)
    next,      \* the sender's next new sequence number
    budget,    \* what the bounds leave: again, cross
    inPipe,    \* history: per path, the packets on the wire in order
    got        \* history: the numbers whose data has arrived

vars == <<queue, pipe, pending, sink, next, budget, inPipe, got>>

Cross == -1    \* the number of a header that is not the flow's

Data(s) == [seq |-> s, size |-> IF s = NPkts - 1 THEN LastSize ELSE DataSize, header |-> FALSE]

OtherHeader == [seq |-> Cross, size |-> CrossSize, header |-> TRUE]

Init ==
    /\ queue = [p \in Routes |-> EmptyQueue]
    /\ pipe = [p \in Routes |-> Empty(PipeSize)]
    /\ pending = [p \in Routes |-> 0]
    /\ sink = [expected |-> 0, bitmap |-> NewBitmap, ooo |-> 0]
    /\ next = 0
    /\ budget \in Budgets
    /\ inPipe = [p \in Routes |-> <<>>]
    /\ got = {}

-----------------------------------------------------------------------------
(* The receiver.                                                           *)

Have(k, s) == s < k.expected \/ Get(k.bitmap, s)

\* The loop over ++_expected_epsn: numbers held out of order are cleared in turn,
\* then the base moves to the first one missing.
Advance(k) ==
    LET e == CHOOSE n \in k.expected + 1 .. NPkts :
                 ~Get(k.bitmap, n) /\ \A i \in k.expected + 1 .. n - 1 : Get(k.bitmap, i)
    IN  [expected |-> e,
         bitmap |-> SetBase(ClearRange(k.bitmap, k.expected + 1, e - 1), e),
         ooo |-> k.ooo - (e - 1 - k.expected)]

ProcessData(k, s) ==
    IF Have(k, s) THEN k
    ELSE IF s = k.expected THEN Advance(k)
    ELSE [k EXCEPT !.bitmap = Put(@, s, TRUE), !.ooo = @ + 1]

\* A trimmed packet is answered by a NACK or an ACK; the receiver stays as it is.
Receive(pkt) ==
    IF pkt.header THEN UNCHANGED <<sink, got>>
    ELSE sink' = ProcessData(sink, pkt.seq) /\ got' = got \cup {pkt.seq}

-----------------------------------------------------------------------------
(* Actions.                                                                *)

Enqueue(p, pkt) ==
    /\ \E boot \in BOOLEAN : queue' = [queue EXCEPT ![p] = ReceivePacket(@, pkt, boot)]
    /\ UNCHANGED <<pipe, pending, sink, inPipe, got>>

SendNew(p) ==
    /\ next < NPkts /\ next <= sink.expected + Span
    /\ Enqueue(p, Data(next))
    /\ next' = next + 1
    /\ UNCHANGED budget

SendAgain(p) ==
    /\ budget.again > 0
    /\ \E s \in 0 .. next - 1 : Enqueue(p, Data(s))
    /\ budget' = [budget EXCEPT !.again = @ - 1]
    /\ UNCHANGED next

CrossTraffic(p) ==
    /\ budget.cross > 0
    /\ Enqueue(p, OtherHeader)
    /\ budget' = [budget EXCEPT !.cross = @ - 1]
    /\ UNCHANGED next

\* CompositeQueue::doNextEvent hands the packet to Pipe::receivePacket, which
\* asks for an event when it was empty.
QueueEvent(p) ==
    /\ queue[p].serv # "INVALID"
    /\ LET pkt == Served(queue[p])
       IN  /\ pipe' = [pipe EXCEPT ![p] = Push(@, pkt)]
           /\ inPipe' = [inPipe EXCEPT ![p] = Append(@, pkt)]
    /\ pending' = [pending EXCEPT ![p] = IF pipe[p].count = 0 THEN @ + 1 ELSE @]
    /\ queue' = [queue EXCEPT ![p] = CompleteService(@)]
    /\ UNCHANGED <<sink, next, budget, got>>

\* The event is gone; another one is asked for while packets are left.
Rearm(n, r) == IF r.count > 0 THEN n ELSE n - 1

\* Pipe::doNextEvent delivers the oldest packet.
PipeEvent(p) ==
    /\ pending[p] > 0
    /\ LET r == Pop(pipe[p])
       IN  /\ pipe' = [pipe EXCEPT ![p] = r]
           /\ pending' = [pending EXCEPT ![p] = Rearm(@, r)]
    /\ Receive(Oldest(pipe[p]))
    /\ inPipe' = [inPipe EXCEPT ![p] = Tail(@)]
    /\ UNCHANGED <<queue, next, budget>>

Next == \E p \in Routes :
    SendNew(p) \/ SendAgain(p) \/ CrossTraffic(p) \/ QueueEvent(p) \/ PipeEvent(p)

Spec == Init /\ [][Next]_vars

-----------------------------------------------------------------------------
(* Properties.                                                             *)

\* The counters by which a queue decides count the packets that are there.
BytesCounted == \A p \in Routes : BytesExact(queue[p])

\* A queue keeps its limits, and serves while it has a packet, also when the
\* packet in service has been trimmed.
QueuesSound == \A p \in Routes : Bounded(queue[p]) /\ ServiceConsistent(queue[p])

\* Whatever its ring has been through, a pipe holds the packets that were put in,
\* in order, and has exactly one event pending while it holds any, so nothing
\* stays in the network for ever.
PipesInOrder ==
    \A p \in Routes :
        /\ IsRing(pipe[p], {Data(s) : s \in 0 .. NPkts - 1} \cup {OtherHeader, NoItem}
                           \cup {StripPayload(Data(s)) : s \in 0 .. NPkts - 1})
        /\ Contents(pipe[p]) = inPipe[p]
        /\ pending[p] = IF inPipe[p] = <<>> THEN 0 ELSE 1

\* The receiver knows exactly what has arrived: the bitmap, whatever its size and
\* wherever it has wrapped to, stands for the numbers received beyond the first
\* missing one, for every number an ACK can report; and it counts them.
BitmapIsSet ==
    LET beyond == {s \in got : s >= sink.expected}
    IN  /\ 0 .. sink.expected - 1 \subseteq got /\ sink.expected \notin got
        /\ sink.bitmap.base = sink.expected
        /\ Represents(sink.bitmap, beyond)
        /\ \A i \in sink.expected .. sink.expected + MaxSize - 1 :
               Get(sink.bitmap, i) <=> i \in beyond
        /\ sink.ooo = Cardinality(beyond)
=============================================================================
