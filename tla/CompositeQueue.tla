-------------------------- MODULE CompositeQueue ----------------------------
(***************************************************************************)
(* The queue that trims: data in a low-priority list, headers in a         *)
(* high-priority list, each with a byte counter that the decisions use.    *)
(* Source: sim/compositequeue.cpp.  A list is a sequence of packets, oldest *)
(* first (MultipathProofs shows that the code's ring is one).        *)
(*                                                                         *)
(* A packet has a size and a flag, header; what else it carries does not   *)
(* matter here.  The random choice between the packet that arrives and the *)
(* last one in the queue is the parameter boot.  ECN marks and statistics  *)
(* are left out, and so is returning headers to the sender, which no       *)
(* driver turns on (nothing calls setRTS).                                 *)
(***************************************************************************)
EXTENDS Integers, Sequences, SequencesExt, Functions

CONSTANTS
    MaxQ,                   \* _maxsize: limit of the low list; the high list may hold twice that
    TrimSize,               \* _trim_size: what is left of a packet
    RatioHigh, RatioLow,    \* weights of the two lists
    DisableTrim             \* _disable_trim: drop instead of trimming

ASSUME QueueAssumption ==
    /\ MaxQ \in Nat \ {0} /\ TrimSize \in Nat \ {0}
    /\ RatioHigh \in Nat \ {0} /\ RatioLow \in Nat \ {0}
    /\ DisableTrim \in BOOLEAN

EmptyQueue == [low |-> <<>>, high |-> <<>>, lowBytes |-> 0, highBytes |-> 0,
               serv |-> "INVALID", crt |-> 0]

\* beginService: where both lists wait, the weights decide.
BeginService(q) ==
    LET both == q.low # <<>> /\ q.high # <<>>
        crt == IF both THEN (q.crt + 1) % (RatioHigh + RatioLow) ELSE q.crt
        high == IF both THEN crt < RatioHigh ELSE q.high # <<>>
    IN  [q EXCEPT !.crt = crt, !.serv = IF high THEN "HIGH" ELSE "LOW"]

StartIfIdle(q) == IF q.serv = "INVALID" THEN BeginService(q) ELSE q

\* The packet whose service is complete.
Served(q) == IF q.serv = "LOW" THEN Head(q.low) ELSE Head(q.high)

CompleteService(q) ==
    LET a == IF q.serv = "LOW"
             THEN [q EXCEPT !.low = Tail(@), !.lowBytes = @ - Head(q.low).size]
             ELSE [q EXCEPT !.high = Tail(@), !.highBytes = @ - Head(q.high).size]
        b == [a EXCEPT !.serv = "INVALID"]
    IN  IF b.low # <<>> \/ b.high # <<>> THEN BeginService(b) ELSE b

StripPayload(pkt) == [pkt EXCEPT !.size = TrimSize, !.header = TRUE]

\* Mutant: the limit is tested before the header is counted.
PushHighLate(q, pkt) ==
    IF q.highBytes >= 2 * MaxQ THEN q
    ELSE [q EXCEPT !.high = Append(@, pkt), !.highBytes = @ + pkt.size]

\* A header goes to the high list, or is dropped when that is full.
PushHigh(q, pkt) ==
    IF q.highBytes + pkt.size > 2 * MaxQ THEN q
    ELSE [q EXCEPT !.high = Append(@, pkt), !.highBytes = @ + pkt.size]

\* Mutant: the bytes of the packet that is trimmed stay counted.
BootLastUncounted(q) ==
    LET a == [q EXCEPT !.low = Front(@)]
    IN  IF DisableTrim THEN a ELSE PushHigh(a, StripPayload(Last(q.low)))

\* The last packet of the low list is dropped or becomes a header; it may be the
\* one that is being served, whose place the new packet then takes.
BootLast(q) ==
    LET a == [q EXCEPT !.low = Front(@), !.lowBytes = @ - Last(q.low).size]
    IN  IF DisableTrim THEN a ELSE PushHigh(a, StripPayload(Last(q.low)))

PushLow(q, pkt) == [q EXCEPT !.low = Append(@, pkt), !.lowBytes = @ + pkt.size]

ReceiveHeader(q, pkt) ==
    LET a == PushHigh(q, pkt)
    IN  IF a.high # q.high THEN StartIfIdle(a) ELSE a

Full(q, pkt) == q.lowBytes + pkt.size > MaxQ

ReceivePacket(q, pkt, boot) ==
    IF pkt.header THEN ReceiveHeader(q, pkt)
    ELSE IF Full(q, pkt) /\ ~boot
    THEN IF DisableTrim THEN q ELSE ReceiveHeader(q, StripPayload(pkt))
    ELSE StartIfIdle(PushLow(IF Full(q, pkt) THEN BootLast(q) ELSE q, pkt))

-----------------------------------------------------------------------------
(* What a queue keeps right.                                               *)

SumOfSizes(list) == SumFunction([i \in DOMAIN list |-> list[i].size])

\* The counters the decisions are made by count the packets that are there.
BytesExact(q) == q.lowBytes = SumOfSizes(q.low) /\ q.highBytes = SumOfSizes(q.high)

\* The low list stays within its limit but for its last packet, which may have
\* taken the place of a smaller one; the high list within twice that.
Bounded(q) ==
    /\ q.low # <<>> => q.lowBytes - Last(q.low).size <= MaxQ
    /\ q.highBytes <= 2 * MaxQ

\* The list that is served has a packet, and something is served while there is one.
ServiceConsistent(q) ==
    /\ q.serv = "LOW" => q.low # <<>>
    /\ q.serv = "HIGH" => q.high # <<>>
    /\ q.serv = "INVALID" => q.low = <<>> /\ q.high = <<>>
=============================================================================
