------------------------- MODULE UecTransportProofs -------------------------
(***************************************************************************)
(* Theorems about UecTransport, for any number of packets, any window and  *)
(* any number of faults.  The handlers are compositions of a few operators *)
(* on the sender's record, so the proof goes operator by operator: Sends   *)
(* says what a chain of sends preserves, a lemma per handler says the rest.*)
(* Inv is inductive.  What relates the sender to the packets on their way  *)
(* is proved beside it: the bytes the receiver has counted and the acks    *)
(* report (Counts, History), the hole an ack leaves (Holes), and what the  *)
(* NIC has been asked (Alive); together they say that no flow gets stuck.  *)
(***************************************************************************)
EXTENDS UecTransport, FiniteSetTheorems, WellFoundedInduction, TLAPS

-----------------------------------------------------------------------------
(* The least element of a set of naturals.                                 *)

LEMMA MinNat ==
    ASSUME NEW S \in SUBSET Nat, S # {}
    PROVE  Min(S) \in S /\ \A y \in S : Min(S) <= y
<1> DEFINE R == OpToRel(<, Nat)
<1>1. IsWellFoundedOn(R, Nat)
  BY NatLessThanWellFounded
<1>2. \A x, y \in Nat : y < x => <<y, x>> \in R
  BY DEF OpToRel
<1> HIDE DEF R
<1>3. PICK x \in S : \A y \in S : <<y, x>> \notin R
  BY <1>1, WFMin
<1>4. ASSUME NEW y \in S PROVE x <= y
  <2>1. x \in Nat /\ y \in Nat
    OBVIOUS
  <2>2. ~(y < x)
    BY <1>2, <1>3, <2>1
  <2>3. QED
    BY <2>1, <2>2
<1>5. QED
  BY <1>4 DEF Min

\* Earliest is the least send time, and 0 only when there is none.
LEMMA EarliestIsLeast ==
    ASSUME NEW T \in SUBSET ((Nat \ {0}) \X Nat)
    PROVE  /\ T = {} => Earliest(T) = 0
           /\ T # {} => /\ Earliest(T) \in Nat \ {0}
                        /\ \E p \in T : p[1] = Earliest(T)
                        /\ \A p \in T : Earliest(T) <= p[1]
<1>1. CASE T = {}
  BY <1>1 DEF Earliest
<1>2. CASE T # {}
  <2> DEFINE S == {p[1] : p \in T}
  <2>1. S \in SUBSET Nat /\ S # {}
    BY <1>2
  <2>2. Min(S) \in S /\ \A y \in S : Min(S) <= y
    BY <2>1, MinNat
  <2>3. Earliest(T) = Min(S)
    BY <1>2 DEF Earliest
  <2>4. QED
    BY <1>2, <2>2, <2>3
<1>3. QED
  BY <1>1, <1>2

\* Sizes of a disjoint union and of what is left of a set.
LEMMA DisjointUnion ==
    ASSUME NEW S, NEW T, IsFiniteSet(S), IsFiniteSet(T), S \cap T = {}
    PROVE  Cardinality(S \cup T) = Cardinality(S) + Cardinality(T)
<1>1. Cardinality(S \cap T) = 0
  BY FS_EmptySet
<1>2. Cardinality(S) \in Nat /\ Cardinality(T) \in Nat
  BY FS_CardinalityType
<1>3. Cardinality(S \cup T) = Cardinality(S) + Cardinality(T) - Cardinality(S \cap T)
  BY FS_Union
<1>4. QED
  BY <1>1, <1>2, <1>3

LEMMA SubsetRemoved ==
    ASSUME NEW S, IsFiniteSet(S), NEW T \in SUBSET S
    PROVE  Cardinality(S \ T) = Cardinality(S) - Cardinality(T)
<1>1. S \cap T = T
  OBVIOUS
<1>2. QED
  BY <1>1, FS_Difference

-----------------------------------------------------------------------------
(* The sender's record: its type, and what relates its fields.             *)

Numbers(s) == 0 .. (s.highestSent - 1)
Forgotten(s) == Numbers(s) \ (DOMAIN s.tx \cup s.rtxQueue)

Packet ==
         [type : {"data"}, seq : Nat, size : {PktSize, HdrSize}, rtx : BOOLEAN, ar : BOOLEAN]
    \cup [type : {"rts"}, seq : Nat]

Sender ==
    [started : BOOLEAN, highestSent : Nat, backlog : Nat,
     tx : UNION {[D -> Nat] : D \in SUBSET Nat},
     sendTimes : SUBSET (Nat \X Nat), rtxQueue : SUBSET Nat, rtxBacklog : Int,
     ctrl : SUBSET Nat, inFlight : Int, recvd : Nat, cwnd : Nat, rto : Nat,
     clock : Nat, blocked : BOOLEAN, done : BOOLEAN, portBusy : BOOLEAN,
     registered : Nat, out : SUBSET Packet]

\* A data packet is as long as the record it was sent for; an RTS carries a
\* number spent on an RTS.
Marked(packets, ctrl) ==
    \A m \in packets :
        /\ m.type = "data" => m.size = IF m.seq \in ctrl THEN HdrSize ELSE PktSize
        /\ m.type = "rts" => m.seq \in ctrl

\* Records and queue cover sequence numbers handed out, and never the same one;
\* _send_times holds exactly the records.
Shape(s) ==
    /\ s \in Sender
    /\ DOMAIN s.tx \subseteq Numbers(s)
    /\ s.rtxQueue \subseteq Numbers(s)
    /\ s.ctrl \subseteq Numbers(s)
    /\ DOMAIN s.tx \cap s.rtxQueue = {}
    /\ \A q \in DOMAIN s.tx : s.tx[q] \in 1 .. s.clock
    /\ s.sendTimes = {<<s.tx[q], q>> : q \in DOMAIN s.tx}
    /\ s.rto <= s.clock
    /\ \A m \in s.out : m.seq \in Numbers(s)
    /\ Marked(s.out, s.ctrl)
    /\ s.highestSent = NPkts - s.backlog + Cardinality(s.ctrl)

TimerRight(s) == s.rto = Earliest(s.sendTimes)

\* The conjunct of InFlightExact, for a sender record.
Exact(s) ==
    s.inFlight + s.recvd =
        PktSize * Cardinality(Numbers(s) \ (s.ctrl \cup s.rtxQueue))
        - HdrSize * Cardinality(s.ctrl \cap s.rtxQueue)

Finished(s) == s.done => s.backlog = 0 /\ DOMAIN s.tx = {} /\ s.rtxQueue = {}

\* t is what some sends make of s.
Sends(s, t) ==
    /\ Shape(t)
    /\ TimerRight(s) => TimerRight(t)
    /\ s.rto # 0 => t.rto = s.rto
    /\ Finished(s) => Finished(t)
    /\ Exact(s) => Exact(t)
    /\ t.done = s.done /\ t.recvd = s.recvd /\ t.ctrl = s.ctrl /\ t.cwnd = s.cwnd
    /\ Forgotten(t) \subseteq Forgotten(s)
    /\ s.highestSent <= t.highestSent
    /\ t.started = s.started

LEMMA SenderFields ==
    ASSUME NEW s \in Sender
    PROVE  /\ s.highestSent \in Nat /\ s.backlog \in Nat /\ s.clock \in Nat
           /\ s.rto \in Nat /\ s.recvd \in Nat /\ s.cwnd \in Nat
           /\ s.inFlight \in Int /\ s.rtxBacklog \in Int /\ s.registered \in Nat
           /\ DOMAIN s.tx \in SUBSET Nat /\ s.tx \in [DOMAIN s.tx -> Nat]
           /\ s.sendTimes \in SUBSET (Nat \X Nat)
           /\ s.rtxQueue \in SUBSET Nat /\ s.ctrl \in SUBSET Nat
           /\ s.out \in SUBSET Packet
           /\ s.started \in BOOLEAN /\ s.blocked \in BOOLEAN
           /\ s.done \in BOOLEAN /\ s.portBusy \in BOOLEAN
BY DEF Sender

LEMMA SendsTransitive ==
    ASSUME NEW s, NEW t, NEW u, Shape(s), Sends(s, t), Sends(t, u)
    PROVE  Sends(s, u)
<1>1. s.highestSent \in Nat /\ t.highestSent \in Nat /\ u.highestSent \in Nat
  BY DEF Sends, Shape, Sender
<1>2. QED
  BY <1>1 DEF Sends

LEMMA SendsReflexive ==
    ASSUME NEW s, Shape(s)
    PROVE  Sends(s, s)
BY DEF Sends, Shape, Sender

\* Only what the NIC is told has changed.
SameBooks(s, t) ==
    /\ t.started = s.started /\ t.highestSent = s.highestSent
    /\ t.backlog = s.backlog /\ t.tx = s.tx /\ t.sendTimes = s.sendTimes
    /\ t.rtxQueue = s.rtxQueue /\ t.rtxBacklog = s.rtxBacklog /\ t.ctrl = s.ctrl
    /\ t.inFlight = s.inFlight /\ t.recvd = s.recvd /\ t.cwnd = s.cwnd
    /\ t.rto = s.rto /\ t.clock = s.clock /\ t.done = s.done /\ t.out = s.out

LEMMA SameBooksSends ==
    ASSUME NEW s, NEW t \in Sender, Shape(s), SameBooks(s, t)
    PROVE  Sends(s, t)
<1>1. Numbers(t) = Numbers(s) /\ Forgotten(t) = Forgotten(s)
  BY DEF SameBooks, Numbers, Forgotten
<1>2. Shape(t)
  BY <1>1 DEF Shape, SameBooks
<1>3. s.highestSent <= t.highestSent
  BY DEF Shape, Sender, SameBooks
<1>4. Exact(s) => Exact(t)
  BY <1>1 DEF Exact, SameBooks
<1>5. QED
  BY <1>1, <1>2, <1>3, <1>4 DEF Sends, SameBooks, TimerRight, Finished

LEMMA NicSends ==
    ASSUME NEW s, Shape(s)
    PROVE  /\ Sends(s, Register(s))
           /\ Sends(s, StartSending(s))
           /\ \A b \in BOOLEAN : Sends(s, [s EXCEPT !.blocked = b])
           /\ Sends(s, [s EXCEPT !.registered = 0])
           /\ Sends(s, RequestAgain(s))
<1>1. s \in Sender
  BY DEF Shape
<1>2. Register(s) \in Sender /\ SameBooks(s, Register(s))
  BY <1>1 DEF Register, Sender, SameBooks
<1>3. StartSending(s) \in Sender /\ SameBooks(s, StartSending(s))
  <2> DEFINE n == IF s.registered > 0 THEN s.registered - 1 ELSE 0
  <2>1. n \in Nat
    BY <1>1 DEF Sender
  <2>2. StartSending(s) = [s EXCEPT !.portBusy = TRUE, !.registered = n]
    BY DEF StartSending
  <2> HIDE DEF n
  <2>3. [s EXCEPT !.portBusy = TRUE, !.registered = n] \in Sender
    BY <1>1, <2>1 DEF Sender
  <2>4. SameBooks(s, [s EXCEPT !.portBusy = TRUE, !.registered = n])
    BY <1>1 DEF Sender, SameBooks
  <2>5. QED
    BY <2>2, <2>3, <2>4
<1>4. ASSUME NEW b \in BOOLEAN
      PROVE  [s EXCEPT !.blocked = b] \in Sender /\ SameBooks(s, [s EXCEPT !.blocked = b])
  BY <1>1 DEF Sender, SameBooks
<1>5. [s EXCEPT !.registered = 0] \in Sender /\ SameBooks(s, [s EXCEPT !.registered = 0])
  BY <1>1 DEF Sender, SameBooks
<1>6. /\ [Register(s) EXCEPT !.blocked = TRUE] \in Sender
      /\ SameBooks(s, [Register(s) EXCEPT !.blocked = TRUE])
  BY <1>1, <1>2 DEF Sender, SameBooks
<1>7. Sends(s, RequestAgain(s))
  BY <1>6, SameBooksSends, SendsReflexive DEF RequestAgain
<1>8. QED
  BY <1>2, <1>3, <1>4, <1>5, <1>7, SameBooksSends

-----------------------------------------------------------------------------
(* Sending a packet.                                                       *)

\* A new record gets the highest stamp: the timer is set when it was off and
\* otherwise stays with the oldest record.
LEMMA NewRecord ==
    ASSUME NEW s, Shape(s), NEW q \in Nat, q \notin DOMAIN s.tx, NEW t,
           t.tx \in [DOMAIN s.tx \cup {q} -> Nat],
           t.tx[q] = s.clock + 1, \A p \in DOMAIN s.tx : t.tx[p] = s.tx[p],
           t.sendTimes = s.sendTimes \cup {<<s.clock + 1, q>>},
           t.rto = IF s.rto = 0 \/ s.clock + 1 < s.rto THEN s.clock + 1 ELSE s.rto
    PROVE  /\ \A p \in DOMAIN t.tx : t.tx[p] \in 1 .. (s.clock + 1)
           /\ t.sendTimes = {<<t.tx[p], p>> : p \in DOMAIN t.tx}
           /\ t.sendTimes \in SUBSET (Nat \X Nat)
           /\ t.rto \in Nat /\ t.rto <= s.clock + 1
           /\ s.rto # 0 => t.rto = s.rto
           /\ TimerRight(s) => TimerRight(t)
<1> DEFINE c == s.clock
           T == s.sendTimes
           T2 == t.sendTimes
<1>1. /\ DOMAIN s.tx \in SUBSET Nat /\ c \in Nat /\ s.rto \in Nat /\ s.rto <= c
      /\ \A p \in DOMAIN s.tx : s.tx[p] \in 1 .. c
      /\ T = {<<s.tx[p], p>> : p \in DOMAIN s.tx}
  BY SenderFields DEF Shape
<1>2. DOMAIN t.tx = DOMAIN s.tx \cup {q}
  OBVIOUS
<1>3. \A p \in DOMAIN t.tx : t.tx[p] \in 1 .. (c + 1)
  BY <1>1, <1>2
<1>4. T2 = {<<t.tx[p], p>> : p \in DOMAIN t.tx}
  BY <1>1, <1>2
<1>5. T2 \in SUBSET ((Nat \ {0}) \X Nat) /\ T \in SUBSET ((Nat \ {0}) \X Nat)
  BY <1>1, <1>2, <1>3, <1>4
<1>6. t.rto \in Nat /\ t.rto <= c + 1 /\ (s.rto # 0 => t.rto = s.rto)
  BY <1>1
<1>7. ASSUME TimerRight(s) PROVE TimerRight(t)
  <2>1. /\ Earliest(T2) \in Nat \ {0}
        /\ \E p \in T2 : p[1] = Earliest(T2)
        /\ \A p \in T2 : Earliest(T2) <= p[1]
    BY <1>5, EarliestIsLeast
  <2>2. CASE DOMAIN s.tx = {}
    <3>1. T = {} /\ s.rto = 0
      BY <2>2, <1>1, <1>7 DEF Earliest, TimerRight
    <3>2. T2 = {<<c + 1, q>>}
      BY <3>1
    <3>3. QED
      BY <1>1, <3>1, <3>2, <2>1 DEF TimerRight
  <2>3. CASE DOMAIN s.tx # {}
    <3>1. T # {}
      <4>1. PICK p \in DOMAIN s.tx : TRUE
        BY <2>3
      <4>2. <<s.tx[p], p>> \in T
        BY <1>1
      <4>3. QED
        BY <4>2
    <3>2. /\ s.rto \in Nat \ {0} /\ \E p \in T : p[1] = s.rto
          /\ \A p \in T : s.rto <= p[1]
      BY <3>1, <1>5, <1>7, EarliestIsLeast DEF TimerRight
    <3>3. \A p \in T2 : s.rto <= p[1]
      BY <1>1, <3>2
    <3>4. t.rto = s.rto
      BY <1>6, <3>2
    <3>5. \E p \in T2 : p[1] = s.rto
      BY <3>2
    <3>6. s.rto <= Earliest(T2) /\ Earliest(T2) <= s.rto
      BY <2>1, <3>3, <3>5
    <3>7. QED
      BY <3>2, <3>4, <3>6, <2>1 DEF TimerRight
  <2>4. QED
    BY <2>2, <2>3
<1>8. QED
  BY <1>3, <1>4, <1>5, <1>6, <1>7

LEMMA NumbersFinite ==
    ASSUME NEW s \in Sender
    PROVE  /\ Numbers(s) \in SUBSET Nat
           /\ IsFiniteSet(Numbers(s))
           /\ \A S \in SUBSET Numbers(s) : IsFiniteSet(S) /\ Cardinality(S) \in Nat
<1>1. s.highestSent \in Nat
  BY DEF Sender
<1>2. 0 \in Int /\ s.highestSent - 1 \in Int
  BY <1>1
<1>3. IsFiniteSet(Numbers(s))
  BY <1>2, FS_Interval DEF Numbers
<1>4. ASSUME NEW S \in SUBSET Numbers(s)
      PROVE  IsFiniteSet(S) /\ Cardinality(S) \in Nat
  BY <1>3, FS_Subset, FS_CardinalityType
<1>5. Numbers(s) \in SUBSET Nat
  BY <1>1 DEF Numbers
<1>6. QED
  BY <1>3, <1>4, <1>5

LEMMA DataPacket ==
    ASSUME NEW s, NEW q \in Nat, NEW rtx \in BOOLEAN, NEW ar \in BOOLEAN
    PROVE  /\ Data(s, q, rtx, ar) \in Packet /\ Data(s, q, rtx, ar).seq = q
           /\ Marked({Data(s, q, rtx, ar)}, s.ctrl)
BY TransportAssumption DEF Data, Size, Packet, Marked

LEMMA MarkedUnion ==
    ASSUME NEW P, NEW R, NEW ctrl, Marked(P, ctrl), Marked(R, ctrl)
    PROVE  Marked(P \cup R, ctrl)
BY DEF Marked

LEMMA SendNewPacketSends ==
    ASSUME NEW s, Shape(s), s.backlog > 0
    PROVE  Sends(s, SendNewPacket(s))
<1> DEFINE q == s.highestSent
           ar == s.backlog - 1 = 0 \/ s.inFlight + PktSize + PktSize >= s.cwnd
           d == Data(s, q, FALSE, ar)
           c == s.clock + 1
           tx == [p \in DOMAIN s.tx \cup {q} |-> IF p = q THEN c ELSE s.tx[p]]
           times == s.sendTimes \cup {<<c, q>>}
           rto == IF s.rto = 0 \/ c < s.rto THEN c ELSE s.rto
           t == SendNewPacket(s)
<1>1. s \in Sender
  BY DEF Shape
<1>2. t = [s EXCEPT !.backlog = s.backlog - 1, !.inFlight = s.inFlight + PktSize,
                    !.clock = c, !.tx = tx, !.sendTimes = times,
                    !.highestSent = q + 1, !.out = s.out \cup {d}, !.rto = rto]
  BY <1>1 DEF SendNewPacket, CreateSendRecord, StartRTO, Sender
<1>3. /\ t.backlog = s.backlog - 1 /\ t.inFlight = s.inFlight + PktSize
      /\ t.clock = c /\ t.tx = tx /\ t.sendTimes = times
      /\ t.highestSent = q + 1 /\ t.out = s.out \cup {d} /\ t.rto = rto
      /\ t.rtxQueue = s.rtxQueue /\ t.ctrl = s.ctrl /\ t.recvd = s.recvd
      /\ t.cwnd = s.cwnd /\ t.done = s.done /\ t.started = s.started
  BY <1>1, <1>2 DEF Sender
<1>4. /\ DOMAIN t.tx = DOMAIN s.tx \cup {q}
      /\ t.tx \in [DOMAIN s.tx \cup {q} -> Nat]
      /\ q \in Nat /\ q \notin DOMAIN s.tx /\ DOMAIN s.tx \in SUBSET Nat
      /\ \A p \in DOMAIN t.tx : t.tx[p] \in 1 .. c
      /\ t.sendTimes = {<<t.tx[p], p>> : p \in DOMAIN t.tx}
      /\ t.sendTimes \in SUBSET (Nat \X Nat)
      /\ t.rto \in Nat /\ t.rto <= c
      /\ s.rto # 0 => t.rto = s.rto
      /\ TimerRight(s) => TimerRight(t)
  <2>1. /\ DOMAIN s.tx \in SUBSET Nat /\ s.tx \in [DOMAIN s.tx -> Nat]
        /\ s.clock \in Nat /\ q \in Nat
    BY <1>1 DEF Sender
  <2>2. q \notin DOMAIN s.tx
    BY <2>1 DEF Shape, Numbers
  <2>3. /\ tx \in [DOMAIN s.tx \cup {q} -> Nat]
        /\ tx[q] = s.clock + 1 /\ \A p \in DOMAIN s.tx : tx[p] = s.tx[p]
    BY <2>1, <2>2
  <2>4. /\ t.tx \in [DOMAIN s.tx \cup {q} -> Nat]
        /\ t.tx[q] = s.clock + 1 /\ \A p \in DOMAIN s.tx : t.tx[p] = s.tx[p]
    BY <1>3, <2>3
  <2>5. /\ t.sendTimes = s.sendTimes \cup {<<s.clock + 1, q>>}
        /\ t.rto = IF s.rto = 0 \/ s.clock + 1 < s.rto THEN s.clock + 1 ELSE s.rto
    BY <1>3
  <2> HIDE DEF q, tx, times, rto, t
  <2>6. QED
    BY <2>1, <2>2, <2>4, <2>5, NewRecord
<1>5. d \in Packet /\ d.seq = q /\ c \in Nat /\ s.backlog - 1 \in Nat
      /\ s.inFlight + PktSize \in Int /\ q + 1 \in Nat
      /\ Marked({d}, s.ctrl)
  <2>1. q \in Nat /\ ar \in BOOLEAN /\ s.clock \in Nat /\ s.backlog \in Nat /\ s.inFlight \in Int
    BY <1>1 DEF Sender
  <2>2. d \in Packet /\ d.seq = q /\ Marked({d}, s.ctrl)
    BY <2>1, DataPacket
  <2> HIDE DEF d, q, ar
  <2>3. QED
    BY <2>1, <2>2, TransportAssumption
<1> HIDE DEF q, d, c, tx, times, rto, ar
<1>6. t \in Sender
  <2>1. t.tx \in UNION {[D -> Nat] : D \in SUBSET Nat}
    <3>1. DOMAIN s.tx \cup {q} \in SUBSET Nat
      BY <1>4
    <3>2. QED
      BY <1>4, <3>1
  <2>2. t.out \in SUBSET Packet
    BY <1>1, <1>3, <1>5 DEF Sender
  <2>3. /\ tx = t.tx /\ times = t.sendTimes /\ rto = t.rto /\ s.out \cup {d} = t.out
    BY <1>3
  <2>4. /\ tx \in UNION {[D -> Nat] : D \in SUBSET Nat}
        /\ times \in SUBSET (Nat \X Nat) /\ rto \in Nat /\ s.out \cup {d} \in SUBSET Packet
    BY <1>4, <2>1, <2>2, <2>3
  <2> DEFINE b == s.backlog - 1
             f == s.inFlight + PktSize
             h == q + 1
             o == s.out \cup {d}
  <2>5. b \in Nat /\ f \in Int /\ h \in Nat /\ c \in Nat
    BY <1>5
  <2>6. t = [s EXCEPT !.backlog = b, !.inFlight = f, !.clock = c, !.tx = tx,
                      !.sendTimes = times, !.highestSent = h, !.out = o, !.rto = rto]
    BY <1>2
  <2> HIDE DEF b, f, h, o, t
  <2>7. QED
    BY <1>1, <2>4, <2>5, <2>6 DEF Sender, o
<1>7. Numbers(t) = Numbers(s) \cup {q} /\ q \notin Numbers(s)
  BY <1>1, <1>3 DEF Numbers, q, Sender
<1>8. Shape(t)
  <2>2. /\ DOMAIN t.tx \subseteq Numbers(t) /\ t.rtxQueue \subseteq Numbers(t)
        /\ t.ctrl \subseteq Numbers(t) /\ DOMAIN t.tx \cap t.rtxQueue = {}
    BY <1>3, <1>4, <1>7 DEF Shape
  <2>3. \A m \in t.out : m.seq \in Numbers(t)
    BY <1>3, <1>5, <1>7 DEF Shape
  <2>4. t.highestSent = NPkts - t.backlog + Cardinality(t.ctrl)
    <3>2. Cardinality(s.ctrl) \in Nat
      BY <1>1, NumbersFinite DEF Shape
    <3>3. q \in Nat /\ s.backlog \in Nat /\ q = NPkts - s.backlog + Cardinality(s.ctrl)
      BY <1>1 DEF Shape, Sender, q
    <3>4. QED
      BY <1>3, <3>2, <3>3, TransportAssumption
  <2>5. Marked(t.out, t.ctrl)
    BY <1>3, <1>5, MarkedUnion DEF Shape
  <2>6. QED
    BY <1>3, <1>4, <1>6, <2>2, <2>3, <2>4, <2>5 DEF Shape
<1>9. Exact(s) => Exact(t)
  <2>1. q \notin s.ctrl \cup s.rtxQueue
    BY <1>7 DEF Shape
  <2> DEFINE N == Numbers(s) \ (s.ctrl \cup s.rtxQueue)
  <2>2. Numbers(t) \ (t.ctrl \cup t.rtxQueue) = N \cup {q} /\ q \notin N
    BY <1>3, <1>7, <2>1
  <2>3. IsFiniteSet(N) /\ Cardinality(N) \in Nat
    BY <1>1, NumbersFinite
  <2>4. Cardinality(N \cup {q}) = Cardinality(N) + 1
    BY <2>2, <2>3, FS_AddElement
  <2> DEFINE h == HdrSize * Cardinality(s.ctrl \cap s.rtxQueue)
             n == Cardinality(N)
  <2>5. PktSize * (n + 1) = PktSize * n + PktSize /\ PktSize * n \in Int
    BY <2>3, TransportAssumption
  <2>6. h \in Int
    BY <1>1, NumbersFinite, TransportAssumption DEF Shape
  <2>7. ASSUME Exact(s) PROVE s.inFlight + s.recvd = PktSize * n - h
    BY <2>7 DEF Exact
  <2>8. t.inFlight + t.recvd = PktSize * (n + 1) - h => Exact(t)
    BY <1>3, <2>2, <2>4 DEF Exact
  <2>9. s.inFlight \in Int /\ s.recvd \in Int /\ PktSize \in Int
    BY <1>1, TransportAssumption DEF Sender
  <2> HIDE DEF h, n
  <2>10. QED
    BY <1>3, <2>5, <2>6, <2>7, <2>8, <2>9
<1>10. QED
  BY <1>1, <1>3, <1>4, <1>7, <1>8, <1>9
     DEF Sends, Forgotten, TimerRight, Finished, Sender, q

LEMMA SendRtxPacketSends ==
    ASSUME NEW s, Shape(s), s.rtxQueue # {}
    PROVE  Sends(s, SendRtxPacket(s))
<1> DEFINE q == Min(s.rtxQueue)
           z == Size(s, q)
           d == Data(s, q, TRUE, TRUE)
           c == s.clock + 1
           tx == [p \in DOMAIN s.tx \cup {q} |-> IF p = q THEN c ELSE s.tx[p]]
           times == s.sendTimes \cup {<<c, q>>}
           rto == IF s.rto = 0 \/ c < s.rto THEN c ELSE s.rto
           queue == s.rtxQueue \ {q}
           o == s.out \cup {d}
           t == SendRtxPacket(s)
<1>1. s \in Sender
  BY DEF Shape
<1>2. t = [s EXCEPT !.rtxQueue = queue, !.rtxBacklog = s.rtxBacklog - z,
                    !.inFlight = s.inFlight + z, !.out = o, !.clock = c,
                    !.tx = tx, !.sendTimes = times, !.rto = rto]
  BY <1>1 DEF SendRtxPacket, CreateSendRecord, StartRTO, Sender
<1>3. /\ t.rtxQueue = queue /\ t.inFlight = s.inFlight + z
      /\ t.clock = c /\ t.tx = tx /\ t.sendTimes = times
      /\ t.out = o /\ t.rto = rto
      /\ t.backlog = s.backlog /\ t.highestSent = s.highestSent
      /\ t.ctrl = s.ctrl /\ t.recvd = s.recvd
      /\ t.cwnd = s.cwnd /\ t.done = s.done /\ t.started = s.started
  BY <1>1, <1>2 DEF Sender
<1>4. q \in s.rtxQueue /\ q \in Nat /\ q \in Numbers(s) /\ q \notin DOMAIN s.tx
  <2>1. q \in s.rtxQueue
    BY <1>1, SenderFields, MinNat
  <2>2. QED
    BY <1>1, <2>1, SenderFields DEF Shape
<1>5. /\ DOMAIN t.tx = DOMAIN s.tx \cup {q}
      /\ t.tx \in [DOMAIN s.tx \cup {q} -> Nat]
      /\ DOMAIN s.tx \in SUBSET Nat
      /\ \A p \in DOMAIN t.tx : t.tx[p] \in 1 .. c
      /\ t.sendTimes = {<<t.tx[p], p>> : p \in DOMAIN t.tx}
      /\ t.sendTimes \in SUBSET (Nat \X Nat)
      /\ t.rto \in Nat /\ t.rto <= c
      /\ s.rto # 0 => t.rto = s.rto
      /\ TimerRight(s) => TimerRight(t)
  <2>1. /\ DOMAIN s.tx \in SUBSET Nat /\ s.tx \in [DOMAIN s.tx -> Nat]
        /\ s.clock \in Nat
    BY <1>1 DEF Sender
  <2>2. /\ tx \in [DOMAIN s.tx \cup {q} -> Nat]
        /\ tx[q] = s.clock + 1 /\ \A p \in DOMAIN s.tx : tx[p] = s.tx[p]
    BY <1>4, <2>1
  <2>3. /\ t.tx \in [DOMAIN s.tx \cup {q} -> Nat]
        /\ t.tx[q] = s.clock + 1 /\ \A p \in DOMAIN s.tx : t.tx[p] = s.tx[p]
    BY <1>3, <2>2
  <2>4. /\ t.sendTimes = s.sendTimes \cup {<<s.clock + 1, q>>}
        /\ t.rto = IF s.rto = 0 \/ s.clock + 1 < s.rto THEN s.clock + 1 ELSE s.rto
    BY <1>3
  <2> HIDE DEF q, tx, times, rto, t
  <2>5. QED
    BY <1>4, <2>1, <2>3, <2>4, NewRecord
<1>6. d \in Packet /\ d.seq = q /\ Marked({d}, s.ctrl)
  BY <1>4, DataPacket
<1>7. z = (IF q \in s.ctrl THEN HdrSize ELSE PktSize) /\ z \in Nat
  BY TransportAssumption DEF Size
<1>8. c \in Nat /\ s.rtxBacklog - z \in Int /\ s.inFlight + z \in Int
  BY <1>1, <1>7, SenderFields
<1> HIDE DEF q, z, d, c, tx, times, rto
<1>9. t \in Sender
  <2>1. o \in SUBSET Packet /\ queue \in SUBSET Nat
    BY <1>1, <1>6, SenderFields
  <2>2. DOMAIN s.tx \cup {q} \in SUBSET Nat
    BY <1>4, <1>5
  <2>3. /\ tx \in UNION {[D -> Nat] : D \in SUBSET Nat}
        /\ times \in SUBSET (Nat \X Nat) /\ rto \in Nat
    BY <1>3, <1>5, <2>2
  <2> DEFINE b == s.rtxBacklog - z
             f == s.inFlight + z
  <2>4. b \in Int /\ f \in Int
    BY <1>8
  <2>5. t = [s EXCEPT !.rtxQueue = queue, !.rtxBacklog = b,
                      !.inFlight = f, !.out = o, !.clock = c, !.tx = tx,
                      !.sendTimes = times, !.rto = rto]
    BY <1>2
  <2> HIDE DEF b, f, o, queue, t
  <2>6. QED
    BY <1>1, <1>8, <2>1, <2>3, <2>4, <2>5 DEF Sender
<1>10. Numbers(t) = Numbers(s)
  BY <1>3 DEF Numbers
<1>11. Shape(t)
  <2>1. /\ DOMAIN t.tx \subseteq Numbers(t) /\ t.rtxQueue \subseteq Numbers(t)
        /\ t.ctrl \subseteq Numbers(t) /\ DOMAIN t.tx \cap t.rtxQueue = {}
    BY <1>3, <1>4, <1>5, <1>10 DEF Shape
  <2>2. \A m \in t.out : m.seq \in Numbers(t)
    BY <1>3, <1>4, <1>6, <1>10 DEF Shape
  <2>3. t.highestSent = NPkts - t.backlog + Cardinality(t.ctrl)
    BY <1>3 DEF Shape
  <2>4. Marked(t.out, t.ctrl)
    BY <1>3, <1>6, MarkedUnion DEF Shape
  <2>5. QED
    BY <1>3, <1>5, <1>9, <2>1, <2>2, <2>3, <2>4 DEF Shape
<1>12. Exact(s) => Exact(t)
  <2> DEFINE N == Numbers(s) \ (s.ctrl \cup s.rtxQueue)
             R == s.ctrl \cap s.rtxQueue
             n == Cardinality(N)
             r == Cardinality(R)
  <2>1. IsFiniteSet(N) /\ n \in Nat /\ IsFiniteSet(R) /\ r \in Nat
    BY <1>1, NumbersFinite DEF Shape
  <2>2. /\ s.inFlight \in Int /\ s.recvd \in Int /\ PktSize \in Int /\ HdrSize \in Int
        /\ PktSize * n \in Int /\ HdrSize * r \in Int
    BY <1>1, <2>1, SenderFields, TransportAssumption
  <2>3. CASE q \in s.ctrl
    <3>1. /\ Numbers(t) \ (t.ctrl \cup t.rtxQueue) = N
          /\ t.ctrl \cap t.rtxQueue = R \ {q} /\ q \in R
      BY <1>3, <1>4, <1>10, <2>3
    <3>2. Cardinality(R \ {q}) = r - 1
      BY <2>1, <3>1, FS_RemoveElement
    <3>3. HdrSize * (r - 1) = HdrSize * r - HdrSize
      BY <2>1, TransportAssumption
    <3>4. Exact(s) => s.inFlight + s.recvd = PktSize * n - HdrSize * r
      BY DEF Exact
    <3>5. t.inFlight + t.recvd = PktSize * n - HdrSize * (r - 1) => Exact(t)
      BY <3>1, <3>2 DEF Exact
    <3> HIDE DEF n, r
    <3>6. QED
      BY <1>3, <1>7, <2>2, <2>3, <3>3, <3>4, <3>5
  <2>4. CASE q \notin s.ctrl
    <3>1. /\ Numbers(t) \ (t.ctrl \cup t.rtxQueue) = N \cup {q} /\ q \notin N
          /\ t.ctrl \cap t.rtxQueue = R
      BY <1>3, <1>4, <1>10, <2>4
    <3>2. Cardinality(N \cup {q}) = n + 1
      BY <2>1, <3>1, FS_AddElement
    <3>3. PktSize * (n + 1) = PktSize * n + PktSize
      BY <2>1, TransportAssumption
    <3>4. Exact(s) => s.inFlight + s.recvd = PktSize * n - HdrSize * r
      BY DEF Exact
    <3>5. t.inFlight + t.recvd = PktSize * (n + 1) - HdrSize * r => Exact(t)
      BY <3>1, <3>2 DEF Exact
    <3> HIDE DEF n, r
    <3>6. QED
      BY <1>3, <1>7, <2>2, <2>4, <3>3, <3>4, <3>5
  <2>5. QED
    BY <2>3, <2>4
<1>13. Forgotten(t) \subseteq Forgotten(s)
  BY <1>3, <1>4, <1>5, <1>10 DEF Forgotten
<1>14. QED
  BY <1>1, <1>3, <1>4, <1>5, <1>11, <1>12, <1>13, SenderFields DEF Sends, Finished

LEMMA SendPacketSends ==
    ASSUME NEW s, Shape(s), s.rtxQueue # {} \/ s.backlog > 0
    PROVE  Sends(s, SendPacket(s))
BY SendNewPacketSends, SendRtxPacketSends DEF SendPacket

\* A permitted send, the port it occupies and the next registration.
LEMMA SendOnPortSends ==
    ASSUME NEW s, Shape(s), s.rtxQueue # {} \/ s.backlog > 0
    PROVE  Sends(s, RequestAgain(StartSending(SendPacket(s))))
<1> DEFINE t == SendPacket(s)
           u == StartSending(t)
           v == RequestAgain(u)
<1>1. Sends(s, t) /\ Shape(t)
  BY SendPacketSends DEF Sends
<1>2. Sends(t, u) /\ Shape(u)
  BY <1>1, NicSends DEF Sends
<1>3. Sends(u, v)
  BY <1>2, NicSends
<1> HIDE DEF t, u, v
<1>4. Sends(t, v)
  BY <1>1, <1>2, <1>3, SendsTransitive
<1>5. Sends(s, v)
  BY <1>1, <1>4, SendsTransitive
<1>6. QED
  BY <1>5 DEF t, u, v

LEMMA SendIfPermittedSends ==
    ASSUME NEW s, Shape(s)
    PROVE  Sends(s, SendIfPermitted(s))
<1>1. IsSendPermitted(s) => s.rtxQueue # {} \/ s.backlog > 0
  BY DEF IsSendPermitted
<1>2. QED
  BY <1>1, SendsReflexive, NicSends, SendOnPortSends DEF SendIfPermitted

LEMMA TimeToSendSends ==
    ASSUME NEW s, Shape(s)
    PROVE  Sends(s, TimeToSend(s))
<1> DEFINE a == [s EXCEPT !.blocked = FALSE]
           u == RequestAgain(StartSending(SendPacket(a)))
           v == [a EXCEPT !.registered = 0]
<1>1. Sends(s, a) /\ Shape(a)
  BY NicSends DEF Sends
<1>2. Sends(a, v)
  BY <1>1, NicSends
<1>3. IsSendPermitted(a) => Sends(a, u)
  BY <1>1, SendOnPortSends DEF IsSendPermitted
<1>4. TimeToSend(s) = IF IsSendPermitted(a) THEN u ELSE v
  BY DEF TimeToSend
<1> HIDE DEF a, u, v
<1>5. QED
  BY <1>1, <1>2, <1>3, <1>4, SendsTransitive

-----------------------------------------------------------------------------
(* The NIC.  Every handler that may leave something to send ends with an   *)
(* attempt to send it: it goes out, or the source is left registered.      *)

\* What the NIC knows of the sender.
SameNic(s, t) ==
    t.blocked = s.blocked /\ t.registered = s.registered /\ t.portBusy = s.portBusy

\* A source waits for a call-back only while it is registered, and is
\* registered only for a busy port; the window has room for a packet.
Ready(s) ==
    /\ s.blocked => s.registered > 0
    /\ s.registered > 0 => s.portBusy
    /\ s.cwnd >= PktSize

\* With nothing outstanding, what may be sent waits for the NIC.
Awake(s) == DOMAIN s.tx = {} /\ IsSendPermitted(s) => s.registered > 0

LEMMA SendPacketNic ==
    ASSUME NEW s, Shape(s), s.rtxQueue # {} \/ s.backlog > 0
    PROVE  LET t == SendPacket(s)
           IN  Shape(t) /\ SameNic(s, t) /\ t.cwnd = s.cwnd /\ DOMAIN t.tx # {}
<1>1. s \in Sender
  BY DEF Shape
<1>2. Sends(s, SendPacket(s))
  BY SendPacketSends
<1>3. SameNic(s, SendNewPacket(s)) /\ s.highestSent \in DOMAIN SendNewPacket(s).tx
  BY <1>1 DEF SendNewPacket, CreateSendRecord, StartRTO, Sender, SameNic
<1>4. SameNic(s, SendRtxPacket(s)) /\ Min(s.rtxQueue) \in DOMAIN SendRtxPacket(s).tx
  BY <1>1 DEF SendRtxPacket, CreateSendRecord, StartRTO, Sender, SameNic
<1>5. QED
  BY <1>2, <1>3, <1>4 DEF SendPacket, Sends

\* The port is taken, and the source registers again if it has more to send.
LEMMA SendOnPortReady ==
    ASSUME NEW s, Shape(s), s.rtxQueue # {} \/ s.backlog > 0, ~s.blocked, s.cwnd >= PktSize
    PROVE  LET t == RequestAgain(StartSending(SendPacket(s)))
           IN  Ready(t) /\ Awake(t)
<1> DEFINE v == SendPacket(s)
           u == StartSending(v)
           t == RequestAgain(u)
<1>1. Shape(v) /\ v \in Sender /\ ~v.blocked /\ v.cwnd >= PktSize /\ DOMAIN v.tx # {}
  BY SendPacketNic DEF Shape, SameNic
<1> HIDE DEF v
<1>2. /\ u \in Sender /\ ~u.blocked /\ u.portBusy /\ u.cwnd >= PktSize
      /\ DOMAIN u.tx # {}
  <2>1. Sends(v, u)
    BY <1>1, NicSends
  <2>2. u \in Sender /\ u.cwnd = v.cwnd
    BY <2>1 DEF Sends, Shape
  <2>3. u.portBusy /\ u.blocked = v.blocked /\ u.tx = v.tx
    BY <1>1 DEF StartSending, Sender
  <2>4. QED
    BY <1>1, <2>2, <2>3
<1> HIDE DEF u
<1>3. CASE IsSendPermitted(u)
  <2>1. t = [u EXCEPT !.registered = u.registered + 1, !.blocked = TRUE]
    BY <1>2, <1>3 DEF RequestAgain, Register, Sender
  <2>2. u.registered \in Nat
    BY <1>2, SenderFields
  <2>3. /\ t.registered = u.registered + 1 /\ t.portBusy /\ t.cwnd = u.cwnd
        /\ t.tx = u.tx
    BY <1>2, <2>1 DEF Sender
  <2> HIDE DEF t
  <2>4. t.registered > 0
    BY <2>2, <2>3
  <2>5. QED
    BY <1>2, <2>3, <2>4 DEF Ready, Awake, t, u, v
<1>4. CASE ~IsSendPermitted(u)
  <2>1. t = u
    BY <1>4 DEF RequestAgain
  <2> HIDE DEF t
  <2>2. QED
    BY <1>2, <2>1 DEF Ready, Awake, t, u, v
<1>5. QED
  BY <1>3, <1>4

LEMMA SendIfPermittedReady ==
    ASSUME NEW s, Shape(s), Ready(s)
    PROVE  Ready(SendIfPermitted(s)) /\ Awake(SendIfPermitted(s))
<1>1. s \in Sender /\ s.registered \in Nat
  BY SenderFields DEF Shape
<1>2. CASE ~IsSendPermitted(s) \/ s.blocked
  BY <1>2 DEF SendIfPermitted, Ready, Awake
<1>3. CASE IsSendPermitted(s) /\ ~s.blocked /\ s.portBusy
  <2> DEFINE t == [s EXCEPT !.registered = s.registered + 1, !.blocked = TRUE]
  <2>1. SendIfPermitted(s) = t
    BY <1>1, <1>3 DEF SendIfPermitted, RequestAgain, Register, Sender
  <2>2. t.registered = s.registered + 1 /\ t.portBusy = s.portBusy /\ t.cwnd = s.cwnd
    BY <1>1 DEF Sender
  <2> HIDE DEF t
  <2>3. t.registered > 0
    BY <1>1, <2>2
  <2>4. QED
    BY <1>3, <2>1, <2>2, <2>3 DEF Ready, Awake
<1>4. CASE IsSendPermitted(s) /\ ~s.blocked /\ ~s.portBusy
  <2>1. SendIfPermitted(s) = RequestAgain(StartSending(SendPacket(s)))
    BY <1>4 DEF SendIfPermitted
  <2>2. (s.rtxQueue # {} \/ s.backlog > 0) /\ s.cwnd >= PktSize
    BY <1>4 DEF IsSendPermitted, Ready
  <2>3. QED
    BY <1>4, <2>1, <2>2, SendOnPortReady
<1>5. QED
  BY <1>2, <1>3, <1>4

LEMMA TimeToSendReady ==
    ASSUME NEW s, Shape(s), s.cwnd >= PktSize
    PROVE  Ready(TimeToSend(s)) /\ Awake(TimeToSend(s))
<1> DEFINE a == [s EXCEPT !.blocked = FALSE]
           b == [a EXCEPT !.registered = 0]
<1>1. Shape(a) /\ a.cwnd = s.cwnd
  BY NicSends DEF Sends
<1>2. a \in Sender /\ s \in Sender
  BY <1>1 DEF Shape
<1>3. ~a.blocked
  BY <1>2 DEF Sender
<1>4. CASE IsSendPermitted(a)
  <2>1. TimeToSend(s) = RequestAgain(StartSending(SendPacket(a)))
    BY <1>4 DEF TimeToSend
  <2>2. a.rtxQueue # {} \/ a.backlog > 0
    BY <1>4 DEF IsSendPermitted
  <2> HIDE DEF a
  <2>3. QED
    BY <1>1, <1>3, <2>1, <2>2, SendOnPortReady
<1>5. CASE ~IsSendPermitted(a)
  <2>1. TimeToSend(s) = b
    BY <1>5 DEF TimeToSend
  <2> HIDE DEF a
  <2>2. /\ ~b.blocked /\ b.registered = 0 /\ b.cwnd = s.cwnd /\ b.rtxQueue = a.rtxQueue
        /\ b.backlog = a.backlog /\ b.inFlight = a.inFlight /\ b.ctrl = a.ctrl
        /\ b.cwnd = a.cwnd
    BY <1>1, <1>2, <1>3 DEF Sender
  <2> HIDE DEF b
  <2>3. ~IsSendPermitted(b)
    BY <1>5, <2>2 DEF IsSendPermitted, NextPacketSize, Size
  <2>4. QED
    BY <2>1, <2>2, <2>3 DEF Ready, Awake
<1>6. QED
  BY <1>4, <1>5

-----------------------------------------------------------------------------
(* Settling records and setting the timer.                                 *)

\* t differs from s in the records and the timer at most.
SameButRecords(s, t) ==
    /\ t.started = s.started /\ t.highestSent = s.highestSent
    /\ t.backlog = s.backlog /\ t.rtxQueue = s.rtxQueue
    /\ t.rtxBacklog = s.rtxBacklog /\ t.ctrl = s.ctrl
    /\ t.inFlight = s.inFlight /\ t.recvd = s.recvd /\ t.cwnd = s.cwnd
    /\ t.clock = s.clock /\ t.done = s.done /\ t.out = s.out
    /\ SameNic(s, t)

LEMMA EraseRecordsKeeps ==
    ASSUME NEW s, Shape(s), NEW A
    PROVE  /\ Shape(EraseRecords(s, A))
           /\ SameButRecords(s, EraseRecords(s, A))
           /\ EraseRecords(s, A).rto = s.rto
           /\ DOMAIN EraseRecords(s, A).tx = DOMAIN s.tx \ A
           /\ \A q \in DOMAIN s.tx \ A : EraseRecords(s, A).tx[q] = s.tx[q]
           /\ TimerRight(s) /\ (\A q \in A \cap DOMAIN s.tx : s.tx[q] # s.rto)
                 => TimerRight(EraseRecords(s, A))
<1> DEFINE t == EraseRecords(s, A)
           D == DOMAIN s.tx \ A
           tx == [p \in D |-> s.tx[p]]
           times == s.sendTimes \ {<<s.tx[q], q>> : q \in A \cap DOMAIN s.tx}
<1>1. s \in Sender
  BY DEF Shape
<1>2. t = [s EXCEPT !.tx = tx, !.sendTimes = times]
  BY DEF EraseRecords
<1>3. SameButRecords(s, t) /\ t.tx = tx /\ t.sendTimes = times /\ t.rto = s.rto
  BY <1>1, <1>2 DEF Sender, SameButRecords, SameNic
<1>4. /\ DOMAIN s.tx \in SUBSET Nat /\ s.tx \in [DOMAIN s.tx -> Nat]
      /\ s.rto \in Nat /\ s.clock \in Nat
  BY <1>1, SenderFields
<1>5. DOMAIN t.tx = D /\ t.tx \in [D -> Nat] /\ \A q \in D : t.tx[q] = s.tx[q]
  BY <1>3, <1>4
<1>6. times = {<<s.tx[p], p>> : p \in D}
  BY DEF Shape
<1>7. times = {<<t.tx[p], p>> : p \in DOMAIN t.tx}
  BY <1>5, <1>6
<1>8. \A p \in DOMAIN t.tx : t.tx[p] \in 1 .. s.clock
  BY <1>5 DEF Shape
<1>9. times \in SUBSET ((Nat \ {0}) \X Nat) /\ s.sendTimes \in SUBSET ((Nat \ {0}) \X Nat)
  <2>1. \A p \in DOMAIN s.tx : s.tx[p] \in Nat \ {0} /\ p \in Nat
    BY <1>4 DEF Shape
  <2>2. s.sendTimes \in SUBSET ((Nat \ {0}) \X Nat)
    BY <2>1 DEF Shape
  <2>3. QED
    BY <2>2
<1> HIDE DEF tx
<1>10. t \in Sender
  <2>1. tx \in UNION {[E -> Nat] : E \in SUBSET Nat}
    BY <1>3, <1>4, <1>5
  <2>2. times \in SUBSET (Nat \X Nat)
    BY <1>9
  <2> HIDE DEF times, t
  <2>3. QED
    BY <1>1, <1>2, <2>1, <2>2 DEF Sender
<1> HIDE DEF t, times
<1>11. Shape(t)
  <2>1. Numbers(t) = Numbers(s)
    BY <1>3 DEF SameButRecords, Numbers
  <2>2. DOMAIN t.tx \subseteq Numbers(t) /\ DOMAIN t.tx \cap t.rtxQueue = {}
    BY <1>3, <1>5, <2>1 DEF Shape, SameButRecords
  <2>3. QED
    BY <1>3, <1>7, <1>8, <1>10, <2>1, <2>2 DEF Shape, SameButRecords
<1>12. ASSUME TimerRight(s), \A q \in A \cap DOMAIN s.tx : s.tx[q] # s.rto
       PROVE  TimerRight(t)
  <2>1. CASE s.sendTimes = {}
    <3>1. times = {}
      BY <2>1 DEF times
    <3>2. QED
      BY <1>3, <1>12, <2>1, <3>1 DEF TimerRight
  <2>2. CASE s.sendTimes # {}
    <3>1. /\ s.rto \in Nat \ {0}
          /\ \E p \in s.sendTimes : p[1] = s.rto
          /\ \A p \in s.sendTimes : s.rto <= p[1]
      BY <1>9, <1>12, <2>2, EarliestIsLeast DEF TimerRight
    <3>2. PICK q \in DOMAIN s.tx : s.tx[q] = s.rto
      BY <3>1 DEF Shape
    <3>3. q \in D /\ <<s.tx[q], q>> \in times
      BY <1>6, <1>12, <3>2
    <3>4. times # {} /\ \E p \in times : p[1] = s.rto
      BY <3>2, <3>3
    <3>5. \A p \in times : s.rto <= p[1]
      BY <3>1 DEF times
    <3>6. /\ Earliest(times) \in Nat \ {0}
          /\ \E p \in times : p[1] = Earliest(times)
          /\ \A p \in times : Earliest(times) <= p[1]
      BY <1>9, <3>4, EarliestIsLeast
    <3>7. s.rto <= Earliest(times) /\ Earliest(times) <= s.rto
      BY <3>4, <3>5, <3>6
    <3>8. QED
      BY <1>3, <3>1, <3>6, <3>7 DEF TimerRight
  <2>3. QED
    BY <2>1, <2>2
<1>13. QED
  BY <1>3, <1>5, <1>11, <1>12 DEF t

LEMMA RecalculateRTOKeeps ==
    ASSUME NEW s, Shape(s)
    PROVE  /\ Shape(RecalculateRTO(s))
           /\ SameButRecords(s, RecalculateRTO(s))
           /\ RecalculateRTO(s).tx = s.tx
           /\ TimerRight(RecalculateRTO(s))
<1> DEFINE t == RecalculateRTO(s)
           r == Earliest(s.sendTimes)
<1>1. s \in Sender
  BY DEF Shape
<1>2. r \in Nat /\ r <= s.clock
  <2>1. /\ DOMAIN s.tx \in SUBSET Nat /\ s.clock \in Nat
        /\ \A p \in DOMAIN s.tx : s.tx[p] \in 1 .. s.clock
        /\ s.sendTimes = {<<s.tx[p], p>> : p \in DOMAIN s.tx}
    BY <1>1, SenderFields DEF Shape
  <2>2. s.sendTimes \in SUBSET ((Nat \ {0}) \X Nat)
    BY <2>1
  <2>3. \A p \in s.sendTimes : p[1] \in 1 .. s.clock
    BY <2>1
  <2>4. s.sendTimes = {} \/ \E p \in s.sendTimes : p[1] = r
    BY <2>2, EarliestIsLeast
  <2>5. CASE s.sendTimes = {}
    BY <2>1, <2>2, <2>5, EarliestIsLeast
  <2>6. CASE s.sendTimes # {}
    BY <2>1, <2>3, <2>4, <2>6
  <2>7. QED
    BY <2>5, <2>6
<1>3. t = [s EXCEPT !.rto = r]
  BY DEF RecalculateRTO
<1> HIDE DEF r
<1>4. t \in Sender /\ SameButRecords(s, t) /\ t.rto = r /\ t.tx = s.tx
      /\ t.sendTimes = s.sendTimes
  BY <1>1, <1>2, <1>3 DEF Sender, SameButRecords, SameNic
<1> HIDE DEF t
<1>5. Numbers(t) = Numbers(s)
  BY <1>4 DEF Numbers, SameButRecords
<1>6. Shape(t)
  BY <1>2, <1>4, <1>5 DEF Shape, SameButRecords
<1>7. TimerRight(t)
  BY <1>4 DEF TimerRight, r
<1>8. QED
  BY <1>4, <1>6, <1>7 DEF t

-----------------------------------------------------------------------------
(* The handlers.                                                           *)

Good(s) == Shape(s) /\ TimerRight(s) /\ Finished(s) /\ Exact(s)

\* What stays while records are settled.
SameFlow(s, t) ==
    /\ t.started = s.started /\ t.highestSent = s.highestSent
    /\ t.backlog = s.backlog /\ t.ctrl = s.ctrl /\ t.recvd = s.recvd
    /\ t.cwnd = s.cwnd /\ t.done = s.done /\ t.out = s.out
    /\ SameNic(s, t)

CanSettle(s, A, R) == A \subseteq DOMAIN s.tx /\ R \subseteq s.rtxQueue

LEMMA SettleKeeps ==
    ASSUME NEW s, Good(s), NEW A, NEW R, CanSettle(s, A, R)
    PROVE  /\ Good(Settle(s, A, R)) /\ SameFlow(s, Settle(s, A, R))
           /\ DOMAIN Settle(s, A, R).tx = DOMAIN s.tx \ A
           /\ Settle(s, A, R).rtxQueue = s.rtxQueue \ R
<1> DEFINE y == Bytes(s, R)
           a == [s EXCEPT !.rtxQueue = s.rtxQueue \ R,
                          !.rtxBacklog = s.rtxBacklog - y,
                          !.inFlight = s.inFlight + y]
           b == EraseRecords(a, A)
           t == Settle(s, A, R)
<1>1. s \in Sender /\ Shape(s) /\ TimerRight(s) /\ Finished(s) /\ Exact(s)
      /\ A \subseteq DOMAIN s.tx /\ R \subseteq s.rtxQueue
  BY DEF Good, Shape, CanSettle
<1>2. IsFiniteSet(R \ s.ctrl) /\ IsFiniteSet(R \cap s.ctrl)
      /\ Cardinality(R \ s.ctrl) \in Nat /\ Cardinality(R \cap s.ctrl) \in Nat
  BY <1>1, NumbersFinite DEF Shape
<1>3. y = PktSize * Cardinality(R \ s.ctrl) + HdrSize * Cardinality(R \cap s.ctrl)
      /\ y \in Int
  BY <1>2, TransportAssumption DEF Bytes
<1>4. s.rtxBacklog - y \in Int /\ s.inFlight + y \in Int /\ s.rtxQueue \ R \in SUBSET Nat
  BY <1>1, <1>3, SenderFields
<1> HIDE DEF y
<1>5. a \in Sender
  <2> DEFINE f == s.rtxBacklog - y
             g == s.inFlight + y
             h == s.rtxQueue \ R
  <2>1. f \in Int /\ g \in Int /\ h \in SUBSET Nat
    BY <1>4
  <2>2. a = [s EXCEPT !.rtxQueue = h, !.rtxBacklog = f, !.inFlight = g]
    OBVIOUS
  <2> HIDE DEF a, f, g, h
  <2>3. QED
    BY <1>1, <2>1, <2>2 DEF Sender
<1>6. /\ a.rtxQueue = s.rtxQueue \ R /\ a.inFlight = s.inFlight + y
      /\ SameFlow(s, a) /\ a.tx = s.tx /\ a.sendTimes = s.sendTimes
      /\ a.rto = s.rto /\ a.clock = s.clock
  BY <1>1 DEF Sender, SameFlow, SameNic
<1>7. Settle(s, A, R) = IF \E q \in A : s.tx[q] = s.rto THEN RecalculateRTO(b) ELSE b
  BY DEF Settle, y
<1> HIDE DEF a
<1>8. Numbers(a) = Numbers(s)
  BY <1>6 DEF Numbers, SameFlow
<1>9. Shape(a)
  BY <1>1, <1>5, <1>6, <1>8 DEF Shape, SameFlow
<1>10. TimerRight(a)
  BY <1>1, <1>6 DEF TimerRight
<1>11. /\ Shape(b) /\ SameButRecords(a, b) /\ b.rto = s.rto
       /\ DOMAIN b.tx = DOMAIN s.tx \ A
       /\ ~(\E q \in A : s.tx[q] = s.rto) => TimerRight(b)
  BY <1>6, <1>9, <1>10, EraseRecordsKeeps
<1> HIDE DEF b
<1>12. /\ Shape(t) /\ SameButRecords(a, t) /\ DOMAIN t.tx = DOMAIN s.tx \ A
       /\ TimerRight(t)
  <2>1. CASE \E q \in A : s.tx[q] = s.rto
    <3>1. t = RecalculateRTO(b)
      BY <1>7, <2>1
    <3>2. Shape(t) /\ SameButRecords(b, t) /\ t.tx = b.tx /\ TimerRight(t)
      BY <1>11, <3>1, RecalculateRTOKeeps
    <3> HIDE DEF t
    <3>3. QED
      BY <1>11, <3>2 DEF SameButRecords, SameNic
  <2>2. CASE ~(\E q \in A : s.tx[q] = s.rto)
    BY <1>7, <1>11, <2>2
  <2>3. QED
    BY <2>1, <2>2
<1> HIDE DEF t
<1>13. SameFlow(s, t) /\ t.rtxQueue = s.rtxQueue \ R /\ t.inFlight = s.inFlight + y
  BY <1>6, <1>12 DEF SameFlow, SameButRecords, SameNic
<1>14. Finished(t)
  BY <1>1, <1>12, <1>13 DEF Finished, SameFlow
<1>15. Exact(t)
  <2> DEFINE N == Numbers(s) \ (s.ctrl \cup s.rtxQueue)
             C == s.ctrl \cap s.rtxQueue
             n == Cardinality(N)
             m == Cardinality(C)
             k == Cardinality(R \ s.ctrl)
             r == Cardinality(R \cap s.ctrl)
  <2>1. Numbers(t) = Numbers(s)
    BY <1>13 DEF Numbers, SameFlow
  <2>2. /\ Numbers(t) \ (t.ctrl \cup t.rtxQueue) = N \cup (R \ s.ctrl)
        /\ N \cap (R \ s.ctrl) = {}
        /\ t.ctrl \cap t.rtxQueue = C \ (R \cap s.ctrl)
        /\ C \cap (R \cap s.ctrl) = R \cap s.ctrl
    BY <1>1, <1>13, <2>1 DEF Shape, SameFlow
  <2>3. IsFiniteSet(N) /\ IsFiniteSet(C) /\ n \in Nat /\ m \in Nat /\ k \in Nat /\ r \in Nat
    BY <1>1, <1>2, NumbersFinite DEF Shape
  <2>4. Cardinality(N \cup (R \ s.ctrl)) = n + k
    BY <1>2, <2>2, <2>3, DisjointUnion
  <2>5. Cardinality(C \ (R \cap s.ctrl)) = m - r
    BY <2>2, <2>3, SubsetRemoved
  <2>6. Exact(s) => s.inFlight + s.recvd = PktSize * n - HdrSize * m
    BY DEF Exact
  <2>7. t.inFlight + t.recvd = PktSize * (n + k) - HdrSize * (m - r) => Exact(t)
    BY <2>2, <2>4, <2>5 DEF Exact
  <2>8. y = PktSize * k + HdrSize * r
    BY <1>3
  <2>9. PktSize \in Int /\ HdrSize \in Int /\ s.inFlight \in Int /\ s.recvd \in Int
    BY <1>1, SenderFields, TransportAssumption
  <2> HIDE DEF n, m, k, r
  <2>10. /\ PktSize * (n + k) = PktSize * n + PktSize * k
         /\ HdrSize * (m - r) = HdrSize * m - HdrSize * r
         /\ PktSize * n \in Int /\ PktSize * k \in Int
         /\ HdrSize * m \in Int /\ HdrSize * r \in Int
    BY <2>3, <2>9
  <2>11. QED
    BY <1>1, <1>13, <2>6, <2>7, <2>8, <2>9, <2>10 DEF SameFlow
<1>16. QED
  BY <1>12, <1>13, <1>14, <1>15 DEF Good, t

\* The bytes of q have been taken off _in_flight, and q is not queued yet.
Owed(s, q) ==
    s.inFlight + Size(s, q) + s.recvd =
        PktSize * Cardinality(Numbers(s) \ (s.ctrl \cup s.rtxQueue))
        - HdrSize * Cardinality(s.ctrl \cap s.rtxQueue)

Queued(s, q) ==
    [s EXCEPT !.rtxQueue = @ \cup {q}, !.rtxBacklog = @ + Size(s, q)]

LEMMA QueuedKeeps ==
    ASSUME NEW s, Shape(s), NEW q \in Numbers(s), q \notin DOMAIN s.tx,
           q \notin s.rtxQueue, Owed(s, q)
    PROVE  LET u == Queued(s, q)
           IN  /\ Shape(u) /\ Exact(u) /\ SameFlow(s, u)
               /\ u.rtxQueue = s.rtxQueue \cup {q} /\ u.tx = s.tx
               /\ u.rto = s.rto /\ u.sendTimes = s.sendTimes
<1> DEFINE u == Queued(s, q)
           z == Size(s, q)
           f == s.rtxBacklog + z
           h == s.rtxQueue \cup {q}
<1>1. s \in Sender /\ q \in Nat
  BY NumbersFinite DEF Shape
<1>2. z = (IF q \in s.ctrl THEN HdrSize ELSE PktSize) /\ z \in Nat
  BY TransportAssumption DEF Size
<1>3. f \in Int /\ h \in SUBSET Nat
  BY <1>1, <1>2, SenderFields
<1>4. u = [s EXCEPT !.rtxQueue = h, !.rtxBacklog = f]
  BY DEF Queued
<1> HIDE DEF u, f
<1>5. /\ u \in Sender /\ u.rtxQueue = h /\ SameFlow(s, u) /\ u.tx = s.tx /\ u.rto = s.rto
      /\ u.sendTimes = s.sendTimes /\ u.clock = s.clock /\ u.inFlight = s.inFlight
  <2> HIDE DEF h
  <2>1. u \in Sender
    BY <1>1, <1>3, <1>4 DEF Sender
  <2>2. QED
    BY <1>1, <1>3, <1>4, <2>1 DEF Sender, SameFlow, SameNic
<1>6. Numbers(u) = Numbers(s)
  BY <1>5 DEF Numbers, SameFlow
<1>7. Shape(u)
  <2>1. u.rtxQueue \subseteq Numbers(u) /\ DOMAIN u.tx \cap u.rtxQueue = {}
    BY <1>5, <1>6 DEF Shape
  <2>2. QED
    BY <1>5, <1>6, <2>1 DEF Shape, SameFlow
<1>8. Exact(u)
  <2> DEFINE N == Numbers(s) \ (s.ctrl \cup s.rtxQueue)
             C == s.ctrl \cap s.rtxQueue
             n == Cardinality(N)
             m == Cardinality(C)
  <2>1. IsFiniteSet(N) /\ IsFiniteSet(C) /\ n \in Nat /\ m \in Nat
    BY <1>1, NumbersFinite DEF Shape
  <2>2. /\ PktSize \in Int /\ HdrSize \in Int /\ s.inFlight \in Int /\ s.recvd \in Int
        /\ PktSize * n \in Int /\ HdrSize * m \in Int
    BY <1>1, <2>1, SenderFields, TransportAssumption
  <2>3. s.inFlight + z + s.recvd = PktSize * n - HdrSize * m
    BY DEF Owed
  <2>4. CASE q \in s.ctrl
    <3>1. /\ Numbers(u) \ (u.ctrl \cup u.rtxQueue) = N
          /\ u.ctrl \cap u.rtxQueue = C \cup {q} /\ q \notin C
      BY <1>5, <1>6, <2>4 DEF SameFlow
    <3>2. Cardinality(C \cup {q}) = m + 1
      BY <2>1, <3>1, FS_AddElement
    <3>3. HdrSize * (m + 1) = HdrSize * m + HdrSize
      BY <2>1, TransportAssumption
    <3>4. u.inFlight + u.recvd = PktSize * n - HdrSize * (m + 1) => Exact(u)
      BY <3>1, <3>2 DEF Exact
    <3> HIDE DEF n, m, z
    <3>5. QED
      BY <1>2, <1>5, <2>2, <2>3, <2>4, <3>3, <3>4 DEF SameFlow
  <2>5. CASE q \notin s.ctrl
    <3>1. /\ Numbers(u) \ (u.ctrl \cup u.rtxQueue) = N \ {q} /\ q \in N
          /\ u.ctrl \cap u.rtxQueue = C
      BY <1>5, <1>6, <2>5 DEF SameFlow
    <3>2. Cardinality(N \ {q}) = n - 1
      BY <2>1, <3>1, FS_RemoveElement
    <3>3. PktSize * (n - 1) = PktSize * n - PktSize
      BY <2>1, TransportAssumption
    <3>4. u.inFlight + u.recvd = PktSize * (n - 1) - HdrSize * m => Exact(u)
      BY <3>1, <3>2 DEF Exact
    <3> HIDE DEF n, m, z
    <3>5. QED
      BY <1>2, <1>5, <2>2, <2>3, <2>5, <3>3, <3>4 DEF SameFlow
  <2>6. QED
    BY <2>4, <2>5
<1>9. QED
  BY <1>5, <1>7, <1>8 DEF u

LEMMA QueueForRtxKeeps ==
    ASSUME NEW s, Shape(s), NEW q \in Numbers(s), q \notin DOMAIN s.tx,
           q \notin s.rtxQueue, Owed(s, q), ~s.done
    PROVE  LET t == QueueForRtx(s, q)
           IN  /\ Shape(t) /\ Exact(t)
               /\ TimerRight(s) => TimerRight(t)
               /\ s.rto # 0 => t.rto = s.rto
               /\ t.done = s.done /\ t.recvd = s.recvd /\ t.ctrl = s.ctrl
               /\ t.started = s.started /\ t.cwnd = s.cwnd
               /\ s.highestSent <= t.highestSent
               /\ Forgotten(t) \subseteq Forgotten(s) \ {q}
               /\ ~t.portBusy => t.rtxQueue # {}
               /\ Ready(s) => Ready(t) /\ Awake(t)
<1> DEFINE u == Queued(s, q)
           t == SendIfPermitted(u)
<1>1. QueueForRtx(s, q) = t
  BY DEF QueueForRtx, Queued
<1>2. /\ Shape(u) /\ Exact(u) /\ SameFlow(s, u) /\ u.tx = s.tx
      /\ u.rtxQueue = s.rtxQueue \cup {q} /\ u.rto = s.rto /\ u.sendTimes = s.sendTimes
  BY QueuedKeeps
<1> HIDE DEF u
<1>3. Sends(u, t)
  BY <1>2, SendIfPermittedSends
<1>4. Forgotten(u) \subseteq Forgotten(s) \ {q}
  BY <1>2 DEF Forgotten, Numbers, SameFlow
<1>5. TimerRight(s) => TimerRight(u)
  BY <1>2 DEF TimerRight
<1>6. ~t.portBusy => t.rtxQueue # {}
  <2>1. RequestAgain(u).rtxQueue = u.rtxQueue
    BY <1>2 DEF RequestAgain, Register, Shape, Sender
  <2>2. ASSUME IsSendPermitted(u)
        PROVE  RequestAgain(StartSending(SendPacket(u))).portBusy
    <3> DEFINE v == SendPacket(u)
    <3>1. v \in Sender
      BY <1>2, <2>2, SendPacketSends DEF Sends, Shape, IsSendPermitted
    <3> HIDE DEF v
    <3>2. QED
      BY <3>1 DEF RequestAgain, StartSending, Register, Sender, v
  <2>3. u.rtxQueue # {}
    BY <1>2
  <2>4. QED
    BY <2>1, <2>2, <2>3 DEF SendIfPermitted
<1>7. Ready(s) => Ready(t) /\ Awake(t)
  <2>1. Ready(s) => Ready(u)
    BY <1>2 DEF Ready, SameFlow, SameNic
  <2>2. QED
    BY <1>2, <2>1, SendIfPermittedReady
<1> HIDE DEF t
<1>8. QED
  BY <1>1, <1>2, <1>3, <1>4, <1>5, <1>6, <1>7 DEF Sends, SameFlow

\* What an event makes of the sender: F is what an ack says the receiver has,
\* r the bytes the sender knows the receiver to have.
Handles(s, t, F, r) ==
    /\ Good(t)
    /\ s.highestSent <= t.highestSent
    /\ Forgotten(t) \subseteq Forgotten(s) \cup F
    /\ s.done => t.done
    /\ ~s.done /\ t.done => t.highestSent = s.highestSent
    /\ t.recvd = r

LEMMA SendsHandles ==
    ASSUME NEW s, NEW t, Good(s), Sends(s, t)
    PROVE  Handles(s, t, {}, s.recvd) /\ t.ctrl = s.ctrl
BY DEF Good, Sends, Handles

LEMMA HandlesThenSends ==
    ASSUME NEW s, NEW t, NEW u, NEW F, NEW r,
           Good(s), Handles(s, t, F, r), t.done => s.done, Sends(t, u)
    PROVE  Handles(s, u, F, r)
<1>1. s.highestSent \in Nat /\ t.highestSent \in Nat /\ u.highestSent \in Nat
  BY SenderFields DEF Good, Handles, Sends, Shape
<1>2. QED
  BY <1>1 DEF Good, Sends, Handles

LEMMA ProcessNackHandles ==
    ASSUME NEW s, Good(s), NEW q, NEW w \in Nat
    PROVE  /\ Handles(s, ProcessNack(s, q, w), {}, s.recvd)
           /\ ProcessNack(s, q, w).ctrl = s.ctrl
           /\ Ready(s) /\ w >= PktSize => Ready(ProcessNack(s, q, w))
           /\ Ready(s) /\ w >= PktSize /\ Awake(s) => Awake(ProcessNack(s, q, w))
<1> DEFINE z == Size(s, q)
           e == [s EXCEPT !.cwnd = w, !.inFlight = s.inFlight - z]
           a == EraseRecords(e, {q})
           b == QueueForRtx(a, q)
           c == IF s.tx[q] = b.rto THEN RecalculateRTO(b) ELSE b
           t == SendIfPermitted(c)
<1>1. CASE q \notin DOMAIN s.tx
  <2>1. ProcessNack(s, q, w) = s
    BY <1>1 DEF ProcessNack
  <2>2. Sends(s, s)
    BY SendsReflexive DEF Good
  <2>3. QED
    BY <2>1, <2>2, SendsHandles
<1>2. CASE q \in DOMAIN s.tx
  <2>1. ProcessNack(s, q, w) = t
    BY <1>2 DEF ProcessNack
  <2>2. s \in Sender /\ Shape(s) /\ TimerRight(s) /\ Finished(s) /\ Exact(s)
        /\ q \in Numbers(s) /\ q \notin s.rtxQueue /\ ~s.done
    BY <1>2 DEF Good, Shape, Finished
  <2>3. z \in Nat /\ s.inFlight \in Int /\ s.recvd \in Int
    BY <2>2, SenderFields, TransportAssumption DEF Size
  <2>4. /\ e \in Sender /\ e.inFlight = s.inFlight - z /\ e.tx = s.tx
        /\ e.sendTimes = s.sendTimes /\ e.rtxQueue = s.rtxQueue /\ e.rto = s.rto
        /\ e.clock = s.clock /\ e.started = s.started /\ e.highestSent = s.highestSent
        /\ e.backlog = s.backlog /\ e.ctrl = s.ctrl /\ e.recvd = s.recvd
        /\ e.done = s.done /\ e.out = s.out /\ SameNic(s, e) /\ e.cwnd = w
    <3> DEFINE f == s.inFlight - z
    <3>1. f \in Int /\ f = s.inFlight - z /\ e = [s EXCEPT !.cwnd = w, !.inFlight = f]
      BY <2>3
    <3> HIDE DEF e, f, z
    <3>2. e \in Sender
      BY <2>2, <3>1 DEF Sender
    <3>3. QED
      BY <2>2, <3>1, <3>2 DEF Sender, SameNic
  <2> HIDE DEF e
  <2>5. Numbers(e) = Numbers(s)
    BY <2>4 DEF Numbers
  <2>6. Shape(e) /\ TimerRight(e)
    BY <2>2, <2>4, <2>5 DEF Shape, TimerRight
  <2>7. /\ Shape(a) /\ SameButRecords(e, a) /\ a.rto = s.rto
        /\ DOMAIN a.tx = DOMAIN s.tx \ {q}
        /\ s.tx[q] # s.rto => TimerRight(a)
    BY <2>4, <2>6, EraseRecordsKeeps
  <2> HIDE DEF a
  <2>8. Numbers(a) = Numbers(s) /\ a.rtxQueue = s.rtxQueue /\ a.ctrl = s.ctrl
        /\ a.done = s.done /\ a.started = s.started /\ a.highestSent = s.highestSent
        /\ a.inFlight = s.inFlight - z /\ a.recvd = s.recvd
        /\ SameNic(s, a) /\ a.cwnd = w
    BY <2>4, <2>7 DEF SameButRecords, Numbers, SameNic
  <2>9. Owed(a, q)
    <3>1. Size(a, q) = z
      BY <2>8 DEF Size
    <3>2. a.inFlight + Size(a, q) + a.recvd = s.inFlight + s.recvd
      BY <2>3, <2>8, <3>1
    <3>3. QED
      BY <2>2, <2>8, <3>2 DEF Owed, Exact
  <2>10. /\ Shape(b) /\ Exact(b)
         /\ TimerRight(a) => TimerRight(b)
         /\ a.rto # 0 => b.rto = a.rto
         /\ b.done = s.done /\ b.recvd = s.recvd /\ b.ctrl = s.ctrl
         /\ b.started = s.started /\ s.highestSent <= b.highestSent
         /\ Forgotten(b) \subseteq Forgotten(a) \ {q}
         /\ Ready(a) => Ready(b)
    BY <2>2, <2>7, <2>8, <2>9, QueueForRtxKeeps
  <2> HIDE DEF b
  <2>11. Forgotten(b) \subseteq Forgotten(s)
    BY <2>7, <2>8, <2>10 DEF Forgotten
  <2>12. /\ Shape(c) /\ TimerRight(c) /\ SameButRecords(b, c) /\ DOMAIN c.tx = DOMAIN b.tx
    <3>1. CASE s.tx[q] = b.rto
      BY <2>10, <3>1, RecalculateRTOKeeps
    <3>2. CASE s.tx[q] # b.rto
      <4>1. s.tx[q] \in Nat \ {0}
        BY <1>2, <2>2, SenderFields DEF Shape
      <4>2. TimerRight(b)
        BY <2>7, <2>10, <3>2, <4>1
      <4>3. QED
        BY <2>10, <3>2, <4>2 DEF SameButRecords, SameNic
    <3>3. QED
      BY <3>1, <3>2
  <2> HIDE DEF c
  <2>13. Numbers(c) = Numbers(b) /\ Forgotten(c) = Forgotten(b) /\ Exact(c)
    BY <2>10, <2>12 DEF SameButRecords, Numbers, Forgotten, Exact
  <2>14. Handles(s, c, {}, s.recvd) /\ c.ctrl = s.ctrl /\ c.done = s.done
    BY <2>2, <2>10, <2>11, <2>12, <2>13 DEF Handles, Good, Finished, SameButRecords
  <2>15. Sends(c, t)
    BY <2>12, SendIfPermittedSends
  <2>16. Handles(s, t, {}, s.recvd) /\ t.ctrl = s.ctrl
    BY <2>14, <2>15, HandlesThenSends DEF Sends
  <2>17. Ready(s) /\ w >= PktSize => Ready(t) /\ Awake(t)
    <3>1. SUFFICES ASSUME Ready(s), w >= PktSize PROVE Ready(t) /\ Awake(t)
      OBVIOUS
    <3>2. Ready(a)
      BY <2>8, <3>1 DEF Ready, SameNic
    <3>3. Ready(c)
      BY <2>10, <2>12, <3>2 DEF Ready, SameButRecords, SameNic
    <3>4. QED
      BY <2>12, <3>3, SendIfPermittedReady
  <2>18. QED
    BY <2>1, <2>16, <2>17
<1>3. QED
  BY <1>1, <1>2

\* An ack whose cumulative number cum covers every number handed out leaves
\* no record and no queued retransmission behind.
LEMMA CheckFinishedKeeps ==
    ASSUME NEW s, Good(s), NEW cum \in Nat, cum <= s.highestSent,
           \A q \in DOMAIN s.tx \cup s.rtxQueue : q >= cum
    PROVE  LET t == CheckFinished(s, cum)
           IN  /\ Handles(s, t, {}, s.recvd) /\ t.ctrl = s.ctrl
               /\ cum - Cardinality(s.ctrl) >= NPkts => t.done
               /\ SameNic(s, t) /\ t.cwnd = s.cwnd
<1> DEFINE t == CheckFinished(s, cum)
           u == [s EXCEPT !.rto = 0, !.done = TRUE]
<1>1. s \in Sender /\ Shape(s)
  BY DEF Good, Shape
<1>2. CASE ~s.done /\ cum - Cardinality(s.ctrl) >= NPkts
  <2>1. t = u
    BY <1>1, <1>2 DEF CheckFinished, CancelRTO, Sender
  <2>2. /\ u \in Sender /\ u.rto = 0 /\ u.done /\ u.highestSent = s.highestSent
        /\ u.backlog = s.backlog /\ u.tx = s.tx /\ u.sendTimes = s.sendTimes
        /\ u.rtxQueue = s.rtxQueue /\ u.ctrl = s.ctrl /\ u.inFlight = s.inFlight
        /\ u.recvd = s.recvd /\ u.clock = s.clock /\ u.out = s.out
        /\ u.started = s.started /\ SameNic(s, u) /\ u.cwnd = s.cwnd
    BY <1>1 DEF Sender, SameNic
  <2>3. Cardinality(s.ctrl) \in Nat /\ s.highestSent \in Nat /\ s.backlog \in Nat /\ s.clock \in Nat
    BY <1>1, NumbersFinite, SenderFields DEF Shape
  <2>4. s.highestSent = NPkts - s.backlog + Cardinality(s.ctrl) /\ NPkts \in Nat
    BY <1>1, TransportAssumption DEF Shape
  <2>5. s.backlog = 0 /\ cum = s.highestSent
    BY <1>2, <2>3, <2>4
  <2>6. DOMAIN s.tx = {} /\ s.rtxQueue = {}
    <3>1. \A q \in DOMAIN s.tx \cup s.rtxQueue : q \in Nat /\ q < s.highestSent
      BY <1>1, <2>3 DEF Shape, Numbers
    <3>2. \A q \in DOMAIN s.tx \cup s.rtxQueue : FALSE
      BY <2>3, <2>5, <3>1
    <3>3. QED
      BY <3>2
  <2> HIDE DEF u
  <2>7. Numbers(u) = Numbers(s) /\ Forgotten(u) = Forgotten(s) /\ Exact(u)
    BY <2>2 DEF Numbers, Forgotten, Exact, Good
  <2>8. Shape(u)
    BY <1>1, <2>2, <2>3, <2>7 DEF Shape
  <2>9. TimerRight(u)
    <3>1. s.sendTimes = {}
      BY <1>1, <2>6 DEF Shape
    <3>2. QED
      BY <2>2, <3>1 DEF TimerRight, Earliest
  <2>10. Finished(u)
    BY <2>2, <2>5, <2>6 DEF Finished
  <2>11. QED
    BY <2>1, <2>2, <2>3, <2>7, <2>8, <2>9, <2>10 DEF Handles, Good
<1>3. CASE ~(~s.done /\ cum - Cardinality(s.ctrl) >= NPkts)
  <2>1. t = s
    BY <1>3 DEF CheckFinished
  <2>2. QED
    BY <1>1, <1>3, <2>1, SendsReflexive, SendsHandles DEF SameNic
<1>4. QED
  BY <1>2, <1>3

\* _recvd_bytes after an ack: an older ack does not lower it.
Highest(s, m) == IF m.recvd > s.recvd THEN m.recvd ELSE s.recvd

\* What an ack says the receiver has.
Covered(m) == 0 .. (m.cum - 1) \cup m.sacks

LEMMA ProcessAckHandles ==
    ASSUME NEW s, Good(s), NEW m, m.cum \in Nat, m.cum <= s.highestSent,
           m.recvd \in Nat, m.sacks \in SUBSET Nat, NEW w \in Nat
    PROVE  LET t == ProcessAck(s, m, w)
           IN  /\ Handles(s, t, Covered(m), Highest(s, m)) /\ t.ctrl = s.ctrl
               /\ m.cum - Cardinality(s.ctrl) >= NPkts => t.done
               /\ Ready(s) /\ w >= PktSize => Ready(t) /\ (t.done \/ Awake(t))
<1> DEFINE newly == IF m.recvd > s.recvd THEN m.recvd - s.recvd ELSE 0
           a == [s EXCEPT !.recvd = s.recvd + newly, !.inFlight = s.inFlight - newly]
           b == HandleCumulativeAck(a, m.cum)
           c == HandleSacks(b, m.sacks)
           d == [c EXCEPT !.cwnd = w]
           e == CheckFinished(d, m.cum)
           F == Covered(m)
<1>1. ProcessAck(s, m, w) = IF e.done THEN e ELSE SendIfPermitted(e)
  BY DEF ProcessAck
<1>2. s \in Sender /\ Shape(s) /\ TimerRight(s) /\ Finished(s) /\ Exact(s)
  BY DEF Good, Shape
<1>3. newly \in Nat /\ s.recvd \in Nat /\ s.inFlight \in Int
      /\ s.recvd + newly = Highest(s, m)
  BY <1>2, SenderFields DEF Highest
<1> HIDE DEF newly
<1>4. /\ a \in Sender /\ a.recvd = s.recvd + newly /\ a.inFlight = s.inFlight - newly
      /\ a.tx = s.tx /\ a.sendTimes = s.sendTimes /\ a.rtxQueue = s.rtxQueue
      /\ a.rto = s.rto /\ a.clock = s.clock /\ a.started = s.started
      /\ a.highestSent = s.highestSent /\ a.backlog = s.backlog /\ a.ctrl = s.ctrl
      /\ a.done = s.done /\ a.out = s.out /\ SameNic(s, a)
  <2> DEFINE f == s.recvd + newly
             g == s.inFlight - newly
  <2>1. f \in Nat /\ g \in Int /\ a = [s EXCEPT !.recvd = f, !.inFlight = g]
        /\ f = s.recvd + newly /\ g = s.inFlight - newly
    BY <1>3
  <2> HIDE DEF a, f, g
  <2>2. a \in Sender
    BY <1>2, <2>1 DEF Sender
  <2>3. QED
    BY <1>2, <2>1, <2>2 DEF Sender, SameNic
<1> HIDE DEF a
<1>5. Numbers(a) = Numbers(s) /\ Forgotten(a) = Forgotten(s)
  BY <1>4 DEF Numbers, Forgotten
<1>6. Good(a)
  <2>1. Shape(a) /\ TimerRight(a) /\ Finished(a)
    BY <1>2, <1>4, <1>5 DEF Shape, TimerRight, Finished
  <2>2. a.inFlight + a.recvd = s.inFlight + s.recvd
    BY <1>3, <1>4
  <2>3. Exact(a)
    BY <1>2, <1>4, <1>5, <2>2 DEF Exact
  <2>4. QED
    BY <2>1, <2>3 DEF Good
<1>7. /\ Good(b) /\ SameFlow(a, b)
      /\ DOMAIN b.tx = DOMAIN a.tx \ {q \in DOMAIN a.tx : q < m.cum}
      /\ b.rtxQueue = a.rtxQueue \ {q \in a.rtxQueue : q < m.cum}
  <2> DEFINE A == {q \in DOMAIN a.tx : q < m.cum}
             R == {q \in a.rtxQueue : q < m.cum}
  <2>1. b = Settle(a, A, R) /\ CanSettle(a, A, R)
    BY DEF HandleCumulativeAck, CanSettle
  <2> HIDE DEF A, R, b
  <2> DEFINE t == Settle(a, A, R)
  <2>2. Good(t) /\ SameFlow(a, t) /\ DOMAIN t.tx = DOMAIN a.tx \ A /\ t.rtxQueue = a.rtxQueue \ R
    BY <1>6, <2>1, SettleKeeps
  <2> HIDE DEF t
  <2>3. QED
    BY <2>1, <2>2 DEF A, R, t
<1> HIDE DEF b
<1>8. /\ Good(c) /\ SameFlow(b, c)
      /\ DOMAIN c.tx = DOMAIN b.tx \ (m.sacks \cap DOMAIN b.tx)
      /\ c.rtxQueue = b.rtxQueue \ ((m.sacks \cap b.rtxQueue) \ DOMAIN b.tx)
  <2> DEFINE A == m.sacks \cap DOMAIN b.tx
             R == (m.sacks \cap b.rtxQueue) \ DOMAIN b.tx
  <2>1. c = Settle(b, A, R) /\ CanSettle(b, A, R)
    BY DEF HandleSacks, CanSettle
  <2> HIDE DEF A, R, c
  <2> DEFINE t == Settle(b, A, R)
  <2>2. Good(t) /\ SameFlow(b, t) /\ DOMAIN t.tx = DOMAIN b.tx \ A /\ t.rtxQueue = b.rtxQueue \ R
    BY <1>7, <2>1, SettleKeeps
  <2> HIDE DEF t
  <2>3. QED
    BY <2>1, <2>2 DEF A, R, t
<1> HIDE DEF c
<1>9. /\ d \in Sender /\ d.tx = c.tx /\ d.sendTimes = c.sendTimes /\ d.rtxQueue = c.rtxQueue
      /\ d.rto = c.rto /\ d.clock = c.clock /\ d.started = c.started
      /\ d.highestSent = c.highestSent /\ d.backlog = c.backlog /\ d.ctrl = c.ctrl
      /\ d.done = c.done /\ d.out = c.out /\ d.inFlight = c.inFlight /\ d.recvd = c.recvd
      /\ SameNic(c, d) /\ d.cwnd = w
  BY <1>8 DEF Good, Shape, Sender, SameNic
<1> HIDE DEF d
<1>10. Numbers(d) = Numbers(c)
  BY <1>9 DEF Numbers
<1>11. Good(d)
  <2>1. Shape(d)
    BY <1>8, <1>9, <1>10 DEF Good, Shape
  <2>2. TimerRight(d) /\ Finished(d) /\ Exact(d)
    BY <1>8, <1>9, <1>10 DEF Good, TimerRight, Finished, Exact
  <2>3. QED
    BY <2>1, <2>2 DEF Good
<1>12. /\ d.highestSent = s.highestSent /\ d.ctrl = s.ctrl /\ d.done = s.done
       /\ d.started = s.started /\ d.recvd = Highest(s, m)
  BY <1>3, <1>4, <1>7, <1>8, <1>9 DEF SameFlow
<1>13. Forgotten(d) \subseteq Forgotten(s) \cup F
  <2>1. DOMAIN s.tx \subseteq Nat /\ s.rtxQueue \subseteq Nat /\ Numbers(d) = Numbers(s)
    BY <1>2, <1>12, SenderFields DEF Numbers
  <2>2. (\A q \in Nat : q < m.cum => q \in F) /\ m.sacks \subseteq F
    BY DEF Covered
  <2>3. QED
    BY <1>4, <1>7, <1>8, <1>9, <2>1, <2>2 DEF Forgotten
<1>14. \A q \in DOMAIN d.tx \cup d.rtxQueue : q >= m.cum
  <2>1. DOMAIN s.tx \subseteq Nat /\ s.rtxQueue \subseteq Nat
    BY <1>2, SenderFields
  <2>2. \A q \in DOMAIN d.tx \cup d.rtxQueue :
            q \in DOMAIN s.tx \cup s.rtxQueue /\ ~(q < m.cum)
    BY <1>4, <1>7, <1>8, <1>9
  <2>3. QED
    BY <2>1, <2>2
<1>15. /\ Handles(d, e, {}, d.recvd) /\ e.ctrl = d.ctrl
       /\ m.cum - Cardinality(d.ctrl) >= NPkts => e.done
       /\ SameNic(d, e) /\ e.cwnd = d.cwnd
  BY <1>11, <1>12, <1>14, CheckFinishedKeeps
<1> HIDE DEF e
<1>16. /\ Handles(s, e, F, Highest(s, m)) /\ e.ctrl = s.ctrl
       /\ m.cum - Cardinality(s.ctrl) >= NPkts => e.done
  BY <1>12, <1>13, <1>15 DEF Handles
<1>17. Ready(s) /\ w >= PktSize => Ready(e)
  BY <1>4, <1>7, <1>8, <1>9, <1>15 DEF Ready, SameFlow, SameNic
<1>18. CASE e.done
  BY <1>1, <1>16, <1>17, <1>18
<1>19. CASE ~e.done
  <2> DEFINE t == SendIfPermitted(e)
  <2>1. Sends(e, t)
    BY <1>16, SendIfPermittedSends DEF Handles, Good
  <2>2. Ready(s) /\ w >= PktSize => Ready(t) /\ Awake(t)
    BY <1>16, <1>17, SendIfPermittedReady DEF Handles, Good
  <2> HIDE DEF t
  <2>3. Handles(s, t, F, Highest(s, m)) /\ t.ctrl = s.ctrl
    BY <1>16, <1>19, <2>1, HandlesThenSends DEF Sends
  <2>4. QED
    BY <1>1, <1>16, <1>19, <2>2, <2>3 DEF t
<1>20. QED
  BY <1>18, <1>19

LEMMA SendRTSHandles ==
    ASSUME NEW s, Good(s), ~s.done
    PROVE  /\ Handles(s, SendRTS(s), {}, s.recvd) /\ ~SendRTS(s).done
           /\ SendRTS(s).highestSent = s.highestSent + 1
           /\ SendRTS(s).ctrl = s.ctrl \cup {s.highestSent}
           /\ Ready(s) => Ready(SendRTS(s)) /\ Awake(SendRTS(s))
<1> DEFINE q == s.highestSent
           d == [type |-> "rts", seq |-> q]
           c == s.clock + 1
           tx == [p \in DOMAIN s.tx \cup {q} |-> IF p = q THEN c ELSE s.tx[p]]
           times == s.sendTimes \cup {<<c, q>>}
           rto == IF s.rto = 0 \/ c < s.rto THEN c ELSE s.rto
           ctrl == s.ctrl \cup {q}
           o == s.out \cup {d}
           t == SendRTS(s)
<1>1. s \in Sender /\ Shape(s) /\ TimerRight(s) /\ Exact(s)
  BY DEF Good, Shape
<1>2. t = [s EXCEPT !.clock = c, !.tx = tx, !.sendTimes = times, !.ctrl = ctrl,
                    !.highestSent = q + 1, !.out = o, !.rto = rto]
  BY <1>1 DEF SendRTS, CreateSendRecord, StartRTO, Sender
<1>3. /\ t.clock = c /\ t.tx = tx /\ t.sendTimes = times /\ t.ctrl = ctrl
      /\ t.highestSent = q + 1 /\ t.out = o /\ t.rto = rto
      /\ t.backlog = s.backlog /\ t.inFlight = s.inFlight /\ t.rtxQueue = s.rtxQueue
      /\ t.recvd = s.recvd /\ t.done = s.done /\ t.started = s.started
      /\ SameNic(s, t) /\ t.cwnd = s.cwnd
  BY <1>1, <1>2 DEF Sender, SameNic
<1>4. q \in Nat /\ q \notin Numbers(s) /\ c \in Nat /\ q + 1 \in Nat /\ ctrl \in SUBSET Nat
  BY <1>1, SenderFields DEF Numbers
<1>5. /\ DOMAIN t.tx = DOMAIN s.tx \cup {q}
      /\ t.tx \in [DOMAIN s.tx \cup {q} -> Nat]
      /\ DOMAIN s.tx \in SUBSET Nat /\ q \notin DOMAIN s.tx
      /\ \A p \in DOMAIN t.tx : t.tx[p] \in 1 .. c
      /\ t.sendTimes = {<<t.tx[p], p>> : p \in DOMAIN t.tx}
      /\ t.sendTimes \in SUBSET (Nat \X Nat)
      /\ t.rto \in Nat /\ t.rto <= c
      /\ TimerRight(s) => TimerRight(t)
  <2>1. /\ DOMAIN s.tx \in SUBSET Nat /\ s.tx \in [DOMAIN s.tx -> Nat]
        /\ s.clock \in Nat /\ q \notin DOMAIN s.tx
    BY <1>1, <1>4 DEF Sender, Shape
  <2>2. /\ tx \in [DOMAIN s.tx \cup {q} -> Nat]
        /\ tx[q] = s.clock + 1 /\ \A p \in DOMAIN s.tx : tx[p] = s.tx[p]
    BY <1>4, <2>1
  <2>3. /\ t.tx \in [DOMAIN s.tx \cup {q} -> Nat]
        /\ t.tx[q] = s.clock + 1 /\ \A p \in DOMAIN s.tx : t.tx[p] = s.tx[p]
    BY <1>3, <2>2
  <2>4. /\ t.sendTimes = s.sendTimes \cup {<<s.clock + 1, q>>}
        /\ t.rto = IF s.rto = 0 \/ s.clock + 1 < s.rto THEN s.clock + 1 ELSE s.rto
    BY <1>3
  <2>5. Shape(s) /\ q \in Nat /\ c = s.clock + 1
    BY <1>1, <1>4
  <2> HIDE DEF q, c, tx, times, rto, t
  <2>6. /\ \A p \in DOMAIN t.tx : t.tx[p] \in 1 .. (s.clock + 1)
        /\ t.sendTimes = {<<t.tx[p], p>> : p \in DOMAIN t.tx}
        /\ t.sendTimes \in SUBSET (Nat \X Nat)
        /\ t.rto \in Nat /\ t.rto <= s.clock + 1
        /\ TimerRight(s) => TimerRight(t)
    BY <2>1, <2>3, <2>4, <2>5, NewRecord
  <2>7. QED
    BY <2>1, <2>3, <2>5, <2>6
<1>6. d \in Packet /\ d.seq = q
  BY <1>4 DEF Packet
<1> HIDE DEF d, c, tx, times, rto, t, q
<1>7. t \in Sender
  <2>1. o \in SUBSET Packet
    BY <1>1, <1>6, SenderFields
  <2>2. DOMAIN s.tx \cup {q} \in SUBSET Nat
    BY <1>4, <1>5
  <2>3. /\ tx \in UNION {[D -> Nat] : D \in SUBSET Nat}
        /\ times \in SUBSET (Nat \X Nat) /\ rto \in Nat
    BY <1>3, <1>5, <2>2
  <2> DEFINE h == q + 1
  <2>4. h \in Nat
    BY <1>4
  <2>5. t = [s EXCEPT !.clock = c, !.tx = tx, !.sendTimes = times, !.ctrl = ctrl,
                      !.highestSent = h, !.out = o, !.rto = rto]
    BY <1>2
  <2> HIDE DEF h, o, ctrl
  <2>6. QED
    BY <1>1, <1>4, <2>1, <2>3, <2>4, <2>5 DEF Sender
<1>8. Numbers(t) = Numbers(s) \cup {q}
  BY <1>1, <1>3, <1>4 DEF Numbers, q
<1>9. Shape(t)
  <2>1. /\ DOMAIN t.tx \subseteq Numbers(t) /\ t.rtxQueue \subseteq Numbers(t)
        /\ t.ctrl \subseteq Numbers(t) /\ DOMAIN t.tx \cap t.rtxQueue = {}
    BY <1>1, <1>3, <1>4, <1>5, <1>8 DEF Shape
  <2>2. \A m \in t.out : m.seq \in Numbers(t)
    BY <1>1, <1>3, <1>6, <1>8 DEF Shape
  <2>3. t.highestSent = NPkts - t.backlog + Cardinality(t.ctrl)
    <3>1. IsFiniteSet(s.ctrl) /\ Cardinality(s.ctrl) \in Nat /\ q \notin s.ctrl
      BY <1>1, <1>4, NumbersFinite DEF Shape
    <3>2. Cardinality(s.ctrl \cup {q}) = Cardinality(s.ctrl) + 1
      BY <3>1, FS_AddElement
    <3>3. q = NPkts - s.backlog + Cardinality(s.ctrl) /\ s.backlog \in Nat /\ NPkts \in Nat
      BY <1>1, SenderFields, TransportAssumption DEF Shape, q
    <3>4. QED
      BY <1>3, <3>1, <3>2, <3>3
  <2>4. Marked(t.out, t.ctrl)
    <3>1. \A m \in s.out : m.seq # q
      BY <1>1, <1>4 DEF Shape
    <3>2. Marked(s.out, ctrl)
      BY <1>1, <3>1 DEF Shape, Marked
    <3>3. Marked({d}, ctrl)
      BY DEF Marked, d
    <3>4. QED
      BY <1>3, <3>2, <3>3, MarkedUnion
  <2>5. QED
    BY <1>3, <1>5, <1>7, <2>1, <2>2, <2>3, <2>4 DEF Shape
<1>10. Exact(t)
  <2>1. /\ Numbers(t) \ (t.ctrl \cup t.rtxQueue) = Numbers(s) \ (s.ctrl \cup s.rtxQueue)
        /\ t.ctrl \cap t.rtxQueue = s.ctrl \cap s.rtxQueue
    BY <1>1, <1>3, <1>4, <1>8 DEF Shape
  <2>2. QED
    BY <1>1, <1>3, <2>1 DEF Exact
<1>11. Forgotten(t) \subseteq Forgotten(s)
  BY <1>3, <1>5, <1>8 DEF Forgotten
<1>12. Ready(s) => Ready(t) /\ Awake(t)
  BY <1>3, <1>5 DEF Ready, Awake, SameNic
<1>13. QED
  BY <1>1, <1>3, <1>4, <1>5, <1>9, <1>10, <1>11, <1>12 DEF Handles, Good, Finished, t, q

\* The timer fires only while something is outstanding; the oldest record is
\* queued for retransmission, and an RTS may take a further number.
Expires(s, t, gate) ==
    /\ Handles(s, t, {}, s.recvd) /\ ~s.done /\ ~t.done
    /\ \/ t.ctrl = s.ctrl
       \/ gate /\ \E q \in s.highestSent .. (t.highestSent - 1) : t.ctrl = s.ctrl \cup {q}
    /\ Ready(s) => Ready(t) /\ Awake(t)

LEMMA RtxTimerExpiredHandles ==
    ASSUME NEW s, Good(s), s.rto # 0, NEW gate \in BOOLEAN
    PROVE  Expires(s, RtxTimerExpired(s, gate), gate)
<1> DEFINE q == (CHOOSE p \in s.sendTimes : p[1] = Earliest(s.sendTimes))[2]
           z == Size(s, q)
           shrunk == s.cwnd - z
           r == CancelRTO(s)
           e == EraseRecords(r, {q})
           a == RecalculateRTO(e)
           k == IF shrunk > PktSize THEN shrunk ELSE PktSize
           b == [a EXCEPT !.inFlight = a.inFlight - z, !.cwnd = k]
           c == QueueForRtx(b, q)
           t == RtxTimerExpired(s, gate)
<1>1. s \in Sender /\ Shape(s) /\ TimerRight(s) /\ Finished(s) /\ Exact(s)
  BY DEF Good, Shape
<1>2. q \in DOMAIN s.tx /\ q \in Numbers(s) /\ q \notin s.rtxQueue /\ q \in Nat /\ ~s.done
  <2>1. DOMAIN s.tx \in SUBSET Nat /\ \A p \in DOMAIN s.tx : s.tx[p] \in Nat \ {0}
    BY <1>1, SenderFields DEF Shape
  <2>2. s.sendTimes \in SUBSET ((Nat \ {0}) \X Nat)
    BY <1>1, <2>1 DEF Shape
  <2>3. \E p \in s.sendTimes : p[1] = Earliest(s.sendTimes)
    BY <1>1, <2>2, EarliestIsLeast DEF TimerRight
  <2>4. (CHOOSE p \in s.sendTimes : p[1] = Earliest(s.sendTimes)) \in s.sendTimes
    BY <2>3
  <2>5. \A p \in s.sendTimes : p[2] \in DOMAIN s.tx
    BY <1>1 DEF Shape
  <2>6. q \in DOMAIN s.tx
    BY <2>4, <2>5
  <2> HIDE DEF q
  <2>7. QED
    BY <1>1, <2>1, <2>6 DEF Shape, Finished
<1> HIDE DEF q
<1>3. z \in Nat /\ k \in Nat /\ s.inFlight \in Int /\ s.recvd \in Int /\ s.highestSent \in Nat
  <2>1. z \in Nat /\ s.cwnd \in Nat /\ PktSize \in Nat
    BY <1>1, SenderFields, TransportAssumption DEF Size
  <2> HIDE DEF z
  <2>2. QED
    BY <1>1, <2>1, SenderFields
<1>4. Shape(r) /\ SameButRecords(s, r) /\ r.tx = s.tx
  <2>1. /\ r \in Sender /\ SameButRecords(s, r) /\ r.tx = s.tx /\ r.rto = 0
        /\ r.sendTimes = s.sendTimes
    BY <1>1 DEF CancelRTO, Sender, SameButRecords, SameNic
  <2> HIDE DEF r
  <2>2. Numbers(r) = Numbers(s) /\ r.clock \in Nat
    BY <2>1, SenderFields DEF Numbers, SameButRecords
  <2>3. QED
    BY <1>1, <2>1, <2>2 DEF Shape, SameButRecords
<1> HIDE DEF r
<1>5. Shape(e) /\ SameButRecords(r, e) /\ DOMAIN e.tx = DOMAIN s.tx \ {q}
  BY <1>4, EraseRecordsKeeps
<1> HIDE DEF e
<1>6. /\ Shape(a) /\ SameButRecords(s, a) /\ TimerRight(a)
      /\ DOMAIN a.tx = DOMAIN s.tx \ {q}
  <2>1. Shape(a) /\ SameButRecords(e, a) /\ TimerRight(a) /\ a.tx = e.tx
    BY <1>5, RecalculateRTOKeeps
  <2>2. QED
    BY <1>4, <1>5, <2>1 DEF SameButRecords, SameNic
<1> HIDE DEF a, k, z
<1>7. /\ b \in Sender /\ b.inFlight = s.inFlight - z /\ b.tx = a.tx
      /\ b.sendTimes = a.sendTimes /\ b.rtxQueue = s.rtxQueue /\ b.rto = a.rto
      /\ b.clock = a.clock /\ b.started = s.started /\ b.highestSent = s.highestSent
      /\ b.backlog = s.backlog /\ b.ctrl = s.ctrl /\ b.recvd = s.recvd
      /\ b.done = s.done /\ b.out = a.out /\ SameNic(s, b) /\ b.cwnd = k
  <2> DEFINE f == a.inFlight - z
  <2>1. f \in Int /\ f = s.inFlight - z /\ b = [a EXCEPT !.inFlight = f, !.cwnd = k]
    BY <1>3, <1>6 DEF SameButRecords
  <2> HIDE DEF b, f
  <2>2. a \in Sender
    BY <1>6 DEF Shape
  <2>3. b \in Sender
    BY <1>3, <2>1, <2>2 DEF Sender
  <2>4. QED
    BY <1>6, <2>1, <2>2, <2>3 DEF Sender, SameButRecords, SameNic
<1> HIDE DEF b
<1>8. Numbers(b) = Numbers(s) /\ Numbers(a) = Numbers(s)
  BY <1>6, <1>7 DEF Numbers, SameButRecords
<1>9. Shape(b) /\ TimerRight(b)
  <2>1. TimerRight(b)
    BY <1>6, <1>7 DEF TimerRight
  <2>2. Shape(b)
    BY <1>6, <1>7, <1>8 DEF Shape, SameButRecords
  <2>3. QED
    BY <2>1, <2>2
<1>10. Owed(b, q)
  <2>1. Size(b, q) = z
    BY <1>7 DEF Size, z
  <2>2. b.inFlight + Size(b, q) + b.recvd = s.inFlight + s.recvd
    BY <1>3, <1>7, <2>1
  <2>3. QED
    BY <1>1, <1>7, <1>8, <2>2 DEF Owed, Exact
<1>11. /\ Shape(c) /\ Exact(c) /\ TimerRight(c)
       /\ ~c.done /\ c.ctrl = s.ctrl /\ c.started = s.started /\ c.recvd = s.recvd
       /\ s.highestSent <= c.highestSent
       /\ Forgotten(c) \subseteq Forgotten(b) \ {q}
       /\ ~c.portBusy => c.rtxQueue # {}
       /\ Ready(b) => Ready(c) /\ Awake(c)
  BY <1>2, <1>6, <1>7, <1>8, <1>9, <1>10, QueueForRtxKeeps
<1> HIDE DEF c
<1>12. Forgotten(c) \subseteq Forgotten(s)
  BY <1>6, <1>7, <1>8, <1>11 DEF Forgotten
<1>13. Good(c) /\ Handles(s, c, {}, s.recvd)
  BY <1>1, <1>2, <1>11, <1>12 DEF Good, Handles, Finished
<1>14. k >= PktSize
  <2>1. s.cwnd \in Nat /\ PktSize \in Nat /\ z \in Nat
    BY <1>1, <1>3, SenderFields, TransportAssumption
  <2>2. QED
    BY <2>1 DEF k
<1>15. Ready(s) => Ready(c) /\ Awake(c)
  BY <1>7, <1>11, <1>14 DEF Ready, SameNic
<1>16. t = IF b.rtxQueue # {} THEN c
           ELSE IF c.cwnd < z + c.inFlight THEN IF gate THEN SendRTS(c) ELSE c
           ELSE IF c.portBusy THEN Register(c)
           ELSE StartSending(SendRtxPacket(c))
  BY DEF RtxTimerExpired, c, b, k, a, e, r, z, q
<1> HIDE DEF t
<1>17. ASSUME t = c
       PROVE  Expires(s, t, gate)
  BY <1>2, <1>11, <1>13, <1>17, <1>15 DEF Expires
<1>18. ASSUME gate /\ t = SendRTS(c)
       PROVE  Expires(s, t, gate)
  <2>1. /\ Handles(c, t, {}, s.recvd) /\ ~t.done /\ t.highestSent = c.highestSent + 1
        /\ t.ctrl = c.ctrl \cup {c.highestSent}
        /\ Ready(c) => Ready(t) /\ Awake(t)
    BY <1>11, <1>13, <1>18, SendRTSHandles
  <2>2. c.highestSent \in Nat
    BY <1>11, SenderFields DEF Shape
  <2>3. c.highestSent \in s.highestSent .. (t.highestSent - 1) /\ s.highestSent <= t.highestSent
    BY <1>3, <1>11, <2>1, <2>2
  <2>4. QED
    BY <1>2, <1>11, <1>13, <1>18, <1>15, <2>1, <2>3 DEF Handles, Expires
<1>19. ASSUME c.portBusy /\ t = Register(c)
       PROVE  Expires(s, t, gate)
  <2>1. Sends(c, t)
    BY <1>11, <1>19, NicSends
  <2>2. c \in Sender /\ c.registered \in Nat
    BY <1>11, SenderFields DEF Shape
  <2>3. t.registered = c.registered + 1 /\ t.portBusy = c.portBusy /\ t.cwnd = c.cwnd
    BY <1>19, <2>2 DEF Register, Sender
  <2>4. t.registered > 0
    BY <2>2, <2>3
  <2>5. Ready(s) => Ready(t) /\ Awake(t)
    BY <1>19, <1>15, <2>3, <2>4 DEF Ready, Awake
  <2>6. QED
    BY <1>2, <1>11, <1>13, <2>1, <2>5, HandlesThenSends DEF Sends, Expires
<1>20. ASSUME ~c.portBusy /\ t = StartSending(SendRtxPacket(c))
       PROVE  Expires(s, t, gate)
  <2>1. Sends(c, SendRtxPacket(c))
    BY <1>11, <1>20, SendRtxPacketSends
  <2>2. Sends(SendRtxPacket(c), t)
    BY <1>20, <2>1, NicSends DEF Sends
  <2>3. Sends(c, t)
    BY <1>11, <2>1, <2>2, SendsTransitive
  <2>4. Ready(s) => Ready(t) /\ Awake(t)
    <3> DEFINE v == SendRtxPacket(c)
    <3>1. SUFFICES ASSUME Ready(s) PROVE Ready(t) /\ Awake(t)
      OBVIOUS
    <3>2. c \in Sender /\ c.registered \in Nat /\ Ready(c)
      BY <1>11, <1>15, <3>1, SenderFields DEF Shape
    <3>3. c.registered = 0 /\ ~c.blocked
      BY <1>20, <3>2 DEF Ready
    <3>4. v \in Sender /\ SameNic(c, v) /\ v.cwnd = c.cwnd /\ DOMAIN v.tx # {}
      <4>1. c.rtxQueue # {}
        BY <1>11, <1>20
      <4>2. v = SendPacket(c)
        BY <4>1 DEF SendPacket
      <4> HIDE DEF v
      <4>3. QED
        BY <1>11, <4>1, <4>2, SendPacketNic DEF Shape
    <3> HIDE DEF v
    <3>5. t = StartSending(v)
      BY <1>20 DEF v
    <3>6. t.portBusy /\ t.blocked = v.blocked /\ t.cwnd = v.cwnd /\ t.tx = v.tx
      BY <3>4, <3>5 DEF StartSending, Sender
    <3>7. QED
      BY <3>2, <3>3, <3>4, <3>6 DEF Ready, Awake, SameNic
  <2>5. QED
    BY <1>2, <1>11, <1>13, <2>3, <2>4, HandlesThenSends DEF Sends, Expires
<1>21. QED
  BY <1>16, <1>17, <1>18, <1>19, <1>20 DEF t

-----------------------------------------------------------------------------
(* The system.  The inductive invariant adds to the sender's books (Good)  *)
(* what the receiver and the packets in the fabric say of them: an ack on  *)
(* its way never claims more than the receiver has, now or later.          *)

WireMessage ==
         [type : {"data"}, seq : Nat, size : {PktSize, HdrSize}, rtx : BOOLEAN, ar : BOOLEAN]
    \cup [type : {"trimmed", "rts", "nack"}, seq : Nat]
    \cup [type : {"ack"}, cum : Nat, recvd : Nat, sacks : SUBSET Nat]

Receiver ==
    [expected : Nat, ooo : SUBSET Nat, recvd : Nat, payload : Nat,
     accepted : Nat, ackRequest : BOOLEAN]

\* The receiver's books when h sequence numbers have been handed out.
SinkShape(k, h) ==
    /\ k \in Receiver
    /\ k.expected <= h
    /\ \A q \in k.ooo : k.expected < q /\ q < h

\* A packet in the fabric names numbers handed out, an ack only what k has.
Truthful(m, k, h) ==
    /\ m \in WireMessage
    /\ m.type # "ack" => m.seq < h
    /\ m.type = "ack" => m.cum <= k.expected /\ \A q \in m.sacks : Have(k, q)

Inv ==
    /\ Good(src) /\ src.out = {}
    /\ SinkShape(sink, src.highestSent)
    /\ \A m \in net : Truthful(m, sink, src.highestSent)
    /\ \A q \in Forgotten(src) : Have(sink, q)
    /\ Cardinality(src.ctrl) <= MaxRts
    /\ Marked(net, src.ctrl)

-----------------------------------------------------------------------------
(* The receiver's handlers.                                                *)

LEMMA SinkFields ==
    ASSUME NEW k, NEW h \in Nat, SinkShape(k, h)
    PROVE  /\ k.expected \in Nat /\ k.ooo \in SUBSET Nat /\ k.recvd \in Nat
           /\ k.payload \in Nat /\ k.accepted \in Nat /\ k.ackRequest \in BOOLEAN
           /\ IsFiniteSet(k.ooo) /\ Cardinality(k.ooo) \in Nat
<1>1. k \in Receiver /\ k.ooo \in SUBSET Nat
  BY DEF SinkShape, Receiver
<1>2. k.ooo \subseteq 0 .. (h - 1) /\ 0 \in Int /\ h - 1 \in Int
  BY <1>1 DEF SinkShape, Receiver
<1>3. IsFiniteSet(0 .. (h - 1))
  BY <1>2, FS_Interval
<1>4. IsFiniteSet(k.ooo) /\ Cardinality(k.ooo) \in Nat
  BY <1>2, <1>3, FS_Subset, FS_CardinalityType
<1>5. QED
  BY <1>1, <1>4 DEF Receiver

\* j is what recording q makes of k.
Records(k, j, q, h) ==
    /\ SinkShape(j, h)
    /\ \A p \in Nat : Have(j, p) <=> (Have(k, p) \/ p = q)
    /\ k.expected <= j.expected
    /\ j.recvd = k.recvd

LEMMA AcceptRecords ==
    ASSUME NEW h \in Nat, NEW k, SinkShape(k, h), NEW q \in Nat, q < h, ~Have(k, q)
    PROVE  Records(k, Accept(k, q), q, h)
<1> DEFINE C == Cardinality(k.ooo)
           S == {p \in (q + 1) .. (q + 1 + C) : p \notin k.ooo}
           e == Min(S)
           j == Accept(k, q)
<1>1. /\ k \in Receiver /\ k.expected \in Nat /\ k.ooo \in SUBSET Nat
      /\ IsFiniteSet(k.ooo) /\ C \in Nat
      /\ \A p \in k.ooo : k.expected < p /\ p < h
      /\ k.expected <= h
  BY SinkFields DEF SinkShape
<1>2. CASE q # k.expected
  <2>1. j = [k EXCEPT !.ooo = k.ooo \cup {q}]
    BY <1>2 DEF Accept
  <2> DEFINE O == k.ooo \cup {q}
  <2>2. O \in SUBSET Nat
    BY <1>1
  <2>3. j = [k EXCEPT !.ooo = O]
    BY <2>1
  <2> HIDE DEF O, j
  <2>4. j \in Receiver /\ j.ooo = O /\ j.expected = k.expected /\ j.recvd = k.recvd
    BY <1>1, <2>2, <2>3 DEF Receiver
  <2>5. k.expected < q
    BY <1>1, <1>2 DEF Have
  <2>6. SinkShape(j, h)
    BY <1>1, <2>4, <2>5 DEF SinkShape, O
  <2>7. \A p \in Nat : Have(j, p) <=> (Have(k, p) \/ p = q)
    BY <1>1, <2>4 DEF Have, O
  <2>8. QED
    BY <1>1, <2>4, <2>6, <2>7 DEF Records, j
<1>3. CASE q = k.expected
  <2>1. S # {}
    <3>1. SUFFICES ASSUME S = {} PROVE FALSE
      OBVIOUS
    <3> DEFINE a == q + 1
               b == q + 1 + C
    <3>2. a .. b \subseteq k.ooo
      BY <3>1
    <3>3. a \in Int /\ b \in Int /\ a <= b /\ b - a + 1 = C + 1
      BY <1>1
    <3> HIDE DEF a, b
    <3>4. Cardinality(a .. b) = C + 1
      BY <3>3, FS_Interval
    <3>5. Cardinality(a .. b) <= C
      BY <1>1, <3>2, FS_Subset
    <3>6. QED
      BY <1>1, <3>4, <3>5
  <2>2. S \in SUBSET Nat
    BY <1>1
  <2>3. e \in S /\ \A y \in S : e <= y
    BY <2>1, <2>2, MinNat
  <2>4. e \in Nat /\ q < e /\ e \notin k.ooo /\ e <= q + 1 + C
    BY <1>1, <2>3
  <2>5. \A p \in Nat : q < p /\ p < e => p \in k.ooo
    <3>1. SUFFICES ASSUME NEW p \in Nat, q < p, p < e, p \notin k.ooo PROVE FALSE
      OBVIOUS
    <3>2. p \in S
      BY <1>1, <2>4, <3>1
    <3>3. e <= p
      BY <2>3, <3>2
    <3>4. QED
      BY <2>4, <3>1, <3>3
  <2>6. e <= h
    <3>1. SUFFICES ASSUME h < e PROVE FALSE
      BY <2>4
    <3>2. h \in k.ooo
      BY <2>5, <3>1
    <3>3. QED
      BY <1>1, <3>2
  <2> DEFINE O == {p \in k.ooo : p > e}
  <2>7. O \in SUBSET Nat
    BY <1>1
  <2>8. j = [k EXCEPT !.expected = e, !.ooo = O]
    BY <1>3 DEF Accept
  <2> HIDE DEF e, O, j, S
  <2>9. j \in Receiver /\ j.ooo = O /\ j.expected = e /\ j.recvd = k.recvd
    BY <1>1, <2>4, <2>7, <2>8 DEF Receiver
  <2>10. SinkShape(j, h)
    BY <1>1, <2>4, <2>6, <2>9 DEF SinkShape, O
  <2>11. ASSUME NEW p \in Nat
         PROVE  Have(j, p) <=> (Have(k, p) \/ p = q)
    BY <1>1, <1>3, <2>4, <2>5, <2>9 DEF Have, O
  <2>12. QED
    BY <1>1, <1>3, <2>4, <2>9, <2>10, <2>11 DEF Records, j
<1>4. QED
  BY <1>2, <1>3

\* j has what k has and q besides, and counts z bytes for it.
SameHeld(k, j) == (\A p \in Nat : Have(j, p) <=> Have(k, p)) /\ j.recvd = k.recvd

Obtains(k, j, q, z) ==
    /\ ~Have(k, q)
    /\ \A p \in Nat : Have(j, p) <=> (Have(k, p) \/ p = q)
    /\ j.recvd = k.recvd + z

\* An ack made in state k of the receiver.
Fresh(x, k) == x.cum = k.expected /\ x.recvd = k.recvd /\ x.sacks \subseteq k.ooo

Reply(x, k, h) ==
    /\ Truthful(x, k, h)
    /\ x.type \in {"ack", "nack"}
    /\ x.type = "ack" => Fresh(x, k)

\* What a handler of the receiver makes of k: it gains number q and z bytes, or
\* nothing, and replies with nothing it does not have.
Answers(k, r, h, q, z) ==
    /\ SinkShape(r.sink, h)
    /\ k.expected <= r.sink.expected
    /\ SameHeld(k, r.sink) \/ Obtains(k, r.sink, q, z)
    /\ \A x \in r.reply : Reply(x, r.sink, h)

\* Counting does not change what the receiver has.
LEMMA Counting ==
    ASSUME NEW h \in Nat, NEW k, SinkShape(k, h), NEW j \in Receiver,
           j.expected = k.expected, j.ooo = k.ooo
    PROVE  SinkShape(j, h) /\ \A p : Have(j, p) <=> Have(k, p)
BY DEF SinkShape, Have

\* Only what the receiver expects, holds and has counted matters for a reply.
LEMMA ReplyLater ==
    ASSUME NEW h \in Nat, NEW k, SinkShape(k, h), NEW j \in Receiver,
           j.expected = k.expected, j.ooo = k.ooo, j.recvd = k.recvd,
           NEW x, Reply(x, k, h)
    PROVE  Reply(x, j, h)
<1>1. \A p : Have(j, p) <=> Have(k, p)
  BY Counting
<1>2. Truthful(x, j, h)
  BY <1>1 DEF Reply, Truthful
<1>3. x.type = "ack" => Fresh(x, j)
  BY DEF Reply, Fresh
<1>4. QED
  BY <1>2, <1>3 DEF Reply

LEMMA SackReplies ==
    ASSUME NEW h \in Nat, NEW k, SinkShape(k, h), NEW ref
    PROVE  Reply(Sack(k, ref), k, h)
<1> DEFINE S == {q \in k.ooo : q >= ref /\ q < ref + SackWidth}
           m == Sack(k, ref)
<1>1. k.expected \in Nat /\ k.recvd \in Nat /\ k.ooo \in SUBSET Nat
  BY SinkFields
<1>2. S \in SUBSET Nat /\ S \subseteq k.ooo
  BY <1>1
<1>3. m = [type |-> "ack", cum |-> k.expected, recvd |-> k.recvd, sacks |-> S]
  BY DEF Sack
<1> HIDE DEF S, m
<1>4. m \in [type : {"ack"}, cum : Nat, recvd : Nat, sacks : SUBSET Nat]
  BY <1>1, <1>2, <1>3
<1>5. m.type = "ack" /\ m.cum = k.expected /\ m.sacks = S
  BY <1>3
<1>6. Truthful(m, k, h)
  BY <1>1, <1>2, <1>4, <1>5 DEF Truthful, WireMessage, Have
<1>7. Fresh(m, k)
  BY <1>2, <1>3 DEF Fresh
<1>8. QED
  BY <1>5, <1>6, <1>7 DEF Reply, m

LEMMA ProcessTrimmedAnswers ==
    ASSUME NEW h \in Nat, NEW k, SinkShape(k, h), NEW q \in Nat, q < h
    PROVE  Answers(k, ProcessTrimmed(k, q), h, q, 0)
<1> DEFINE r == ProcessTrimmed(k, q)
           a == Sack(k, SackBitmapBase(k, q))
<1>1. r.sink = k /\ r.reply = {IF Have(k, q) THEN a ELSE Nack(q)}
  BY DEF ProcessTrimmed
<1>2. Reply(a, k, h)
  BY SackReplies
<1>3. Reply(Nack(q), k, h)
  BY DEF Nack, Reply, Truthful, WireMessage
<1>4. k.expected \in Nat
  BY SinkFields
<1> HIDE DEF r, a
<1>5. QED
  BY <1>1, <1>2, <1>3, <1>4 DEF Answers, SameHeld, r

\* A packet the receiver has: it answers, and only the ack threshold restarts.
LEMMA RepeatAnswers ==
    ASSUME NEW h \in Nat, NEW k, SinkShape(k, h), NEW ref, NEW r, NEW q, NEW z,
           r.sink = [k EXCEPT !.accepted = 0], r.reply = {Sack(k, ref)}
    PROVE  Answers(k, r, h, q, z)
<1> DEFINE j == [k EXCEPT !.accepted = 0]
<1>1. k \in Receiver /\ k.expected \in Nat
  BY SinkFields DEF SinkShape
<1>2. /\ j \in Receiver /\ j.expected = k.expected /\ j.ooo = k.ooo
      /\ j.recvd = k.recvd
  BY <1>1 DEF Receiver
<1>3. r.sink = j
  OBVIOUS
<1> HIDE DEF j
<1>4. SinkShape(j, h) /\ \A p : Have(j, p) <=> Have(k, p)
  BY <1>2, Counting
<1>5. Reply(Sack(k, ref), k, h)
  BY SackReplies
<1>6. Reply(Sack(k, ref), j, h)
  BY <1>2, <1>5, ReplyLater
<1>7. QED
  BY <1>1, <1>2, <1>3, <1>4, <1>6 DEF Answers, SameHeld

LEMMA ProcessRtsAnswers ==
    ASSUME NEW h \in Nat, NEW k, SinkShape(k, h), NEW q \in Nat, q < h
    PROVE  Answers(k, ProcessRts(k, q), h, q, 0)
<1> DEFINE r == ProcessRts(k, q)
           j == Accept(k, q)
           b == [j EXCEPT !.ackRequest = j.ackRequest /\ ~(q = k.expected /\ j.ooo = {})]
           z == [k EXCEPT !.accepted = 0]
<1>1. CASE Have(k, q)
  <2>1. r.sink = z /\ r.reply = {Sack(k, SackBitmapBase(k, q))}
    BY <1>1 DEF ProcessRts
  <2> HIDE DEF r
  <2>2. QED
    BY <2>1, RepeatAnswers DEF r
<1>2. CASE ~Have(k, q)
  <2>1. r.sink = b /\ r.reply = {Sack(b, q)}
    BY <1>2 DEF ProcessRts
  <2>2. Records(k, j, q, h)
    BY <1>2, AcceptRecords
  <2> HIDE DEF r, j
  <2>3. j \in Receiver
    BY <2>2 DEF Records, SinkShape
  <2>4. b \in Receiver /\ b.expected = j.expected /\ b.ooo = j.ooo /\ b.recvd = j.recvd
    BY <2>3 DEF Receiver
  <2> HIDE DEF b
  <2>5. SinkShape(b, h) /\ \A p : Have(b, p) <=> Have(j, p)
    BY <2>2, <2>4, Counting DEF Records
  <2>6. Reply(Sack(b, q), b, h)
    BY <2>5, SackReplies
  <2>7. k.recvd \in Nat
    BY SinkFields
  <2>8. Obtains(k, b, q, 0)
    BY <1>2, <2>2, <2>4, <2>5, <2>7 DEF Records, Obtains
  <2>9. QED
    BY <2>1, <2>2, <2>4, <2>5, <2>6, <2>8 DEF Answers, Records, r
<1>3. QED
  BY <1>1, <1>2

LEMMA ProcessDataAnswers ==
    ASSUME NEW h \in Nat, NEW k, SinkShape(k, h), NEW ecn \in BOOLEAN,
           NEW m, m.type = "data", Truthful(m, k, h)
    PROVE  Answers(k, ProcessData(k, m, ecn), h, m.seq, m.size)
<1> DEFINE r == ProcessData(k, m, ecn)
           q == m.seq
           f == [k EXCEPT !.accepted = k.accepted + m.size, !.recvd = k.recvd + m.size,
                          !.payload = k.payload + m.size - HdrSize,
                          !.ackRequest = k.ackRequest \/ m.ar]
           j == Accept(f, q)
           drained == q = k.expected /\ j.ooo = {} /\ j.ackRequest
           b == [j EXCEPT !.ackRequest = j.ackRequest /\ ~drained]
           z == [k EXCEPT !.accepted = 0]
           y == [b EXCEPT !.accepted = 0]
<1>1. q \in Nat /\ m.size \in {PktSize, HdrSize} /\ m.ar \in BOOLEAN /\ q < h
  BY DEF Truthful, WireMessage
<1>2. k \in Receiver /\ k.expected \in Nat
  BY SinkFields DEF SinkShape
<1>3. /\ f \in Receiver /\ f.expected = k.expected /\ f.ooo = k.ooo
      /\ f.recvd = k.recvd + m.size
  <2> DEFINE n1 == k.accepted + m.size
             n2 == k.recvd + m.size
             n3 == k.payload + m.size - HdrSize
             n4 == k.ackRequest \/ m.ar
  <2>1. k.accepted \in Nat /\ k.recvd \in Nat /\ k.payload \in Nat
    BY SinkFields
  <2>2. m.size \in Nat /\ m.size - HdrSize \in Nat
    BY <1>1, TransportAssumption
  <2>3. n1 \in Nat /\ n2 \in Nat /\ n3 \in Nat /\ n4 \in BOOLEAN
    <3>1. n3 = k.payload + (m.size - HdrSize)
      BY <2>1, <2>2, TransportAssumption
    <3>2. QED
      BY <2>1, <2>2, <3>1
  <2>4. f = [k EXCEPT !.accepted = n1, !.recvd = n2, !.payload = n3, !.ackRequest = n4]
    OBVIOUS
  <2>5. n2 = k.recvd + m.size
    OBVIOUS
  <2> HIDE DEF n1, n2, n3, n4, f
  <2>6. QED
    BY <1>2, <2>3, <2>4, <2>5 DEF Receiver
<1>4. r = IF Have(k, q)
          THEN [sink |-> z, reply |-> {Sack(k, IF ecn THEN q ELSE SackBitmapBase(k, q))}]
          ELSE IF ecn \/ b.accepted >= SackThreshold \/ k.payload = 0 \/ m.ar \/ drained
          THEN [sink |-> y,
                reply |-> {Sack(b, IF ecn \/ m.ar THEN q ELSE SackBitmapBase(b, q))}]
          ELSE [sink |-> b, reply |-> {}]
  BY DEF ProcessData
<1> HIDE DEF r, f
<1>5. SinkShape(f, h) /\ \A p : Have(f, p) <=> Have(k, p)
  BY <1>3, Counting
<1>6. CASE Have(k, q)
  <2>1. PICK ref : r.sink = z /\ r.reply = {Sack(k, ref)}
    BY <1>4, <1>6
  <2>2. QED
    BY <2>1, RepeatAnswers DEF r
<1>7. CASE ~Have(k, q)
  <2>1. Records(f, j, q, h)
    BY <1>1, <1>5, <1>7, AcceptRecords
  <2> HIDE DEF j
  <2>2. j \in Receiver /\ SinkShape(j, h) /\ drained \in BOOLEAN
    BY <2>1 DEF Records, SinkShape
  <2> HIDE DEF drained
  <2>3. b \in Receiver /\ b.expected = j.expected /\ b.ooo = j.ooo /\ b.recvd = j.recvd
    BY <2>2 DEF Receiver
  <2> HIDE DEF b
  <2>4. SinkShape(b, h) /\ \A p : Have(b, p) <=> Have(j, p)
    BY <2>2, <2>3, Counting
  <2>5. y \in Receiver /\ y.expected = b.expected /\ y.ooo = b.ooo /\ y.recvd = b.recvd
    BY <2>3 DEF Receiver
  <2> HIDE DEF y
  <2>6. SinkShape(y, h) /\ \A p : Have(y, p) <=> Have(b, p)
    BY <2>4, <2>5, Counting
  <2>7. /\ ~Have(k, q) /\ \A p \in Nat : Have(j, p) <=> (Have(k, p) \/ p = q)
        /\ j.recvd = k.recvd + m.size
    BY <1>3, <1>5, <1>7, <2>1 DEF Records
  <2>8. Obtains(k, b, q, m.size) /\ Obtains(k, y, q, m.size)
    BY <2>3, <2>4, <2>5, <2>6, <2>7 DEF Obtains
  <2>9. k.expected <= j.expected
    BY <1>3, <2>1 DEF Records
  <2>10. CASE r.sink = b /\ r.reply = {}
    BY <2>3, <2>4, <2>8, <2>9, <2>10 DEF Answers, r
  <2>11. ASSUME NEW ref, r.sink = y, r.reply = {Sack(b, ref)}
         PROVE  Answers(k, r, h, q, m.size)
    <3>1. Reply(Sack(b, ref), b, h)
      BY <2>4, SackReplies
    <3>2. Reply(Sack(b, ref), y, h)
      BY <2>4, <2>5, <3>1, ReplyLater
    <3>3. QED
      BY <2>3, <2>5, <2>6, <2>8, <2>9, <2>11, <3>2 DEF Answers
  <2>12. QED
    BY <1>4, <1>7, <2>10, <2>11 DEF r
<1>8. QED
  BY <1>6, <1>7

-----------------------------------------------------------------------------
(* Steps of the receiver and of the sender.                                *)

\* A truthful packet stays truthful as the receiver and the sender go on.
LEMMA TruthfulLater ==
    ASSUME NEW h \in Nat, NEW g \in Nat, h <= g, NEW k, NEW j,
           SinkShape(k, h), j.expected \in Nat, k.expected <= j.expected,
           \A p \in Nat : Have(k, p) => Have(j, p),
           NEW m, Truthful(m, k, h)
    PROVE  Truthful(m, j, g)
<1>1. m \in WireMessage /\ k.expected \in Nat
  BY SinkFields DEF Truthful
<1>2. m.type # "ack" => m.seq \in Nat /\ m.seq < g
  BY <1>1 DEF WireMessage, Truthful
<1>3. m.type = "ack" => m.cum \in Nat /\ m.sacks \in SUBSET Nat
  BY <1>1 DEF WireMessage
<1>4. QED
  BY <1>1, <1>2, <1>3 DEF Truthful

\* The bytes a packet with number q counts for: none for an RTS.
Worth(q, z) ==
    IF q \in src.ctrl THEN z \in 0 .. HdrSize ELSE z = PktSize

\* What the rest of the system sees of a step of the receiver.
Gains ==
    /\ UNCHANGED src
    /\ \/ SameHeld(sink, sink')
       \/ \E q \in 0 .. (src.highestSent - 1), z \in Nat :
              Worth(q, z) /\ Obtains(sink, sink', q, z)
    /\ \A m \in net' : m.type = "ack" => m \in net \/ Fresh(m, sink')

LEMMA SinkStep ==
    ASSUME Inv, NEW m, NEW r, NEW q \in 0 .. (src.highestSent - 1), NEW z \in Nat,
           SameHeld(sink, r.sink) \/ Worth(q, z),
           Answers(sink, r, src.highestSent, q, z), SinkDone(r, m)
    PROVE  Inv' /\ Gains
<1> DEFINE h == src.highestSent
           k == r.sink
<1>1. src' = src /\ sink' = k /\ net' = (net \ {m}) \cup r.reply /\ h \in Nat
  BY SenderFields DEF SinkDone, Inv, Good, Shape
<1>2. SinkShape(sink, h) /\ SinkShape(k, h) /\ sink.expected <= k.expected
  BY DEF Inv, Answers
<1>3. \A p \in Nat : Have(sink, p) => Have(k, p)
  BY DEF Answers, SameHeld, Obtains
<1>4. \A x \in net : Truthful(x, sink, h)
  BY DEF Inv
<1>5. k.expected \in Nat /\ h <= h
  BY <1>1, <1>2, SinkFields
<1>6. \A x \in r.reply : Reply(x, k, h)
  BY DEF Answers
<1> HIDE DEF k
<1>7. \A x \in net : Truthful(x, k, h)
  BY <1>1, <1>2, <1>3, <1>4, <1>5, TruthfulLater
<1>8. \A x \in net' : Truthful(x, k, h)
  BY <1>1, <1>6, <1>7 DEF Reply
<1>9. \A p \in Forgotten(src) : Have(k, p)
  <2>1. Forgotten(src) \in SUBSET Nat
    BY <1>1 DEF Forgotten, Numbers
  <2>2. QED
    BY <1>3, <2>1 DEF Inv
<1>10. Marked(net', src.ctrl)
  BY <1>1, <1>6 DEF Inv, Marked, Reply
<1>11. Inv'
  BY <1>1, <1>2, <1>8, <1>9, <1>10 DEF Inv
<1>12. Gains
  <2>1. SameHeld(sink, k) \/ (Worth(q, z) /\ Obtains(sink, k, q, z))
    BY DEF Answers, k
  <2>2. \A x \in net' : x.type = "ack" => x \in net \/ Fresh(x, k)
    BY <1>1, <1>6 DEF Reply
  <2>3. QED
    BY <1>1, <2>1, <2>2 DEF Gains
<1>13. QED
  BY <1>11, <1>12

\* What the rest of the system sees of a step of the sender.
Progress ==
    /\ UNCHANGED sink
    /\ src.highestSent <= src'.highestSent
    /\ src.ctrl \subseteq src'.ctrl
    /\ src'.ctrl \ src.ctrl \subseteq src.highestSent .. (src'.highestSent - 1)
    /\ src.done => src'.done /\ src'.ctrl = src.ctrl
    /\ ~src.done /\ src'.done => src'.highestSent = src.highestSent /\ src'.ctrl = src.ctrl

\* What the sender learns in a step: F is what the receiver has, r how many
\* bytes; and it sends no acks.
Hears(F, r) ==
    /\ Forgotten(src') \subseteq Forgotten(src) \cup F
    /\ src'.recvd = r
    /\ \A m \in net' : m.type = "ack" => m \in net

\* A step of the sender that learns nothing, and one that processes an ack.
Quiet == Progress /\ Hears({}, src.recvd)

Acknowledges(m) ==
    /\ Progress /\ Hears(Covered(m), Highest(src, m))
    /\ m \in net /\ m.type = "ack"
    /\ m.cum - Cardinality(src.ctrl) >= NPkts => src'.done

Observed == Quiet \/ (\E m \in net : Acknowledges(m)) \/ Gains

LEMMA OutCleared ==
    ASSUME NEW s, Good(s)
    PROVE  /\ Good([s EXCEPT !.out = {}])
           /\ Forgotten([s EXCEPT !.out = {}]) = Forgotten(s)
<1> DEFINE t == [s EXCEPT !.out = {}]
<1>1. s \in Sender
  BY DEF Good, Shape
<1>2. t \in Sender
  BY <1>1 DEF Sender
<1>3. /\ t.started = s.started /\ t.highestSent = s.highestSent
      /\ t.backlog = s.backlog /\ t.tx = s.tx /\ t.sendTimes = s.sendTimes
      /\ t.rtxQueue = s.rtxQueue /\ t.ctrl = s.ctrl
      /\ t.inFlight = s.inFlight /\ t.recvd = s.recvd
      /\ t.rto = s.rto /\ t.clock = s.clock /\ t.done = s.done /\ t.out = {}
  BY <1>1 DEF Sender
<1> HIDE DEF t
<1>4. Numbers(t) = Numbers(s) /\ Forgotten(t) = Forgotten(s)
  BY <1>3 DEF Numbers, Forgotten
<1>5. Shape(t)
  BY <1>2, <1>3, <1>4 DEF Good, Shape, Marked
<1>6. TimerRight(t) /\ Finished(t)
  BY <1>3 DEF Good, TimerRight, Finished
<1>7. Exact(t)
  BY <1>3, <1>4 DEF Good, Exact
<1>8. QED
  BY <1>4, <1>5, <1>6, <1>7 DEF Good, t

LEMMA SourceStep ==
    ASSUME Inv, NEW s, NEW F, NEW r, NEW C, Handles(src, s, F, r), \A q \in F : Have(sink, q),
           SrcDone(s, C), sink' = sink, Cardinality(s.ctrl) <= MaxRts,
           src.ctrl \subseteq s.ctrl,
           s.ctrl \ src.ctrl \subseteq src.highestSent .. (s.highestSent - 1),
           s.ctrl # src.ctrl => ~src.done /\ ~s.done
    PROVE  Inv' /\ Progress /\ Hears(F, r)
<1> DEFINE h == src.highestSent
           g == s.highestSent
<1>1. Good(src) /\ src \in Sender /\ Good(s) /\ s \in Sender
  BY DEF Inv, Handles, Good, Shape
<1>2. h \in Nat /\ g \in Nat /\ h <= g
  BY <1>1, SenderFields DEF Handles
<1>3. src' = [s EXCEPT !.out = {}] /\ net' = (net \ C) \cup s.out
  BY DEF SrcDone
<1>4. /\ src'.highestSent = g /\ src'.ctrl = s.ctrl /\ src'.done = s.done
      /\ src'.out = {}
  BY <1>1, <1>3 DEF Sender
<1>5. Good(src') /\ Forgotten(src') = Forgotten(s)
  BY <1>1, <1>3, OutCleared
<1>6. SinkShape(sink, h)
  BY DEF Inv
<1>7. SinkShape(sink, g) /\ sink.expected \in Nat
  <2>1. sink.expected \in Nat /\ sink.ooo \in SUBSET Nat
    BY <1>2, <1>6, SinkFields
  <2>2. QED
    BY <1>2, <1>6, <2>1 DEF SinkShape
<1>8. \A x \in net : Truthful(x, sink, g)
  BY <1>2, <1>6, <1>7, TruthfulLater DEF Inv
<1>9. \A x \in s.out : Truthful(x, sink, g)
  <2>1. SUFFICES ASSUME NEW x \in s.out PROVE Truthful(x, sink, g)
    OBVIOUS
  <2>2. x \in Packet
    BY <1>1, SenderFields
  <2>3. x.seq \in 0 .. (g - 1)
    BY <1>1 DEF Good, Shape, Numbers
  <2>4. x \in WireMessage /\ x.type # "ack"
    BY <2>2 DEF Packet, WireMessage
  <2>5. QED
    BY <1>2, <2>3, <2>4 DEF Truthful
<1>10. \A x \in net' : Truthful(x, sink', g)
  BY <1>3, <1>8, <1>9
<1>11. \A q \in Forgotten(src') : Have(sink', q)
  BY <1>5 DEF Inv, Handles
<1>12. Marked(net', src'.ctrl)
  <2>1. \A x \in net : x.type # "ack" => x.seq \in Nat /\ x.seq < h
    BY DEF Inv, Truthful, WireMessage
  <2>2. \A x \in net : x.type # "ack" => (x.seq \in s.ctrl <=> x.seq \in src.ctrl)
    BY <1>2, <2>1
  <2>3. Marked(net, s.ctrl)
    BY <2>2 DEF Inv, Marked
  <2>4. Marked(s.out, s.ctrl)
    BY <1>1 DEF Good, Shape
  <2>5. QED
    BY <1>3, <1>4, <2>3, <2>4 DEF Marked
<1>13. Inv'
  BY <1>4, <1>5, <1>7, <1>10, <1>11, <1>12 DEF Inv
<1>14. Progress
  BY <1>2, <1>4 DEF Progress, Handles
<1>15. Hears(F, r)
  <2>1. src'.recvd = r
    BY <1>1, <1>3 DEF Handles, Sender
  <2>2. \A x \in s.out : x.type # "ack"
    BY <1>1, SenderFields DEF Packet
  <2>3. \A x \in net' : x.type = "ack" => x \in net
    BY <1>3, <2>2
  <2>4. QED
    BY <1>5, <2>1, <2>3 DEF Hears, Handles
<1>16. QED
  BY <1>13, <1>14, <1>15

LEMMA InitInv == Init => Inv
<1> SUFFICES ASSUME Init PROVE Inv
  OBVIOUS
<1>1. PICK w \in CwndValues : src = SrcInit(w)
  BY DEF Init
<1>2. /\ src.started = FALSE /\ src.highestSent = 0 /\ src.backlog = NPkts
      /\ src.tx = <<>> /\ src.sendTimes = {} /\ src.rtxQueue = {} /\ src.ctrl = {}
      /\ src.inFlight = 0 /\ src.recvd = 0 /\ src.rto = 0 /\ src.clock = 0
      /\ src.done = FALSE /\ src.out = {}
  BY <1>1 DEF SrcInit
<1>3. DOMAIN src.tx = {}
  BY <1>2
<1>4. src \in Sender
  <2>1. <<>> \in [{} -> Nat]
    OBVIOUS
  <2>2. <<>> \in UNION {[D -> Nat] : D \in SUBSET Nat}
    BY <2>1
  <2>3. NPkts \in Nat /\ w \in Nat
    BY TransportAssumption
  <2>4. QED
    BY <1>1, <2>2, <2>3, SMTT(20) DEF SrcInit, Sender
<1>5. Numbers(src) = {} /\ Cardinality({}) = 0
  BY <1>2, FS_EmptySet DEF Numbers
<1>6. Shape(src)
  BY <1>2, <1>3, <1>4, <1>5, TransportAssumption DEF Shape, Marked
<1>7. TimerRight(src) /\ Finished(src)
  BY <1>2 DEF TimerRight, Earliest, Finished
<1>8. Exact(src)
  <2>1. Numbers(src) \ (src.ctrl \cup src.rtxQueue) = {} /\ src.ctrl \cap src.rtxQueue = {}
    BY <1>2, <1>5
  <2>2. QED
    BY <1>2, <1>5, <2>1, TransportAssumption DEF Exact
<1>9. SinkShape(sink, src.highestSent)
  BY <1>2 DEF Init, SinkShape, Receiver
<1>10. net = {} /\ Forgotten(src) = {}
  BY <1>5 DEF Init, Forgotten
<1>11. QED
  BY <1>2, <1>5, <1>6, <1>7, <1>8, <1>9, <1>10, TransportAssumption DEF Inv, Good, Marked

\* A handler that spends no sequence number on an RTS.
LEMMA HandlerStep ==
    ASSUME Inv, NEW s, NEW F, NEW r, NEW C, Handles(src, s, F, r), \A q \in F : Have(sink, q),
           SrcDone(s, C), sink' = sink, s.ctrl = src.ctrl
    PROVE  Inv' /\ Progress /\ Hears(F, r)
<1>1. Cardinality(s.ctrl) <= MaxRts
  BY DEF Inv
<1>2. src.ctrl \subseteq s.ctrl /\ s.ctrl \ src.ctrl = {}
  OBVIOUS
<1>3. s.ctrl \ src.ctrl \subseteq src.highestSent .. (s.highestSent - 1)
  BY <1>2
<1>4. QED
  BY <1>1, <1>2, <1>3, SourceStep

LEMMA SendStep ==
    ASSUME Inv, NEW s, NEW t, NEW C, s \in Sender, SameBooks(src, s) \/ Sends(src, s),
           Sends(s, t), SrcDone(t, C), sink' = sink
    PROVE  Inv' /\ Quiet
<1>1. Good(src) /\ Shape(src)
  BY DEF Inv, Good
<1>2. Sends(src, s)
  BY <1>1, SameBooksSends
<1>3. Sends(src, t)
  BY <1>1, <1>2, SendsTransitive
<1>4. Handles(src, t, {}, src.recvd) /\ t.ctrl = src.ctrl
  BY <1>1, <1>3, SendsHandles
<1>5. QED
  BY <1>4, HandlerStep DEF Quiet

LEMMA StartStep == Inv /\ StartConnection => Inv' /\ Quiet
<1> SUFFICES ASSUME Inv, StartConnection PROVE Inv' /\ Quiet
  OBVIOUS
<1> DEFINE s == [src EXCEPT !.started = TRUE]
           t == SendIfPermitted(s)
<1>1. Good(src) /\ src \in Sender /\ Shape(src)
  BY DEF Inv, Good, Shape
<1>2. s \in Sender
  BY <1>1 DEF Sender
<1>3. /\ s.highestSent = src.highestSent /\ s.backlog = src.backlog
      /\ s.tx = src.tx /\ s.sendTimes = src.sendTimes /\ s.rtxQueue = src.rtxQueue
      /\ s.ctrl = src.ctrl /\ s.inFlight = src.inFlight /\ s.recvd = src.recvd
      /\ s.rto = src.rto /\ s.clock = src.clock /\ s.done = src.done /\ s.out = src.out
      /\ s.cwnd = src.cwnd
  BY <1>1 DEF Sender
<1>4. SrcDone(t, {}) /\ sink' = sink
  BY DEF StartConnection
<1> HIDE DEF s
<1>5. Numbers(s) = Numbers(src) /\ Forgotten(s) = Forgotten(src)
  BY <1>3 DEF Numbers, Forgotten
<1>6. Shape(s)
  BY <1>1, <1>2, <1>3, <1>5 DEF Shape
<1>7. TimerRight(s) /\ Finished(s) /\ Exact(s)
  BY <1>1, <1>3, <1>5 DEF Good, TimerRight, Finished, Exact
<1>8. Sends(s, t)
  BY <1>6, SendIfPermittedSends
<1> HIDE DEF t
<1>9. Handles(src, t, {}, src.recvd) /\ t.ctrl = src.ctrl
  BY <1>3, <1>5, <1>6, <1>7, <1>8 DEF Sends, Good, Handles
<1>10. QED
  BY <1>4, <1>9, HandlerStep DEF Quiet

LEMMA PortStep == Inv /\ PortFree => Inv' /\ Quiet
<1> SUFFICES ASSUME Inv, PortFree PROVE Inv' /\ Quiet
  OBVIOUS
<1> DEFINE s == [src EXCEPT !.portBusy = FALSE]
           t == IF s.registered > 0 THEN TimeToSend(s) ELSE s
<1>1. Good(src) /\ Shape(src) /\ src \in Sender
  BY DEF Inv, Good, Shape
<1>2. s \in Sender /\ SameBooks(src, s)
  BY <1>1 DEF Sender, SameBooks
<1>3. SrcDone(t, {}) /\ sink' = sink
  BY DEF PortFree
<1> HIDE DEF s
<1>4. Shape(s)
  BY <1>1, <1>2, SameBooksSends DEF Sends
<1>5. Sends(s, t)
  BY <1>4, TimeToSendSends, SendsReflexive
<1> HIDE DEF t
<1>6. QED
  BY <1>2, <1>3, <1>5, SendStep

LEMMA OtherStep == Inv /\ OtherTraffic => Inv' /\ Quiet
<1> SUFFICES ASSUME Inv, OtherTraffic PROVE Inv' /\ Quiet
  OBVIOUS
<1> DEFINE s == [src EXCEPT !.portBusy = TRUE]
<1>1. Good(src) /\ Shape(src) /\ src \in Sender /\ src.out = {}
  BY DEF Inv, Good, Shape
<1>2. s \in Sender /\ SameBooks(src, s) /\ s.out = {}
  BY <1>1 DEF Sender, SameBooks
<1>3. src' = s /\ sink' = sink /\ net' = net
  BY DEF OtherTraffic
<1> HIDE DEF s
<1>4. Sends(src, s)
  BY <1>1, <1>2, SameBooksSends
<1>5. Sends(s, s) /\ s = [s EXCEPT !.out = {}]
  BY <1>2, <1>4, SendsReflexive DEF Sends, Sender
<1>6. SrcDone(s, {})
  BY <1>2, <1>3, <1>5 DEF SrcDone
<1>7. QED
  BY <1>2, <1>3, <1>5, <1>6, SendStep

LEMMA AckStep ==
    ASSUME Inv, NEW m \in net, NEW w \in CwndValues, ReceiveAck(m, w)
    PROVE  Inv' /\ Acknowledges(m)
<1> DEFINE t == ProcessAck(src, m, w)
           F == Covered(m)
<1>1. Good(src) /\ Truthful(m, sink, src.highestSent) /\ m.type = "ack"
  BY DEF Inv, ReceiveAck
<1>2. m.cum \in Nat /\ m.recvd \in Nat /\ m.sacks \in SUBSET Nat
  BY <1>1 DEF Truthful, WireMessage
<1>3. src.highestSent \in Nat /\ sink.expected \in Nat /\ sink.expected <= src.highestSent
  BY SenderFields, SinkFields DEF Inv, Good, Shape, SinkShape
<1>4. m.cum <= src.highestSent
  BY <1>1, <1>2, <1>3 DEF Truthful
<1>5. w \in Nat
  BY TransportAssumption
<1>6. /\ Handles(src, t, F, Highest(src, m)) /\ t.ctrl = src.ctrl
      /\ m.cum - Cardinality(src.ctrl) >= NPkts => t.done
  BY <1>1, <1>2, <1>4, <1>5, ProcessAckHandles
<1>7. \A q \in F : Have(sink, q)
  BY <1>1, <1>2, <1>3 DEF Truthful, Have, Covered
<1>8. SrcDone(t, {m}) /\ sink' = sink
  BY DEF ReceiveAck
<1> HIDE DEF t, F
<1>9. Inv' /\ Progress /\ Hears(F, Highest(src, m))
  BY <1>6, <1>7, <1>8, HandlerStep
<1>10. t \in Sender
  BY <1>6 DEF Handles, Good, Shape
<1>11. src'.done = t.done
  BY <1>8, <1>10 DEF SrcDone, Sender
<1>12. QED
  BY <1>1, <1>6, <1>9, <1>11 DEF Acknowledges, F

LEMMA NackStep ==
    ASSUME Inv, NEW m \in net, NEW w \in CwndValues, ReceiveNack(m, w)
    PROVE  Inv' /\ Quiet
<1>1. Good(src) /\ w \in Nat
  BY TransportAssumption DEF Inv
<1>2. /\ Handles(src, ProcessNack(src, m.seq, w), {}, src.recvd)
      /\ ProcessNack(src, m.seq, w).ctrl = src.ctrl
  BY <1>1, ProcessNackHandles
<1>3. SrcDone(ProcessNack(src, m.seq, w), {m}) /\ sink' = sink
  BY DEF ReceiveNack
<1>4. QED
  BY <1>2, <1>3, HandlerStep DEF Quiet

LEMMA TimerStep ==
    ASSUME Inv, NEW gate \in BOOLEAN, TimerExpires(gate)
    PROVE  Inv' /\ Quiet
<1> DEFINE s == RtxTimerExpired(src, gate)
<1>1. /\ Good(src) /\ src \in Sender /\ src.rto # 0 /\ Cardinality(src.ctrl) <= MaxRts
      /\ gate => Cardinality(src.ctrl) < MaxRts
      /\ SrcDone(s, {}) /\ sink' = sink
  BY DEF Inv, Good, Shape, TimerExpires, CanExpire
<1>2. Expires(src, s, gate)
  BY <1>1, RtxTimerExpiredHandles
<1> HIDE DEF s
<1>3. CASE s.ctrl = src.ctrl
  BY <1>1, <1>2, <1>3, HandlerStep DEF Expires, Quiet
<1>4. CASE s.ctrl # src.ctrl
  <2>1. PICK q \in src.highestSent .. (s.highestSent - 1) : s.ctrl = src.ctrl \cup {q}
    BY <1>2, <1>4 DEF Expires
  <2>2. gate
    BY <1>2, <1>4 DEF Expires
  <2>3. IsFiniteSet(src.ctrl) /\ Cardinality(src.ctrl) \in Nat
    BY <1>1, NumbersFinite DEF Good, Shape
  <2>4. IsFiniteSet(s.ctrl) /\ Cardinality(s.ctrl) <= Cardinality(src.ctrl) + 1
    <3>1. /\ IsFiniteSet(src.ctrl \cup {q})
          /\ Cardinality(src.ctrl \cup {q}) = IF q \in src.ctrl THEN Cardinality(src.ctrl)
                                              ELSE Cardinality(src.ctrl) + 1
      BY <2>3, FS_AddElement
    <3>2. QED
      BY <2>1, <2>3, <3>1
  <2>5. Cardinality(s.ctrl) \in Nat /\ MaxRts \in Nat
    BY <2>4, FS_CardinalityType, TransportAssumption
  <2>6. Cardinality(s.ctrl) <= MaxRts
    BY <1>1, <2>2, <2>3, <2>4, <2>5
  <2>7. Handles(src, s, {}, src.recvd) /\ ~src.done /\ ~s.done
    BY <1>2 DEF Expires
  <2>8. src.ctrl \subseteq s.ctrl
        /\ s.ctrl \ src.ctrl \subseteq src.highestSent .. (s.highestSent - 1)
    BY <2>1
  <2>9. QED
    BY <1>1, <2>6, <2>7, <2>8, SourceStep DEF Quiet
<1>5. QED
  BY <1>3, <1>4

\* The fabric drops a packet or trims it to its header.
LEMMA FabricStep ==
    ASSUME Inv, NEW m \in net, Lose(m) \/ Trim(m)
    PROVE  Inv' /\ Gains
<1> DEFINE h == src.highestSent
<1>1. UNCHANGED <<src, sink>>
  BY DEF Lose, Trim
<1>2. \A x \in net' : Truthful(x, sink, h)
  <2>1. \A x \in net : Truthful(x, sink, h)
    BY DEF Inv
  <2>2. CASE Lose(m)
    BY <2>1, <2>2 DEF Lose
  <2>3. CASE Trim(m)
    <3> DEFINE x == [type |-> "trimmed", seq |-> m.seq]
    <3>1. Truthful(m, sink, h) /\ m.type = "data"
      BY <2>1, <2>3 DEF Trim
    <3>2. m.seq \in Nat /\ m.seq < h
      BY <3>1 DEF Truthful, WireMessage
    <3>3. x \in WireMessage /\ x.type = "trimmed" /\ x.seq = m.seq
      BY <3>2 DEF WireMessage
    <3>4. net' = (net \ {m}) \cup {x}
      BY <2>3 DEF Trim
    <3> HIDE DEF x
    <3>5. Truthful(x, sink, h)
      BY <3>2, <3>3 DEF Truthful
    <3>6. QED
      BY <2>1, <3>4, <3>5
  <2>4. QED
    BY <2>2, <2>3
<1>3. \A x \in net' : x \in net \/ x.type = "trimmed"
  BY DEF Lose, Trim
<1>4. Marked(net', src.ctrl)
  BY <1>3 DEF Inv, Marked
<1>5. \A x \in net' : x.type = "ack" => x \in net
  BY <1>3
<1>6. QED
  BY <1>1, <1>2, <1>4, <1>5 DEF Inv, Gains, SameHeld

LEMMA DeliverStep ==
    ASSUME Inv, NEW m \in net, Deliver(m)
    PROVE  Inv' /\ Observed
<1>1. Truthful(m, sink, src.highestSent) /\ SinkShape(sink, src.highestSent)
      /\ src.highestSent \in Nat
  BY SenderFields DEF Inv, Good, Shape
<1>2. ASSUME NEW w \in CwndValues, ReceiveAck(m, w) \/ ReceiveNack(m, w)
      PROVE  Inv' /\ Observed
  BY <1>2, AckStep, NackStep DEF Observed
<1>3. ASSUME NEW ecn \in BOOLEAN, ReceiveData(m, ecn)
      PROVE  Inv' /\ Gains
  <2>1. m.type = "data" /\ SinkDone(ProcessData(sink, m, ecn), m)
    BY <1>3 DEF ReceiveData
  <2>2. Answers(sink, ProcessData(sink, m, ecn), src.highestSent, m.seq, m.size)
    BY <1>1, <2>1, ProcessDataAnswers
  <2>3. m.seq \in 0 .. (src.highestSent - 1) /\ m.size \in Nat
    BY <1>1, <2>1, TransportAssumption DEF Truthful, WireMessage
  <2>4. Worth(m.seq, m.size)
    BY <2>1, TransportAssumption DEF Worth, Inv, Marked
  <2>5. QED
    BY <2>1, <2>2, <2>3, <2>4, SinkStep
<1>4. ASSUME ReceiveTrimmed(m)
      PROVE  Inv' /\ Gains
  <2>1. m.type = "trimmed" /\ SinkDone(ProcessTrimmed(sink, m.seq), m)
    BY <1>4 DEF ReceiveTrimmed
  <2>2. m.seq \in Nat /\ m.seq < src.highestSent
    BY <1>1, <2>1 DEF Truthful, WireMessage
  <2>3. Answers(sink, ProcessTrimmed(sink, m.seq), src.highestSent, m.seq, 0)
    BY <1>1, <2>2, ProcessTrimmedAnswers
  <2>4. SameHeld(sink, ProcessTrimmed(sink, m.seq).sink)
    BY DEF ProcessTrimmed, SameHeld
  <2>5. m.seq \in 0 .. (src.highestSent - 1)
    BY <1>1, <2>2
  <2>6. QED
    BY <2>1, <2>3, <2>4, <2>5, SinkStep
<1>5. ASSUME ReceiveRts(m)
      PROVE  Inv' /\ Gains
  <2>1. m.type = "rts" /\ SinkDone(ProcessRts(sink, m.seq), m)
    BY <1>5 DEF ReceiveRts
  <2>2. m.seq \in Nat /\ m.seq < src.highestSent
    BY <1>1, <2>1 DEF Truthful, WireMessage
  <2>3. Answers(sink, ProcessRts(sink, m.seq), src.highestSent, m.seq, 0)
    BY <1>1, <2>2, ProcessRtsAnswers
  <2>4. Worth(m.seq, 0)
    BY <2>1, TransportAssumption DEF Worth, Inv, Marked
  <2>5. m.seq \in 0 .. (src.highestSent - 1)
    BY <1>1, <2>2
  <2>6. QED
    BY <2>1, <2>3, <2>4, <2>5, SinkStep
<1>6. QED
  BY <1>2, <1>3, <1>4, <1>5 DEF Deliver, Observed

\* Inv is inductive, and every step is a step of the sender, one of the
\* receiver, or one neither of them sees.
LEMMA NextInv == Inv /\ [Next]_vars => Inv' /\ Observed
<1> SUFFICES ASSUME Inv, [Next]_vars PROVE Inv' /\ Observed
  OBVIOUS
<1>1. CASE StartConnection
  BY <1>1, StartStep DEF Observed
<1>2. CASE PortFree
  BY <1>2, PortStep DEF Observed
<1>3. CASE OtherTraffic
  BY <1>3, OtherStep DEF Observed
<1>4. CASE Expire
  BY <1>4, TimerStep DEF Expire, Observed
<1>5. ASSUME NEW m \in net, Deliver(m)
      PROVE  Inv' /\ Observed
  BY <1>5, DeliverStep
<1>6. ASSUME NEW m \in net, Lose(m) \/ Trim(m)
      PROVE  Inv' /\ Gains
  BY <1>6, FabricStep
<1>7. CASE UNCHANGED vars
  BY <1>7 DEF vars, Inv, Gains, SameHeld, Observed
<1>8. QED
  BY <1>1, <1>2, <1>3, <1>4, <1>5, <1>6, <1>7 DEF Next, Observed

-----------------------------------------------------------------------------
(* Bytes.  The receiver counts each packet once, so what it had when it    *)
(* had counted i bytes is no more than i bytes long; an ack says no more   *)
(* than that of the bytes it carries, and the sender believes the ack with *)
(* the most bytes.                                                         *)

Held == {q \in Sent : Have(sink, q)}

\* A receiver has nothing that was not handed out.
LEMMA HaveIsSent ==
    ASSUME Inv, NEW q \in Nat, Have(sink, q)
    PROVE  q < src.highestSent
<1>1. src.highestSent \in Nat /\ SinkShape(sink, src.highestSent)
  BY SenderFields DEF Inv, Good, Shape
<1>2. sink.expected \in Nat /\ sink.expected <= src.highestSent
  BY <1>1, SinkFields DEF SinkShape
<1>3. QED
  BY <1>1, <1>2 DEF Have, SinkShape

\* What Inv says of the numbers the proofs below calculate with.
LEMMA InvFields ==
    ASSUME Inv
    PROVE  /\ src \in Sender /\ src.highestSent \in Nat /\ src.recvd \in Nat
           /\ src.backlog \in Nat /\ src.done \in BOOLEAN
           /\ sink.expected \in Nat /\ sink.ooo \in SUBSET Nat /\ sink.recvd \in Nat
           /\ sink.expected <= src.highestSent /\ ~Have(sink, sink.expected)
           /\ Sent \in SUBSET Nat /\ IsFiniteSet(Sent)
           /\ \A S \in SUBSET Sent : IsFiniteSet(S) /\ Cardinality(S) \in Nat
           /\ src.ctrl \subseteq Sent
<1>1. src \in Sender /\ Shape(src) /\ SinkShape(sink, src.highestSent)
  BY DEF Inv, Good, Shape
<1>2. src.highestSent \in Nat /\ src.recvd \in Nat /\ src.backlog \in Nat /\ src.done \in BOOLEAN
  BY <1>1, SenderFields
<1>3. sink.expected \in Nat /\ sink.ooo \in SUBSET Nat /\ sink.recvd \in Nat
  BY <1>1, <1>2, SinkFields
<1>4. sink.expected <= src.highestSent /\ ~Have(sink, sink.expected)
  BY <1>1, <1>3 DEF SinkShape, Have
<1>5. Sent = Numbers(src)
  BY DEF Sent, Numbers
<1>6. QED
  BY <1>1, <1>2, <1>3, <1>4, <1>5, NumbersFinite DEF Shape

LEMMA AckFields ==
    ASSUME Inv, NEW m \in net, m.type = "ack"
    PROVE  /\ m.cum \in Nat /\ m.recvd \in Nat /\ m.sacks \in SUBSET Nat
           /\ m.cum <= sink.expected /\ \A q \in m.sacks : Have(sink, q)
BY DEF Inv, Truthful, WireMessage

\* Numbers spent on RTS since are new ones, so what was handed out stays sorted
\* into data and RTS.
LEMMA ProgressKeeps ==
    ASSUME Inv, Inv', Progress
    PROVE  /\ Held' = Held /\ Held \ src'.ctrl = Held \ src.ctrl
           /\ Held \cap src'.ctrl = Held \cap src.ctrl
<1>1. sink' = sink /\ src.highestSent <= src'.highestSent
  BY DEF Progress
<1>2. src.highestSent \in Nat /\ src'.highestSent \in Nat
  BY SenderFields DEF Inv, Good, Shape
<1>3. \A q \in Nat : Have(sink, q) => q < src.highestSent
  BY HaveIsSent
<1>4. Held' = Held
  BY <1>1, <1>2, <1>3 DEF Held, Sent
<1>5. \A q \in Held : q \in src'.ctrl <=> q \in src.ctrl
  BY <1>2 DEF Held, Sent, Progress
<1>6. QED
  BY <1>4, <1>5

\* What the receiver has is worth what it has counted, give or take the bytes of
\* numbers that were spent on an RTS.
Counts ==
    /\ PktSize * Cardinality(Held \ src.ctrl) <= sink.recvd
    /\ sink.recvd <= PktSize * Cardinality(Held \ src.ctrl)
                     + HdrSize * Cardinality(Held \cap src.ctrl)

\* What a step of the receiver adds to what it has.
LEMMA GainsHeld ==
    ASSUME Inv, Inv', Gains
    PROVE  \/ Held' = Held /\ sink'.recvd = sink.recvd
           \/ \E q \in Sent, z \in Nat :
                  /\ q \notin Held /\ Held' = Held \cup {q}
                  /\ Worth(q, z) /\ sink'.recvd = sink.recvd + z
<1>1. src' = src /\ Sent' = Sent /\ Sent \in SUBSET Nat
  BY InvFields DEF Gains, Sent
<1>2. CASE SameHeld(sink, sink')
  BY <1>1, <1>2 DEF SameHeld, Held
<1>3. ASSUME NEW q \in 0 .. (src.highestSent - 1), NEW z \in Nat,
             Worth(q, z), Obtains(sink, sink', q, z)
      PROVE  /\ q \in Sent /\ q \notin Held /\ Held' = Held \cup {q}
             /\ sink'.recvd = sink.recvd + z
  <2>1. q \in Sent
    BY DEF Sent
  <2>2. QED
    BY <1>1, <1>3, <2>1 DEF Obtains, Held
<1>4. QED
  BY <1>2, <1>3 DEF Gains

LEMMA CountsKept ==
    ASSUME Inv, Inv', Observed, Counts
    PROVE  Counts'
<1>1. CASE Progress
  <2>1. sink' = sink
    BY <1>1 DEF Progress
  <2>2. Held' \ src'.ctrl = Held \ src.ctrl /\ Held' \cap src'.ctrl = Held \cap src.ctrl
    BY <1>1, ProgressKeeps
  <2>3. QED
    BY <2>1, <2>2 DEF Counts
<1>2. CASE Gains
  <2> DEFINE D == Held \ src.ctrl
             C == Held \cap src.ctrl
             n == Cardinality(D)
             c == Cardinality(C)
  <2>1. src' = src
    BY <1>2 DEF Gains
  <2>2. CASE Held' = Held /\ sink'.recvd = sink.recvd
    BY <2>1, <2>2 DEF Counts
  <2>3. ASSUME NEW q \in Sent, NEW z \in Nat, q \notin Held, Held' = Held \cup {q},
               Worth(q, z), sink'.recvd = sink.recvd + z
        PROVE  Counts'
    <3>1. /\ IsFiniteSet(D) /\ IsFiniteSet(C) /\ n \in Nat /\ c \in Nat
          /\ sink.recvd \in Nat
      BY InvFields DEF Held
    <3>2. PktSize * n <= sink.recvd /\ sink.recvd <= PktSize * n + HdrSize * c
      BY DEF Counts
    <3>3. /\ PktSize * n \in Int /\ HdrSize * c \in Int /\ PktSize \in Nat /\ HdrSize \in Nat
          /\ PktSize * (n + 1) = PktSize * n + PktSize
          /\ HdrSize * (c + 1) = HdrSize * c + HdrSize
      BY <3>1, TransportAssumption
    <3>4. CASE q \in src.ctrl
      <4>1. Held' \ src'.ctrl = D /\ Held' \cap src'.ctrl = C \cup {q} /\ q \notin C
        BY <2>1, <2>3, <3>4
      <4>2. Cardinality(C \cup {q}) = c + 1
        BY <3>1, <4>1, FS_AddElement
      <4>3. z \in 0 .. HdrSize
        BY <2>3, <3>4 DEF Worth
      <4>4. /\ PktSize * n <= sink'.recvd
            /\ sink'.recvd <= PktSize * n + HdrSize * (c + 1)
        <5> HIDE DEF n, c
        <5>1. QED
          BY <2>3, <3>1, <3>2, <3>3, <4>3
      <4>5. QED
        BY <4>1, <4>2, <4>4 DEF Counts
    <3>5. CASE q \notin src.ctrl
      <4>1. Held' \ src'.ctrl = D \cup {q} /\ q \notin D /\ Held' \cap src'.ctrl = C
        BY <2>1, <2>3, <3>5
      <4>2. Cardinality(D \cup {q}) = n + 1
        BY <3>1, <4>1, FS_AddElement
      <4>3. z = PktSize
        BY <2>3, <3>5 DEF Worth
      <4>4. /\ PktSize * (n + 1) <= sink'.recvd
            /\ sink'.recvd <= PktSize * (n + 1) + HdrSize * c
        <5> HIDE DEF n, c
        <5>1. QED
          BY <2>3, <3>1, <3>2, <3>3, <4>3
      <4>5. QED
        BY <4>1, <4>2, <4>4 DEF Counts
    <3>6. QED
      BY <3>4, <3>5
  <2>4. QED
    BY <1>2, <2>2, <2>3, GainsHeld
<1>3. QED
  BY <1>1, <1>2 DEF Observed, Quiet, Acknowledges

\* G[i] is the data the receiver had when it had counted i bytes.
Recalls(G) ==
    /\ G \in [Nat -> SUBSET Nat]
    /\ \A i, j \in Nat : i <= j => G[i] \subseteq G[j]
    /\ \A i \in 0 .. sink.recvd : PktSize * Cardinality(G[i]) <= i
    /\ G[sink.recvd] = Held \ src.ctrl
    /\ \A m \in net : m.type = "ack" =>
           m.recvd <= sink.recvd /\ Covered(m) \ src.ctrl \subseteq G[m.recvd]
    /\ src.recvd <= sink.recvd
    /\ Forgotten(src) \ src.ctrl \subseteq G[src.recvd]

LEMMA ProgressRecalls ==
    ASSUME Inv, Inv', Progress, Hears({}, src.recvd) \/ (\E m \in net : Acknowledges(m)),
           NEW G, Recalls(G)
    PROVE  Recalls(G)'
<1>1. sink' = sink /\ src.ctrl \subseteq src'.ctrl
  BY DEF Progress
<1>2. Held' \ src'.ctrl = Held \ src.ctrl
  BY ProgressKeeps
<1>3. ASSUME NEW m \in net', m.type = "ack"
      PROVE  m.recvd <= sink'.recvd /\ Covered(m) \ src'.ctrl \subseteq G[m.recvd]
  <2>1. m \in net
    BY <1>3 DEF Hears, Acknowledges
  <2>2. QED
    BY <1>1, <1>3, <2>1 DEF Recalls
<1>4. src'.recvd <= sink.recvd /\ Forgotten(src') \ src'.ctrl \subseteq G[src'.recvd]
  <2>1. CASE Hears({}, src.recvd)
    BY <1>1, <2>1 DEF Hears, Recalls
  <2>2. ASSUME NEW m \in net, Acknowledges(m)
        PROVE  src'.recvd <= sink.recvd /\ Forgotten(src') \ src'.ctrl \subseteq G[src'.recvd]
    <3> DEFINE r == Highest(src, m)
    <3>1. m.type = "ack" /\ src'.recvd = r
          /\ Forgotten(src') \subseteq Forgotten(src) \cup Covered(m)
      BY <2>2 DEF Acknowledges, Hears
    <3>2. m.recvd \in Nat /\ src.recvd \in Nat /\ sink.recvd \in Nat
      BY <3>1, AckFields, InvFields
    <3>3. r \in Nat /\ m.recvd <= r /\ src.recvd <= r /\ r \in {m.recvd, src.recvd}
      BY <3>2 DEF Highest
    <3>4. G[m.recvd] \subseteq G[r] /\ G[src.recvd] \subseteq G[r]
      BY <3>2, <3>3 DEF Recalls
    <3>5. m.recvd <= sink.recvd /\ Covered(m) \ src.ctrl \subseteq G[m.recvd]
      BY <3>1 DEF Recalls
    <3>6. src.recvd <= sink.recvd /\ Forgotten(src) \ src.ctrl \subseteq G[src.recvd]
      BY DEF Recalls
    <3> HIDE DEF r
    <3>7. QED
      BY <1>1, <3>1, <3>3, <3>4, <3>5, <3>6
  <2>3. QED
    BY <2>1, <2>2
<1>5. QED
  BY <1>1, <1>2, <1>3, <1>4 DEF Recalls

\* The receiver has what it has counted up to now, and acks of this step say no
\* more than that.
LEMMA GainsRecalls ==
    ASSUME Inv, Inv', Gains, NEW G, Recalls(G)
    PROVE  \E K : Recalls(K)'
<1> DEFINE r == sink.recvd
           s == sink'.recvd
           D == Held \ src.ctrl
           E == Held' \ src.ctrl
<1>1. src' = src /\ r \in Nat /\ src.recvd \in Nat /\ D \in SUBSET Nat /\ IsFiniteSet(D)
      /\ src.ctrl \subseteq Sent /\ Sent' = Sent
  BY InvFields DEF Gains, Held, Sent
<1>2. \A m \in net' : m.type = "ack" => m \in net \/ Fresh(m, sink')
  BY DEF Gains
<1>3. s \in Nat /\ E \in SUBSET Nat /\ sink'.expected \in Nat
      /\ sink'.expected <= src.highestSent /\ \A p \in Nat : Have(sink', p) => p \in Sent
  <2>1. /\ sink'.expected \in Nat /\ sink'.recvd \in Nat /\ src'.highestSent \in Nat
        /\ sink'.ooo \in SUBSET Nat /\ SinkShape(sink', src'.highestSent)
    BY SenderFields, SinkFields DEF Inv, Good, Shape
  <2>2. \A p \in Nat : Have(sink', p) => p < src'.highestSent
    BY <2>1 DEF Have, SinkShape
  <2>3. Held' \in SUBSET Nat
    BY <1>1, InvFields DEF Held
  <2>4. \A p \in Nat : Have(sink', p) => p \in Sent
    BY <1>1, <2>1, <2>2 DEF Sent
  <2>5. E \in SUBSET Nat
    BY <2>3
  <2>6. QED
    BY <1>1, <2>1, <2>4, <2>5 DEF SinkShape
<1>4. ASSUME NEW m, Fresh(m, sink'), NEW K, K[s] = E
      PROVE  m.recvd <= s /\ Covered(m) \ src.ctrl \subseteq K[m.recvd]
  <2>1. m.recvd = s /\ m.cum = sink'.expected /\ m.sacks \subseteq sink'.ooo
    BY <1>4 DEF Fresh
  <2>2. sink'.ooo \in SUBSET Nat
    BY <1>1, SenderFields, SinkFields DEF Inv, Good, Shape
  <2>3. \A p \in Covered(m) : p \in Nat /\ Have(sink', p)
    BY <1>3, <2>1, <2>2 DEF Covered, Have
  <2>4. \A p \in Covered(m) : p \in Held'
    BY <1>1, <1>3, <2>3 DEF Held
  <2>5. QED
    BY <1>3, <1>4, <2>1, <2>4
<1>5. CASE Held' = Held /\ s = r
  <2>1. Recalls(G)'
    <3>1. \A m \in net' : m.type = "ack" =>
              m.recvd <= s /\ Covered(m) \ src'.ctrl \subseteq G[m.recvd]
      BY <1>1, <1>2, <1>4, <1>5 DEF Recalls
    <3>2. QED
      BY <1>1, <1>5, <3>1 DEF Recalls
  <2>2. QED
    BY <2>1
<1>6. ASSUME NEW q \in Sent, NEW z \in Nat, q \notin Held, Held' = Held \cup {q},
             Worth(q, z), s = r + z
      PROVE  \E K : Recalls(K)'
  <2> DEFINE K == [i \in Nat |-> IF i <= r THEN G[i] ELSE IF i < s THEN D ELSE E]
  <2>1. /\ G \in [Nat -> SUBSET Nat] /\ G[r] = D
        /\ \A i, j \in Nat : i <= j => G[i] \subseteq G[j]
        /\ \A i \in 0 .. r : PktSize * Cardinality(G[i]) <= i
    BY DEF Recalls
  <2>2. D \subseteq E /\ (z = 0 => E = D) /\ r <= s
    BY <1>1, <1>6, TransportAssumption DEF Worth
  <2>3. K \in [Nat -> SUBSET Nat]
    BY <1>1, <1>3, <2>1
  <2>4. \A i \in Nat : i <= r => K[i] = G[i]
    OBVIOUS
  <2>5. K[s] = E
    BY <1>1, <1>3, <1>6, <2>1, <2>2
  <2>6. ASSUME NEW i \in Nat, NEW j \in Nat, i <= j
        PROVE  K[i] \subseteq K[j]
    <3>1. i <= r => G[i] \subseteq D
      BY <1>1, <2>1
    <3>2. j <= r => G[i] \subseteq G[j]
      BY <2>1, <2>6
    <3>3. K[i] = IF i <= r THEN G[i] ELSE IF i < s THEN D ELSE E
      OBVIOUS
    <3>4. K[j] = IF j <= r THEN G[j] ELSE IF j < s THEN D ELSE E
      OBVIOUS
    <3> HIDE DEF K, D, E, r, s
    <3>5. r \in Nat /\ s \in Nat
      BY <1>1, <1>3
    <3>6. CASE i <= r
      BY <2>2, <3>1, <3>2, <3>3, <3>4, <3>6
    <3>7. CASE ~(i <= r) /\ i < s
      BY <2>2, <2>6, <3>3, <3>4, <3>5, <3>7
    <3>8. CASE ~(i <= r) /\ ~(i < s)
      BY <2>2, <2>6, <3>3, <3>4, <3>5, <3>8
    <3>9. QED
      BY <3>6, <3>7, <3>8
  <2>7. PktSize * Cardinality(D) <= r /\ Cardinality(D) \in Nat
    <3>1. r \in 0 .. r
      BY <1>1
    <3>2. PktSize * Cardinality(G[r]) <= r
      BY <2>1, <3>1
    <3>3. QED
      BY <1>1, <2>1, <3>2, FS_CardinalityType
  <2>8. PktSize * Cardinality(E) <= s
    <3>1. CASE q \in src.ctrl
      <4>1. E = D
        BY <1>1, <1>6, <3>1
      <4> DEFINE y == PktSize * Cardinality(D)
      <4>2. y \in Int /\ y <= r
        BY <2>7, TransportAssumption
      <4> HIDE DEF y
      <4>3. y <= s
        BY <1>1, <1>3, <2>2, <4>2
      <4>4. QED
        BY <4>1, <4>3 DEF y
    <3>2. CASE q \notin src.ctrl
      <4>1. E = D \cup {q} /\ q \notin D /\ z = PktSize
        BY <1>6, <3>2 DEF Worth
      <4>2. Cardinality(E) = Cardinality(D) + 1
        BY <1>1, <4>1, FS_AddElement
      <4> DEFINE n == Cardinality(D)
      <4>3. PktSize * (n + 1) = PktSize * n + PktSize /\ PktSize * n \in Int
        BY <2>7, TransportAssumption
      <4> HIDE DEF n
      <4>4. PktSize * n <= r
        BY <2>7 DEF n
      <4>5. QED
        BY <1>1, <1>6, <4>1, <4>2, <4>3, <4>4, TransportAssumption DEF n
    <3>3. QED
      BY <3>1, <3>2
  <2>9. ASSUME NEW i \in 0 .. s PROVE PktSize * Cardinality(K[i]) <= i
    <3>1. i \in Nat
      BY <1>3
    <3>2. CASE i <= r
      <4>1. i \in 0 .. r
        BY <1>1, <3>1, <3>2
      <4>2. QED
        BY <2>1, <2>4, <3>1, <3>2, <4>1
    <3>3. CASE ~(i <= r) /\ i < s
      <4>1. K[i] = D
        BY <3>1, <3>3
      <4> DEFINE y == PktSize * Cardinality(D)
      <4>2. y \in Int /\ y <= r
        BY <2>7, TransportAssumption
      <4> HIDE DEF y
      <4>3. y <= i
        BY <1>1, <3>1, <3>3, <4>2
      <4>4. QED
        BY <4>1, <4>3 DEF y
    <3>4. CASE ~(i <= r) /\ ~(i < s)
      <4>1. K[i] = E /\ i = s
        BY <1>3, <3>1, <3>4
      <4>2. QED
        BY <2>8, <4>1
    <3>5. QED
      BY <3>2, <3>3, <3>4
  <2> HIDE DEF K
  <2>10. ASSUME NEW m \in net', m.type = "ack"
         PROVE  m.recvd <= s /\ Covered(m) \ src'.ctrl \subseteq K[m.recvd]
    <3>1. CASE m \in net
      <4>1. m.recvd \in Nat /\ m.recvd <= r /\ Covered(m) \ src.ctrl \subseteq G[m.recvd]
        BY <2>10, <3>1, AckFields DEF Recalls
      <4>2. QED
        BY <1>1, <1>3, <2>2, <2>4, <4>1
    <3>2. CASE Fresh(m, sink')
      BY <1>1, <1>4, <2>5, <3>2
    <3>3. QED
      BY <1>2, <2>10, <3>1, <3>2
  <2>11. src'.recvd <= s /\ Forgotten(src') \ src'.ctrl \subseteq K[src'.recvd]
    <3>1. src.recvd <= r /\ Forgotten(src) \ src.ctrl \subseteq G[src.recvd]
      BY DEF Recalls
    <3>2. QED
      BY <1>1, <1>3, <2>2, <2>4, <3>1
  <2>12. K[s] = Held' \ src'.ctrl
    BY <1>1, <2>5
  <2>13. PICK L : L = K
    OBVIOUS
  <2>14. Recalls(L)'
    BY <2>3, <2>6, <2>9, <2>10, <2>11, <2>12, <2>13 DEF Recalls
  <2>15. QED
    BY <2>14
<1>7. QED
  BY <1>5, <1>6, GainsHeld

History == \E G : Recalls(G)

LEMMA HistoryKept ==
    ASSUME Inv, Inv', Observed, History
    PROVE  History'
<1>1. PICK G : Recalls(G)
  BY DEF History
<1>2. CASE Gains
  BY <1>1, <1>2, GainsRecalls DEF History
<1>3. CASE Quiet \/ \E m \in net : Acknowledges(m)
  <2>1. Progress /\ (Hears({}, src.recvd) \/ (\E m \in net : Acknowledges(m)))
    BY <1>3 DEF Quiet, Acknowledges
  <2>2. Recalls(G)'
    BY <1>1, <2>1, ProgressRecalls
  <2>3. QED
    BY <2>2 DEF History
<1>4. QED
  BY <1>2, <1>3 DEF Observed

\* The data the sender has forgotten is paid for by the bytes it has heard of.
LEMMA Paid ==
    ASSUME Inv, History
    PROVE  PktSize * Cardinality(Forgotten(src) \ src.ctrl) <= src.recvd
<1> DEFINE F == Forgotten(src) \ src.ctrl
<1>1. PICK G : Recalls(G)
  BY DEF History
<1>2. src.recvd \in Nat /\ sink.recvd \in Nat /\ src.recvd <= sink.recvd
  BY <1>1, InvFields DEF Recalls
<1>3. F \subseteq G[src.recvd] /\ G[src.recvd] \subseteq G[sink.recvd]
      /\ PktSize * Cardinality(G[src.recvd]) <= src.recvd
  BY <1>1, <1>2 DEF Recalls
<1>4. IsFiniteSet(G[src.recvd])
  <2>1. G[src.recvd] \in SUBSET Sent
    BY <1>1, <1>3 DEF Recalls, Held
  <2>2. QED
    BY <2>1, InvFields
<1> DEFINE n == Cardinality(F)
           g == Cardinality(G[src.recvd])
<1>5. n \in Nat /\ g \in Nat /\ n <= g
  BY <1>3, <1>4, FS_Subset, FS_CardinalityType
<1>6. PktSize * n <= PktSize * g /\ PktSize * n \in Int /\ PktSize * g \in Int
  <2> HIDE DEF n, g
  <2>1. PktSize * g = PktSize * n + PktSize * (g - n) /\ PktSize * (g - n) \in Nat
    BY <1>5, TransportAssumption
  <2>2. QED
    BY <1>5, <2>1, TransportAssumption
<1>7. PktSize * g <= src.recvd
  BY <1>3
<1> HIDE DEF n, g
<1>8. PktSize * n <= src.recvd
  BY <1>2, <1>6, <1>7
<1>9. QED
  BY <1>8 DEF n

-----------------------------------------------------------------------------
(* Holes.  The cumulative number of an ack is the first the receiver was   *)
(* missing when it sent it, so no ack that is as old or older covers it;   *)
(* of the acks processed, the highest cumulative number is not forgotten.  *)

Acks == {m \in net : m.type = "ack"}

InOrder == \A m, n \in Acks : m.cum <= n.cum => n.cum \notin m.sacks

\* c is the highest cumulative number processed.
Missing(c) ==
    /\ c \in Nat /\ c <= sink.expected
    /\ c \notin Forgotten(src)
    /\ c = src.highestSent => src.backlog > 0 \/ src.done
    /\ \A m \in Acks : /\ m.cum <= c => c \notin m.sacks
                       /\ c <= m.cum => m.cum \notin Forgotten(src)

Holes == InOrder /\ \E c : Missing(c)

\* When nothing new is handed out the packets left to send are the same.
LEMMA SameBacklog ==
    ASSUME Inv, Inv', Progress, src'.highestSent = src.highestSent
    PROVE  src'.backlog = src.backlog /\ src'.ctrl = src.ctrl
<1>1. src'.ctrl = src.ctrl
  <2>1. src.highestSent .. (src'.highestSent - 1) = {}
    BY InvFields
  <2>2. QED
    BY <2>1 DEF Progress
<1>2. /\ src.backlog \in Nat /\ src'.backlog \in Nat /\ Cardinality(src.ctrl) \in Nat
      /\ src.highestSent = NPkts - src.backlog + Cardinality(src.ctrl)
      /\ src'.highestSent = NPkts - src'.backlog + Cardinality(src'.ctrl)
  BY InvFields, SenderFields DEF Inv, Good, Shape
<1>3. QED
  BY <1>1, <1>2, TransportAssumption

LEMMA ProgressHoles ==
    ASSUME Inv, Inv', Quiet \/ (\E m \in net : Acknowledges(m)), Holes
    PROVE  Holes'
<1>1. PICK c : Missing(c)
  BY DEF Holes
<1>2. Progress /\ sink' = sink /\ Acks' \subseteq Acks
  BY DEF Quiet, Acknowledges, Progress, Hears, Acks
<1>3. InOrder'
  BY <1>2 DEF Holes, InOrder
<1>4. /\ src.highestSent \in Nat /\ src'.highestSent \in Nat
      /\ src.highestSent <= src'.highestSent /\ sink.expected \in Nat
      /\ sink.expected <= src.highestSent /\ src.done \in BOOLEAN
  BY <1>2, InvFields, SenderFields DEF Progress, Inv, Good, Shape
<1>5. c \in Nat /\ c <= sink.expected /\ c \notin Forgotten(src)
  BY <1>1 DEF Missing
<1>6. c = src'.highestSent => src'.backlog > 0 \/ src'.done
  <2>1. SUFFICES ASSUME c = src'.highestSent PROVE src'.backlog > 0 \/ src'.done
    OBVIOUS
  <2>2. c = src.highestSent /\ src'.highestSent = src.highestSent
    BY <1>4, <1>5, <2>1
  <2>3. src'.backlog = src.backlog
    BY <1>2, <2>2, SameBacklog
  <2>4. src.done => src'.done
    BY <1>2 DEF Progress
  <2>5. src.backlog > 0 \/ src.done
    BY <1>1, <2>2 DEF Missing
  <2>6. QED
    BY <2>3, <2>4, <2>5
<1>7. CASE Quiet
  <2>1. Forgotten(src') \subseteq Forgotten(src)
    BY <1>7 DEF Quiet, Hears
  <2>2. Missing(c)'
    BY <1>1, <1>2, <1>5, <1>6, <2>1 DEF Missing
  <2>3. QED
    BY <1>3, <2>2 DEF Holes
<1>8. ASSUME NEW m \in net, Acknowledges(m)
      PROVE  Holes'
  <2>1. m \in Acks /\ Forgotten(src') \subseteq Forgotten(src) \cup Covered(m)
    BY <1>8 DEF Acknowledges, Hears, Acks
  <2>2. m.cum \in Nat /\ m.sacks \in SUBSET Nat /\ m.cum <= sink.expected
    BY <2>1, AckFields DEF Acks
  <2>3. \A n \in Acks : n.cum \in Nat
    BY AckFields DEF Acks
  <2>4. ASSUME NEW q \in Nat, m.cum <= q, q \notin m.sacks, q \notin Forgotten(src)
        PROVE  q \notin Forgotten(src')
    BY <2>1, <2>2, <2>4 DEF Covered
  <2>5. ASSUME NEW n \in Acks, m.cum <= n.cum, n.cum \notin Forgotten(src)
        PROVE  n.cum \notin Forgotten(src')
    BY <2>1, <2>3, <2>4, <2>5 DEF Holes, InOrder
  <2>6. CASE m.cum <= c
    <3>1. c \notin Forgotten(src')
      BY <1>1, <1>5, <2>1, <2>4, <2>6 DEF Missing
    <3>2. ASSUME NEW n \in Acks, c <= n.cum
          PROVE  n.cum \notin Forgotten(src')
      BY <1>1, <1>5, <2>2, <2>3, <2>5, <2>6, <3>2 DEF Missing
    <3>3. Missing(c)'
      BY <1>1, <1>2, <1>5, <1>6, <3>1, <3>2 DEF Missing
    <3>4. QED
      BY <1>3, <3>3 DEF Holes
  <2>7. CASE c < m.cum
    <3> DEFINE d == m.cum
    <3>1. d \in Nat /\ d <= sink.expected /\ d \notin Forgotten(src) /\ c <= d
      BY <1>1, <1>5, <2>1, <2>2, <2>7 DEF Missing
    <3>2. d \notin m.sacks
      BY <2>1, <2>2 DEF Holes, InOrder
    <3>3. d \notin Forgotten(src')
      BY <2>4, <3>1, <3>2
    <3>4. ASSUME NEW n \in Acks
          PROVE  /\ n.cum <= d => d \notin n.sacks
                 /\ d <= n.cum => n.cum \notin Forgotten(src')
      <4>1. n.cum <= d => d \notin n.sacks
        BY <2>1 DEF Holes, InOrder
      <4>2. ASSUME d <= n.cum PROVE n.cum \notin Forgotten(src')
        <5>1. n.cum \notin Forgotten(src)
          BY <1>1, <1>5, <2>3, <3>1, <4>2 DEF Missing
        <5>2. QED
          BY <2>5, <4>2, <5>1
      <4>3. QED
        BY <4>1, <4>2
    <3>5. d = src'.highestSent => src'.backlog > 0 \/ src'.done
      <4>1. SUFFICES ASSUME d = src'.highestSent, ~(src'.backlog > 0) PROVE src'.done
        OBVIOUS
      <4>2. d = src.highestSent /\ src'.highestSent = src.highestSent
        BY <1>4, <3>1, <4>1
      <4>3. src'.backlog = src.backlog
        BY <1>2, <4>2, SameBacklog
      <4>4. src.backlog \in Nat /\ Cardinality(src.ctrl) \in Nat
            /\ src.highestSent = NPkts - src.backlog + Cardinality(src.ctrl)
        BY InvFields DEF Inv, Good, Shape
      <4>5. m.cum - Cardinality(src.ctrl) >= NPkts
        BY <4>1, <4>2, <4>3, <4>4, TransportAssumption
      <4>6. QED
        BY <1>8, <4>5 DEF Acknowledges
    <3>6. PICK e : e = d
      OBVIOUS
    <3> HIDE DEF d
    <3>7. Missing(e)'
      BY <1>2, <3>1, <3>3, <3>4, <3>5, <3>6 DEF Missing
    <3>8. QED
      BY <1>3, <3>7 DEF Holes
  <2>8. QED
    BY <1>5, <2>2, <2>6, <2>7
<1>9. QED
  BY <1>7, <1>8

LEMMA GainsHoles ==
    ASSUME Inv, Inv', Gains, Holes
    PROVE  Holes'
<1> DEFINE x == sink'.expected
<1>1. PICK c : Missing(c)
  BY DEF Holes
<1>2. src' = src /\ Acks' = {m \in net' : m.type = "ack"}
  BY DEF Gains, Acks
<1>3. ASSUME NEW m \in Acks'
      PROVE  \/ m \in Acks /\ \A q \in m.sacks : q \in Nat /\ Have(sink, q)
             \/ m.cum = x /\ m.sacks \subseteq sink'.ooo
  BY <1>2, <1>3, AckFields DEF Gains, Acks, Fresh
<1>4. /\ x \in Nat /\ sink'.ooo \in SUBSET Nat /\ ~Have(sink', x)
  <2>1. SinkShape(sink', src'.highestSent) /\ src'.highestSent \in Nat
    BY SenderFields DEF Inv, Good, Shape
  <2>2. x \in Nat /\ sink'.ooo \in SUBSET Nat
    BY <2>1, SinkFields
  <2>3. QED
    BY <2>1, <2>2 DEF SinkShape, Have
<1>5. \A q \in Nat : Have(sink, q) => Have(sink', q)
  BY DEF Gains, SameHeld, Obtains
<1>6. sink.expected \in Nat /\ sink.expected <= x
  <2>1. sink.expected \in Nat
    BY InvFields
  <2>2. ~(x < sink.expected)
    BY <1>4, <1>5 DEF Have
  <2>3. QED
    BY <1>4, <2>1, <2>2
<1>7. \A m \in Acks' : x \notin m.sacks
  <2>1. x \notin sink'.ooo
    BY <1>4 DEF Have
  <2>2. QED
    BY <1>3, <1>4, <1>5, <2>1
<1>8. \A m \in Acks' : m.cum \in Nat /\ m.cum <= x /\ (m.cum = x \/ m \in Acks)
  BY <1>3, <1>4, <1>6, AckFields DEF Acks
<1>9. InOrder'
  <2>1. ASSUME NEW m \in Acks', NEW n \in Acks', m.cum <= n.cum
        PROVE  n.cum \notin m.sacks
    <3>1. CASE n.cum = x
      BY <1>7, <3>1
    <3>2. CASE n.cum # x
      <4>1. n \in Acks /\ m.cum # x
        BY <1>4, <1>8, <2>1, <3>2
      <4>2. m \in Acks
        BY <1>8, <4>1
      <4>3. QED
        BY <2>1, <4>1, <4>2 DEF Holes, InOrder
    <3>3. QED
      BY <3>1, <3>2
  <2>2. QED
    BY <2>1 DEF InOrder
<1>10. c \in Nat /\ c <= sink.expected /\ c <= x /\ c \notin Forgotten(src)
  BY <1>1, <1>4, <1>6 DEF Missing
<1>11. x \notin Forgotten(src)
  BY <1>2, <1>4 DEF Inv
<1>12. ASSUME NEW m \in Acks'
       PROVE  /\ m.cum <= c => c \notin m.sacks
              /\ c <= m.cum => m.cum \notin Forgotten(src)
  <2>1. CASE m \in Acks
    BY <1>1, <2>1 DEF Missing
  <2>2. CASE m.cum = x
    BY <1>4, <1>7, <1>10, <1>11, <2>2
  <2>3. QED
    BY <1>8, <2>1, <2>2
<1>13. Missing(c)'
  BY <1>1, <1>2, <1>10, <1>12 DEF Missing
<1>14. QED
  BY <1>9, <1>13 DEF Holes

LEMMA HolesKept ==
    ASSUME Inv, Inv', Observed, Holes
    PROVE  Holes'
BY ProgressHoles, GainsHoles DEF Observed

-----------------------------------------------------------------------------
(* Waking up.  A flow that has started and is not finished has something    *)
(* outstanding, or nothing it may send, or its turn at the NIC to come.     *)

Alive == Ready(src) /\ (src.started /\ ~src.done => Awake(src))

LEMMA SameNicAlive ==
    ASSUME NEW s, NEW t, SameBooks(s, [t EXCEPT !.out = s.out]), SameNic(s, t), t \in Sender
    PROVE  /\ Ready(s) => Ready(t)
           /\ Awake(s) => Awake(t)
<1>1. /\ t.tx = s.tx /\ t.rtxQueue = s.rtxQueue /\ t.backlog = s.backlog
      /\ t.ctrl = s.ctrl /\ t.inFlight = s.inFlight /\ t.cwnd = s.cwnd
  BY DEF SameBooks, Sender
<1>2. QED
  BY <1>1 DEF Ready, Awake, SameNic, IsSendPermitted, NextPacketSize, Size

LEMMA HandlerAlive ==
    ASSUME NEW s \in Sender, NEW C, SrcDone(s, C), Ready(s), s.started /\ ~s.done => Awake(s)
    PROVE  Alive'
<1> DEFINE t == [s EXCEPT !.out = {}]
<1>1. src' = t
  BY DEF SrcDone
<1>2. t \in Sender /\ t.started = s.started /\ t.done = s.done /\ SameNic(s, t)
      /\ SameBooks(s, [t EXCEPT !.out = s.out])
  BY DEF Sender, SameNic, SameBooks
<1> HIDE DEF t
<1>3. Ready(t) /\ (t.started /\ ~t.done => Awake(t))
  BY <1>2, SameNicAlive
<1>4. QED
  BY <1>1, <1>3 DEF Alive

LEMMA StartAlive == Inv /\ Alive /\ StartConnection => Alive'
<1> SUFFICES ASSUME Inv, Alive, StartConnection PROVE Alive'
  OBVIOUS
<1> DEFINE s == [src EXCEPT !.started = TRUE]
           t == SendIfPermitted(s)
<1>1. src \in Sender /\ Shape(src)
  BY DEF Inv, Good, Shape
<1>2. /\ s \in Sender /\ s.highestSent = src.highestSent /\ s.backlog = src.backlog
      /\ s.tx = src.tx /\ s.sendTimes = src.sendTimes /\ s.rtxQueue = src.rtxQueue
      /\ s.ctrl = src.ctrl /\ s.rto = src.rto /\ s.clock = src.clock /\ s.out = src.out
      /\ s.cwnd = src.cwnd /\ SameNic(src, s)
  BY <1>1 DEF Sender, SameNic
<1>3. SrcDone(t, {})
  BY DEF StartConnection
<1> HIDE DEF s
<1>4. Shape(s)
  <2>1. Numbers(s) = Numbers(src)
    BY <1>2 DEF Numbers
  <2>2. QED
    BY <1>1, <1>2, <2>1 DEF Shape
<1>5. Ready(s)
  BY <1>2 DEF Alive, Ready, SameNic
<1>6. Ready(t) /\ Awake(t) /\ t \in Sender
  BY <1>4, <1>5, SendIfPermittedReady, SendIfPermittedSends DEF Sends, Shape
<1> HIDE DEF t
<1>7. QED
  BY <1>3, <1>6, HandlerAlive

LEMMA PortAlive == Inv /\ Alive /\ PortFree => Alive'
<1> SUFFICES ASSUME Inv, Alive, PortFree PROVE Alive'
  OBVIOUS
<1> DEFINE s == [src EXCEPT !.portBusy = FALSE]
           t == IF s.registered > 0 THEN TimeToSend(s) ELSE s
<1>1. src \in Sender /\ Shape(src) /\ src.registered \in Nat
  BY SenderFields DEF Inv, Good, Shape
<1>2. /\ s \in Sender /\ SameBooks(src, s) /\ ~s.portBusy
      /\ s.blocked = src.blocked /\ s.registered = src.registered
  BY <1>1 DEF Sender, SameBooks
<1>3. SrcDone(t, {})
  BY DEF PortFree
<1> HIDE DEF s
<1>4. Shape(s) /\ s.cwnd >= PktSize
  BY <1>1, <1>2, SameBooksSends DEF Sends, Alive, Ready, SameBooks
<1>5. CASE s.registered > 0
  <2>1. Ready(t) /\ Awake(t) /\ t \in Sender
    BY <1>4, <1>5, TimeToSendReady, TimeToSendSends DEF Sends, Shape
  <2> HIDE DEF t
  <2>2. QED
    BY <1>3, <2>1, HandlerAlive
<1>6. CASE ~(s.registered > 0)
  <2>1. t = s
    BY <1>6
  <2>2. Ready(s)
    BY <1>2, <1>4, <1>6 DEF Alive, Ready
  <2>3. s.started /\ ~s.done => Awake(s)
    BY <1>2 DEF Alive, Awake, SameBooks, IsSendPermitted, NextPacketSize, Size
  <2> HIDE DEF t
  <2>4. QED
    BY <1>2, <1>3, <2>1, <2>2, <2>3, HandlerAlive
<1>7. QED
  BY <1>5, <1>6

LEMMA OtherAlive == Inv /\ Alive /\ OtherTraffic => Alive'
<1> SUFFICES ASSUME Inv, Alive, OtherTraffic PROVE Alive'
  OBVIOUS
<1> DEFINE s == [src EXCEPT !.portBusy = TRUE]
<1>1. src \in Sender
  BY DEF Inv, Good, Shape
<1>2. /\ SameBooks(src, s) /\ s.portBusy
      /\ s.blocked = src.blocked /\ s.registered = src.registered
  BY <1>1 DEF Sender, SameBooks
<1>3. src' = s
  BY DEF OtherTraffic
<1> HIDE DEF s
<1>4. Ready(s)
  BY <1>2 DEF Alive, Ready, SameBooks
<1>5. s.started /\ ~s.done => Awake(s)
  BY <1>2 DEF Alive, Awake, SameBooks, IsSendPermitted, NextPacketSize, Size
<1>6. QED
  BY <1>3, <1>4, <1>5 DEF Alive

LEMMA DeliverAlive ==
    ASSUME Inv, Alive, NEW m \in net, Deliver(m)
    PROVE  Alive'
<1>1. Good(src) /\ Ready(src)
  BY DEF Inv, Alive
<1>2. ASSUME NEW w \in CwndValues, ReceiveAck(m, w) PROVE Alive'
  <2> DEFINE t == ProcessAck(src, m, w)
  <2>1. Truthful(m, sink, src.highestSent) /\ m.type = "ack"
    BY <1>2 DEF Inv, ReceiveAck
  <2>2. m.cum \in Nat /\ m.recvd \in Nat /\ m.sacks \in SUBSET Nat
    BY <2>1 DEF Truthful, WireMessage
  <2>3. m.cum <= src.highestSent
    <3>1. src.highestSent \in Nat /\ sink.expected \in Nat
          /\ sink.expected <= src.highestSent
      BY InvFields
    <3>2. QED
      BY <2>1, <2>2, <3>1 DEF Truthful
  <2>4. w \in Nat /\ w >= PktSize
    BY TransportAssumption
  <2>5. Ready(t) /\ (t.done \/ Awake(t)) /\ t \in Sender
    BY <1>1, <2>2, <2>3, <2>4, ProcessAckHandles DEF Handles, Good, Shape
  <2>6. SrcDone(t, {m})
    BY <1>2 DEF ReceiveAck
  <2> HIDE DEF t
  <2>7. QED
    BY <2>5, <2>6, HandlerAlive
<1>3. ASSUME NEW w \in CwndValues, ReceiveNack(m, w) PROVE Alive'
  <2> DEFINE t == ProcessNack(src, m.seq, w)
  <2>1. w \in Nat /\ w >= PktSize
    BY TransportAssumption
  <2>2. Ready(t) /\ t \in Sender /\ (Awake(src) => Awake(t))
    BY <1>1, <2>1, ProcessNackHandles DEF Handles, Good, Shape
  <2>3. SrcDone(t, {m})
    BY <1>3 DEF ReceiveNack
  <2>4. t.started /\ ~t.done => Awake(t)
    <3>1. CASE m.seq \in DOMAIN src.tx
      <4>1. Awake(src)
        BY <3>1 DEF Awake
      <4> HIDE DEF t
      <4>2. QED
        BY <2>2, <4>1
    <3>2. CASE m.seq \notin DOMAIN src.tx
      <4>1. t = src
        BY <3>2 DEF ProcessNack
      <4> HIDE DEF t
      <4>2. QED
        BY <4>1 DEF Alive
    <3>3. QED
      BY <3>1, <3>2
  <2> HIDE DEF t
  <2>5. QED
    BY <2>2, <2>3, <2>4, HandlerAlive
<1>4. CASE src' = src
  BY <1>4 DEF Alive
<1>5. QED
  BY <1>2, <1>3, <1>4 DEF Deliver, ReceiveData, ReceiveTrimmed, ReceiveRts, SinkDone

LEMMA AliveKept == Inv /\ Alive /\ [Next]_vars => Alive'
<1> SUFFICES ASSUME Inv, Alive, [Next]_vars PROVE Alive'
  OBVIOUS
<1>1. CASE Expire
  <2>1. PICK gate \in BOOLEAN : TimerExpires(gate)
    BY <1>1 DEF Expire
  <2> DEFINE t == RtxTimerExpired(src, gate)
  <2>2. Good(src) /\ Ready(src) /\ src.rto # 0 /\ SrcDone(t, {})
    BY <2>1 DEF Inv, Alive, TimerExpires, CanExpire
  <2>3. Expires(src, t, gate)
    BY <2>2, RtxTimerExpiredHandles
  <2> HIDE DEF t
  <2>4. Ready(t) /\ Awake(t) /\ t \in Sender
    BY <2>2, <2>3 DEF Expires, Handles, Good, Shape
  <2>5. QED
    BY <2>2, <2>4, HandlerAlive
<1>2. ASSUME NEW m \in net, Lose(m) \/ Trim(m) PROVE Alive'
  BY <1>2 DEF Alive, Lose, Trim
<1>3. CASE UNCHANGED vars
  BY <1>3 DEF vars, Alive
<1>4. QED
  BY <1>1, <1>2, <1>3, StartAlive, PortAlive, OtherAlive, DeliverAlive DEF Next

-----------------------------------------------------------------------------
(* All of it together.                                                     *)

Books == Counts /\ History /\ Holes /\ Alive

LEMMA InitBooks == Init => Books
<1> SUFFICES ASSUME Init PROVE Books
  OBVIOUS
<1>1. Inv /\ net = {} /\ sink.recvd = 0 /\ sink.expected = 0
  BY InitInv DEF Init
<1>2. PICK w \in CwndValues : src = SrcInit(w)
  BY DEF Init
<1>3. /\ src.started = FALSE /\ src.highestSent = 0 /\ src.backlog = NPkts
      /\ src.ctrl = {} /\ src.recvd = 0 /\ src.cwnd = w
      /\ src.blocked = FALSE /\ src.registered = 0
  BY <1>2 DEF SrcInit
<1>4. Held = {} /\ Forgotten(src) = {} /\ Cardinality({}) = 0
  BY <1>3, FS_EmptySet DEF Held, Sent, Forgotten, Numbers
<1>5. Counts
  <2>1. Held \ src.ctrl = {} /\ Held \cap src.ctrl = {}
    BY <1>4
  <2>2. PktSize * 0 = 0 /\ HdrSize * 0 = 0
    BY TransportAssumption
  <2>3. QED
    BY <1>1, <1>4, <2>1, <2>2 DEF Counts
<1>6. History
  <2> DEFINE G == [i \in Nat |-> {}]
  <2>1. PktSize * Cardinality({}) <= 0
    BY <1>4, TransportAssumption
  <2>2. \A i \in 0 .. sink.recvd : PktSize * Cardinality(G[i]) <= i
    BY <1>1, <2>1
  <2>3. Recalls(G)
    BY <1>1, <1>3, <1>4, <2>2 DEF Recalls
  <2>4. QED
    BY <2>3 DEF History
<1>7. Holes
  <2>1. Missing(0)
    BY <1>1, <1>3, <1>4, TransportAssumption DEF Missing, Acks
  <2>2. QED
    BY <1>1, <2>1 DEF Holes, InOrder, Acks
<1>8. Alive
  BY <1>3, TransportAssumption DEF Alive, Ready
<1>9. QED
  BY <1>5, <1>6, <1>7, <1>8 DEF Books

-----------------------------------------------------------------------------
(* The theorems.                                                           *)

\* The invariant all the others follow from.
THEOREM Invariance == Spec => []Inv
<1>1. Init => Inv
  BY InitInv
<1>2. Inv /\ [Next]_vars => Inv'
  BY NextInv
<1>3. QED
  BY <1>1, <1>2, PTL DEF Spec

\* A sequence number is never recorded as sent and queued for retransmission
\* at once (uec.cpp:668-670).
THEOREM NeverInBothAlways == Spec => []NeverInBoth
<1>1. Inv => NeverInBoth
  BY DEF Inv, Good, Shape, NeverInBoth, Outstanding
<1>2. QED
  BY <1>1, Invariance, PTL

\* The retransmission timer is always that of the oldest record (startRTO,
\* recalculateRTO), and off exactly when there is none.
THEOREM TimerTracksOldestAlways == Spec => []TimerTracksOldest
<1>1. Inv => TimerTracksOldest
  BY DEF Inv, Good, Shape, TimerRight, TimerTracksOldest, Outstanding
<1>2. QED
  BY <1>1, Invariance, PTL

\* _in_flight and _recvd_bytes account for every byte sent, however packets are
\* lost, duplicated, trimmed or reordered.
THEOREM InFlightExactAlways == Spec => []InFlightExact
<1>1. Inv => InFlightExact
  BY DEF Inv, Good, Exact, Numbers, InFlightExact, Sent
<1>2. QED
  BY <1>1, Invariance, PTL

\* A record is erased, or a retransmission given up, only for what the receiver
\* has.
THEOREM NothingForgottenAlways == Spec => []NothingForgotten
<1>1. Inv => NothingForgotten
  BY DEF Inv, Forgotten, Numbers, NothingForgotten, Settled, Sent, Outstanding
<1>2. QED
  BY <1>1, Invariance, PTL

\* checkFinished declares a flow finished only when the receiver has everything.
LEMMA FinishedSoundly == Inv => FinishIsSound
<1> SUFFICES ASSUME Inv, src.done PROVE FinishIsSound
  BY DEF FinishIsSound
<1>1. /\ src \in Sender /\ Shape(src) /\ TimerRight(src) /\ Finished(src)
      /\ SinkShape(sink, src.highestSent) /\ \A q \in Forgotten(src) : Have(sink, q)
  BY DEF Inv, Good, Shape
<1>2. src.backlog = 0 /\ DOMAIN src.tx = {} /\ src.rtxQueue = {}
  BY <1>1 DEF Finished
<1>3. src.rto = 0
  <2>1. src.sendTimes = {}
    BY <1>1, <1>2 DEF Shape
  <2>2. QED
    BY <1>1, <2>1 DEF TimerRight, Earliest
<1>4. sink.expected = src.highestSent
  <2>1. src.highestSent \in Nat /\ sink.expected \in Nat /\ sink.expected <= src.highestSent
    BY <1>1, SenderFields, SinkFields DEF SinkShape
  <2>2. SUFFICES ASSUME sink.expected < src.highestSent PROVE FALSE
    BY <2>1
  <2>3. sink.expected \in Forgotten(src)
    BY <1>2, <2>1, <2>2 DEF Forgotten, Numbers
  <2>4. Have(sink, sink.expected)
    BY <1>1, <2>3
  <2>5. sink.expected \in sink.ooo
    BY <2>1, <2>4 DEF Have
  <2>6. sink.ooo \in SUBSET Nat
    BY <1>1, <2>1, SinkFields
  <2>7. QED
    BY <1>1, <2>1, <2>5, <2>6 DEF SinkShape
<1>5. QED
  BY <1>2, <1>3, <1>4 DEF FinishIsSound, Outstanding

THEOREM FinishIsSoundAlways == Spec => []FinishIsSound
BY FinishedSoundly, Invariance, PTL

\* What the receiver has recorded it never loses.
THEOREM ReceiverNeverForgetsAlways == Spec => ReceiverNeverForgets
<1>1. Inv /\ [Next]_vars => [\A q \in SeqNo : Have(sink, q) => Have(sink', q)]_vars
  <2>1. SUFFICES ASSUME Inv, [Next]_vars, NEW q \in SeqNo, Have(sink, q)
                 PROVE  Have(sink', q)
    OBVIOUS
  <2>2. q \in Nat
    BY TransportAssumption DEF SeqNo
  <2>3. Progress \/ Gains
    BY <2>1, NextInv DEF Observed, Quiet, Acknowledges
  <2>4. QED
    BY <2>1, <2>2, <2>3 DEF Progress, Gains, SameHeld, Obtains, Have
<1>2. QED
  BY <1>1, Invariance, PTL DEF Spec, ReceiverNeverForgets

\* The receiver's counts, the sender's history, the holes and the NIC's queue
\* stay in order as well.
THEOREM BooksKept == Spec => []Books
<1>1. Inv /\ [Next]_vars => (Books => Books')
  <2> SUFFICES ASSUME Inv, [Next]_vars, Books PROVE Books'
    OBVIOUS
  <2>1. Inv' /\ Observed
    BY NextInv
  <2>2. QED
    BY <2>1, CountsKept, HistoryKept, HolesKept, AliveKept DEF Books
<1>2. QED
  BY <1>1, InitBooks, Invariance, PTL DEF Spec

\* The receiver counts the bytes of a packet once, however often it arrives,
\* whole or trimmed (processData, processTrimmed).
THEOREM CountedOnceAlways == Spec => []CountedOnce
<1>1. Books => CountedOnce
  BY DEF Books, Counts, CountedOnce, Bytes, Held
<1>2. QED
  BY <1>1, BooksKept, PTL

\* A flow that has started and is not finished waits for its timer or for the
\* NIC (uec.cpp:1686), whatever acks and nacks were lost.  With the timer off
\* nothing is outstanding; something is left to send, since the hole an ack
\* reported is never forgotten; the window has room for it, since no more is
\* counted in flight than the receiver has acknowledged; and then the NIC has
\* been asked.
LEMMA Awaited == Inv /\ Books => NeverStuck
<1> SUFFICES ASSUME Inv, Books, src.started, ~src.done, src.rto = 0
             PROVE  src.registered > 0
  BY DEF NeverStuck
<1>1. src \in Sender /\ Shape(src) /\ TimerRight(src) /\ Exact(src)
  BY DEF Inv, Good, Shape
<1>2. DOMAIN src.tx = {}
  <2>1. DOMAIN src.tx \in SUBSET Nat /\ \A p \in DOMAIN src.tx : src.tx[p] \in Nat \ {0}
    BY <1>1, SenderFields DEF Shape
  <2>2. src.sendTimes \in SUBSET ((Nat \ {0}) \X Nat)
    BY <1>1, <2>1 DEF Shape
  <2>3. Earliest(src.sendTimes) = 0
    BY <1>1 DEF TimerRight
  <2>4. src.sendTimes = {}
    BY <2>2, <2>3, EarliestIsLeast
  <2>5. QED
    BY <1>1, <2>4 DEF Shape
<1>3. src.rtxQueue # {} \/ src.backlog > 0
  <2>1. SUFFICES ASSUME src.rtxQueue = {}, ~(src.backlog > 0) PROVE FALSE
    OBVIOUS
  <2>2. PICK c : Missing(c)
    BY DEF Books, Holes
  <2>3. src.highestSent \in Nat /\ sink.expected \in Nat /\ sink.expected <= src.highestSent
    BY InvFields
  <2>4. c \in Nat /\ c <= src.highestSent /\ c \notin Forgotten(src)
    BY <2>2, <2>3 DEF Missing
  <2>5. Forgotten(src) = 0 .. (src.highestSent - 1)
    BY <1>2, <2>1 DEF Forgotten, Numbers
  <2>6. c = src.highestSent
    BY <2>3, <2>4, <2>5
  <2>7. QED
    BY <2>1, <2>2, <2>6 DEF Missing
<1>4. src.inFlight \in Int /\ src.inFlight <= 0
  <2> DEFINE n == Cardinality(Forgotten(src) \ src.ctrl)
             k == Cardinality(src.ctrl \cap src.rtxQueue)
  <2>1. Numbers(src) \ (src.ctrl \cup src.rtxQueue) = Forgotten(src) \ src.ctrl
    BY <1>2 DEF Forgotten
  <2>2. n \in Nat /\ k \in Nat
    <3>1. src.ctrl \cap src.rtxQueue \in SUBSET Numbers(src)
          /\ Forgotten(src) \ src.ctrl \in SUBSET Numbers(src)
      BY <1>1 DEF Shape, Forgotten
    <3>2. QED
      BY <1>1, <3>1, NumbersFinite
  <2>3. src.inFlight + src.recvd = PktSize * n - HdrSize * k
    BY <1>1, <2>1 DEF Exact
  <2>4. PktSize * n <= src.recvd
    BY Paid DEF Books
  <2>5. src.inFlight \in Int /\ src.recvd \in Nat
    BY <1>1, SenderFields
  <2> HIDE DEF n, k
  <2>6. PktSize * n \in Int /\ HdrSize * k \in Nat
    BY <2>2, TransportAssumption
  <2>7. QED
    BY <2>3, <2>4, <2>5, <2>6
<1>5. NextPacketSize(src) \in Nat /\ NextPacketSize(src) <= PktSize
  BY TransportAssumption DEF NextPacketSize, Size
<1>6. src.cwnd \in Nat /\ src.cwnd >= PktSize /\ PktSize \in Nat
  BY <1>1, SenderFields, TransportAssumption DEF Books, Alive, Ready
<1>7. src.cwnd >= src.inFlight + NextPacketSize(src)
  BY <1>4, <1>5, <1>6
<1>8. IsSendPermitted(src)
  BY <1>3, <1>7 DEF IsSendPermitted
<1>9. QED
  BY <1>2, <1>8 DEF Books, Alive, Awake

THEOREM NeverStuckAlways == Spec => []NeverStuck
BY Awaited, BooksKept, Invariance, PTL

\* Every field keeps its type, and no more sequence numbers are used than data
\* packets and RTSs need.
THEOREM TypeOKAlways == Spec => []TypeOK
<1> DEFINE h == src.highestSent
<1>1. ASSUME Inv PROVE TypeOK
  <2>1. /\ src \in Sender /\ Shape(src) /\ Cardinality(src.ctrl) <= MaxRts /\ src.out = {}
        /\ SinkShape(sink, h) /\ \A m \in net : Truthful(m, sink, h)
    BY <1>1 DEF Inv, Good, Shape
  <2>2. /\ h \in Nat /\ src.backlog \in Nat /\ src.clock \in Nat /\ src.rto \in Nat
        /\ Cardinality(src.ctrl) \in Nat /\ NPkts \in Nat /\ MaxRts \in Nat
    BY <2>1, SenderFields, NumbersFinite, TransportAssumption DEF Shape
  <2>3. h = NPkts - src.backlog + Cardinality(src.ctrl)
    BY <2>1 DEF Shape
  <2>4. h <= NPkts + MaxRts
    BY <2>1, <2>2, <2>3
  <2>5. Numbers(src) \subseteq SeqNo
    BY <2>2, <2>4 DEF Numbers, SeqNo
  <2>6. src.backlog \in 0 .. NPkts
    <3>1. Cardinality(src.ctrl) <= h
      <4> DEFINE top == h - 1
      <4>1. src.ctrl \subseteq 0 .. top /\ 0 \in Int /\ top \in Int /\ top - 0 + 1 = h
        BY <2>1, <2>2 DEF Shape, Numbers
      <4>2. 0 > top => h = 0
        BY <2>2
      <4> HIDE DEF h, top
      <4>3. IsFiniteSet(0 .. top) /\ Cardinality(0 .. top) = h
        BY <4>1, <4>2, FS_Interval
      <4>4. QED
        BY <4>1, <4>3, FS_Subset
    <3>2. QED
      BY <2>2, <2>3, <3>1
  <2>7. /\ Outstanding \subseteq SeqNo /\ src.rtxQueue \subseteq SeqNo
        /\ src.ctrl \subseteq SeqNo
        /\ \A q \in Outstanding : src.tx[q] \in 1 .. src.clock
    BY <2>1, <2>5 DEF Shape, Outstanding
  <2>8. src.sendTimes \subseteq (1 .. src.clock) \X SeqNo
    BY <2>1, <2>7 DEF Shape, Outstanding
  <2>9. src.rto \in 0 .. src.clock
    BY <2>1, <2>2 DEF Shape
  <2>10. /\ sink.expected \in Nat /\ sink.ooo \in SUBSET Nat /\ sink.recvd \in Nat
         /\ sink.payload \in Nat /\ sink.accepted \in Nat /\ sink.ackRequest \in BOOLEAN
    BY <2>1, <2>2, SinkFields
  <2>11. /\ sink.expected \in 0 .. (NPkts + MaxRts)
         /\ \A q \in Nat : q < h => q \in SeqNo
    BY <2>1, <2>2, <2>4, <2>10 DEF SinkShape, SeqNo
  <2>12. sink.ooo \subseteq SeqNo
    BY <2>1, <2>10, <2>11 DEF SinkShape
  <2>13. ASSUME NEW m \in net PROVE m \in Message
    <3>1. Truthful(m, sink, h) /\ m \in WireMessage
      BY <2>1 DEF Truthful
    <3>2. CASE m.type # "ack"
      <4>1. m.seq \in Nat /\ m.seq < h
        BY <3>1, <3>2 DEF WireMessage, Truthful
      <4>2. m.seq \in SeqNo
        BY <2>11, <4>1
      <4>3. QED
        BY <3>1, <3>2, <4>2 DEF WireMessage, Message
    <3>3. CASE m.type = "ack"
      <4>1. m \in [type : {"ack"}, cum : Nat, recvd : Nat, sacks : SUBSET Nat]
        BY <3>1, <3>3 DEF WireMessage
      <4>2. m.cum \in 0 .. (NPkts + MaxRts)
        BY <2>2, <2>10, <2>11, <3>1, <3>3, <4>1 DEF Truthful
      <4>3. \A q \in m.sacks : q \in Nat /\ Have(sink, q)
        BY <3>1, <3>3, <4>1 DEF Truthful
      <4>4. \A q \in m.sacks : q < h
        BY <2>1, <2>2, <2>10, <4>3 DEF Have, SinkShape
      <4>5. m.sacks \in SUBSET SeqNo
        BY <2>11, <4>3, <4>4
      <4>6. QED
        BY <4>1, <4>2, <4>5 DEF Message
    <3>4. QED
      BY <3>2, <3>3
  <2>14. /\ src.started \in BOOLEAN /\ src.blocked \in BOOLEAN /\ src.done \in BOOLEAN
         /\ src.portBusy \in BOOLEAN /\ src.rtxBacklog \in Int /\ src.recvd \in Nat
         /\ src.cwnd \in Nat /\ src.inFlight \in Int /\ src.registered \in Nat
    BY <2>1, SenderFields
  <2>15. h \in 0 .. (NPkts + MaxRts)
    BY <2>2, <2>4
  <2>16. QED
    BY <2>1, <2>2, <2>6, <2>7, <2>8, <2>9, <2>10, <2>11, <2>12, <2>13, <2>14, <2>15 DEF TypeOK
<1>2. QED
  BY <1>1, Invariance, PTL

-----------------------------------------------------------------------------
(* The flow implements ReliableFlow.                                       *)

Delivered == {q \in Sent : Have(sink, q)}

\* ReliableFlow has its own instance of FiniteSets.
LEMMA SameCardinality == \A S : Flow!Cardinality(S) = Cardinality(S)
BY DEF Flow!Cardinality, Cardinality

\* What a quiescent state says of the abstract flow.
Accounting ==
    /\ src.highestSent \in Nat /\ Cardinality(src.ctrl) \in Nat
    /\ src.highestSent - Cardinality(src.ctrl) <= NPkts
    /\ src.done \in BOOLEAN
    /\ src.done => /\ src.highestSent - Cardinality(src.ctrl) = NPkts
                   /\ Delivered = 0 .. (src.highestSent - 1)

LEMMA Accounts == Inv => Accounting
<1> SUFFICES ASSUME Inv PROVE Accounting
  OBVIOUS
<1>1. src \in Sender /\ Shape(src) /\ Finished(src)
  BY DEF Inv, Good, Shape
<1>2. /\ src.highestSent \in Nat /\ src.backlog \in Nat /\ Cardinality(src.ctrl) \in Nat
      /\ src.done \in BOOLEAN /\ NPkts \in Nat
  BY <1>1, SenderFields, NumbersFinite, TransportAssumption DEF Shape
<1>3. src.highestSent = NPkts - src.backlog + Cardinality(src.ctrl)
  BY <1>1 DEF Shape
<1>4. src.done => src.backlog = 0 /\ sink.expected = src.highestSent
  BY <1>1, FinishedSoundly DEF Finished, FinishIsSound
<1>5. src.done => Delivered = 0 .. (src.highestSent - 1)
  BY <1>2, <1>4 DEF Delivered, Sent, Have
<1>6. QED
  BY <1>2, <1>3, <1>4, <1>5 DEF Accounting, Delivered, Sent

LEMMA SourceSimulates ==
    ASSUME Inv, Inv', Progress
    PROVE  Flow!Next \/ UNCHANGED <<src.highestSent, src.ctrl, Delivered, src.done>>
<1> DEFINE h == src.highestSent
           g == src'.highestSent
<1>1. Accounting
  BY Accounts
<1>2. Accounting'
  BY Accounts, PTL
<1>3. /\ h \in Nat /\ g \in Nat /\ h <= g /\ src.done \in BOOLEAN /\ src'.done \in BOOLEAN
      /\ Cardinality(src.ctrl) \in Nat /\ Cardinality(src'.ctrl) \in Nat
      /\ g - Cardinality(src'.ctrl) <= NPkts
      /\ src.done => h - Cardinality(src.ctrl) = NPkts
      /\ src'.done => g - Cardinality(src'.ctrl) = NPkts
      /\ NPkts \in Nat
  BY <1>1, <1>2, TransportAssumption DEF Accounting, Progress
<1>4. Delivered' = Delivered
  <2>1. sink' = sink
    BY DEF Progress
  <2>2. \A q \in Nat : Have(sink, q) => q < h
    BY HaveIsSent
  <2>3. QED
    BY <1>3, <2>1, <2>2 DEF Delivered, Sent
<1>5. CASE src.done
  <2>1. src'.done /\ src'.ctrl = src.ctrl
    BY <1>5 DEF Progress
  <2>2. g = h
    BY <1>3, <1>5, <2>1
  <2>3. QED
    BY <1>4, <1>5, <2>1, <2>2, <1>3
<1>6. CASE ~src.done /\ src'.done
  <2>1. g = h /\ src'.ctrl = src.ctrl
    BY <1>6 DEF Progress
  <2>2. Delivered = 0 .. (h - 1)
    BY <1>2, <1>4, <1>6, <2>1 DEF Accounting
  <2>3. src.done = FALSE /\ src'.done = TRUE
    BY <1>3, <1>6
  <2>4. h - Cardinality(src.ctrl) = NPkts
    BY <1>3, <1>6, <2>1
  <2>5. /\ {q \in Sent : Have(sink, q)} = 0 .. (h - 1)
        /\ {q \in Sent : Have(sink, q)}' = {q \in Sent : Have(sink, q)}
    BY <1>4, <2>2 DEF Delivered
  <2> HIDE DEF h, g
  <2>6. ~src.done /\ src'.done = TRUE /\ src'.highestSent = src.highestSent
        /\ src'.ctrl = src.ctrl
    BY <2>1, <2>3 DEF g, h
  <2>7. Flow!Complete
    BY <2>4, <2>5, <2>6, SameCardinality DEF Flow!Complete, h
  <2>8. QED
    BY <2>7 DEF Flow!Next
<1>7. CASE ~src.done /\ ~src'.done
  <2>1. src'.done = src.done
    BY <1>3, <1>7
  <2>2. CASE g = h
    <3>1. src'.ctrl = src.ctrl
      <4>1. src.ctrl \subseteq src'.ctrl /\ src'.ctrl \ src.ctrl \subseteq h .. (h - 1)
        BY <2>2 DEF Progress
      <4>2. h .. (h - 1) = {}
        BY <1>3
      <4>3. QED
        BY <4>1, <4>2
    <3>2. QED
      BY <1>4, <2>1, <2>2, <3>1
  <2>3. CASE g # h
    <3>1. g > h
      BY <1>3, <2>3
    <3>2. /\ src'.highestSent \in Nat /\ src'.highestSent > src.highestSent
          /\ src'.highestSent - Cardinality(src'.ctrl) <= NPkts
      BY <1>3, <3>1
    <3>3. {q \in Sent : Have(sink, q)}' = {q \in Sent : Have(sink, q)}
      BY <1>4 DEF Delivered
    <3> HIDE DEF h, g
    <3>4. Flow!Offer
      BY <1>7, <2>1, <3>2, <3>3, SameCardinality DEF Flow!Offer, Progress
    <3>5. QED
      BY <3>4 DEF Flow!Next
  <2>4. QED
    BY <2>2, <2>3
<1>8. QED
  BY <1>3, <1>5, <1>6, <1>7

LEMMA ReceiverSimulates ==
    ASSUME Inv, Gains
    PROVE  Flow!Next \/ UNCHANGED <<src.highestSent, src.ctrl, Delivered, src.done>>
<1>1. src' = src /\ src.highestSent \in Nat
  BY Accounts DEF Gains, Accounting
<1>2. Sent \subseteq Nat /\ Sent' = Sent
  BY <1>1 DEF Sent
<1>3. CASE \A p \in Nat : Have(sink', p) <=> Have(sink, p)
  <2>1. Delivered' = Delivered
    BY <1>2, <1>3 DEF Delivered
  <2>2. QED
    BY <1>1, <2>1
<1>4. ASSUME NEW q \in 0 .. (src.highestSent - 1), ~Have(sink, q),
             \A p \in Nat : Have(sink', p) <=> (Have(sink, p) \/ p = q)
      PROVE  Flow!Next
  <2>1. q \in Sent /\ q \in Nat
    BY <1>1 DEF Sent
  <2>2. Delivered' = Delivered \cup {q}
    BY <1>2, <1>4, <2>1 DEF Delivered
  <2>3. q \in (0 .. (src.highestSent - 1)) \ Delivered
    BY <1>4 DEF Delivered
  <2>4. Flow!Receive
    BY <1>1, <2>2, <2>3 DEF Flow!Receive, Delivered
  <2>5. QED
    BY <2>4 DEF Flow!Next
<1>5. QED
  BY <1>3, <1>4 DEF Gains, SameHeld, Obtains

\* A flow over a fabric that loses, trims and reorders packets is a reliable
\* flow: the code's handlers implement Offer, Receive and Complete.
THEOREM ImplementsReliableFlow == Spec => IsReliableFlow
<1>1. Init => Flow!Init
  <2> SUFFICES ASSUME Init PROVE Flow!Init
    OBVIOUS
  <2>1. src.highestSent = 0 /\ src.ctrl = {} /\ src.done = FALSE
    BY DEF Init, SrcInit
  <2>2. {q \in Sent : Have(sink, q)} = {}
    BY <2>1 DEF Sent
  <2>3. QED
    BY <2>1, <2>2 DEF Flow!Init
<1>2. Inv /\ Inv' /\ [Next]_vars => [Flow!Next]_Flow!vars
  <2> SUFFICES ASSUME Inv, Inv', [Next]_vars PROVE [Flow!Next]_Flow!vars
    OBVIOUS
  <2>1. Progress \/ Gains
    BY NextInv DEF Observed, Quiet, Acknowledges
  <2>2. Flow!Next \/ UNCHANGED <<src.highestSent, src.ctrl, Delivered, src.done>>
    BY <2>1, SourceSimulates, ReceiverSimulates
  <2>3. QED
    BY <2>2 DEF Flow!vars, Delivered
<1>3. QED
  BY <1>1, <1>2, Invariance, PTL DEF Spec, IsReliableFlow, Flow!Spec

=============================================================================
