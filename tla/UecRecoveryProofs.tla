------------------------- MODULE UecRecoveryProofs --------------------------
(***************************************************************************)
(* Proofs about loss recovery in simulated time, for any flows, sizes,     *)
(* delays, triggers and faults: no assertion of sender, port or event list *)
(* fails, every timer a sender believes in is in the list and everything   *)
(* outstanding is watched by one, no timeout is early.                     *)
(*                                                                         *)
(* SimSound below holds between the calls a handler makes as well as       *)
(* between events, but for the flow the handler is about, of which the     *)
(* lemmas say what it still owes.  First the event list, then sender and   *)
(* port call by call, then the timers, the answers and the triggers.       *)
(***************************************************************************)
EXTENDS UecRecovery, ArithmeticTheorems, SequenceTheorems

DataPackets == [kind : {"data"}, f : Flows, psn : Nat, ar : BOOLEAN, probe : BOOLEAN, late : BOOLEAN]

Acks == [kind : {"ack"}, f : Flows, cum : Nat, sacks : SUBSET Seqs, ooo : Nat,
         probe : BOOLEAN, psn : Nat, late : BOOLEAN]

EventSources == {SrcOf(f) : f \in Flows} \cup {Port, Logger} \cup DataPackets \cup Acks

EntryType == [handle : Nat \ {0}, src : EventSources, when : Nat]

ListType ==
    [now : Nat, end : Nat, pending : Seq(EntryType), targets : Seq(Flows), traffic : Int,
     shots : [Triggers -> Nat], fault : SimFaults]

Entries(l) == {l.pending[i] : i \in DOMAIN l.pending}

\* In the order of their times, none of them past, each with its own handle.
InOrder(l) == \A i, j \in DOMAIN l.pending : i <= j => l.pending[i].when <= l.pending[j].when

NotPast(l) == \A i \in DOMAIN l.pending : l.pending[i].when >= l.now

OwnHandles(l) ==
    \A i, j \in DOMAIN l.pending : l.pending[i].handle = l.pending[j].handle => i = j

ListSound(l) == l \in ListType /\ InOrder(l) /\ NotPast(l) /\ OwnHandles(l) /\ l.fault = "none"

FlowType ==
    [started : BOOLEAN, backlog : Nat, next : Nat, done : BOOLEAN, blocked : BOOLEAN,
     sent : [Seqs -> Nat \cup {Never}], timed : SUBSET Seqs, resent : SUBSET Seqs,
     rtx : SUBSET Seqs, pending : BOOLEAN, rto : Nat, rtoOf : Nat, rtoHandle : Nat,
     probeWhen : Nat, probeHandle : Nat, probeSeq : Nat, probeSent : Nat,
     loss : BOOLEAN, recovery : Nat, highestRtx : Nat]

NicType == [busy : BOOLEAN, active : Seq(Flows)]

SimType == [l : ListType, flow : [Flows -> FlowType], nic : NicType]

SinkType == [cum : Nat, have : SUBSET Seqs, accepted : Nat, request : BOOLEAN]

\* Nothing is left to do.
Complete(r) == r.started /\ r.backlog = 0 /\ r.rtx = {} /\ Out(r) = {}

\* What a sender knows of its packets.
Books(r, f, now) ==
    /\ r.timed \subseteq Out(r) /\ Out(r) \cap r.rtx = {}
    /\ \A q \in Out(r) \cup r.rtx : q < r.next
    /\ \A q \in Out(r) : r.sent[q] <= now
    /\ IF r.started THEN r.next + r.backlog = Size[f] ELSE r.next = 0 /\ r.backlog = 0
    /\ r.done => Complete(r)
    /\ r.probeWhen # 0 => r.next # 0

\* The timer was set for a packet whose send time is still kept.
Recorded(r) == r.pending => \E q \in r.timed : r.sent[q] = r.rtoOf

NotEarly(r) == r.pending => r.rto >= r.rtoOf + MinRto

RtoEntry(r, f) == [handle |-> r.rtoHandle, src |-> SrcOf(f), when |-> r.rto]

ProbeEntry(r, f) == [handle |-> r.probeHandle, src |-> SrcOf(f), when |-> r.probeWhen]

RtoLive(s, f) == s.flow[f].pending => RtoEntry(s.flow[f], f) \in Entries(s.l)

\* Entry e is not the one the retransmission timer of f stands for.
Apart(e, s, f) == s.flow[f].pending => e.handle # s.flow[f].rtoHandle

ProbeLive(s, f) ==
    s.flow[f].probeWhen # 0 =>
        LET e == ProbeEntry(s.flow[f], f) IN e \in Entries(s.l) /\ Apart(e, s, f)

\* A timer set now would lie past the end.
NearEnd(l) == l.end # 0 /\ l.now + MinRto >= l.end

Guarded(r) == r.probeWhen # 0

\* What is outstanding is watched by one of the timers.
Watched(s, f) ==
    LET r == s.flow[f]
    IN  /\ r.timed # {} => r.pending \/ NearEnd(s.l) \/ Guarded(r)
        /\ Out(r) # r.timed => Guarded(r)
        /\ r.loss => Guarded(r) \/ Complete(r)

\* Records without a send time.
Gone(r) == Out(r) \ r.timed

Waiting(s) == {s.nic.active[i] : i \in DOMAIN s.nic.active}

\* While the port is idle nobody waits; who is blocked or wants to send waits,
\* but for flows in E.
PortSound(s, E) ==
    /\ ~s.nic.busy => s.nic.active = <<>>
    /\ \A f \in Flows : s.flow[f].blocked => f \in Waiting(s)
    /\ \A f \in Flows \ E : Wants(s.flow[f]) => f \in Waiting(s)

\* Packets name what was sent.
Honest(src, s) ==
    /\ src.kind = "data" => /\ s.flow[src.f].next # 0
                            /\ ~src.probe => src.psn < s.flow[src.f].next
    /\ src.kind = "ack" => s.flow[src.f].next # 0 /\ src.cum <= s.flow[src.f].next

Truthful(s) == \A e \in Entries(s.l) : Honest(e.src, s)

\* Before a flow has sent anything, its only event is its start.
StartsOnce(s, f) ==
    s.flow[f].next = 0 =>
        \A e \in Entries(s.l) : e.src = SrcOf(f) =>
            /\ ~s.flow[f].started /\ StartAt[f] # TriggerStart
            /\ \A d \in Entries(s.l) : d.src = SrcOf(f) => d = e

\* Activation number n of trigger g has been the turn of target i.
Released(g, i, n) ==
    CASE TriggerOf[g].kind = "single" -> n >= 1
      [] TriggerOf[g].kind = "multi" -> n >= i
      [] TriggerOf[g].kind = "barrier" -> n >= TriggerOf[g].needed

Due(s, f) ==
    \E g \in Triggers : \E i \in DOMAIN TriggerOf[g].targets :
        TriggerOf[g].targets[i] = f /\ Released(g, i, s.l.shots[g])

\* A trigger is activated once for every flow that leads to it; targets are
\* handed out once and start when it is their turn.
TriggersSound(s) ==
    /\ \A g \in Triggers : s.l.shots[g] = Cardinality({f \in Feeding(g) : s.flow[f].done})
    /\ \A f \in Flows : s.flow[f].started /\ StartAt[f] = TriggerStart => Due(s, f)
    /\ \A i \in DOMAIN s.l.targets :
          LET f == s.l.targets[i]
          IN  /\ StartAt[f] = TriggerStart /\ ~s.flow[f].started /\ Due(s, f)
              /\ \A j \in DOMAIN s.l.targets : s.l.targets[j] = f => j = i

SinkSound(k, next) == k.cum <= next /\ \A q \in k.have : q < next

SimSound(s) ==
    /\ s \in SimType /\ ListSound(s.l)
    /\ \A f \in Flows : LET r == s.flow[f] IN
          /\ Books(r, f, s.l.now) /\ Recorded(r) /\ NotEarly(r)
          /\ RtoLive(s, f) /\ ProbeLive(s, f) /\ Watched(s, f) /\ StartsOnce(s, f)
    /\ PortSound(s, {}) /\ Truthful(s) /\ TriggersSound(s)

Inv ==
    /\ SimSound(sim) /\ mode \in Modes /\ sim.l.end = mode.end
    /\ sink \in [Flows -> SinkType]
    /\ \A f \in Flows : SinkSound(sink[f], sim.flow[f].next)
    /\ \A f \in Flows : Guarded(sim.flow[f]) => mode.sleek
    /\ faults \in Nat

-----------------------------------------------------------------------------
(* The event list.                                                         *)

LEMMA InsertAtPlaces ==
    ASSUME NEW S, NEW s \in Seq(S), NEW k \in 1 .. Len(s) + 1, NEW e \in S
    PROVE  /\ InsertAt(s, k, e) \in Seq(S)
           /\ Len(InsertAt(s, k, e)) = Len(s) + 1
           /\ \A i \in 1 .. Len(s) + 1 :
                 InsertAt(s, k, e)[i] = IF i < k THEN s[i] ELSE IF i = k THEN e ELSE s[i - 1]
<1> DEFINE a == SubSeq(s, 1, k - 1)
           b == SubSeq(s, k, Len(s))
<1>1. Len(s) \in Nat /\ \A i \in 1 .. Len(s) : s[i] \in S
    BY LenProperties, ElementOfSeq
<1>2. /\ a \in Seq(S) /\ Len(a) = k - 1
      /\ \A i \in 1 .. k - 1 : a[i] = s[i]
  <2>1. k - 1 \in Int /\ \A i \in 1 .. k - 1 : s[i] \in S
      BY <1>1
  <2>2. /\ SubSeq(s, 1, k - 1) \in Seq(S)
        /\ Len(SubSeq(s, 1, k - 1)) = IF 1 <= k - 1 THEN (k - 1) - 1 + 1 ELSE 0
        /\ \A i \in 1 .. (k - 1) - 1 + 1 : SubSeq(s, 1, k - 1)[i] = s[1 + i - 1]
      BY <2>1, SubSeqProperties
  <2> QED
      BY <1>1, <2>2
<1>3. /\ b \in Seq(S) /\ Len(b) = Len(s) + 1 - k
      /\ \A i \in 1 .. Len(s) + 1 - k : b[i] = s[k + i - 1]
  <2>1. k \in Int /\ Len(s) \in Int /\ \A i \in k .. Len(s) : s[i] \in S
      BY <1>1
  <2>2. /\ SubSeq(s, k, Len(s)) \in Seq(S)
        /\ Len(SubSeq(s, k, Len(s))) = IF k <= Len(s) THEN (Len(s) - k) + 1 ELSE 0
        /\ \A i \in 1 .. (Len(s) - k) + 1 : SubSeq(s, k, Len(s))[i] = s[k + i - 1]
      BY <2>1, SubSeqProperties
  <2> QED
      BY <1>1, <2>2
<1>4. <<e>> \in Seq(S) /\ Len(<<e>>) = 1 /\ <<e>>[1] = e
    OBVIOUS
<1> HIDE DEF a, b
<1>5. /\ a \o <<e>> \in Seq(S) /\ Len(a \o <<e>>) = k
      /\ \A i \in 1 .. k : (a \o <<e>>)[i] = IF i < k THEN s[i] ELSE e
  <2>1. /\ a \o <<e>> \in Seq(S) /\ Len(a \o <<e>>) = Len(a) + Len(<<e>>)
        /\ \A i \in 1 .. Len(a) + Len(<<e>>) :
              (a \o <<e>>)[i] = IF i <= Len(a) THEN a[i] ELSE <<e>>[i - Len(a)]
      BY <1>2, <1>4, ConcatProperties
  <2>2. Len(a) + Len(<<e>>) = k
      BY <1>1, <1>2, <1>4
  <2>3. ASSUME NEW i \in 1 .. k PROVE (a \o <<e>>)[i] = IF i < k THEN s[i] ELSE e
    <3>1. CASE i < k
        BY <3>1, <1>2, <2>1, <2>2
    <3>2. CASE i = k
      <4>1. i - Len(a) = 1 /\ ~ (i <= Len(a)) /\ ~ (i < k)
          BY <1>1, <3>2, <1>2
      <4>2. (a \o <<e>>)[i] = <<e>>[i - Len(a)]
          BY <4>1, <2>1, <2>2
      <4>3. <<e>>[i - Len(a)] = e
          BY <4>1
      <4> QED
          BY <4>1, <4>2, <4>3
    <3>3. i < k \/ i = k
        BY <1>1
    <3> QED
        BY <3>1, <3>2, <3>3
  <2> QED
      BY <2>1, <2>2, <2>3
<1> DEFINE c == a \o <<e>>
<1>6. c \in Seq(S) /\ Len(c) = k /\ \A i \in 1 .. k : c[i] = IF i < k THEN s[i] ELSE e
    BY <1>5
<1> HIDE DEF c
<1>7. /\ c \o b \in Seq(S) /\ Len(c \o b) = Len(c) + Len(b)
      /\ \A i \in 1 .. Len(c) + Len(b) :
            (c \o b)[i] = IF i <= Len(c) THEN c[i] ELSE b[i - Len(c)]
    BY <1>6, <1>3, ConcatProperties
<1>8. Len(c) + Len(b) = Len(s) + 1
    BY <1>1, <1>3, <1>6
<1>9. InsertAt(s, k, e) = c \o b
    BY DEF InsertAt, a, b, c
<1>10. ASSUME NEW i \in 1 .. Len(s) + 1
       PROVE  (c \o b)[i] = IF i < k THEN s[i] ELSE IF i = k THEN e ELSE s[i - 1]
  <2>1. CASE i <= k
      BY <2>1, <1>6, <1>7, <1>8
  <2>2. CASE i > k
    <3>1. i - k \in 1 .. Len(s) + 1 - k /\ k + (i - k) - 1 = i - 1
        BY <2>2, <1>1
    <3>2. b[i - k] = s[i - 1]
        BY <3>1, <1>3
    <3> QED
        BY <2>2, <3>2, <1>6, <1>7, <1>8
  <2>3. i <= k \/ i > k
      BY <1>1
  <2> QED
      BY <2>1, <2>2, <2>3
<1> QED
    BY <1>7, <1>8, <1>9, <1>10

LEMMA RemoveAtPlaces ==
    ASSUME NEW S, NEW s \in Seq(S), NEW k \in 1 .. Len(s)
    PROVE  /\ RemoveAt(s, k) \in Seq(S)
           /\ Len(RemoveAt(s, k)) = Len(s) - 1
           /\ \A i \in 1 .. Len(s) - 1 :
                 RemoveAt(s, k)[i] = IF i < k THEN s[i] ELSE s[i + 1]
<1> DEFINE a == SubSeq(s, 1, k - 1)
           b == SubSeq(s, k + 1, Len(s))
<1>1. Len(s) \in Nat /\ \A i \in 1 .. Len(s) : s[i] \in S
    BY LenProperties, ElementOfSeq
<1>2. /\ a \in Seq(S) /\ Len(a) = k - 1
      /\ \A i \in 1 .. k - 1 : a[i] = s[i]
  <2>1. k - 1 \in Int /\ \A i \in 1 .. k - 1 : s[i] \in S
      BY <1>1
  <2>2. /\ SubSeq(s, 1, k - 1) \in Seq(S)
        /\ Len(SubSeq(s, 1, k - 1)) = IF 1 <= k - 1 THEN (k - 1) - 1 + 1 ELSE 0
        /\ \A i \in 1 .. (k - 1) - 1 + 1 : SubSeq(s, 1, k - 1)[i] = s[1 + i - 1]
      BY <2>1, SubSeqProperties
  <2> QED
      BY <1>1, <2>2
<1>3. /\ b \in Seq(S) /\ Len(b) = Len(s) - k
      /\ \A i \in 1 .. Len(s) - k : b[i] = s[k + i]
  <2>1. k + 1 \in Int /\ Len(s) \in Int /\ \A i \in k + 1 .. Len(s) : s[i] \in S
      BY <1>1
  <2>2. /\ SubSeq(s, k + 1, Len(s)) \in Seq(S)
        /\ Len(SubSeq(s, k + 1, Len(s))) = IF k + 1 <= Len(s) THEN (Len(s) - (k + 1)) + 1 ELSE 0
        /\ \A i \in 1 .. (Len(s) - (k + 1)) + 1 : SubSeq(s, k + 1, Len(s))[i] = s[(k + 1) + i - 1]
      BY <2>1, SubSeqProperties
  <2> QED
      BY <1>1, <2>2
<1> HIDE DEF a, b
<1>4. /\ a \o b \in Seq(S) /\ Len(a \o b) = Len(a) + Len(b)
      /\ \A i \in 1 .. Len(a) + Len(b) :
            (a \o b)[i] = IF i <= Len(a) THEN a[i] ELSE b[i - Len(a)]
    BY <1>2, <1>3, ConcatProperties
<1>5. Len(a) + Len(b) = Len(s) - 1
    BY <1>1, <1>2, <1>3
<1>6. RemoveAt(s, k) = a \o b
    BY DEF RemoveAt, a, b
<1>7. ASSUME NEW i \in 1 .. Len(s) - 1
      PROVE  (a \o b)[i] = IF i < k THEN s[i] ELSE s[i + 1]
  <2>1. CASE i < k
      BY <2>1, <1>2, <1>4, <1>5
  <2>2. CASE i >= k
    <3>1. i - (k - 1) \in 1 .. Len(s) - k /\ k + (i - (k - 1)) = i + 1
        BY <2>2, <1>1
    <3>2. b[i - (k - 1)] = s[i + 1]
        BY <3>1, <1>3
    <3> QED
        BY <2>2, <3>2, <1>2, <1>4, <1>5
  <2>3. i < k \/ i >= k
      BY <1>1
  <2> QED
      BY <2>1, <2>2, <2>3
<1> QED
    BY <1>4, <1>5, <1>6, <1>7

\* A list in order splits at any time.
LEMMA SplitsAt ==
    ASSUME NEW l \in ListType, InOrder(l), NEW when \in Nat
    PROVE  LET early == {i \in DOMAIN l.pending : l.pending[i].when <= when}
           IN  /\ Cardinality(early) \in 0 .. Len(l.pending)
               /\ \A i \in DOMAIN l.pending : i <= Cardinality(early) <=> l.pending[i].when <= when
<1> DEFINE p == l.pending
           early == {i \in DOMAIN p : p[i].when <= when}
           late == {i \in DOMAIN p : p[i].when > when}
<1>1. p \in Seq(EntryType) /\ Len(p) \in Nat /\ DOMAIN p = 1 .. Len(p)
    BY LenProperties DEF ListType
<1>2. \A i \in DOMAIN p : p[i].when \in Nat
  <2>1. \A i \in 1 .. Len(p) : p[i] \in EntryType
      BY <1>1, ElementOfSeq
  <2> QED
      BY <1>1, <2>1 DEF EntryType
<1>3. \A i, j \in DOMAIN p : i <= j => p[i].when <= p[j].when
    BY DEF InOrder
<1> HIDE DEF p
<1>4. \E k \in 0 .. Len(p) : early = 1 .. k
  <2>1. CASE late = {}
    <3>1. early = 1 .. Len(p)
        BY <1>1, <1>2, <2>1
    <3> QED
        BY <1>1, <3>1
  <2>2. CASE late # {}
    <3>1. late \in SUBSET Nat
        BY <1>1
    <3>2. PICK j \in late : \A k \in late : j <= k
        BY <2>2, <3>1, LeastNatural
    <3>3. j \in 1 .. Len(p) /\ p[j].when > when
        BY <1>1, <3>2
    <3>4. ASSUME NEW i \in 1 .. Len(p) PROVE p[i].when <= when <=> i <= j - 1
      <4>1. p[i].when \in Nat /\ p[j].when \in Nat
          BY <1>1, <1>2, <3>3
      <4>2. CASE i < j
        <5>1. i \notin late
            BY <1>1, <3>1, <3>2, <3>3, <4>2
        <5> QED
            BY <1>1, <3>3, <4>1, <4>2, <5>1
      <4>3. CASE i >= j
        <5>1. p[j].when <= p[i].when
            BY <1>1, <1>3, <3>3, <4>3
        <5> QED
            BY <3>3, <4>1, <4>3, <5>1
      <4>4. i < j \/ i >= j
          BY <3>3
      <4> QED
          BY <4>2, <4>3, <4>4
    <3>5. early = 1 .. (j - 1)
        BY <1>1, <3>3, <3>4
    <3>6. j - 1 \in 0 .. Len(p)
        BY <1>1, <3>3
    <3> QED
        BY <3>5, <3>6
  <2> QED
      BY <2>1, <2>2
<1>5. PICK k \in 0 .. Len(p) : early = 1 .. k
    BY <1>4
<1>6. Cardinality(early) = k
  <2>1. Cardinality(1 .. k) = k
      BY <1>1, FS_Interval
  <2> QED
      BY <1>5, <2>1
<1>7. \A i \in DOMAIN p : i <= k <=> p[i].when <= when
    BY <1>1, <1>5
<1> QED
    BY <1>6, <1>7 DEF p

\* There is a number that no pending event has.
LEMMA UnusedHandle ==
    ASSUME NEW l \in ListType
    PROVE  /\ Unused(l) \in Nat \ {0}
           /\ \A i \in DOMAIN l.pending : l.pending[i].handle # Unused(l)
<1> DEFINE p == l.pending
           free == {h \in 1 .. Len(p) + 1 : \A i \in DOMAIN p : p[i].handle # h}
<1>1. p \in Seq(EntryType) /\ Len(p) \in Nat /\ DOMAIN p = 1 .. Len(p)
    BY LenProperties DEF ListType
<1>2. \A i \in 1 .. Len(p) : p[i].handle \in Nat \ {0}
  <2>1. \A i \in 1 .. Len(p) : p[i] \in EntryType
      BY <1>1, ElementOfSeq
  <2> QED
      BY <2>1 DEF EntryType
<1>u. Unused(l) = CHOOSE h \in 1 .. Len(p) + 1 :
        /\ \A i \in DOMAIN p : p[i].handle # h
        /\ \A k \in 1 .. h - 1 : \E i \in DOMAIN p : p[i].handle = k
    BY DEF Unused
<1> HIDE DEF p
<1>3. free # {}
  <2>1. SUFFICES ASSUME free = {} PROVE FALSE
      OBVIOUS
  <2> DEFINE place == [h \in 1 .. Len(p) + 1 |-> CHOOSE i \in 1 .. Len(p) : p[i].handle = h]
  <2>2. \A h \in 1 .. Len(p) + 1 : \E i \in 1 .. Len(p) : p[i].handle = h
      BY <1>1, <2>1
  <2>3. \A h \in 1 .. Len(p) + 1 : place[h] \in 1 .. Len(p) /\ p[place[h]].handle = h
      BY <2>2
  <2>4. place \in [1 .. Len(p) + 1 -> 1 .. Len(p)]
      BY <2>3
  <2> HIDE DEF place
  <2>5. /\ IsFiniteSet(1 .. Len(p)) /\ Cardinality(1 .. Len(p)) = Len(p)
        /\ IsFiniteSet(1 .. Len(p) + 1) /\ Cardinality(1 .. Len(p) + 1) = Len(p) + 1
      BY <1>1, FS_Interval
  <2>6. PICK x, y \in 1 .. Len(p) + 1 : x # y /\ place[x] = place[y]
    <3>1. Cardinality(1 .. Len(p)) < Cardinality(1 .. Len(p) + 1)
        BY <1>1, <2>5
    <3> QED
        BY <2>4, <2>5, <3>1, FS_PigeonHole
  <2> QED
      BY <2>3, <2>6
<1>4. PICK h \in free : \A k \in free : h <= k
  <2>1. free \in SUBSET Nat
      BY <1>1
  <2> QED
      BY <1>3, <2>1, LeastNatural
<1>5. h \in 1 .. Len(p) + 1 /\ \A i \in DOMAIN p : p[i].handle # h
    OBVIOUS
<1>6. ASSUME NEW k \in 1 .. h - 1 PROVE \E i \in DOMAIN p : p[i].handle = k
  <2>1. k \in 1 .. Len(p) + 1 /\ ~ (h <= k)
      BY <1>1, <1>5
  <2>2. k \notin free
      BY <1>4, <2>1
  <2> QED
      BY <2>1, <2>2
<1>7. /\ Unused(l) \in 1 .. Len(p) + 1
      /\ \A i \in DOMAIN p : p[i].handle # Unused(l)
    BY <1>u, <1>5, <1>6
<1> QED
    BY <1>1, <1>7 DEF p

LEMMA EntriesTyped ==
    ASSUME NEW l \in ListType
    PROVE  /\ l.pending \in Seq(EntryType) /\ Len(l.pending) \in Nat
           /\ DOMAIN l.pending = 1 .. Len(l.pending)
           /\ \A i \in DOMAIN l.pending : l.pending[i] \in EntryType
           /\ Entries(l) \subseteq EntryType
<1>1. l.pending \in Seq(EntryType)
    BY DEF ListType
<1>2. Len(l.pending) \in Nat /\ DOMAIN l.pending = 1 .. Len(l.pending)
    BY <1>1, LenProperties
<1>3. \A i \in 1 .. Len(l.pending) : l.pending[i] \in EntryType
    BY <1>1, ElementOfSeq
<1> QED
    BY <1>1, <1>2, <1>3 DEF Entries

\* Entries with the same handle are the same.
LEMMA HandlesDiffer ==
    ASSUME NEW l, OwnHandles(l), NEW d \in Entries(l), NEW e \in Entries(l), d.handle = e.handle
    PROVE  d = e
    BY DEF OwnHandles, Entries

LEMMA CheckHolds ==
    ASSUME NEW l \in ListType, NEW what
    PROVE  Check(l, TRUE, what) = l
    BY DEF Check, ListType

\* An event is entered behind those of the same time and before all later ones.
LEMMA Schedules ==
    ASSUME NEW l, ListSound(l), NEW src \in EventSources, NEW when \in Nat, when >= l.now
    PROVE  LET t == SourceIsPending(l, src, when)
               h == HandleFor(l, src, when)
           IN  /\ ListSound(t)
               /\ t.now = l.now /\ t.end = l.end /\ t.targets = l.targets /\ t.shots = l.shots
               /\ h # NullHandle =>
                     /\ Entries(t) = Entries(l) \cup {[handle |-> h, src |-> src, when |-> when]}
                     /\ h \in Nat \ {0} /\ \A e \in Entries(l) : e.handle # h
               /\ h = NullHandle =>
                     /\ t = l
                     /\ IsTraffic(src) => l.end # 0 /\ when >= l.end
<1> DEFINE t == SourceIsPending(l, src, when)
           h == HandleFor(l, src, when)
           p == l.pending
           at == 1 + Cardinality({i \in DOMAIN p : p[i].when <= when})
           e == [handle |-> Unused(l), src |-> src, when |-> when]
           q == InsertAt(p, at, e)
<1>1. l \in ListType /\ InOrder(l) /\ NotPast(l) /\ OwnHandles(l) /\ l.fault = "none"
    BY DEF ListSound
<1>2. Check(l, when >= l.now, "past") = l
    BY <1>1, CheckHolds
<1>3. l.now \in Nat /\ l.end \in Nat /\ l.traffic \in Int
    BY <1>1 DEF ListType
<1>4. CASE ~ Admits(l, src, when)
  <2>1. t = l /\ h = NullHandle
      BY <1>2, <1>4 DEF SourceIsPending, HandleFor
  <2>2. IsTraffic(src) => l.end # 0 /\ when >= l.end
      BY <1>3, <1>4 DEF Admits
  <2> QED
      BY <1>1, <2>1, <2>2 DEF ListSound
<1>5. CASE Admits(l, src, when)
  <2>1. t = [l EXCEPT !.pending = q, !.traffic = @ + Weight(src)]
      BY <1>2, <1>5 DEF SourceIsPending
  <2>2. h = Unused(l)
      BY <1>5 DEF HandleFor
  <2>3. Unused(l) \in Nat \ {0} /\ \A i \in DOMAIN p : p[i].handle # Unused(l)
      BY <1>1, UnusedHandle
  <2>4. e \in EntryType
      BY <2>3 DEF EntryType
  <2>5. /\ p \in Seq(EntryType) /\ Len(p) \in Nat /\ DOMAIN p = 1 .. Len(p)
        /\ \A i \in DOMAIN p : p[i] \in EntryType
      BY <1>1, EntriesTyped
  <2>6. /\ at - 1 \in 0 .. Len(p) /\ at \in Nat
        /\ \A i \in DOMAIN p : i <= at - 1 <=> p[i].when <= when
    <3>1. /\ Cardinality({i \in DOMAIN l.pending : l.pending[i].when <= when}) \in 0 .. Len(l.pending)
          /\ \A i \in DOMAIN l.pending :
                i <= Cardinality({j \in DOMAIN l.pending : l.pending[j].when <= when})
                   <=> l.pending[i].when <= when
        BY <1>1, SplitsAt
    <3> DEFINE c == Cardinality({i \in DOMAIN p : p[i].when <= when})
    <3>2. c \in 0 .. Len(p) /\ \A i \in DOMAIN p : i <= c <=> p[i].when <= when
        BY <3>1
    <3>3. at = 1 + c
        OBVIOUS
    <3> HIDE DEF at, c
    <3>4. at - 1 = c /\ at \in Nat
        BY <2>5, <3>2, <3>3
    <3> QED
        BY <3>2, <3>4
  <2>w. Weight(src) \in Int
      BY DEF Weight
  <2>n. e.handle = Unused(l) /\ e.src = src /\ e.when = when
      OBVIOUS
  <2>q. q = InsertAt(p, at, e)
      OBVIOUS
  <2> HIDE DEF at, q
  <2>7. at \in 1 .. Len(p) + 1
      BY <2>5, <2>6
  <2> HIDE DEF p, e
  <2>8. /\ q \in Seq(EntryType) /\ Len(q) = Len(p) + 1 /\ DOMAIN q = 1 .. Len(p) + 1
        /\ \A i \in 1 .. Len(p) + 1 : q[i] = IF i < at THEN p[i] ELSE IF i = at THEN e ELSE p[i - 1]
    <3>1. /\ InsertAt(p, at, e) \in Seq(EntryType)
          /\ Len(InsertAt(p, at, e)) = Len(p) + 1
          /\ \A i \in 1 .. Len(p) + 1 :
               InsertAt(p, at, e)[i] = IF i < at THEN p[i] ELSE IF i = at THEN e ELSE p[i - 1]
        BY <2>4, <2>5, <2>7, InsertAtPlaces
    <3>2. DOMAIN q = 1 .. Len(q)
        BY <2>q, <3>1, LenProperties
    <3> QED
        BY <2>q, <3>1, <3>2
  <2>t. /\ t.pending = q /\ t.now = l.now /\ t.end = l.end /\ t.targets = l.targets
        /\ t.shots = l.shots /\ t.fault = l.fault /\ t \in ListType
    <3>1. l.traffic + Weight(src) \in Int
        BY <1>3, <2>w
    <3> QED
        BY <1>1, <2>1, <2>8, <3>1 DEF ListType
  <2> HIDE DEF t, h
  <2>9. \A i \in 1 .. Len(p) + 1 :
            \/ i < at /\ i \in 1 .. Len(p) /\ q[i] = p[i]
            \/ i = at /\ q[i] = e
            \/ i > at /\ i - 1 \in 1 .. Len(p) /\ i - 1 >= at /\ q[i] = p[i - 1]
      BY <2>5, <2>7, <2>8
  <2>10. \A i \in 1 .. Len(p) : p[i].when \in Nat /\ p[i].handle \in Nat
      BY <2>5 DEF EntryType
  <2>11. \A i, j \in 1 .. Len(p) : i <= j => p[i].when <= p[j].when
      BY <1>1, <2>5 DEF InOrder, p
  <2>12. \A i, j \in 1 .. Len(p) : p[i].handle = p[j].handle => i = j
      BY <1>1, <2>5 DEF OwnHandles, p
  <2>13. \A i \in 1 .. Len(p) : p[i].when >= l.now
      BY <1>1, <2>5 DEF NotPast, p
  <2>14. \A i \in 1 .. Len(p) : (i < at => p[i].when <= when) /\ (i >= at => p[i].when >= when)
      BY <2>5, <2>6, <2>7, <2>10
  <2>15. InOrder(t)
    <3>1. ASSUME NEW i \in 1 .. Len(p) + 1, NEW j \in 1 .. Len(p) + 1, i <= j
          PROVE  q[i].when <= q[j].when
      <4>1. CASE i = j
        <5>1. q[i].when \in Nat
            BY <2>9, <2>10, <2>n
        <5> QED
            BY <4>1, <5>1
      <4>2. CASE i < at /\ j < at
          BY <3>1, <4>2, <2>9, <2>11
      <4>3. CASE i < at /\ j = at
          BY <3>1, <4>3, <2>9, <2>14, <2>n
      <4>4. CASE i < at /\ j > at
          BY <2>7, <3>1, <4>4, <2>9, <2>11
      <4>5. CASE i = at /\ j > at
          BY <3>1, <4>5, <2>9, <2>14, <2>n
      <4>6. CASE i > at /\ j > at
        <5>1. /\ i - 1 \in 1 .. Len(p) /\ j - 1 \in 1 .. Len(p) /\ i - 1 <= j - 1
              /\ q[i] = p[i - 1] /\ q[j] = p[j - 1]
            BY <2>7, <3>1, <4>6, <2>9
        <5> QED
            BY <5>1, <2>11
      <4> QED
          BY <2>7, <3>1, <4>1, <4>2, <4>3, <4>4, <4>5, <4>6
    <3> QED
        BY <2>t, <2>8, <3>1 DEF InOrder
  <2>16. NotPast(t)
    <3>1. \A i \in 1 .. Len(p) + 1 : q[i].when >= l.now
        BY <2>9, <2>13, <2>n
    <3> QED
        BY <2>t, <2>8, <3>1 DEF NotPast
  <2>17. OwnHandles(t)
    <3>0. \A i \in 1 .. Len(p) : p[i].handle # e.handle
        BY <2>3, <2>5, <2>n
    <3>1. ASSUME NEW i \in 1 .. Len(p) + 1, NEW j \in 1 .. Len(p) + 1, q[i].handle = q[j].handle
          PROVE  i = j
      <4>1. CASE i = at \/ j = at
          BY <3>0, <3>1, <4>1, <2>9
      <4>2. CASE i < at /\ j < at
        <5>1. i \in 1 .. Len(p) /\ j \in 1 .. Len(p) /\ q[i] = p[i] /\ q[j] = p[j]
            BY <2>7, <4>2, <2>9
        <5> QED
            BY <3>1, <5>1, <2>12
      <4>3. CASE i > at /\ j > at
        <5>1. /\ i - 1 \in 1 .. Len(p) /\ j - 1 \in 1 .. Len(p)
              /\ q[i] = p[i - 1] /\ q[j] = p[j - 1]
            BY <2>7, <4>3, <2>9
        <5>2. i - 1 = j - 1
            BY <3>1, <5>1, <2>12
        <5> QED
            BY <5>2
      <4>4. CASE i < at /\ j > at
        <5>1. /\ i \in 1 .. Len(p) /\ j - 1 \in 1 .. Len(p) /\ j - 1 >= at
              /\ q[i] = p[i] /\ q[j] = p[j - 1]
            BY <2>7, <4>4, <2>9
        <5>2. i = j - 1
            BY <3>1, <5>1, <2>12
        <5> QED
            BY <2>7, <4>4, <5>1, <5>2
      <4>5. CASE i > at /\ j < at
        <5>1. /\ j \in 1 .. Len(p) /\ i - 1 \in 1 .. Len(p) /\ i - 1 >= at
              /\ q[j] = p[j] /\ q[i] = p[i - 1]
            BY <2>7, <4>5, <2>9
        <5>2. j = i - 1
            BY <3>1, <5>1, <2>12
        <5> QED
            BY <2>7, <4>5, <5>1, <5>2
      <4> QED
          BY <2>7, <4>1, <4>2, <4>3, <4>4, <4>5
    <3> QED
        BY <2>t, <2>8, <3>1 DEF OwnHandles
  <2>18. Entries(t) = Entries(l) \cup {e}
    <3>1. Entries(l) = {p[i] : i \in 1 .. Len(p)}
        BY <2>5 DEF Entries, p
    <3>2. Entries(t) = {q[i] : i \in 1 .. Len(p) + 1}
        BY <2>t, <2>8 DEF Entries
    <3>3. \A i \in 1 .. Len(p) + 1 : q[i] \in Entries(l) \cup {e}
        BY <2>9, <3>1
    <3>4. q[at] = e /\ at \in 1 .. Len(p) + 1
        BY <2>7, <2>9
    <3>5. ASSUME NEW i \in 1 .. Len(p) PROVE p[i] \in Entries(t)
      <4>1. CASE i < at
          BY <4>1, <2>5, <2>8, <3>2
      <4>2. CASE i >= at
        <5>1. i + 1 \in 1 .. Len(p) + 1 /\ i + 1 > at /\ (i + 1) - 1 = i
            BY <4>2, <2>5, <2>7
        <5>2. ~ (i + 1 < at) /\ i + 1 # at
            BY <2>7, <5>1
        <5>3. q[i + 1] = p[(i + 1) - 1]
            BY <5>1, <5>2, <2>8
        <5>4. q[i + 1] = p[i]
            BY <5>1, <5>3
        <5> QED
            BY <5>1, <5>4, <3>2
      <4>3. i < at \/ i >= at
          BY <2>7
      <4> QED
          BY <4>1, <4>2, <4>3
    <3> QED
        BY <3>1, <3>2, <3>3, <3>4, <3>5
  <2>19. \A d \in Entries(l) : d.handle # Unused(l)
      BY <2>3 DEF Entries, p
  <2>20. ListSound(t)
      BY <1>1, <2>t, <2>15, <2>16, <2>17 DEF ListSound
  <2>21. h # NullHandle
      BY <2>2, <2>3 DEF NullHandle
  <2> QED
      BY <2>t, <2>18, <2>19, <2>2, <2>3, <2>20, <2>21 DEF e, t, h
<1> QED
    BY <1>4, <1>5

\* An event that is pending can be cancelled by its handle, and nothing else is.
LEMMA Cancels ==
    ASSUME NEW l, ListSound(l), NEW e \in Entries(l)
    PROVE  LET t == CancelByHandle(l, e.src, e.handle)
           IN  /\ ListSound(t)
               /\ t.now = l.now /\ t.end = l.end /\ t.targets = l.targets /\ t.shots = l.shots
               /\ Entries(t) = Entries(l) \ {e}
<1> DEFINE t == CancelByHandle(l, e.src, e.handle)
           p == l.pending
<1>1. l \in ListType /\ InOrder(l) /\ NotPast(l) /\ OwnHandles(l) /\ l.fault = "none"
    BY DEF ListSound
<1>2. /\ p \in Seq(EntryType) /\ Len(p) \in Nat /\ DOMAIN p = 1 .. Len(p)
      /\ \A i \in DOMAIN p : p[i] \in EntryType
    BY <1>1, EntriesTyped
<1>3. PICK k \in 1 .. Len(p) : p[k] = e
    BY <1>2 DEF Entries
<1>4. Live(l, e.src, e.handle) = {k}
  <2>1. \A i \in DOMAIN p : p[i].handle = e.handle => i = k
      BY <1>1, <1>2, <1>3 DEF OwnHandles
  <2>2. p[k].when >= l.now
      BY <1>1, <1>2, <1>3 DEF NotPast
  <2> QED
      BY <1>2, <1>3, <2>1, <2>2 DEF Live
<1> DEFINE q == RemoveAt(p, k)
<1>5. t = [l EXCEPT !.pending = q, !.traffic = @ - Weight(e.src)]
  <2>1. (CHOOSE i \in Live(l, e.src, e.handle) : TRUE) = k
      BY <1>4
  <2> QED
      BY <1>4, <2>1 DEF CancelByHandle
<1>6. /\ q \in Seq(EntryType) /\ Len(q) = Len(p) - 1 /\ DOMAIN q = 1 .. Len(p) - 1
      /\ \A i \in 1 .. Len(p) - 1 : q[i] = IF i < k THEN p[i] ELSE p[i + 1]
  <2>1. /\ q \in Seq(EntryType) /\ Len(q) = Len(p) - 1
        /\ \A i \in 1 .. Len(p) - 1 : q[i] = IF i < k THEN p[i] ELSE p[i + 1]
      BY <1>2, RemoveAtPlaces
  <2>2. DOMAIN q = 1 .. Len(q)
      BY <2>1, LenProperties
  <2> QED
      BY <2>1, <2>2
<1>7. /\ t.pending = q /\ t.now = l.now /\ t.end = l.end /\ t.targets = l.targets
      /\ t.shots = l.shots /\ t.fault = l.fault /\ t \in ListType
  <2>1. Weight(e.src) \in Int /\ l.traffic \in Int
      BY <1>1 DEF Weight, ListType
  <2>2. l.traffic - Weight(e.src) \in Int
      BY <2>1
  <2> HIDE DEF q
  <2> QED
      BY <1>1, <1>5, <1>6, <2>2 DEF ListType
<1> HIDE DEF t, p, q
<1>8. \A i \in 1 .. Len(p) - 1 :
          \/ i < k /\ i \in 1 .. Len(p) /\ q[i] = p[i]
          \/ i >= k /\ i + 1 \in 1 .. Len(p) /\ q[i] = p[i + 1]
    BY <1>2, <1>3, <1>6
<1>9. \A i, j \in 1 .. Len(p) : i <= j => p[i].when <= p[j].when
    BY <1>1, <1>2 DEF InOrder, p
<1>10. \A i, j \in 1 .. Len(p) : p[i].handle = p[j].handle => i = j
    BY <1>1, <1>2 DEF OwnHandles, p
<1>11. \A i \in 1 .. Len(p) : p[i].when >= l.now
    BY <1>1, <1>2 DEF NotPast, p
<1>12. InOrder(t)
  <2>1. ASSUME NEW i \in 1 .. Len(p) - 1, NEW j \in 1 .. Len(p) - 1, i <= j
        PROVE  q[i].when <= q[j].when
    <3>1. CASE i < k /\ j < k
        BY <1>8, <1>9, <2>1, <3>1
    <3>2. CASE i < k /\ j >= k
      <4>1. /\ i \in 1 .. Len(p) /\ j + 1 \in 1 .. Len(p) /\ i <= j + 1
            /\ q[i] = p[i] /\ q[j] = p[j + 1]
          BY <1>3, <1>8, <2>1, <3>2
      <4> QED
          BY <1>9, <4>1
    <3>3. CASE i >= k /\ j >= k
      <4>1. /\ i + 1 \in 1 .. Len(p) /\ j + 1 \in 1 .. Len(p) /\ i + 1 <= j + 1
            /\ q[i] = p[i + 1] /\ q[j] = p[j + 1]
          BY <1>3, <1>8, <2>1, <3>3
      <4> QED
          BY <1>9, <4>1
    <3> QED
        BY <1>3, <2>1, <3>1, <3>2, <3>3
  <2> QED
      BY <1>6, <1>7, <2>1 DEF InOrder
<1>13. NotPast(t)
    BY <1>6, <1>7, <1>8, <1>11 DEF NotPast
<1>14. OwnHandles(t)
  <2>1. ASSUME NEW i \in 1 .. Len(p) - 1, NEW j \in 1 .. Len(p) - 1, q[i].handle = q[j].handle
        PROVE  i = j
    <3>1. CASE i < k /\ j < k
        BY <1>8, <1>10, <2>1, <3>1
    <3>2. CASE i >= k /\ j >= k
      <4>1. i + 1 = j + 1
          BY <1>8, <1>10, <2>1, <3>2
      <4> QED
          BY <4>1
    <3>3. CASE i < k /\ j >= k
      <4>1. i = j + 1
          BY <1>8, <1>10, <2>1, <3>3
      <4> QED
          BY <3>3, <4>1
    <3>4. CASE i >= k /\ j < k
      <4>1. i + 1 = j
          BY <1>8, <1>10, <2>1, <3>4
      <4> QED
          BY <3>4, <4>1
    <3>5. (i < k \/ i >= k) /\ (j < k \/ j >= k)
        BY <1>3
    <3> QED
        BY <3>1, <3>2, <3>3, <3>4, <3>5
  <2> QED
      BY <1>6, <1>7, <2>1 DEF OwnHandles
<1>15. Entries(t) = Entries(l) \ {e}
  <2>1. Entries(l) = {p[i] : i \in 1 .. Len(p)}
      BY <1>2 DEF Entries, p
  <2>2. Entries(t) = {q[i] : i \in 1 .. Len(p) - 1}
      BY <1>6, <1>7 DEF Entries
  <2>3. \A i \in 1 .. Len(p) : p[i] = e => i = k
      BY <1>3, <1>10
  <2>4. \A i \in 1 .. Len(p) - 1 : q[i] \in Entries(l) /\ q[i] # e
      BY <1>8, <2>1, <2>3
  <2>5. ASSUME NEW i \in 1 .. Len(p), i # k PROVE p[i] \in Entries(t)
    <3>1. CASE i < k
      <4>1. i \in 1 .. Len(p) - 1
          BY <1>2, <1>3, <3>1
      <4> QED
          BY <1>6, <2>2, <3>1, <4>1
    <3>2. CASE i > k
      <4>1. i - 1 \in 1 .. Len(p) - 1 /\ i - 1 >= k /\ (i - 1) + 1 = i
          BY <1>2, <1>3, <3>2
      <4>2. q[i - 1] = p[i]
          BY <1>6, <4>1
      <4> QED
          BY <2>2, <4>1, <4>2
    <3>3. i < k \/ i > k
        BY <2>5, <1>3
    <3> QED
        BY <3>1, <3>2, <3>3
  <2> QED
      BY <1>3, <2>1, <2>2, <2>4, <2>5
<1> QED
    BY <1>1, <1>7, <1>12, <1>13, <1>14, <1>15 DEF t, ListSound

\* The first event happens; time does not go back, and the rest is still to come.
LEMMA Pops ==
    ASSUME NEW l, ListSound(l), l.pending # <<>>
    PROVE  LET t == Pop(l)
               e == Head(l.pending)
           IN  /\ ListSound(t)
               /\ t.end = l.end /\ t.targets = l.targets /\ t.shots = l.shots
               /\ e \in Entries(l) /\ t.now = e.when /\ e.when >= l.now
               /\ Entries(t) = Entries(l) \ {e}
<1> DEFINE t == Pop(l)
           p == l.pending
           e == Head(p)
           q == Tail(p)
<1>1. l \in ListType /\ InOrder(l) /\ NotPast(l) /\ OwnHandles(l) /\ l.fault = "none"
    BY DEF ListSound
<1>2. /\ p \in Seq(EntryType) /\ Len(p) \in Nat /\ DOMAIN p = 1 .. Len(p)
      /\ \A i \in DOMAIN p : p[i] \in EntryType
    BY <1>1, EntriesTyped
<1>3. /\ q \in Seq(EntryType) /\ Len(q) = Len(p) - 1 /\ DOMAIN q = 1 .. Len(p) - 1
      /\ \A i \in 1 .. Len(p) - 1 : q[i] = p[i + 1]
      /\ Len(p) >= 1
  <2>1. /\ q \in Seq(EntryType) /\ Len(q) = Len(p) - 1
        /\ \A i \in 1 .. Len(q) : q[i] = p[i + 1]
      BY <1>2, HeadTailProperties
  <2>2. DOMAIN q = 1 .. Len(q) /\ Len(q) \in Nat
      BY <2>1, LenProperties
  <2> QED
      BY <1>2, <2>1, <2>2
<1>4. e = p[1] /\ 1 \in 1 .. Len(p)
    BY <1>2, <1>3
<1>5. e \in Entries(l) /\ e.when >= l.now /\ e \in EntryType
    BY <1>1, <1>2, <1>4 DEF Entries, NotPast
<1>6. Check(l, e.when >= l.now, "past") = l
    BY <1>1, <1>5, CheckHolds
<1>7. t = [l EXCEPT !.pending = q, !.now = e.when, !.traffic = @ - Weight(e.src)]
    BY <1>6 DEF Pop
<1>8. /\ t.pending = q /\ t.now = e.when /\ t.end = l.end /\ t.targets = l.targets
      /\ t.shots = l.shots /\ t.fault = l.fault /\ t \in ListType
  <2>1. Weight(e.src) \in Int /\ l.traffic \in Int
      BY <1>1 DEF Weight, ListType
  <2>2. l.traffic - Weight(e.src) \in Int
      BY <2>1
  <2>3. e.when \in Nat
      BY <1>5 DEF EntryType
  <2> HIDE DEF q, e
  <2> QED
      BY <1>1, <1>7, <1>3, <2>2, <2>3 DEF ListType
<1> HIDE DEF t, p, q, e
<1>9. \A i, j \in 1 .. Len(p) : i <= j => p[i].when <= p[j].when
    BY <1>1, <1>2 DEF InOrder, p
<1>10. \A i, j \in 1 .. Len(p) : p[i].handle = p[j].handle => i = j
    BY <1>1, <1>2 DEF OwnHandles, p
<1>11. \A i \in 1 .. Len(p) - 1 : i + 1 \in 1 .. Len(p) /\ q[i] = p[i + 1]
    BY <1>2, <1>3
<1>12. InOrder(t)
  <2>1. ASSUME NEW i \in 1 .. Len(p) - 1, NEW j \in 1 .. Len(p) - 1, i <= j
        PROVE  q[i].when <= q[j].when
      BY <1>9, <1>11, <2>1
  <2> QED
      BY <1>3, <1>8, <2>1 DEF InOrder
<1>13. NotPast(t)
  <2>1. \A i \in 1 .. Len(p) - 1 : q[i].when >= e.when
    <3>1. \A i \in 1 .. Len(p) : p[i].when \in Nat
        BY <1>2 DEF EntryType
    <3>2. \A i \in 1 .. Len(p) - 1 : p[1].when <= p[i + 1].when
        BY <1>4, <1>9, <1>11
    <3> QED
        BY <1>4, <1>11, <3>1, <3>2
  <2> QED
      BY <1>3, <1>8, <2>1 DEF NotPast
<1>14. OwnHandles(t)
  <2>1. ASSUME NEW i \in 1 .. Len(p) - 1, NEW j \in 1 .. Len(p) - 1, q[i].handle = q[j].handle
        PROVE  i = j
    <3>1. i + 1 = j + 1
        BY <1>10, <1>11, <2>1
    <3> QED
        BY <3>1
  <2> QED
      BY <1>3, <1>8, <2>1 DEF OwnHandles
<1>15. Entries(t) = Entries(l) \ {e}
  <2>1. Entries(l) = {p[i] : i \in 1 .. Len(p)}
      BY <1>2 DEF Entries, p
  <2>2. Entries(t) = {q[i] : i \in 1 .. Len(p) - 1}
      BY <1>3, <1>8 DEF Entries
  <2>3. \A i \in 1 .. Len(p) : p[i] = e => i = 1
      BY <1>4, <1>10
  <2>4. \A i \in 1 .. Len(p) - 1 : q[i] \in Entries(l) /\ q[i] # e
    <3>1. ASSUME NEW i \in 1 .. Len(p) - 1, q[i] = e PROVE FALSE
      <4>1. i + 1 = 1
          BY <1>11, <2>3, <3>1
      <4> QED
          BY <4>1
    <3> QED
        BY <1>11, <2>1, <3>1
  <2>5. ASSUME NEW i \in 1 .. Len(p), i # 1 PROVE p[i] \in Entries(t)
    <3>1. i - 1 \in 1 .. Len(p) - 1 /\ (i - 1) + 1 = i
        BY <1>2, <2>5
    <3> QED
        BY <1>11, <2>2, <3>1
  <2> QED
      BY <1>4, <2>1, <2>2, <2>4, <2>5
<1> QED
    BY <1>1, <1>5, <1>8, <1>12, <1>13, <1>14, <1>15 DEF t, e, p, ListSound

-----------------------------------------------------------------------------
(* The simulation with another event list, another sender f, another port. *)

Upd(s, l, f, u, n) == [l |-> l, flow |-> [s.flow EXCEPT ![f] = u], nic |-> n]

LEMMA Updated ==
    ASSUME NEW s \in SimType, NEW l \in ListType, NEW f \in Flows, NEW u \in FlowType, NEW n \in NicType
    PROVE  LET t == Upd(s, l, f, u, n)
           IN  /\ t \in SimType /\ t.l = l /\ t.nic = n /\ t.flow[f] = u
               /\ \A g \in Flows : g # f => t.flow[g] = s.flow[g]
    BY DEF Upd, SimType

LEMMA SimFields ==
    ASSUME NEW s \in SimType, NEW f \in Flows
    PROVE  s.l \in ListType /\ s.flow \in [Flows -> FlowType] /\ s.flow[f] \in FlowType /\ s.nic \in NicType
    BY DEF SimType

\* Only the retransmission timer differs.
TimerOnly(r, u) ==
    u = [r EXCEPT !.pending = u.pending, !.rto = u.rto, !.rtoOf = u.rtoOf, !.rtoHandle = u.rtoHandle]

\* A state is what its parts are, and one part after the other may be replaced.
LEMMA AsUpd ==
    ASSUME NEW s \in SimType, NEW f \in Flows
    PROVE  s = Upd(s, s.l, f, s.flow[f], s.nic)
    BY DEF Upd, SimType

LEMMA SetList ==
    ASSUME NEW s \in SimType, NEW f \in Flows, NEW l, NEW u, NEW n, NEW v
    PROVE  [Upd(s, l, f, u, n) EXCEPT !.l = v] = Upd(s, v, f, u, n)
    BY DEF Upd, SimType

LEMMA SetFlow ==
    ASSUME NEW s \in SimType, NEW f \in Flows, NEW l, NEW u, NEW n, NEW v
    PROVE  [Upd(s, l, f, u, n) EXCEPT !.flow[f] = v] = Upd(s, l, f, v, n)
    BY DEF Upd, SimType

LEMMA SetNic ==
    ASSUME NEW s \in SimType, NEW f \in Flows, NEW l, NEW u, NEW n, NEW v
    PROVE  [Upd(s, l, f, u, n) EXCEPT !.nic = v] = Upd(s, l, f, u, v)
    BY DEF Upd, SimType

LEMMA UpdParts ==
    ASSUME NEW s \in SimType, NEW f \in Flows, NEW l, NEW u, NEW n
    PROVE  /\ Upd(s, l, f, u, n).l = l /\ Upd(s, l, f, u, n).nic = n
           /\ Upd(s, l, f, u, n).flow[f] = u
           /\ \A g \in Flows : g # f => Upd(s, l, f, u, n).flow[g] = s.flow[g]
    BY DEF Upd, SimType

LEMMA UpdTwice ==
    ASSUME NEW s \in SimType, NEW f \in Flows, NEW l, NEW u, NEW n, NEW m, NEW v, NEW o
    PROVE  Upd(Upd(s, l, f, u, n), m, f, v, o) = Upd(s, m, f, v, o)
    BY DEF Upd, SimType

LEMMA AtIs ==
    ASSUME NEW s \in SimType, NEW f \in Flows, NEW src, NEW when
    PROVE  At(s, src, when) = Upd(s, SourceIsPending(s.l, src, when), f, s.flow[f], s.nic)
<1> DEFINE x == Upd(s, s.l, f, s.flow[f], s.nic)
<1>1. s = x
    BY AsUpd
<1>2. At(s, src, when) = [s EXCEPT !.l = SourceIsPending(s.l, src, when)]
    BY DEF At
<1> QED
    BY <1>1, <1>2, SetList

LEMMA ClearRTOIs ==
    ASSUME NEW s \in SimType, NEW f \in Flows
    PROVE  ClearRTO(s, f) = Upd(s, s.l, f, [s.flow[f] EXCEPT !.rtoHandle = NullHandle, !.pending = FALSE], s.nic)
<1>1. s = Upd(s, s.l, f, s.flow[f], s.nic)
    BY AsUpd
<1>2. ClearRTO(s, f) = [s EXCEPT !.flow[f] = [s.flow[f] EXCEPT !.rtoHandle = NullHandle, !.pending = FALSE]]
    BY DEF ClearRTO
<1> QED
    BY <1>1, <1>2, SetFlow

LEMMA ArmRTOIs ==
    ASSUME NEW s \in SimType, NEW f \in Flows, NEW time
    PROVE  LET when == IF time + MinRto < s.l.now THEN s.l.now ELSE time + MinRto
               handle == HandleFor(s.l, SrcOf(f), when)
           IN  ArmRTO(s, f, time) =
                 Upd(s, SourceIsPending(s.l, SrcOf(f), when), f,
                     [s.flow[f] EXCEPT !.rto = when, !.rtoOf = time, !.rtoHandle = handle,
                                       !.pending = handle # NullHandle], s.nic)
<1> DEFINE when == IF time + MinRto < s.l.now THEN s.l.now ELSE time + MinRto
           handle == HandleFor(s.l, SrcOf(f), when)
           a == At(s, SrcOf(f), when)
           l == SourceIsPending(s.l, SrcOf(f), when)
           r == s.flow[f]
<1>1. a = Upd(s, l, f, r, s.nic)
    BY AtIs
<1>2. a.flow[f] = r
    BY <1>1, UpdParts
<1>3. ArmRTO(s, f, time) = [a EXCEPT !.flow[f] = [a.flow[f] EXCEPT !.rto = when, !.rtoOf = time,
                                            !.rtoHandle = handle, !.pending = handle # NullHandle]]
    BY DEF ArmRTO
<1> HIDE DEF a, when, handle, l
<1>4. ArmRTO(s, f, time) = [Upd(s, l, f, r, s.nic) EXCEPT !.flow[f] = [r EXCEPT !.rto = when, !.rtoOf = time,
                                            !.rtoHandle = handle, !.pending = handle # NullHandle]]
    BY <1>1, <1>2, <1>3
<1>5. ArmRTO(s, f, time) = Upd(s, l, f, [r EXCEPT !.rto = when, !.rtoOf = time,
                                            !.rtoHandle = handle, !.pending = handle # NullHandle], s.nic)
    BY <1>4, SetFlow
<1> QED
    BY <1>5 DEF a, when, handle, l

LEMMA CancelRTOIs ==
    ASSUME NEW s \in SimType, NEW f \in Flows
    PROVE  CancelRTO(s, f) =
               IF s.flow[f].pending
               THEN Upd(s, CancelByHandle(s.l, SrcOf(f), s.flow[f].rtoHandle), f,
                        [s.flow[f] EXCEPT !.rtoHandle = NullHandle, !.pending = FALSE], s.nic)
               ELSE s
<1> DEFINE r == s.flow[f]
           l == CancelByHandle(s.l, SrcOf(f), r.rtoHandle)
           a == [s EXCEPT !.l = l]
           u == [r EXCEPT !.rtoHandle = NullHandle, !.pending = FALSE]
<1>1. s = Upd(s, s.l, f, r, s.nic)
    BY AsUpd
<1>2. CancelRTO(s, f) = IF r.pending THEN ClearRTO(a, f) ELSE s
    BY DEF CancelRTO
<1>3. a = Upd(s, l, f, r, s.nic)
    BY <1>1, SetList
<1>4. ClearRTO(a, f) = [a EXCEPT !.flow[f] = [a.flow[f] EXCEPT !.rtoHandle = NullHandle, !.pending = FALSE]]
    BY DEF ClearRTO
<1> HIDE DEF a, l
<1>5. a.flow[f] = r
    BY <1>3, UpdParts
<1>6. ClearRTO(a, f) = Upd(s, l, f, u, s.nic)
    BY <1>3, <1>4, <1>5, SetFlow
<1> QED
    BY <1>2, <1>6 DEF l

-----------------------------------------------------------------------------
(* What a handler does to the events of others.                            *)

\* An event that the handler of f, whose record is now u, may enter.
IsNew(src, u, f) ==
    /\ u.next # 0 /\ src \in EventSources
    /\ \/ src = SrcOf(f) \/ src = Port
       \/ src.kind = "data" /\ src.f = f /\ (~src.probe => src.psn < u.next)

\* A part of a handler of flow f.  It may stop the retransmission timer of f and
\* set it anew; all other events stay.
Moves(s, t, f) ==
    /\ t \in SimType /\ ListSound(t.l)
    /\ t.l.now = s.l.now /\ t.l.end = s.l.end
    /\ t.l.targets = s.l.targets /\ t.l.shots = s.l.shots
    /\ \A g \in Flows : g # f => t.flow[g] = s.flow[g]
    /\ \A e \in Entries(s.l) : Apart(e, s, f) => e \in Entries(t.l) /\ Apart(e, t, f)
    /\ \A e \in Entries(t.l) : e \in Entries(s.l) \/ IsNew(e.src, t.flow[f], f)
    /\ t.flow[f].next >= s.flow[f].next
    /\ t.flow[f].started = s.flow[f].started /\ t.flow[f].done = s.flow[f].done
    /\ t.flow[f].probeWhen = s.flow[f].probeWhen /\ t.flow[f].probeHandle = s.flow[f].probeHandle
    /\ t.flow[f].loss = s.flow[f].loss

LEMMA NextIsNatural ==
    ASSUME NEW s \in SimType, NEW f \in Flows
    PROVE  s.flow[f].next \in Nat /\ s.flow[f].backlog \in Nat
    BY SimFields DEF FlowType

LEMMA MovesNot ==
    ASSUME NEW s \in SimType, ListSound(s.l), NEW f \in Flows
    PROVE  Moves(s, s, f)
    BY NextIsNatural DEF Moves

LEMMA MovesOn ==
    ASSUME NEW s \in SimType, NEW f \in Flows, NEW t, NEW v, Moves(s, t, f), Moves(t, v, f)
    PROVE  Moves(s, v, f)
<1>1. t \in SimType /\ v \in SimType
    BY DEF Moves
<1>2. s.flow[f].next \in Nat /\ t.flow[f].next \in Nat /\ v.flow[f].next \in Nat
    BY <1>1, NextIsNatural
<1>3. t.flow[f].next >= s.flow[f].next /\ v.flow[f].next >= t.flow[f].next
    BY DEF Moves
<1>4. v.flow[f].next >= s.flow[f].next
    BY <1>2, <1>3
<1>5. \A e \in Entries(v.l) : e \in Entries(s.l) \/ IsNew(e.src, v.flow[f], f)
  <2>1. SUFFICES ASSUME NEW e \in Entries(v.l), e \in Entries(t.l), e \notin Entries(s.l)
                 PROVE  IsNew(e.src, v.flow[f], f)
      BY DEF Moves
  <2>2. IsNew(e.src, t.flow[f], f)
      BY <2>1 DEF Moves
  <2>3. v.flow[f].next # 0
      BY <1>2, <1>3, <2>2 DEF IsNew
  <2>4. e.src \in EventSources /\ (e.src.kind = "data" /\ ~e.src.probe => e.src.psn \in Nat)
    <3>1. e.src \in EventSources
        BY <2>2 DEF IsNew
    <3>2. e.src.kind = "data" => e.src \in DataPackets
        BY <3>1 DEF EventSources, SrcOf, Port, Logger, Acks
    <3> QED
        BY <3>1, <3>2 DEF DataPackets
  <2>5. e.src.kind = "data" /\ ~e.src.probe /\ e.src.psn < t.flow[f].next => e.src.psn < v.flow[f].next
      BY <1>2, <1>3, <2>4
  <2> QED
      BY <2>2, <2>3, <2>4, <2>5 DEF IsNew
<1>6. \A e \in Entries(s.l) : Apart(e, s, f) => e \in Entries(v.l) /\ Apart(e, v, f)
    BY DEF Moves
<1> QED
    BY <1>4, <1>5, <1>6 DEF Moves

\* Stopping the timer takes away its event and no other.
LEMMA CancelRTOStops ==
    ASSUME NEW s \in SimType, ListSound(s.l), NEW f \in Flows, RtoLive(s, f)
    PROVE  LET t == CancelRTO(s, f)
           IN  /\ Moves(s, t, f) /\ t.nic = s.nic
               /\ TimerOnly(s.flow[f], t.flow[f]) /\ ~t.flow[f].pending
<1> DEFINE r == s.flow[f]
           t == CancelRTO(s, f)
           e == RtoEntry(r, f)
           u == [r EXCEPT !.rtoHandle = NullHandle, !.pending = FALSE]
           l == CancelByHandle(s.l, SrcOf(f), r.rtoHandle)
<1>1. s.l \in ListType /\ r \in FlowType /\ s.nic \in NicType
    BY SimFields
<1>2. CASE ~ r.pending
  <2>1. t = s
      BY <1>2, CancelRTOIs
  <2>2. TimerOnly(r, r)
      BY <1>1 DEF TimerOnly, FlowType
  <2> QED
      BY <1>2, <2>1, <2>2, MovesNot
<1>3. CASE r.pending
  <2>1. t = Upd(s, l, f, u, s.nic)
      BY <1>3, CancelRTOIs
  <2>2. e \in Entries(s.l) /\ e.src = SrcOf(f) /\ e.handle = r.rtoHandle
      BY <1>3 DEF RtoLive, RtoEntry
  <2>3. /\ ListSound(l) /\ l.now = s.l.now /\ l.end = s.l.end /\ l.targets = s.l.targets
        /\ l.shots = s.l.shots /\ Entries(l) = Entries(s.l) \ {e}
      BY <2>2, Cancels
  <2>4. u \in FlowType /\ TimerOnly(r, u) /\ ~ u.pending
      BY <1>1 DEF FlowType, TimerOnly, NullHandle
  <2>5. l \in ListType
      BY <2>3 DEF ListSound
  <2> HIDE DEF u, l, t, e
  <2>6. /\ t \in SimType /\ t.l = l /\ t.nic = s.nic /\ t.flow[f] = u
        /\ \A g \in Flows : g # f => t.flow[g] = s.flow[g]
      BY <1>1, <2>1, <2>4, <2>5, Updated
  <2>7. \A d \in Entries(s.l) : Apart(d, s, f) => d \in Entries(t.l) /\ Apart(d, t, f)
      BY <1>3, <2>2, <2>3, <2>4, <2>6 DEF Apart
  <2>8. r.next \in Nat
      BY NextIsNatural
  <2>9. /\ u.next = r.next /\ u.started = r.started /\ u.done = r.done
        /\ u.probeWhen = r.probeWhen /\ u.probeHandle = r.probeHandle /\ u.loss = r.loss
      BY <1>1 DEF u, FlowType
  <2>10. Moves(s, t, f)
      BY <2>3, <2>6, <2>7, <2>8, <2>9 DEF Moves
  <2> QED
      BY <2>10, <2>4, <2>6 DEF t
<1> QED
    BY <1>2, <1>3

\* Setting a timer that is not running, for a packet sent by now.  The event
\* list refuses only what lies past the end.
LEMMA ArmRTOSets ==
    ASSUME NEW s \in SimType, ListSound(s.l), NEW f \in Flows, ~s.flow[f].pending,
           s.flow[f].next # 0, NEW time \in Nat, time <= s.l.now
    PROVE  LET t == ArmRTO(s, f, time)
           IN  /\ Moves(s, t, f) /\ t.nic = s.nic
               /\ TimerOnly(s.flow[f], t.flow[f]) /\ RtoLive(t, f) /\ NotEarly(t.flow[f])
               /\ t.flow[f].pending \/ NearEnd(t.l)
               /\ t.flow[f].rtoOf = time
<1> DEFINE r == s.flow[f]
           t == ArmRTO(s, f, time)
           when == IF time + MinRto < s.l.now THEN s.l.now ELSE time + MinRto
           h == HandleFor(s.l, SrcOf(f), when)
           l == SourceIsPending(s.l, SrcOf(f), when)
           u == [r EXCEPT !.rto = when, !.rtoOf = time, !.rtoHandle = h, !.pending = h # NullHandle]
           e == [handle |-> h, src |-> SrcOf(f), when |-> when]
<1>1. s.l \in ListType /\ r \in FlowType /\ s.nic \in NicType
    BY SimFields
<1>2. MinRto \in Nat /\ s.l.now \in Nat /\ s.l.end \in Nat
    BY <1>1, RecoveryAssumption DEF ListType
<1>3. when \in Nat /\ when >= s.l.now /\ when >= time + MinRto /\ when <= s.l.now + MinRto
    BY <1>2
<1>4. t = Upd(s, l, f, u, s.nic)
    BY ArmRTOIs
<1>5. SrcOf(f) \in EventSources /\ IsTraffic(SrcOf(f))
    BY DEF EventSources, IsTraffic, SrcOf
<1> HIDE DEF when
<1>6. /\ ListSound(l) /\ l.now = s.l.now /\ l.end = s.l.end /\ l.targets = s.l.targets
      /\ l.shots = s.l.shots
      /\ h # NullHandle => /\ Entries(l) = Entries(s.l) \cup {e}
                           /\ h \in Nat \ {0} /\ \A d \in Entries(s.l) : d.handle # h
      /\ h = NullHandle => l = s.l /\ s.l.end # 0 /\ when >= s.l.end
    BY <1>3, <1>5, Schedules
<1>7. l \in ListType
    BY <1>6 DEF ListSound
<1>8. h \in Nat
    BY <1>6 DEF NullHandle
<1> HIDE DEF h, l
<1>9. u \in FlowType /\ TimerOnly(r, u)
    BY <1>1, <1>3, <1>8 DEF FlowType, TimerOnly
<1>10. /\ u.rto = when /\ u.rtoOf = time /\ u.rtoHandle = h /\ u.pending = (h # NullHandle)
       /\ u.next = r.next /\ u.started = r.started /\ u.done = r.done
       /\ u.probeWhen = r.probeWhen /\ u.probeHandle = r.probeHandle /\ u.loss = r.loss
    BY <1>1 DEF FlowType
<1> HIDE DEF u, t
<1>11. /\ t \in SimType /\ t.l = l /\ t.nic = s.nic /\ t.flow[f] = u
       /\ \A g \in Flows : g # f => t.flow[g] = s.flow[g]
    BY <1>1, <1>4, <1>7, <1>9, Updated
<1>12. \A d \in Entries(s.l) : d \in Entries(t.l) /\ Apart(d, t, f)
    BY <1>6, <1>10, <1>11 DEF Apart
<1>13. \A d \in Entries(t.l) : d \in Entries(s.l) \/ IsNew(d.src, t.flow[f], f)
    BY <1>5, <1>6, <1>10, <1>11 DEF IsNew
<1>14. Moves(s, t, f)
    BY <1>6, <1>10, <1>11, <1>12, <1>13, NextIsNatural DEF Moves
<1>15. RtoLive(t, f)
    BY <1>6, <1>10, <1>11 DEF RtoLive, RtoEntry
<1>16. NotEarly(u)
    BY <1>3, <1>10 DEF NotEarly
<1>17. u.pending \/ NearEnd(t.l)
  <2>1. CASE h = NullHandle
    <3>1. s.l.end # 0 /\ when >= s.l.end
        BY <1>6, <2>1
    <3>2. s.l.now + MinRto >= s.l.end
        BY <1>2, <1>3, <3>1
    <3>3. t.l.end = s.l.end /\ t.l.now = s.l.now
        BY <1>6, <1>11
    <3> QED
        BY <3>1, <3>2, <3>3 DEF NearEnd
  <2>2. CASE h # NullHandle
      BY <1>10, <2>2
  <2> QED
      BY <2>1, <2>2
<1> QED
    BY <1>9, <1>10, <1>11, <1>14, <1>15, <1>16, <1>17 DEF t

-----------------------------------------------------------------------------
(* The sizes of the flows.                                                 *)

LEMMA SizesAre ==
    ASSUME Flows # {}
    PROVE  /\ MaxSize \in Nat /\ \A f \in Flows : Size[f] \in Nat /\ Size[f] <= MaxSize
           /\ Seqs \subseteq Nat /\ \A q \in Nat : q \in Seqs <=> q < MaxSize
<1> DEFINE sizes(F) == {Size[f] : f \in F}
           T == {F \in SUBSET Flows : F # {} => \E n \in sizes(F) : \A f \in F : Size[f] <= n}
<1>1. IsFiniteSet(Flows) /\ \A f \in Flows : Size[f] \in Nat
    BY RecoveryAssumption
<1>2. {} \in T
    OBVIOUS
<1>3. ASSUME NEW F \in SUBSET Flows, NEW x \in Flows \ F, F \in T
      PROVE  F \cup {x} \in T
  <2>1. CASE F = {}
      BY <1>1, <2>1
  <2>2. CASE F # {}
    <3>1. PICK g \in F : \A f \in F : Size[f] <= Size[g]
        BY <1>3, <2>2
    <3>2. Size[x] \in Nat /\ Size[g] \in Nat /\ \A f \in F : Size[f] \in Nat
        BY <1>1
    <3>3. CASE Size[x] <= Size[g]
        BY <3>1, <3>3
    <3>4. CASE Size[g] <= Size[x]
      <4>1. \A f \in F \cup {x} : Size[f] <= Size[x]
          BY <3>1, <3>2, <3>4
      <4> QED
          BY <4>1
    <3>5. Size[x] <= Size[g] \/ Size[g] <= Size[x]
        BY <3>2
    <3> QED
        BY <3>3, <3>4, <3>5
  <2> QED
      BY <2>1, <2>2
<1> HIDE DEF T
<1>4. Flows \in T
    BY <1>1, <1>2, <1>3, FiniteSetsByInduction
<1>5. \E n \in sizes(Flows) : \A f \in Flows : Size[f] <= n
    BY <1>4 DEF T
<1>6. MaxSize \in sizes(Flows) /\ \A f \in Flows : Size[f] <= MaxSize
    BY <1>5 DEF MaxSize
<1>7. MaxSize \in Nat
    BY <1>1, <1>6
<1>8. \A q \in Nat : q \in Seqs <=> q < MaxSize
    BY <1>7 DEF Seqs
<1>9. Seqs \subseteq Nat
    BY <1>7 DEF Seqs
<1> QED
    BY <1>1, <1>6, <1>7, <1>8, <1>9

-----------------------------------------------------------------------------
(* The retransmission timer.                                               *)

LEMMA TimerFields ==
    ASSUME NEW r \in FlowType, NEW u, TimerOnly(r, u)
    PROVE  /\ u.started = r.started /\ u.backlog = r.backlog /\ u.next = r.next
           /\ u.done = r.done /\ u.blocked = r.blocked /\ u.sent = r.sent /\ u.timed = r.timed
           /\ u.resent = r.resent /\ u.rtx = r.rtx /\ u.loss = r.loss
           /\ u.probeWhen = r.probeWhen /\ u.probeHandle = r.probeHandle
           /\ u.highestRtx = r.highestRtx
<1> DEFINE x == [r EXCEPT !.pending = u.pending, !.rto = u.rto, !.rtoOf = u.rtoOf, !.rtoHandle = u.rtoHandle]
<1>1. u = x
    BY DEF TimerOnly
<1>2. /\ x.started = r.started /\ x.backlog = r.backlog /\ x.next = r.next
      /\ x.done = r.done /\ x.blocked = r.blocked /\ x.sent = r.sent /\ x.timed = r.timed
      /\ x.resent = r.resent /\ x.rtx = r.rtx /\ x.loss = r.loss
      /\ x.probeWhen = r.probeWhen /\ x.probeHandle = r.probeHandle
      /\ x.highestRtx = r.highestRtx
    BY DEF FlowType
<1> QED
    BY <1>1, <1>2

\* What depends on the other fields stays.
LEMMA TimerKeeps ==
    ASSUME NEW r \in FlowType, NEW u, TimerOnly(r, u), NEW f, NEW now
    PROVE  /\ Out(u) = Out(r) /\ Gone(u) = Gone(r) /\ Wants(u) = Wants(r)
           /\ Complete(u) = Complete(r) /\ Guarded(u) = Guarded(r)
           /\ Books(u, f, now) = Books(r, f, now)
<1>1. Out(u) = Out(r) /\ Wants(u) = Wants(r) /\ Guarded(u) = Guarded(r)
    BY TimerFields DEF Out, Wants, Guarded
<1>2. Gone(u) = Gone(r) /\ Complete(u) = Complete(r)
    BY <1>1, TimerFields DEF Gone, Complete
<1>3. Books(u, f, now) = Books(r, f, now)
    BY <1>1, <1>2, TimerFields DEF Books
<1> QED
    BY <1>1, <1>2, <1>3

LEMMA TimerTwice ==
    ASSUME NEW r \in FlowType, NEW u \in FlowType, NEW v \in FlowType, TimerOnly(r, u), TimerOnly(u, v)
    PROVE  TimerOnly(r, v)
    BY DEF TimerOnly, FlowType

LEMMA StartRTOSets ==
    ASSUME NEW s \in SimType, ListSound(s.l), NEW f \in Flows, RtoLive(s, f), NotEarly(s.flow[f]),
           s.flow[f].next # 0, NEW time \in Nat, time <= s.l.now
    PROVE  LET t == StartRTO(s, f, time)
           IN  /\ Moves(s, t, f) /\ t.nic = s.nic
               /\ TimerOnly(s.flow[f], t.flow[f]) /\ RtoLive(t, f) /\ NotEarly(t.flow[f])
               /\ t.flow[f].pending \/ NearEnd(t.l)
               /\ \/ t.flow[f].rtoOf = time
                  \/ s.flow[f].pending /\ t.flow[f].rtoOf = s.flow[f].rtoOf
<1> DEFINE r == s.flow[f]
           t == StartRTO(s, f, time)
           c == CancelRTO(s, f)
<1>1. CASE ~ r.pending
  <2>1. t = ArmRTO(s, f, time)
      BY <1>1 DEF StartRTO
  <2> QED
      BY <1>1, <2>1, ArmRTOSets
<1>2. CASE r.pending /\ time + MinRto < r.rto
  <2>1. t = ArmRTO(c, f, time)
      BY <1>2 DEF StartRTO
  <2>2. Moves(s, c, f) /\ c.nic = s.nic /\ TimerOnly(r, c.flow[f]) /\ ~ c.flow[f].pending
      BY CancelRTOStops
  <2>3. r \in FlowType
      BY SimFields
  <2>4. c \in SimType /\ ListSound(c.l) /\ c.flow[f].next # 0 /\ c.l.now = s.l.now
      BY <2>2, <2>3, TimerFields DEF Moves
  <2> HIDE DEF c, t
  <2>5. /\ Moves(c, t, f) /\ t.nic = c.nic
        /\ TimerOnly(c.flow[f], t.flow[f]) /\ RtoLive(t, f) /\ NotEarly(t.flow[f])
        /\ t.flow[f].pending \/ NearEnd(t.l)
        /\ t.flow[f].rtoOf = time
      BY <2>1, <2>2, <2>4, ArmRTOSets
  <2>6. Moves(s, t, f)
      BY <2>2, <2>5, MovesOn
  <2>7. c.flow[f] \in FlowType /\ t.flow[f] \in FlowType
      BY <2>4, <2>5, SimFields DEF Moves
  <2>8. TimerOnly(r, t.flow[f])
      BY <2>2, <2>3, <2>5, <2>7, TimerTwice
  <2> QED
      BY <2>2, <2>5, <2>6, <2>8 DEF t
<1>3. CASE r.pending /\ ~ (time + MinRto < r.rto)
  <2>1. t = s
      BY <1>3 DEF StartRTO
  <2>2. r \in FlowType
      BY SimFields
  <2>3. TimerOnly(r, r)
      BY <2>2 DEF TimerOnly, FlowType
  <2> QED
      BY <1>3, <2>1, <2>3, MovesNot
<1> QED
    BY <1>1, <1>2, <1>3

\* The oldest of the packets that have a send time.
LEMMA OldestIs ==
    ASSUME NEW r \in FlowType, r.timed # {}, r.timed \subseteq Out(r)
    PROVE  /\ Oldest(r) \in r.timed /\ r.sent[Oldest(r)] \in Nat
           /\ \A p \in r.timed : r.sent[Oldest(r)] <= r.sent[p]
<1> DEFINE times == {r.sent[q] : q \in r.timed}
<1>1. \A q \in r.timed : r.sent[q] \in Nat
    BY DEF Out, FlowType
<1>2. times \in SUBSET Nat /\ times # {}
    BY <1>1
<1>3. PICK m \in times : \A k \in times : m <= k
    BY <1>2, LeastNatural
<1>4. \E q \in r.timed : \A p \in r.timed : r.sent[q] <= r.sent[p]
    BY <1>3
<1>5. Oldest(r) \in r.timed /\ \A p \in r.timed : r.sent[Oldest(r)] <= r.sent[p]
    BY <1>4 DEF Oldest
<1> QED
    BY <1>1, <1>5

\* The timer is set for the oldest packet left, whatever it was set for.
LEMMA Recalculates ==
    ASSUME NEW s \in SimType, ListSound(s.l), NEW f \in Flows, RtoLive(s, f),
           Books(s.flow[f], f, s.l.now)
    PROVE  LET t == RecalculateRTO(s, f)
           IN  /\ Moves(s, t, f) /\ t.nic = s.nic
               /\ TimerOnly(s.flow[f], t.flow[f]) /\ RtoLive(t, f) /\ NotEarly(t.flow[f])
               /\ Recorded(t.flow[f])
               /\ t.flow[f].timed = {} \/ t.flow[f].pending \/ NearEnd(t.l)
<1> DEFINE r == s.flow[f]
           c == CancelRTO(s, f)
           u == c.flow[f]
           t == RecalculateRTO(s, f)
           old == r.sent[Oldest(r)]
<1>1. r \in FlowType
    BY SimFields
<1>2. Moves(s, c, f) /\ c.nic = s.nic /\ TimerOnly(r, u) /\ ~ u.pending
    BY CancelRTOStops
<1>3. c \in SimType /\ ListSound(c.l) /\ c.l.now = s.l.now
    BY <1>2 DEF Moves
<1>4. u.timed = r.timed /\ u.sent = r.sent /\ u.next = r.next
    BY <1>1, <1>2, TimerFields
<1> HIDE DEF c
<1>5. CASE r.timed = {}
  <2>1. t = c
      BY <1>4, <1>5 DEF RecalculateRTO, c
  <2>2. RtoLive(c, f) /\ NotEarly(u) /\ Recorded(u)
      BY <1>2 DEF RtoLive, NotEarly, Recorded
  <2> QED
      BY <1>2, <1>4, <1>5, <2>1, <2>2
<1>6. CASE r.timed # {}
  <2>1. Oldest(u) = Oldest(r)
      BY <1>4 DEF Oldest
  <2>2. t = StartRTO(c, f, old)
      BY <1>4, <1>6, <2>1 DEF RecalculateRTO, c
  <2>3. r.timed \subseteq Out(r)
      BY DEF Books
  <2>4. Oldest(r) \in r.timed /\ old \in Nat
      BY <1>1, <1>6, <2>3, OldestIs
  <2>5. Oldest(r) \in Seqs /\ Oldest(r) < r.next /\ old <= s.l.now
      BY <2>3, <2>4 DEF Books, Out
  <2>6. r.next # 0
    <3>1. Oldest(r) \in Nat /\ r.next \in Nat
        BY <2>5, NextIsNatural, SizesAre
    <3> QED
        BY <2>5, <3>1
  <2>7. RtoLive(c, f) /\ NotEarly(u)
      BY <1>2 DEF RtoLive, NotEarly
  <2> HIDE DEF old, t
  <2>8. /\ Moves(c, t, f) /\ t.nic = c.nic
        /\ TimerOnly(u, t.flow[f]) /\ RtoLive(t, f) /\ NotEarly(t.flow[f])
        /\ t.flow[f].pending \/ NearEnd(t.l)
        /\ t.flow[f].rtoOf = old
    <3>1. old \in Nat /\ old <= c.l.now /\ c.flow[f].next # 0
        BY <1>3, <1>4, <2>4, <2>5, <2>6
    <3> QED
        BY <1>2, <1>3, <2>2, <2>7, <3>1, StartRTOSets
  <2>9. Moves(s, t, f)
      BY <1>2, <2>8, MovesOn
  <2>10. u \in FlowType /\ t.flow[f] \in FlowType
      BY <1>3, <2>8, SimFields DEF Moves
  <2>11. TimerOnly(r, t.flow[f])
      BY <1>1, <1>2, <2>8, <2>10, TimerTwice
  <2>12. t.flow[f].timed = r.timed /\ t.flow[f].sent = r.sent
      BY <1>1, <2>11, TimerFields
  <2>13. Recorded(t.flow[f])
      BY <2>4, <2>8, <2>12 DEF Recorded, old
  <2> QED
      BY <1>2, <2>8, <2>9, <2>11, <2>13 DEF t
<1> QED
    BY <1>5, <1>6

-----------------------------------------------------------------------------
(* What a part of a handler of flow f keeps true of it.                    *)

\* The sender is in order, but its timer may stand for a packet already settled.
Fit(s, f) ==
    /\ s \in SimType /\ ListSound(s.l)
    /\ Books(s.flow[f], f, s.l.now) /\ RtoLive(s, f) /\ NotEarly(s.flow[f])

TimedSafe(s, f) ==
    s.flow[f].timed # {} => s.flow[f].pending \/ NearEnd(s.l) \/ Guarded(s.flow[f])

Steps(s, t, f) ==
    /\ Moves(s, t, f) /\ Fit(t, f)
    /\ Gone(t.flow[f]) \subseteq Gone(s.flow[f])
    /\ Complete(s.flow[f]) => Complete(t.flow[f])
    /\ Recorded(s.flow[f]) => Recorded(t.flow[f])
    /\ TimedSafe(s, f) => TimedSafe(t, f)

LEMMA StepsNot ==
    ASSUME NEW s, NEW f \in Flows, Fit(s, f)
    PROVE  Steps(s, s, f)
    BY MovesNot DEF Steps, Fit

LEMMA StepsOn ==
    ASSUME NEW s, NEW f \in Flows, Fit(s, f), NEW t, NEW v, Steps(s, t, f), Steps(t, v, f)
    PROVE  Steps(s, v, f)
    BY MovesOn DEF Steps, Fit

SameTimer(r, u) ==
    u.pending = r.pending /\ u.rto = r.rto /\ u.rtoOf = r.rtoOf /\ u.rtoHandle = r.rtoHandle

SameStage(r, u) ==
    /\ u.started = r.started /\ u.done = r.done /\ u.loss = r.loss
    /\ u.probeWhen = r.probeWhen /\ u.probeHandle = r.probeHandle

\* What is still to be sent.
SameWork(r, u) ==
    u.backlog = r.backlog /\ u.next = r.next /\ u.rtx = r.rtx /\ u.blocked = r.blocked

\* A change of the sender that enters and cancels nothing.
LEMMA MovesLocally ==
    ASSUME NEW s \in SimType, ListSound(s.l), NEW f \in Flows, NEW u \in FlowType, NEW n \in NicType,
           SameTimer(s.flow[f], u), SameStage(s.flow[f], u), u.next >= s.flow[f].next
    PROVE  LET t == Upd(s, s.l, f, u, n)
           IN  /\ Moves(s, t, f) /\ t.l = s.l /\ t.flow[f] = u /\ t.nic = n
               /\ RtoLive(s, f) => RtoLive(t, f)
               /\ NotEarly(s.flow[f]) => NotEarly(u)
<1> DEFINE t == Upd(s, s.l, f, u, n)
<1>1. s.l \in ListType
    BY SimFields
<1>2. /\ t \in SimType /\ t.l = s.l /\ t.nic = n /\ t.flow[f] = u
      /\ \A g \in Flows : g # f => t.flow[g] = s.flow[g]
    BY <1>1, Updated
<1> HIDE DEF t
<1>3. \A e \in Entries(s.l) : Apart(e, s, f) => e \in Entries(t.l) /\ Apart(e, t, f)
    BY <1>2 DEF Apart, SameTimer
<1>4. Moves(s, t, f)
    BY <1>2, <1>3 DEF Moves, SameStage
<1>5. RtoLive(s, f) => RtoLive(t, f)
    BY <1>2 DEF RtoLive, RtoEntry, SameTimer
<1>6. NotEarly(s.flow[f]) => NotEarly(u)
    BY DEF NotEarly, SameTimer
<1> QED
    BY <1>2, <1>4, <1>5, <1>6 DEF t

\* An event of the handler is entered.
LEMMA MovesAt ==
    ASSUME NEW s \in SimType, ListSound(s.l), NEW f \in Flows,
           NEW src, IsNew(src, s.flow[f], f), NEW when \in Nat, when >= s.l.now
    PROVE  LET t == At(s, src, when)
           IN  /\ Moves(s, t, f) /\ t.flow = s.flow /\ t.nic = s.nic
               /\ Entries(s.l) \subseteq Entries(t.l)
               /\ RtoLive(s, f) => RtoLive(t, f)
<1> DEFINE t == At(s, src, when)
           l == SourceIsPending(s.l, src, when)
<1>1. s.l \in ListType /\ s.flow[f] \in FlowType /\ s.nic \in NicType
    BY SimFields
<1>2. src \in EventSources
    BY DEF IsNew
<1>3. /\ ListSound(l) /\ l.now = s.l.now /\ l.end = s.l.end
      /\ l.targets = s.l.targets /\ l.shots = s.l.shots
      /\ Entries(s.l) \subseteq Entries(l)
      /\ \A e \in Entries(l) : e \in Entries(s.l) \/ e.src = src
  <2> DEFINE h == HandleFor(s.l, src, when)
  <2>1. /\ ListSound(l) /\ l.now = s.l.now /\ l.end = s.l.end
        /\ l.targets = s.l.targets /\ l.shots = s.l.shots
        /\ h # NullHandle =>
              Entries(l) = Entries(s.l) \cup {[handle |-> h, src |-> src, when |-> when]}
        /\ h = NullHandle => l = s.l
      BY <1>2, Schedules
  <2> HIDE DEF h, l
  <2> QED
      BY <2>1
<1>4. l \in ListType
    BY <1>3 DEF ListSound
<1>5. t = Upd(s, l, f, s.flow[f], s.nic)
    BY AtIs
<1>6. t.flow = s.flow
    BY DEF At, SimType
<1> HIDE DEF t, l
<1>7. t \in SimType /\ t.l = l /\ t.nic = s.nic
    BY <1>1, <1>4, <1>5, Updated
<1>8. \A e \in Entries(s.l) : Apart(e, s, f) => e \in Entries(t.l) /\ Apart(e, t, f)
    BY <1>3, <1>6, <1>7 DEF Apart
<1>9. \A e \in Entries(t.l) : e \in Entries(s.l) \/ IsNew(e.src, t.flow[f], f)
    BY <1>3, <1>6, <1>7
<1>10. Moves(s, t, f)
    BY <1>3, <1>6, <1>7, <1>8, <1>9, NextIsNatural DEF Moves
<1>11. RtoLive(s, f) => RtoLive(t, f)
    BY <1>3, <1>6, <1>7 DEF RtoLive, RtoEntry
<1> QED
    BY <1>3, <1>6, <1>7, <1>10, <1>11 DEF t

LEMMA RecalculatesStep ==
    ASSUME NEW s, NEW f \in Flows, Fit(s, f)
    PROVE  LET t == RecalculateRTO(s, f)
           IN  /\ Steps(s, t, f) /\ t.nic = s.nic /\ TimerOnly(s.flow[f], t.flow[f])
               /\ Recorded(t.flow[f]) /\ TimedSafe(t, f)
<1> DEFINE t == RecalculateRTO(s, f)
<1>1. s \in SimType /\ ListSound(s.l) /\ Books(s.flow[f], f, s.l.now) /\ RtoLive(s, f)
    BY DEF Fit
<1>2. s.flow[f] \in FlowType
    BY <1>1, SimFields
<1>3. /\ Moves(s, t, f) /\ t.nic = s.nic
      /\ TimerOnly(s.flow[f], t.flow[f]) /\ RtoLive(t, f) /\ NotEarly(t.flow[f])
      /\ Recorded(t.flow[f])
      /\ t.flow[f].timed = {} \/ t.flow[f].pending \/ NearEnd(t.l)
    BY <1>1, Recalculates
<1> HIDE DEF t
<1>4. /\ Gone(t.flow[f]) = Gone(s.flow[f])
      /\ Complete(t.flow[f]) = Complete(s.flow[f])
      /\ Books(t.flow[f], f, s.l.now)
    BY <1>1, <1>2, <1>3, TimerKeeps
<1>5. t \in SimType /\ ListSound(t.l) /\ t.l.now = s.l.now
    BY <1>3 DEF Moves
<1>6. Fit(t, f)
    BY <1>3, <1>4, <1>5 DEF Fit
<1>7. TimedSafe(t, f)
    BY <1>3 DEF TimedSafe
<1>8. Steps(s, t, f)
    BY <1>3, <1>4, <1>6, <1>7 DEF Steps
<1> QED
    BY <1>3, <1>7, <1>8 DEF t

-----------------------------------------------------------------------------
(* Records that are settled.                                               *)

\* The record of q is gone, from both of the sender's books.
Forgets(r, u, q) ==
    /\ SameTimer(r, u) /\ SameStage(r, u) /\ SameWork(r, u)
    /\ u.sent = [r.sent EXCEPT ![q] = Never] /\ u.timed = r.timed \ {q}

LEMMA ForgetsOne ==
    ASSUME NEW r \in FlowType, NEW u \in FlowType, NEW q \in Seqs, Forgets(r, u, q),
           NEW f \in Flows, NEW now
    PROVE  /\ Out(u) = Out(r) \ {q} /\ Gone(u) = Gone(r) \ {q}
           /\ Complete(r) => Complete(u)
           /\ Books(r, f, now) => Books(u, f, now)
           /\ Recorded(r) /\ r.sent[q] # r.rtoOf => Recorded(u)
<1>1. Out(u) = Out(r) \ {q} /\ \A p \in Out(u) : u.sent[p] = r.sent[p]
    BY DEF Out, Forgets, FlowType, Never
<1>2. Gone(u) = Gone(r) \ {q}
    BY <1>1 DEF Gone, Forgets
<1>3. Complete(r) => Complete(u)
    BY <1>1 DEF Complete, Forgets, SameStage, SameWork
<1>4. Books(r, f, now) => Books(u, f, now)
    BY <1>1, <1>3 DEF Books, Forgets, SameStage, SameWork
<1>5. ASSUME Recorded(r), r.sent[q] # r.rtoOf PROVE Recorded(u)
  <2>1. SUFFICES ASSUME r.pending PROVE \E p \in u.timed : u.sent[p] = u.rtoOf
      BY DEF Recorded, Forgets, SameTimer
  <2>2. PICK p \in r.timed : r.sent[p] = r.rtoOf
      BY <1>5, <2>1 DEF Recorded
  <2>3. p # q /\ p \in u.timed /\ p \in Seqs
      BY <1>5, <2>2 DEF Forgets, FlowType
  <2>4. u.sent[p] = r.sent[p]
      BY <2>3 DEF Forgets, FlowType
  <2> QED
      BY <2>2, <2>3, <2>4 DEF Forgets, SameTimer
<1> QED
    BY <1>1, <1>2, <1>3, <1>4, <1>5

LEMMA ForgetsStep ==
    ASSUME NEW s, NEW f \in Flows, Fit(s, f), NEW q \in Seqs, NEW u \in FlowType,
           Forgets(s.flow[f], u, q)
    PROVE  LET t == Upd(s, s.l, f, u, s.nic)
           IN  /\ Moves(s, t, f) /\ Fit(t, f) /\ t.flow[f] = u /\ t.nic = s.nic /\ t.l = s.l
               /\ Out(u) = Out(s.flow[f]) \ {q} /\ Gone(u) \subseteq Gone(s.flow[f])
               /\ Complete(s.flow[f]) => Complete(u)
               /\ Recorded(s.flow[f]) /\ s.flow[f].sent[q] # s.flow[f].rtoOf => Recorded(u)
               /\ TimedSafe(s, f) => TimedSafe(t, f)
<1> DEFINE r == s.flow[f]
           t == Upd(s, s.l, f, u, s.nic)
<1>1. s \in SimType /\ ListSound(s.l) /\ Books(r, f, s.l.now) /\ RtoLive(s, f) /\ NotEarly(r)
    BY DEF Fit
<1>2. r \in FlowType /\ s.nic \in NicType
    BY <1>1, SimFields
<1>3. r.next \in Nat
    BY <1>1, NextIsNatural
<1>4. SameTimer(r, u) /\ SameStage(r, u) /\ u.next >= r.next
    BY <1>3 DEF Forgets, SameWork
<1>5. /\ Moves(s, t, f) /\ t.l = s.l /\ t.flow[f] = u /\ t.nic = s.nic
      /\ RtoLive(t, f) /\ NotEarly(u)
    BY <1>1, <1>2, <1>4, MovesLocally
<1> HIDE DEF t
<1>6. /\ Out(u) = Out(r) \ {q} /\ Gone(u) = Gone(r) \ {q}
      /\ Complete(r) => Complete(u)
      /\ Books(u, f, s.l.now)
      /\ Recorded(r) /\ r.sent[q] # r.rtoOf => Recorded(u)
    BY <1>1, <1>2, ForgetsOne
<1>7. t \in SimType
    BY <1>5 DEF Moves
<1>8. Fit(t, f)
    BY <1>1, <1>5, <1>6, <1>7 DEF Fit
<1>9. TimedSafe(s, f) => TimedSafe(t, f)
    BY <1>5 DEF TimedSafe, Guarded, Forgets, SameTimer, SameStage
<1> QED
    BY <1>5, <1>6, <1>8, <1>9 DEF t

\* Settling keeps what is still to be sent.
Settling(s, t, f) ==
    /\ Steps(s, t, f) /\ t.nic = s.nic /\ SameWork(s.flow[f], t.flow[f])
    /\ Out(t.flow[f]) \subseteq Out(s.flow[f])

LEMMA SettlingOn ==
    ASSUME NEW s, NEW f \in Flows, Fit(s, f), NEW t, NEW v, Settling(s, t, f), Settling(t, v, f)
    PROVE  Settling(s, v, f)
    BY StepsOn DEF Settling, SameWork

LEMMA SettleStep ==
    ASSUME NEW s, NEW f \in Flows, Fit(s, f), NEW q \in Seqs
    PROVE  LET t == Settle(s, f, q)
           IN  Settling(s, t, f) /\ Out(t.flow[f]) = Out(s.flow[f]) \ {q}
<1> DEFINE r == s.flow[f]
           u == [r EXCEPT !.sent[q] = Never, !.timed = @ \ {q}]
           a == Upd(s, s.l, f, u, s.nic)
           t == Settle(s, f, q)
<1>1. s \in SimType
    BY DEF Fit
<1>2. r \in FlowType
    BY <1>1, SimFields
<1>3. u \in FlowType /\ Forgets(r, u, q)
    BY <1>2 DEF FlowType, Forgets, SameTimer, SameStage, SameWork, Never
<1>4. t = IF r.sent[q] = r.rtoOf THEN RecalculateRTO(a, f) ELSE a
  <2>1. s = Upd(s, s.l, f, r, s.nic)
      BY <1>1, AsUpd
  <2>2. [s EXCEPT !.flow[f] = u] = a
      BY <1>1, <2>1, SetFlow
  <2> QED
      BY <2>2 DEF Settle
<1> HIDE DEF u, a
<1>5. /\ Moves(s, a, f) /\ Fit(a, f) /\ a.flow[f] = u /\ a.nic = s.nic
      /\ Out(u) = Out(r) \ {q} /\ Gone(u) \subseteq Gone(r)
      /\ Complete(r) => Complete(u)
      /\ Recorded(r) /\ r.sent[q] # r.rtoOf => Recorded(u)
      /\ TimedSafe(s, f) => TimedSafe(a, f)
    BY <1>3, ForgetsStep DEF a
<1>6. SameWork(r, u)
    BY <1>3 DEF Forgets
<1>7. CASE r.sent[q] # r.rtoOf
  <2>1. t = a
      BY <1>4, <1>7
  <2>2. Steps(s, a, f)
      BY <1>5, <1>7 DEF Steps
  <2> QED
      BY <1>5, <1>6, <2>1, <2>2 DEF Settling
<1>8. CASE r.sent[q] = r.rtoOf
  <2>1. t = RecalculateRTO(a, f)
      BY <1>4, <1>8
  <2> HIDE DEF t
  <2>2. /\ Steps(a, t, f) /\ t.nic = a.nic /\ TimerOnly(u, t.flow[f])
        /\ Recorded(t.flow[f]) /\ TimedSafe(t, f)
      BY <1>5, <2>1, RecalculatesStep
  <2>3. Moves(s, t, f)
      BY <1>1, <1>5, <2>2, MovesOn DEF Steps
  <2>4. Steps(s, t, f)
      BY <1>5, <2>2, <2>3 DEF Steps
  <2>5. Out(t.flow[f]) = Out(u) /\ SameWork(u, t.flow[f])
      BY <1>3, <2>2, TimerKeeps, TimerFields DEF SameWork
  <2>6. SameWork(r, t.flow[f])
      BY <1>6, <2>5 DEF SameWork
  <2> QED
      BY <1>5, <2>2, <2>4, <2>5, <2>6 DEF Settling, t
<1> QED
    BY <1>7, <1>8

LEMMA SettlingNot ==
    ASSUME NEW s, NEW f \in Flows, Fit(s, f)
    PROVE  Settling(s, s, f)
    BY StepsNot DEF Settling, SameWork

LEMMA SettlesAll ==
    ASSUME NEW s, NEW f \in Flows, Fit(s, f), NEW S
    PROVE  LET t == SettleAll(s, f, S)
           IN  Settling(s, t, f) /\ \A q \in S : q \notin Out(t.flow[f])
<1> DEFINE X == {t \in SimType : Settling(s, t, f)}
           F == [t \in X |-> [n \in 0 .. MaxSize - 1 |-> IF n \in S THEN Settle(t, f, n) ELSE t]]
           Is(g) == g = [n \in 0 .. MaxSize |->
                            IF n = 0 THEN s
                            ELSE IF n - 1 \in S THEN Settle(g[n - 1], f, n - 1)
                            ELSE g[n - 1]]
           up == CHOOSE g : Is(g)
<1>1. MaxSize \in Nat /\ Seqs = 0 .. MaxSize - 1 /\ Seqs \subseteq Nat
    BY SizesAre DEF Seqs
<1>2. s \in X
    BY SettlingNot DEF Fit
<1>3. ASSUME NEW t \in X, NEW n \in 0 .. MaxSize - 1
      PROVE  Settle(t, f, n) \in X /\ Out(Settle(t, f, n).flow[f]) = Out(t.flow[f]) \ {n}
  <2> DEFINE v == Settle(t, f, n)
  <2>1. Settling(s, t, f) /\ Fit(t, f)
      BY DEF Settling, Steps
  <2>2. Settling(t, v, f) /\ Out(v.flow[f]) = Out(t.flow[f]) \ {n}
      BY <1>1, <2>1, SettleStep
  <2> HIDE DEF v
  <2>3. Settling(s, v, f)
      BY <2>1, <2>2, SettlingOn
  <2>4. v \in SimType
      BY <2>3 DEF Settling, Steps, Moves
  <2> QED
      BY <2>2, <2>3, <2>4 DEF v
<1> HIDE DEF X
<1>4. F \in [X -> [0 .. MaxSize - 1 -> X]]
    BY <1>3
<1>5. \A t \in X : \A n \in 0 .. MaxSize - 1 : F[t][n] = IF n \in S THEN Settle(t, f, n) ELSE t
    OBVIOUS
<1> HIDE DEF F
<1>6. PICK g \in [0 .. MaxSize -> X] : g[0] = s /\ \A n \in 0 .. MaxSize - 1 : g[n + 1] = F[g[n]][n]
  <2>1. MaxSize \in Nat
      BY <1>1
  <2>2. Iterates(X, s, MaxSize, F)
      BY <1>2, <1>4, <2>1, StepByStep
  <2> QED
      BY <2>2 DEF Iterates
<1>7. Is(g)
  <2>1. ASSUME NEW n \in 0 .. MaxSize
        PROVE  g[n] = IF n = 0 THEN s
                      ELSE IF n - 1 \in S THEN Settle(g[n - 1], f, n - 1)
                      ELSE g[n - 1]
    <3>1. CASE n = 0
        BY <1>6, <3>1
    <3>2. CASE n # 0
      <4>1. n - 1 \in 0 .. MaxSize - 1 /\ n - 1 \in 0 .. MaxSize /\ (n - 1) + 1 = n
          BY <1>1, <3>2
      <4>2. g[n - 1] \in X
          BY <1>6, <4>1
      <4>3. g[n] = F[g[n - 1]][n - 1]
          BY <1>6, <4>1
      <4> QED
          BY <1>5, <3>2, <4>1, <4>2, <4>3
    <3> QED
        BY <3>1, <3>2
  <2> QED
      BY <2>1
<1>8. Is(up)
    BY <1>7
<1>9. SettleAll(s, f, S) = up[MaxSize]
    BY DEF SettleAll
<1> HIDE DEF up
<1>10. up[0] = s
    BY <1>1, <1>8
<1>11. \A n \in 0 .. MaxSize - 1 : up[n + 1] = IF n \in S THEN Settle(up[n], f, n) ELSE up[n]
  <2>1. ASSUME NEW n \in 0 .. MaxSize - 1
        PROVE  up[n + 1] = IF n \in S THEN Settle(up[n], f, n) ELSE up[n]
    <3>1. n + 1 \in 0 .. MaxSize /\ n + 1 # 0 /\ (n + 1) - 1 = n
        BY <1>1
    <3> QED
        BY <1>8, <3>1
  <2> QED
      BY <2>1
<1> HIDE DEF Is
<1> DEFINE Done(n) == up[n] \in X /\ \A q \in S : q \in Seqs /\ q < n => q \notin Out(up[n].flow[f])
           T == {n \in Nat : n <= MaxSize => Done(n)}
<1>12. 0 \in T
    BY <1>1, <1>2, <1>10
<1>13. ASSUME NEW n \in Nat, n \in T PROVE n + 1 \in T
  <2>1. ASSUME n + 1 <= MaxSize PROVE Done(n + 1)
    <3>1. n \in 0 .. MaxSize - 1 /\ Done(n)
        BY <1>1, <1>13, <2>1
    <3>2. \A q \in Seqs : q < n + 1 => q < n \/ q = n
        BY <1>1
    <3>3. CASE n \notin S
      <4>1. up[n + 1] = up[n]
          BY <1>11, <3>1, <3>3
      <4> QED
          BY <3>1, <3>2, <3>3, <4>1
    <3>4. CASE n \in S
      <4>1. up[n + 1] = Settle(up[n], f, n)
          BY <1>11, <3>1, <3>4
      <4>2. up[n + 1] \in X /\ Out(up[n + 1].flow[f]) = Out(up[n].flow[f]) \ {n}
          BY <1>3, <3>1, <4>1
      <4> QED
          BY <3>1, <3>2, <4>2
    <3> QED
        BY <3>3, <3>4
  <2> HIDE DEF Done
  <2> QED
      BY <2>1
<1> HIDE DEF T
<1>14. MaxSize \in T
    BY <1>1, <1>12, <1>13, NaturalsByInduction
<1>15. Done(MaxSize)
    BY <1>1, <1>14 DEF T
<1>16. Settling(s, up[MaxSize], f)
    BY <1>15 DEF X
<1>17. \A q \in S : q \notin Out(up[MaxSize].flow[f])
    BY <1>1, <1>15 DEF Out
<1> QED
    BY <1>9, <1>16, <1>17

\* Part of what was outstanding or to be sent again is not any more.
Shrinks(r, u) ==
    /\ u.backlog = r.backlog /\ u.next = r.next /\ u.blocked = r.blocked
    /\ u.rtx \subseteq r.rtx /\ Out(u) \subseteq Out(r)

LEMMA DropsStep ==
    ASSUME NEW s, NEW f \in Flows, Fit(s, f), NEW u \in FlowType,
           SameTimer(s.flow[f], u), SameStage(s.flow[f], u),
           u.sent = s.flow[f].sent, u.timed = s.flow[f].timed, Shrinks(s.flow[f], u)
    PROVE  LET t == Upd(s, s.l, f, u, s.nic)
           IN  Steps(s, t, f) /\ t.flow[f] = u /\ t.nic = s.nic
<1> DEFINE r == s.flow[f]
           t == Upd(s, s.l, f, u, s.nic)
<1>1. s \in SimType /\ ListSound(s.l) /\ Books(r, f, s.l.now) /\ RtoLive(s, f) /\ NotEarly(r)
    BY DEF Fit
<1>2. r \in FlowType /\ s.nic \in NicType
    BY <1>1, SimFields
<1>3. r.next \in Nat
    BY <1>1, NextIsNatural
<1>4. u.next >= r.next
    BY <1>3 DEF Shrinks
<1>5. /\ Moves(s, t, f) /\ t.l = s.l /\ t.flow[f] = u /\ t.nic = s.nic
      /\ RtoLive(t, f) /\ NotEarly(u)
    BY <1>1, <1>2, <1>4, MovesLocally
<1> HIDE DEF t
<1>6. Out(u) = Out(r) /\ Gone(u) = Gone(r)
    BY DEF Out, Gone
<1>7. Complete(r) => Complete(u)
    BY <1>6 DEF Complete, SameStage, Shrinks
<1>8. Books(u, f, s.l.now)
    BY <1>1, <1>6, <1>7 DEF Books, SameStage, Shrinks
<1>9. Recorded(r) => Recorded(u)
    BY DEF Recorded, SameTimer
<1>10. t \in SimType
    BY <1>5 DEF Moves
<1>11. Fit(t, f)
    BY <1>1, <1>5, <1>8, <1>10 DEF Fit
<1>12. TimedSafe(s, f) => TimedSafe(t, f)
    BY <1>5 DEF TimedSafe, Guarded, SameTimer, SameStage
<1> QED
    BY <1>5, <1>6, <1>7, <1>9, <1>11, <1>12 DEF t, Steps

\* Nothing below the cumulative acknowledgement is outstanding any more.
LEMMA CumulativeStep ==
    ASSUME NEW s, NEW f \in Flows, Fit(s, f), NEW cum \in Nat
    PROVE  LET t == HandleCumulativeAck(s, f, cum)
           IN  /\ Steps(s, t, f) /\ t.nic = s.nic /\ Shrinks(s.flow[f], t.flow[f])
               /\ \A q \in Out(t.flow[f]) \cup t.flow[f].rtx : ~ (q < cum)
<1> DEFINE acked == {q \in Out(s.flow[f]) : q < cum}
           a == SettleAll(s, f, acked)
           r == a.flow[f]
           u == [r EXCEPT !.rtx = {q \in @ : q >= cum}, !.resent = @ \ acked]
           t == HandleCumulativeAck(s, f, cum)
<1>1. Settling(s, a, f) /\ \A q \in acked : q \notin Out(r)
    BY SettlesAll
<1>2. Fit(a, f) /\ a \in SimType /\ a.nic = s.nic /\ Steps(s, a, f)
      /\ SameWork(s.flow[f], r) /\ Out(r) \subseteq Out(s.flow[f])
    BY <1>1 DEF Settling, Steps, Fit
<1>3. t = [a EXCEPT !.flow[f] = u]
    BY DEF HandleCumulativeAck
<1> HIDE DEF a, t
<1>4. r \in FlowType
    BY <1>2, SimFields
<1>5. t = Upd(a, a.l, f, u, a.nic)
  <2>1. a = Upd(a, a.l, f, r, a.nic)
      BY <1>2, AsUpd
  <2> HIDE DEF u
  <2> QED
      BY <1>2, <1>3, <2>1, SetFlow
<1>6. /\ u \in FlowType /\ SameTimer(r, u) /\ SameStage(r, u)
      /\ u.sent = r.sent /\ u.timed = r.timed
      /\ u.backlog = r.backlog /\ u.next = r.next /\ u.blocked = r.blocked
      /\ u.rtx = {q \in r.rtx : q >= cum}
    BY <1>4 DEF FlowType, SameTimer, SameStage
<1> HIDE DEF u
<1>7. Shrinks(r, u)
    BY <1>6 DEF Shrinks, Out
<1>8. Steps(a, t, f) /\ t.flow[f] = u /\ t.nic = a.nic
    BY <1>2, <1>5, <1>6, <1>7, DropsStep
<1>9. Steps(s, t, f)
    BY <1>2, <1>8, StepsOn
<1>10. Shrinks(s.flow[f], u)
    BY <1>2, <1>7 DEF Shrinks, SameWork
<1>11. ASSUME NEW q \in Out(u) \cup u.rtx PROVE ~ (q < cum)
  <2>1. CASE q \in Out(u)
    <3>1. q \in Out(r) /\ q \in Out(s.flow[f])
        BY <1>2, <1>7, <2>1 DEF Shrinks
    <3> QED
        BY <1>1, <3>1
  <2>2. CASE q \in u.rtx
    <3>1. q \in r.rtx /\ q >= cum
        BY <1>6, <2>2
    <3>2. q \in Nat
        BY <1>4, <3>1, SizesAre DEF FlowType
    <3> QED
        BY <3>1, <3>2
  <2> QED
      BY <1>11, <2>1, <2>2
<1> QED
    BY <1>2, <1>8, <1>9, <1>10, <1>11 DEF t

LEMMA SacksStep ==
    ASSUME NEW s, NEW f \in Flows, Fit(s, f), NEW sacks
    PROVE  LET t == HandleSacks(s, f, sacks)
           IN  Steps(s, t, f) /\ t.nic = s.nic /\ Shrinks(s.flow[f], t.flow[f])
<1> DEFINE a == SettleAll(s, f, sacks \cap Out(s.flow[f]))
           r == a.flow[f]
           u == [r EXCEPT !.rtx = @ \ sacks]
           t == HandleSacks(s, f, sacks)
<1>1. Settling(s, a, f)
    BY SettlesAll
<1>2. Fit(a, f) /\ a \in SimType /\ a.nic = s.nic /\ Steps(s, a, f)
      /\ SameWork(s.flow[f], r) /\ Out(r) \subseteq Out(s.flow[f])
    BY <1>1 DEF Settling, Steps, Fit
<1>3. t = [a EXCEPT !.flow[f] = u]
    BY DEF HandleSacks
<1> HIDE DEF a, t
<1>4. r \in FlowType
    BY <1>2, SimFields
<1>5. t = Upd(a, a.l, f, u, a.nic)
  <2>1. a = Upd(a, a.l, f, r, a.nic)
      BY <1>2, AsUpd
  <2> HIDE DEF u
  <2> QED
      BY <1>2, <1>3, <2>1, SetFlow
<1>6. /\ u \in FlowType /\ SameTimer(r, u) /\ SameStage(r, u)
      /\ u.sent = r.sent /\ u.timed = r.timed
      /\ u.backlog = r.backlog /\ u.next = r.next /\ u.blocked = r.blocked
      /\ u.rtx \subseteq r.rtx
    BY <1>4 DEF FlowType, SameTimer, SameStage
<1> HIDE DEF u
<1>7. Shrinks(r, u)
    BY <1>6 DEF Shrinks, Out
<1>8. Steps(a, t, f) /\ t.flow[f] = u /\ t.nic = a.nic
    BY <1>2, <1>5, <1>6, <1>7, DropsStep
<1>9. Steps(s, t, f)
    BY <1>2, <1>8, StepsOn
<1>10. Shrinks(s.flow[f], u)
    BY <1>2, <1>7 DEF Shrinks, SameWork
<1> QED
    BY <1>2, <1>8, <1>9, <1>10 DEF t

-----------------------------------------------------------------------------
(* Sending.                                                                *)

\* The timer stands for what it stood for, or for a packet just sent.
Retimes(r, u) == Recorded(u) \/ u.rtoOf = r.rtoOf

\* What holds after a packet has left, and nothing was given up.
Sends(s, t, f) ==
    /\ Moves(s, t, f) /\ Fit(t, f)
    /\ Gone(t.flow[f]) \subseteq Gone(s.flow[f])
    /\ Recorded(s.flow[f]) => Recorded(t.flow[f])
    /\ Retimes(s.flow[f], t.flow[f])
    /\ TimedSafe(t, f)
    /\ s.flow[f].timed \subseteq t.flow[f].timed
    /\ t.flow[f].blocked = s.flow[f].blocked /\ t.flow[f].next # 0

LEMMA EmitSends ==
    ASSUME NEW s, NEW f \in Flows, Fit(s, f), ~ s.flow[f].done,
           NEW q \in Seqs, q \notin Out(s.flow[f]), q \notin s.flow[f].rtx, q < s.flow[f].next,
           NEW ar \in BOOLEAN
    PROVE  LET t == Emit(s, f, q, ar)
           IN  Sends(s, t, f) /\ t.nic = s.nic
<1> DEFINE r == s.flow[f]
           now == s.l.now
           u == [r EXCEPT !.sent[q] = now, !.timed = @ \cup {q}]
           b == Upd(s, s.l, f, u, s.nic)
           p == Data(f, q, ar)
           d == At(b, p, now + 1)
           t == Emit(s, f, q, ar)
<1>1. s \in SimType /\ ListSound(s.l) /\ Books(r, f, now) /\ RtoLive(s, f) /\ NotEarly(r)
    BY DEF Fit
<1>2. r \in FlowType /\ s.nic \in NicType /\ now \in Nat /\ s.l \in ListType
    BY <1>1, SimFields DEF ListType
<1>3. r.next \in Nat /\ q \in Nat /\ r.next # 0
  <2>1. r.next \in Nat /\ q \in Nat
      BY <1>1, NextIsNatural, SizesAre
  <2> QED
      BY <2>1
<1>4. r.sent[q] = Never
    BY DEF Out
<1>5. t = StartRTO(d, f, now)
  <2>1. Check(s.l, r.sent[q] = Never, "sent_twice") = s.l
      BY <1>2, <1>4, CheckHolds
  <2>2. s = Upd(s, s.l, f, r, s.nic)
      BY <1>1, AsUpd
  <2> HIDE DEF u
  <2>3. [s EXCEPT !.l = s.l, !.flow[f] = u] = b
    <3>1. [s EXCEPT !.l = s.l] = s
        BY <1>1 DEF SimType
    <3>2. [s EXCEPT !.flow[f] = u] = b
        BY <1>1, <2>2, SetFlow
    <3> QED
        BY <3>1, <3>2
  <2>4. [s EXCEPT !.l = Check(@, r.sent[q] = Never, "sent_twice"), !.flow[f] = u] = b
      BY <2>1, <2>3
  <2> HIDE DEF b
  <2> QED
      BY <2>4 DEF Emit, u
<1>6. /\ u \in FlowType /\ SameTimer(r, u) /\ SameStage(r, u) /\ SameWork(r, u)
      /\ u.sent = [r.sent EXCEPT ![q] = now] /\ u.timed = r.timed \cup {q}
    BY <1>2 DEF FlowType, SameTimer, SameStage, SameWork
<1> HIDE DEF u
<1>7. /\ Out(u) = Out(r) \cup {q} /\ u.sent[q] = now
      /\ \A o \in Out(r) : u.sent[o] = r.sent[o]
  <2>1. r.sent \in [Seqs -> Nat \cup {Never}] /\ now # Never
      BY <1>2 DEF FlowType, Never
  <2> QED
      BY <1>6, <2>1 DEF Out
<1>8. Books(u, f, now)
  <2>1. ~ u.done
      BY <1>6 DEF SameStage
  <2>2. \A o \in Out(u) : u.sent[o] <= now
      BY <1>1, <1>2, <1>7 DEF Books
  <2> QED
      BY <1>1, <1>6, <1>7, <2>1, <2>2 DEF Books, SameStage, SameWork
<1>9. /\ Moves(s, b, f) /\ b.l = s.l /\ b.flow[f] = u /\ b.nic = s.nic
      /\ RtoLive(b, f) /\ NotEarly(u)
  <2>1. u.next >= r.next
      BY <1>3, <1>6 DEF SameWork
  <2> QED
      BY <1>1, <1>2, <1>6, <2>1, MovesLocally
<1> HIDE DEF b
<1>10. b \in SimType
    BY <1>9 DEF Moves
<1>11. IsNew(p, u, f)
  <2>1. p \in EventSources
      BY <1>3 DEF Data, EventSources, DataPackets
  <2>2. u.next = r.next
      BY <1>6 DEF SameWork
  <2> QED
      BY <1>3, <2>1, <2>2 DEF IsNew, Data
<1>12. /\ Moves(b, d, f) /\ d.flow = b.flow /\ d.nic = b.nic /\ RtoLive(d, f)
  <2>1. now + 1 \in Nat /\ now + 1 >= b.l.now
      BY <1>2, <1>9
  <2>2. ListSound(b.l) /\ RtoLive(b, f) /\ IsNew(p, b.flow[f], f)
      BY <1>1, <1>9, <1>11
  <2> DEFINE when == now + 1
  <2>3. when \in Nat /\ when >= b.l.now
      BY <2>1
  <2>4. d = At(b, p, when)
      OBVIOUS
  <2> HIDE DEF p, d, when
  <2> QED
      BY <1>10, <2>2, <2>3, <2>4, MovesAt
<1> HIDE DEF d
<1>13. d \in SimType /\ ListSound(d.l) /\ d.l.now = now /\ d.flow[f] = u
    BY <1>9, <1>12 DEF Moves
<1>14. /\ Moves(d, t, f) /\ t.nic = d.nic
       /\ TimerOnly(u, t.flow[f]) /\ RtoLive(t, f) /\ NotEarly(t.flow[f])
       /\ t.flow[f].pending \/ NearEnd(t.l)
       /\ \/ t.flow[f].rtoOf = now
          \/ u.pending /\ t.flow[f].rtoOf = u.rtoOf
  <2>1. u.next # 0 /\ now <= d.l.now
      BY <1>2, <1>3, <1>6, <1>13 DEF SameWork
  <2> QED
      BY <1>2, <1>5, <1>9, <1>12, <1>13, <2>1, StartRTOSets
<1> HIDE DEF t
<1>15. Moves(s, t, f)
    BY <1>1, <1>9, <1>12, <1>14, MovesOn
<1>16. t \in SimType /\ ListSound(t.l) /\ t.l.now = now
    BY <1>13, <1>14 DEF Moves
<1>17. Books(t.flow[f], f, now) /\ Gone(t.flow[f]) = Gone(u)
    BY <1>6, <1>8, <1>14, TimerKeeps
<1>18. Fit(t, f)
    BY <1>14, <1>16, <1>17 DEF Fit
<1>19. /\ t.flow[f].sent = u.sent /\ t.flow[f].timed = u.timed
       /\ t.flow[f].blocked = u.blocked
    BY <1>6, <1>14, TimerFields
<1>20. Gone(u) \subseteq Gone(r)
    BY <1>6, <1>7 DEF Gone
<1>21. t.flow[f].rtoOf = now => Recorded(t.flow[f])
  <2>1. q \in t.flow[f].timed /\ t.flow[f].sent[q] = now
      BY <1>6, <1>7, <1>19
  <2> QED
      BY <2>1 DEF Recorded
<1>22. Retimes(r, t.flow[f])
    BY <1>6, <1>14, <1>21 DEF Retimes, SameTimer
<1>23. ASSUME Recorded(r) PROVE Recorded(t.flow[f])
  <2>1. CASE t.flow[f].rtoOf = now
      BY <1>21, <2>1
  <2>2. CASE u.pending /\ t.flow[f].rtoOf = u.rtoOf
    <3>1. r.pending /\ r.rtoOf = u.rtoOf
        BY <1>6, <2>2 DEF SameTimer
    <3>2. PICK o \in r.timed : r.sent[o] = r.rtoOf
        BY <1>23, <3>1 DEF Recorded
    <3>3. o \in Out(r)
        BY <1>1, <3>2 DEF Books
    <3>4. o \in t.flow[f].timed /\ t.flow[f].sent[o] = t.flow[f].rtoOf
        BY <1>6, <1>7, <1>19, <2>2, <3>1, <3>2, <3>3
    <3> QED
        BY <3>4 DEF Recorded
  <2> QED
      BY <1>14, <2>1, <2>2
<1>24. TimedSafe(t, f)
    BY <1>14 DEF TimedSafe
<1>25. r.timed \subseteq t.flow[f].timed /\ t.flow[f].blocked = r.blocked /\ t.flow[f].next # 0
  <2>1. t.flow[f].next = u.next
      BY <1>6, <1>14, TimerFields
  <2> QED
      BY <1>3, <1>6, <1>19, <2>1 DEF SameWork
<1> QED
    BY <1>9, <1>12, <1>14, <1>15, <1>17, <1>18, <1>20, <1>22, <1>23, <1>24, <1>25 DEF Sends, t

LEMMA SendsAfter ==
    ASSUME NEW s \in SimType, NEW f \in Flows, NEW b, NEW t, Moves(s, b, f), Sends(b, t, f),
           SameTimer(s.flow[f], b.flow[f]), b.flow[f].sent = s.flow[f].sent,
           b.flow[f].timed = s.flow[f].timed, b.flow[f].blocked = s.flow[f].blocked
    PROVE  Sends(s, t, f)
<1>1. Moves(s, t, f)
    BY MovesOn DEF Sends
<1>2. Gone(b.flow[f]) = Gone(s.flow[f])
    BY DEF Gone, Out
<1>3. Recorded(s.flow[f]) => Recorded(b.flow[f])
    BY DEF Recorded, SameTimer
<1>4. Retimes(s.flow[f], t.flow[f])
    BY DEF Sends, Retimes, SameTimer
<1> QED
    BY <1>1, <1>2, <1>3, <1>4 DEF Sends

LEMMA WantsMeans ==
    ASSUME NEW r \in FlowType, NEW f, NEW now, Books(r, f, now), Wants(r)
    PROVE  ~ Complete(r) /\ ~ r.done /\ r.started
<1>1. r.backlog \in Nat /\ \A q \in r.rtx : q \in Nat
    <2>1. r.backlog \in Nat /\ r.rtx \subseteq Seqs
        BY DEF FlowType
    <2>2. \A q \in Seqs : q \in Nat
        BY DEF Seqs
    <2> QED
        BY <2>1, <2>2
<1>2. r.next = 0 => r.rtx = {}
    BY <1>1 DEF Books
<1> QED
    BY <1>1, <1>2 DEF Wants, Complete, Books

LEMMA NewPacketSends ==
    ASSUME NEW s, NEW f \in Flows, Fit(s, f), s.flow[f].backlog > 0, s.flow[f].rtx = {}
    PROVE  LET t == SendNewPacket(s, f)
           IN  Sends(s, t, f) /\ t.nic = s.nic
<1> DEFINE r == s.flow[f]
           u == [r EXCEPT !.backlog = @ - 1, !.next = @ + 1]
           b == Upd(s, s.l, f, u, s.nic)
           q == r.next
           ar == (r.backlog = 1)
           t == SendNewPacket(s, f)
<1>1. s \in SimType /\ ListSound(s.l) /\ Books(r, f, s.l.now) /\ RtoLive(s, f) /\ NotEarly(r)
    BY DEF Fit
<1>2. r \in FlowType /\ s.nic \in NicType /\ r.next \in Nat /\ r.backlog \in Nat
    BY <1>1, SimFields, NextIsNatural
<1>3. ~ Complete(r) /\ ~ r.done /\ r.started
    BY <1>1, <1>2, WantsMeans DEF Wants
<1>4. r.next + r.backlog = Size[f]
    BY <1>1, <1>3 DEF Books
<1>5. q \in Seqs
  <2>1. MaxSize \in Nat /\ Size[f] <= MaxSize /\ Size[f] \in Nat
      BY SizesAre
  <2>2. q < MaxSize
      BY <1>2, <1>4, <2>1
  <2> QED
      BY <1>2, <2>2, SizesAre
<1>6. t = Emit(b, f, q, ar)
  <2>1. s = Upd(s, s.l, f, r, s.nic)
      BY <1>1, AsUpd
  <2>2. t = Emit([s EXCEPT !.flow[f] = u], f, q, ar)
      BY DEF SendNewPacket
  <2> HIDE DEF u
  <2>3. [s EXCEPT !.flow[f] = u] = b
      BY <1>1, <2>1, SetFlow
  <2> QED
      BY <2>2, <2>3
<1>7. /\ u \in FlowType /\ SameTimer(r, u) /\ SameStage(r, u)
      /\ u.sent = r.sent /\ u.timed = r.timed /\ u.rtx = r.rtx /\ u.blocked = r.blocked
      /\ u.next = r.next + 1 /\ u.backlog = r.backlog - 1
  <2>1. r.backlog - 1 \in Nat /\ r.next + 1 \in Nat
      BY <1>2
  <2> QED
      BY <1>2, <2>1 DEF FlowType, SameTimer, SameStage
<1> HIDE DEF u, t
<1>8. Out(u) = Out(r)
    BY <1>7 DEF Out
<1>9. \A o \in Out(r) : o < r.next /\ o \in Nat
    BY <1>1, SizesAre DEF Books, Out
<1>10. Books(u, f, s.l.now)
  <2>1. \A o \in Out(u) \cup u.rtx : o < u.next
      BY <1>2, <1>7, <1>8, <1>9
  <2>2. u.next + u.backlog = Size[f] /\ u.next # 0
      BY <1>2, <1>4, <1>7
  <2> QED
      BY <1>1, <1>3, <1>7, <1>8, <2>1, <2>2 DEF Books, SameStage
<1>11. /\ Moves(s, b, f) /\ b.l = s.l /\ b.flow[f] = u /\ b.nic = s.nic
       /\ RtoLive(b, f) /\ NotEarly(u)
  <2>1. u.next >= r.next
      BY <1>2, <1>7
  <2> QED
      BY <1>1, <1>2, <1>7, <2>1, MovesLocally
<1> HIDE DEF b
<1>12. Fit(b, f)
    BY <1>1, <1>10, <1>11 DEF Fit, Moves
<1>13. q \notin Out(u) /\ q \notin u.rtx /\ q < u.next /\ ~ u.done /\ ar \in BOOLEAN
    BY <1>2, <1>3, <1>7, <1>8, <1>9 DEF SameStage
<1> HIDE DEF ar, q
<1>14. Sends(b, t, f) /\ t.nic = b.nic
    BY <1>5, <1>6, <1>11, <1>12, <1>13, EmitSends
<1>15. Sends(s, t, f)
    BY <1>1, <1>7, <1>11, <1>14, SendsAfter
<1> QED
    BY <1>11, <1>14, <1>15 DEF t

LEMMA RtxPacketSends ==
    ASSUME NEW s, NEW f \in Flows, Fit(s, f), s.flow[f].rtx # {}
    PROVE  LET t == SendRtxPacket(s, f)
           IN  Sends(s, t, f) /\ t.nic = s.nic
<1> DEFINE r == s.flow[f]
           q == CHOOSE q \in r.rtx : \A p \in r.rtx : q <= p
           u == [r EXCEPT !.rtx = @ \ {q}, !.resent = @ \cup {q}]
           b == Upd(s, s.l, f, u, s.nic)
           t == SendRtxPacket(s, f)
<1>1. s \in SimType /\ ListSound(s.l) /\ Books(r, f, s.l.now) /\ RtoLive(s, f) /\ NotEarly(r)
    BY DEF Fit
<1>2. r \in FlowType /\ s.nic \in NicType /\ r.next \in Nat
    BY <1>1, SimFields, NextIsNatural
<1>3. ~ Complete(r) /\ ~ r.done /\ r.started
    BY <1>1, <1>2, WantsMeans DEF Wants
<1>4. q \in r.rtx
  <2>1. r.rtx \in SUBSET Nat
      BY <1>2, SizesAre DEF FlowType
  <2>2. \E x \in r.rtx : \A p \in r.rtx : x <= p
      BY <2>1, LeastNatural
  <2> QED
      BY <2>2
<1>5. q \in Seqs /\ q \notin Out(r) /\ q < r.next
    BY <1>1, <1>2, <1>4 DEF Books, FlowType
<1>6. t = Emit(b, f, q, TRUE)
  <2>1. s = Upd(s, s.l, f, r, s.nic)
      BY <1>1, AsUpd
  <2>2. t = Emit([s EXCEPT !.flow[f] = u], f, q, TRUE)
      BY DEF SendRtxPacket
  <2> HIDE DEF u
  <2>3. [s EXCEPT !.flow[f] = u] = b
      BY <1>1, <2>1, SetFlow
  <2> QED
      BY <2>2, <2>3
<1> HIDE DEF q
<1>7. /\ u \in FlowType /\ SameTimer(r, u) /\ SameStage(r, u)
      /\ u.sent = r.sent /\ u.timed = r.timed /\ u.rtx = r.rtx \ {q} /\ u.blocked = r.blocked
      /\ u.next = r.next /\ u.backlog = r.backlog
    BY <1>2, <1>5 DEF FlowType, SameTimer, SameStage
<1> HIDE DEF u, t
<1>8. Out(u) = Out(r)
    BY <1>7 DEF Out
<1>10. Books(u, f, s.l.now)
    BY <1>1, <1>3, <1>7, <1>8 DEF Books, SameStage
<1>11. /\ Moves(s, b, f) /\ b.l = s.l /\ b.flow[f] = u /\ b.nic = s.nic
       /\ RtoLive(b, f) /\ NotEarly(u)
  <2>1. u.next >= r.next
      BY <1>2, <1>7
  <2> QED
      BY <1>1, <1>2, <1>7, <2>1, MovesLocally
<1> HIDE DEF b
<1>12. Fit(b, f)
    BY <1>1, <1>10, <1>11 DEF Fit, Moves
<1>13. q \notin Out(u) /\ q \notin u.rtx /\ q < u.next /\ ~ u.done
    BY <1>3, <1>5, <1>7, <1>8 DEF SameStage
<1>14. Sends(b, t, f) /\ t.nic = b.nic
    BY <1>5, <1>6, <1>11, <1>12, <1>13, EmitSends
<1>15. Sends(s, t, f)
    BY <1>1, <1>7, <1>11, <1>14, SendsAfter
<1> QED
    BY <1>11, <1>14, <1>15 DEF t

\* The port is taken by the one whose turn it is.
Taken(n) == [busy |-> TRUE, active |-> IF n.active = <<>> THEN <<>> ELSE Tail(n.active)]

LEMMA StartSendingIs ==
    ASSUME NEW s \in SimType, ListSound(s.l), NEW f \in Flows, s.flow[f].next # 0,
           s.nic.active = <<>> \/ Head(s.nic.active) = f
    PROVE  LET t == StartSending(s, f)
           IN  /\ Moves(s, t, f) /\ t.flow = s.flow /\ t.nic = Taken(s.nic)
               /\ RtoLive(s, f) => RtoLive(t, f)
<1> DEFINE r == s.flow[f]
           n == s.nic
           first == n.active = <<>> \/ Head(n.active) = f
           b == Upd(s, s.l, f, r, Taken(n))
           when == s.l.now + 1
           t == StartSending(s, f)
<1>1. r \in FlowType /\ n \in NicType /\ s.l \in ListType /\ s.l.now \in Nat /\ r.next \in Nat
    BY SimFields, NextIsNatural DEF ListType
<1>2. Taken(n) \in NicType
  <2>1. n.active # <<>> => Tail(n.active) \in Seq(Flows)
    <3>1. n.active \in Seq(Flows)
        BY <1>1 DEF NicType
    <3> QED
        BY <3>1, HeadTailProperties
  <2> QED
      BY <2>1 DEF Taken, NicType
<1>3. t = At(b, Port, when)
  <2>1. Check(s.l, first, "not_first") = s.l
      BY <1>1, CheckHolds
  <2> HIDE DEF first
  <2>2. [s EXCEPT !.l = s.l] = s
      BY DEF SimType
  <2>3. s = Upd(s, s.l, f, r, n)
      BY AsUpd
  <2>4. [s EXCEPT !.nic = Taken(n)] = b
      BY <2>3, SetNic
  <2>5. [s EXCEPT !.l = Check(@, first, "not_first"), !.nic = Taken(n)] = b
      BY <2>1, <2>2, <2>4
  <2> QED
      BY <2>5 DEF StartSending, first, Taken
<1>4. Moves(s, b, f) /\ b.l = s.l /\ b.flow[f] = r /\ b.nic = Taken(n) /\ (RtoLive(s, f) => RtoLive(b, f))
  <2>1. SameTimer(r, r) /\ SameStage(r, r) /\ r.next >= r.next
      BY <1>1 DEF SameTimer, SameStage
  <2> QED
      BY <1>1, <1>2, <2>1, MovesLocally
<1>5. b.flow = s.flow
    BY DEF Upd, SimType
<1> HIDE DEF b, t
<1>6. b \in SimType /\ ListSound(b.l) /\ IsNew(Port, b.flow[f], f)
  <2>1. Port \in EventSources
      BY DEF EventSources
  <2> QED
      BY <1>4, <2>1 DEF Moves, IsNew
<1>7. when \in Nat /\ when >= b.l.now
    BY <1>1, <1>4
<1> HIDE DEF when
<1>8. Moves(b, t, f) /\ t.flow = b.flow /\ t.nic = b.nic /\ (RtoLive(b, f) => RtoLive(t, f))
    BY <1>3, <1>6, <1>7, MovesAt
<1>9. Moves(s, t, f)
    BY <1>4, <1>8, MovesOn
<1> QED
    BY <1>4, <1>5, <1>8, <1>9 DEF t

LEMMA SendsOn ==
    ASSUME NEW s \in SimType, NEW f \in Flows, NEW x, NEW t, Sends(s, x, f), Moves(x, t, f),
           t.flow = x.flow, RtoLive(t, f)
    PROVE  Sends(s, t, f)
<1>1. Moves(s, t, f)
    BY MovesOn DEF Sends
<1>2. t \in SimType /\ ListSound(t.l) /\ t.l.now = x.l.now /\ t.l.end = x.l.end
    BY DEF Moves
<1>3. Fit(t, f)
    BY <1>2 DEF Sends, Fit
<1>4. TimedSafe(t, f)
    BY <1>2 DEF Sends, TimedSafe, NearEnd
<1> QED
    BY <1>1, <1>3, <1>4 DEF Sends

LEMMA PacketSends ==
    ASSUME NEW s, NEW f \in Flows, Fit(s, f), Wants(s.flow[f]),
           s.nic.active = <<>> \/ Head(s.nic.active) = f
    PROVE  LET t == SendPacket(s, f)
           IN  Sends(s, t, f) /\ t.nic = Taken(s.nic)
<1> DEFINE x == IF s.flow[f].rtx = {} THEN SendNewPacket(s, f) ELSE SendRtxPacket(s, f)
           t == SendPacket(s, f)
<1>1. Sends(s, x, f) /\ x.nic = s.nic
    BY NewPacketSends, RtxPacketSends DEF Wants
<1>2. t = StartSending(x, f)
    BY DEF SendPacket
<1> HIDE DEF x, t
<1>3. x \in SimType /\ ListSound(x.l) /\ RtoLive(x, f) /\ x.flow[f].next # 0 /\ s \in SimType
    BY <1>1 DEF Sends, Fit
<1>4. Moves(x, t, f) /\ t.flow = x.flow /\ t.nic = Taken(x.nic) /\ RtoLive(t, f)
    BY <1>1, <1>2, <1>3, StartSendingIs
<1>5. Sends(s, t, f)
    BY <1>1, <1>3, <1>4, SendsOn
<1> QED
    BY <1>1, <1>4, <1>5 DEF t

\* Fields that do not matter here: who is blocked, and the port.
LEMMA RegisterIs ==
    ASSUME NEW s \in SimType, NEW f \in Flows, NEW g \in Flows
    PROVE  Register(s, f) = Upd(s, s.l, g, s.flow[g], [s.nic EXCEPT !.active = Append(@, f)])
<1> DEFINE m == [s.nic EXCEPT !.active = Append(@, f)]
<1>1. s = Upd(s, s.l, g, s.flow[g], s.nic)
    BY AsUpd
<1>2. Register(s, f) = [s EXCEPT !.nic = m]
    BY DEF Register
<1> HIDE DEF m
<1> QED
    BY <1>1, <1>2, SetNic DEF m

\* Only who waits for the port, and what nothing depends on, differs.
SameBooks(r, u) ==
    /\ SameTimer(r, u) /\ SameStage(r, u)
    /\ u.sent = r.sent /\ u.timed = r.timed /\ u.rtx = r.rtx
    /\ u.next = r.next /\ u.backlog = r.backlog

LEMMA SameBooksStep ==
    ASSUME NEW s, NEW f \in Flows, Fit(s, f), NEW u \in FlowType, NEW n \in NicType,
           SameBooks(s.flow[f], u)
    PROVE  LET t == Upd(s, s.l, f, u, n)
           IN  /\ Steps(s, t, f) /\ t.flow[f] = u /\ t.nic = n /\ t.l = s.l
               /\ Wants(u) = Wants(s.flow[f]) /\ Out(u) = Out(s.flow[f])
<1> DEFINE r == s.flow[f]
           t == Upd(s, s.l, f, u, n)
<1>1. s \in SimType /\ ListSound(s.l) /\ Books(r, f, s.l.now) /\ RtoLive(s, f) /\ NotEarly(r)
    BY DEF Fit
<1>2. r \in FlowType /\ r.next \in Nat
    BY <1>1, SimFields, NextIsNatural
<1>3. u.next >= r.next /\ SameTimer(r, u) /\ SameStage(r, u)
    BY <1>2 DEF SameBooks
<1>4. /\ Moves(s, t, f) /\ t.l = s.l /\ t.flow[f] = u /\ t.nic = n
      /\ RtoLive(t, f) /\ NotEarly(u)
    BY <1>1, <1>3, MovesLocally
<1> HIDE DEF t
<1>5. Out(u) = Out(r) /\ Gone(u) = Gone(r) /\ Wants(u) = Wants(r)
    BY DEF Out, Gone, Wants, SameBooks
<1>6. Complete(u) = Complete(r)
    BY <1>5 DEF Complete, SameBooks, SameStage
<1>7. Books(u, f, s.l.now)
    BY <1>1, <1>5, <1>6 DEF Books, SameBooks, SameStage
<1>8. Recorded(r) => Recorded(u)
    BY DEF Recorded, SameBooks, SameTimer
<1>9. Fit(t, f)
    BY <1>1, <1>4, <1>7 DEF Fit, Moves
<1>10. TimedSafe(s, f) => TimedSafe(t, f)
    BY <1>4 DEF TimedSafe, Guarded, SameBooks, SameTimer, SameStage
<1> QED
    BY <1>4, <1>5, <1>6, <1>8, <1>9, <1>10 DEF t, Steps

\* Who waits, and that the port is idle only when nobody does.
LEMMA Registers ==
    ASSUME NEW s, s.nic \in NicType, NEW f \in Flows,
           NEW t, t.nic = [s.nic EXCEPT !.active = Append(@, f)]
    PROVE  t.nic \in NicType /\ Waiting(t) = Waiting(s) \cup {f} /\ t.nic.busy = s.nic.busy
<1> DEFINE p == s.nic.active
           q == Append(p, f)
<1>1. p \in Seq(Flows) /\ s.nic.busy \in BOOLEAN
    BY DEF NicType
<1>2. q \in Seq(Flows) /\ Len(q) = Len(p) + 1 /\ q[Len(p) + 1] = f /\ \A i \in 1 .. Len(p) : q[i] = p[i]
    BY <1>1, AppendProperties
<1>3. DOMAIN p = 1 .. Len(p) /\ Len(p) \in Nat /\ DOMAIN q = 1 .. Len(q)
    BY <1>1, <1>2, LenProperties
<1>4. t.nic.active = q /\ t.nic.busy = s.nic.busy /\ t.nic \in NicType
    BY <1>2 DEF NicType
<1> HIDE DEF p, q
<1>5. Waiting(t) = {q[i] : i \in 1 .. Len(p) + 1} /\ Waiting(s) = {p[i] : i \in 1 .. Len(p)}
    BY <1>2, <1>3, <1>4 DEF Waiting, p
<1>6. \A i \in 1 .. Len(p) + 1 : i \in 1 .. Len(p) \/ i = Len(p) + 1
    BY <1>3
<1>7. Len(p) + 1 \in 1 .. Len(p) + 1 /\ \A i \in 1 .. Len(p) : i \in 1 .. Len(p) + 1
    BY <1>3
<1>8. {q[i] : i \in 1 .. Len(p) + 1} = {p[i] : i \in 1 .. Len(p)} \cup {f}
    BY <1>2, <1>6, <1>7
<1> QED
    BY <1>4, <1>5, <1>8

LEMMA RequestAgainStep ==
    ASSUME NEW s, NEW f \in Flows, Fit(s, f), s.nic.busy, PortSound(s, {f})
    PROVE  LET t == RequestAgain(s, f)
           IN  /\ Steps(s, t, f) /\ PortSound(t, {}) /\ t.nic.busy
               /\ t.flow[f].timed = s.flow[f].timed /\ t.flow[f].rtoOf = s.flow[f].rtoOf
<1> DEFINE r == s.flow[f]
           u == [r EXCEPT !.blocked = TRUE]
           m == [s.nic EXCEPT !.active = Append(@, f)]
           b == [s EXCEPT !.flow[f].blocked = TRUE]
           t == RequestAgain(s, f)
<1>1. s \in SimType
    BY DEF Fit
<1>2. r \in FlowType /\ s.nic \in NicType
    BY <1>1, SimFields
<1>3. CASE ~ Wants(r)
  <2>1. t = s
      BY <1>3 DEF RequestAgain
  <2>2. PortSound(s, {})
      BY <1>3 DEF PortSound
  <2> QED
      BY <2>1, <2>2, StepsNot
<1>4. CASE Wants(r)
  <2>1. s = Upd(s, s.l, f, r, s.nic)
      BY <1>1, AsUpd
  <2>2. b = Upd(s, s.l, f, u, s.nic)
    <3>1. b = [s EXCEPT !.flow[f] = u]
        OBVIOUS
    <3> HIDE DEF u, b
    <3> QED
        BY <1>1, <2>1, <3>1, SetFlow
  <2>3. t = [b EXCEPT !.nic.active = Append(@, f)]
      BY <1>4 DEF RequestAgain, Register
  <2>4. u \in FlowType /\ SameBooks(r, u) /\ u.blocked
      BY <1>2 DEF FlowType, SameBooks, SameTimer, SameStage
  <2> HIDE DEF u, t, b
  <2>5. b.nic = s.nic
      BY <1>1, <2>2, UpdParts
  <2>6. t = Upd(s, s.l, f, u, m)
    <3>1. t = [b EXCEPT !.nic = m]
        BY <2>3, <2>5
    <3> HIDE DEF m
    <3> QED
        BY <1>1, <2>2, <3>1, SetNic
  <2>7. t.nic = m /\ t.flow[f] = u /\ \A g \in Flows : g # f => t.flow[g] = s.flow[g]
      BY <1>1, <2>6, UpdParts
  <2>8. m \in NicType /\ Waiting(t) = Waiting(s) \cup {f} /\ t.nic.busy
    <3>1. t.nic = [s.nic EXCEPT !.active = Append(@, f)]
        BY <2>7
    <3>2. t.nic \in NicType /\ Waiting(t) = Waiting(s) \cup {f} /\ t.nic.busy = s.nic.busy
        BY <1>2, <3>1, Registers
    <3> QED
        BY <2>7, <3>2
  <2> HIDE DEF m
  <2>9. Steps(s, t, f) /\ t.flow[f].timed = r.timed /\ t.flow[f].rtoOf = r.rtoOf
      BY <2>4, <2>6, <2>8, SameBooksStep DEF SameBooks, SameTimer
  <2>10. PortSound(t, {})
      BY <2>7, <2>8 DEF PortSound
  <2> QED
      BY <2>8, <2>9, <2>10 DEF t
<1> QED
    BY <1>3, <1>4

LEMMA SendsAreSteps ==
    ASSUME NEW s, NEW f \in Flows, Fit(s, f), Wants(s.flow[f]), NEW t, Sends(s, t, f)
    PROVE  Steps(s, t, f)
<1>1. s.flow[f] \in FlowType /\ Books(s.flow[f], f, s.l.now)
    BY SimFields DEF Fit
<1>2. ~ Complete(s.flow[f])
    BY <1>1, WantsMeans
<1> QED
    BY <1>2 DEF Sends, Steps

\* A sender with something to send sends it or waits.
LEMMA SendIfPermittedStep ==
    ASSUME NEW s, NEW f \in Flows, Fit(s, f), PortSound(s, {f})
    PROVE  LET t == SendIfPermitted(s, f)
           IN  /\ Steps(s, t, f) /\ PortSound(t, {})
               /\ Wants(s.flow[f]) => t.nic.busy
               /\ ~ Wants(s.flow[f]) => t = s
               /\ s.flow[f].timed \subseteq t.flow[f].timed
               /\ Retimes(s.flow[f], t.flow[f])
<1> DEFINE r == s.flow[f]
           t == SendIfPermitted(s, f)
<1>1. s \in SimType /\ s.nic \in NicType /\ r \in FlowType
    BY SimFields DEF Fit
<1>2. Retimes(r, r)
    BY DEF Retimes
<1>3. CASE ~ Wants(r)
  <2>1. t = s
      BY <1>3 DEF SendIfPermitted
  <2>2. PortSound(s, {})
      BY <1>3 DEF PortSound
  <2> QED
      BY <1>2, <1>3, <2>1, <2>2, StepsNot
<1>4. CASE Wants(r) /\ r.blocked
  <2>1. t = s
      BY <1>4 DEF SendIfPermitted
  <2>2. f \in Waiting(s)
      BY <1>4 DEF PortSound
  <2>3. PortSound(s, {})
      BY <2>2 DEF PortSound
  <2>4. s.nic.active # <<>>
      BY <2>2 DEF Waiting
  <2>5. s.nic.busy
      BY <1>1, <2>4 DEF PortSound, NicType
  <2> QED
      BY <1>2, <1>4, <2>1, <2>3, <2>5, StepsNot
<1>5. CASE Wants(r) /\ ~ r.blocked /\ s.nic.busy
  <2>1. t = RequestAgain(s, f)
      BY <1>5 DEF SendIfPermitted
  <2> HIDE DEF t
  <2>2. /\ Steps(s, t, f) /\ PortSound(t, {}) /\ t.nic.busy /\ t.flow[f].timed = r.timed
        /\ t.flow[f].rtoOf = r.rtoOf
      BY <1>5, <2>1, RequestAgainStep
  <2> QED
      BY <1>5, <2>2 DEF t, Retimes
<1>6. CASE Wants(r) /\ ~ r.blocked /\ ~ s.nic.busy
  <2> DEFINE y == SendPacket(s, f)
  <2>1. t = RequestAgain(y, f)
      BY <1>6 DEF SendIfPermitted
  <2>2. s.nic.active = <<>>
      BY <1>6 DEF PortSound
  <2>3. Sends(s, y, f) /\ y.nic = Taken(s.nic)
      BY <1>6, <2>2, PacketSends
  <2> HIDE DEF y, t
  <2>4. y.nic = [busy |-> TRUE, active |-> <<>>]
      BY <2>2, <2>3 DEF Taken
  <2>5. Steps(s, y, f) /\ Fit(y, f)
      BY <1>6, <2>3, SendsAreSteps DEF Sends
  <2>6. Waiting(s) = {} /\ Waiting(y) = {}
      BY <2>2, <2>4 DEF Waiting
  <2>7. PortSound(y, {f})
    <3>1. ~ y.flow[f].blocked /\ \A g \in Flows : g # f => y.flow[g] = s.flow[g]
        BY <1>6, <2>3 DEF Sends, Moves
    <3> QED
        BY <2>4, <2>6, <3>1 DEF PortSound
  <2>8. /\ Steps(y, t, f) /\ PortSound(t, {}) /\ t.nic.busy /\ t.flow[f].timed = y.flow[f].timed
        /\ t.flow[f].rtoOf = y.flow[f].rtoOf
      BY <2>1, <2>4, <2>5, <2>7, RequestAgainStep
  <2>9. Steps(s, t, f)
      BY <2>5, <2>8, StepsOn
  <2>10. r.timed \subseteq t.flow[f].timed
      BY <2>3, <2>8 DEF Sends
  <2>11. Retimes(r, t.flow[f])
      BY <2>3, <2>8 DEF Sends, Steps, Retimes
  <2> QED
      BY <1>6, <2>8, <2>9, <2>10, <2>11 DEF t
<1> QED
    BY <1>3, <1>4, <1>5, <1>6

-----------------------------------------------------------------------------
(* Packets that are to be sent again.                                      *)

\* As Steps, but there may be more to do than before.
Carries(s, t, f) ==
    /\ Moves(s, t, f) /\ Fit(t, f)
    /\ Gone(t.flow[f]) \subseteq Gone(s.flow[f])
    /\ Recorded(s.flow[f]) => Recorded(t.flow[f])
    /\ TimedSafe(s, f) => TimedSafe(t, f)

LEMMA CarriesOn ==
    ASSUME NEW s, NEW f \in Flows, s \in SimType, NEW t, NEW v, Carries(s, t, f), Carries(t, v, f)
    PROVE  Carries(s, v, f)
    BY MovesOn DEF Carries, Fit

LEMMA QueueForRtxCarries ==
    ASSUME NEW s, NEW f \in Flows, Fit(s, f), PortSound(s, {f}), ~ s.flow[f].done,
           NEW q \in Seqs, q \notin Out(s.flow[f]), q \notin s.flow[f].rtx, q < s.flow[f].next
    PROVE  LET t == QueueForRtx(s, f, q)
           IN  /\ Carries(s, t, f) /\ PortSound(t, {}) /\ t.nic.busy
               /\ s.flow[f].timed \subseteq t.flow[f].timed
               /\ Retimes(s.flow[f], t.flow[f])
<1> DEFINE r == s.flow[f]
           u == [r EXCEPT !.rtx = @ \cup {q}]
           b == Upd(s, s.l, f, u, s.nic)
           t == QueueForRtx(s, f, q)
<1>1. s \in SimType /\ ListSound(s.l) /\ Books(r, f, s.l.now) /\ RtoLive(s, f) /\ NotEarly(r)
    BY DEF Fit
<1>2. r \in FlowType /\ s.nic \in NicType /\ r.next \in Nat /\ s.l \in ListType
    BY <1>1, SimFields, NextIsNatural
<1>3. t = SendIfPermitted(b, f)
  <2>1. Check(s.l, q \notin r.rtx, "queued_twice") = s.l
      BY <1>2, CheckHolds
  <2>2. s = Upd(s, s.l, f, r, s.nic)
      BY <1>1, AsUpd
  <2>3. [s EXCEPT !.l = s.l] = s
      BY <1>1 DEF SimType
  <2>4. [s EXCEPT !.l = Check(@, q \notin r.rtx, "queued_twice"), !.flow[f].rtx = @ \cup {q}]
        = [s EXCEPT !.flow[f].rtx = @ \cup {q}]
      BY <2>1, <2>3
  <2>5. [s EXCEPT !.flow[f].rtx = @ \cup {q}] = [s EXCEPT !.flow[f] = u]
      OBVIOUS
  <2> HIDE DEF u
  <2>6. [s EXCEPT !.flow[f] = u] = b
      BY <1>1, <2>2, SetFlow
  <2> QED
      BY <2>4, <2>5, <2>6 DEF QueueForRtx
<1>4. /\ u \in FlowType /\ SameTimer(r, u) /\ SameStage(r, u)
      /\ u.sent = r.sent /\ u.timed = r.timed /\ u.rtx = r.rtx \cup {q} /\ u.blocked = r.blocked
      /\ u.next = r.next /\ u.backlog = r.backlog
    BY <1>2 DEF FlowType, SameTimer, SameStage
<1> HIDE DEF u, t
<1>5. Out(u) = Out(r) /\ Gone(u) = Gone(r)
    BY <1>4 DEF Out, Gone
<1>6. Books(u, f, s.l.now)
    BY <1>1, <1>4, <1>5 DEF Books, SameStage
<1>7. /\ Moves(s, b, f) /\ b.l = s.l /\ b.flow[f] = u /\ b.nic = s.nic
      /\ RtoLive(b, f) /\ NotEarly(u)
  <2>1. u.next >= r.next
      BY <1>2, <1>4
  <2> QED
      BY <1>1, <1>2, <1>4, <2>1, MovesLocally
<1> HIDE DEF b
<1>8. Fit(b, f)
    BY <1>1, <1>6, <1>7 DEF Fit, Moves
<1>9. (Recorded(r) => Recorded(u)) /\ (TimedSafe(s, f) => TimedSafe(b, f))
    BY <1>4, <1>7 DEF Recorded, TimedSafe, Guarded, SameTimer, SameStage
<1>10. Carries(s, b, f)
    BY <1>5, <1>7, <1>8, <1>9 DEF Carries
<1>11. PortSound(b, {f})
  <2>1. \A g \in Flows : g # f => b.flow[g] = s.flow[g]
      BY <1>7 DEF Moves
  <2> QED
      BY <1>4, <1>7, <2>1 DEF PortSound, Waiting
<1>12. Wants(u)
    BY <1>4 DEF Wants
<1>13. /\ Steps(b, t, f) /\ PortSound(t, {}) /\ t.nic.busy /\ u.timed \subseteq t.flow[f].timed
       /\ Retimes(u, t.flow[f])
    BY <1>3, <1>7, <1>8, <1>11, <1>12, SendIfPermittedStep
<1>14. Carries(s, t, f)
    BY <1>1, <1>10, <1>13, CarriesOn DEF Steps, Carries
<1>15. Retimes(r, t.flow[f])
    BY <1>4, <1>13 DEF Retimes, SameTimer
<1> QED
    BY <1>4, <1>13, <1>14, <1>15 DEF t

\* The request that rtxTimerExpired makes once more.
LEMMA InsistStep ==
    ASSUME NEW s, NEW f \in Flows, Fit(s, f), s.nic.busy, PortSound(s, {})
    PROVE  LET t == Insist(s, f)
           IN  Steps(s, t, f) /\ PortSound(t, {}) /\ t.flow[f] = s.flow[f]
<1> DEFINE t == Insist(s, f)
           r == s.flow[f]
           m == [s.nic EXCEPT !.active = Append(@, f)]
<1>1. s \in SimType /\ r \in FlowType /\ s.nic \in NicType
    BY SimFields DEF Fit
<1>2. t = Upd(s, s.l, f, r, m)
    BY <1>1, RegisterIs DEF Insist
<1>3. t.nic = m /\ t.flow[f] = r /\ \A g \in Flows : g # f => t.flow[g] = s.flow[g]
  <2> HIDE DEF t, m, r
  <2> QED
      BY <1>1, <1>2, UpdParts
<1> HIDE DEF t
<1>4. t.nic \in NicType /\ Waiting(t) = Waiting(s) \cup {f} /\ t.nic.busy
  <2>1. t.nic = [s.nic EXCEPT !.active = Append(@, f)]
      BY <1>3
  <2> QED
      BY <1>1, <2>1, Registers
<1>5. SameBooks(r, r)
    BY DEF SameBooks, SameTimer, SameStage
<1> HIDE DEF m
<1>6. Steps(s, t, f)
  <2>1. m \in NicType
      BY <1>3, <1>4
  <2> QED
      BY <1>1, <1>2, <1>5, <2>1, SameBooksStep
<1>7. PortSound(t, {})
    BY <1>3, <1>4 DEF PortSound
<1> QED
    BY <1>3, <1>6, <1>7 DEF t

\* A packet that is timed out is sent again or queued.
LEMMA TimeOutCarries ==
    ASSUME NEW s, NEW f \in Flows, Fit(s, f), PortSound(s, {}), NEW q \in Gone(s.flow[f])
    PROVE  LET t == TimeOut(s, f, q)
           IN  /\ Moves(s, t, f) /\ Fit(t, f) /\ PortSound(t, {})
               /\ Gone(t.flow[f]) \subseteq Gone(s.flow[f]) \ {q}
               /\ Recorded(t.flow[f]) /\ TimedSafe(t, f)
               /\ s.flow[f].timed \subseteq t.flow[f].timed
<1> DEFINE r == s.flow[f]
           u == [r EXCEPT !.sent[q] = Never]
           b == Upd(s, s.l, f, u, s.nic)
           a == RecalculateRTO(b, f)
           y == QueueForRtx(a, f, q)
           t == TimeOut(s, f, q)
<1>1. s \in SimType /\ ListSound(s.l) /\ Books(r, f, s.l.now) /\ r \in FlowType /\ s.nic \in NicType
    BY SimFields DEF Fit
<1>2. q \in Seqs /\ q \in Out(r) /\ q \notin r.timed /\ q \notin r.rtx /\ q < r.next /\ ~ r.done
    BY <1>1 DEF Gone, Out, Books, Complete
<1>3. b = [s EXCEPT !.flow[f].sent[q] = Never]
  <2>1. s = Upd(s, s.l, f, r, s.nic)
      BY <1>1, AsUpd
  <2>2. [s EXCEPT !.flow[f].sent[q] = Never] = [s EXCEPT !.flow[f] = u]
      OBVIOUS
  <2> HIDE DEF u
  <2> QED
      BY <1>1, <2>1, <2>2, SetFlow
<1>4. /\ u \in FlowType /\ Forgets(r, u, q) /\ u.blocked = r.blocked /\ u.rtx = r.rtx
      /\ u.timed = r.timed /\ u.next = r.next /\ u.done = r.done
  <2>1. u \in FlowType /\ u.sent = [r.sent EXCEPT ![q] = Never]
      BY <1>1, <1>2 DEF FlowType
  <2>2. u.timed = r.timed \ {q} /\ u.timed = r.timed
      BY <1>1, <1>2 DEF FlowType
  <2>3. SameTimer(r, u) /\ SameStage(r, u) /\ SameWork(r, u)
      BY <1>1 DEF FlowType, SameTimer, SameStage, SameWork
  <2> QED
      BY <2>1, <2>2, <2>3 DEF Forgets, SameStage, SameWork
<1>5. t = IF a.flow[f].rtx # {} THEN y ELSE Insist(y, f)
    BY <1>3 DEF TimeOut
<1> HIDE DEF u, t
<1>6. Out(u) = Out(r) \ {q} /\ Gone(u) = Gone(r) \ {q}
    BY <1>1, <1>2, <1>4, ForgetsOne
<1>7. Moves(s, b, f) /\ Fit(b, f) /\ b.flow[f] = u /\ b.nic = s.nic
    BY <1>1, <1>2, <1>4, ForgetsStep
<1> HIDE DEF b
<1>8. /\ Steps(b, a, f) /\ a.nic = b.nic /\ TimerOnly(u, a.flow[f])
      /\ Recorded(a.flow[f]) /\ TimedSafe(a, f)
    BY <1>7, RecalculatesStep
<1> HIDE DEF a
<1>9. /\ a.flow[f].rtx = r.rtx /\ a.flow[f].timed = r.timed /\ a.flow[f].next = r.next
      /\ a.flow[f].done = r.done /\ a.flow[f].blocked = r.blocked
    BY <1>4, <1>8, TimerFields
<1>10. Out(a.flow[f]) = Out(u) /\ Gone(a.flow[f]) = Gone(u) /\ Wants(a.flow[f]) = Wants(u)
    BY <1>4, <1>8, TimerKeeps
<1>11. PortSound(a, {f})
  <2>1. \A g \in Flows : g # f => a.flow[g] = s.flow[g]
      BY <1>7, <1>8 DEF Moves, Steps
  <2> QED
      BY <1>7, <1>8, <1>9, <2>1 DEF PortSound, Waiting
<1>12. Fit(a, f)
    BY <1>8 DEF Steps
<1>13. /\ Carries(a, y, f) /\ PortSound(y, {}) /\ y.nic.busy
       /\ a.flow[f].timed \subseteq y.flow[f].timed
    BY <1>2, <1>6, <1>9, <1>10, <1>11, <1>12, QueueForRtxCarries
<1> HIDE DEF y
<1>14. Fit(y, f)
    BY <1>13 DEF Carries
<1>15. Steps(y, t, f) /\ PortSound(t, {}) /\ t.flow[f] = y.flow[f]
  <2>1. CASE a.flow[f].rtx # {}
      BY <1>5, <1>13, <1>14, <2>1, StepsNot
  <2>2. CASE a.flow[f].rtx = {}
      BY <1>5, <1>13, <1>14, <2>2, InsistStep
  <2> QED
      BY <2>1, <2>2
<1>16. Moves(s, t, f)
  <2>1. Moves(s, a, f)
      BY <1>1, <1>7, <1>8, MovesOn DEF Steps
  <2>2. Moves(s, y, f)
      BY <1>1, <1>13, <2>1, MovesOn DEF Carries
  <2> QED
      BY <1>1, <1>15, <2>2, MovesOn DEF Steps
<1>17. Recorded(t.flow[f]) /\ TimedSafe(t, f)
    BY <1>8, <1>13, <1>15 DEF Carries, Steps
<1>18. Gone(t.flow[f]) \subseteq Gone(r) \ {q}
    BY <1>6, <1>10, <1>13, <1>15 DEF Carries
<1> QED
    BY <1>9, <1>13, <1>15, <1>16, <1>17, <1>18 DEF t, Steps

LEMMA GuardedIsWatched ==
    ASSUME NEW s, NEW f \in Flows, Guarded(s.flow[f])
    PROVE  Watched(s, f)
    BY DEF Watched

\* The timer has expired: the packet sent first is given up, the timer is set
\* for those that are left.
LEMMA ExpiryStep ==
    ASSUME NEW s \in SimType, ListSound(s.l), NEW f \in Flows, Books(s.flow[f], f, s.l.now),
           Watched(s, f), PortSound(s, {}), s.flow[f].timed # {}
    PROVE  LET t == RtxTimerExpired(s, f)
           IN  /\ Moves(s, t, f) /\ Fit(t, f) /\ Recorded(t.flow[f])
               /\ Watched(t, f) /\ PortSound(t, {})
               /\ s.flow[f].timed \ {Oldest(s.flow[f])} \subseteq t.flow[f].timed
<1> DEFINE r == s.flow[f]
           q == Oldest(r)
           c == [r EXCEPT !.rtoHandle = NullHandle, !.pending = FALSE]
           u == [c EXCEPT !.timed = @ \ {q}]
           a == Upd(s, s.l, f, u, s.nic)
           t == RtxTimerExpired(s, f)
<1>1. r \in FlowType /\ s.nic \in NicType /\ s.l \in ListType
    BY SimFields
<1>2. q \in r.timed
    BY <1>1, OldestIs DEF Books
<1>3. r.timed \subseteq Out(r) /\ q \in Out(r) /\ q \in Seqs
    BY <1>2 DEF Books, Out
<1> HIDE DEF q
<1>4. a = [ClearRTO(s, f) EXCEPT !.flow[f].timed = @ \ {q}]
  <2> DEFINE x == ClearRTO(s, f)
  <2>1. x = Upd(s, s.l, f, c, s.nic)
      BY ClearRTOIs
  <2>2. x.flow[f] = c
    <3> HIDE DEF x, c
    <3> QED
        BY <2>1, UpdParts
  <2>3. [x EXCEPT !.flow[f].timed = @ \ {q}] = [x EXCEPT !.flow[f] = [x.flow[f] EXCEPT !.timed = @ \ {q}]]
      OBVIOUS
  <2> HIDE DEF x, c
  <2>4. [x EXCEPT !.flow[f].timed = @ \ {q}] = [x EXCEPT !.flow[f] = u]
      BY <2>2, <2>3
  <2> HIDE DEF u
  <2> QED
      BY <2>1, <2>4, SetFlow DEF x
<1>5. /\ u \in FlowType /\ ~ u.pending /\ u.timed = r.timed \ {q} /\ u.sent = r.sent /\ u.rtx = r.rtx
      /\ u.blocked = r.blocked /\ u.next = r.next /\ u.backlog = r.backlog /\ SameStage(r, u)
    BY <1>1 DEF FlowType, SameStage, NullHandle
<1>6. t = IF mode.sleek /\ a.flow[f].loss THEN LeaveToSleek(a, f, q) ELSE TimeOut(a, f, q)
    BY <1>2, <1>4 DEF RtxTimerExpired, q
<1> HIDE DEF u, t
<1>7. /\ a \in SimType /\ a.l = s.l /\ a.nic = s.nic /\ a.flow[f] = u
      /\ \A g \in Flows : g # f => a.flow[g] = s.flow[g]
    BY <1>1, <1>5, Updated
<1> HIDE DEF a
<1>8. Moves(s, a, f)
  <2>1. u.next >= r.next
      BY <1>5, NextIsNatural
  <2> QED
      BY <1>5, <1>7, <2>1 DEF Moves, Apart, SameStage
<1>9. Out(u) = Out(r) /\ Wants(u) = Wants(r) /\ Gone(u) = Gone(r) \cup {q} /\ ~ Complete(r)
    BY <1>2, <1>3, <1>5 DEF Out, Wants, Gone, Complete
<1>10. Books(u, f, s.l.now)
    BY <1>3, <1>5, <1>9 DEF Books, SameStage, Complete
<1>11. Fit(a, f) /\ PortSound(a, {}) /\ Recorded(u)
    BY <1>5, <1>7, <1>10 DEF Fit, RtoLive, NotEarly, Recorded, PortSound, Waiting, Wants
<1>12. r.loss => Guarded(r)
    BY <1>9 DEF Watched
<1>13. CASE mode.sleek /\ u.loss
  <2>1. Guarded(u) /\ t = LeaveToSleek(a, f, q)
      BY <1>5, <1>6, <1>7, <1>12, <1>13 DEF SameStage, Guarded
  <2>2. /\ Moves(a, t, f) /\ Fit(t, f) /\ Recorded(t.flow[f]) /\ PortSound(t, {})
        /\ t.flow[f].timed = u.timed
    <3>1. CASE q \notin u.resent
      <4>1. t = RecalculateRTO(a, f)
          BY <1>7, <2>1, <3>1 DEF LeaveToSleek
      <4>2. /\ Steps(a, t, f) /\ t.nic = a.nic /\ TimerOnly(u, t.flow[f]) /\ Recorded(t.flow[f])
          BY <1>7, <1>11, <4>1, RecalculatesStep
      <4>3. t.flow[f].timed = u.timed /\ t.flow[f].blocked = u.blocked
          BY <1>5, <4>2, TimerFields
      <4>4. Wants(t.flow[f]) = Wants(u)
          BY <1>5, <4>2, TimerKeeps
      <4>5. \A g \in Flows : g # f => t.flow[g] = a.flow[g]
          BY <4>2 DEF Steps, Moves
      <4>6. PortSound(t, {})
          BY <1>7, <1>11, <4>2, <4>3, <4>4, <4>5 DEF PortSound, Waiting
      <4> QED
          BY <4>2, <4>3, <4>6 DEF Steps
    <3>2. CASE q \in u.resent
      <4> DEFINE v == [u EXCEPT !.highestRtx = q]
      <4>1. t = [a EXCEPT !.flow[f] = v]
          BY <1>7, <2>1, <3>2 DEF LeaveToSleek
      <4>2. q \in Nat
          BY <1>3, SizesAre
      <4>3. v \in FlowType /\ SameBooks(u, v) /\ v.blocked = u.blocked
          BY <1>5, <4>2 DEF FlowType, SameBooks, SameTimer, SameStage
      <4> HIDE DEF v
      <4>4. t = Upd(a, a.l, f, v, a.nic)
        <5>1. a = Upd(a, a.l, f, u, a.nic)
            BY <1>7, AsUpd
        <5> QED
            BY <1>7, <4>1, <5>1, SetFlow
      <4>5. a.nic \in NicType
          BY <1>1, <1>7
      <4>6. /\ Steps(a, t, f) /\ t.flow[f] = v /\ t.nic = a.nic /\ Wants(v) = Wants(u)
          BY <1>7, <1>11, <4>3, <4>4, <4>5, SameBooksStep
      <4>7. \A g \in Flows : g # f => t.flow[g] = a.flow[g]
          BY <4>6 DEF Steps, Moves
      <4>8. PortSound(t, {})
          BY <1>7, <1>11, <4>3, <4>6, <4>7 DEF PortSound, Waiting
      <4> QED
          BY <1>7, <1>11, <4>3, <4>6, <4>8 DEF Steps, SameBooks
    <3> QED
        BY <3>1, <3>2
  <2>3. Watched(t, f)
    <3>1. Guarded(t.flow[f])
        BY <1>7, <2>1, <2>2 DEF Moves, Guarded
    <3> QED
        BY <3>1, GuardedIsWatched
  <2>4. Moves(s, t, f)
      BY <1>8, <2>2, MovesOn
  <2> QED
      BY <1>5, <2>2, <2>3, <2>4 DEF t, q
<1>14. CASE ~ (mode.sleek /\ u.loss)
  <2>1. t = TimeOut(a, f, q) /\ q \in Gone(a.flow[f])
      BY <1>6, <1>7, <1>9, <1>14
  <2>2. /\ Moves(a, t, f) /\ Fit(t, f) /\ PortSound(t, {})
        /\ Gone(t.flow[f]) \subseteq Gone(u) \ {q}
        /\ Recorded(t.flow[f]) /\ TimedSafe(t, f)
        /\ u.timed \subseteq t.flow[f].timed
      BY <1>7, <1>11, <2>1, TimeOutCarries
  <2>3. Moves(s, t, f)
      BY <1>8, <2>2, MovesOn
  <2>4. Watched(t, f)
    <3>1. t.flow[f].probeWhen = r.probeWhen /\ t.flow[f].loss = r.loss
        BY <2>3 DEF Moves
    <3>2. Out(t.flow[f]) # t.flow[f].timed => Guarded(t.flow[f])
      <4>1. t.flow[f].timed \subseteq Out(t.flow[f])
          BY <2>2 DEF Fit, Books
      <4>2. Gone(t.flow[f]) \subseteq Gone(r)
          BY <1>9, <2>2
      <4>3. Gone(r) # {} => Guarded(r)
          BY DEF Gone, Watched
      <4> QED
          BY <3>1, <4>1, <4>2, <4>3 DEF Gone, Guarded
    <3> QED
        BY <1>12, <2>2, <3>1, <3>2 DEF Watched, TimedSafe, Guarded
  <2> QED
      BY <1>5, <2>2, <2>3, <2>4 DEF t, q
<1> QED
    BY <1>13, <1>14

-----------------------------------------------------------------------------
(* What a handler of one flow leaves alone.                                *)

FlowSound(s, f) ==
    /\ Books(s.flow[f], f, s.l.now) /\ Recorded(s.flow[f]) /\ NotEarly(s.flow[f])
    /\ RtoLive(s, f) /\ ProbeLive(s, f) /\ Watched(s, f) /\ StartsOnce(s, f)

\* All is well but for flow f, the port and the triggers.
World(s, f) ==
    /\ s \in SimType /\ ListSound(s.l) /\ Truthful(s)
    /\ \A g \in Flows : g # f => FlowSound(s, g)

\* The events of the others stay, what is new is of f.
Keeps(s, t, f) ==
    /\ t \in SimType /\ ListSound(t.l)
    /\ t.l.now = s.l.now /\ t.l.end = s.l.end
    /\ \A g \in Flows : g # f => t.flow[g] = s.flow[g]
    /\ \A e \in Entries(s.l) : e.src # SrcOf(f) => e \in Entries(t.l)
    /\ \A e \in Entries(t.l) : e \in Entries(s.l) \/ IsNew(e.src, t.flow[f], f)
    /\ t.flow[f].next >= s.flow[f].next

\* Flow f neither starts nor ends, and no trigger is touched.
SameRun(s, t, f) ==
    /\ t.l.targets = s.l.targets /\ t.l.shots = s.l.shots
    /\ t.flow[f].started = s.flow[f].started /\ t.flow[f].done = s.flow[f].done

OthersApart(s, f) == \A e \in Entries(s.l) : e.src # SrcOf(f) => Apart(e, s, f)

LEMMA RtoLiveApart ==
    ASSUME NEW s, ListSound(s.l), NEW f \in Flows, RtoLive(s, f)
    PROVE  OthersApart(s, f)
<1> SUFFICES ASSUME NEW e \in Entries(s.l), e.src # SrcOf(f), s.flow[f].pending
             PROVE  e.handle # s.flow[f].rtoHandle
    BY DEF OthersApart, Apart
<1> DEFINE d == RtoEntry(s.flow[f], f)
<1>1. d \in Entries(s.l) /\ d.handle = s.flow[f].rtoHandle /\ d.src = SrcOf(f)
    BY DEF RtoLive, RtoEntry
<1> HIDE DEF d
<1>2. e.handle = d.handle => e = d
    BY <1>1, HandlesDiffer DEF ListSound
<1> QED
    BY <1>1, <1>2

LEMMA MovesKeeps ==
    ASSUME NEW s, NEW f \in Flows, OthersApart(s, f), NEW t, Moves(s, t, f)
    PROVE  Keeps(s, t, f) /\ SameRun(s, t, f)
    BY DEF Moves, Keeps, SameRun, OthersApart

LEMMA KeepsOn ==
    ASSUME NEW s \in SimType, NEW f \in Flows, NEW t, NEW v, Keeps(s, t, f), Keeps(t, v, f)
    PROVE  Keeps(s, v, f)
<1>1. /\ s.flow[f].next \in Nat /\ t.flow[f].next \in Nat /\ v.flow[f].next \in Nat
      /\ t \in SimType /\ v \in SimType
    BY NextIsNatural DEF Keeps
<1>2. v.flow[f].next >= s.flow[f].next
    BY <1>1 DEF Keeps
<1>3. ASSUME NEW src, IsNew(src, t.flow[f], f)
      PROVE  IsNew(src, v.flow[f], f)
  <2>1. t.flow[f].next # 0 /\ v.flow[f].next >= t.flow[f].next
      BY <1>3 DEF IsNew, Keeps
  <2>2. v.flow[f].next # 0
      BY <1>1, <2>1
  <2>3. ASSUME src.kind = "data", src \in EventSources, src.psn < t.flow[f].next
        PROVE  src.psn < v.flow[f].next
    <3>1. src.psn \in Nat
        BY <2>3 DEF EventSources, SrcOf, Port, Logger, DataPackets, Acks
    <3> QED
        BY <1>1, <2>1, <2>3, <3>1
  <2> QED
      BY <1>3, <2>2, <2>3 DEF IsNew
<1>4. \A e \in Entries(v.l) : e \in Entries(s.l) \/ IsNew(e.src, v.flow[f], f)
    BY <1>3 DEF Keeps
<1>5. \A e \in Entries(s.l) : e.src # SrcOf(f) => e \in Entries(v.l)
    BY DEF Keeps
<1> QED
    BY <1>2, <1>4, <1>5 DEF Keeps

LEMMA SameRunOn ==
    ASSUME NEW s, NEW f, NEW t, NEW v, SameRun(s, t, f), SameRun(t, v, f)
    PROVE  SameRun(s, v, f)
    BY DEF SameRun

\* A new event is none of another flow, and honest.
LEMMA NewIsOwn ==
    ASSUME NEW f \in Flows, NEW s, NEW src, IsNew(src, s.flow[f], f)
    PROVE  /\ \A g \in Flows : g # f => src # SrcOf(g)
           /\ Honest(src, s)
<1>1. ASSUME NEW g \in Flows, g # f
      PROVE  src # SrcOf(g)
  <2>1. SrcOf(g) # SrcOf(f) /\ SrcOf(g) # Port /\ SrcOf(g).kind # "data"
    <3>1. SrcOf(g).f = g /\ SrcOf(f).f = f /\ SrcOf(g).kind = "src" /\ Port.kind = "nic"
        BY DEF SrcOf, Port
    <3> QED
        BY <1>1, <3>1
  <2> QED
      BY <2>1 DEF IsNew
<1>2. Honest(src, s)
    BY DEF IsNew, Honest, SrcOf, Port
<1> QED
    BY <1>1, <1>2

LEMMA WorldKept ==
    ASSUME NEW s, NEW f \in Flows, World(s, f), NEW t, Keeps(s, t, f)
    PROVE  World(t, f)
<1>1. s \in SimType /\ t \in SimType /\ ListSound(t.l) /\ t.l.now = s.l.now /\ t.l.end = s.l.end
    BY DEF World, Keeps
<1>2. ASSUME NEW g \in Flows, g # f
      PROVE  FlowSound(t, g)
  <2>1. t.flow[g] = s.flow[g] /\ FlowSound(s, g)
      BY <1>2 DEF Keeps, World
  <2>2. SrcOf(g) # SrcOf(f)
    <3>1. SrcOf(g).f = g /\ SrcOf(f).f = f
        BY DEF SrcOf
    <3> QED
        BY <1>2, <3>1
  <2>3. \A e \in Entries(s.l) : e.src = SrcOf(g) => e \in Entries(t.l)
      BY <2>2 DEF Keeps
  <2>4. RtoLive(t, g)
    <3>1. RtoEntry(s.flow[g], g).src = SrcOf(g)
        BY DEF RtoEntry
    <3> QED
        BY <2>1, <2>3, <3>1 DEF RtoLive, FlowSound
  <2>5. ProbeLive(t, g)
    <3>1. ProbeEntry(s.flow[g], g).src = SrcOf(g)
        BY DEF ProbeEntry
    <3> QED
        BY <2>1, <2>3, <3>1 DEF ProbeLive, Apart, FlowSound
  <2>6. \A e \in Entries(t.l) : e.src = SrcOf(g) => e \in Entries(s.l)
      BY <1>2, NewIsOwn DEF Keeps
  <2>7. StartsOnce(t, g)
      BY <2>1, <2>6 DEF StartsOnce, FlowSound
  <2>8. Watched(t, g)
      BY <1>1, <2>1 DEF Watched, NearEnd, FlowSound
  <2>9. Books(t.flow[g], g, t.l.now) /\ Recorded(t.flow[g]) /\ NotEarly(t.flow[g])
      BY <1>1, <2>1 DEF FlowSound
  <2> QED
      BY <2>4, <2>5, <2>7, <2>8, <2>9 DEF FlowSound
<1>3. Truthful(t)
  <2> SUFFICES ASSUME NEW e \in Entries(t.l)
               PROVE  Honest(e.src, t)
      BY DEF Truthful
  <2>1. CASE IsNew(e.src, t.flow[f], f)
      BY <2>1, NewIsOwn
  <2>2. CASE e \in Entries(s.l)
    <3>1. Honest(e.src, s)
        BY <2>2 DEF World, Truthful
    <3>2. e.src \in EventSources
        BY <1>1, EntriesTyped, SimFields, <2>2 DEF EntryType
    <3>3. \A g \in Flows : s.flow[g].next \in Nat /\ t.flow[g].next \in Nat /\ t.flow[g].next >= s.flow[g].next
      <4>1. ASSUME NEW g \in Flows
            PROVE  s.flow[g].next \in Nat /\ t.flow[g].next \in Nat /\ t.flow[g].next >= s.flow[g].next
        <5>1. s.flow[g].next \in Nat /\ t.flow[g].next \in Nat
            BY <1>1, NextIsNatural
        <5>2. g = f \/ t.flow[g].next = s.flow[g].next
            BY DEF Keeps
        <5> QED
            BY <5>1, <5>2 DEF Keeps
      <4> QED
          BY <4>1
    <3>4. CASE e.src.kind = "data"
      <4>1. e.src.f \in Flows /\ e.src.psn \in Nat
          BY <3>2, <3>4 DEF EventSources, SrcOf, Port, Logger, DataPackets, Acks
      <4>2. s.flow[e.src.f].next # 0 /\ (~ e.src.probe => e.src.psn < s.flow[e.src.f].next)
          BY <3>1, <3>4 DEF Honest
      <4>3. t.flow[e.src.f].next # 0
          BY <3>3, <4>1, <4>2
      <4>4. ~ e.src.probe => e.src.psn < t.flow[e.src.f].next
          BY <3>3, <4>1, <4>2
      <4> QED
          BY <3>4, <4>3, <4>4 DEF Honest
    <3>5. CASE e.src.kind = "ack"
      <4>1. e.src.f \in Flows /\ e.src.cum \in Nat
          BY <3>2, <3>5 DEF EventSources, SrcOf, Port, Logger, DataPackets, Acks
      <4>2. s.flow[e.src.f].next # 0 /\ e.src.cum <= s.flow[e.src.f].next
          BY <3>1, <3>5 DEF Honest
      <4>3. t.flow[e.src.f].next # 0 /\ e.src.cum <= t.flow[e.src.f].next
          BY <3>3, <4>1, <4>2
      <4> QED
          BY <3>5, <4>3 DEF Honest
    <3>6. CASE e.src.kind # "data" /\ e.src.kind # "ack"
        BY <3>6 DEF Honest
    <3> QED
        BY <3>4, <3>5, <3>6
  <2> QED
      BY <2>1, <2>2 DEF Keeps
<1> QED
    BY <1>1, <1>2, <1>3 DEF World

LEMMA TriggersKept ==
    ASSUME NEW s \in SimType, NEW f \in Flows, NEW t, TriggersSound(s), SameRun(s, t, f),
           \A g \in Flows : g # f => t.flow[g] = s.flow[g]
    PROVE  TriggersSound(t)
<1>1. \A g \in Flows : t.flow[g].started = s.flow[g].started /\ t.flow[g].done = s.flow[g].done
    BY DEF SameRun
<1>2. t.l.targets = s.l.targets /\ t.l.shots = s.l.shots
    BY DEF SameRun
<1>3. \A g \in Triggers : {h \in Feeding(g) : t.flow[h].done} = {h \in Feeding(g) : s.flow[h].done}
    BY <1>1 DEF Feeding
<1>4. \A g \in Flows : Due(s, g) = Due(t, g)
    BY <1>2 DEF Due
<1>5. \A i \in DOMAIN s.l.targets : s.l.targets[i] \in Flows
  <2>1. s.l.targets \in Seq(Flows)
      BY DEF SimType, ListType
  <2> QED
      BY <2>1, ElementOfSeq
<1> QED
    BY <1>1, <1>2, <1>3, <1>4, <1>5 DEF TriggersSound

LEMMA StartsOnceKept ==
    ASSUME NEW s \in SimType, NEW f \in Flows, NEW t, StartsOnce(s, f), Keeps(s, t, f), SameRun(s, t, f)
    PROVE  StartsOnce(t, f)
<1>1. s.flow[f].next \in Nat /\ t.flow[f].next \in Nat /\ t.flow[f].next >= s.flow[f].next
    BY NextIsNatural DEF Keeps
<1>2. CASE t.flow[f].next = 0
  <2>1. s.flow[f].next = 0
      BY <1>1, <1>2
  <2>2. Entries(t.l) \subseteq Entries(s.l)
      BY <1>2 DEF Keeps, IsNew
  <2> QED
      BY <2>1, <2>2 DEF StartsOnce, SameRun
<1>3. CASE t.flow[f].next # 0
    BY <1>3 DEF StartsOnce
<1> QED
    BY <1>2, <1>3

LEMMA ProbeStays ==
    ASSUME NEW s, NEW f \in Flows, NEW t, Moves(s, t, f), ProbeLive(s, f)
    PROVE  ProbeLive(t, f)
    BY DEF Moves, ProbeLive, ProbeEntry

LEMMA WatchedStays ==
    ASSUME NEW s, NEW f \in Flows, NEW t, Steps(s, t, f), Fit(s, f), Watched(s, f)
    PROVE  Watched(t, f)
<1>1. t.flow[f].probeWhen = s.flow[f].probeWhen /\ t.flow[f].loss = s.flow[f].loss
    BY DEF Steps, Moves
<1>2. TimedSafe(s, f)
    BY DEF TimedSafe, Watched
<1>3. TimedSafe(t, f)
    BY <1>2 DEF Steps
<1>4. Out(t.flow[f]) # t.flow[f].timed => Guarded(t.flow[f])
  <2>1. t.flow[f].timed \subseteq Out(t.flow[f])
      BY DEF Steps, Fit, Books
  <2>2. Gone(t.flow[f]) \subseteq Gone(s.flow[f])
      BY DEF Steps
  <2>3. Gone(s.flow[f]) # {} => Guarded(s.flow[f])
      BY DEF Gone, Watched
  <2> QED
      BY <1>1, <2>1, <2>2, <2>3 DEF Gone, Guarded
<1>5. t.flow[f].loss => Guarded(t.flow[f]) \/ Complete(t.flow[f])
    BY <1>1 DEF Watched, Guarded, Steps
<1> QED
    BY <1>3, <1>4, <1>5 DEF Watched, TimedSafe

LEMMA AllSound ==
    ASSUME NEW s, NEW f \in Flows, World(s, f), TriggersSound(s), PortSound(s, {}), FlowSound(s, f)
    PROVE  SimSound(s)
    BY DEF World, FlowSound, SimSound

LEMMA SoundParts ==
    ASSUME NEW s, SimSound(s), NEW f \in Flows
    PROVE  /\ World(s, f) /\ TriggersSound(s) /\ PortSound(s, {}) /\ FlowSound(s, f)
           /\ s \in SimType /\ ListSound(s.l) /\ Fit(s, f)
    BY DEF World, FlowSound, SimSound, Fit

LEMMA PopSound ==
    ASSUME NEW s, SimSound(s), s.l.pending # <<>>
    PROVE  LET t == [s EXCEPT !.l = Pop(@)]
               e == Head(s.l.pending)
           IN  /\ t \in SimType /\ ListSound(t.l) /\ t.flow = s.flow /\ t.nic = s.nic
               /\ t.l.end = s.l.end /\ t.l.now = e.when /\ t.l.targets = s.l.targets
               /\ e \in Entries(s.l) /\ e \in EntryType /\ Entries(t.l) = Entries(s.l) \ {e}
               /\ Honest(e.src, t)
               /\ Truthful(t) /\ TriggersSound(t) /\ PortSound(t, {})
               /\ \A g \in Flows :
                     /\ Books(t.flow[g], g, t.l.now) /\ Recorded(t.flow[g]) /\ NotEarly(t.flow[g])
                     /\ Watched(t, g) /\ StartsOnce(t, g)
                     /\ RtoEntry(s.flow[g], g) # e => RtoLive(t, g)
                     /\ ProbeEntry(s.flow[g], g) # e => ProbeLive(t, g)
<1> DEFINE t == [s EXCEPT !.l = Pop(@)]
           e == Head(s.l.pending)
           v == Pop(s.l)
<1>1. s \in SimType /\ ListSound(s.l) /\ s.l \in ListType
    BY DEF SimSound, SimType
<1>2. t.l = v /\ t.flow = s.flow /\ t.nic = s.nic
    BY <1>1 DEF SimType
<1>3. /\ ListSound(v) /\ v.end = s.l.end /\ v.targets = s.l.targets /\ v.shots = s.l.shots
      /\ e \in Entries(s.l) /\ v.now = e.when /\ e.when >= s.l.now
      /\ Entries(v) = Entries(s.l) \ {e}
    BY <1>1, Pops
<1>4. t \in SimType
  <2>1. v \in ListType
      BY <1>3 DEF ListSound
  <2> HIDE DEF v
  <2>2. t = [s EXCEPT !.l = v]
      BY DEF v
  <2> QED
      BY <1>1, <2>1, <2>2 DEF SimType
<1>5. e \in EntryType
    BY <1>1, <1>3, EntriesTyped
<1> HIDE DEF v, t, e
<1>6. Truthful(s) /\ TriggersSound(s) /\ PortSound(s, {})
    BY DEF SimSound
<1>7. Honest(e.src, t) /\ Truthful(t)
    BY <1>2, <1>3, <1>6 DEF Truthful, Honest
<1>8. TriggersSound(t)
    BY <1>2, <1>3, <1>6 DEF TriggersSound, Due
<1>9. PortSound(t, {})
    BY <1>2, <1>6 DEF PortSound, Waiting
<1>10. ASSUME NEW g \in Flows
       PROVE  /\ Books(t.flow[g], g, t.l.now) /\ Recorded(t.flow[g]) /\ NotEarly(t.flow[g])
              /\ Watched(t, g) /\ StartsOnce(t, g)
              /\ RtoEntry(s.flow[g], g) # e => RtoLive(t, g)
              /\ ProbeEntry(s.flow[g], g) # e => ProbeLive(t, g)
  <2> DEFINE r == s.flow[g]
  <2>1. /\ Books(r, g, s.l.now) /\ Recorded(r) /\ NotEarly(r)
        /\ RtoLive(s, g) /\ ProbeLive(s, g) /\ Watched(s, g) /\ StartsOnce(s, g)
      BY DEF SimSound
  <2>2. t.flow[g] = r /\ r \in FlowType
      BY <1>1, <1>2, SimFields
  <2> HIDE DEF r
  <2>3. s.l.now \in Nat /\ v.now \in Nat /\ v.now >= s.l.now /\ v.end \in Nat
    <3>1. s.l.now \in Nat /\ s.l.end \in Nat
        BY <1>1 DEF ListType
    <3> QED
        BY <1>3, <1>5, <3>1 DEF EntryType
  <2>4. Books(r, g, v.now)
    <3>1. \A q \in Out(r) : r.sent[q] \in Nat
        BY <2>2 DEF FlowType, Out, Never
    <3>2. \A q \in Out(r) : r.sent[q] <= v.now
        BY <2>1, <2>3, <3>1 DEF Books
    <3> QED
        BY <2>1, <3>2 DEF Books
  <2>5. Watched(t, g)
    <3>1. NearEnd(s.l) => NearEnd(v)
        BY <1>3, <2>3, RecoveryAssumption DEF NearEnd
    <3> QED
        BY <1>2, <2>1, <2>2, <3>1 DEF Watched, r
  <2>6. StartsOnce(t, g)
      BY <1>2, <1>3, <2>1, <2>2 DEF StartsOnce, r
  <2>7. RtoEntry(r, g) # e => RtoLive(t, g)
      BY <1>2, <1>3, <2>1, <2>2 DEF RtoLive, r
  <2>8. ProbeEntry(r, g) # e => ProbeLive(t, g)
      BY <1>2, <1>3, <2>1, <2>2 DEF ProbeLive, Apart, r
  <2> QED
      BY <1>2, <2>1, <2>2, <2>4, <2>5, <2>6, <2>7, <2>8 DEF r
<1> QED
    BY <1>2, <1>3, <1>4, <1>5, <1>7, <1>8, <1>9, <1>10 DEF t, e

\* Flows that the event is not of do not notice.
LEMMA PopOthers ==
    ASSUME NEW s, SimSound(s), s.l.pending # <<>>, NEW g \in Flows,
           Head(s.l.pending).src # SrcOf(g)
    PROVE  FlowSound([s EXCEPT !.l = Pop(@)], g)
<1> DEFINE t == [s EXCEPT !.l = Pop(@)]
           e == Head(s.l.pending)
<1>1. RtoEntry(s.flow[g], g) # e /\ ProbeEntry(s.flow[g], g) # e
  <2>1. RtoEntry(s.flow[g], g).src = SrcOf(g) /\ ProbeEntry(s.flow[g], g).src = SrcOf(g)
      BY DEF RtoEntry, ProbeEntry
  <2> QED
      BY <2>1
<1>2. /\ Books(t.flow[g], g, t.l.now) /\ Recorded(t.flow[g]) /\ NotEarly(t.flow[g])
      /\ Watched(t, g) /\ StartsOnce(t, g)
      /\ RtoEntry(s.flow[g], g) # e => RtoLive(t, g)
      /\ ProbeEntry(s.flow[g], g) # e => ProbeLive(t, g)
    BY PopSound
<1> QED
    BY <1>1, <1>2 DEF FlowSound

\* The event of a flow is at hand: all is well but for what this event stood for.
LEMMA PopOfFlow ==
    ASSUME NEW s, SimSound(s), s.l.pending # <<>>, NEW f \in Flows,
           \A g \in Flows : g # f => Head(s.l.pending).src # SrcOf(g)
    PROVE  World([s EXCEPT !.l = Pop(@)], f)
<1>1. \A g \in Flows : g # f => FlowSound([s EXCEPT !.l = Pop(@)], g)
    BY PopOthers
<1> QED
    BY <1>1, PopSound DEF World

\* The event of no flow.
LEMMA PopOfNone ==
    ASSUME NEW s, SimSound(s), s.l.pending # <<>>, Head(s.l.pending).src.kind # "src"
    PROVE  SimSound([s EXCEPT !.l = Pop(@)])
<1>1. \A g \in Flows : Head(s.l.pending).src # SrcOf(g)
    BY DEF SrcOf
<1>2. \A g \in Flows : FlowSound([s EXCEPT !.l = Pop(@)], g)
    BY <1>1, PopOthers
<1> QED
    BY <1>2, PopSound DEF SimSound, FlowSound

-----------------------------------------------------------------------------
(* Probes.                                                                 *)

\* Only the probe timer differs.
ProbeOnly(r, u) ==
    u = [r EXCEPT !.probeWhen = u.probeWhen, !.probeHandle = u.probeHandle,
                  !.probeSeq = u.probeSeq, !.probeSent = u.probeSent]

Probed(s, t, f) ==
    /\ Keeps(s, t, f) /\ SameRun(s, t, f) /\ t.nic = s.nic
    /\ ProbeOnly(s.flow[f], t.flow[f])
    /\ RtoLive(s, f) => RtoLive(t, f)

LEMMA ProbeFields ==
    ASSUME NEW r \in FlowType, NEW u, ProbeOnly(r, u)
    PROVE  /\ u.started = r.started /\ u.backlog = r.backlog /\ u.next = r.next
           /\ u.done = r.done /\ u.blocked = r.blocked /\ u.sent = r.sent /\ u.timed = r.timed
           /\ u.rtx = r.rtx /\ u.loss = r.loss /\ u.resent = r.resent
           /\ u.pending = r.pending /\ u.rto = r.rto /\ u.rtoOf = r.rtoOf /\ u.rtoHandle = r.rtoHandle
           /\ u.recovery = r.recovery /\ u.highestRtx = r.highestRtx
<1> DEFINE w == u.probeWhen
           h == u.probeHandle
           n == u.probeSeq
           m == u.probeSent
           v == [r EXCEPT !.probeWhen = w, !.probeHandle = h, !.probeSeq = n, !.probeSent = m]
<1>1. u = v
    BY DEF ProbeOnly
<1> HIDE DEF w, h, n, m
<1>2. /\ v.started = r.started /\ v.backlog = r.backlog /\ v.next = r.next
      /\ v.done = r.done /\ v.blocked = r.blocked /\ v.sent = r.sent /\ v.timed = r.timed
      /\ v.rtx = r.rtx /\ v.loss = r.loss /\ v.resent = r.resent
      /\ v.pending = r.pending /\ v.rto = r.rto /\ v.rtoOf = r.rtoOf /\ v.rtoHandle = r.rtoHandle
      /\ v.recovery = r.recovery /\ v.highestRtx = r.highestRtx
    BY DEF FlowType
<1> HIDE DEF v
<1> QED
    BY <1>1, <1>2

LEMMA ProbeKeeps ==
    ASSUME NEW r \in FlowType, NEW u, ProbeOnly(r, u), NEW f, NEW now
    PROVE  /\ Out(u) = Out(r) /\ Gone(u) = Gone(r) /\ Wants(u) = Wants(r) /\ Complete(u) = Complete(r)
           /\ Recorded(u) = Recorded(r) /\ NotEarly(u) = NotEarly(r)
           /\ Books(r, f, now) /\ r.next # 0 => Books(u, f, now)
<1>1. Out(u) = Out(r)
    BY ProbeFields DEF Out
<1>2. Complete(u) = Complete(r)
    BY <1>1, ProbeFields DEF Complete
<1>3. Gone(u) = Gone(r) /\ Wants(u) = Wants(r)
    BY <1>1, ProbeFields DEF Gone, Wants
<1>4. Recorded(u) = Recorded(r) /\ NotEarly(u) = NotEarly(r)
    BY ProbeFields DEF Recorded, NotEarly
<1>5. Books(r, f, now) /\ r.next # 0 => Books(u, f, now)
    BY <1>1, <1>2, ProbeFields DEF Books
<1> QED
    BY <1>1, <1>2, <1>3, <1>4, <1>5

LEMMA ProbedOn ==
    ASSUME NEW s \in SimType, NEW f \in Flows, NEW t, NEW v, Probed(s, t, f), Probed(t, v, f)
    PROVE  Probed(s, v, f)
<1>1. t \in SimType /\ v \in SimType
    BY DEF Probed, Keeps
<1>2. s.flow[f] \in FlowType /\ t.flow[f] \in FlowType /\ v.flow[f] \in FlowType
    BY <1>1, SimFields
<1>3. ASSUME NEW r \in FlowType, NEW u \in FlowType, NEW x \in FlowType, ProbeOnly(r, u), ProbeOnly(u, x)
      PROVE  ProbeOnly(r, x)
    BY <1>3 DEF ProbeOnly, FlowType
<1>4. ProbeOnly(s.flow[f], v.flow[f])
    BY <1>2, <1>3 DEF Probed
<1>5. Keeps(s, v, f) /\ SameRun(s, v, f)
    BY KeepsOn, SameRunOn DEF Probed
<1> QED
    BY <1>4, <1>5 DEF Probed

\* The probe timer gets an event of its own, if the simulation has no end.
LEMMA ArmProbeSets ==
    ASSUME NEW s \in SimType, ListSound(s.l), NEW f \in Flows, s.l.end = 0, s.flow[f].next # 0,
           NEW when \in Nat, when >= s.l.now
    PROVE  LET t == ArmProbe(s, f, when)
           IN  /\ Probed(s, t, f) /\ t.flow[f].probeWhen = when
               /\ RtoLive(s, f) => ProbeLive(t, f)
<1> DEFINE r == s.flow[f]
           h == HandleFor(s.l, SrcOf(f), when)
           l == SourceIsPending(s.l, SrcOf(f), when)
           u == [r EXCEPT !.probeWhen = when, !.probeHandle = h]
           a == At(s, SrcOf(f), when)
           e == [handle |-> h, src |-> SrcOf(f), when |-> when]
           t == ArmProbe(s, f, when)
<1>1. s.l \in ListType /\ r \in FlowType /\ s.nic \in NicType
    BY SimFields
<1>2. SrcOf(f) \in EventSources /\ IsTraffic(SrcOf(f))
    BY DEF EventSources, IsTraffic, SrcOf
<1>3. t = Upd(s, l, f, u, s.nic)
  <2>1. a = Upd(s, l, f, r, s.nic)
      BY AtIs
  <2>2. a.flow[f] = r
      BY <2>1, UpdParts
  <2>3. t = [a EXCEPT !.flow[f] = [a.flow[f] EXCEPT !.probeWhen = when, !.probeHandle = h]]
      BY DEF ArmProbe
  <2> HIDE DEF a, t, l, h
  <2>4. t = [a EXCEPT !.flow[f] = u]
      BY <2>2, <2>3
  <2> HIDE DEF u
  <2> QED
      BY <2>1, <2>4, SetFlow
<1>4. /\ ListSound(l) /\ l.now = s.l.now /\ l.end = s.l.end /\ l.targets = s.l.targets
      /\ l.shots = s.l.shots
      /\ h # NullHandle => /\ Entries(l) = Entries(s.l) \cup {e}
                           /\ h \in Nat \ {0} /\ \A d \in Entries(s.l) : d.handle # h
      /\ h = NullHandle => l = s.l /\ s.l.end # 0 /\ when >= s.l.end
    BY <1>2, Schedules
<1>5. /\ h # NullHandle /\ Entries(l) = Entries(s.l) \cup {e}
      /\ h \in Nat /\ \A d \in Entries(s.l) : d.handle # h
    BY <1>4
<1>6. l \in ListType
    BY <1>4 DEF ListSound
<1> HIDE DEF h, l
<1>7. u \in FlowType /\ ProbeOnly(r, u) /\ u.probeWhen = when /\ u.probeHandle = h
    BY <1>1, <1>5 DEF FlowType, ProbeOnly
<1>8. /\ u.next = r.next /\ u.started = r.started /\ u.done = r.done
      /\ u.pending = r.pending /\ u.rto = r.rto /\ u.rtoHandle = r.rtoHandle
    BY <1>1 DEF FlowType
<1> HIDE DEF u, t
<1>9. /\ t \in SimType /\ t.l = l /\ t.nic = s.nic /\ t.flow[f] = u
      /\ \A g \in Flows : g # f => t.flow[g] = s.flow[g]
    BY <1>1, <1>3, <1>6, <1>7, Updated
<1>10. \A d \in Entries(t.l) : d \in Entries(s.l) \/ IsNew(d.src, t.flow[f], f)
    BY <1>2, <1>5, <1>8, <1>9 DEF IsNew
<1>11. Keeps(s, t, f)
    BY <1>4, <1>5, <1>8, <1>9, <1>10, NextIsNatural DEF Keeps
<1>12. SameRun(s, t, f)
    BY <1>4, <1>8, <1>9 DEF SameRun
<1>13. RtoLive(s, f) => RtoLive(t, f)
    BY <1>5, <1>8, <1>9 DEF RtoLive, RtoEntry
<1>14. RtoLive(s, f) => ProbeLive(t, f)
  <2> SUFFICES ASSUME RtoLive(s, f)
               PROVE  ProbeLive(t, f)
      OBVIOUS
  <2>1. ProbeEntry(u, f) = e
      BY <1>7 DEF ProbeEntry
  <2>2. r.pending => r.rtoHandle # h
    <3>1. RtoEntry(r, f).handle = r.rtoHandle
        BY DEF RtoEntry
    <3> QED
        BY <1>5, <3>1 DEF RtoLive
  <2> QED
      BY <1>5, <1>8, <1>9, <2>1, <2>2 DEF ProbeLive, Apart
<1> QED
    BY <1>7, <1>9, <1>11, <1>12, <1>13, <1>14 DEF Probed, t

\* A probe is sent, and the timer set for the next one.
LEMMA SendProbeStep ==
    ASSUME NEW s \in SimType, ListSound(s.l), NEW f \in Flows, s.l.end = 0, s.flow[f].next # 0,
           s.l.now # 0, RtoLive(s, f)
    PROVE  LET t == SendProbe(s, f)
           IN  Probed(s, t, f) /\ ProbeLive(t, f) /\ Guarded(t.flow[f])
<1> DEFINE r == s.flow[f]
           p == Probe(f, r.probeSeq + 1)
           l == SourceIsPending(s.l, p, s.l.now + 1)
           u == [r EXCEPT !.probeSeq = @ + 1, !.probeSent = s.l.now]
           a == At(s, p, s.l.now + 1)
           b == Upd(s, l, f, u, s.nic)
           when == s.l.now + ProbeRetry
           t == SendProbe(s, f)
<1>1. s.l \in ListType /\ r \in FlowType /\ s.nic \in NicType /\ s.l.now \in Nat
    BY SimFields DEF ListType
<1>2. r.probeSeq + 1 \in Nat
    BY <1>1 DEF FlowType
<1>3. p \in EventSources /\ p.kind = "data" /\ p.f = f /\ p.probe
    BY <1>2 DEF EventSources, DataPackets, Probe
<1>4. t = ArmProbe(b, f, when)
  <2>1. a = Upd(s, l, f, r, s.nic)
      BY AtIs
  <2>2. t = ArmProbe([a EXCEPT !.flow[f] = u], f, when)
      BY DEF SendProbe
  <2> HIDE DEF a, t, l, u
  <2>3. [a EXCEPT !.flow[f] = u] = b
      BY <2>1, SetFlow
  <2> QED
      BY <2>2, <2>3
<1>5. s.l.now + 1 \in Nat /\ s.l.now + 1 >= s.l.now
    BY <1>1
<1>6. /\ ListSound(l) /\ l.now = s.l.now /\ l.end = s.l.end /\ l.targets = s.l.targets
      /\ l.shots = s.l.shots /\ Entries(s.l) \subseteq Entries(l)
      /\ \A d \in Entries(l) : d \in Entries(s.l) \/ d.src = p
  <2> HIDE DEF p
  <2> QED
      BY <1>3, <1>5, Schedules
<1>7. l \in ListType
    BY <1>6 DEF ListSound
<1>8. u \in FlowType /\ ProbeOnly(r, u)
    BY <1>1, <1>2 DEF FlowType, ProbeOnly
<1>9. /\ u.next = r.next /\ u.started = r.started /\ u.done = r.done
      /\ u.pending = r.pending /\ u.rto = r.rto /\ u.rtoHandle = r.rtoHandle
    BY <1>1 DEF FlowType
<1> HIDE DEF u, l, p, t
<1>10. /\ b \in SimType /\ b.l = l /\ b.nic = s.nic /\ b.flow[f] = u
       /\ \A g \in Flows : g # f => b.flow[g] = s.flow[g]
    BY <1>1, <1>7, <1>8, Updated
<1> HIDE DEF b
<1>11. \A d \in Entries(b.l) : d \in Entries(s.l) \/ IsNew(d.src, b.flow[f], f)
    BY <1>3, <1>6, <1>9, <1>10 DEF IsNew
<1>12. Keeps(s, b, f) /\ SameRun(s, b, f)
    BY <1>6, <1>9, <1>10, <1>11, NextIsNatural DEF Keeps, SameRun
<1>13. RtoLive(b, f)
    BY <1>6, <1>9, <1>10 DEF RtoLive, RtoEntry
<1>14. Probed(s, b, f)
    BY <1>8, <1>10, <1>12, <1>13 DEF Probed
<1>15. when \in Nat /\ when >= s.l.now /\ when # 0
    BY <1>1, RecoveryAssumption
<1> HIDE DEF when
<1>16. Probed(b, t, f) /\ t.flow[f].probeWhen = when /\ ProbeLive(t, f)
  <2>1. b.l.end = 0 /\ b.flow[f].next # 0 /\ ListSound(b.l) /\ when >= b.l.now
      BY <1>6, <1>9, <1>10, <1>15
  <2> QED
      BY <1>4, <1>10, <1>13, <1>15, <2>1, ArmProbeSets
<1>17. Probed(s, t, f)
    BY <1>14, <1>16, ProbedOn
<1> QED
    BY <1>15, <1>16, <1>17 DEF Guarded, t

\* The running probe timer is stopped; the retransmission timer has another event.
LEMMA CancelProbeStops ==
    ASSUME NEW s \in SimType, ListSound(s.l), NEW f \in Flows, ProbeLive(s, f), RtoLive(s, f),
           s.flow[f].probeWhen # 0
    PROVE  LET t == [s EXCEPT !.l = CancelByHandle(@, SrcOf(f), s.flow[f].probeHandle),
                              !.flow[f] = [@ EXCEPT !.probeWhen = 0, !.probeHandle = NullHandle]]
           IN  Probed(s, t, f)
<1> DEFINE r == s.flow[f]
           l == CancelByHandle(s.l, SrcOf(f), r.probeHandle)
           u == [r EXCEPT !.probeWhen = 0, !.probeHandle = NullHandle]
           t == [s EXCEPT !.l = CancelByHandle(@, SrcOf(f), r.probeHandle),
                          !.flow[f] = [@ EXCEPT !.probeWhen = 0, !.probeHandle = NullHandle]]
           e == ProbeEntry(r, f)
<1>1. s.l \in ListType /\ r \in FlowType /\ s.nic \in NicType
    BY SimFields
<1>2. e \in Entries(s.l) /\ e.src = SrcOf(f) /\ e.handle = r.probeHandle /\ Apart(e, s, f)
    BY DEF ProbeLive, ProbeEntry
<1>3. /\ ListSound(l) /\ l.now = s.l.now /\ l.end = s.l.end /\ l.targets = s.l.targets
      /\ l.shots = s.l.shots /\ Entries(l) = Entries(s.l) \ {e}
  <2> HIDE DEF e
  <2> QED
      BY <1>2, Cancels
<1>4. t = Upd(s, l, f, u, s.nic)
  <2>1. s = Upd(s, s.l, f, r, s.nic)
      BY AsUpd
  <2>2. t = [s EXCEPT !.l = l, !.flow[f] = u]
      BY <1>1 DEF SimType
  <2> HIDE DEF l, u, t
  <2>3. [s EXCEPT !.l = l] = Upd(s, l, f, r, s.nic)
      BY <2>1, SetList
  <2>4. [s EXCEPT !.l = l, !.flow[f] = u] = [[s EXCEPT !.l = l] EXCEPT !.flow[f] = u]
      OBVIOUS
  <2>5. [s EXCEPT !.l = l, !.flow[f] = u] = [Upd(s, l, f, r, s.nic) EXCEPT !.flow[f] = u]
      BY <2>3, <2>4
  <2>6. [Upd(s, l, f, r, s.nic) EXCEPT !.flow[f] = u] = Upd(s, l, f, u, s.nic)
      BY SetFlow
  <2> QED
      BY <2>2, <2>5, <2>6
<1>5. l \in ListType
    BY <1>3 DEF ListSound
<1>6. u \in FlowType /\ ProbeOnly(r, u)
    BY <1>1 DEF FlowType, ProbeOnly, NullHandle
<1>7. /\ u.next = r.next /\ u.started = r.started /\ u.done = r.done
      /\ u.pending = r.pending /\ u.rto = r.rto /\ u.rtoHandle = r.rtoHandle
    BY <1>1 DEF FlowType
<1> HIDE DEF u, l, t
<1>8. /\ t \in SimType /\ t.l = l /\ t.nic = s.nic /\ t.flow[f] = u
      /\ \A g \in Flows : g # f => t.flow[g] = s.flow[g]
    BY <1>1, <1>4, <1>5, <1>6, Updated
<1>9. Keeps(s, t, f) /\ SameRun(s, t, f)
  <2> HIDE DEF e
  <2> QED
      BY <1>2, <1>3, <1>7, <1>8, NextIsNatural DEF Keeps, SameRun
<1>10. RtoLive(t, f)
  <2>1. RtoEntry(u, f) = RtoEntry(r, f)
      BY <1>7 DEF RtoEntry
  <2>2. r.pending => RtoEntry(r, f) \in Entries(s.l) /\ RtoEntry(r, f).handle # e.handle
      BY <1>2 DEF RtoLive, RtoEntry, Apart
  <2> QED
      BY <1>3, <1>7, <1>8, <2>1, <2>2 DEF RtoLive
<1> QED
    BY <1>6, <1>8, <1>9, <1>10 DEF Probed, t

\* While anything is unacknowledged the probe timer runs afterwards.
LEMMA HandleProbeTimerStep ==
    ASSUME NEW s \in SimType, ListSound(s.l), NEW f \in Flows, ProbeLive(s, f), RtoLive(s, f),
           s.l.end = 0, s.flow[f].next # 0, NEW cum
    PROVE  LET t == HandleProbeTimer(s, f, cum)
           IN  /\ Probed(s, t, f) /\ ProbeLive(t, f)
               /\ \/ Guarded(t.flow[f])
                  \/ ~ (cum < s.flow[f].next) /\ ~ (s.flow[f].backlog > 0)
<1> DEFINE r == s.flow[f]
           c == [s EXCEPT !.l = CancelByHandle(@, SrcOf(f), r.probeHandle),
                          !.flow[f] = [@ EXCEPT !.probeWhen = 0, !.probeHandle = NullHandle]]
           a == IF r.probeWhen = 0 THEN s ELSE c
           wait == IF r.backlog = 0 THEN BaseRtt + TargetQDelay ELSE ProbeFirst
           when == s.l.now + wait
           t == HandleProbeTimer(s, f, cum)
<1>1. r \in FlowType /\ s.l.now \in Nat
    BY SimFields DEF ListType
<1>2. t = IF cum < r.next \/ r.backlog > 0 THEN ArmProbe(a, f, when) ELSE a
    BY DEF HandleProbeTimer
<1>3. Probed(s, a, f) /\ a.flow[f].probeWhen = 0
  <2>1. CASE r.probeWhen = 0
    <3>1. Keeps(s, s, f) /\ SameRun(s, s, f)
        BY NextIsNatural DEF Keeps, SameRun
    <3>2. ProbeOnly(r, r)
        BY <1>1 DEF ProbeOnly, FlowType
    <3> QED
        BY <2>1, <3>1, <3>2 DEF Probed
  <2>2. CASE r.probeWhen # 0
    <3>1. c.flow[f].probeWhen = 0
        BY <1>1 DEF SimType, FlowType
    <3>2. Probed(s, c, f)
        BY <2>2, CancelProbeStops
    <3> QED
        BY <2>2, <3>1, <3>2
  <2> QED
      BY <2>1, <2>2
<1> HIDE DEF a, t
<1>4. /\ a \in SimType /\ ListSound(a.l) /\ a.l.now = s.l.now /\ a.l.end = 0 /\ RtoLive(a, f)
      /\ a.flow[f].next # 0
  <2>1. a.flow[f].next = r.next
      BY <1>1, <1>3, ProbeFields DEF Probed
  <2> QED
      BY <1>3, <2>1 DEF Probed, Keeps
<1>5. when \in Nat /\ when >= s.l.now /\ when # 0
  <2>1. wait \in Nat \ {0}
    <3>1. BaseRtt \in Nat \ {0} /\ TargetQDelay \in Nat /\ ProbeFirst \in Nat \ {0}
        BY RecoveryAssumption
    <3> QED
        BY <3>1
  <2> HIDE DEF wait
  <2> QED
      BY <1>1, <2>1
<1> HIDE DEF when
<1>6. CASE cum < r.next \/ r.backlog > 0
  <2>1. t = ArmProbe(a, f, when) /\ when >= a.l.now
      BY <1>2, <1>4, <1>5, <1>6
  <2>2. Probed(a, t, f) /\ t.flow[f].probeWhen = when /\ ProbeLive(t, f)
      BY <1>4, <1>5, <2>1, ArmProbeSets
  <2>3. Probed(s, t, f)
      BY <1>3, <2>2, ProbedOn
  <2> QED
      BY <1>5, <2>2, <2>3 DEF t, Guarded
<1>7. CASE ~ (cum < r.next \/ r.backlog > 0)
  <2>1. t = a
      BY <1>2, <1>7
  <2>2. ProbeLive(a, f)
      BY <1>3 DEF ProbeLive
  <2> QED
      BY <1>3, <1>7, <2>1, <2>2 DEF t
<1> QED
    BY <1>6, <1>7

-----------------------------------------------------------------------------
(* The loss recovery of SLEEK.                                             *)

\* With its probe timer running, or nothing to do, a flow is watched.
Tended(s, f) == Guarded(s.flow[f]) \/ Complete(s.flow[f])

LEMMA TendedIsWatched ==
    ASSUME NEW s, NEW f \in Flows, Fit(s, f), Tended(s, f)
    PROVE  Watched(s, f)
    BY DEF Tended, Watched, Fit, Books, Complete

\* A part of the handler of an acknowledgement in SLEEK.
Tends(s, t, f) ==
    /\ Keeps(s, t, f) /\ SameRun(s, t, f)
    /\ Fit(t, f) /\ Recorded(t.flow[f]) /\ ProbeLive(t, f) /\ PortSound(t, {})
    /\ Tended(s, f) => Tended(t, f)
    /\ Complete(s.flow[f]) => Complete(t.flow[f])

LEMMA TendsOn ==
    ASSUME NEW s \in SimType, NEW f \in Flows, NEW t, NEW v, Tends(s, t, f), Tends(t, v, f)
    PROVE  Tends(s, v, f)
    BY KeepsOn, SameRunOn DEF Tends

Recovering(s, t, f) ==
    /\ Moves(s, t, f) /\ Fit(t, f) /\ Recorded(t.flow[f]) /\ PortSound(t, {})
    /\ Complete(s.flow[f]) => Complete(t.flow[f])

LEMMA RecoveringNot ==
    ASSUME NEW s, NEW f \in Flows, Fit(s, f), Recorded(s.flow[f]), PortSound(s, {})
    PROVE  Recovering(s, s, f)
    BY MovesNot DEF Recovering, Fit

LEMMA RecoveringOn ==
    ASSUME NEW s \in SimType, NEW f \in Flows, NEW t, NEW v, Recovering(s, t, f), Recovering(t, v, f)
    PROVE  Recovering(s, v, f)
    BY MovesOn DEF Recovering

LEMMA RecoveringTends ==
    ASSUME NEW s, NEW f \in Flows, Fit(s, f), ProbeLive(s, f), NEW t, Recovering(s, t, f)
    PROVE  Tends(s, t, f)
<1>1. OthersApart(s, f)
    BY RtoLiveApart DEF Fit
<1>2. Keeps(s, t, f) /\ SameRun(s, t, f) /\ ProbeLive(t, f)
    BY <1>1, MovesKeeps, ProbeStays DEF Recovering
<1>3. Tended(s, f) => Tended(t, f)
    BY DEF Recovering, Moves, Tended, Guarded
<1> QED
    BY <1>2, <1>3 DEF Tends, Recovering

\* A packet taken for lost is sent again or queued, and the timer set anew if it
\* still stands for that packet: a timer that was idle may have been set for the
\* packet just sent again.
LEMMA RecoverStep ==
    ASSUME NEW s, NEW f \in Flows, Fit(s, f), Recorded(s.flow[f]), PortSound(s, {}), NEW q \in Seqs
    PROVE  Recovering(s, Recover(s, f, q), f)
<1> DEFINE r == s.flow[f]
           u == [r EXCEPT !.sent[q] = Never, !.timed = @ \ {q}, !.highestRtx = q + 1]
           b == Upd(s, s.l, f, u, s.nic)
           a == QueueForRtx(b, f, q)
           t == Recover(s, f, q)
<1>1. s \in SimType /\ ListSound(s.l) /\ Books(r, f, s.l.now) /\ r \in FlowType /\ s.nic \in NicType
    BY SimFields DEF Fit
<1>2. b = [s EXCEPT !.flow[f] = u]
  <2>1. s = Upd(s, s.l, f, r, s.nic)
      BY <1>1, AsUpd
  <2> HIDE DEF u
  <2> QED
      BY <1>1, <2>1, SetFlow
<1>3. t = IF q < r.highestRtx \/ q \notin Out(r) \/ q \in r.rtx THEN s
          ELSE IF r.sent[q] = a.flow[f].rtoOf THEN RecalculateRTO(a, f) ELSE a
    BY <1>2 DEF Recover
<1>4. CASE q < r.highestRtx \/ q \notin Out(r) \/ q \in r.rtx
  <2>1. t = s
      BY <1>3, <1>4
  <2> QED
      BY <2>1, RecoveringNot
<1>5. CASE ~ (q < r.highestRtx \/ q \notin Out(r) \/ q \in r.rtx)
  <2>1. q \in Nat
      BY SizesAre
  <2>2. q < r.next /\ ~ r.done /\ ~ Complete(r)
      BY <1>1, <1>5 DEF Books, Complete
  <2>3. /\ u \in FlowType /\ Forgets(r, u, q) /\ u.blocked = r.blocked /\ u.rtx = r.rtx
        /\ u.next = r.next /\ u.done = r.done /\ u.backlog = r.backlog
    <3>1. q + 1 \in Nat /\ Never \in Nat \cup {Never}
        BY <2>1
    <3>2. [r.sent EXCEPT ![q] = Never] \in [Seqs -> Nat \cup {Never}]
        BY <1>1, <3>1 DEF FlowType
    <3>3. /\ u.sent = [r.sent EXCEPT ![q] = Never] /\ u.timed = r.timed \ {q}
          /\ SameTimer(r, u) /\ SameStage(r, u) /\ SameWork(r, u)
        BY <1>1 DEF FlowType, SameTimer, SameStage, SameWork
    <3>4. u \in FlowType
        BY <1>1, <3>1, <3>2 DEF FlowType
    <3> QED
        BY <3>3, <3>4 DEF Forgets, SameStage, SameWork
  <2> HIDE DEF u, t
  <2>4. /\ Moves(s, b, f) /\ Fit(b, f) /\ b.flow[f] = u /\ b.nic = s.nic
        /\ Out(u) = Out(r) \ {q}
        /\ r.sent[q] # r.rtoOf => Recorded(u)
      BY <2>3, ForgetsStep
  <2> HIDE DEF b
  <2>5. PortSound(b, {f})
    <3>1. \A g \in Flows : g # f => b.flow[g] = s.flow[g]
        BY <2>4 DEF Moves
    <3> QED
        BY <2>3, <2>4, <3>1 DEF PortSound, Waiting
  <2>6. Carries(b, a, f) /\ PortSound(a, {}) /\ Retimes(u, a.flow[f])
      BY <1>5, <2>2, <2>3, <2>4, <2>5, QueueForRtxCarries
  <2> HIDE DEF a
  <2>7. Moves(s, a, f) /\ Fit(a, f) /\ a \in SimType
      BY <1>1, <2>4, <2>6, MovesOn DEF Carries, Fit
  <2>8. CASE r.sent[q] = a.flow[f].rtoOf
    <3>1. t = RecalculateRTO(a, f)
        BY <1>3, <1>5, <2>8
    <3>2. /\ Steps(a, t, f) /\ t.nic = a.nic /\ TimerOnly(a.flow[f], t.flow[f])
          /\ Recorded(t.flow[f])
        BY <2>7, <3>1, RecalculatesStep
    <3>3. a.flow[f] \in FlowType
        BY <2>7, SimFields
    <3>4. t.flow[f].blocked = a.flow[f].blocked /\ Wants(t.flow[f]) = Wants(a.flow[f])
        BY <3>2, <3>3, TimerFields, TimerKeeps
    <3>5. \A g \in Flows : g # f => t.flow[g] = a.flow[g]
        BY <3>2 DEF Steps, Moves
    <3>6. PortSound(t, {})
        BY <2>6, <3>2, <3>4, <3>5 DEF PortSound, Waiting
    <3>7. Moves(s, t, f)
        BY <1>1, <2>7, <3>2, MovesOn DEF Steps
    <3> QED
        BY <2>2, <3>2, <3>6, <3>7 DEF Recovering, Steps, t
  <2>9. CASE r.sent[q] # a.flow[f].rtoOf
    <3>1. t = a
        BY <1>3, <1>5, <2>9
    <3>2. Recorded(a.flow[f])
      <4>1. CASE r.sent[q] = r.rtoOf
        <5>1. u.rtoOf = r.rtoOf
            BY <2>3 DEF Forgets, SameTimer
        <5> QED
            BY <2>6, <2>9, <4>1, <5>1 DEF Retimes
      <4>2. CASE r.sent[q] # r.rtoOf
          BY <2>4, <2>6, <4>2 DEF Carries
      <4> QED
          BY <4>1, <4>2
    <3> QED
        BY <2>2, <2>6, <2>7, <3>1, <3>2 DEF Recovering, t
  <2> QED
      BY <2>8, <2>9
<1> QED
    BY <1>4, <1>5

LEMMA RecoversAll ==
    ASSUME NEW s, NEW f \in Flows, Fit(s, f), Recorded(s.flow[f]), PortSound(s, {}), NEW S
    PROVE  Recovering(s, RecoverAll(s, f, S), f)
<1> DEFINE X == {t \in SimType : Recovering(s, t, f)}
           F == [t \in X |-> [n \in 0 .. MaxSize - 1 |-> IF n \in S THEN Recover(t, f, n) ELSE t]]
           Is(g) == g = [n \in 0 .. MaxSize |->
                            IF n = 0 THEN s
                            ELSE IF n - 1 \in S THEN Recover(g[n - 1], f, n - 1)
                            ELSE g[n - 1]]
           up == CHOOSE g : Is(g)
<1>1. MaxSize \in Nat /\ Seqs = 0 .. MaxSize - 1
    BY SizesAre DEF Seqs
<1>2. s \in X
    BY RecoveringNot DEF Fit
<1>3. ASSUME NEW t \in X, NEW n \in 0 .. MaxSize - 1
      PROVE  Recover(t, f, n) \in X
  <2>1. Recovering(s, t, f) /\ Fit(t, f) /\ s \in SimType
      BY DEF Recovering, Fit
  <2>2. Recovering(t, Recover(t, f, n), f)
      BY <1>1, <2>1, RecoverStep DEF Recovering
  <2>3. Recovering(s, Recover(t, f, n), f)
      BY <2>1, <2>2, RecoveringOn
  <2>4. Recover(t, f, n) \in SimType
      BY <2>3 DEF Recovering, Moves
  <2> QED
      BY <2>3, <2>4
<1> HIDE DEF X
<1>4. F \in [X -> [0 .. MaxSize - 1 -> X]]
    BY <1>3
<1>5. \A t \in X : \A n \in 0 .. MaxSize - 1 : F[t][n] = IF n \in S THEN Recover(t, f, n) ELSE t
    OBVIOUS
<1> HIDE DEF F
<1>6. PICK g \in [0 .. MaxSize -> X] : g[0] = s /\ \A n \in 0 .. MaxSize - 1 : g[n + 1] = F[g[n]][n]
  <2>1. MaxSize \in Nat
      BY <1>1
  <2>2. Iterates(X, s, MaxSize, F)
      BY <1>2, <1>4, <2>1, StepByStep
  <2> QED
      BY <2>2 DEF Iterates
<1>7. Is(g)
  <2>1. ASSUME NEW n \in 0 .. MaxSize
        PROVE  g[n] = IF n = 0 THEN s
                      ELSE IF n - 1 \in S THEN Recover(g[n - 1], f, n - 1)
                      ELSE g[n - 1]
    <3>1. CASE n = 0
        BY <1>6, <3>1
    <3>2. CASE n # 0
      <4>1. n - 1 \in 0 .. MaxSize - 1 /\ n - 1 \in 0 .. MaxSize /\ (n - 1) + 1 = n
          BY <1>1, <3>2
      <4>2. g[n - 1] \in X
          BY <1>6, <4>1
      <4>3. g[n] = F[g[n - 1]][n - 1]
          BY <1>6, <4>1
      <4> QED
          BY <1>5, <3>2, <4>1, <4>2, <4>3
    <3> QED
        BY <3>1, <3>2
  <2> QED
      BY <2>1
<1>8. Is(up)
    BY <1>7
<1>9. RecoverAll(s, f, S) = up[MaxSize]
    BY DEF RecoverAll
<1> HIDE DEF up
<1>10. up[0] = s
    BY <1>1, <1>8
<1>11. \A n \in 0 .. MaxSize - 1 : up[n + 1] = IF n \in S THEN Recover(up[n], f, n) ELSE up[n]
  <2>1. ASSUME NEW n \in 0 .. MaxSize - 1
        PROVE  up[n + 1] = IF n \in S THEN Recover(up[n], f, n) ELSE up[n]
    <3>1. n + 1 \in 0 .. MaxSize /\ n + 1 # 0 /\ (n + 1) - 1 = n
        BY <1>1
    <3> QED
        BY <1>8, <3>1
  <2> QED
      BY <2>1
<1> HIDE DEF Is
<1> DEFINE T == {n \in Nat : n <= MaxSize => up[n] \in X}
<1>12. 0 \in T
    BY <1>2, <1>10
<1>13. ASSUME NEW n \in Nat, n \in T PROVE n + 1 \in T
  <2>1. ASSUME n + 1 <= MaxSize PROVE up[n + 1] \in X
    <3>1. n \in 0 .. MaxSize - 1 /\ up[n] \in X
        BY <1>1, <1>13, <2>1
    <3> QED
        BY <1>3, <1>11, <3>1
  <2> QED
      BY <2>1
<1> HIDE DEF T
<1>14. MaxSize \in T
    BY <1>1, <1>12, <1>13, NaturalsByInduction
<1>15. up[MaxSize] \in X
    BY <1>1, <1>14 DEF T
<1> QED
    BY <1>9, <1>15 DEF X

\* Only what SLEEK remembers of the losses differs.
SameButLoss(r, u) ==
    /\ SameTimer(r, u) /\ SameWork(r, u)
    /\ u.started = r.started /\ u.done = r.done /\ u.sent = r.sent /\ u.timed = r.timed
    /\ u.probeWhen = r.probeWhen /\ u.probeHandle = r.probeHandle

LEMMA LossStep ==
    ASSUME NEW s, NEW f \in Flows, Fit(s, f), Recorded(s.flow[f]), ProbeLive(s, f), PortSound(s, {}),
           NEW u \in FlowType, SameButLoss(s.flow[f], u)
    PROVE  Tends(s, [s EXCEPT !.flow[f] = u], f)
<1> DEFINE r == s.flow[f]
           t == [s EXCEPT !.flow[f] = u]
<1>1. /\ s \in SimType /\ ListSound(s.l) /\ Books(r, f, s.l.now) /\ RtoLive(s, f) /\ NotEarly(r)
      /\ r \in FlowType /\ s.nic \in NicType /\ s.l \in ListType
    BY SimFields DEF Fit
<1>2. t = Upd(s, s.l, f, u, s.nic)
  <2>1. s = Upd(s, s.l, f, r, s.nic)
      BY <1>1, AsUpd
  <2> QED
      BY <1>1, <2>1, SetFlow
<1> HIDE DEF t
<1>3. /\ t \in SimType /\ t.l = s.l /\ t.nic = s.nic /\ t.flow[f] = u
      /\ \A g \in Flows : g # f => t.flow[g] = s.flow[g]
    BY <1>1, <1>2, Updated
<1>4. /\ u.next = r.next /\ u.backlog = r.backlog /\ u.rtx = r.rtx /\ u.blocked = r.blocked
      /\ u.pending = r.pending /\ u.rto = r.rto /\ u.rtoOf = r.rtoOf /\ u.rtoHandle = r.rtoHandle
      /\ u.started = r.started /\ u.done = r.done /\ u.sent = r.sent /\ u.timed = r.timed
      /\ u.probeWhen = r.probeWhen /\ u.probeHandle = r.probeHandle
    BY DEF SameButLoss, SameWork, SameTimer
<1>5. Out(u) = Out(r)
    BY <1>4 DEF Out
<1>6. Complete(u) = Complete(r) /\ Guarded(u) = Guarded(r) /\ Wants(u) = Wants(r)
    BY <1>4, <1>5 DEF Complete, Guarded, Wants
<1>7. Keeps(s, t, f) /\ SameRun(s, t, f)
    BY <1>1, <1>3, <1>4, NextIsNatural DEF Keeps, SameRun
<1>8. Books(u, f, s.l.now)
    BY <1>1, <1>4, <1>5, <1>6 DEF Books
<1>9. RtoLive(t, f) /\ NotEarly(u) /\ Recorded(u)
    BY <1>1, <1>3, <1>4 DEF RtoLive, RtoEntry, NotEarly, Recorded
<1>10. ProbeLive(t, f)
    BY <1>3, <1>4 DEF ProbeLive, ProbeEntry, Apart
<1>11. PortSound(t, {})
    BY <1>3, <1>4, <1>6 DEF PortSound, Waiting
<1>12. Fit(t, f)
    BY <1>1, <1>3, <1>8, <1>9 DEF Fit
<1>13. (Tended(s, f) => Tended(t, f)) /\ (Complete(r) => Complete(u))
    BY <1>3, <1>6 DEF Tended
<1> QED
    BY <1>3, <1>7, <1>9, <1>10, <1>11, <1>12, <1>13 DEF Tends, t

LEMMA RunSleekStep ==
    ASSUME NEW s, NEW f \in Flows, Fit(s, f), Recorded(s.flow[f]), ProbeLive(s, f), PortSound(s, {}),
           NEW ooo, NEW cum
    PROVE  Tends(s, RunSleek(s, f, ooo, cum), f)
<1> DEFINE r == [s.flow[f] EXCEPT !.loss = @ /\ cum < s.flow[f].recovery]
           enters == ~r.loss /\ r.rtx = {}
           u == IF enters THEN [r EXCEPT !.loss = TRUE, !.recovery = r.next] ELSE r
           a == [s EXCEPT !.flow[f] = u]
           range == {q \in Seqs : cum <= q /\ q < a.flow[f].recovery /\ q < cum + Window}
           y == RecoverAll(a, f, range)
           t == RunSleek(s, f, ooo, cum)
<1>1. s \in SimType /\ s.flow[f] \in FlowType
    BY SimFields DEF Fit
<1>2. r \in FlowType /\ SameButLoss(s.flow[f], r)
    BY <1>1 DEF FlowType, SameButLoss, SameTimer, SameWork
<1>3. u \in FlowType /\ SameButLoss(s.flow[f], u)
  <2>1. CASE enters
    <3> DEFINE v == [r EXCEPT !.loss = TRUE, !.recovery = r.next]
    <3> HIDE DEF r
    <3>1. v \in FlowType /\ SameButLoss(r, v)
        BY <1>2 DEF FlowType, SameButLoss, SameTimer, SameWork
    <3>2. u = v
        BY <2>1
    <3> HIDE DEF v, u
    <3> QED
        BY <1>2, <3>1, <3>2 DEF SameButLoss, SameTimer, SameWork
  <2>2. CASE ~ enters
    <3>1. u = r
        BY <2>2
    <3> QED
        BY <1>2, <3>1
  <2> QED
      BY <2>1, <2>2
<1>4. t = IF ooo < RtxThreshold /\ ~r.loss THEN [s EXCEPT !.flow[f] = r] ELSE SendIfPermitted(y, f)
    BY DEF RunSleek
<1> HIDE DEF r, u, range, t
<1>5. CASE ooo < RtxThreshold /\ ~r.loss
  <2>1. t = [s EXCEPT !.flow[f] = r]
      BY <1>4, <1>5
  <2> QED
      BY <1>2, <2>1, LossStep DEF t
<1>6. CASE ~ (ooo < RtxThreshold /\ ~r.loss)
  <2>1. t = SendIfPermitted(y, f)
      BY <1>4, <1>6
  <2>2. Tends(s, a, f)
      BY <1>3, LossStep
  <2> HIDE DEF a
  <2>3. /\ a \in SimType /\ Fit(a, f) /\ Recorded(a.flow[f]) /\ ProbeLive(a, f) /\ PortSound(a, {})
      BY <2>2 DEF Tends, Fit
  <2>4. Recovering(a, y, f)
      BY <2>3, RecoversAll
  <2> HIDE DEF y
  <2>5. Fit(y, f) /\ PortSound(y, {f}) /\ Recorded(y.flow[f])
      BY <2>4 DEF Recovering, PortSound
  <2>6. Steps(y, t, f) /\ PortSound(t, {})
      BY <2>1, <2>5, SendIfPermittedStep
  <2>7. Recovering(y, t, f)
      BY <2>5, <2>6 DEF Steps, Recovering
  <2>8. Recovering(a, t, f)
      BY <2>3, <2>4, <2>7, RecoveringOn
  <2>9. Tends(a, t, f)
      BY <2>3, <2>8, RecoveringTends
  <2>10. Tends(s, t, f)
      BY <1>1, <2>2, <2>9, TendsOn
  <2> QED
      BY <2>10 DEF t
<1> QED
    BY <1>5, <1>6

\* An acknowledgement in SLEEK: afterwards the probe timer runs, or all is done.
LEMMA SleekStep ==
    ASSUME NEW s, NEW f \in Flows, Fit(s, f), Recorded(s.flow[f]), ProbeLive(s, f), PortSound(s, {}),
           s.l.end = 0, s.flow[f].next # 0, NEW p \in Acks, NEW avgLow,
           \A q \in Out(s.flow[f]) \cup s.flow[f].rtx : ~ (q < p.cum)
    PROVE  LET t == Sleek(s, f, p, avgLow)
           IN  Tends(s, t, f) /\ Tended(t, f)
<1> DEFINE r == s.flow[f]
           a == HandleProbeTimer(s, f, p.cum)
           u == [a.flow[f] EXCEPT !.loss = TRUE, !.recovery = r.next, !.highestRtx = p.cum]
           c == [a EXCEPT !.flow[f] = u]
           b == IF p.probe /\ LowDelay(s, f, p, avgLow) THEN c ELSE a
           t == Sleek(s, f, p, avgLow)
<1>1. /\ s \in SimType /\ ListSound(s.l) /\ RtoLive(s, f) /\ Books(r, f, s.l.now) /\ NotEarly(r)
      /\ r \in FlowType
    BY SimFields DEF Fit
<1>2. /\ Probed(s, a, f) /\ ProbeLive(a, f)
      /\ Guarded(a.flow[f]) \/ (~ (p.cum < r.next) /\ ~ (r.backlog > 0))
    BY <1>1, HandleProbeTimerStep
<1>3. t = RunSleek(b, f, p.ooo, p.cum)
    BY DEF Sleek
<1> HIDE DEF a, t
<1>4. /\ a \in SimType /\ ListSound(a.l) /\ a.l.now = s.l.now /\ a.nic = s.nic
      /\ ProbeOnly(r, a.flow[f]) /\ RtoLive(a, f) /\ a.flow[f] \in FlowType
      /\ \A g \in Flows : g # f => a.flow[g] = s.flow[g]
  <2>1. a \in SimType
      BY <1>2 DEF Probed, Keeps
  <2> QED
      BY <1>1, <1>2, <2>1, SimFields DEF Probed, Keeps
<1>5. /\ Complete(a.flow[f]) = Complete(r) /\ Wants(a.flow[f]) = Wants(r)
      /\ Recorded(a.flow[f]) /\ NotEarly(a.flow[f]) /\ Books(a.flow[f], f, s.l.now)
    BY <1>1, <1>4, ProbeKeeps
<1>6. Fit(a, f)
    BY <1>4, <1>5 DEF Fit
<1>7. PortSound(a, {})
  <2>1. a.flow[f].blocked = r.blocked
      BY <1>1, <1>4, ProbeFields
  <2> QED
      BY <1>4, <1>5, <2>1 DEF PortSound, Waiting
<1>8. Tended(a, f)
  <2>1. CASE ~ (p.cum < r.next) /\ ~ (r.backlog > 0)
    <3>1. p.cum \in Nat /\ r.next \in Nat /\ r.backlog \in Nat
        BY <1>1 DEF Acks, FlowType
    <3>2. \A q \in Out(r) \cup r.rtx : q \in Nat /\ q < r.next
      <4>1. Out(r) \cup r.rtx \subseteq Seqs
          BY <1>1 DEF Out, FlowType
      <4> QED
          BY <1>1, <4>1, SizesAre DEF Books
    <3>3. Out(r) \cup r.rtx = {}
        BY <2>1, <3>1, <3>2
    <3>4. r.backlog = 0
        BY <2>1, <3>1
    <3>5. r.started
        BY <1>1 DEF Books
    <3> QED
        BY <1>5, <3>3, <3>4, <3>5 DEF Complete, Tended
  <2>2. CASE Guarded(a.flow[f])
      BY <2>2 DEF Tended
  <2> QED
      BY <1>2, <2>1, <2>2
<1>9. Tends(s, a, f)
    BY <1>2, <1>5, <1>6, <1>7, <1>8 DEF Tends, Probed
<1>10. Tends(a, b, f)
  <2>1. CASE p.probe /\ LowDelay(s, f, p, avgLow)
    <3>1. u \in FlowType /\ SameButLoss(a.flow[f], u)
      <4>1. r.next \in Nat /\ p.cum \in Nat
          BY <1>1 DEF FlowType, Acks
      <4> QED
          BY <1>4, <4>1 DEF FlowType, SameButLoss, SameTimer, SameWork
    <3> HIDE DEF u
    <3>2. Tends(a, c, f)
        BY <1>2, <1>5, <1>6, <1>7, <3>1, LossStep
    <3> QED
        BY <2>1, <3>2
  <2>2. CASE ~ (p.probe /\ LowDelay(s, f, p, avgLow))
    <3>1. b = a
        BY <2>2
    <3>2. Recovering(a, a, f)
        BY <1>5, <1>6, <1>7, RecoveringNot
    <3>3. Tends(a, a, f)
        BY <1>2, <1>6, <3>2, RecoveringTends
    <3> QED
        BY <3>1, <3>3
  <2> QED
      BY <2>1, <2>2
<1> HIDE DEF b
<1>11. Tends(b, t, f)
  <2>1. Fit(b, f) /\ Recorded(b.flow[f]) /\ ProbeLive(b, f) /\ PortSound(b, {})
      BY <1>10 DEF Tends
  <2> QED
      BY <1>3, <2>1, RunSleekStep
<1>12. Tends(a, t, f)
    BY <1>4, <1>10, <1>11, TendsOn
<1>13. Tends(s, t, f)
    BY <1>1, <1>9, <1>12, TendsOn
<1> QED
    BY <1>8, <1>12, <1>13 DEF Tends, t

-----------------------------------------------------------------------------
(* Triggers.                                                               *)

LEMMA SoundAgain ==
    ASSUME NEW s, NEW f \in Flows, World(s, f), TriggersSound(s), StartsOnce(s, f),
           NEW t, Keeps(s, t, f), SameRun(s, t, f), Fit(t, f), Recorded(t.flow[f]),
           ProbeLive(t, f), PortSound(t, {}), Watched(t, f)
    PROVE  SimSound(t)
<1>1. s \in SimType
    BY DEF World
<1>2. World(t, f)
    BY WorldKept
<1>3. StartsOnce(t, f)
    BY <1>1, StartsOnceKept
<1>4. TriggersSound(t)
  <2>1. \A g \in Flows : g # f => t.flow[g] = s.flow[g]
      BY DEF Keeps
  <2> QED
      BY <1>1, <2>1, TriggersKept
<1>5. FlowSound(t, f)
    BY <1>3 DEF FlowSound, Fit
<1> QED
    BY <1>2, <1>4, <1>5, AllSound

LEMMA StepsSound ==
    ASSUME NEW s, NEW f \in Flows, SimSound(s), NEW t, Steps(s, t, f), PortSound(t, {})
    PROVE  SimSound(t) /\ Keeps(s, t, f)
<1>1. /\ World(s, f) /\ TriggersSound(s) /\ FlowSound(s, f) /\ ListSound(s.l) /\ Fit(s, f)
    BY SoundParts
<1>2. OthersApart(s, f)
    BY <1>1, RtoLiveApart DEF FlowSound
<1>3. Keeps(s, t, f) /\ SameRun(s, t, f)
    BY <1>2, MovesKeeps DEF Steps
<1>4. Watched(t, f) /\ ProbeLive(t, f)
    BY <1>1, WatchedStays, ProbeStays DEF FlowSound, Steps
<1>5. Fit(t, f) /\ Recorded(t.flow[f])
    BY <1>1 DEF FlowSound, Steps
<1>6. StartsOnce(s, f)
    BY <1>1 DEF FlowSound
<1> QED
    BY <1>1, <1>3, <1>4, <1>5, <1>6, SoundAgain

LEMMA TriggerKinds ==
    ASSUME NEW g \in Triggers
    PROVE  /\ TriggerOf[g].kind = "single" \/ TriggerOf[g].kind = "multi" \/ TriggerOf[g].kind = "barrier"
           /\ TriggerOf[g].targets \in Seq(Flows) /\ TriggerOf[g].needed \in Nat
           /\ DOMAIN TriggerOf[g].targets = 1 .. Len(TriggerOf[g].targets)
           /\ Len(TriggerOf[g].targets) \in Nat
<1>1. TriggerOf[g] \in [kind : {"single", "multi", "barrier"}, targets : Seq(Flows), needed : Nat]
    BY TriggerAssumption DEF Triggers
<1>2. TriggerOf[g].targets \in Seq(Flows)
    BY <1>1
<1> QED
    BY <1>1, <1>2, LenProperties

LEMMA ReleasedStays ==
    ASSUME NEW g \in Triggers, NEW i \in DOMAIN TriggerOf[g].targets, NEW n \in Nat, Released(g, i, n)
    PROVE  Released(g, i, n + 1)
<1>1. i \in Nat /\ TriggerOf[g].needed \in Nat
    BY TriggerKinds
<1>2. /\ n >= 1 => n + 1 >= 1
      /\ n >= i => n + 1 >= i
      /\ n >= TriggerOf[g].needed => n + 1 >= TriggerOf[g].needed
    BY <1>1
<1>3. CASE TriggerOf[g].kind = "single"
    BY <1>2, <1>3 DEF Released
<1>4. CASE TriggerOf[g].kind = "multi"
    BY <1>2, <1>4 DEF Released
<1>5. CASE TriggerOf[g].kind = "barrier"
    BY <1>2, <1>5 DEF Released
<1> QED
    BY <1>3, <1>4, <1>5, TriggerKinds

\* What an activation releases was not released before, and once only.
LEMMA FiresNew ==
    ASSUME NEW g \in Triggers, NEW n \in Nat, TriggerOf[g].kind = "single" => n = 0
    PROVE  LET new == Fires(g, n + 1)
           IN  /\ new \in Seq(Flows)
               /\ \A i \in DOMAIN new : \E j \in DOMAIN TriggerOf[g].targets :
                     /\ new[i] = TriggerOf[g].targets[j]
                     /\ Released(g, j, n + 1) /\ ~ Released(g, j, n)
               /\ \A i, k \in DOMAIN new : new[i] = new[k] => i = k
<1> DEFINE new == Fires(g, n + 1)
           ts == TriggerOf[g].targets
<1>1. ts \in Seq(Flows) /\ DOMAIN ts = 1 .. Len(ts) /\ Len(ts) \in Nat /\ TriggerOf[g].needed \in Nat
    BY TriggerKinds
<1>2. \A i, k \in DOMAIN ts : ts[i] = ts[k] => i = k
    BY TriggerAssumption
<1>0. ASSUME new = <<>>
      PROVE  /\ new \in Seq(Flows)
             /\ \A i \in DOMAIN new : \E j \in DOMAIN TriggerOf[g].targets :
                   /\ new[i] = TriggerOf[g].targets[j]
                   /\ Released(g, j, n + 1) /\ ~ Released(g, j, n)
             /\ \A i, k \in DOMAIN new : new[i] = new[k] => i = k
  <2> HIDE DEF new
  <2>1. <<>> \in Seq(Flows) /\ DOMAIN <<>> = {}
      OBVIOUS
  <2> QED
      BY <1>0, <2>1
<1>3. CASE TriggerOf[g].kind = "single"
  <2>1. new = ts
      BY <1>3 DEF Fires
  <2>2. \A j \in DOMAIN ts : Released(g, j, n + 1) /\ ~ Released(g, j, n)
      BY <1>3 DEF Released
  <2> QED
      BY <1>1, <1>2, <2>1, <2>2
<1>4. CASE TriggerOf[g].kind = "barrier"
  <2>1. CASE n + 1 = TriggerOf[g].needed
    <3>1. new = ts
        BY <1>4, <2>1 DEF Fires
    <3>2. \A j \in DOMAIN ts : Released(g, j, n + 1) /\ ~ Released(g, j, n)
        BY <1>1, <1>4, <2>1 DEF Released
    <3> QED
        BY <1>1, <1>2, <3>1, <3>2
  <2>2. CASE n + 1 # TriggerOf[g].needed
    <3>1. new = <<>>
        BY <1>4, <2>2 DEF Fires
    <3> QED
        BY <1>0, <3>1
  <2> QED
      BY <2>1, <2>2
<1>5. CASE TriggerOf[g].kind = "multi"
  <2>1. CASE n + 1 <= Len(ts)
    <3>1. new = <<ts[n + 1]>>
        BY <1>5, <2>1 DEF Fires
    <3>2. n + 1 \in DOMAIN ts
        BY <1>1, <2>1
    <3>3. ts[n + 1] \in Flows
        BY <1>1, <3>2, ElementOfSeq
    <3>4. new \in Seq(Flows) /\ DOMAIN new = {1} /\ new[1] = ts[n + 1]
      <4> DEFINE x == ts[n + 1]
      <4> HIDE DEF x, new
      <4>1. <<x>> \in Seq(Flows) /\ DOMAIN <<x>> = {1} /\ <<x>>[1] = x
          BY <3>3 DEF x
      <4> QED
          BY <3>1, <4>1 DEF x
    <3>5. Released(g, n + 1, n + 1) /\ ~ Released(g, n + 1, n)
        BY <1>5 DEF Released
    <3> HIDE DEF new, ts
    <3> QED
        BY <3>2, <3>4, <3>5 DEF new, ts
  <2>2. CASE ~ (n + 1 <= Len(ts))
    <3>1. new = <<>>
        BY <1>5, <2>2 DEF Fires
    <3> QED
        BY <1>0, <3>1
  <2> QED
      BY <2>1, <2>2
<1> QED
    BY <1>3, <1>4, <1>5, TriggerKinds

\* A flow that finishes activates its trigger no more often than it may be.
LEMMA Activates ==
    ASSUME NEW s \in SimType, ListSound(s.l), TriggersSound(s), NEW g \in Triggers,
           NEW f \in Feeding(g), ~ s.flow[f].done
    PROVE  LET l == Activate(s.l, g)
           IN  /\ ListSound(l) /\ l.now = s.l.now /\ l.end = s.l.end /\ l.pending = s.l.pending
               /\ s.l.shots[g] \in Nat
               /\ l.shots = [s.l.shots EXCEPT ![g] = @ + 1]
               /\ l.targets = s.l.targets \o Fires(g, s.l.shots[g] + 1)
               /\ TriggerOf[g].kind = "single" => s.l.shots[g] = 0
<1> DEFINE D == {h \in Feeding(g) : s.flow[h].done}
           n == s.l.shots[g]
           l == Activate(s.l, g)
<1>1. s.l \in ListType /\ n \in Nat
    BY DEF SimType, ListType
<1>2. n = Cardinality(D)
    BY DEF TriggersSound
<1>3. IsFiniteSet(Feeding(g)) /\ IsFiniteSet(D) /\ Cardinality(D) < Cardinality(Feeding(g))
  <2>1. IsFiniteSet(Flows) /\ Feeding(g) \subseteq Flows
      BY RecoveryAssumption DEF Feeding
  <2>2. IsFiniteSet(Feeding(g))
      BY <2>1, FS_Subset
  <2>3. IsFiniteSet(D) /\ Cardinality(D) \in Nat /\ D \subseteq Feeding(g) /\ f \notin D
      BY <2>2, FS_Subset, FS_CardinalityType
  <2>4. Cardinality(D) <= Cardinality(Feeding(g)) /\ (Cardinality(D) = Cardinality(Feeding(g)) => D = Feeding(g))
      BY <2>2, <2>3, FS_Subset
  <2>5. Cardinality(Feeding(g)) \in Nat
      BY <2>2, FS_CardinalityType
  <2> HIDE DEF D
  <2> QED
      BY <2>2, <2>3, <2>4, <2>5
<1>4. TriggerOf[g].kind = "single" => n = 0
  <2>1. TriggerOf[g].kind = "single" => Cardinality(Feeding(g)) <= 1
      BY TriggerAssumption
  <2>2. Cardinality(Feeding(g)) \in Nat
      BY <1>3, FS_CardinalityType
  <2> HIDE DEF D, n
  <2> QED
      BY <1>1, <1>2, <1>3, <2>1, <2>2
<1>5. TriggerOf[g].kind = "barrier" => n < TriggerOf[g].needed
  <2>1. TriggerOf[g].kind = "barrier" => Cardinality(Feeding(g)) <= TriggerOf[g].needed
      BY TriggerAssumption
  <2>2. Cardinality(Feeding(g)) \in Nat /\ TriggerOf[g].needed \in Nat
      BY <1>3, FS_CardinalityType, TriggerKinds
  <2> HIDE DEF D, n
  <2> QED
      BY <1>1, <1>2, <1>3, <2>1, <2>2
<1>6. MayActivate(s.l, g)
    BY <1>4, <1>5 DEF MayActivate
<1>7. Check(s.l, MayActivate(s.l, g), "trigger") = s.l
    BY <1>1, <1>6, CheckHolds
<1>8. l = [s.l EXCEPT !.targets = @ \o Fires(g, n + 1), !.shots[g] = @ + 1]
    BY <1>7 DEF Activate
<1>9. Fires(g, n + 1) \in Seq(Flows)
    BY <1>1, <1>4, FiresNew
<1> DEFINE new == Fires(g, n + 1)
           many == s.l.targets \o new
           counts == [s.l.shots EXCEPT ![g] = @ + 1]
<1>10. many \in Seq(Flows) /\ counts \in [Triggers -> Nat]
  <2>1. s.l.targets \in Seq(Flows) /\ s.l.shots \in [Triggers -> Nat]
      BY <1>1 DEF ListType
  <2>2. many \in Seq(Flows)
    <3> HIDE DEF new
    <3> QED
        BY <1>9, <2>1, ConcatProperties DEF new
  <2>3. counts \in [Triggers -> Nat]
      BY <2>1
  <2> QED
      BY <2>2, <2>3
<1>11. l = [s.l EXCEPT !.targets = many, !.shots = counts]
    BY <1>1, <1>8 DEF ListType
<1> HIDE DEF many, counts, l, D
<1>12. /\ l \in ListType /\ l.now = s.l.now /\ l.end = s.l.end /\ l.pending = s.l.pending
       /\ l.fault = s.l.fault /\ l.shots = counts /\ l.targets = many
    BY <1>1, <1>10, <1>11 DEF ListType
<1>13. ListSound(l)
    BY <1>12 DEF ListSound, InOrder, NotPast, OwnHandles
<1> QED
    BY <1>1, <1>4, <1>12, <1>13 DEF l, many, counts

\* A target that is due belongs to one activation.
LEMMA DueOnce ==
    ASSUME NEW s, NEW g \in Triggers, NEW j \in DOMAIN TriggerOf[g].targets,
           Due(s, TriggerOf[g].targets[j])
    PROVE  Released(g, j, s.l.shots[g])
<1>1. PICK h \in Triggers : \E i \in DOMAIN TriggerOf[h].targets :
          TriggerOf[h].targets[i] = TriggerOf[g].targets[j] /\ Released(h, i, s.l.shots[h])
    BY DEF Due
<1>2. PICK i \in DOMAIN TriggerOf[h].targets :
          TriggerOf[h].targets[i] = TriggerOf[g].targets[j] /\ Released(h, i, s.l.shots[h])
    BY <1>1
<1>3. h = g /\ i = j
    BY <1>2, TriggerAssumption
<1> QED
    BY <1>2, <1>3

LEMMA FinishTriggers ==
    ASSUME NEW s \in SimType, ListSound(s.l), TriggersSound(s),
           NEW g \in Triggers, NEW f \in Feeding(g), ~ s.flow[f].done,
           NEW t, t.l.shots = [s.l.shots EXCEPT ![g] = @ + 1],
           t.l.targets = s.l.targets \o Fires(g, s.l.shots[g] + 1),
           \A h \in Flows : /\ t.flow[h].started = s.flow[h].started
                            /\ t.flow[h].done = (s.flow[h].done \/ h = f)
    PROVE  TriggersSound(t)
<1> DEFINE n == s.l.shots[g]
           new == Fires(g, n + 1)
           old == s.l.targets
           D == {h \in Feeding(g) : s.flow[h].done}
<1>1. n \in Nat /\ s.l.shots \in [Triggers -> Nat] /\ old \in Seq(Flows)
      /\ f \in Flows /\ EndTrigger[f] = g
    BY DEF SimType, ListType, Feeding
<1>2. /\ new \in Seq(Flows)
      /\ \A i \in DOMAIN new : \E j \in DOMAIN TriggerOf[g].targets :
            /\ new[i] = TriggerOf[g].targets[j]
            /\ Released(g, j, n + 1) /\ ~ Released(g, j, n)
      /\ \A i, k \in DOMAIN new : new[i] = new[k] => i = k
  <2>1. TriggerOf[g].kind = "single" => n = 0
      BY Activates
  <2> QED
      BY <1>1, <2>1, FiresNew
<1> HIDE DEF new, n, old
<1>3. t.l.shots[g] = n + 1 /\ \A h \in Triggers : h # g => t.l.shots[h] = s.l.shots[h]
    BY <1>1 DEF n
<1>4. ASSUME NEW h \in Triggers
      PROVE  t.l.shots[h] = Cardinality({x \in Feeding(h) : t.flow[x].done})
  <2>1. CASE h = g
    <3>1. {x \in Feeding(g) : t.flow[x].done} = D \cup {f}
        BY DEF Feeding
    <3>2. IsFiniteSet(D) /\ f \notin D
      <4>1. IsFiniteSet(Flows) /\ D \subseteq Flows
          BY RecoveryAssumption DEF Feeding
      <4> QED
          BY <4>1, FS_Subset
    <3>3. n = Cardinality(D)
        BY DEF TriggersSound, n
    <3>4. Cardinality(D \cup {f}) = Cardinality(D) + 1
        BY <3>2, FS_AddElement
    <3> QED
        BY <1>3, <2>1, <3>1, <3>3, <3>4
  <2>2. CASE h # g
    <3>1. f \notin Feeding(h)
        BY <1>1, <2>2 DEF Feeding
    <3>2. {x \in Feeding(h) : t.flow[x].done} = {x \in Feeding(h) : s.flow[x].done}
        BY <3>1 DEF Feeding
    <3> QED
        BY <1>3, <2>2, <3>2 DEF TriggersSound
  <2> QED
      BY <2>1, <2>2
<1>5. ASSUME NEW x, Due(s, x)
      PROVE  Due(t, x)
  <2>1. PICK h \in Triggers : \E i \in DOMAIN TriggerOf[h].targets :
            TriggerOf[h].targets[i] = x /\ Released(h, i, s.l.shots[h])
      BY <1>5 DEF Due
  <2>2. PICK i \in DOMAIN TriggerOf[h].targets : TriggerOf[h].targets[i] = x /\ Released(h, i, s.l.shots[h])
      BY <2>1
  <2>3. Released(h, i, t.l.shots[h])
    <3>1. CASE h = g
        BY <1>1, <1>3, <2>2, <3>1, ReleasedStays DEF n
    <3>2. CASE h # g
        BY <1>3, <2>2, <3>2
    <3> QED
        BY <3>1, <3>2
  <2> QED
      BY <2>2, <2>3 DEF Due
<1>6. ASSUME NEW i \in DOMAIN new
      PROVE  /\ new[i] \in Flows /\ StartAt[new[i]] = TriggerStart
             /\ Due(t, new[i]) /\ ~ Due(s, new[i])
  <2>1. PICK j \in DOMAIN TriggerOf[g].targets :
            /\ new[i] = TriggerOf[g].targets[j]
            /\ Released(g, j, n + 1) /\ ~ Released(g, j, n)
      BY <1>2
  <2>2. new[i] \in Flows
      BY <1>2, ElementOfSeq, LenProperties
  <2>3. StartAt[new[i]] = TriggerStart
      BY <2>1, TriggerAssumption
  <2>4. Due(t, new[i])
      BY <1>3, <2>1 DEF Due
  <2>5. ~ Due(s, new[i])
      BY <2>1, DueOnce DEF n
  <2> QED
      BY <2>2, <2>3, <2>4, <2>5
<1>7. ASSUME NEW i \in DOMAIN old
      PROVE  /\ old[i] \in Flows /\ StartAt[old[i]] = TriggerStart /\ ~ s.flow[old[i]].started
             /\ Due(s, old[i])
             /\ \A j \in DOMAIN old : old[j] = old[i] => j = i
  <2>1. old[i] \in Flows
      BY <1>1, ElementOfSeq, LenProperties
  <2> QED
      BY <2>1 DEF TriggersSound, old
<1>8. \A x \in Flows : t.flow[x].started /\ StartAt[x] = TriggerStart => Due(t, x)
    BY <1>5 DEF TriggersSound
<1> DEFINE all == old \o new
<1>9. /\ Len(old) \in Nat /\ Len(new) \in Nat /\ DOMAIN old = 1 .. Len(old) /\ DOMAIN new = 1 .. Len(new)
      /\ DOMAIN all = 1 .. Len(old) + Len(new)
      /\ \A i \in DOMAIN all : all[i] = IF i <= Len(old) THEN old[i] ELSE new[i - Len(old)]
  <2>1. Len(old) \in Nat /\ Len(new) \in Nat /\ DOMAIN old = 1 .. Len(old) /\ DOMAIN new = 1 .. Len(new)
      BY <1>1, <1>2, LenProperties
  <2>2. /\ all \in Seq(Flows) /\ Len(all) = Len(old) + Len(new)
        /\ \A i \in 1 .. Len(old) + Len(new) : all[i] = IF i <= Len(old) THEN old[i] ELSE new[i - Len(old)]
      BY <1>1, <1>2, ConcatProperties
  <2> HIDE DEF all
  <2>3. DOMAIN all = 1 .. Len(all)
      BY <2>2, LenProperties
  <2> QED
      BY <2>1, <2>2, <2>3
<1>10. t.l.targets = all
    BY DEF all, old, new, n
<1> HIDE DEF all
<1>11. ASSUME NEW i \in DOMAIN all
       PROVE  \/ i \in DOMAIN old /\ all[i] = old[i]
              \/ i - Len(old) \in DOMAIN new /\ all[i] = new[i - Len(old)]
  <2>1. i \in 1 .. Len(old) + Len(new) /\ all[i] = IF i <= Len(old) THEN old[i] ELSE new[i - Len(old)]
      BY <1>9
  <2>2. CASE i <= Len(old)
      BY <1>9, <2>1, <2>2
  <2>3. CASE ~ (i <= Len(old))
    <3>1. i - Len(old) \in 1 .. Len(new)
        BY <1>9, <2>1, <2>3
    <3> QED
        BY <1>9, <2>1, <2>3, <3>1
  <2> QED
      BY <2>2, <2>3
<1>12. ASSUME NEW i \in DOMAIN all
       PROVE  /\ StartAt[all[i]] = TriggerStart /\ ~ t.flow[all[i]].started /\ Due(t, all[i])
              /\ \A j \in DOMAIN all : all[j] = all[i] => j = i
  <2>1. CASE i \in DOMAIN old /\ all[i] = old[i]
    <3>1. /\ all[i] \in Flows /\ StartAt[all[i]] = TriggerStart /\ ~ t.flow[all[i]].started
          /\ Due(s, all[i]) /\ Due(t, all[i])
        BY <1>5, <1>7, <2>1
    <3>2. ASSUME NEW j \in DOMAIN all, all[j] = all[i]
          PROVE  j = i
      <4>1. CASE j \in DOMAIN old /\ all[j] = old[j]
          BY <1>7, <2>1, <3>2, <4>1
      <4>2. CASE j - Len(old) \in DOMAIN new /\ all[j] = new[j - Len(old)]
          BY <1>6, <3>1, <3>2, <4>2
      <4> QED
          BY <1>11, <4>1, <4>2
    <3> QED
        BY <3>1, <3>2
  <2>2. CASE i - Len(old) \in DOMAIN new /\ all[i] = new[i - Len(old)]
    <3>1. /\ all[i] \in Flows /\ StartAt[all[i]] = TriggerStart /\ Due(t, all[i]) /\ ~ Due(s, all[i])
        BY <1>6, <2>2
    <3>2. ~ s.flow[all[i]].started
        BY <3>1 DEF TriggersSound
    <3>3. ASSUME NEW j \in DOMAIN all, all[j] = all[i]
          PROVE  j = i
      <4>1. CASE j \in DOMAIN old /\ all[j] = old[j]
          BY <1>7, <3>1, <3>3, <4>1
      <4>2. CASE j - Len(old) \in DOMAIN new /\ all[j] = new[j - Len(old)]
        <5>1. j - Len(old) = i - Len(old)
            BY <1>2, <2>2, <3>3, <4>2
        <5>2. i \in Int /\ j \in Int /\ Len(old) \in Nat
            BY <1>9
        <5> QED
            BY <5>1, <5>2
      <4> QED
          BY <1>11, <4>1, <4>2
    <3> QED
        BY <3>1, <3>2, <3>3
  <2> QED
      BY <1>11, <2>1, <2>2
<1> QED
    BY <1>4, <1>8, <1>10, <1>12 DEF TriggersSound

\* A flow with nothing left to do finishes.
LEMMA FinishSound ==
    ASSUME NEW s, SimSound(s), NEW f \in Flows, ~ s.flow[f].done, Complete(s.flow[f])
    PROVE  LET t == Finish(s, f)
           IN  SimSound(t) /\ Keeps(s, t, f) /\ t.flow[f].probeWhen = s.flow[f].probeWhen
<1> DEFINE r == s.flow[f]
           g == EndTrigger[f]
           a == IF g = NoTrigger THEN s ELSE [s EXCEPT !.l = Activate(@, g)]
           c == CancelRTO(a, f)
           u == [c.flow[f] EXCEPT !.done = TRUE]
           t == Finish(s, f)
<1>1. /\ World(s, f) /\ TriggersSound(s) /\ PortSound(s, {}) /\ FlowSound(s, f)
      /\ s \in SimType /\ ListSound(s.l) /\ r \in FlowType /\ s.nic \in NicType
    BY SoundParts, SimFields
<1>2. g # NoTrigger => g \in Triggers /\ f \in Feeding(g)
  <2>1. g \in Triggers \cup {NoTrigger}
      BY TriggerAssumption
  <2> QED
      BY <2>1 DEF Feeding
<1>3. /\ a \in SimType /\ ListSound(a.l) /\ a.flow = s.flow /\ a.nic = s.nic
      /\ a.l.now = s.l.now /\ a.l.end = s.l.end /\ Entries(a.l) = Entries(s.l)
  <2>1. CASE g = NoTrigger
      BY <1>1, <2>1
  <2>2. CASE g # NoTrigger
    <3> DEFINE l == Activate(s.l, g)
    <3>1. ListSound(l) /\ l.now = s.l.now /\ l.end = s.l.end /\ l.pending = s.l.pending
        BY <1>1, <1>2, <2>2, Activates
    <3>2. l \in ListType
        BY <3>1 DEF ListSound
    <3>3. a = [s EXCEPT !.l = l]
        BY <2>2
    <3> HIDE DEF a, l
    <3>4. a \in SimType /\ a.l = l /\ a.flow = s.flow /\ a.nic = s.nic
        BY <1>1, <3>2, <3>3 DEF SimType
    <3> QED
        BY <3>1, <3>4 DEF Entries
  <2> QED
      BY <2>1, <2>2
<1>4. /\ g # NoTrigger => /\ a.l.shots = [s.l.shots EXCEPT ![g] = @ + 1]
                          /\ a.l.targets = s.l.targets \o Fires(g, s.l.shots[g] + 1)
      /\ g = NoTrigger => a.l.shots = s.l.shots /\ a.l.targets = s.l.targets
  <2>1. CASE g = NoTrigger
      BY <2>1
  <2>2. CASE g # NoTrigger
    <3> DEFINE l == Activate(s.l, g)
    <3>1. /\ l.shots = [s.l.shots EXCEPT ![g] = @ + 1]
          /\ l.targets = s.l.targets \o Fires(g, s.l.shots[g] + 1)
        BY <1>1, <1>2, <2>2, Activates
    <3>2. a.l = l
        BY <1>1, <2>2 DEF SimType
    <3> HIDE DEF a, l
    <3> QED
        BY <2>2, <3>1, <3>2
  <2> QED
      BY <2>1, <2>2
<1>5. t = [c EXCEPT !.flow[f].done = TRUE]
    BY DEF Finish
<1> HIDE DEF a, t
<1>6. RtoLive(a, f) /\ ProbeLive(a, f) /\ Keeps(s, a, f)
  <2>1. s.flow[f].next >= s.flow[f].next
      BY <1>1, NextIsNatural
  <2> QED
      BY <1>1, <1>3, <2>1 DEF RtoLive, ProbeLive, Apart, FlowSound, Keeps
<1>7. Moves(a, c, f) /\ c.nic = a.nic /\ TimerOnly(r, c.flow[f]) /\ ~ c.flow[f].pending
    BY <1>3, <1>6, CancelRTOStops
<1> HIDE DEF c
<1>8. c \in SimType /\ c.flow[f] \in FlowType /\ c.l \in ListType /\ ListSound(c.l) /\ c.nic \in NicType
  <2>1. c \in SimType /\ ListSound(c.l)
      BY <1>7 DEF Moves
  <2> QED
      BY <2>1, SimFields
<1>9. t = Upd(c, c.l, f, u, c.nic)
  <2>1. c = Upd(c, c.l, f, c.flow[f], c.nic)
      BY <1>8, AsUpd
  <2>2. t = [c EXCEPT !.flow[f] = u]
      BY <1>5
  <2> HIDE DEF u
  <2> QED
      BY <1>8, <2>1, <2>2, SetFlow
<1>10. /\ u.started = r.started /\ u.backlog = r.backlog /\ u.next = r.next /\ u.blocked = r.blocked
       /\ u.sent = r.sent /\ u.timed = r.timed /\ u.rtx = r.rtx /\ u.loss = r.loss
       /\ u.probeWhen = r.probeWhen /\ u.probeHandle = r.probeHandle
       /\ ~ u.pending /\ u.done /\ u \in FlowType
  <2>1. /\ u.started = c.flow[f].started /\ u.backlog = c.flow[f].backlog /\ u.next = c.flow[f].next
        /\ u.sent = c.flow[f].sent /\ u.timed = c.flow[f].timed /\ u.rtx = c.flow[f].rtx
        /\ u.loss = c.flow[f].loss /\ u.blocked = c.flow[f].blocked
        /\ u.probeWhen = c.flow[f].probeWhen /\ u.probeHandle = c.flow[f].probeHandle
        /\ u.pending = c.flow[f].pending /\ u.done /\ u \in FlowType
      BY <1>8 DEF FlowType
  <2> HIDE DEF u
  <2> QED
      BY <1>1, <1>7, <2>1, TimerFields
<1> HIDE DEF u
<1>11. /\ t \in SimType /\ t.l = c.l /\ t.nic = c.nic /\ t.flow[f] = u
       /\ \A h \in Flows : h # f => t.flow[h] = c.flow[h]
    BY <1>8, <1>9, <1>10, Updated
<1>12. Keeps(s, t, f)
  <2>1. Keeps(a, c, f)
      BY <1>3, <1>6, <1>7, RtoLiveApart, MovesKeeps
  <2>2. Keeps(c, t, f)
    <3>1. c.flow[f].next = r.next /\ r.next \in Nat
        BY <1>1, <1>7, TimerFields, NextIsNatural
    <3> QED
        BY <1>8, <1>10, <1>11, <3>1 DEF Keeps
  <2>3. Keeps(s, c, f)
      BY <1>1, <1>6, <2>1, KeepsOn
  <2> QED
      BY <1>1, <2>2, <2>3, KeepsOn
<1>13. World(t, f)
    BY <1>1, <1>12, WorldKept
<1>14. Out(u) = Out(r) /\ Complete(u) /\ Wants(u) = Wants(r)
  <2>1. Out(u) = Out(r)
      BY <1>10 DEF Out
  <2> QED
      BY <1>10, <2>1 DEF Complete, Wants
<1>15. t.l.now = s.l.now
    BY <1>12 DEF Keeps
<1>16. Fit(t, f) /\ Recorded(u)
  <2>1. Books(u, f, t.l.now)
      BY <1>1, <1>10, <1>14, <1>15 DEF FlowSound, Books
  <2>2. RtoLive(t, f) /\ NotEarly(u) /\ Recorded(u)
      BY <1>10, <1>11 DEF RtoLive, NotEarly, Recorded
  <2> QED
      BY <1>8, <1>11, <2>1, <2>2 DEF Fit
<1>17. ProbeLive(t, f)
  <2>1. ProbeLive(c, f)
      BY <1>6, <1>7, ProbeStays
  <2>2. c.flow[f].probeWhen = r.probeWhen /\ c.flow[f].probeHandle = r.probeHandle
      BY <1>1, <1>7, TimerFields
  <2> QED
      BY <1>10, <1>11, <2>1, <2>2 DEF ProbeLive, ProbeEntry, Apart
<1>18. Watched(t, f)
  <2>1. Tended(t, f)
      BY <1>11, <1>14 DEF Tended
  <2> QED
      BY <1>16, <2>1, TendedIsWatched
<1>19. StartsOnce(t, f)
  <2>1. Size[f] # 0 /\ u.next + u.backlog = Size[f] /\ u.backlog = 0 /\ u.next \in Nat
      BY <1>1, <1>10, <1>14, RecoveryAssumption, NextIsNatural DEF FlowSound, Books, Complete
  <2>2. u.next # 0
      BY <2>1
  <2> QED
      BY <1>11, <2>2 DEF StartsOnce
<1>20. PortSound(t, {})
  <2>1. \A h \in Flows : h # f => t.flow[h] = s.flow[h]
      BY <1>12 DEF Keeps
  <2>2. t.nic = s.nic
      BY <1>3, <1>7, <1>11
  <2> QED
      BY <1>1, <1>10, <1>11, <1>14, <2>1, <2>2 DEF PortSound, Waiting
<1>21. TriggersSound(t)
  <2>1. t.l.shots = a.l.shots /\ t.l.targets = a.l.targets
      BY <1>7, <1>11 DEF Moves
  <2>2. \A h \in Flows : t.flow[h].started = s.flow[h].started /\ t.flow[h].done = (s.flow[h].done \/ h = f)
    <3>1. ASSUME NEW h \in Flows
          PROVE  t.flow[h].started = s.flow[h].started /\ t.flow[h].done = (s.flow[h].done \/ h = f)
      <4>1. CASE h = f
          BY <1>10, <1>11, <4>1
      <4>2. CASE h # f
        <5>1. t.flow[h] = s.flow[h]
            BY <1>12, <4>2 DEF Keeps
        <5>2. s.flow[h].done \in BOOLEAN
            BY <1>1, SimFields DEF FlowType
        <5> QED
            BY <4>2, <5>1, <5>2
      <4> QED
          BY <4>1, <4>2
    <3> QED
        BY <3>1
  <2>3. CASE g # NoTrigger
    <3>1. g \in Triggers /\ f \in Feeding(g)
        BY <1>2, <2>3
    <3>2. /\ t.l.shots = [s.l.shots EXCEPT ![g] = @ + 1]
          /\ t.l.targets = s.l.targets \o Fires(g, s.l.shots[g] + 1)
        BY <1>4, <2>1, <2>3
    <3> HIDE DEF g
    <3> QED
        BY <1>1, <2>2, <3>1, <3>2, FinishTriggers
  <2>4. CASE g = NoTrigger
    <3>1. \A h \in Triggers : f \notin Feeding(h)
        BY <2>4, TriggerAssumption DEF Feeding
    <3>2. \A h \in Triggers : {x \in Feeding(h) : t.flow[x].done} = {x \in Feeding(h) : s.flow[x].done}
        BY <2>2, <3>1 DEF Feeding
    <3>3. t.l.shots = s.l.shots /\ t.l.targets = s.l.targets
        BY <1>4, <2>1, <2>4
    <3>4. \A x : Due(t, x) = Due(s, x)
        BY <3>3 DEF Due
    <3>5. \A i \in DOMAIN s.l.targets : s.l.targets[i] \in Flows
      <4>1. s.l.targets \in Seq(Flows)
          BY <1>1 DEF SimType, ListType
      <4> QED
          BY <4>1, ElementOfSeq
    <3> QED
        BY <1>1, <2>2, <3>2, <3>3, <3>4, <3>5 DEF TriggersSound
  <2> QED
      BY <2>3, <2>4
<1>22. FlowSound(t, f)
    BY <1>11, <1>16, <1>17, <1>18, <1>19 DEF FlowSound, Fit
<1> QED
    BY <1>10, <1>11, <1>12, <1>13, <1>20, <1>21, <1>22, AllSound DEF t

\* An acknowledgement is handled.
LEMMA ProcessAckSound ==
    ASSUME NEW s, SimSound(s), NEW f \in Flows, NEW p \in Acks, s.flow[f].next # 0,
           p.cum <= s.flow[f].next, mode.sleek => s.l.end = 0, NEW avgLow
    PROVE  LET t == ProcessAck(s, f, p, avgLow)
           IN  /\ SimSound(t) /\ Keeps(s, t, f)
               /\ ~ mode.sleek => t.flow[f].probeWhen = s.flow[f].probeWhen
<1> DEFINE r == s.flow[f]
           x == HandleCumulativeAck(s, f, p.cum)
           a == HandleSacks(x, f, p.sacks)
           b == IF mode.sleek THEN Sleek(a, f, p, avgLow) ELSE a
           t == ProcessAck(s, f, p, avgLow)
<1>1. /\ World(s, f) /\ TriggersSound(s) /\ PortSound(s, {}) /\ FlowSound(s, f)
      /\ s \in SimType /\ ListSound(s.l) /\ Fit(s, f) /\ r \in FlowType /\ Books(r, f, s.l.now)
    BY SoundParts, SimFields DEF FlowSound
<1>2. p.cum \in Nat
    BY DEF Acks
<1>3. t = IF b.flow[f].done THEN b ELSE IF p.cum >= Size[f] THEN Finish(b, f) ELSE SendIfPermitted(b, f)
    BY DEF ProcessAck
<1>4. /\ Steps(s, x, f) /\ x.nic = s.nic /\ Shrinks(r, x.flow[f])
      /\ \A q \in Out(x.flow[f]) \cup x.flow[f].rtx : ~ (q < p.cum)
    BY <1>1, <1>2, CumulativeStep
<1> HIDE DEF x
<1>5. Steps(x, a, f) /\ a.nic = x.nic /\ Shrinks(x.flow[f], a.flow[f])
  <2>1. Fit(x, f)
      BY <1>4 DEF Steps
  <2> QED
      BY <2>1, SacksStep
<1> HIDE DEF a
<1>6. Steps(s, a, f) /\ Fit(a, f)
    BY <1>1, <1>4, <1>5, StepsOn DEF Steps
<1>7. \A q \in Out(a.flow[f]) \cup a.flow[f].rtx : ~ (q < p.cum)
    BY <1>4, <1>5 DEF Shrinks
<1>8. a.flow[f].next = r.next /\ a.flow[f].blocked = r.blocked /\ (Wants(a.flow[f]) => Wants(r))
    BY <1>4, <1>5 DEF Shrinks, Wants
<1>9. PortSound(a, {})
  <2>1. \A g \in Flows : g # f => a.flow[g] = s.flow[g]
      BY <1>6 DEF Steps, Moves
  <2> QED
      BY <1>1, <1>4, <1>5, <1>8, <2>1 DEF PortSound, Waiting
<1>10. SimSound(a) /\ Keeps(s, a, f)
    BY <1>6, <1>9, StepsSound
<1>11. /\ World(a, f) /\ TriggersSound(a) /\ FlowSound(a, f) /\ a \in SimType
       /\ a.flow[f] \in FlowType /\ Books(a.flow[f], f, a.l.now)
    BY <1>10, SoundParts, SimFields DEF FlowSound
<1>12. p.cum >= Size[f] => Complete(a.flow[f])
  <2> SUFFICES ASSUME p.cum >= Size[f]
               PROVE  Complete(a.flow[f])
      OBVIOUS
  <2>1. a.flow[f].next \in Nat /\ a.flow[f].backlog \in Nat
      BY <1>11, NextIsNatural
  <2>2. a.flow[f].started /\ a.flow[f].next + a.flow[f].backlog = Size[f]
      BY <1>8, <1>11 DEF Books
  <2>3. a.flow[f].backlog = 0 /\ a.flow[f].next <= p.cum
      BY <1>2, <1>8, <2>1, <2>2
  <2>4. \A q \in Out(a.flow[f]) \cup a.flow[f].rtx : q \in Nat /\ q < a.flow[f].next
    <3>1. Out(a.flow[f]) \cup a.flow[f].rtx \subseteq Seqs
        BY <1>11 DEF Out, FlowType
    <3> QED
        BY <1>11, <3>1, SizesAre DEF Books
  <2>5. Out(a.flow[f]) \cup a.flow[f].rtx = {}
      BY <1>2, <1>7, <2>1, <2>3, <2>4
  <2> QED
      BY <2>2, <2>3, <2>5 DEF Complete
<1>13. /\ SimSound(b) /\ Keeps(s, b, f) /\ (Complete(a.flow[f]) => Complete(b.flow[f]))
       /\ ~ mode.sleek => b.flow[f].probeWhen = r.probeWhen
  <2>1. CASE mode.sleek
    <3> DEFINE y == Sleek(a, f, p, avgLow)
    <3>1. a.l.end = 0 /\ a.flow[f].next # 0
        BY <1>8, <1>10, <2>1 DEF Keeps
    <3>2. Recorded(a.flow[f]) /\ ProbeLive(a, f) /\ StartsOnce(a, f)
        BY <1>11 DEF FlowSound
    <3>3. Tends(a, y, f) /\ Tended(y, f)
        BY <1>6, <1>7, <1>9, <3>1, <3>2, SleekStep
    <3> HIDE DEF y
    <3>4. /\ Keeps(a, y, f) /\ SameRun(a, y, f) /\ Fit(y, f) /\ Recorded(y.flow[f]) /\ ProbeLive(y, f)
          /\ PortSound(y, {}) /\ (Complete(a.flow[f]) => Complete(y.flow[f]))
        BY <3>3 DEF Tends
    <3>5. Watched(y, f)
        BY <3>3, <3>4, TendedIsWatched
    <3>6. SimSound(y)
        BY <1>11, <3>2, <3>4, <3>5, SoundAgain
    <3>7. Keeps(s, y, f)
        BY <1>1, <1>10, <3>4, KeepsOn
    <3> QED
        BY <2>1, <3>4, <3>6, <3>7 DEF y
  <2>2. CASE ~ mode.sleek
    <3>1. b = a
        BY <2>2
    <3>2. a.flow[f].probeWhen = r.probeWhen
        BY <1>6 DEF Steps, Moves
    <3> QED
        BY <1>10, <3>1, <3>2
  <2> QED
      BY <2>1, <2>2
<1> HIDE DEF b, t
<1>14. CASE b.flow[f].done
    BY <1>3, <1>13, <1>14 DEF t
<1>15. CASE ~ b.flow[f].done /\ p.cum >= Size[f]
  <2>1. t = Finish(b, f)
      BY <1>3, <1>15
  <2>2. SimSound(t) /\ Keeps(b, t, f) /\ t.flow[f].probeWhen = b.flow[f].probeWhen
      BY <1>12, <1>13, <1>15, <2>1, FinishSound
  <2>3. Keeps(s, t, f)
      BY <1>1, <1>13, <2>2, KeepsOn
  <2> QED
      BY <1>13, <2>2, <2>3 DEF t
<1>16. CASE ~ b.flow[f].done /\ ~ (p.cum >= Size[f])
  <2>1. t = SendIfPermitted(b, f)
      BY <1>3, <1>16
  <2>2. Fit(b, f) /\ PortSound(b, {f})
      BY <1>13, SoundParts DEF PortSound
  <2>3. Steps(b, t, f) /\ PortSound(t, {})
      BY <2>1, <2>2, SendIfPermittedStep
  <2>4. SimSound(t) /\ Keeps(b, t, f)
      BY <1>13, <2>3, StepsSound
  <2>5. Keeps(s, t, f)
      BY <1>1, <1>13, <2>4, KeepsOn
  <2>6. t.flow[f].probeWhen = b.flow[f].probeWhen
      BY <2>3 DEF Steps, Moves
  <2> QED
      BY <1>13, <2>4, <2>5, <2>6 DEF t
<1> QED
    BY <1>14, <1>15, <1>16

-----------------------------------------------------------------------------
(* The handlers.                                                           *)

\* Before it starts a flow has sent nothing and has no timer.
LEMMA NotStarted ==
    ASSUME NEW s \in SimType, NEW f \in Flows, Books(s.flow[f], f, s.l.now), Recorded(s.flow[f]),
           s.flow[f].next = 0
    PROVE  LET r == s.flow[f]
           IN  /\ Out(r) = {} /\ r.timed = {} /\ r.rtx = {} /\ ~ r.pending /\ r.probeWhen = 0
<1> DEFINE r == s.flow[f]
<1>1. r \in FlowType
    BY SimFields
<1>2. \A q \in Out(r) \cup r.rtx : q < r.next /\ q \in Nat
  <2>1. Out(r) \cup r.rtx \subseteq Seqs
      BY <1>1 DEF Out, FlowType
  <2> QED
      BY <2>1, SizesAre DEF Books
<1>3. Out(r) \cup r.rtx = {}
    BY <1>2
<1> QED
    BY <1>3 DEF Books, Recorded

LEMMA StartConnectionSound ==
    ASSUME NEW s, NEW f \in Flows, World(s, f), TriggersSound(s), PortSound(s, {}), FlowSound(s, f),
           ~ s.flow[f].started, StartAt[f] = TriggerStart => Due(s, f),
           \A e \in Entries(s.l) : e.src # SrcOf(f),
           \A i \in DOMAIN s.l.targets : s.l.targets[i] # f
    PROVE  LET t == StartConnection(s, f)
           IN  /\ SimSound(t) /\ Keeps(s, t, f) /\ t.flow[f].probeWhen = s.flow[f].probeWhen
               /\ s.flow[f].timed = {}
<1> DEFINE r == s.flow[f]
           m == [r EXCEPT !.started = TRUE, !.backlog = Size[f]]
           u == [m EXCEPT !.rtoHandle = NullHandle, !.pending = FALSE]
           b == Upd(s, s.l, f, m, s.nic)
           a == Upd(s, s.l, f, u, s.nic)
           t == StartConnection(s, f)
<1>1. /\ s \in SimType /\ ListSound(s.l) /\ Books(r, f, s.l.now) /\ Recorded(r)
      /\ Watched(s, f) /\ r \in FlowType /\ s.l \in ListType /\ s.nic \in NicType
    BY SimFields DEF World, FlowSound
<1>2. r.next = 0 /\ r.backlog = 0 /\ ~ r.done
    BY <1>1 DEF Books, Complete
<1>3. Out(r) = {} /\ r.timed = {} /\ r.rtx = {} /\ ~ r.pending /\ r.probeWhen = 0
    BY <1>1, <1>2, NotStarted
<1>4. ~ r.loss
    BY <1>1, <1>3 DEF Watched, Guarded, Complete
<1>5. Size[f] \in Nat /\ m \in FlowType
  <2>1. Size[f] \in Nat
      BY SizesAre
  <2> QED
      BY <1>1, <2>1 DEF FlowType
<1>6. t = SendIfPermitted(a, f)
  <2>1. b = [s EXCEPT !.flow[f] = m]
    <3>1. s = Upd(s, s.l, f, r, s.nic)
        BY <1>1, AsUpd
    <3> HIDE DEF m
    <3> QED
        BY <1>1, <3>1, SetFlow
  <2>2. t = SendIfPermitted(ClearRTO(b, f), f)
      BY <2>1 DEF StartConnection
  <2> HIDE DEF m, t
  <2>3. b \in SimType /\ b.l = s.l /\ b.nic = s.nic /\ b.flow[f] = m
      BY <1>1, <1>5, Updated
  <2>4. ClearRTO(b, f) = Upd(b, s.l, f, u, s.nic)
      BY <2>3, ClearRTOIs
  <2> HIDE DEF u
  <2>5. Upd(b, s.l, f, u, s.nic) = a
      BY <1>1, UpdTwice
  <2> QED
      BY <2>2, <2>4, <2>5
<1>7. /\ u \in FlowType /\ u.started /\ u.backlog = Size[f] /\ ~ u.pending /\ u.next = 0 /\ ~ u.done
      /\ u.sent = r.sent /\ u.timed = {} /\ u.rtx = {} /\ u.blocked = r.blocked
      /\ u.probeWhen = 0 /\ ~ u.loss
    BY <1>1, <1>2, <1>3, <1>4, <1>5 DEF FlowType, NullHandle
<1> HIDE DEF u, t
<1>8. /\ a \in SimType /\ a.l = s.l /\ a.nic = s.nic /\ a.flow[f] = u
      /\ \A g \in Flows : g # f => a.flow[g] = s.flow[g]
    BY <1>1, <1>7, Updated
<1> HIDE DEF a, b
<1>9. Keeps(s, a, f)
    BY <1>1, <1>2, <1>7, <1>8 DEF Keeps
<1>10. World(a, f)
    BY <1>9, WorldKept
<1>11. StartsOnce(a, f)
    BY <1>8 DEF StartsOnce
<1>12. TriggersSound(a)
  <2>1. a.l = s.l /\ \A g \in Flows : a.flow[g].done = s.flow[g].done
      BY <1>2, <1>7, <1>8, <1>1 DEF FlowType
  <2>2. \A g \in Triggers : {h \in Feeding(g) : a.flow[h].done} = {h \in Feeding(g) : s.flow[h].done}
      BY <2>1 DEF Feeding
  <2>3. \A g : Due(a, g) = Due(s, g)
      BY <2>1 DEF Due
  <2>4. \A g \in Flows : g # f => a.flow[g].started = s.flow[g].started
      BY <1>8
  <2>5. \A i \in DOMAIN s.l.targets : s.l.targets[i] \in Flows
    <3>1. s.l.targets \in Seq(Flows)
        BY <1>1 DEF ListType
    <3> QED
        BY <3>1, ElementOfSeq
  <2> QED
      BY <2>1, <2>2, <2>3, <2>4, <2>5 DEF TriggersSound
<1>13. Out(u) = {}
    BY <1>3, <1>7 DEF Out
<1>14. Fit(a, f) /\ Recorded(u) /\ ProbeLive(a, f)
  <2>1. Books(u, f, s.l.now)
    <3>1. u.next + u.backlog = Size[f]
        BY <1>5, <1>7
    <3> QED
        BY <1>7, <1>13, <3>1 DEF Books
  <2> QED
      BY <1>1, <1>7, <1>8, <2>1 DEF Fit, RtoLive, NotEarly, Recorded, ProbeLive
<1>15. Watched(a, f)
    BY <1>7, <1>8, <1>13 DEF Watched
<1>16. PortSound(a, {f})
    BY <1>7, <1>8 DEF PortSound, Waiting
<1>17. Steps(a, t, f) /\ PortSound(t, {})
    BY <1>6, <1>14, <1>16, SendIfPermittedStep
<1>18. Keeps(a, t, f) /\ SameRun(a, t, f)
  <2>1. OthersApart(a, f)
      BY <1>14, RtoLiveApart DEF Fit
  <2> QED
      BY <1>17, <2>1, MovesKeeps DEF Steps
<1>19. /\ Fit(t, f) /\ Recorded(t.flow[f]) /\ ProbeLive(t, f) /\ Watched(t, f)
       /\ t.flow[f].probeWhen = r.probeWhen
  <2>1. t.flow[f].probeWhen = r.probeWhen
      BY <1>3, <1>7, <1>8, <1>17 DEF Steps, Moves
  <2>2. Recorded(a.flow[f])
      BY <1>8, <1>14
  <2> QED
      BY <1>14, <1>15, <1>17, <2>1, <2>2, ProbeStays, WatchedStays DEF Steps
<1>20. SimSound(t)
    BY <1>10, <1>11, <1>12, <1>17, <1>18, <1>19, SoundAgain
<1>21. Keeps(s, t, f)
    BY <1>1, <1>9, <1>18, KeepsOn
<1> QED
    BY <1>3, <1>19, <1>20, <1>21 DEF t

\* A packet is given up only when its time has passed.
GivesUpLate(s, t, f) ==
    \A q \in s.flow[f].timed :
        q \notin t.flow[f].timed => s.l.now >= s.flow[f].sent[q] + MinRto

\* The retransmission timer of f has been served, if this was its event.
Woken(s, a, f) ==
    /\ Keeps(s, a, f) /\ SameRun(s, a, f)
    /\ Fit(a, f) /\ Recorded(a.flow[f]) /\ Watched(a, f) /\ PortSound(a, {})
    /\ a.flow[f].probeWhen = s.flow[f].probeWhen
    /\ s.flow[f].probeWhen # s.l.now => ProbeLive(a, f)
    /\ GivesUpLate(s, a, f)

\* What the event of flow f finds when it happens.
Called(s, f) ==
    /\ s \in SimType /\ ListSound(s.l) /\ World(s, f) /\ TriggersSound(s) /\ PortSound(s, {})
    /\ Books(s.flow[f], f, s.l.now) /\ Recorded(s.flow[f]) /\ NotEarly(s.flow[f])
    /\ Watched(s, f) /\ StartsOnce(s, f) /\ OthersApart(s, f)
    /\ s.flow[f].probeWhen # s.l.now => ProbeLive(s, f)
    /\ ~ (s.flow[f].pending /\ s.flow[f].rto = s.l.now) => RtoLive(s, f)

\* An event of a flow is one of its timers only if it has the time of that timer.
LEMMA CalledAfterPop ==
    ASSUME NEW s, SimSound(s), s.l.pending # <<>>, NEW f \in Flows, Head(s.l.pending).src = SrcOf(f)
    PROVE  Called([s EXCEPT !.l = Pop(@)], f)
<1> DEFINE t == [s EXCEPT !.l = Pop(@)]
           e == Head(s.l.pending)
<1>1. /\ t \in SimType /\ ListSound(t.l) /\ t.flow = s.flow /\ t.nic = s.nic
      /\ t.l.now = e.when /\ Entries(t.l) = Entries(s.l) \ {e}
      /\ TriggersSound(t) /\ PortSound(t, {})
      /\ Books(t.flow[f], f, t.l.now) /\ Recorded(t.flow[f]) /\ NotEarly(t.flow[f])
      /\ Watched(t, f) /\ StartsOnce(t, f)
      /\ RtoEntry(s.flow[f], f) # e => RtoLive(t, f)
      /\ ProbeEntry(s.flow[f], f) # e => ProbeLive(t, f)
    BY PopSound
<1>2. World(t, f)
  <2>1. \A g \in Flows : g # f => e.src # SrcOf(g)
      BY DEF SrcOf
  <2> QED
      BY <2>1, PopOfFlow
<1>3. OthersApart(t, f)
  <2>1. OthersApart(s, f)
      BY SoundParts, RtoLiveApart DEF Fit
  <2> HIDE DEF t
  <2> QED
      BY <1>1, <2>1 DEF OthersApart, Apart
<1>4. t.flow[f].probeWhen # t.l.now => ProbeEntry(s.flow[f], f) # e
    BY <1>1 DEF ProbeEntry
<1>5. t.flow[f].pending /\ t.flow[f].rto # t.l.now => RtoEntry(s.flow[f], f) # e
    BY <1>1 DEF RtoEntry
<1>6. ~ t.flow[f].pending => RtoLive(t, f)
    BY DEF RtoLive
<1> HIDE DEF t, e
<1> QED
    BY <1>1, <1>2, <1>3, <1>4, <1>5, <1>6 DEF Called, t

\* The timer has expired.
LEMMA TimerWakes ==
    ASSUME NEW s, NEW f \in Flows, Called(s, f), s.flow[f].pending, s.flow[f].rto = s.l.now
    PROVE  Woken(s, RtxTimerExpired(s, f), f)
<1> DEFINE r == s.flow[f]
           a == RtxTimerExpired(s, f)
           o == Oldest(r)
<1>1. /\ s \in SimType /\ ListSound(s.l) /\ PortSound(s, {}) /\ Books(r, f, s.l.now)
      /\ Recorded(r) /\ NotEarly(r) /\ Watched(s, f) /\ OthersApart(s, f)
      /\ s.flow[f].probeWhen # s.l.now => ProbeLive(s, f)
    BY DEF Called
<1>2. PICK p \in r.timed : r.sent[p] = r.rtoOf
    BY <1>1 DEF Recorded
<1>3. /\ Moves(s, a, f) /\ Fit(a, f) /\ Recorded(a.flow[f]) /\ Watched(a, f) /\ PortSound(a, {})
      /\ r.timed \ {o} \subseteq a.flow[f].timed
    BY <1>1, <1>2, ExpiryStep
<1>4. Keeps(s, a, f) /\ SameRun(s, a, f)
    BY <1>1, <1>3, MovesKeeps
<1>5. s.flow[f].probeWhen # s.l.now => ProbeLive(a, f)
    BY <1>1, <1>3, ProbeStays
<1>6. a.flow[f].probeWhen = r.probeWhen
    BY <1>3 DEF Moves
<1>7. s.l.now >= r.sent[o] + MinRto
  <2>1. r.sent[o] \in Nat /\ r.sent[o] <= r.sent[p]
      BY <1>1, <1>2, OldestIs, SimFields DEF Books
  <2>2. r.rto \in Nat /\ r.rtoOf \in Nat /\ s.l.now \in Nat
      BY <1>1, SimFields DEF FlowType, ListType
  <2>3. r.rto >= r.rtoOf + MinRto
      BY <1>1 DEF NotEarly
  <2>4. MinRto \in Nat
      BY RecoveryAssumption
  <2> QED
      BY <1>2, <2>1, <2>2, <2>3, <2>4
<1>8. GivesUpLate(s, a, f)
    BY <1>3, <1>7 DEF GivesUpLate
<1> QED
    BY <1>3, <1>4, <1>5, <1>6, <1>8 DEF Woken

\* Or it was none of its events.
LEMMA NobodyWakes ==
    ASSUME NEW s, NEW f \in Flows, Called(s, f), RtoLive(s, f)
    PROVE  Woken(s, s, f)
<1>1. Fit(s, f)
    BY DEF Called, Fit
<1>2. Keeps(s, s, f) /\ SameRun(s, s, f)
    BY <1>1, MovesNot, MovesKeeps DEF Called
<1>3. GivesUpLate(s, s, f)
    BY DEF GivesUpLate
<1> QED
    BY <1>1, <1>2, <1>3 DEF Called, Woken

\* The event of a flow that has sent nothing is its start, and its last.
LEMMA FirstCall ==
    ASSUME NEW s, SimSound(s), s.l.pending # <<>>, NEW f \in Flows, Head(s.l.pending).src = SrcOf(f),
           s.flow[f].next = 0
    PROVE  LET t == [s EXCEPT !.l = Pop(@)]
           IN  /\ ~ t.flow[f].started /\ StartAt[f] # TriggerStart
               /\ \A e \in Entries(t.l) : e.src # SrcOf(f)
<1> DEFINE t == [s EXCEPT !.l = Pop(@)]
           e == Head(s.l.pending)
<1>1. e \in Entries(s.l) /\ t.flow = s.flow /\ Entries(t.l) = Entries(s.l) \ {e}
    BY PopSound
<1>2. StartsOnce(s, f)
    BY SoundParts DEF FlowSound
<1> HIDE DEF t
<1> QED
    BY <1>1, <1>2 DEF StartsOnce, t

\* The flow starts.
LEMMA StartWakes ==
    ASSUME NEW s, NEW f \in Flows, Called(s, f), RtoLive(s, f), s.flow[f].next = 0,
           ~ s.flow[f].started, StartAt[f] # TriggerStart,
           \A e \in Entries(s.l) : e.src # SrcOf(f)
    PROVE  LET t == StartConnection(s, f)
           IN  /\ SimSound(t) /\ Keeps(s, t, f) /\ t.flow[f].probeWhen = 0
               /\ s.flow[f].probeWhen = 0 /\ GivesUpLate(s, t, f)
<1>1. /\ s \in SimType /\ Books(s.flow[f], f, s.l.now) /\ Recorded(s.flow[f])
    BY DEF Called
<1>2. s.flow[f].probeWhen = 0
    BY <1>1, NotStarted
<1>3. FlowSound(s, f)
    BY <1>2 DEF FlowSound, Called, ProbeLive
<1>4. \A i \in DOMAIN s.l.targets : s.l.targets[i] # f
    BY DEF Called, TriggersSound
<1>5. /\ SimSound(StartConnection(s, f)) /\ Keeps(s, StartConnection(s, f), f)
      /\ StartConnection(s, f).flow[f].probeWhen = s.flow[f].probeWhen /\ s.flow[f].timed = {}
    BY <1>3, <1>4, StartConnectionSound DEF Called
<1> QED
    BY <1>2, <1>5 DEF GivesUpLate

\* The probe timer may have been meant as well.
LEMMA ProbeWakes ==
    ASSUME NEW s, NEW f \in Flows, Called(s, f), NEW a, Woken(s, a, f),
           mode.sleek => s.l.end = 0, Guarded(s.flow[f]) => mode.sleek,
           NEW t, t = IF mode.sleek /\ a.flow[f].probeWhen # 0 /\ a.flow[f].probeWhen = s.l.now
                      THEN SendProbe(a, f) ELSE a
    PROVE  /\ SimSound(t) /\ Keeps(s, t, f) /\ GivesUpLate(s, t, f)
           /\ ~ mode.sleek => t.flow[f].probeWhen = s.flow[f].probeWhen
<1> DEFINE r == a.flow[f]
<1>1. /\ s \in SimType /\ World(s, f) /\ TriggersSound(s) /\ StartsOnce(s, f)
    BY DEF Called
<1>2. /\ Keeps(s, a, f) /\ SameRun(s, a, f) /\ Fit(a, f) /\ Recorded(r) /\ Watched(a, f)
      /\ PortSound(a, {}) /\ r.probeWhen = s.flow[f].probeWhen
      /\ s.flow[f].probeWhen # s.l.now => ProbeLive(a, f)
      /\ GivesUpLate(s, a, f)
    BY DEF Woken
<1>3. CASE mode.sleek /\ r.probeWhen # 0 /\ r.probeWhen = s.l.now
  <2>1. t = SendProbe(a, f)
      BY <1>3
  <2>2. /\ a \in SimType /\ ListSound(a.l) /\ a.l.now = s.l.now /\ a.l.end = s.l.end
        /\ RtoLive(a, f) /\ Books(r, f, a.l.now) /\ NotEarly(r) /\ r \in FlowType
      BY <1>2, SimFields DEF Keeps, Fit
  <2>3. r.next # 0 /\ a.l.now # 0 /\ a.l.end = 0
      BY <1>3, <2>2 DEF Books
  <2>4. Probed(a, t, f) /\ ProbeLive(t, f) /\ Guarded(t.flow[f])
      BY <2>1, <2>2, <2>3, SendProbeStep
  <2>5. Keeps(a, t, f) /\ SameRun(a, t, f) /\ t.nic = a.nic /\ ProbeOnly(r, t.flow[f]) /\ RtoLive(t, f)
      BY <2>2, <2>4 DEF Probed
  <2>6. Keeps(s, t, f) /\ SameRun(s, t, f)
      BY <1>1, <1>2, <2>5, KeepsOn, SameRunOn
  <2>7. /\ Wants(t.flow[f]) = Wants(r) /\ Recorded(t.flow[f]) /\ NotEarly(t.flow[f])
        /\ Books(t.flow[f], f, a.l.now)
      BY <1>2, <2>2, <2>3, <2>5, ProbeKeeps
  <2>8. t.flow[f].blocked = r.blocked /\ t.flow[f].timed = r.timed
      BY <2>2, <2>5, ProbeFields
  <2>9. PortSound(t, {})
    <3>1. \A g \in Flows : g # f => t.flow[g] = a.flow[g]
        BY <2>5 DEF Keeps
    <3>2. \A g \in Flows : t.flow[g].blocked = a.flow[g].blocked /\ Wants(t.flow[g]) = Wants(a.flow[g])
        BY <2>7, <2>8, <3>1
    <3>3. Waiting(t) = Waiting(a)
        BY <2>5 DEF Waiting
    <3> QED
        BY <1>2, <2>5, <3>2, <3>3 DEF PortSound
  <2>10. Fit(t, f)
      BY <2>2, <2>5, <2>7 DEF Fit, Keeps
  <2>11. Watched(t, f)
      BY <2>4, GuardedIsWatched
  <2>12. SimSound(t)
      BY <1>1, <2>4, <2>6, <2>7, <2>9, <2>10, <2>11, SoundAgain
  <2>13. GivesUpLate(s, t, f)
      BY <1>2, <2>8 DEF GivesUpLate
  <2> QED
      BY <1>3, <2>6, <2>12, <2>13
<1>4. CASE ~ (mode.sleek /\ r.probeWhen # 0 /\ r.probeWhen = s.l.now)
  <2>1. t = a
      BY <1>4
  <2>2. ProbeLive(a, f)
    <3>1. CASE r.probeWhen = 0
        BY <3>1 DEF ProbeLive
    <3>2. CASE r.probeWhen # 0
        BY <1>2, <1>4, <3>2 DEF Guarded
    <3> QED
        BY <3>1, <3>2
  <2>3. SimSound(a)
      BY <1>1, <1>2, <2>2, SoundAgain
  <2> QED
      BY <1>2, <2>1, <2>3
<1> QED
    BY <1>3, <1>4

\* An event of flow f is handled.
LEMMA SrcWakesSound ==
    ASSUME NEW s, SimSound(s), s.l.pending # <<>>, NEW f \in Flows, Head(s.l.pending).src = SrcOf(f),
           mode.sleek => s.l.end = 0, Guarded(s.flow[f]) => mode.sleek
    PROVE  LET b == [s EXCEPT !.l = Pop(@)]
               t == SrcWakes(b, f)
           IN  /\ SimSound(t) /\ Keeps(b, t, f) /\ GivesUpLate(b, t, f)
               /\ ~ mode.sleek => t.flow[f].probeWhen = b.flow[f].probeWhen
<1> DEFINE b == [s EXCEPT !.l = Pop(@)]
           r == b.flow[f]
           x == RtxTimerExpired(b, f)
           c == StartConnection(b, f)
           t == SrcWakes(b, f)
           fires == r.pending /\ r.rto = b.l.now
           P(a) == IF mode.sleek /\ a.flow[f].probeWhen # 0 /\ a.flow[f].probeWhen = b.l.now
                   THEN SendProbe(a, f) ELSE a
<1>1. Called(b, f)
    BY CalledAfterPop
<1>2. b.l.end = s.l.end /\ b.flow = s.flow
    BY PopSound
<1>3. s.flow[f].next = 0 => /\ ~ b.flow[f].started /\ StartAt[f] # TriggerStart
                            /\ \A e \in Entries(b.l) : e.src # SrcOf(f)
    BY FirstCall
<1>4. t = P(IF fires THEN x ELSE IF r.next = 0 THEN c ELSE b)
    BY DEF SrcWakes
<1> HIDE DEF b, x, c, t
<1>8. (mode.sleek => b.l.end = 0) /\ (Guarded(b.flow[f]) => mode.sleek)
    BY <1>2
<1> SUFFICES /\ SimSound(t) /\ Keeps(b, t, f) /\ GivesUpLate(b, t, f)
             /\ ~ mode.sleek => t.flow[f].probeWhen = b.flow[f].probeWhen
    BY DEF b, t
<1>5. CASE fires
  <2>1. Woken(b, x, f)
      BY <1>1, <1>5, TimerWakes DEF x
  <2>2. t = P(x)
      BY <1>4, <1>5
  <2> QED
      BY <1>1, <1>8, <2>1, <2>2, ProbeWakes
<1>6. CASE ~ fires /\ r.next = 0
  <2>1. RtoLive(b, f)
      BY <1>1, <1>6 DEF Called
  <2>2. /\ SimSound(c) /\ Keeps(b, c, f) /\ c.flow[f].probeWhen = 0
        /\ r.probeWhen = 0 /\ GivesUpLate(b, c, f)
      BY <1>1, <1>2, <1>3, <1>6, <2>1, StartWakes DEF c
  <2>3. t = c
      BY <1>4, <1>6, <2>2
  <2> QED
      BY <2>2, <2>3
<1>7. CASE ~ fires /\ r.next # 0
  <2>1. RtoLive(b, f)
      BY <1>1, <1>7 DEF Called
  <2>2. Woken(b, b, f)
      BY <1>1, <2>1, NobodyWakes
  <2>3. t = P(b)
      BY <1>4, <1>7
  <2> QED
      BY <1>1, <1>8, <2>2, <2>3, ProbeWakes
<1> QED
    BY <1>5, <1>6, <1>7

\* Only who waits for the port changes.
Turned(s, t) ==
    /\ t \in SimType /\ t.l = s.l
    /\ \A g \in Flows : SameBooks(s.flow[g], t.flow[g])

LEMMA TurnedSound ==
    ASSUME NEW s, SimSound(s), NEW t, Turned(s, t)
    PROVE  /\ \A g \in Flows : FlowSound(t, g) /\ World(t, g) /\ Fit(t, g)
                               /\ Wants(t.flow[g]) = Wants(s.flow[g])
           /\ TriggersSound(t) /\ Truthful(t)
<1>1. /\ s \in SimType /\ ListSound(s.l) /\ Truthful(s) /\ TriggersSound(s)
      /\ t \in SimType /\ t.l = s.l
    BY DEF SimSound, Turned
<1>2. \A g \in Flows : /\ s.flow[g] \in FlowType /\ t.flow[g] \in FlowType
                       /\ SameBooks(s.flow[g], t.flow[g])
    BY <1>1, SimFields DEF Turned
<1>3. ASSUME NEW g \in Flows
      PROVE  FlowSound(t, g) /\ Wants(t.flow[g]) = Wants(s.flow[g])
  <2> DEFINE r == s.flow[g]
             u == t.flow[g]
  <2>1. /\ u.started = r.started /\ u.done = r.done /\ u.loss = r.loss
        /\ u.probeWhen = r.probeWhen /\ u.probeHandle = r.probeHandle
        /\ u.pending = r.pending /\ u.rto = r.rto /\ u.rtoOf = r.rtoOf /\ u.rtoHandle = r.rtoHandle
        /\ u.sent = r.sent /\ u.timed = r.timed /\ u.rtx = r.rtx
        /\ u.next = r.next /\ u.backlog = r.backlog
      BY <1>2 DEF SameBooks, SameTimer, SameStage
  <2>2. FlowSound(s, g)
      BY DEF FlowSound, SimSound
  <2> HIDE DEF r, u
  <2>3. Out(u) = Out(r) /\ Wants(u) = Wants(r) /\ Guarded(u) = Guarded(r)
      BY <2>1 DEF Out, Wants, Guarded
  <2>4. Complete(u) = Complete(r)
      BY <2>1, <2>3 DEF Complete
  <2>5. Books(u, g, s.l.now) <=> Books(r, g, s.l.now)
      BY <2>1, <2>3, <2>4 DEF Books
  <2>6. (Recorded(u) <=> Recorded(r)) /\ (NotEarly(u) <=> NotEarly(r))
      BY <2>1 DEF Recorded, NotEarly
  <2>7. RtoEntry(u, g) = RtoEntry(r, g) /\ ProbeEntry(u, g) = ProbeEntry(r, g)
      BY <2>1 DEF RtoEntry, ProbeEntry
  <2>8. RtoLive(s, g) => RtoLive(t, g)
      BY <1>1, <2>1, <2>7 DEF RtoLive, r, u
  <2>9. ProbeLive(s, g) => ProbeLive(t, g)
    <3>1. \A e : Apart(e, s, g) => Apart(e, t, g)
        BY <2>1 DEF Apart, r, u
    <3> QED
        BY <1>1, <2>1, <2>7, <3>1 DEF ProbeLive, r, u
  <2>10. Watched(s, g) => Watched(t, g)
      BY <1>1, <2>1, <2>3, <2>4 DEF Watched, r, u
  <2>11. StartsOnce(s, g) => StartsOnce(t, g)
      BY <1>1, <2>1 DEF StartsOnce, r, u
  <2> QED
      BY <1>1, <2>2, <2>3, <2>5, <2>6, <2>8, <2>9, <2>10, <2>11 DEF FlowSound, r, u
<1>4. Truthful(t)
  <2>1. \A g \in Flows : t.flow[g].next = s.flow[g].next
      BY <1>2 DEF SameBooks
  <2>2. \A e \in Entries(s.l) : e.src.kind \in {"data", "ack"} => e.src.f \in Flows
    <3>1. \A e \in Entries(s.l) : e.src \in EventSources
        BY <1>1, EntriesTyped DEF EntryType, ListSound
    <3> QED
        BY <3>1 DEF EventSources, SrcOf, Port, Logger, DataPackets, Acks
  <2> QED
      BY <1>1, <2>1, <2>2 DEF Truthful, Honest
<1>5. TriggersSound(t)
  <2>1. \A g \in Flows : t.flow[g].done = s.flow[g].done /\ t.flow[g].started = s.flow[g].started
      BY <1>2 DEF SameBooks, SameStage
  <2>2. \A g \in Triggers : {h \in Feeding(g) : t.flow[h].done} = {h \in Feeding(g) : s.flow[h].done}
      BY <2>1 DEF Feeding
  <2>3. \A g : Due(t, g) = Due(s, g)
      BY <1>1 DEF Due
  <2>5. \A i \in DOMAIN s.l.targets : s.l.targets[i] \in Flows
    <3>1. s.l.targets \in Seq(Flows)
        BY <1>1, SimFields DEF ListType, ListSound
    <3> QED
        BY <3>1, ElementOfSeq
  <2> QED
      BY <1>1, <2>1, <2>2, <2>3, <2>5 DEF TriggersSound
<1>6. \A g \in Flows : World(t, g)
    BY <1>1, <1>3, <1>4 DEF World
<1>7. \A g \in Flows : Fit(t, g)
    BY <1>1, <1>3 DEF Fit, FlowSound
<1> QED
    BY <1>3, <1>4, <1>5, <1>6, <1>7

\* What every event leaves: all is well, and no flow has sent less.
Goes(s, t) ==
    /\ SimSound(t) /\ t.l.end = s.l.end
    /\ \A g \in Flows : /\ t.flow[g].next >= s.flow[g].next
                        /\ Guarded(t.flow[g]) => Guarded(s.flow[g]) \/ mode.sleek

LEMMA KeepsGoes ==
    ASSUME NEW s \in SimType, NEW f \in Flows, NEW t, Keeps(s, t, f), SimSound(t),
           ~ mode.sleek => t.flow[f].probeWhen = s.flow[f].probeWhen
    PROVE  Goes(s, t)
<1>1. \A g \in Flows : t.flow[g].next >= s.flow[g].next
    BY NextIsNatural DEF Keeps
<1> QED
    BY <1>1 DEF Keeps, Goes, Guarded

\* The port falls idle, the first k of those that wait are taken off the list.
Turn(s, k, called) ==
    [s EXCEPT !.nic = [busy |-> FALSE, active |-> SubSeq(s.nic.active, k + 1, Len(s.nic.active))],
              !.flow = [f \in Flows |-> [s.flow[f] EXCEPT !.blocked = @ /\ f \notin called]]]

LEMMA TurnTurned ==
    ASSUME NEW s \in SimType, NEW k \in 0 .. Len(s.nic.active), NEW called
    PROVE  LET t == Turn(s, k, called)
           IN  /\ Turned(s, t) /\ ~ t.nic.busy
               /\ t.nic.active = SubSeq(s.nic.active, k + 1, Len(s.nic.active))
               /\ \A g \in Flows : t.flow[g].blocked = (s.flow[g].blocked /\ g \notin called)
<1> DEFINE a == SubSeq(s.nic.active, k + 1, Len(s.nic.active))
           F == [f \in Flows |-> [s.flow[f] EXCEPT !.blocked = @ /\ f \notin called]]
           t == Turn(s, k, called)
<1>1. s.nic.active \in Seq(Flows) /\ Len(s.nic.active) \in Nat
    BY SimFields DEF SimType, NicType
<1>2. a \in Seq(Flows)
    BY <1>1
<1>3. \A g \in Flows : s.flow[g] \in FlowType
    BY SimFields
<1>4. \A g \in Flows : F[g] \in FlowType /\ SameBooks(s.flow[g], F[g])
                       /\ F[g].blocked = (s.flow[g].blocked /\ g \notin called)
  <2> TAKE g \in Flows
  <2> DEFINE b == s.flow[g].blocked /\ g \notin called
  <2>1. F[g] = [s.flow[g] EXCEPT !.blocked = b] /\ b \in BOOLEAN
      BY <1>3 DEF FlowType
  <2> HIDE DEF F, b
  <2> DEFINE r == s.flow[g]
             u == [r EXCEPT !.blocked = b]
  <2>2. r \in FlowType /\ b \in BOOLEAN
      BY <1>3, <2>1
  <2> HIDE DEF r
  <2>3. u \in FlowType
      BY <2>2 DEF FlowType
  <2>4. SameBooks(r, u)
      BY <2>2 DEF FlowType, SameBooks, SameTimer, SameStage
  <2>5. u.blocked = b
      BY <2>2 DEF FlowType
  <2> QED
      BY <2>1, <2>3, <2>4, <2>5 DEF b, r
<1>5. F \in [Flows -> FlowType]
    BY <1>4
<1> HIDE DEF F, a
<1>6. t = [s EXCEPT !.nic = [busy |-> FALSE, active |-> a], !.flow = F]
    BY DEF Turn, F, a
<1>7. [busy |-> FALSE, active |-> a] \in NicType
    BY <1>2 DEF NicType
<1>8. /\ t \in SimType /\ t.l = s.l /\ t.flow = F /\ t.nic = [busy |-> FALSE, active |-> a]
    BY <1>5, <1>6, <1>7 DEF SimType
<1> HIDE DEF t
<1>9. /\ t \in SimType /\ t.l = s.l
      /\ \A g \in Flows : SameBooks(s.flow[g], t.flow[g])
      /\ \A g \in Flows : t.flow[g].blocked = (s.flow[g].blocked /\ g \notin called)
    BY <1>4, <1>8
<1>10. ~t.nic.busy /\ t.nic.active = a
    BY <1>8
<1>11. Turned(s, t)
    BY <1>9 DEF Turned
<1> QED
    BY <1>9, <1>10, <1>11 DEF a, t

\* Nobody who waits has anything to send: the list is empty afterwards.
LEMMA NobodyAble ==
    ASSUME NEW s, SimSound(s), \A i \in DOMAIN s.nic.active : ~ Wants(s.flow[s.nic.active[i]])
    PROVE  Goes(s, PortDone(s))
<1> DEFINE n == Len(s.nic.active)
           called == {s.nic.active[i] : i \in 1 .. n}
           t == Turn(s, n, called)
<1>1. s \in SimType /\ PortSound(s, {})
    BY DEF SimSound
<1>2. s.nic.active \in Seq(Flows) /\ n \in Nat /\ DOMAIN s.nic.active = 1 .. n
    BY <1>1 DEF SimType, NicType
<1>3. PortDone(s) = t
    BY <1>1, <1>2 DEF PortDone, Turn
<1>a. n \in 0 .. Len(s.nic.active)
    BY <1>2
<1>b. called = Waiting(s)
    BY <1>2 DEF Waiting
<1> HIDE DEF called
<1>4. /\ Turned(s, t) /\ t.nic.active = SubSeq(s.nic.active, n + 1, n)
      /\ \A g \in Flows : t.flow[g].blocked = (s.flow[g].blocked /\ g \notin called)
    BY <1>1, <1>a, TurnTurned
<1> HIDE DEF t
<1>5. t.nic.active = <<>>
  <2> DEFINE z == SubSeq(s.nic.active, n + 1, n)
  <2>1. Len(z) = 0 /\ z \in Seq(Flows)
      BY <1>2
  <2> HIDE DEF z
  <2>2. z = <<>>
      BY <2>1, EmptySeq
  <2> QED
      BY <1>4, <2>2 DEF z
<1>7. \A g \in Flows : ~ t.flow[g].blocked
    BY <1>1, <1>4, <1>b DEF PortSound
<1>8. \A g \in Flows : ~ Wants(s.flow[g])
    BY <1>1 DEF PortSound, Waiting
<1>9. PortSound(t, {})
    BY <1>4, <1>5, <1>7, <1>8, TurnedSound DEF PortSound
<1>10. SimSound(t)
  <2>1. TriggersSound(t) /\ Truthful(t) /\ \A g \in Flows : FlowSound(t, g)
      BY <1>4, TurnedSound
  <2>2. t \in SimType /\ ListSound(t.l)
      BY <1>4 DEF Turned, SimSound
  <2> QED
      BY <1>9, <2>1, <2>2 DEF SimSound, FlowSound
<1>11. \A g \in Flows : t.flow[g].next = s.flow[g].next /\ t.flow[g].probeWhen = s.flow[g].probeWhen
    BY <1>4 DEF Turned, SameBooks, SameStage
<1> QED
    BY <1>1, <1>3, <1>4, <1>10, <1>11, NextIsNatural DEF Goes, Turned, Guarded

\* Who is left of a list whose first i are taken off.
LEMMA RestOf ==
    ASSUME NEW S, NEW a \in Seq(S), NEW i \in 1 .. Len(a)
    PROVE  LET x == SubSeq(a, i, Len(a))
               w == SubSeq(a, i + 1, Len(a))
           IN  /\ x # <<>> /\ Head(x) = a[i] /\ Tail(x) = w
               /\ \A j \in 1 .. Len(a) : i < j => \E k \in DOMAIN w : w[k] = a[j]
<1> DEFINE n == Len(a)
           x == SubSeq(a, i, n)
           w == SubSeq(a, i + 1, n)
<1>1. n \in Nat /\ i \in Nat /\ 1 <= i /\ i <= n
    OBVIOUS
<1>2. x \in Seq(S) /\ Len(x) = (n - i) + 1 /\ \A k \in 1 .. (n - i) + 1 : x[k] = a[i + k - 1]
    BY <1>1, SubSeqProperties
<1>3. w \in Seq(S) /\ Len(w) = n - i /\ \A k \in 1 .. n - i : w[k] = a[i + k]
  <2>1. w \in Seq(S) /\ Len(w) = IF i + 1 <= n THEN (n - (i + 1)) + 1 ELSE 0
      BY <1>1, SubSeqProperties
  <2>2. Len(w) = n - i
      BY <1>1, <2>1
  <2>3. \A k \in 1 .. n - i : w[k] = a[(i + 1) + k - 1]
      BY <1>1, <2>1, SubSeqProperties
  <2>4. \A k \in 1 .. n - i : (i + 1) + k - 1 = i + k
      BY <1>1
  <2> QED
      BY <2>1, <2>2, <2>3, <2>4
<1> HIDE DEF x, w, n
<1>4. Len(x) # 0 /\ x[1] = a[i]
  <2>1. 1 \in 1 .. (n - i) + 1 /\ i + 1 - 1 = i
      BY <1>1
  <2> QED
      BY <1>1, <1>2, <2>1
<1>5. x # <<>>
    BY <1>2, <1>4, EmptySeq
<1>6. Head(x) = x[1] /\ Tail(x) \in Seq(S) /\ Len(Tail(x)) = n - i
  <2>1. Tail(x) \in Seq(S) /\ Len(Tail(x)) = Len(x) - 1
      BY <1>2, <1>5, HeadTailProperties
  <2>2. Len(x) - 1 = n - i
      BY <1>1, <1>2
  <2>3. Head(x) = x[1]
      BY <1>2, <1>5
  <2> QED
      BY <2>1, <2>2, <2>3
<1>7. \A k \in 1 .. n - i : Tail(x)[k] = w[k]
  <2> TAKE k \in 1 .. n - i
  <2>1. Tail(x)[k] = x[k + 1]
      BY <1>2, <1>5, <1>6, HeadTailProperties
  <2>2. k + 1 \in 1 .. (n - i) + 1 /\ i + (k + 1) - 1 = i + k
      BY <1>1
  <2>3. x[k + 1] = a[i + k]
      BY <1>2, <2>2
  <2> QED
      BY <1>3, <2>1, <2>3
<1>8. Tail(x) = w
    BY <1>3, <1>6, <1>7, SeqEqual
<1>9. \A j \in 1 .. n : i < j => \E k \in DOMAIN w : w[k] = a[j]
  <2> SUFFICES ASSUME NEW j \in 1 .. n, i < j
               PROVE  \E k \in DOMAIN w : w[k] = a[j]
      OBVIOUS
  <2>1. j - i \in 1 .. n - i /\ i + (j - i) = j
      BY <1>1
  <2>2. DOMAIN w = 1 .. n - i
      BY <1>3
  <2>3. w[j - i] = a[j]
      BY <1>3, <2>1
  <2> QED
      BY <2>1, <2>2, <2>3
<1> QED
    BY <1>4, <1>5, <1>6, <1>8, <1>9 DEF x, w, n

\* The first who has something to send sends a packet, and waits again if that
\* was not all.
LEMMA SomebodyAble ==
    ASSUME NEW s, SimSound(s), NEW i \in DOMAIN s.nic.active, Wants(s.flow[s.nic.active[i]]),
           \A j \in DOMAIN s.nic.active : Wants(s.flow[s.nic.active[j]]) => i <= j,
           NEW called, called = {s.nic.active[j] : j \in 1 .. i}
    PROVE  LET h == s.nic.active[i]
               y == Turn(s, i - 1, called)
           IN  Goes(s, RequestAgain(SendPacket(y, h), h))
<1> DEFINE active == s.nic.active
           n == Len(active)
           h == active[i]
           y == Turn(s, i - 1, called)
           z == SendPacket(y, h)
           t == RequestAgain(z, h)
<1>1. s \in SimType /\ PortSound(s, {})
    BY DEF SimSound
<1>2. /\ active \in Seq(Flows) /\ n \in Nat /\ DOMAIN active = 1 .. n
      /\ i \in 1 .. n /\ i - 1 \in 0 .. n /\ h \in Flows /\ h \in called
  <2>1. active \in Seq(Flows) /\ n \in Nat /\ DOMAIN active = 1 .. n
      BY <1>1 DEF SimType, NicType
  <2>2. i \in 1 .. n
      BY <2>1
  <2>3. i - 1 \in 0 .. n /\ i \in 1 .. i
      BY <2>1, <2>2
  <2>4. h \in Flows
      BY <2>1, <2>2, ElementOfSeq
  <2> QED
      BY <2>1, <2>2, <2>3, <2>4
<1>3. /\ Turned(s, y) /\ ~ y.nic.busy /\ y.nic.active = SubSeq(active, (i - 1) + 1, n)
      /\ \A g \in Flows : y.flow[g].blocked = (s.flow[g].blocked /\ g \notin called)
  <2> DEFINE k == i - 1
  <2>1. k \in 0 .. Len(s.nic.active)
      BY <1>2
  <2>2. \A m \in 0 .. Len(s.nic.active) :
            LET v == Turn(s, m, called)
            IN  /\ Turned(s, v) /\ ~ v.nic.busy
                /\ v.nic.active = SubSeq(s.nic.active, m + 1, Len(s.nic.active))
                /\ \A g \in Flows : v.flow[g].blocked = (s.flow[g].blocked /\ g \notin called)
      BY <1>1, TurnTurned
  <2> HIDE DEF k
  <2>3. LET v == Turn(s, k, called)
        IN  /\ Turned(s, v) /\ ~ v.nic.busy
            /\ v.nic.active = SubSeq(s.nic.active, k + 1, Len(s.nic.active))
            /\ \A g \in Flows : v.flow[g].blocked = (s.flow[g].blocked /\ g \notin called)
      BY <2>1, <2>2
  <2> QED
      BY <2>3 DEF k
<1>4. /\ Wants(y.flow[h]) /\ World(y, h) /\ FlowSound(y, h) /\ Fit(y, h) /\ TriggersSound(y)
      /\ \A g \in Flows : Wants(y.flow[g]) = Wants(s.flow[g])
    BY <1>2, <1>3, TurnedSound
<1> HIDE DEF y
<1>5. /\ y.nic.active = SubSeq(active, i, n) /\ y.nic.active # <<>> /\ Head(y.nic.active) = h
      /\ Tail(y.nic.active) = SubSeq(active, i + 1, n)
  <2>1. (i - 1) + 1 = i
      BY <1>2
  <2>2. y.nic.active = SubSeq(active, i, n)
    <3> HIDE DEF active, n
    <3> QED
        BY <1>3, <2>1
  <2>3. /\ SubSeq(active, i, n) # <<>> /\ Head(SubSeq(active, i, n)) = h
        /\ Tail(SubSeq(active, i, n)) = SubSeq(active, i + 1, n)
      BY <1>2, RestOf
  <2> HIDE DEF active, n
  <2> QED
      BY <2>2, <2>3
<1>6. Sends(y, z, h) /\ z.nic = Taken(y.nic)
    BY <1>2, <1>4, <1>5, PacketSends
<1> HIDE DEF z
<1>7. z.nic.busy /\ z.nic.active = SubSeq(active, i + 1, n)
  <2> DEFINE w == SubSeq(active, i + 1, n)
             x == y.nic.active
  <2>1. x # <<>> /\ Tail(x) = w /\ z.nic = Taken(y.nic)
      BY <1>5, <1>6
  <2>2. Taken(y.nic) = [busy |-> TRUE, active |-> IF x = <<>> THEN <<>> ELSE Tail(x)]
      BY DEF Taken
  <2> HIDE DEF w, x
  <2>3. z.nic = [busy |-> TRUE, active |-> w]
      BY <2>1, <2>2
  <2>4. z.nic.busy /\ z.nic.active = w
      BY <2>3
  <2> QED
      BY <2>4 DEF w
<1>8. \A g \in Flows : g # h => z.flow[g] = y.flow[g]
    BY <1>6 DEF Sends, Moves
<1>w. \A j \in 1 .. n : i < j => active[j] \in Waiting(z)
  <2> DEFINE w == SubSeq(active, i + 1, n)
  <2>1. \A j \in 1 .. n : i < j => \E k \in DOMAIN w : w[k] = active[j]
      BY <1>2, RestOf
  <2>2. Waiting(z) = {w[k] : k \in DOMAIN w}
      BY <1>7 DEF Waiting
  <2> HIDE DEF w, active, n
  <2> QED
      BY <2>1, <2>2
<1>9. \A g \in Flows : (g \in Waiting(s) /\ g \notin called) => g \in Waiting(z)
  <2> SUFFICES ASSUME NEW j \in 1 .. n, active[j] \notin called
               PROVE  active[j] \in Waiting(z)
      BY <1>2 DEF Waiting
  <2>1. ~ (j \in 1 .. i)
      OBVIOUS
  <2>2. i < j
      BY <1>2, <2>1
  <2> QED
      BY <1>w, <2>2
<1>10. \A g \in Flows : (g # h /\ Wants(s.flow[g])) => g \in Waiting(z)
  <2> SUFFICES ASSUME NEW g \in Flows, g # h, Wants(s.flow[g])
               PROVE  g \in Waiting(z)
      OBVIOUS
  <2>1. PICK j \in 1 .. n : active[j] = g
      BY <1>1, <1>2 DEF PortSound, Waiting
  <2>2. i <= j /\ i # j
      BY <1>2, <2>1
  <2>3. i < j
      BY <1>2, <2>2
  <2> QED
      BY <1>w, <2>1, <2>3
<1>11. PortSound(z, {h})
  <2>1. z.flow[h].blocked = y.flow[h].blocked
      BY <1>6 DEF Sends
  <2>2. \A g \in Flows : z.flow[g].blocked => s.flow[g].blocked /\ g \notin called
      BY <1>3, <1>8, <2>1
  <2>3. \A g \in Flows : z.flow[g].blocked => g \in Waiting(z)
      BY <1>1, <1>9, <2>2 DEF PortSound
  <2>4. \A g \in Flows \ {h} : Wants(z.flow[g]) => g \in Waiting(z)
      BY <1>4, <1>8, <1>10
  <2> QED
      BY <1>7, <2>3, <2>4 DEF PortSound
<1>12. Fit(z, h)
    BY <1>6 DEF Sends
<1>13. Steps(z, t, h) /\ PortSound(t, {})
    BY <1>2, <1>7, <1>11, <1>12, RequestAgainStep
<1> HIDE DEF t
<1>14. Steps(y, z, h)
    BY <1>2, <1>4, <1>6, SendsAreSteps
<1>15. Steps(y, t, h)
    BY <1>2, <1>4, <1>13, <1>14, StepsOn
<1>16. Keeps(y, t, h) /\ SameRun(y, t, h)
  <2>1. OthersApart(y, h)
      BY <1>2, <1>4, RtoLiveApart DEF Fit
  <2> QED
      BY <1>2, <1>15, <2>1, MovesKeeps DEF Steps
<1>17. SimSound(t)
  <2>1. ProbeLive(t, h) /\ Watched(t, h)
      BY <1>2, <1>4, <1>15, ProbeStays, WatchedStays DEF Steps, FlowSound
  <2>2. Fit(t, h) /\ Recorded(t.flow[h])
      BY <1>4, <1>15 DEF Steps, FlowSound
  <2> QED
      BY <1>2, <1>4, <1>13, <1>16, <2>1, <2>2, SoundAgain DEF FlowSound
<1>18. t.flow[h].probeWhen = y.flow[h].probeWhen
    BY <1>15 DEF Steps, Moves
<1>19. Goes(y, t)
    BY <1>2, <1>4, <1>16, <1>17, <1>18, KeepsGoes DEF Fit
<1>20. \A g \in Flows : y.flow[g].next = s.flow[g].next /\ Guarded(y.flow[g]) = Guarded(s.flow[g])
    BY <1>3 DEF Turned, SameBooks, SameStage, Guarded
<1>21. y.l = s.l
    BY <1>3 DEF Turned
<1>22. Goes(s, t)
    BY <1>19, <1>20, <1>21 DEF Goes
<1> QED
    BY <1>22 DEF t, z, y

\* The port has sent its packet: the next of those that wait gets its turn.
LEMMA PortDoneSound ==
    ASSUME NEW s, SimSound(s)
    PROVE  Goes(s, PortDone(s))
<1> DEFINE active == s.nic.active
           able == {i \in DOMAIN active : Wants(s.flow[active[i]])}
<1>1. s \in SimType
    BY DEF SimSound
<1>2. active \in Seq(Flows) /\ Len(active) \in Nat /\ DOMAIN active = 1 .. Len(active)
    BY <1>1 DEF SimType, NicType
<1>3. CASE able = {}
    BY <1>3, NobodyAble
<1>4. CASE able # {}
  <2>1. able \in SUBSET Nat
      BY <1>2
  <2>2. \E i \in able : \A j \in able : i <= j
      BY <1>4, <2>1, LeastNatural
  <2> DEFINE i == CHOOSE i \in able : \A j \in able : i <= j
             called == {active[j] : j \in 1 .. i}
             y == Turn(s, i - 1, called)
  <2>3. i \in able /\ \A j \in able : i <= j
      BY <2>2
  <2>5. (i - 1) + 1 = i
    <3>1. i \in Nat
        BY <2>1, <2>3
    <3> HIDE DEF i
    <3> QED
        BY <3>1
  <2>4. PortDone(s) = RequestAgain(SendPacket(y, active[(i - 1) + 1]), active[(i - 1) + 1])
      BY <1>4, <2>5 DEF PortDone, Turn
  <2> HIDE DEF i
  <2>6. Goes(s, RequestAgain(SendPacket(y, active[i]), active[i]))
      BY <2>3, SomebodyAble
  <2> QED
      BY <2>4, <2>5, <2>6
<1> QED
    BY <1>3, <1>4

\* A target is taken off the list of those triggered, from its end.
LEMMA PopTargetSound ==
    ASSUME NEW s, SimSound(s), s.l.targets # <<>>
    PROVE  LET b == [s EXCEPT !.l = PopTarget(@)]
               f == Last(s.l.targets)
           IN  /\ f \in Flows /\ SimSound(b) /\ b.flow = s.flow /\ b.l.end = s.l.end
               /\ StartAt[f] = TriggerStart /\ ~ b.flow[f].started /\ Due(b, f)
               /\ \A i \in DOMAIN b.l.targets : b.l.targets[i] # f
<1> DEFINE targets == s.l.targets
           n == Len(targets)
           b == [s EXCEPT !.l = PopTarget(@)]
           f == Last(targets)
           front == Front(targets)
<1>1. s \in SimType /\ ListSound(s.l) /\ TriggersSound(s) /\ s.l \in ListType
    BY SimFields DEF SimSound, SimType
<1>2. targets \in Seq(Flows)
    BY <1>1 DEF ListType
<1>3. n \in Nat \ {0} /\ DOMAIN targets = 1 .. n
    BY <1>2, EmptySeq
<1>4. f = targets[n] /\ f \in Flows
    BY <1>2, <1>3, ElementOfSeq DEF Last
<1>5. /\ front \in Seq(Flows) /\ DOMAIN front = 1 .. n - 1
      /\ \A i \in 1 .. n - 1 : front[i] = targets[i]
  <2>1. front = SubSeq(targets, 1, n - 1)
      BY DEF Front
  <2> HIDE DEF targets, front, n
  <2>2. \A i \in 1 .. n - 1 : targets[i] \in Flows
      BY <1>2, <1>3, ElementOfSeq DEF n
  <2>3. /\ SubSeq(targets, 1, n - 1) \in Seq(Flows)
        /\ Len(SubSeq(targets, 1, n - 1)) = IF 1 <= n - 1 THEN ((n - 1) - 1) + 1 ELSE 0
        /\ \A i \in 1 .. ((n - 1) - 1) + 1 : SubSeq(targets, 1, n - 1)[i] = targets[1 + i - 1]
      BY <1>3, <2>2, SubSeqProperties
  <2>4. ((n - 1) - 1) + 1 = n - 1 /\ \A i \in 1 .. n - 1 : 1 + i - 1 = i
      BY <1>3
  <2>5. Len(front) = n - 1
      BY <1>3, <2>1, <2>3, <2>4
  <2> QED
      BY <2>1, <2>3, <2>4, <2>5
<1> HIDE DEF front
<1>6. PopTarget(s.l) = [s.l EXCEPT !.targets = front]
    BY DEF PopTarget, front
<1>7. b.l = [s.l EXCEPT !.targets = front] /\ b.flow = s.flow /\ b.nic = s.nic
    BY <1>1, <1>6 DEF SimType
<1>8. /\ b.l \in ListType /\ b.l.targets = front /\ b.l.pending = s.l.pending
      /\ b.l.now = s.l.now /\ b.l.end = s.l.end /\ b.l.shots = s.l.shots /\ b.l.fault = s.l.fault
  <2> DEFINE l == s.l
             v == [l EXCEPT !.targets = front]
  <2>1. l \in ListType /\ front \in Seq(Flows) /\ b.l = v
      BY <1>1, <1>5, <1>7
  <2> HIDE DEF l, b
  <2>2. /\ v \in ListType /\ v.targets = front /\ v.pending = l.pending
        /\ v.now = l.now /\ v.end = l.end /\ v.shots = l.shots /\ v.fault = l.fault
      BY <2>1 DEF ListType
  <2> HIDE DEF v
  <2> QED
      BY <2>1, <2>2 DEF l
<1>9. b \in SimType
  <2>1. PopTarget(s.l) \in ListType
      BY <1>6, <1>7, <1>8
  <2> QED
      BY <1>1, <2>1 DEF SimType
<1> HIDE DEF b
<1>10. ListSound(b.l) /\ Entries(b.l) = Entries(s.l)
    BY <1>1, <1>8 DEF ListSound, InOrder, NotPast, OwnHandles, Entries
<1>11. \A g \in Flows : FlowSound(b, g)
  <2> TAKE g \in Flows
  <2>1. FlowSound(s, g)
      BY DEF SimSound, FlowSound
  <2>2. (RtoLive(s, g) => RtoLive(b, g)) /\ (ProbeLive(s, g) => ProbeLive(b, g))
      BY <1>7, <1>10 DEF RtoLive, ProbeLive, Apart
  <2>3. Watched(s, g) => Watched(b, g)
      BY <1>7, <1>8 DEF Watched, NearEnd
  <2>4. StartsOnce(s, g) => StartsOnce(b, g)
      BY <1>7, <1>10 DEF StartsOnce
  <2> QED
      BY <1>7, <1>8, <2>1, <2>2, <2>3, <2>4 DEF FlowSound
<1>12. Truthful(b) /\ PortSound(b, {})
    BY <1>7, <1>10 DEF SimSound, Truthful, Honest, PortSound, Waiting
<1>13. \A g : Due(b, g) = Due(s, g)
    BY <1>8 DEF Due
<1> HIDE DEF targets, n, f
<1>14. /\ StartAt[f] = TriggerStart /\ ~ s.flow[f].started /\ Due(s, f)
       /\ \A j \in 1 .. n : targets[j] = f => j = n
    BY <1>1, <1>3, <1>4 DEF TriggersSound, targets
<1>15. \A i \in 1 .. n - 1 : front[i] # f
  <2> SUFFICES ASSUME NEW i \in 1 .. n - 1 PROVE front[i] # f
      OBVIOUS
  <2>1. i \in 1 .. n /\ i # n
      BY <1>3
  <2> QED
      BY <1>5, <1>14, <2>1
<1>16. TriggersSound(b)
  <2>1. \A i \in 1 .. n - 1 : i \in 1 .. n
      BY <1>3
  <2>2. \A i \in 1 .. n - 1 : \A j \in 1 .. n - 1 : front[j] = front[i] => j = i
      BY <1>1, <1>3, <1>5, <2>1 DEF TriggersSound, targets
  <2>3. \A i \in 1 .. n - 1 : /\ StartAt[front[i]] = TriggerStart /\ ~ s.flow[front[i]].started
                              /\ Due(s, front[i])
      BY <1>1, <1>3, <1>5, <2>1 DEF TriggersSound, targets
  <2> QED
      BY <1>1, <1>5, <1>7, <1>8, <1>13, <2>2, <2>3 DEF TriggersSound
<1>17. SimSound(b)
    BY <1>9, <1>10, <1>11, <1>12, <1>16 DEF SimSound, FlowSound
<1> QED
    BY <1>4, <1>5, <1>7, <1>8, <1>13, <1>14, <1>15, <1>17 DEF b, f, targets

\* And the flow it stands for starts.
LEMMA TriggerFiresSound ==
    ASSUME NEW s, SimSound(s), s.l.targets # <<>>
    PROVE  Goes(s, StartConnection([s EXCEPT !.l = PopTarget(@)], Last(s.l.targets)))
<1> DEFINE b == [s EXCEPT !.l = PopTarget(@)]
           f == Last(s.l.targets)
           t == StartConnection(b, f)
<1>1. /\ f \in Flows /\ SimSound(b) /\ b.flow = s.flow /\ b.l.end = s.l.end
      /\ StartAt[f] = TriggerStart /\ ~ b.flow[f].started /\ Due(b, f)
      /\ \A i \in DOMAIN b.l.targets : b.l.targets[i] # f
    BY PopTargetSound
<1> HIDE DEF b, f
<1>2. World(b, f) /\ TriggersSound(b) /\ PortSound(b, {}) /\ FlowSound(b, f) /\ b \in SimType
    BY <1>1, SoundParts
<1>3. b.flow[f].next = 0
    BY <1>1, <1>2 DEF FlowSound, Books
<1>4. \A e \in Entries(b.l) : e.src # SrcOf(f)
    BY <1>1, <1>2, <1>3 DEF FlowSound, StartsOnce
<1>5. SimSound(t) /\ Keeps(b, t, f) /\ t.flow[f].probeWhen = b.flow[f].probeWhen
    BY <1>1, <1>2, <1>4, StartConnectionSound
<1>6. Goes(b, t)
    BY <1>1, <1>2, <1>5, KeepsGoes
<1> QED
    BY <1>1, <1>6 DEF Goes, b, f

\* An event of no flow is entered.
LEMMA EnterGoes ==
    ASSUME NEW s, SimSound(s), NEW src \in EventSources, src.kind # "src", Honest(src, s),
           NEW when \in Nat, when >= s.l.now
    PROVE  Goes(s, At(s, src, when))
<1> DEFINE t == At(s, src, when)
           h == HandleFor(s.l, src, when)
           n == SourceIsPending(s.l, src, when)
<1>1. s \in SimType /\ ListSound(s.l) /\ s.l \in ListType
    BY SimFields DEF SimSound, SimType
<1>2. t = [s EXCEPT !.l = n]
    BY DEF At
<1>3. /\ ListSound(n) /\ n.now = s.l.now /\ n.end = s.l.end
      /\ n.targets = s.l.targets /\ n.shots = s.l.shots
      /\ h # NullHandle =>
            /\ Entries(n) = Entries(s.l) \cup {[handle |-> h, src |-> src, when |-> when]}
            /\ h \in Nat \ {0} /\ \A e \in Entries(s.l) : e.handle # h
      /\ h = NullHandle => n = s.l
    BY <1>1, Schedules
<1> HIDE DEF n, t, h
<1>4. /\ t \in SimType /\ t.l = n /\ t.flow = s.flow /\ t.nic = s.nic
  <2>1. n \in ListType
      BY <1>3 DEF ListSound
  <2> QED
      BY <1>1, <1>2, <2>1 DEF SimType
<1>5. /\ Entries(s.l) \subseteq Entries(n)
      /\ \A e \in Entries(n) : e \in Entries(s.l) \/ e.src = src
    BY <1>3
<1>6. \A g \in Flows : src # SrcOf(g)
    BY DEF SrcOf
<1>7. \A g \in Flows : FlowSound(t, g)
  <2> TAKE g \in Flows
  <2>1. FlowSound(s, g)
      BY DEF SimSound, FlowSound
  <2>2. (RtoLive(s, g) => RtoLive(t, g)) /\ (ProbeLive(s, g) => ProbeLive(t, g))
      BY <1>4, <1>5 DEF RtoLive, ProbeLive, Apart
  <2>3. Watched(s, g) => Watched(t, g)
      BY <1>3, <1>4 DEF Watched, NearEnd
  <2>4. StartsOnce(s, g) => StartsOnce(t, g)
      BY <1>4, <1>5, <1>6 DEF StartsOnce
  <2> QED
      BY <1>3, <1>4, <2>1, <2>2, <2>3, <2>4 DEF FlowSound
<1>8. Truthful(t)
    BY <1>4, <1>5 DEF SimSound, Truthful, Honest
<1>9. PortSound(t, {})
    BY <1>4 DEF SimSound, PortSound, Waiting
<1>10. TriggersSound(t)
    BY <1>3, <1>4 DEF SimSound, TriggersSound, Due
<1>11. SimSound(t)
    BY <1>3, <1>4, <1>7, <1>8, <1>9, <1>10 DEF SimSound, FlowSound
<1> QED
    BY <1>1, <1>3, <1>4, <1>11, NextIsNatural DEF Goes, t

\* The state in which an event is handled has the flows of the one before.
LEMMA PopGoes ==
    ASSUME NEW s, SimSound(s), s.l.pending # <<>>, NEW t, Goes([s EXCEPT !.l = Pop(@)], t)
    PROVE  Goes(s, t)
<1> DEFINE b == [s EXCEPT !.l = Pop(@)]
<1>1. b.flow = s.flow /\ b.l.end = s.l.end /\ Goes(b, t)
    BY PopSound
<1> HIDE DEF b
<1> QED
    BY <1>1 DEF Goes

LEMMA GoesNot ==
    ASSUME NEW s, SimSound(s)
    PROVE  Goes(s, s)
<1>1. s \in SimType
    BY DEF SimSound
<1> QED
    BY <1>1, NextIsNatural DEF Goes

-----------------------------------------------------------------------------
(* The receiver.                                                           *)

\* The next missing packet is the first that is not there, within what was sent.
LEMMA NextMissingIs ==
    ASSUME NEW have \in SUBSET Seqs, Flows # {}, NEW from \in Nat, NEW next \in Nat, from <= next,
           \A q \in have : q < next
    PROVE  /\ NextMissing(have, from) \in Nat /\ from <= NextMissing(have, from)
           /\ NextMissing(have, from) <= next
<1> DEFINE T == {n \in Nat : from <= n /\ n \notin have}
           c == Cardinality(have)
           Good(n) == n \notin have /\ \A q \in from .. n - 1 : q \in have
<1>1. MaxSize \in Nat /\ Seqs \subseteq Nat /\ \A q \in Nat : q \in Seqs <=> q < MaxSize
    BY SizesAre
<1>2. IsFiniteSet(have) /\ c \in Nat
  <2>1. IsFiniteSet(Seqs)
      BY <1>1, FS_Interval DEF Seqs
  <2> QED
      BY <2>1, FS_Subset, FS_CardinalityType
<1>3. next \in T
    BY <1>1
<1>4. PICK m \in T : \A k \in T : m <= k
  <2>1. T \in SUBSET Nat /\ T # {}
      BY <1>3
  <2> QED
      BY <2>1, LeastNatural
<1>5. Good(m)
    BY <1>4
<1>6. m - from <= c
  <2>1. from .. m - 1 \subseteq have
      BY <1>5
  <2>2. Cardinality(from .. m - 1) <= c
      BY <1>2, <2>1, FS_Subset
  <2>3. from \in Int /\ m - 1 \in Int /\ from <= m
      BY <1>4
  <2>4. Cardinality(from .. m - 1) = IF from <= m - 1 THEN ((m - 1) - from) + 1 ELSE 0
      BY <2>3, FS_Interval
  <2> QED
      BY <1>2, <2>2, <2>3, <2>4
<1>7. m \in from .. from + c
    BY <1>2, <1>4, <1>6
<1> DEFINE n == NextMissing(have, from)
<1>8. n \in from .. from + c /\ Good(n)
  <2>1. n = CHOOSE j \in from .. from + c : Good(j)
      BY DEF NextMissing
  <2> HIDE DEF Good, n, c
  <2> QED
      BY <1>5, <1>7, <2>1
<1> HIDE DEF n, c
<1>9. n \in Nat /\ from <= n
    BY <1>2, <1>8
<1>10. n <= next
  <2>1. SUFFICES ASSUME ~ (n <= next) PROVE FALSE
      OBVIOUS
  <2>2. n - 1 \in from .. n - 1 /\ ~ (n - 1 < next)
      BY <1>9, <2>1
  <2> QED
      BY <1>8, <2>2
<1> QED
    BY <1>9, <1>10 DEF n

\* A new packet within what was sent is taken.
LEMMA AcceptsWithin ==
    ASSUME Flows # {}, NEW k \in SinkType, NEW p \in DataPackets, NEW next \in Nat,
           next <= MaxSize, SinkSound(k, next), p.psn < next
    PROVE  LET a == Accept(k, p)
           IN  a.sink \in SinkType /\ SinkSound(a.sink, next)
<1> DEFINE m == NextMissing(k.have, p.psn + 1)
           have == IF p.psn = k.cum THEN {q \in k.have : q >= m} ELSE k.have \cup {p.psn}
           cum == IF p.psn = k.cum THEN m ELSE k.cum
           request == k.request \/ p.ar
           drained == p.psn = k.cum /\ have = {} /\ request
           first == k.cum = 0 /\ k.have = {}
           answers == first \/ p.ar \/ drained \/ k.accepted + 1 >= AckEvery
           sink2 == [cum |-> cum, have |-> have, request |-> request /\ ~drained,
                     accepted |-> IF answers THEN 0 ELSE k.accepted + 1]
<1>1. /\ p.psn \in Nat /\ p.ar \in BOOLEAN
      /\ k.cum \in Nat /\ k.have \in SUBSET Seqs /\ k.accepted \in Nat /\ k.request \in BOOLEAN
    BY DEF DataPackets, SinkType
<1>2. k.cum <= next /\ \A q \in k.have : q < next
    BY DEF SinkSound
<1>3. MaxSize \in Nat /\ Seqs \subseteq Nat /\ \A q \in Nat : q \in Seqs <=> q < MaxSize
    BY SizesAre
<1>4. p.psn \in Seqs
    BY <1>1, <1>3
<1>5. m \in Nat /\ m <= next
  <2>1. p.psn + 1 \in Nat /\ p.psn + 1 <= next
      BY <1>1
  <2> QED
      BY <1>1, <1>2, <2>1, NextMissingIs
<1>6. Accept(k, p).sink = sink2
    BY DEF Accept
<1> HIDE DEF m
<1>7. have \in SUBSET Seqs /\ cum \in Nat /\ cum <= next /\ \A q \in have : q < next
    BY <1>1, <1>2, <1>4, <1>5
<1>8. (request /\ ~ drained) \in BOOLEAN /\ (IF answers THEN 0 ELSE k.accepted + 1) \in Nat
    BY <1>1
<1> HIDE DEF have, cum, request, drained, answers
<1> QED
    BY <1>6, <1>7, <1>8 DEF SinkType, SinkSound

\* The answer to a packet tells no more than what was sent.
LEMMA AnswersWithin ==
    ASSUME Flows # {}, NEW k \in SinkType, NEW p \in DataPackets, NEW base
    PROVE  Ack(k, p, base) \in Acks
<1>1. IsFiniteSet(k.have) /\ k.have \subseteq Seqs
  <2>1. MaxSize \in Nat
      BY SizesAre
  <2>2. IsFiniteSet(Seqs)
      BY <2>1, FS_Interval DEF Seqs
  <2> QED
      BY <2>2, FS_Subset DEF SinkType
<1>2. Cardinality(k.have) \in Nat
    BY <1>1, FS_CardinalityType
<1>3. {q \in k.have : q >= base} \in SUBSET Seqs
    BY <1>1
<1> QED
    BY <1>2, <1>3 DEF Ack, Acks, SinkType, DataPackets

\* What the events of the fabric are.
LEMMA FabricEvents ==
    ASSUME NEW src \in EventSources
    PROVE  /\ src.kind = "data" => src \in DataPackets /\ src.f \in Flows
           /\ src.kind = "ack" => src \in Acks /\ src.f \in Flows
           /\ src.kind = "src" => src.f \in Flows /\ src = SrcOf(src.f)
    BY DEF EventSources, SrcOf, Port, Logger, DataPackets, Acks

\* An event of the fabric is taken off the list.
LEMMA FabricPop ==
    ASSUME NEW s, SimSound(s), s.l.pending # <<>>, Head(s.l.pending).src.kind # "src"
    PROVE  LET b == [s EXCEPT !.l = Pop(@)]
               src == Head(s.l.pending).src
           IN  /\ SimSound(b) /\ src \in EventSources /\ Honest(src, b) /\ b.flow = s.flow
               /\ b.l.end = s.l.end /\ b.l.now \in Nat /\ b \in SimType
<1> DEFINE b == [s EXCEPT !.l = Pop(@)]
           src == Head(s.l.pending).src
<1>1. SimSound(b) /\ b \in SimType
    BY PopOfNone DEF SimSound
<1>2. /\ b.flow = s.flow /\ b.l.end = s.l.end /\ Honest(src, b)
      /\ Head(s.l.pending) \in EntryType
    BY PopSound
<1>3. src \in EventSources
    BY <1>2 DEF EntryType
<1> HIDE DEF b
<1>4. b.l.now \in Nat
    BY <1>1 DEF SimType, ListType
<1> QED
    BY <1>1, <1>2, <1>3, <1>4 DEF b

\* The answer to a packet is on its way.
LEMMA AnswerGoes ==
    ASSUME NEW s, SimSound(s), NEW p \in DataPackets, Honest(p, s), NEW k \in SinkType,
           SinkSound(k, s.flow[p.f].next), NEW base
    PROVE  Goes(s, [s EXCEPT !.l = SourceIsPending(s.l, Ack(k, p, base), s.l.now + 1)])
<1> DEFINE src == Ack(k, p, base)
<1>1. s \in SimType /\ s.l.now \in Nat
    BY DEF SimSound, SimType, ListType
<1>2. p.f \in Flows
    BY DEF DataPackets
<1>3. src \in Acks /\ src \in EventSources
    BY <1>2, AnswersWithin DEF EventSources
<1>4. src.kind = "ack" /\ src.f = p.f /\ src.cum = k.cum
    BY DEF Ack
<1>5. Honest(src, s)
  <2>1. s.flow[p.f].next # 0
      BY DEF Honest, DataPackets
  <2> QED
      BY <1>4, <2>1 DEF Honest, SinkSound
<1>6. At(s, src, s.l.now + 1) = [s EXCEPT !.l = SourceIsPending(s.l, src, s.l.now + 1)]
    BY DEF At
<1> HIDE DEF src
<1>7. src.kind # "src" /\ s.l.now + 1 \in Nat /\ s.l.now + 1 >= s.l.now
    BY <1>1, <1>4
<1>8. Goes(s, At(s, src, s.l.now + 1))
    BY <1>3, <1>5, <1>7, EnterGoes
<1> QED
    BY <1>6, <1>8 DEF src

-----------------------------------------------------------------------------
(* The invariant.                                                          *)

\* An event that the receivers do not notice.
LEMMA GoesInv ==
    ASSUME Inv, Goes(sim, sim'), sink' = sink, mode' = mode, faults' \in Nat
    PROVE  Inv'
<1>1. SimSound(sim') /\ sim'.l.end = mode'.end /\ mode' \in Modes
    BY DEF Inv, Goes
<1>2. ASSUME NEW f \in Flows
      PROVE  SinkSound(sink[f], sim'.flow[f].next)
  <2>1. sink[f] \in SinkType /\ SinkSound(sink[f], sim.flow[f].next)
      BY DEF Inv
  <2>2. sim'.flow[f].next >= sim.flow[f].next
      BY DEF Goes
  <2>3. sim.flow[f].next \in Nat /\ sim'.flow[f].next \in Nat
      BY <1>1, NextIsNatural DEF Inv, SimSound
  <2>4. Seqs \subseteq Nat
      BY SizesAre
  <2> DEFINE x == sim.flow[f].next
             y == sim'.flow[f].next
             k == sink[f]
  <2>5. k.cum \in Nat /\ k.have \subseteq Nat /\ k.cum <= x /\ \A q \in k.have : q < x
      BY <2>1, <2>4 DEF SinkSound, SinkType
  <2>6. x \in Nat /\ y \in Nat /\ y >= x
      BY <2>2, <2>3
  <2> HIDE DEF x, y, k
  <2>7. k.cum <= y /\ \A q \in k.have : q < y
      BY <2>5, <2>6
  <2> QED
      BY <2>7 DEF SinkSound, y, k
<1>3. \A f \in Flows : Guarded(sim'.flow[f]) => mode'.sleek
    BY DEF Inv, Goes
<1> QED
    BY <1>1, <1>2, <1>3 DEF Inv

LEMMA NextIsParts ==
    ASSUME NEW kind, NextIs(kind)
    PROVE  sim.l.pending # <<>> /\ Head(sim.l.pending).src.kind = kind /\ Event.kind = kind
BY DEF NextIs, Event

LEMMA TriggerFiresInv ==
    ASSUME Inv, TriggerFires
    PROVE  Inv'
<1>1. Goes(sim, sim')
    BY TriggerFiresSound DEF Inv, TriggerFires
<1> QED
    BY <1>1, GoesInv DEF Inv, TriggerFires

LEMMA SrcEventInv ==
    ASSUME \A m \in Modes : m.sleek => m.end = 0, Inv, SrcEvent
    PROVE  /\ Inv'
           /\ \A f \in Flows : \A q \in sim.flow[f].timed :
                 q \notin sim'.flow[f].timed => sim'.l.now >= sim.flow[f].sent[q] + MinRto
<1> DEFINE f == Event.f
           b == [sim EXCEPT !.l = Pop(@)]
           t == SrcWakes(b, f)
<1>1. SimSound(sim) /\ sim.l.pending # <<>> /\ Event.kind = "src" /\ sim' = t
      /\ sink' = sink /\ mode' = mode /\ faults' = faults
    BY DEF Inv, SrcEvent, NextIs, Event, Popped
<1>2. Event \in EventSources
    BY <1>1, PopSound DEF Event, EntryType
<1>3. f \in Flows /\ Event = SrcOf(f)
    BY <1>1, <1>2, FabricEvents
<1>4. mode.sleek => sim.l.end = 0
    BY DEF Inv
<1>5. Guarded(sim.flow[f]) => mode.sleek
    BY <1>3 DEF Inv
<1> HIDE DEF f
<1>6. /\ SimSound(t) /\ Keeps(b, t, f) /\ GivesUpLate(b, t, f)
      /\ ~ mode.sleek => t.flow[f].probeWhen = b.flow[f].probeWhen
    BY <1>1, <1>3, <1>4, <1>5, SrcWakesSound DEF Event
<1>7. b.flow = sim.flow /\ b \in SimType
    BY <1>1, PopSound
<1> HIDE DEF b, t
<1>8. Goes(b, t)
    BY <1>3, <1>6, <1>7, KeepsGoes
<1>9. Goes(sim, sim')
    BY <1>1, <1>8, PopGoes DEF b
<1>10. Inv'
    BY <1>1, <1>9, GoesInv DEF Inv
<1>11. \A g \in Flows : \A q \in sim.flow[g].timed :
          q \notin t.flow[g].timed => t.l.now >= sim.flow[g].sent[q] + MinRto
    BY <1>6, <1>7 DEF Keeps, GivesUpLate
<1> QED
    BY <1>1, <1>10, <1>11

LEMMA NicEventInv ==
    ASSUME Inv, NicEvent
    PROVE  Inv'
<1> DEFINE b == [sim EXCEPT !.l = Pop(@)]
<1>1. /\ SimSound(sim) /\ sim.l.pending # <<>> /\ Head(sim.l.pending).src.kind # "src"
      /\ sim' = PortDone(b) /\ sink' = sink /\ mode' = mode /\ faults' = faults
    BY DEF Inv, NicEvent, NextIs, Popped
<1>2. SimSound(b)
    BY <1>1, FabricPop
<1>3. Goes(sim, sim')
    BY <1>1, <1>2, PortDoneSound, PopGoes
<1> QED
    BY <1>1, <1>3, GoesInv DEF Inv

LEMMA LoggerEventInv ==
    ASSUME Inv, LoggerEvent
    PROVE  Inv'
<1> DEFINE b == [sim EXCEPT !.l = Pop(@)]
           when == b.l.now + LogPeriod
<1>1. /\ SimSound(sim) /\ sim.l.pending # <<>> /\ Head(sim.l.pending).src.kind # "src"
      /\ sim' = At(b, Logger, when) /\ sink' = sink /\ mode' = mode /\ faults' = faults
    BY DEF Inv, LoggerEvent, NextIs, Popped
<1>2. SimSound(b) /\ b.l.now \in Nat
    BY <1>1, FabricPop
<1> HIDE DEF b
<1>3. when \in Nat /\ when >= b.l.now
    BY <1>2, RecoveryAssumption
<1>4. Logger \in EventSources /\ Logger.kind # "src" /\ Honest(Logger, b)
    BY DEF EventSources, Logger, Honest
<1>5. Goes(b, sim')
    BY <1>1, <1>2, <1>3, <1>4, EnterGoes
<1>6. Goes(sim, sim')
    BY <1>1, <1>5, PopGoes DEF b
<1> QED
    BY <1>1, <1>6, GoesInv DEF Inv

LEMMA AckArrivesInv ==
    ASSUME \A m \in Modes : m.sleek => m.end = 0, Inv, AckArrives
    PROVE  Inv'
<1> DEFINE b == [sim EXCEPT !.l = Pop(@)]
           p == Event
           f == p.f
<1>1. /\ SimSound(sim) /\ sim.l.pending # <<>> /\ p.kind = "ack" /\ p = Head(sim.l.pending).src
      /\ sink' = sink /\ mode' = mode /\ faults' = faults
    BY DEF Inv, AckArrives, NextIs, Event
<1>2. PICK avgLow \in BOOLEAN : sim' = ProcessAck(b, f, p, avgLow)
    BY DEF AckArrives, Popped
<1>3. /\ SimSound(b) /\ p \in EventSources /\ Honest(p, b) /\ b.l.end = sim.l.end /\ b \in SimType
    BY <1>1, FabricPop
<1> HIDE DEF b, p
<1>4. p \in Acks /\ f \in Flows
    BY <1>1, <1>3, FabricEvents
<1>5. b.flow[f].next # 0 /\ p.cum <= b.flow[f].next
    BY <1>1, <1>3 DEF Honest
<1>6. mode.sleek => b.l.end = 0
    BY <1>3 DEF Inv
<1> HIDE DEF f
<1>7. /\ SimSound(sim') /\ Keeps(b, sim', f)
      /\ ~ mode.sleek => sim'.flow[f].probeWhen = b.flow[f].probeWhen
    BY <1>2, <1>3, <1>4, <1>5, <1>6, ProcessAckSound
<1>8. Goes(b, sim')
    BY <1>3, <1>4, <1>7, KeepsGoes
<1>9. Goes(sim, sim')
    BY <1>1, <1>8, PopGoes DEF b
<1> QED
    BY <1>1, <1>9, GoesInv DEF Inv

LEMMA PacketLostInv ==
    ASSUME Inv, PacketLost
    PROVE  Inv'
<1> DEFINE b == [sim EXCEPT !.l = Pop(@)]
<1>1. /\ SimSound(sim) /\ sim.l.pending # <<>> /\ Head(sim.l.pending).src.kind # "src"
      /\ sim' = b /\ sink' = sink /\ mode' = mode /\ faults' = faults + 1
    BY DEF Inv, PacketLost, InFabric, NextIs, Popped
<1>2. SimSound(b)
    BY <1>1, FabricPop
<1>3. Goes(sim, sim')
    BY <1>1, <1>2, GoesNot, PopGoes
<1> QED
    BY <1>1, <1>3, GoesInv DEF Inv

LEMMA PacketLateInv ==
    ASSUME Inv, PacketLate
    PROVE  Inv'
<1> DEFINE b == [sim EXCEPT !.l = Pop(@)]
           p == Event
           v == [p EXCEPT !.late = TRUE]
           when == b.l.now + LateBy
<1>1. /\ SimSound(sim) /\ sim.l.pending # <<>> /\ (p.kind = "data" \/ p.kind = "ack")
      /\ p = Head(sim.l.pending).src
      /\ sim' = At(b, v, when) /\ sink' = sink /\ mode' = mode /\ faults' = faults + 1
    BY DEF Inv, PacketLate, InFabric, NextIs, Event, Popped
<1>2. SimSound(b) /\ b.l.now \in Nat /\ p \in EventSources /\ Honest(p, b)
    BY <1>1, FabricPop
<1> HIDE DEF b, p
<1>3. v \in EventSources /\ v.kind # "src" /\ Honest(v, b)
  <2>1. CASE p.kind = "data"
    <3>1. p \in DataPackets
        BY <1>2, <2>1, FabricEvents
    <3>2. /\ v \in DataPackets /\ v.kind = p.kind /\ v.f = p.f /\ v.psn = p.psn /\ v.probe = p.probe
        BY <3>1 DEF DataPackets
    <3> HIDE DEF v
    <3> QED
        BY <1>2, <2>1, <3>2 DEF EventSources, Honest
  <2>2. CASE p.kind = "ack"
    <3>1. p \in Acks
        BY <1>2, <2>2, FabricEvents
    <3>2. /\ v \in Acks /\ v.kind = p.kind /\ v.f = p.f /\ v.cum = p.cum
        BY <3>1 DEF Acks
    <3> HIDE DEF v
    <3> QED
        BY <1>2, <2>2, <3>2 DEF EventSources, Honest
  <2> QED
      BY <1>1, <2>1, <2>2
<1>4. when \in Nat /\ when >= b.l.now
    BY <1>2, RecoveryAssumption
<1> HIDE DEF v, when
<1>5. Goes(b, sim')
    BY <1>1, <1>2, <1>3, <1>4, EnterGoes
<1>6. Goes(sim, sim')
    BY <1>1, <1>5, PopGoes DEF b
<1> QED
    BY <1>1, <1>6, GoesInv DEF Inv

LEMMA DataArrivesInv ==
    ASSUME Inv, DataArrives
    PROVE  Inv'
<1> DEFINE b == [sim EXCEPT !.l = Pop(@)]
           p == Event
           f == p.f
           k == sink[f]
           a == Accept(k, p)
           x == b.flow[f].next
           Answer(m, base) == [b EXCEPT !.l = SourceIsPending(b.l, Ack(m, p, base), b.l.now + 1)]
<1>1. /\ SimSound(sim) /\ sim.l.pending # <<>> /\ p.kind = "data" /\ p = Head(sim.l.pending).src
      /\ mode' = mode /\ faults' = faults
    BY DEF Inv, DataArrives, NextIs, Event
<1>2. /\ SimSound(b) /\ p \in EventSources /\ Honest(p, b) /\ b.flow = sim.flow
      /\ b.l.end = sim.l.end /\ b.l.now \in Nat /\ b \in SimType
    BY <1>1, FabricPop
<1>3. \/ p.probe /\ sim' = Answer(k, 0) /\ sink' = sink
      \/ ~ p.probe /\ IsDuplicate(k, p) /\ sim' = Answer(k, 0) /\ sink' = [sink EXCEPT ![f].accepted = 0]
      \/ /\ ~ p.probe /\ ~ IsDuplicate(k, p)
         /\ sim' = IF a.answers THEN Answer(a.sink, IF p.ar THEN p.psn ELSE 0) ELSE b
         /\ sink' = [sink EXCEPT ![f] = a.sink]
    BY DEF DataArrives, Popped
<1> HIDE DEF b, p
<1>4. p \in DataPackets /\ f \in Flows
    BY <1>1, <1>2, FabricEvents
<1>5. /\ sink \in [Flows -> SinkType] /\ k \in SinkType /\ SinkSound(k, x)
      /\ x \in Nat /\ x <= MaxSize
  <2>1. sink \in [Flows -> SinkType] /\ k \in SinkType /\ SinkSound(k, x)
      BY <1>2, <1>4 DEF Inv
  <2>2. x \in Nat /\ b.flow[f].backlog \in Nat
      BY <1>2, <1>4, NextIsNatural
  <2>3. Books(b.flow[f], f, b.l.now)
      BY <1>2, <1>4 DEF SimSound
  <2>4. MaxSize \in Nat /\ Size[f] \in Nat /\ Size[f] <= MaxSize
      BY <1>4, SizesAre
  <2>5. x <= MaxSize
      BY <2>2, <2>3, <2>4 DEF Books
  <2> QED
      BY <2>1, <2>2, <2>5
<1>6. \A m \in SinkType : \A base : SinkSound(m, x) => Goes(b, Answer(m, base))
    BY <1>2, <1>4, AnswerGoes
<1> DEFINE Ends(t, m) == Goes(b, t) /\ m \in [Flows -> SinkType]
                         /\ \A g \in Flows : SinkSound(m[g], b.flow[g].next)
<1>7. Ends(sim', sink')
  <2> HIDE DEF a, k, x, f, Answer
  <2>1. \A g \in Flows : SinkSound(sink[g], b.flow[g].next)
      BY <1>2 DEF Inv
  <2>2. CASE p.probe /\ sim' = Answer(k, 0) /\ sink' = sink
      BY <1>5, <1>6, <2>1, <2>2
  <2>3. CASE /\ ~ p.probe /\ IsDuplicate(k, p) /\ sim' = Answer(k, 0)
             /\ sink' = [sink EXCEPT ![f].accepted = 0]
    <3> DEFINE m == [k EXCEPT !.accepted = 0]
    <3>1. m \in SinkType /\ m.cum = k.cum /\ m.have = k.have
        BY <1>5 DEF SinkType
    <3>2. sink' = [sink EXCEPT ![f] = m]
        BY <2>3 DEF k
    <3> HIDE DEF m
    <3>3. SinkSound(m, x)
        BY <1>5, <3>1 DEF SinkSound
    <3>4. sink' \in [Flows -> SinkType]
        BY <1>4, <1>5, <3>1, <3>2
    <3>5. \A g \in Flows : SinkSound(sink'[g], b.flow[g].next)
        BY <1>4, <1>5, <2>1, <3>2, <3>3 DEF x
    <3> QED
        BY <1>5, <1>6, <2>3, <3>4, <3>5
  <2>4. CASE /\ ~ p.probe /\ ~ IsDuplicate(k, p)
             /\ sim' = IF a.answers THEN Answer(a.sink, IF p.ar THEN p.psn ELSE 0) ELSE b
             /\ sink' = [sink EXCEPT ![f] = a.sink]
    <3>1. p.psn < x
        BY <1>1, <1>2, <2>4 DEF Honest, x, f
    <3>2. a.sink \in SinkType /\ SinkSound(a.sink, x)
        BY <1>4, <1>5, <3>1, AcceptsWithin DEF a
    <3>3. Goes(b, sim')
        BY <1>2, <1>6, <2>4, <3>2, GoesNot
    <3>4. sink' \in [Flows -> SinkType]
        BY <1>4, <1>5, <2>4, <3>2
    <3>5. \A g \in Flows : SinkSound(sink'[g], b.flow[g].next)
        BY <1>4, <1>5, <2>1, <2>4, <3>2 DEF x
    <3> QED
        BY <3>3, <3>4, <3>5
  <2> QED
      BY <1>3, <2>2, <2>3, <2>4 DEF a, k, f, Answer
<1>8. Goes(sim, sim')
    BY <1>1, <1>7, PopGoes DEF b
<1>9. \A g \in Flows : sim'.flow[g].next >= b.flow[g].next
    BY <1>7 DEF Goes
<1>10. SimSound(sim') /\ sim'.l.end = mode'.end /\ mode' \in Modes /\ faults' \in Nat
    BY <1>1, <1>8 DEF Inv, Goes
<1>11. ASSUME NEW g \in Flows
       PROVE  SinkSound(sink'[g], sim'.flow[g].next)
  <2> DEFINE m == sink'[g]
             y == b.flow[g].next
             z == sim'.flow[g].next
  <2>1. m \in SinkType /\ SinkSound(m, y) /\ z >= y
      BY <1>7, <1>9
  <2>2. y \in Nat /\ z \in Nat
      BY <1>2, <1>10, NextIsNatural DEF SimSound
  <2>3. Seqs \subseteq Nat
      BY SizesAre
  <2> HIDE DEF m, y, z
  <2>4. SinkSound(m, z)
    <3>1. m.cum \in Nat /\ m.have \subseteq Nat /\ m.cum <= y /\ \A q \in m.have : q < y
        BY <2>1, <2>3 DEF SinkSound, SinkType
    <3> QED
        BY <2>1, <2>2, <3>1 DEF SinkSound
  <2> QED
      BY <2>4 DEF m, z
<1>12. \A g \in Flows : Guarded(sim'.flow[g]) => mode'.sleek
    BY <1>1, <1>8 DEF Inv, Goes
<1> QED
    BY <1>7, <1>10, <1>11, <1>12 DEF Inv

-----------------------------------------------------------------------------
(* The initial state.                                                      *)

\* The flows with a start time, each once.
LEMMA StartsAre ==
    LET S == {f \in Flows : StartAt[f] # TriggerStart}
        starts == SetToSeq(S)
    IN  /\ starts \in Seq(S) /\ Len(starts) \in Nat /\ DOMAIN starts = 1 .. Len(starts)
        /\ \A i, j \in 1 .. Len(starts) : starts[i] = starts[j] => i = j
<1> DEFINE S == {f \in Flows : StartAt[f] # TriggerStart}
           starts == SetToSeq(S)
           n == Cardinality(S)
<1>1. IsFiniteSet(S)
    BY RecoveryAssumption, FS_Subset
<1> HIDE DEF S
<1>2. n \in Nat /\ ExistsBijection(1 .. n, S)
    BY <1>1, FS_CardinalityType
<1>3. \E b \in [1 .. n -> S] : IsInjective(b)
    BY <1>2 DEF ExistsBijection, Bijection, Injection
<1>4. starts \in [1 .. n -> S] /\ IsInjective(starts)
  <2>1. starts = CHOOSE b \in [1 .. n -> S] : IsInjective(b)
      BY DEF SetToSeq
  <2> HIDE DEF starts, n
  <2> QED
      BY <1>3, <2>1
<1> HIDE DEF starts, n
<1>5. starts \in Seq(S) /\ Len(starts) = n
    BY <1>2, <1>4
<1> QED
    BY <1>2, <1>4, <1>5 DEF IsInjective, S, starts

\* A list at the start, without targets.
Fresh(end) ==
    {l \in ListType : /\ ListSound(l) /\ l.now = 0 /\ l.end = end /\ l.targets = <<>>
                      /\ l.shots = [g \in Triggers |-> 0]}

LEMMA EmptyListSound ==
    ASSUME NEW end \in Nat
    PROVE  EmptyList(end) \in Fresh(end) /\ Entries(EmptyList(end)) = {}
<1> DEFINE l == EmptyList(end)
           none == [g \in Triggers |-> 0]
<1>1. l = [now |-> 0, end |-> end, pending |-> <<>>, targets |-> <<>>, traffic |-> 0,
           shots |-> none, fault |-> "none"]
    BY DEF EmptyList
<1>2. none \in [Triggers -> Nat]
    OBVIOUS
<1>3. <<>> \in Seq(EntryType) /\ <<>> \in Seq(Flows) /\ "none" \in SimFaults
    BY DEF SimFaults
<1> HIDE DEF none, l
<1>4. l \in ListType /\ l.now = 0 /\ l.end = end /\ l.pending = <<>> /\ l.targets = <<>>
      /\ l.shots = none /\ l.fault = "none"
    BY <1>1, <1>2, <1>3 DEF ListType
<1>5. DOMAIN l.pending = {}
    BY <1>4
<1> QED
    BY <1>4, <1>5 DEF Fresh, ListSound, InOrder, NotPast, OwnHandles, Entries, l, none

LEMMA FreshEnters ==
    ASSUME NEW end \in Nat, NEW l \in Fresh(end), NEW src \in EventSources, NEW when \in Nat,
           \A e \in Entries(l) : e.src # src
    PROVE  LET t == SourceIsPending(l, src, when)
           IN  /\ t \in Fresh(end)
               /\ \A e \in Entries(t) : e \in Entries(l) \/ e.src = src
               /\ \A d, e \in Entries(t) : d.src = e.src => d = e \/ (d \in Entries(l) /\ e \in Entries(l))
<1> DEFINE t == SourceIsPending(l, src, when)
           h == HandleFor(l, src, when)
           x == [handle |-> h, src |-> src, when |-> when]
<1>1. ListSound(l) /\ l.now = 0 /\ l.end = end /\ l.targets = <<>> /\ l.shots = [g \in Triggers |-> 0]
    BY DEF Fresh
<1>2. when >= l.now
    BY <1>1
<1>3. /\ ListSound(t) /\ t.now = l.now /\ t.end = l.end /\ t.targets = l.targets /\ t.shots = l.shots
      /\ h # NullHandle => Entries(t) = Entries(l) \cup {x}
      /\ h = NullHandle => t = l
    BY <1>1, <1>2, Schedules
<1>4. x.src = src
    OBVIOUS
<1> HIDE DEF t, h, x
<1>5. t \in ListType
    BY <1>3 DEF ListSound
<1>6. t \in Fresh(end)
    BY <1>1, <1>3, <1>5 DEF Fresh
<1>7. Entries(t) = Entries(l) \/ Entries(t) = Entries(l) \cup {x}
    BY <1>3
<1> QED
    BY <1>4, <1>6, <1>7 DEF t

\* The events entered at the start: a logger and the first n starts, each once.
Begun(l, starts, n) ==
    \A e \in Entries(l) :
        /\ e.src = Logger \/ \E i \in 1 .. n : e.src = SrcOf(starts[i])
        /\ \A d \in Entries(l) : d.src = e.src => d = e

LEMMA EnteredSound ==
    ASSUME NEW end \in Nat
    PROVE  LET starts == SetToSeq({f \in Flows : StartAt[f] # TriggerStart})
           IN  Entered(end) \in Fresh(end) /\ Begun(Entered(end), starts, Len(starts))
<1> DEFINE S == {f \in Flows : StartAt[f] # TriggerStart}
           starts == SetToSeq(S)
           m == Len(starts)
           X == Fresh(end)
           base == SourceIsPending(EmptyList(end), Logger, 0)
           Next1(l, n) == SourceIsPending(l, SrcOf(starts[n + 1]), StartAt[starts[n + 1]])
           Is(g) == g = [n \in 0 .. m |->
                            IF n = 0 THEN base
                            ELSE SourceIsPending(g[n - 1], SrcOf(starts[n]), StartAt[starts[n]])]
           up == CHOOSE g : Is(g)
<1>1. /\ starts \in Seq(S) /\ m \in Nat /\ DOMAIN starts = 1 .. m
      /\ \A i, j \in 1 .. m : starts[i] = starts[j] => i = j
    BY StartsAre
<1>2. \A i \in 1 .. m : /\ starts[i] \in Flows /\ StartAt[starts[i]] \in Nat
                        /\ SrcOf(starts[i]) \in EventSources /\ SrcOf(starts[i]) # Logger
  <2>1. \A i \in 1 .. m : starts[i] \in S
      BY <1>1, ElementOfSeq
  <2>2. \A f \in S : /\ f \in Flows /\ StartAt[f] \in Nat
                     /\ SrcOf(f) \in EventSources /\ SrcOf(f) # Logger
    <3>1. \A f \in S : f \in Flows /\ StartAt[f] \in Nat
        BY TriggerAssumption
    <3>2. \A f \in Flows : SrcOf(f) \in EventSources
        BY DEF EventSources
    <3>3. \A f : SrcOf(f) # Logger
        BY DEF SrcOf, Logger
    <3> QED
        BY <3>1, <3>2, <3>3
  <2> HIDE DEF starts, S
  <2> QED
      BY <2>1, <2>2
<1>3. Entered(end) = up[m]
    BY DEF Entered
<1>4. base \in X /\ Begun(base, starts, 0)
  <2>1. EmptyList(end) \in Fresh(end) /\ Entries(EmptyList(end)) = {}
      BY EmptyListSound
  <2>2. Logger \in EventSources
      BY DEF EventSources
  <2> QED
      BY <2>1, <2>2, FreshEnters DEF Begun
<1> HIDE DEF X, base, starts, m, S
<1>5. ASSUME NEW l \in X, NEW n \in 0 .. m - 1 PROVE Next1(l, n) \in X
  <2>1. n + 1 \in 1 .. m
      BY <1>1
  <2>2. SrcOf(starts[n + 1]) \in EventSources /\ StartAt[starts[n + 1]] \in Nat
      BY <1>2, <2>1
  <2>3. ListSound(l) /\ l.now = 0
      BY DEF X, Fresh
  <2>4. LET t == Next1(l, n)
        IN  ListSound(t) /\ t.now = l.now /\ t.end = l.end /\ t.targets = l.targets /\ t.shots = l.shots
      BY <2>2, <2>3, Schedules
  <2>5. Next1(l, n) \in ListType
      BY <2>4 DEF ListSound
  <2> QED
      BY <2>4, <2>5 DEF X, Fresh
<1> DEFINE F == [l \in X |-> [n \in 0 .. m - 1 |-> Next1(l, n)]]
<1>6. \A l \in X : \A n \in 0 .. m - 1 : F[l][n] = Next1(l, n)
    OBVIOUS
<1>7. F \in [X -> [0 .. m - 1 -> X]]
    BY <1>5
<1> HIDE DEF F
<1>8. PICK g \in [0 .. m -> X] : g[0] = base /\ \A n \in 0 .. m - 1 : g[n + 1] = F[g[n]][n]
  <2>1. Iterates(X, base, m, F)
      BY <1>1, <1>4, <1>7, StepByStep
  <2> QED
      BY <2>1 DEF Iterates
<1>9. Is(g)
  <2>1. ASSUME NEW n \in 0 .. m
        PROVE  g[n] = IF n = 0 THEN base
                      ELSE SourceIsPending(g[n - 1], SrcOf(starts[n]), StartAt[starts[n]])
    <3>1. CASE n = 0
        BY <1>8, <3>1
    <3>2. CASE n # 0
      <4>1. n - 1 \in 0 .. m - 1 /\ n - 1 \in 0 .. m /\ (n - 1) + 1 = n
          BY <1>1, <3>2
      <4>2. g[n - 1] \in X
          BY <1>8, <4>1
      <4>3. g[n] = F[g[n - 1]][n - 1]
          BY <1>8, <4>1
      <4>4. F[g[n - 1]][n - 1] = Next1(g[n - 1], n - 1)
          BY <1>6, <4>1, <4>2
      <4> QED
          BY <3>2, <4>1, <4>3, <4>4
    <3> QED
        BY <3>1, <3>2
  <2> QED
      BY <2>1
<1>10. Is(up)
    BY <1>9
<1> HIDE DEF up
<1>11. up[0] = base
    BY <1>1, <1>10
<1>12. \A n \in 0 .. m - 1 : up[n + 1] = Next1(up[n], n)
  <2>1. ASSUME NEW n \in 0 .. m - 1 PROVE up[n + 1] = Next1(up[n], n)
    <3>1. n + 1 \in 0 .. m /\ n + 1 # 0 /\ (n + 1) - 1 = n
        BY <1>1
    <3> QED
        BY <1>10, <3>1
  <2> QED
      BY <2>1
<1> HIDE DEF Is
<1> DEFINE Done(n) == up[n] \in X /\ Begun(up[n], starts, n)
           T == {n \in Nat : n <= m => Done(n)}
<1>13. 0 \in T
    BY <1>4, <1>11
<1>14. ASSUME NEW n \in Nat, n \in T PROVE n + 1 \in T
  <2>1. ASSUME n + 1 <= m PROVE Done(n + 1)
    <3>1. n \in 0 .. m - 1 /\ n + 1 \in 1 .. m /\ Done(n)
        BY <1>1, <1>14, <2>1
    <3> DEFINE l == up[n]
               t == up[n + 1]
               src == SrcOf(starts[n + 1])
    <3>2. t = SourceIsPending(l, src, StartAt[starts[n + 1]])
        BY <1>12, <3>1
    <3>3. \A i \in 1 .. n : src # SrcOf(starts[i])
      <4>1. \A i \in 1 .. n : i \in 1 .. m /\ i # n + 1
          BY <1>1, <3>1
      <4>2. \A i \in 1 .. n : starts[i] # starts[n + 1]
          BY <1>1, <3>1, <4>1
      <4> QED
          BY <4>2 DEF SrcOf
    <3>4. src \in EventSources /\ StartAt[starts[n + 1]] \in Nat /\ src # Logger
        BY <1>2, <3>1
    <3> HIDE DEF l, t
    <3>5. l \in Fresh(end) /\ Begun(l, starts, n)
        BY <3>1 DEF X, l
    <3>6. \A e \in Entries(l) : e.src # src
        BY <3>3, <3>4, <3>5 DEF Begun
    <3>7. /\ t \in Fresh(end)
          /\ \A e \in Entries(t) : e \in Entries(l) \/ e.src = src
          /\ \A d, e \in Entries(t) : d.src = e.src => d = e \/ (d \in Entries(l) /\ e \in Entries(l))
        BY <3>2, <3>4, <3>5, <3>6, FreshEnters
    <3>8. \A i \in 1 .. n : i \in 1 .. n + 1
        OBVIOUS
    <3>9. n + 1 \in 1 .. n + 1
        OBVIOUS
    <3>10. Begun(t, starts, n + 1)
        BY <3>5, <3>7, <3>8, <3>9 DEF Begun
    <3> QED
        BY <3>7, <3>10 DEF X, t
  <2> HIDE DEF Done
  <2> QED
      BY <2>1
<1> HIDE DEF T
<1>15. m \in T
    BY <1>1, <1>13, <1>14, NaturalsByInduction
<1>16. Done(m)
    BY <1>1, <1>15 DEF T
<1> QED
    BY <1>3, <1>16 DEF X, m, starts, S

LEMMA IdleFlowSound ==
    ASSUME Flows # {}, NEW f \in Flows
    PROVE  /\ IdleFlow \in FlowType /\ Out(IdleFlow) = {}
           /\ Books(IdleFlow, f, 0) /\ Recorded(IdleFlow) /\ NotEarly(IdleFlow)
           /\ ~ Wants(IdleFlow) /\ ~ Guarded(IdleFlow) /\ ~ IdleFlow.pending /\ ~ IdleFlow.blocked
           /\ ~ IdleFlow.started /\ ~ IdleFlow.done /\ ~ IdleFlow.loss
           /\ IdleFlow.next = 0 /\ IdleFlow.timed = {} /\ IdleFlow.probeWhen = 0
<1> DEFINE none == [q \in Seqs |-> Never]
<1>1. none \in [Seqs -> Nat \cup {Never}] /\ \A q \in Seqs : none[q] = Never
    OBVIOUS
<1> HIDE DEF none
<1>2. IdleFlow =
        [started |-> FALSE, backlog |-> 0, next |-> 0, done |-> FALSE, blocked |-> FALSE,
         sent |-> none, timed |-> {}, resent |-> {}, rtx |-> {},
         pending |-> FALSE, rto |-> 0, rtoOf |-> 0, rtoHandle |-> 0,
         probeWhen |-> 0, probeHandle |-> 0, probeSeq |-> 0, probeSent |-> 0,
         loss |-> FALSE, recovery |-> 0, highestRtx |-> 0]
    BY DEF IdleFlow, NullHandle, none
<1> DEFINE r == IdleFlow
<1>3. r \in FlowType
    BY <1>1, <1>2 DEF FlowType
<1>4. /\ ~ r.started /\ r.backlog = 0 /\ r.next = 0 /\ ~ r.done /\ ~ r.blocked /\ r.sent = none
      /\ r.timed = {} /\ r.rtx = {} /\ ~ r.pending /\ r.probeWhen = 0 /\ ~ r.loss
    BY <1>2
<1> HIDE DEF r
<1>5. Out(r) = {}
    BY <1>1, <1>4 DEF Out
<1>6. Books(r, f, 0)
    BY <1>4, <1>5 DEF Books
<1> QED
    BY <1>3, <1>4, <1>5, <1>6 DEF Recorded, NotEarly, Wants, Guarded, r

\* Initially nothing has started, and every start is entered once.
LEMMA InitInv == Init => Inv
<1> SUFFICES ASSUME Init PROVE Inv
    OBVIOUS
<1> DEFINE starts == SetToSeq({f \in Flows : StartAt[f] # TriggerStart})
           l == Entered(mode.end)
<1>1. /\ mode \in Modes /\ sink = [f \in Flows |-> EmptySink] /\ faults = 0
      /\ sim = [l |-> l, flow |-> [f \in Flows |-> IdleFlow],
                nic |-> [busy |-> FALSE, active |-> <<>>]]
    BY DEF Init
<1>2. mode.end \in Nat
    BY <1>1, RecoveryAssumption
<1>3. l \in Fresh(mode.end) /\ Begun(l, starts, Len(starts))
    BY <1>2, EnteredSound
<1>4. /\ starts \in Seq({f \in Flows : StartAt[f] # TriggerStart})
      /\ DOMAIN starts = 1 .. Len(starts)
    BY StartsAre
<1>5. \A i \in 1 .. Len(starts) : starts[i] \in Flows /\ StartAt[starts[i]] # TriggerStart
    BY <1>4, ElementOfSeq
<1> HIDE DEF l, starts
<1>6. /\ l \in ListType /\ ListSound(l) /\ l.now = 0 /\ l.end = mode.end /\ l.targets = <<>>
      /\ \A g \in Triggers : l.shots[g] = 0
    BY <1>3 DEF Fresh
<1>7. [busy |-> FALSE, active |-> <<>>] \in NicType
    BY DEF NicType
<1>8. /\ sim.l = l /\ \A f \in Flows : sim.flow[f] = IdleFlow
      /\ ~ sim.nic.busy /\ sim.nic.active = <<>>
    BY <1>1
<1>9. sim \in SimType
  <2>1. [f \in Flows |-> IdleFlow] \in [Flows -> FlowType]
      BY IdleFlowSound
  <2> QED
      BY <1>1, <1>6, <1>7, <2>1 DEF SimType
<1>10. \A e \in Entries(l) : e.src = Logger \/ \E f \in Flows : e.src = SrcOf(f) /\ StartAt[f] # TriggerStart
    BY <1>3, <1>5 DEF Begun
<1>11. \A d, e \in Entries(l) : d.src = e.src => d = e
    BY <1>3 DEF Begun
<1>12. \A f \in Flows : FlowSound(sim, f)
  <2> TAKE f \in Flows
  <2>1. /\ Out(IdleFlow) = {}
        /\ Books(IdleFlow, f, 0) /\ Recorded(IdleFlow) /\ NotEarly(IdleFlow)
        /\ ~ IdleFlow.pending /\ ~ IdleFlow.started /\ ~ IdleFlow.loss
        /\ IdleFlow.next = 0 /\ IdleFlow.timed = {} /\ IdleFlow.probeWhen = 0
      BY IdleFlowSound
  <2>2. StartsOnce(sim, f)
    <3>1. \A e \in Entries(l) : e.src = SrcOf(f) => StartAt[f] # TriggerStart
      <4>1. SrcOf(f) # Logger /\ \A h : SrcOf(h) = SrcOf(f) => h = f
          BY DEF SrcOf, Logger
      <4> QED
          BY <1>10, <4>1
    <3> QED
        BY <1>8, <1>11, <2>1, <3>1 DEF StartsOnce
  <2>3. RtoLive(sim, f) /\ ProbeLive(sim, f) /\ Watched(sim, f)
      BY <1>8, <2>1 DEF RtoLive, ProbeLive, Watched
  <2> QED
      BY <1>6, <1>8, <2>1, <2>2, <2>3 DEF FlowSound
<1>13. Truthful(sim)
  <2>1. \A e \in Entries(l) : e.src.kind # "data" /\ e.src.kind # "ack"
    <3>1. Logger.kind = "logger" /\ \A h : SrcOf(h).kind = "src"
        BY DEF SrcOf, Logger
    <3>2. \A e \in Entries(l) : e.src.kind = "logger" \/ e.src.kind = "src"
        BY <1>10, <3>1
    <3> QED
        BY <3>2
  <2> QED
      BY <1>8, <2>1 DEF Truthful, Honest
<1>14. PortSound(sim, {})
    BY <1>8, IdleFlowSound DEF PortSound
<1>15. TriggersSound(sim)
  <2>1. \A f \in Flows : ~ sim.flow[f].done /\ ~ sim.flow[f].started
      BY <1>8, IdleFlowSound
  <2>2. \A g \in Triggers : {f \in Feeding(g) : sim.flow[f].done} = {}
      BY <2>1 DEF Feeding
  <2>3. Cardinality({}) = 0
      BY FS_EmptySet
  <2>4. DOMAIN sim.l.targets = {}
      BY <1>6, <1>8
  <2> QED
      BY <1>6, <1>8, <2>1, <2>2, <2>3, <2>4 DEF TriggersSound
<1>16. SimSound(sim)
    BY <1>6, <1>8, <1>9, <1>12, <1>13, <1>14, <1>15 DEF SimSound, FlowSound
<1>17. EmptySink \in SinkType /\ SinkSound(EmptySink, 0)
    BY DEF EmptySink, SinkType, SinkSound
<1>18. \A f \in Flows : sink[f] = EmptySink /\ sim.flow[f].next = 0 /\ ~ Guarded(sim.flow[f])
    BY <1>1, <1>8, IdleFlowSound
<1>19. sink \in [Flows -> SinkType]
    BY <1>1, <1>17
<1> QED
    BY <1>1, <1>6, <1>8, <1>16, <1>17, <1>18, <1>19 DEF Inv

-----------------------------------------------------------------------------
(* What the invariant says about the properties.                           *)

LEMMA InvTyped ==
    ASSUME Inv
    PROVE  TypeOK
<1>1. sim \in SimType /\ ListSound(sim.l)
    BY DEF Inv, SimSound
<1>2. sim.flow \in [Flows -> FlowType]
    BY <1>1 DEF SimType
<1>3. sink \in [Flows -> SinkType]
    BY DEF Inv
<1>4. sim.l.fault \in SimFaults
    BY <1>1 DEF ListSound, ListType
<1>5. \A i \in 1 .. Len(sim.l.pending) - 1 : sim.l.pending[i].when <= sim.l.pending[i + 1].when
  <2>1. sim.l.pending \in Seq(EntryType)
      BY <1>1 DEF ListSound, ListType
  <2>2. \A i \in 1 .. Len(sim.l.pending) - 1 :
            i \in DOMAIN sim.l.pending /\ i + 1 \in DOMAIN sim.l.pending /\ i <= i + 1
      BY <2>1
  <2> QED
      BY <1>1, <2>2 DEF ListSound, InOrder
<1> QED
    BY <1>2, <1>3, <1>4, <1>5 DEF TypeOK, FlowType, SinkType

\* A target of a barrier that has started was due, so that the barrier was full:
\* every flow that leads to it is done.
LEMMA InvCausal ==
    ASSUME Inv
    PROVE  CausalStart
<1>1. sim \in SimType /\ TriggersSound(sim) /\ sim.l \in ListType
    BY SimFields DEF Inv, SimSound, SimType
<1> SUFFICES ASSUME NEW g \in Triggers, TriggerOf[g].kind = "barrier",
                    NEW i \in DOMAIN TriggerOf[g].targets,
                    sim.flow[TriggerOf[g].targets[i]].started
             PROVE  \A f \in Feeding(g) : sim.flow[f].done
    BY DEF CausalStart
<1> DEFINE h == TriggerOf[g].targets[i]
           done == {f \in Feeding(g) : sim.flow[f].done}
<1>2. h \in Flows /\ StartAt[h] = TriggerStart
    BY TriggerKinds, ElementOfSeq, TriggerAssumption
<1>3. Due(sim, h)
    BY <1>1, <1>2 DEF TriggersSound
<1>4. Released(g, i, sim.l.shots[g])
    BY <1>3, DueOnce
<1>5. sim.l.shots[g] >= TriggerOf[g].needed
    BY <1>4 DEF Released
<1>6. Cardinality(done) = sim.l.shots[g]
    BY <1>1 DEF TriggersSound
<1>7. IsFiniteSet(Feeding(g))
    BY RecoveryAssumption, FS_Subset DEF Feeding
<1>8. Cardinality(Feeding(g)) <= TriggerOf[g].needed
    BY TriggerAssumption
<1>9. /\ done \subseteq Feeding(g) /\ IsFiniteSet(done)
      /\ Cardinality(done) \in Nat /\ Cardinality(Feeding(g)) \in Nat
      /\ Cardinality(done) <= Cardinality(Feeding(g))
      /\ Cardinality(done) = Cardinality(Feeding(g)) => done = Feeding(g)
    BY <1>7, FS_Subset, FS_CardinalityType
<1>10. TriggerOf[g].needed \in Nat
    BY TriggerKinds
<1>11. Cardinality(done) = Cardinality(Feeding(g))
    BY <1>5, <1>6, <1>8, <1>9, <1>10
<1> QED
    BY <1>9, <1>11

LEMMA InvLive ==
    ASSUME Inv
    PROVE  TimersAreLive
<1>1. sim \in SimType /\ ListSound(sim.l) /\ PortSound(sim, {}) /\ sim.l.end = mode.end
    BY DEF Inv, SimSound
<1>2. ASSUME NEW f \in Flows
      PROVE  /\ Books(sim.flow[f], f, sim.l.now) /\ Recorded(sim.flow[f]) /\ NotEarly(sim.flow[f])
             /\ RtoLive(sim, f) /\ ProbeLive(sim, f) /\ Watched(sim, f) /\ sim.flow[f] \in FlowType
    BY SimFields DEF Inv, SimSound
<1>3. TimerHasRecord
    BY <1>2 DEF TimerHasRecord, Recorded, NotEarly, Books
<1>4. AlwaysAlarmed
  <2>1. ASSUME NEW f \in Flows, Out(sim.flow[f]) # {}
        PROVE  \/ sim.flow[f].pending \/ sim.flow[f].probeWhen # 0
               \/ mode.end # 0 /\ sim.l.now + MinRto >= mode.end
    <3>1. CASE sim.flow[f].timed = {}
        BY <1>2, <2>1, <3>1 DEF Watched, Guarded
    <3>2. CASE sim.flow[f].timed # {}
        BY <1>1, <1>2, <3>2 DEF Watched, Guarded, NearEnd
    <3> QED
        BY <3>1, <3>2
  <2>2. ASSUME NEW f \in Flows, Wants(sim.flow[f])
        PROVE  \E i \in DOMAIN sim.nic.active : sim.nic.active[i] = f
      BY <1>1, <2>2 DEF PortSound, Waiting
  <2> QED
      BY <2>1, <2>2 DEF AlwaysAlarmed
<1>5. ASSUME NEW f \in Flows, NEW handle, NEW when,
             [handle |-> handle, src |-> SrcOf(f), when |-> when] \in Entries(sim.l)
      PROVE  \E i \in Live(sim.l, SrcOf(f), handle) : sim.l.pending[i].when = when
  <2>1. PICK i \in DOMAIN sim.l.pending :
                sim.l.pending[i] = [handle |-> handle, src |-> SrcOf(f), when |-> when]
      BY <1>5 DEF Entries
  <2>2. sim.l.pending[i].when >= sim.l.now
      BY <1>1 DEF ListSound, NotPast
  <2>3. /\ sim.l.pending[i].handle = handle /\ sim.l.pending[i].src = SrcOf(f)
        /\ sim.l.pending[i].when = when
      BY <2>1
  <2> QED
      BY <2>2, <2>3 DEF Live
<1>6. ASSUME NEW f \in Flows, sim.flow[f].pending
      PROVE  \E i \in Live(sim.l, SrcOf(f), sim.flow[f].rtoHandle) :
                 sim.l.pending[i].when = sim.flow[f].rto
  <2>1. [handle |-> sim.flow[f].rtoHandle, src |-> SrcOf(f), when |-> sim.flow[f].rto] \in Entries(sim.l)
      BY <1>2, <1>6 DEF RtoLive, RtoEntry
  <2> QED
      BY <1>5, <2>1
<1>7. ASSUME NEW f \in Flows, sim.flow[f].probeWhen # 0
      PROVE  \E i \in Live(sim.l, SrcOf(f), sim.flow[f].probeHandle) :
                 sim.l.pending[i].when = sim.flow[f].probeWhen
  <2>1. [handle |-> sim.flow[f].probeHandle, src |-> SrcOf(f), when |-> sim.flow[f].probeWhen] \in Entries(sim.l)
      BY <1>2, <1>7 DEF ProbeLive, ProbeEntry
  <2> QED
      BY <1>5, <2>1
<1> QED
    BY <1>3, <1>4, <1>6, <1>7 DEF TimersAreLive

\* In every state that is reached.
LEMMA InvNext ==
    ASSUME \A m \in Modes : m.sleek => m.end = 0, Inv, [Next]_vars
    PROVE  Inv'
<1>1. CASE TriggerFires
    BY <1>1, TriggerFiresInv
<1>2. CASE SrcEvent
    BY <1>2, SrcEventInv
<1>3. CASE NicEvent
    BY <1>3, NicEventInv
<1>4. CASE LoggerEvent
    BY <1>4, LoggerEventInv
<1>5. CASE DataArrives
    BY <1>5, DataArrivesInv
<1>6. CASE AckArrives
    BY <1>6, AckArrivesInv
<1>7. CASE PacketLost
    BY <1>7, PacketLostInv
<1>8. CASE PacketLate
    BY <1>8, PacketLateInv
<1>9. CASE UNCHANGED vars
    BY <1>9 DEF vars, Inv
<1> QED
    BY <1>1, <1>2, <1>3, <1>4, <1>5, <1>6, <1>7, <1>8, <1>9 DEF Next

-----------------------------------------------------------------------------
(* The theorems.                                                           *)

\* As long as no simulation with SLEEK has an end (the code would use a handle
\* the event list refused to give): no assertion of the code fails, and a flow
\* that waits for a barrier starts only after all that lead to it.
THEOREM AssertionsAlwaysHold ==
    (\A m \in Modes : m.sleek => m.end = 0) => (Spec => []AssertionsHold)
<1> SUFFICES ASSUME \A m \in Modes : m.sleek => m.end = 0
             PROVE  Spec => []AssertionsHold
    OBVIOUS
<1>1. Init => Inv
    BY InitInv
<1>2. Inv /\ [Next]_vars => Inv'
    BY InvNext
<1>3. Inv => AssertionsHold
    BY InvTyped, InvCausal DEF AssertionsHold, Inv, SimSound, ListSound
<1> QED
    BY <1>1, <1>2, <1>3, PTL DEF Spec

\* Every timer a sender believes in is in the event list, and everything
\* outstanding is watched by one of them.
THEOREM TimersAreAlwaysLive ==
    (\A m \in Modes : m.sleek => m.end = 0) => (Spec => []TimersAreLive)
<1> SUFFICES ASSUME \A m \in Modes : m.sleek => m.end = 0
             PROVE  Spec => []TimersAreLive
    OBVIOUS
<1>1. Init => Inv
    BY InitInv
<1>2. Inv /\ [Next]_vars => Inv'
    BY InvNext
<1>3. Inv => TimersAreLive
    BY InvLive
<1> QED
    BY <1>1, <1>2, <1>3, PTL DEF Spec

\* No packet is given up before _min_rto has passed since it was sent.
THEOREM TimeoutsAreNotEarly ==
    (\A m \in Modes : m.sleek => m.end = 0) => (Spec => NoEarlyTimeout)
<1> DEFINE Late == SrcEvent => \A f \in Flows : \A q \in sim.flow[f].timed :
                       q \notin sim'.flow[f].timed => sim'.l.now >= sim.flow[f].sent[q] + MinRto
<1> SUFFICES ASSUME \A m \in Modes : m.sleek => m.end = 0
             PROVE  Spec => NoEarlyTimeout
    OBVIOUS
<1>1. Init => Inv
    BY InitInv
<1>2. Inv /\ [Next]_vars => Inv'
    BY InvNext
<1>3. Inv /\ [Next]_vars => [Late]_vars
    BY SrcEventInv
<1> QED
    BY <1>1, <1>2, <1>3, PTL DEF Spec, NoEarlyTimeout

=============================================================================
