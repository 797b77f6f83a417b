-------------------------- MODULE LosslessPfcProofs --------------------------
(***************************************************************************)
(* Theorems about LosslessPfc, for any links, outputs, packets, delays and *)
(* thresholds: the two ends of every link agree up to the frames on their  *)
(* way, an input counts exactly the bytes that came by its link, and what  *)
(* can still arrive after a PAUSE is bounded.                              *)
(***************************************************************************)
EXTENDS LosslessPfc, ArithmeticTheorems, SequenceTheorems, TLAPS

\* What a pipe holds comes out in the order of the time left, and never late.
InTime(line) == \A i, j \in DOMAIN line : i <= j => line[i].left <= line[j].left

AtMost(line, delay) == \A i \in DOMAIN line : line[i].left <= delay

Pipes ==
    /\ InTime(fabric) /\ AtMost(fabric, SwitchDelay)
    /\ \A u \in Ups : /\ InTime(wire[u]) /\ AtMost(wire[u], Latency)
                      /\ InTime(back[u]) /\ AtMost(back[u], Latency)

\* The inductive invariant; the pipes are needed for the type of the times.
IInv == PauseAgreement /\ Pipes

-----------------------------------------------------------------------------
(* Pipes.                                                                  *)

\* The items of a pipe, one by one.
LEMMA LineItems ==
    ASSUME NEW Item, NEW line \in InTransit(Item)
    PROVE  /\ DOMAIN line = 1 .. Len(line) /\ Len(line) \in Nat
           /\ \A i \in DOMAIN line : /\ line[i] \in [item: Item, left: Nat]
                                     /\ line[i].left \in Nat /\ line[i].item \in Item
           /\ line # <<>> => 1 \in DOMAIN line /\ Head(line) = line[1]
<1> DEFINE R == [item: Item, left: Nat]
<1>1. line \in Seq(R)
    BY DEF InTransit
<1>2. \A r \in R : r.left \in Nat /\ r.item \in Item
    OBVIOUS
<1> HIDE DEF R
<1>3. \A i \in DOMAIN line : line[i] \in R
    BY <1>1
<1>4. DOMAIN line = 1 .. Len(line) /\ Len(line) \in Nat
    BY <1>1
<1>5. line # <<>> => 1 \in DOMAIN line /\ Head(line) = line[1]
    BY <1>1
<1>6. R = [item: Item, left: Nat]
    BY DEF R
<1> QED
    BY <1>2, <1>3, <1>4, <1>5, <1>6

\* What is put into a pipe is its last item, and the pipe stays in order.
LEMMA EnterLine ==
    ASSUME NEW Item, NEW line \in InTransit(Item), NEW x \in Item, NEW delay \in Nat,
           InTime(line), AtMost(line, delay)
    PROVE  /\ Enter(line, x, delay) \in InTransit(Item)
           /\ InTime(Enter(line, x, delay)) /\ AtMost(Enter(line, x, delay), delay)
           /\ Enter(line, x, delay) # <<>> /\ Last(Enter(line, x, delay)).item = x
<1> DEFINE R == [item: Item, left: Nat]
           e == [item |-> x, left |-> delay]
           new == Append(line, e)
<1>1. e \in R /\ line \in Seq(R) /\ e.left = delay /\ e.item = x
    BY DEF InTransit
<1>2. Enter(line, x, delay) = new /\ InTransit(Item) = Seq(R)
    BY DEF Enter, InTransit
<1>3. \A i \in DOMAIN line : line[i].left \in Nat
    BY LineItems
<1> HIDE DEF e, R
<1>4. /\ new \in Seq(R) /\ Len(new) = Len(line) + 1
      /\ DOMAIN new = 1 .. Len(line) + 1 /\ new[Len(line) + 1] = e
      /\ \A i \in 1 .. Len(line) : new[i] = line[i]
      /\ DOMAIN line = 1 .. Len(line) /\ Len(line) \in Nat
    BY <1>1
<1>n. new # <<>>
    BY <1>4
<1> HIDE DEF new
<1>5. ASSUME NEW i \in DOMAIN new PROVE new[i].left <= delay
    BY <1>1, <1>3, <1>4 DEF AtMost
<1>6. ASSUME NEW i \in DOMAIN new, NEW j \in DOMAIN new, i <= j
      PROVE  new[i].left <= new[j].left
  <2>1. CASE j = Len(line) + 1
      BY <1>1, <1>4, <1>5, <2>1
  <2>2. CASE j # Len(line) + 1
    <3>1. i \in DOMAIN line /\ j \in DOMAIN line
        BY <1>4, <1>6, <2>2
    <3> QED
        BY <1>4, <1>6, <3>1 DEF InTime
  <2> QED
      BY <2>1, <2>2
<1> QED
    BY <1>1, <1>2, <1>4, <1>n, <1>5, <1>6 DEF InTime, AtMost, Last

\* What is left when the first item has come out.
LEMMA LeaveLine ==
    ASSUME NEW Item, NEW line \in InTransit(Item), NEW delay \in Nat, line # <<>>,
           InTime(line), AtMost(line, delay)
    PROVE  /\ Tail(line) \in InTransit(Item) /\ InTime(Tail(line)) /\ AtMost(Tail(line), delay)
           /\ Head(line).item \in Item
           /\ Tail(line) # <<>> => Last(Tail(line)) = Last(line)
           /\ Tail(line) = <<>> => Last(line) = Head(line)
<1> DEFINE R == [item: Item, left: Nat]
           rest == Tail(line)
<1>1. line \in Seq(R) /\ InTransit(Item) = Seq(R)
    BY DEF InTransit
<1>2. Head(line).item \in Item
    BY LineItems
<1> HIDE DEF R
<1>3. /\ rest \in Seq(R) /\ Len(rest) = Len(line) - 1
      /\ DOMAIN rest = 1 .. Len(line) - 1
      /\ \A i \in 1 .. Len(line) - 1 : rest[i] = line[i + 1]
      /\ DOMAIN line = 1 .. Len(line) /\ Len(line) \in Nat /\ Len(line) > 0
      /\ Head(line) = line[1]
    BY <1>1
<1>4. (rest = <<>>) <=> (Len(rest) = 0)
    BY <1>3, EmptySeq
<1> HIDE DEF rest
<1>5. InTime(rest)
  <2>1. ASSUME NEW i \in DOMAIN rest, NEW j \in DOMAIN rest, i <= j
        PROVE  rest[i].left <= rest[j].left
    <3>1. i + 1 \in DOMAIN line /\ j + 1 \in DOMAIN line /\ i + 1 <= j + 1
        BY <1>3, <2>1
    <3> QED
        BY <1>3, <3>1 DEF InTime
  <2> QED
      BY <2>1 DEF InTime
<1>6. AtMost(rest, delay)
  <2>1. ASSUME NEW i \in DOMAIN rest PROVE rest[i].left <= delay
    <3>1. i + 1 \in DOMAIN line
        BY <1>3
    <3> QED
        BY <1>3, <3>1 DEF AtMost
  <2> QED
      BY <2>1 DEF AtMost
<1>7. rest # <<>> => Last(rest) = Last(line)
    BY <1>3, <1>4 DEF Last
<1>8. rest = <<>> => Last(line) = Head(line)
    BY <1>3, <1>4 DEF Last
<1> QED
    BY <1>1, <1>2, <1>3, <1>5, <1>6, <1>7, <1>8 DEF rest

\* If nothing is due, all that is in a pipe has time left to lose.
LEMMA LaterLine ==
    ASSUME NEW Item, NEW line \in InTransit(Item), NEW delay \in Nat, ~Due(line),
           InTime(line), AtMost(line, delay)
    PROVE  /\ Later(line) \in InTransit(Item) /\ InTime(Later(line)) /\ AtMost(Later(line), delay)
           /\ (Later(line) = <<>>) <=> (line = <<>>)
           /\ line # <<>> => Last(Later(line)).item = Last(line).item
<1> DEFINE R == [item: Item, left: Nat]
           new == Later(line)
<1>1. /\ DOMAIN line = 1 .. Len(line) /\ Len(line) \in Nat
      /\ \A i \in DOMAIN line : line[i] \in R /\ line[i].left \in Nat /\ line[i].item \in Item
      /\ line # <<>> => 1 \in DOMAIN line /\ Head(line) = line[1]
    BY LineItems
<1>2. ASSUME NEW i \in DOMAIN line PROVE line[i].left > 0
  <2>1. line # <<>> /\ 1 <= i
      BY <1>1
  <2>2. 1 \in DOMAIN line /\ line[1].left \in Nat /\ line[1].left # 0
      BY <1>1, <2>1 DEF Due
  <2>3. line[1].left <= line[i].left
      BY <2>1, <2>2 DEF InTime
  <2> QED
      BY <1>1, <2>2, <2>3
<1>3. ASSUME NEW i \in DOMAIN line
      PROVE  new[i] \in R /\ new[i].left = line[i].left - 1 /\ new[i].item = line[i].item
  <2>1. new[i] = [line[i] EXCEPT !.left = @ - 1]
      BY DEF Later
  <2>2. line[i] \in R /\ line[i].left \in Nat /\ line[i].left > 0
      BY <1>1, <1>2
  <2> QED
      BY <2>1, <2>2
<1>4. new = [i \in 1 .. Len(line) |-> new[i]]
    BY <1>1 DEF Later
<1>5. InTransit(Item) = Seq(R)
    BY DEF InTransit
<1> HIDE DEF R, new
<1>6. new \in Seq(R) /\ Len(new) = Len(line) /\ DOMAIN new = DOMAIN line
    BY <1>1, <1>3, <1>4
<1>7. (new = <<>>) <=> (line = <<>>)
  <2>1. (new = <<>>) <=> (Len(new) = 0)
      BY <1>6
  <2>2. line \in Seq(R)
      BY <1>5
  <2>3. (line = <<>>) <=> (Len(line) = 0)
      BY <2>2
  <2> QED
      BY <1>6, <2>1, <2>3
<1>8. InTime(new) /\ AtMost(new, delay)
    BY <1>1, <1>3, <1>6 DEF InTime, AtMost
<1>9. line # <<>> => Last(new).item = Last(line).item
  <2>1. line # <<>> => Len(line) \in DOMAIN line
      BY <1>1
  <2> QED
      BY <1>3, <1>6, <2>1 DEF Last
<1> QED
    BY <1>5, <1>6, <1>7, <1>8, <1>9 DEF new

-----------------------------------------------------------------------------
(* Output queues.                                                          *)

\* beginService on a queue that holds something.
LEMMA BeginPort ==
    ASSUME PfcAssumption, NEW p \in Port, p.q # <<>>
    PROVE  /\ Begin(p) \in Port
           /\ Begin(p).q = p.q /\ Begin(p).state = p.state /\ Begin(p).sending = TRUE
<1>1. Head(p.q) \in Packet
    BY DEF Port
<1>2. Head(p.q).size \in Nat
    BY <1>1 DEF Packet, PfcAssumption
<1> QED
    BY <1>2 DEF Begin, Port

\* A frame leaves the queue ready or not, as it says, and serving as it should.
LEMMA FramePort ==
    ASSUME PfcAssumption, NEW p \in Port, PortConsistent(p), NEW pause \in BOOLEAN
    PROVE  /\ ReceiveFrame(p, pause) \in Port /\ PortConsistent(ReceiveFrame(p, pause))
           /\ pause <=> ReceiveFrame(p, pause).state # "READY"
<1>1. CASE pause
    BY <1>1 DEF ReceiveFrame, Pause, Port, PortConsistent
<1>2. CASE ~pause
  <2> DEFINE a == [p EXCEPT !.state = "READY"]
  <2>1. a \in Port /\ a.q = p.q /\ a.sending = p.sending /\ a.state = "READY"
      BY DEF Port
  <2>2. ReceiveFrame(p, pause) = IF a.q # <<>> /\ ~a.sending THEN Begin(a) ELSE a
      BY <1>2 DEF ReceiveFrame, GoOn
  <2> HIDE DEF a
  <2>3. CASE a.q # <<>> /\ ~a.sending
    <3>1. Begin(a) \in Port /\ Begin(a).q = a.q /\ Begin(a).state = "READY" /\ Begin(a).sending
        BY <2>1, <2>3, BeginPort
    <3> QED
        BY <1>2, <2>2, <2>3, <3>1 DEF PortConsistent
  <2>4. CASE ~(a.q # <<>> /\ ~a.sending)
    <3>1. p.state \in {"READY", "PAUSED", "PAUSE_RECEIVED"} /\ p.sending \in BOOLEAN
        BY DEF Port
    <3> QED
        BY <1>2, <2>1, <2>2, <2>4, <3>1 DEF PortConsistent
  <2> QED
      BY <2>3, <2>4
<1> QED
    BY <1>1, <1>2

\* A packet is queued; whether the queue may send does not change.
LEMMA DataPort ==
    ASSUME PfcAssumption, NEW p \in Port, PortConsistent(p), NEW pkt \in Packet
    PROVE  /\ ReceiveData(p, pkt) \in Port /\ PortConsistent(ReceiveData(p, pkt))
           /\ ReceiveData(p, pkt).state = p.state
<1> DEFINE a == [p EXCEPT !.q = Append(@, pkt)]
<1>1. /\ p.state \in {"READY", "PAUSED", "PAUSE_RECEIVED"} /\ p.sending \in BOOLEAN
      /\ p.q \in Seq(Packet)
    BY DEF Port
<1>2. Append(p.q, pkt) \in Seq(Packet) /\ Append(p.q, pkt) # <<>>
    BY <1>1
<1>3. a \in Port /\ a.q = Append(p.q, pkt) /\ a.state = p.state /\ a.sending = p.sending
    BY <1>2 DEF Port
<1>4. ReceiveData(p, pkt) = IF p.q = <<>> /\ p.state = "READY" THEN Begin(a) ELSE a
    BY DEF ReceiveData
<1> HIDE DEF a
<1>5. CASE p.q = <<>> /\ p.state = "READY"
  <2>1. Begin(a) \in Port /\ Begin(a).q = a.q /\ Begin(a).state = a.state /\ Begin(a).sending = TRUE
      BY <1>2, <1>3, BeginPort
  <2> QED
      BY <1>2, <1>3, <1>4, <1>5, <2>1 DEF PortConsistent
<1>6. CASE ~(p.q = <<>> /\ p.state = "READY")
    BY <1>1, <1>2, <1>3, <1>4, <1>6 DEF PortConsistent
<1> QED
    BY <1>5, <1>6

\* A packet has been sent; whether the queue may send does not change.
LEMMA CompletePort ==
    ASSUME PfcAssumption, NEW p \in Port, PortConsistent(p), p.sending
    PROVE  /\ p.q # <<>> /\ Head(p.q) \in Packet
           /\ CompleteService(p) \in Port /\ PortConsistent(CompleteService(p))
           /\ CompleteService(p).state = "READY" <=> p.state = "READY"
<1> DEFINE a == [p EXCEPT !.q = Tail(@), !.sending = FALSE, !.left = 0,
                          !.state = IF @ = "PAUSE_RECEIVED" THEN "PAUSED" ELSE @]
<1>1. /\ p.state \in {"READY", "PAUSED", "PAUSE_RECEIVED"} /\ p.sending \in BOOLEAN
      /\ p.q \in Seq(Packet)
    BY DEF Port
<1>2. p.q # <<>> /\ p.state # "PAUSED"
    BY <1>1 DEF PortConsistent
<1>3. Tail(p.q) \in Seq(Packet) /\ Head(p.q) \in Packet
    BY <1>1, <1>2
<1>4. /\ a \in Port /\ a.q = Tail(p.q) /\ a.sending = FALSE
      /\ a.state = IF p.state = "READY" THEN "READY" ELSE "PAUSED"
    BY <1>1, <1>2, <1>3 DEF Port
<1>5. CompleteService(p) = IF a.q # <<>> /\ a.state = "READY" THEN Begin(a) ELSE a
    BY DEF CompleteService
<1> HIDE DEF a
<1>6. CASE a.q # <<>> /\ a.state = "READY"
  <2>1. Begin(a) \in Port /\ Begin(a).q = a.q /\ Begin(a).state = a.state /\ Begin(a).sending = TRUE
      BY <1>4, <1>6, BeginPort
  <2> QED
      BY <1>1, <1>2, <1>3, <1>4, <1>5, <1>6, <2>1 DEF PortConsistent
<1>7. CASE ~(a.q # <<>> /\ a.state = "READY")
    BY <1>1, <1>2, <1>3, <1>4, <1>5, <1>7 DEF PortConsistent
<1> QED
    BY <1>6, <1>7

-----------------------------------------------------------------------------
(* The steps.                                                              *)

\* What a step may change on one link, given that it changes only that link.
PortsOK == \A p \in Ups \cup Outs : port[p] \in Port /\ PortConsistent(port[p])

\* The invariant, link by link and queue by queue.
LEMMA InvParts ==
    IInv <=> /\ TypeOK /\ PortsOK /\ Pipes
             /\ \A u \in Ups : Told(u) <=> input[u].paused
BY DEF IInv, PauseAgreement, PortsOK, TypeOK

LEMMA InvPartsNext ==
    ASSUME TypeOK', PortsOK', Pipes', \A u \in Ups : Told(u)' <=> input'[u].paused
    PROVE  IInv'
BY DEF IInv, PauseAgreement, PortsOK, TypeOK

LEMMA InitInv == PfcAssumption /\ Init => IInv
<1> SUFFICES ASSUME PfcAssumption, Init PROVE IInv
    OBVIOUS
<1>1. TypeOK
    BY DEF TypeOK, Init, InTransit, Port
<1>2. PortsOK
    BY DEF PortsOK, Init, Port, PortConsistent
<1>3. Pipes
    BY DEF Pipes, Init, InTime, AtMost
<1>4. \A u \in Ups : Told(u) <=> input[u].paused
    BY DEF Init, Told
<1> QED
    BY <1>1, <1>2, <1>3, <1>4, InvParts

\* An output queue that stays ready or not ready says the same to its link.
LEMMA PortStep ==
    ASSUME IInv, NEW p \in Ups \cup Outs, NEW a \in Port, PortConsistent(a),
           port' = [port EXCEPT ![p] = a],
           a.state = "READY" <=> port[p].state = "READY",
           UNCHANGED <<input, back>>
    PROVE  /\ port' \in [Ups \cup Outs -> Port] /\ PortsOK'
           /\ \A u \in Ups : Told(u)' <=> input'[u].paused
<1>1. port \in [Ups \cup Outs -> Port]
    BY InvParts DEF TypeOK
<1>2. \A q \in Ups \cup Outs : port'[q] = IF q = p THEN a ELSE port[q]
    BY <1>1
<1>3. port' \in [Ups \cup Outs -> Port]
    BY <1>1
<1>4. PortsOK'
    BY <1>2, InvParts DEF PortsOK
<1>5. ASSUME NEW u \in Ups PROVE Told(u)' <=> input'[u].paused
  <2>1. (port'[u].state # "READY") <=> (port[u].state # "READY")
      BY <1>2
  <2>2. Told(u)' <=> Told(u)
      BY <2>1 DEF Told
  <2> QED
      BY <2>2, InvParts
<1> QED
    BY <1>3, <1>4, <1>5

\* Counting a packet in or out keeps the last frame true to the decision.
LEMMA SizeStep ==
    ASSUME PfcAssumption, IInv, NEW v \in Ups, NEW size \in Int, SetSize(v, size),
           NEW o \in Ups \cup Outs, NEW a \in Port,
           a.state = "READY" <=> port[o].state = "READY", PortConsistent(a),
           port' = [port EXCEPT ![o] = a]
    PROVE  /\ port' \in [Ups \cup Outs -> Port] /\ PortsOK'
           /\ input' \in [Ups -> [size: Int, paused: BOOLEAN]]
           /\ back' \in [Ups -> InTransit(BOOLEAN)]
           /\ \A u \in Ups : InTime(back'[u]) /\ AtMost(back'[u], Latency)
           /\ \A u \in Ups : Told(u)' <=> input'[u].paused
<1> DEFINE in == input[v]
           pause == CrossesHigh(in, size)
           resume == FallsBelowLow(in, size)
           new == [size |-> size, paused |-> (in.paused \/ pause) /\ ~resume]
           longer == Enter(back[v], pause, Latency)
<1>1. /\ input \in [Ups -> [size: Int, paused: BOOLEAN]] /\ back \in [Ups -> InTransit(BOOLEAN)]
      /\ port \in [Ups \cup Outs -> Port] /\ in.paused \in BOOLEAN
    BY InvParts DEF TypeOK
<1>2. /\ input' = [input EXCEPT ![v] = new]
      /\ back' = IF pause \/ resume THEN [back EXCEPT ![v] = longer] ELSE back
    BY DEF SetSize
<1>3. pause \in BOOLEAN /\ resume \in BOOLEAN
    BY DEF CrossesHigh, FallsBelowLow
<1>4. (pause => ~in.paused) /\ (resume => in.paused)
    BY DEF CrossesHigh, FallsBelowLow
<1>5. new \in [size: Int, paused: BOOLEAN] /\ (new.paused <=> (in.paused \/ pause) /\ ~resume)
    BY <1>1, <1>3
<1>6. InTime(back[v]) /\ AtMost(back[v], Latency) /\ Latency \in Nat
    BY InvParts DEF Pipes, PfcAssumption
<1>7. /\ longer \in InTransit(BOOLEAN) /\ InTime(longer) /\ AtMost(longer, Latency)
      /\ longer # <<>> /\ (Last(longer).item <=> pause)
    BY <1>1, <1>3, <1>6, EnterLine
<1> HIDE DEF in, pause, resume, new, longer
<1>8. \A q \in Ups \cup Outs : port'[q] = IF q = o THEN a ELSE port[q]
    BY <1>1
<1>9. port' \in [Ups \cup Outs -> Port] /\ PortsOK'
    BY <1>1, <1>8, InvParts DEF PortsOK
<1>10. input' \in [Ups -> [size: Int, paused: BOOLEAN]]
    BY <1>1, <1>2, <1>5
<1>11. back' \in [Ups -> InTransit(BOOLEAN)]
    BY <1>1, <1>2, <1>7
<1>12. ASSUME NEW u \in Ups PROVE InTime(back'[u]) /\ AtMost(back'[u], Latency)
  <2>1. back'[u] = IF (pause \/ resume) /\ u = v THEN longer ELSE back[u]
      BY <1>1, <1>2
  <2> QED
      BY <1>7, <2>1, InvParts DEF Pipes
<1>13. ASSUME NEW u \in Ups PROVE Told(u)' <=> input'[u].paused
  <2>1. Told(u) <=> input[u].paused
      BY InvParts
  <2>2. (port'[u].state # "READY") <=> (port[u].state # "READY")
      BY <1>8
  <2>3. CASE u # v
    <3>1. back'[u] = back[u] /\ input'[u] = input[u]
        BY <1>1, <1>2, <2>3
    <3> QED
        BY <2>1, <2>2, <3>1 DEF Told
  <2>4. CASE u = v
    <3>1. input'[u].paused <=> (in.paused \/ pause) /\ ~resume
        BY <1>1, <1>2, <1>5, <2>4
    <3>2. CASE pause \/ resume
      <4>1. back'[u] = longer
          BY <1>1, <1>2, <2>4, <3>2
      <4>2. Told(u)' <=> pause
          BY <1>7, <4>1 DEF Told
      <4> QED
          BY <1>4, <3>1, <3>2, <4>2
    <3>3. CASE ~(pause \/ resume)
      <4>1. back'[u] = back[u]
          BY <1>2, <3>3
      <4>2. Told(u)' <=> Told(u)
          BY <2>2, <4>1 DEF Told
      <4> QED
          BY <2>1, <2>4, <3>1, <3>3, <4>2 DEF in
    <3> QED
        BY <3>2, <3>3
  <2> QED
      BY <2>3, <2>4
<1> QED
    BY <1>9, <1>10, <1>11, <1>12, <1>13

\* A frame that arrives is what its link was told; the next ones are to come.
LEMMA FrameStep == PfcAssumption /\ IInv /\ (\E u \in Ups : FrameArrives(u)) => IInv'
<1> SUFFICES ASSUME PfcAssumption, IInv, NEW v \in Ups, FrameArrives(v) PROVE IInv'
    OBVIOUS
<1> DEFINE line == back[v]
           a == ReceiveFrame(port[v], Head(line).item)
<1>1. /\ line \in InTransit(BOOLEAN) /\ port \in [Ups \cup Outs -> Port] /\ line # <<>>
      /\ back \in [Ups -> InTransit(BOOLEAN)] /\ InTime(line) /\ AtMost(line, Latency)
      /\ port[v] \in Port /\ PortConsistent(port[v]) /\ Latency \in Nat
    BY InvParts DEF TypeOK, FrameArrives, Due, Pipes, PortsOK, PfcAssumption
<1>2. /\ Tail(line) \in InTransit(BOOLEAN) /\ InTime(Tail(line)) /\ AtMost(Tail(line), Latency)
      /\ Head(line).item \in BOOLEAN
      /\ Tail(line) # <<>> => Last(Tail(line)) = Last(line)
      /\ Tail(line) = <<>> => Last(line) = Head(line)
    BY <1>1, LeaveLine
<1>3. a \in Port /\ PortConsistent(a) /\ (Head(line).item <=> a.state # "READY")
    BY <1>1, <1>2, FramePort
<1>4. /\ port' = [port EXCEPT ![v] = a] /\ back' = [back EXCEPT ![v] = Tail(line)]
      /\ UNCHANGED <<scene, input, wire, fabric>>
    BY DEF FrameArrives
<1>5. Told(v) <=> Last(line).item
    BY <1>1 DEF Told
<1> HIDE DEF a, line
<1>6. \A q \in Ups \cup Outs : port'[q] = IF q = v THEN a ELSE port[q]
    BY <1>1, <1>4
<1>7. \A u \in Ups : back'[u] = IF u = v THEN Tail(line) ELSE back[u]
    BY <1>1, <1>4
<1>8. PortsOK'
    BY <1>3, <1>6, InvParts DEF PortsOK
<1>9. TypeOK'
  <2>1. port' \in [Ups \cup Outs -> Port] /\ back' \in [Ups -> InTransit(BOOLEAN)]
      BY <1>1, <1>2, <1>3, <1>4
  <2> QED
      BY <1>4, <2>1, InvParts DEF TypeOK
<1>10. Pipes'
    BY <1>2, <1>4, <1>7, InvParts DEF Pipes
<1>11. ASSUME NEW u \in Ups PROVE Told(u)' <=> input'[u].paused
  <2>1. (Told(u) <=> input[u].paused) /\ input'[u] = input[u]
      BY <1>4, InvParts
  <2>2. CASE u # v
    <3>1. back'[u] = back[u] /\ port'[u] = port[u]
        BY <1>6, <1>7, <2>2
    <3> QED
        BY <2>1, <3>1 DEF Told
  <2>3. CASE u = v
    <3>1. back'[u] = Tail(line) /\ port'[u] = a
        BY <1>6, <1>7, <2>3
    <3>2. CASE Tail(line) = <<>>
      <4>1. Told(u)' <=> a.state # "READY"
          BY <3>1, <3>2 DEF Told
      <4>2. Last(line).item = Head(line).item
          BY <1>2, <3>2
      <4> QED
          BY <1>3, <1>5, <2>1, <2>3, <4>1, <4>2
    <3>3. CASE Tail(line) # <<>>
      <4>1. Told(u)' <=> Last(Tail(line)).item
          BY <3>1, <3>3 DEF Told
      <4> QED
          BY <1>2, <1>5, <2>1, <2>3, <3>3, <4>1
    <3> QED
        BY <3>2, <3>3
  <2> QED
      BY <2>2, <2>3
<1> QED
    BY <1>8, <1>9, <1>10, <1>11, InvPartsNext

\* The clock changes only the times left.
LEMMA TickStep == PfcAssumption /\ IInv /\ Tick => IInv'
<1> SUFFICES ASSUME PfcAssumption, IInv, Tick PROVE IInv'
    OBVIOUS
<1>1. /\ port \in [Ups \cup Outs -> Port] /\ wire \in [Ups -> InTransit(Packet)]
      /\ back \in [Ups -> InTransit(BOOLEAN)] /\ fabric \in InTransit(Packet)
      /\ Latency \in Nat /\ SwitchDelay \in Nat
    BY InvParts DEF TypeOK, PfcAssumption
<1>2. fabric' \in InTransit(Packet) /\ InTime(fabric') /\ AtMost(fabric', SwitchDelay)
  <2>1. ~Due(fabric) /\ fabric' = Later(fabric) /\ InTime(fabric) /\ AtMost(fabric, SwitchDelay)
      BY InvParts DEF Tick, Pipes
  <2> QED
      BY <1>1, <2>1, LaterLine
<1>3. ASSUME NEW u \in Ups
      PROVE  wire'[u] \in InTransit(Packet) /\ InTime(wire'[u]) /\ AtMost(wire'[u], Latency)
  <2>1. ~Due(wire[u]) /\ wire'[u] = Later(wire[u]) /\ InTime(wire[u]) /\ AtMost(wire[u], Latency)
      BY InvParts DEF Tick, Pipes
  <2> QED
      BY <1>1, <2>1, LaterLine
<1>4. ASSUME NEW u \in Ups
      PROVE  /\ back'[u] \in InTransit(BOOLEAN) /\ InTime(back'[u]) /\ AtMost(back'[u], Latency)
             /\ (back'[u] = <<>>) <=> (back[u] = <<>>)
             /\ back[u] # <<>> => Last(back'[u]).item = Last(back[u]).item
  <2>1. ~Due(back[u]) /\ back'[u] = Later(back[u]) /\ InTime(back[u]) /\ AtMost(back[u], Latency)
      BY InvParts DEF Tick, Pipes
  <2> QED
      BY <1>1, <2>1, LaterLine
<1>5. ASSUME NEW p \in Ups \cup Outs
      PROVE  /\ port'[p] \in Port /\ PortConsistent(port'[p])
             /\ port'[p].state = port[p].state
  <2>1. port[p] \in Port /\ PortConsistent(port[p]) /\ ~Sent(p)
      BY InvParts DEF PortsOK, Tick
  <2>2. port'[p] = [port[p] EXCEPT !.left = IF port[p].sending THEN @ - 1 ELSE @]
      BY DEF Tick
  <2>3. port[p].left \in Nat /\ (port[p].sending => port[p].left - 1 \in Nat)
      BY <2>1 DEF Port, Sent
  <2> QED
      BY <2>1, <2>2, <2>3 DEF Port, PortConsistent
<1>6. TypeOK'
  <2>1. port' = [p \in Ups \cup Outs |-> port'[p]]
      BY DEF Tick
  <2>2. port' \in [Ups \cup Outs -> Port]
      BY <1>5, <2>1
  <2>3. wire' = [u \in Ups |-> wire'[u]] /\ back' = [u \in Ups |-> back'[u]]
      BY DEF Tick
  <2>4. wire' \in [Ups -> InTransit(Packet)] /\ back' \in [Ups -> InTransit(BOOLEAN)]
      BY <1>3, <1>4, <2>3
  <2>5. UNCHANGED <<scene, input>>
      BY DEF Tick
  <2> QED
      BY <1>2, <2>2, <2>4, <2>5, InvParts DEF TypeOK
<1>7. PortsOK'
    BY <1>5 DEF PortsOK
<1>8. Pipes'
    BY <1>2, <1>3, <1>4 DEF Pipes
<1>9. ASSUME NEW u \in Ups PROVE Told(u)' <=> input'[u].paused
  <2>1. (Told(u) <=> input[u].paused) /\ input'[u] = input[u]
      BY InvParts DEF Tick
  <2>2. Told(u)' <=> Told(u)
      BY <1>4, <1>5 DEF Told
  <2> QED
      BY <2>1, <2>2
<1> QED
    BY <1>6, <1>7, <1>8, <1>9, InvPartsNext

\* Every step keeps the invariant.
LEMMA NextInv == PfcAssumption /\ IInv /\ [Next]_vars => IInv'
<1> SUFFICES ASSUME PfcAssumption, IInv, [Next]_vars PROVE IInv'
    OBVIOUS
<1>0. /\ port \in [Ups \cup Outs -> Port] /\ wire \in [Ups -> InTransit(Packet)]
      /\ input \in [Ups -> [size: Int, paused: BOOLEAN]]
      /\ back \in [Ups -> InTransit(BOOLEAN)] /\ fabric \in InTransit(Packet)
      /\ \A p \in Ups \cup Outs : port[p] \in Port /\ PortConsistent(port[p])
      /\ Latency \in Nat /\ SwitchDelay \in Nat /\ Sizes \subseteq Nat
    BY InvParts DEF TypeOK, PortsOK, PfcAssumption
<1>1. ASSUME NEW u \in Ups, UpstreamSends(u) PROVE IInv'
  <2> DEFINE pkt == Head(port[u].q)
             a == CompleteService(port[u])
  <2>1. /\ port[u].sending /\ port' = [port EXCEPT ![u] = a]
        /\ wire' = [wire EXCEPT ![u] = Enter(@, pkt, Latency)]
        /\ UNCHANGED <<scene, input, back, fabric>>
      BY <1>1 DEF UpstreamSends, Sent
  <2>2. pkt \in Packet /\ a \in Port /\ PortConsistent(a)
        /\ (a.state = "READY" <=> port[u].state = "READY")
      BY <1>0, <2>1, CompletePort
  <2>3. /\ Enter(wire[u], pkt, Latency) \in InTransit(Packet)
        /\ InTime(Enter(wire[u], pkt, Latency)) /\ AtMost(Enter(wire[u], pkt, Latency), Latency)
      BY <1>0, <2>2, EnterLine, InvParts DEF Pipes
  <2> HIDE DEF a, pkt
  <2>4. /\ port' \in [Ups \cup Outs -> Port] /\ PortsOK'
        /\ \A v \in Ups : Told(v)' <=> input'[v].paused
      BY <2>1, <2>2, PortStep
  <2>5. TypeOK'
    <3>1. wire' \in [Ups -> InTransit(Packet)]
        BY <1>0, <2>1, <2>3
    <3> QED
        BY <2>1, <2>4, <3>1, InvParts DEF TypeOK
  <2>6. Pipes'
    <3>1. \A v \in Ups : wire'[v] = IF v = u THEN Enter(wire[u], pkt, Latency) ELSE wire[v]
        BY <1>0, <2>1
    <3> QED
        BY <2>1, <2>3, <3>1, InvParts DEF Pipes
  <2> QED
      BY <2>4, <2>5, <2>6, InvPartsNext
<1>2. ASSUME NEW u \in Ups, Arrives(u) PROVE IInv'
  <2> DEFINE line == wire[u]
             pkt == Head(line).item
             size == input[u].size + pkt.size
  <2>1. /\ line # <<>> /\ SetSize(u, size) /\ fabric' = Enter(fabric, pkt, SwitchDelay)
        /\ wire' = [wire EXCEPT ![u] = Tail(line)] /\ UNCHANGED <<scene, port>>
      BY <1>2 DEF Arrives, Due
  <2>2. pkt \in Packet /\ Tail(line) \in InTransit(Packet)
        /\ InTime(Tail(line)) /\ AtMost(Tail(line), Latency)
      BY <1>0, <2>1, LeaveLine, InvParts DEF Pipes
  <2>3. size \in Int
    <3>1. pkt.size \in Nat
        BY <1>0, <2>2 DEF Packet
    <3>2. input[u].size \in Int
        BY <1>0
    <3> QED
        BY <3>1, <3>2
  <2>4. port' = [port EXCEPT ![u] = port[u]]
      BY <1>0, <2>1
  <2>5. /\ Enter(fabric, pkt, SwitchDelay) \in InTransit(Packet)
        /\ InTime(Enter(fabric, pkt, SwitchDelay))
        /\ AtMost(Enter(fabric, pkt, SwitchDelay), SwitchDelay)
      BY <1>0, <2>2, EnterLine, InvParts DEF Pipes
  <2> HIDE DEF line, pkt, size
  <2>6. /\ port' \in [Ups \cup Outs -> Port] /\ PortsOK'
        /\ input' \in [Ups -> [size: Int, paused: BOOLEAN]]
        /\ back' \in [Ups -> InTransit(BOOLEAN)]
        /\ \A v \in Ups : InTime(back'[v]) /\ AtMost(back'[v], Latency)
        /\ \A v \in Ups : Told(v)' <=> input'[v].paused
      BY <1>0, <2>1, <2>3, <2>4, SizeStep
  <2>7. TypeOK'
    <3>1. wire' \in [Ups -> InTransit(Packet)]
        BY <1>0, <2>1, <2>2
    <3> QED
        BY <2>1, <2>5, <2>6, <3>1, InvParts DEF TypeOK
  <2>8. Pipes'
    <3>1. \A v \in Ups : wire'[v] = IF v = u THEN Tail(line) ELSE wire[v]
        BY <1>0, <2>1
    <3> QED
        BY <2>1, <2>2, <2>5, <2>6, <3>1, InvParts DEF Pipes
  <2> QED
      BY <2>6, <2>7, <2>8, InvPartsNext
<1>3. CASE Switches
  <2> DEFINE pkt == Head(fabric).item
             a == ReceiveData(port[pkt.out], pkt)
  <2>1. /\ fabric # <<>> /\ port' = [port EXCEPT ![pkt.out] = a] /\ fabric' = Tail(fabric)
        /\ UNCHANGED <<scene, input, wire, back>>
      BY <1>3 DEF Switches, Due
  <2>2. pkt \in Packet /\ Tail(fabric) \in InTransit(Packet)
        /\ InTime(Tail(fabric)) /\ AtMost(Tail(fabric), SwitchDelay)
      BY <1>0, <2>1, LeaveLine, InvParts DEF Pipes
  <2>3. pkt.out \in Ups \cup Outs
      BY <2>2 DEF Packet
  <2>4. a \in Port /\ PortConsistent(a) /\ a.state = port[pkt.out].state
      BY <1>0, <2>2, <2>3, DataPort
  <2> HIDE DEF a, pkt
  <2>5. /\ port' \in [Ups \cup Outs -> Port] /\ PortsOK'
        /\ \A v \in Ups : Told(v)' <=> input'[v].paused
      BY <2>1, <2>3, <2>4, PortStep
  <2>6. TypeOK' /\ Pipes'
      BY <2>1, <2>2, <2>5, InvParts DEF TypeOK, Pipes
  <2> QED
      BY <2>5, <2>6, InvPartsNext
<1>4. ASSUME NEW o \in Outs, SwitchSends(o) PROVE IInv'
  <2> DEFINE pkt == Head(port[o].q)
             a == CompleteService(port[o])
             size == input[pkt.from].size - pkt.size
  <2>1. /\ port[o].sending /\ port' = [port EXCEPT ![o] = a] /\ SetSize(pkt.from, size)
        /\ UNCHANGED <<scene, wire, fabric>>
      BY <1>4 DEF SwitchSends, Sent
  <2>2. pkt \in Packet /\ a \in Port /\ PortConsistent(a)
        /\ (a.state = "READY" <=> port[o].state = "READY")
      BY <1>0, <2>1, CompletePort
  <2>3. pkt.from \in Ups /\ size \in Int
    <3>1. pkt.from \in Ups /\ pkt.size \in Nat
        BY <1>0, <2>2 DEF Packet
    <3>2. input[pkt.from].size \in Int
        BY <1>0, <3>1
    <3> QED
        BY <3>1, <3>2
  <2> HIDE DEF a, pkt, size
  <2>4. /\ port' \in [Ups \cup Outs -> Port] /\ PortsOK'
        /\ input' \in [Ups -> [size: Int, paused: BOOLEAN]]
        /\ back' \in [Ups -> InTransit(BOOLEAN)]
        /\ \A v \in Ups : InTime(back'[v]) /\ AtMost(back'[v], Latency)
        /\ \A v \in Ups : Told(v)' <=> input'[v].paused
      BY <2>1, <2>2, <2>3, SizeStep
  <2>5. TypeOK' /\ Pipes'
      BY <2>1, <2>4, InvParts DEF TypeOK, Pipes
  <2> QED
      BY <2>4, <2>5, InvPartsNext
<1>5. ASSUME NEW u \in Ups, Inject(u) PROVE IInv'
  <2>1. PICK o \in Outs, s \in Sizes :
            port' = [port EXCEPT ![u] = ReceiveData(@, [from |-> u, out |-> o, size |-> s])]
      BY <1>5 DEF Inject
  <2> DEFINE a == ReceiveData(port[u], [from |-> u, out |-> o, size |-> s])
  <2>2. [from |-> u, out |-> o, size |-> s] \in Packet
      BY DEF Packet
  <2>3. a \in Port /\ PortConsistent(a) /\ a.state = port[u].state
      BY <1>0, <2>2, DataPort
  <2>4. port' = [port EXCEPT ![u] = a] /\ UNCHANGED <<scene, input, wire, back, fabric>>
      BY <1>5, <2>1 DEF Inject
  <2> HIDE DEF a
  <2>5. /\ port' \in [Ups \cup Outs -> Port] /\ PortsOK'
        /\ \A v \in Ups : Told(v)' <=> input'[v].paused
      BY <2>3, <2>4, PortStep
  <2>6. TypeOK' /\ Pipes'
      BY <2>4, <2>5, InvParts DEF TypeOK, Pipes
  <2> QED
      BY <2>5, <2>6, InvPartsNext
<1>6. ASSUME NEW o \in Outs, DownstreamPauses(o) \/ DownstreamResumes(o) PROVE IInv'
  <2>1. PICK f \in BOOLEAN : port' = [port EXCEPT ![o] = ReceiveFrame(@, f)]
      BY <1>6 DEF DownstreamPauses, DownstreamResumes
  <2> DEFINE a == ReceiveFrame(port[o], f)
  <2>2. a \in Port /\ PortConsistent(a)
      BY <1>0, FramePort
  <2>3. port' = [port EXCEPT ![o] = a] /\ UNCHANGED <<scene, input, wire, back, fabric>>
      BY <1>6, <2>1 DEF DownstreamPauses, DownstreamResumes
  <2> HIDE DEF a
  <2>4. \A q \in Ups \cup Outs : port'[q] = IF q = o THEN a ELSE port[q]
      BY <1>0, <2>3
  <2>5. port' \in [Ups \cup Outs -> Port] /\ PortsOK'
      BY <1>0, <2>2, <2>3, <2>4 DEF PortsOK
  <2>6. ASSUME NEW v \in Ups PROVE Told(v)' <=> input'[v].paused
    <3>1. v # o
        BY DEF PfcAssumption
    <3>2. port'[v] = port[v]
        BY <2>4, <3>1
    <3> QED
        BY <2>3, <3>2, InvParts DEF Told
  <2>7. TypeOK' /\ Pipes'
      BY <2>3, <2>5, InvParts DEF TypeOK, Pipes
  <2> QED
      BY <2>5, <2>6, <2>7, InvPartsNext
<1>7. CASE UNCHANGED vars
  <2>1. UNCHANGED <<scene, port, input, wire, back, fabric>>
      BY <1>7 DEF vars
  <2> QED
      BY <2>1 DEF IInv, PauseAgreement, TypeOK, Pipes, Told
<1> QED
    BY <1>1, <1>2, <1>3, <1>4, <1>5, <1>6, <1>7, FrameStep, TickStep DEF Next, System

\* The two ends of every link agree up to the frames on their way, and every
\* output queue serves exactly when it should, whatever the instance.
THEOREM PauseAgreementHolds == ASSUME PfcAssumption PROVE Spec => []PauseAgreement
<1>1. Init => IInv
    BY InitInv
<1>2. IInv /\ [Next]_vars => IInv'
    BY NextInv
<1>3. IInv => PauseAgreement
    BY DEF IInv
<1> QED
    BY <1>1, <1>2, <1>3, PTL DEF Spec

-----------------------------------------------------------------------------
(* What lists of packets count.                                            *)

\* Sizes of packets are natural numbers, and one of them is the largest.
LEMMA Packets ==
    ASSUME PfcAssumption
    PROVE  \A p \in Packet : /\ p.size \in Sizes /\ p.size \in Nat /\ p.from \in Ups /\ p.out \in Outs
                             /\ \A u \in Ups : Share(p, u) \in Nat /\ Share(p, u) <= p.size
<1>1. ASSUME NEW p \in Packet
      PROVE  p.size \in Sizes /\ p.size \in Nat /\ p.from \in Ups /\ p.out \in Outs
  <2>1. p.size \in Sizes /\ p.from \in Ups /\ p.out \in Outs
      BY DEF Packet
  <2> QED
      BY <2>1 DEF PfcAssumption
<1>2. ASSUME NEW p \in Packet, NEW u \in Ups
      PROVE  Share(p, u) \in Nat /\ Share(p, u) <= p.size
    BY <1>1 DEF Share
<1> QED
    BY <1>1, <1>2

\* The weights that Bytes adds.
Shares(q, u) == [i \in DOMAIN q |-> Share(q[i], u)]

LEMMA SharesOf ==
    ASSUME PfcAssumption, NEW q \in Seq(Packet), NEW u \in Ups
    PROVE  /\ DOMAIN q = 1 .. Len(q) /\ Len(q) \in Nat /\ IsFiniteSet(DOMAIN q)
           /\ Bytes(q, u) = SumFunctionOnSet(Shares(q, u), 1 .. Len(q))
           /\ Ints(Shares(q, u), DOMAIN q)
           /\ \A i \in DOMAIN q : q[i] \in Packet /\ Shares(q, u)[i] \in Nat
                                  /\ Shares(q, u)[i] = Share(q[i], u)
<1>1. DOMAIN q = 1 .. Len(q) /\ Len(q) \in Nat
    OBVIOUS
<1>2. IsFiniteSet(DOMAIN q)
    BY <1>1, FS_Interval
<1>3. DOMAIN Shares(q, u) = DOMAIN q
    BY DEF Shares
<1>4. Bytes(q, u) = SumFunctionOnSet(Shares(q, u), 1 .. Len(q))
    BY <1>1, <1>3 DEF Bytes, SumFunction, Shares
<1>5. \A i \in DOMAIN q : q[i] \in Packet
    OBVIOUS
<1>6. \A i \in DOMAIN q : Shares(q, u)[i] \in Nat /\ Shares(q, u)[i] = Share(q[i], u)
    BY <1>5, Packets DEF Shares
<1>7. Ints(Shares(q, u), DOMAIN q)
    BY <1>6 DEF Ints
<1> QED
    BY <1>1, <1>2, <1>4, <1>5, <1>6, <1>7

\* An empty list counts nothing, no list counts less.
LEMMA BytesNatural ==
    ASSUME PfcAssumption, NEW q \in Seq(Packet), NEW u \in Ups
    PROVE  Bytes(q, u) \in Nat /\ (q = <<>> => Bytes(q, u) = 0)
<1> DEFINE f == Shares(q, u)
           S == 1 .. Len(q)
<1>1. /\ IsFiniteSet(S) /\ Ints(f, S) /\ Bytes(q, u) = SumFunctionOnSet(f, S)
      /\ \A i \in S : f[i] \in Nat
    BY SharesOf
<1>2. q = <<>> => S = {}
    OBVIOUS
<1> HIDE DEF f, S
<1> QED
    BY <1>1, <1>2, SumNatural, SumType

\* A packet joins a list.
LEMMA BytesAppend ==
    ASSUME PfcAssumption, NEW q \in Seq(Packet), NEW u \in Ups, NEW pkt \in Packet
    PROVE  Bytes(Append(q, pkt), u) = Bytes(q, u) + Share(pkt, u)
<1> DEFINE new == Append(q, pkt)
           f == Shares(q, u)
           g == Shares(new, u)
           n == Len(q)
<1>1. new \in Seq(Packet) /\ Len(new) = n + 1 /\ n \in Nat /\ new[n + 1] = pkt
      /\ \A i \in 1 .. n : new[i] = q[i]
    OBVIOUS
<1>2. /\ Bytes(q, u) = SumFunctionOnSet(f, 1 .. n) /\ Ints(f, 1 .. n)
      /\ IsFiniteSet(1 .. n) /\ \A i \in 1 .. n : f[i] = Share(q[i], u)
    BY SharesOf
<1> HIDE DEF new
<1>3. /\ Bytes(new, u) = SumFunctionOnSet(g, 1 .. n + 1) /\ Ints(g, 1 .. n + 1)
      /\ \A i \in 1 .. n + 1 : g[i] = Share(new[i], u)
    BY <1>1, SharesOf
<1> HIDE DEF f, g, n
<1>4. SumFunctionOnSet(g, 1 .. n + 1) = SumFunctionOnSet(g, 1 .. n) + g[n + 1]
    BY <1>1, <1>3, SumLast
<1>5. \A i \in 1 .. n : f[i] = g[i]
    BY <1>1, <1>2, <1>3
<1>6. SumFunctionOnSet(f, 1 .. n) = SumFunctionOnSet(g, 1 .. n)
    BY <1>2, <1>5, SumSame
<1>7. g[n + 1] = Share(pkt, u)
    BY <1>1, <1>3
<1> QED
    BY <1>2, <1>3, <1>4, <1>6, <1>7 DEF new

\* The first packet leaves a list.
LEMMA BytesTail ==
    ASSUME PfcAssumption, NEW q \in Seq(Packet), NEW u \in Ups, q # <<>>
    PROVE  Bytes(q, u) = Share(Head(q), u) + Bytes(Tail(q), u)
<1> DEFINE new == Tail(q)
           f == Shares(q, u)
           g == Shares(new, u)
           n == Len(new)
<1>1. /\ new \in Seq(Packet) /\ Len(q) = n + 1 /\ n \in Nat /\ Head(q) = q[1]
      /\ \A i \in 1 .. n : new[i] = q[i + 1]
    OBVIOUS
<1>2. /\ Bytes(q, u) = SumFunctionOnSet(f, 1 .. Len(q)) /\ Ints(f, 1 .. Len(q))
      /\ \A i \in 1 .. Len(q) : f[i] = Share(q[i], u)
    BY SharesOf
<1> HIDE DEF new
<1>3. /\ Bytes(new, u) = SumFunctionOnSet(g, 1 .. n)
      /\ \A i \in 1 .. n : g[i] = Share(new[i], u)
    BY <1>1, SharesOf
<1> HIDE DEF f, g, n
<1>4. \A i \in 1 .. n : g[i] = f[i + 1]
    BY <1>1, <1>2, <1>3
<1>5. Ints(f, 1 .. n + 1)
    BY <1>1, <1>2
<1>6. SumFunctionOnSet(f, 1 .. n + 1) = f[1] + SumFunctionOnSet(g, 1 .. n)
    BY <1>1, <1>4, <1>5, SumFirst
<1>7. f[1] = Share(q[1], u)
    BY <1>1, <1>2
<1> QED
    BY <1>1, <1>2, <1>3, <1>6, <1>7 DEF new

-----------------------------------------------------------------------------
(* The packets of a pipe.                                                  *)

LEMMA ItemsOf ==
    ASSUME NEW line \in InTransit(Packet)
    PROVE  /\ Items(line) \in Seq(Packet) /\ Len(Items(line)) = Len(line)
           /\ \A i \in 1 .. Len(line) : Items(line)[i] = line[i].item
<1>1. /\ DOMAIN line = 1 .. Len(line) /\ Len(line) \in Nat
      /\ \A i \in DOMAIN line : line[i].item \in Packet
    BY LineItems
<1> QED
    BY <1>1 DEF Items

LEMMA ItemsEnter ==
    ASSUME NEW line \in InTransit(Packet), NEW pkt \in Packet, NEW delay \in Nat
    PROVE  Items(Enter(line, pkt, delay)) = Append(Items(line), pkt)
<1> DEFINE R == [item: Packet, left: Nat]
           e == [item |-> pkt, left |-> delay]
           new == Append(line, e)
<1>1. e \in R /\ line \in Seq(R) /\ e.item = pkt
    BY DEF InTransit
<1>2. Enter(line, pkt, delay) = new /\ InTransit(Packet) = Seq(R)
    BY DEF Enter, InTransit
<1> HIDE DEF e, R
<1>3. /\ new \in Seq(R) /\ Len(new) = Len(line) + 1 /\ Len(line) \in Nat
      /\ new[Len(line) + 1] = e /\ \A i \in 1 .. Len(line) : new[i] = line[i]
    BY <1>1
<1> HIDE DEF new
<1>4. /\ Items(line) \in Seq(Packet) /\ Len(Items(line)) = Len(line)
      /\ \A i \in 1 .. Len(line) : Items(line)[i] = line[i].item
    BY ItemsOf
<1>5. /\ Items(new) \in Seq(Packet) /\ Len(Items(new)) = Len(line) + 1
      /\ \A i \in 1 .. Len(line) + 1 : Items(new)[i] = new[i].item
    BY <1>2, <1>3, ItemsOf
<1> DEFINE s == Items(new)
           t == Append(Items(line), pkt)
<1>6. /\ t \in Seq(Packet) /\ Len(t) = Len(line) + 1 /\ t[Len(line) + 1] = pkt
      /\ \A i \in 1 .. Len(line) : t[i] = line[i].item
    BY <1>4
<1>7. s \in Seq(Packet) /\ Len(s) = Len(t)
    BY <1>5, <1>6
<1>8. \A i \in 1 .. Len(s) : s[i] = t[i]
    BY <1>1, <1>3, <1>5, <1>6
<1> HIDE DEF s, t
<1>9. s = t
    BY <1>6, <1>7, <1>8
<1> QED
    BY <1>2, <1>9 DEF s, t

LEMMA ItemsTail ==
    ASSUME NEW line \in InTransit(Packet), line # <<>>
    PROVE  /\ Items(line) # <<>> /\ Head(Items(line)) = Head(line).item
           /\ Tail(line) \in InTransit(Packet)
           /\ Items(Tail(line)) = Tail(Items(line))
<1> DEFINE R == [item: Packet, left: Nat]
           rest == Tail(line)
<1>1. line \in Seq(R) /\ InTransit(Packet) = Seq(R)
    BY DEF InTransit
<1> HIDE DEF R
<1>2. /\ rest \in Seq(R) /\ Len(rest) = Len(line) - 1 /\ Len(line) \in Nat /\ Len(line) > 0
      /\ Head(line) = line[1] /\ \A i \in 1 .. Len(line) - 1 : rest[i] = line[i + 1]
    BY <1>1
<1> HIDE DEF rest
<1>3. /\ Items(line) \in Seq(Packet) /\ Len(Items(line)) = Len(line)
      /\ \A i \in 1 .. Len(line) : Items(line)[i] = line[i].item
    BY ItemsOf
<1>4. /\ Items(rest) \in Seq(Packet) /\ Len(Items(rest)) = Len(line) - 1
      /\ \A i \in 1 .. Len(line) - 1 : Items(rest)[i] = rest[i].item
    BY <1>1, <1>2, ItemsOf
<1> DEFINE s == Items(rest)
           t == Tail(Items(line))
<1>5. Items(line) # <<>> /\ Head(Items(line)) = line[1].item
    BY <1>2, <1>3
<1>6. /\ t \in Seq(Packet) /\ Len(t) = Len(line) - 1
      /\ \A i \in 1 .. Len(line) - 1 : t[i] = Items(line)[i + 1]
    BY <1>2, <1>3, <1>5
<1>7. \A i \in 1 .. Len(line) - 1 : t[i] = line[i + 1].item
    BY <1>2, <1>3, <1>6
<1>8. s \in Seq(Packet) /\ Len(s) = Len(t) /\ \A i \in 1 .. Len(s) : s[i] = t[i]
    BY <1>2, <1>4, <1>6, <1>7
<1> HIDE DEF s, t
<1>9. s = t
    BY <1>6, <1>8
<1> QED
    BY <1>1, <1>2, <1>5, <1>9 DEF s, t, rest

LEMMA ItemsLater ==
    ASSUME NEW line \in InTransit(Packet)
    PROVE  Items(Later(line)) = Items(line)
<1>1. \A i \in DOMAIN line : line[i] \in [item: Packet, left: Nat]
    BY LineItems
<1>2. DOMAIN Later(line) = DOMAIN line
    BY DEF Later
<1>3. \A i \in DOMAIN line : Later(line)[i].item = line[i].item
    BY <1>1 DEF Later
<1> QED
    BY <1>2, <1>3 DEF Items

-----------------------------------------------------------------------------
(* What the handlers of an output queue do to its packets.                 *)

\* A service that has just begun.
Whole(p) == p.sending => p.left = Head(p.q).size

LEMMA BeginQueue ==
    ASSUME PfcAssumption, NEW p \in Port, p.q # <<>>
    PROVE  Begin(p).q = p.q /\ Begin(p).sending = TRUE /\ Begin(p).left = Head(p.q).size
BY DEF Begin, Port

LEMMA AppendKeepsHead ==
    ASSUME NEW S, NEW q \in Seq(S), NEW x \in S
    PROVE  /\ Append(q, x) \in Seq(S) /\ Append(q, x) # <<>>
           /\ q # <<>> => Head(Append(q, x)) = Head(q)
<1>1. /\ Append(q, x) \in Seq(S) /\ Len(Append(q, x)) = Len(q) + 1 /\ Len(q) \in Nat
      /\ \A i \in 1 .. Len(q) : Append(q, x)[i] = q[i]
    OBVIOUS
<1>2. Append(q, x) # <<>> /\ Head(Append(q, x)) = Append(q, x)[1]
    BY <1>1
<1>3. q # <<>> => Head(q) = q[1] /\ 1 \in 1 .. Len(q)
    OBVIOUS
<1> QED
    BY <1>1, <1>2, <1>3

LEMMA DataQueue ==
    ASSUME PfcAssumption, NEW p \in Port, PortConsistent(p), NEW pkt \in Packet
    PROVE  /\ ReceiveData(p, pkt).q = Append(p.q, pkt)
           /\ p.sending => /\ ReceiveData(p, pkt).sending
                           /\ ReceiveData(p, pkt).left = p.left
                           /\ p.q # <<>> /\ Head(ReceiveData(p, pkt).q) = Head(p.q)
           /\ ~p.sending => Whole(ReceiveData(p, pkt))
           /\ p.state # "READY" /\ ~p.sending => ~ReceiveData(p, pkt).sending
<1> DEFINE a == [p EXCEPT !.q = Append(@, pkt)]
<1>1. /\ p.state \in {"READY", "PAUSED", "PAUSE_RECEIVED"} /\ p.sending \in BOOLEAN
      /\ p.q \in Seq(Packet)
    BY DEF Port
<1>2. Append(p.q, pkt) \in Seq(Packet) /\ Append(p.q, pkt) # <<>>
      /\ (p.q # <<>> => Head(Append(p.q, pkt)) = Head(p.q))
    BY <1>1, AppendKeepsHead
<1>3. /\ a \in Port /\ a.q = Append(p.q, pkt) /\ a.state = p.state
      /\ a.sending = p.sending /\ a.left = p.left
    BY <1>2 DEF Port
<1>4. ReceiveData(p, pkt) = IF p.q = <<>> /\ p.state = "READY" THEN Begin(a) ELSE a
    BY DEF ReceiveData
<1> HIDE DEF a
<1>5. CASE p.q = <<>> /\ p.state = "READY"
  <2>1. Begin(a).q = a.q /\ Begin(a).sending = TRUE /\ Begin(a).left = Head(a.q).size
      BY <1>2, <1>3, BeginQueue
  <2>2. ~p.sending
      BY <1>1, <1>5 DEF PortConsistent
  <2> QED
      BY <1>3, <1>4, <1>5, <2>1, <2>2 DEF Whole
<1>6. CASE ~(p.q = <<>> /\ p.state = "READY")
  <2>1. p.sending => p.q # <<>>
      BY <1>1 DEF PortConsistent
  <2> QED
      BY <1>1, <1>2, <1>3, <1>4, <1>6, <2>1 DEF Whole
<1> QED
    BY <1>5, <1>6

LEMMA CompleteQueue ==
    ASSUME PfcAssumption, NEW p \in Port, PortConsistent(p), p.sending
    PROVE  /\ p.q # <<>> /\ CompleteService(p).q = Tail(p.q) /\ Whole(CompleteService(p))
           /\ p.state # "READY" => ~CompleteService(p).sending
<1> DEFINE a == [p EXCEPT !.q = Tail(@), !.sending = FALSE, !.left = 0,
                          !.state = IF @ = "PAUSE_RECEIVED" THEN "PAUSED" ELSE @]
<1>1. /\ p.state \in {"READY", "PAUSED", "PAUSE_RECEIVED"} /\ p.sending \in BOOLEAN
      /\ p.q \in Seq(Packet)
    BY DEF Port
<1>2. p.q # <<>> /\ p.state # "PAUSED"
    BY <1>1 DEF PortConsistent
<1>3. Tail(p.q) \in Seq(Packet)
    BY <1>1, <1>2
<1>4. /\ a \in Port /\ a.q = Tail(p.q) /\ a.sending = FALSE
      /\ a.state = IF p.state = "READY" THEN "READY" ELSE "PAUSED"
    BY <1>1, <1>2, <1>3 DEF Port
<1>5. CompleteService(p) = IF a.q # <<>> /\ a.state = "READY" THEN Begin(a) ELSE a
    BY DEF CompleteService
<1> HIDE DEF a
<1>6. CASE a.q # <<>> /\ a.state = "READY"
  <2>1. Begin(a).q = a.q /\ Begin(a).sending = TRUE /\ Begin(a).left = Head(a.q).size
      BY <1>4, <1>6, BeginQueue
  <2> QED
      BY <1>2, <1>4, <1>5, <1>6, <2>1 DEF Whole
<1>7. CASE ~(a.q # <<>> /\ a.state = "READY")
    BY <1>2, <1>4, <1>5, <1>7 DEF Whole
<1> QED
    BY <1>6, <1>7

LEMMA FrameQueue ==
    ASSUME PfcAssumption, NEW p \in Port, PortConsistent(p), NEW pause \in BOOLEAN
    PROVE  /\ ReceiveFrame(p, pause).q = p.q
           /\ p.sending => /\ ReceiveFrame(p, pause).sending
                           /\ ReceiveFrame(p, pause).left = p.left
           /\ ~p.sending => Whole(ReceiveFrame(p, pause))
           /\ ~p.sending /\ pause => ~ReceiveFrame(p, pause).sending
<1>0. p.sending \in BOOLEAN /\ p.q \in Seq(Packet)
    BY DEF Port
<1>1. CASE pause
    BY <1>0, <1>1 DEF ReceiveFrame, Pause, Port, Whole
<1>2. CASE ~pause
  <2> DEFINE a == [p EXCEPT !.state = "READY"]
  <2>1. a \in Port /\ a.q = p.q /\ a.sending = p.sending /\ a.left = p.left
      BY DEF Port
  <2>2. ReceiveFrame(p, pause) = IF a.q # <<>> /\ ~a.sending THEN Begin(a) ELSE a
      BY <1>2 DEF ReceiveFrame, GoOn
  <2> HIDE DEF a
  <2>3. CASE a.q # <<>> /\ ~a.sending
    <3>1. Begin(a).q = a.q /\ Begin(a).sending = TRUE /\ Begin(a).left = Head(a.q).size
        BY <2>1, <2>3, BeginQueue
    <3> QED
        BY <1>2, <2>1, <2>2, <2>3, <3>1 DEF Whole
  <2>4. CASE ~(a.q # <<>> /\ ~a.sending)
      BY <1>0, <1>2, <2>1, <2>2, <2>4 DEF Whole
  <2> QED
      BY <2>3, <2>4
<1> QED
    BY <1>1, <1>2

-----------------------------------------------------------------------------
(* The input queues count exactly.                                         *)

\* What input queue u has in the output queues of the switch.
InOutputs(u) == SumFunction([o \in Outs |-> Bytes(port[o].q, u)])

Exact == \A u \in Ups : input[u].size = Bytes(Items(fabric), u) + InOutputs(u)

Decided ==
    \A u \in Ups : /\ input[u].paused => input[u].size >= Low
                   /\ input[u].size > High => input[u].paused

LEMMA InputExactParts == InputExact <=> Exact /\ Decided
BY DEF InputExact, Exact, Decided, InOutputs

\* One output queue changes what it holds.
LEMMA OutputsStep ==
    ASSUME PfcAssumption, port \in [Ups \cup Outs -> Port], NEW o \in Outs, NEW a \in Port,
           port' = [port EXCEPT ![o] = a], NEW u \in Ups, NEW d \in Int,
           Bytes(a.q, u) = Bytes(port[o].q, u) + d
    PROVE  InOutputs(u)' = InOutputs(u) + d
<1> DEFINE f == [r \in Outs |-> Bytes(port[r].q, u)]
           g == [r \in Outs |-> Bytes(port'[r].q, u)]
<1>1. \A r \in Outs : port'[r] = IF r = o THEN a ELSE port[r]
    OBVIOUS
<1>2. \A r \in Outs : port[r].q \in Seq(Packet) /\ port'[r].q \in Seq(Packet)
    BY <1>1 DEF Port
<1>3. Ints(f, Outs) /\ Ints(g, Outs)
    BY <1>2, BytesNatural DEF Ints
<1>4. Agree(f, g, Outs \ {o}) /\ IsFiniteSet(Outs)
    BY <1>1 DEF Agree, PfcAssumption
<1>5. f[o] = Bytes(port[o].q, u) /\ g[o] = Bytes(a.q, u)
    BY <1>1
<1>6. InOutputs(u) = SumFunctionOnSet(f, Outs) /\ InOutputs(u)' = SumFunctionOnSet(g, Outs)
    BY DEF InOutputs, SumFunction
<1>7. f[o] \in Int
    BY <1>3 DEF Ints
<1> HIDE DEF f, g
<1>8. SumFunctionOnSet(g, Outs) = SumFunctionOnSet(f, Outs) - f[o] + g[o]
    BY <1>3, <1>4, SumChange
<1>9. SumFunctionOnSet(f, Outs) \in Int
    BY <1>3, <1>4, SumType
<1> QED
    BY <1>5, <1>6, <1>7, <1>8, <1>9

LEMMA OutputsType ==
    ASSUME PfcAssumption, port \in [Ups \cup Outs -> Port], NEW u \in Ups
    PROVE  InOutputs(u) \in Int
<1> DEFINE f == [r \in Outs |-> Bytes(port[r].q, u)]
<1>1. \A r \in Outs : port[r].q \in Seq(Packet)
    BY DEF Port
<1>2. Ints(f, Outs) /\ IsFiniteSet(Outs)
    BY <1>1, BytesNatural DEF Ints, PfcAssumption
<1>3. InOutputs(u) = SumFunctionOnSet(f, Outs)
    BY DEF InOutputs, SumFunction
<1> HIDE DEF f
<1> QED
    BY <1>2, <1>3, SumType

\* The output queues of the switch keep what they hold.
LEMMA OutputsStay ==
    ASSUME \A o \in Outs : port'[o].q = port[o].q, NEW u \in Ups
    PROVE  InOutputs(u)' = InOutputs(u)
<1>1. [o \in Outs |-> Bytes(port'[o].q, u)] = [o \in Outs |-> Bytes(port[o].q, u)]
    OBVIOUS
<1> QED
    BY <1>1 DEF InOutputs

\* The thresholds leave every input queue decided.
LEMMA DecidedStep ==
    ASSUME PfcAssumption, IInv, Decided, NEW v \in Ups, NEW size \in Int, SetSize(v, size)
    PROVE  /\ Decided'
           /\ \A u \in Ups : input'[u].size = IF u = v THEN size ELSE input[u].size
           /\ \A u \in Ups \ {v} : input'[u] = input[u]
<1> DEFINE in == input[v]
           pause == CrossesHigh(in, size)
           resume == FallsBelowLow(in, size)
           new == [size |-> size, paused |-> (in.paused \/ pause) /\ ~resume]
<1>1. input \in [Ups -> [size: Int, paused: BOOLEAN]] /\ in.paused \in BOOLEAN
    BY InvParts DEF TypeOK
<1>2. input' = [input EXCEPT ![v] = new]
    BY DEF SetSize
<1>3. new.size = size /\ (new.paused <=> (in.paused \/ pause) /\ ~resume)
    OBVIOUS
<1>4. (pause <=> size > High /\ ~in.paused) /\ (resume <=> size < Low /\ in.paused)
    BY DEF CrossesHigh, FallsBelowLow
<1>5. Low \in Nat /\ High \in Nat /\ Low < High
    BY DEF PfcAssumption
<1> HIDE DEF in, pause, resume, new
<1>6. \A u \in Ups : input'[u] = IF u = v THEN new ELSE input[u]
    BY <1>1, <1>2
<1>7. (new.paused => new.size >= Low) /\ (new.size > High => new.paused)
    BY <1>1, <1>3, <1>4, <1>5
<1> QED
    BY <1>3, <1>6, <1>7 DEF Decided

\* The packets of a link are accounted to its own input queue.
From(q, u) == \A i \in DOMAIN q : q[i].from = u

Owned == \A u \in Ups : From(port[u].q, u) /\ From(Items(wire[u]), u)

LEMMA FromLists ==
    ASSUME NEW q \in Seq(Packet), NEW u, From(q, u)
    PROVE  /\ \A pkt \in Packet : pkt.from = u => From(Append(q, pkt), u)
           /\ q # <<>> => From(Tail(q), u) /\ Head(q).from = u
<1>1. ASSUME NEW pkt \in Packet, pkt.from = u PROVE From(Append(q, pkt), u)
  <2>1. /\ DOMAIN Append(q, pkt) = 1 .. Len(q) + 1 /\ Append(q, pkt)[Len(q) + 1] = pkt
        /\ \A i \in 1 .. Len(q) : Append(q, pkt)[i] = q[i]
        /\ DOMAIN q = 1 .. Len(q) /\ Len(q) \in Nat
      OBVIOUS
  <2> QED
      BY <1>1, <2>1 DEF From
<1>2. ASSUME q # <<>> PROVE From(Tail(q), u) /\ Head(q).from = u
  <2>1. /\ DOMAIN Tail(q) = 1 .. Len(q) - 1 /\ Len(q) \in Nat /\ Len(q) > 0
        /\ \A i \in 1 .. Len(q) - 1 : Tail(q)[i] = q[i + 1]
        /\ DOMAIN q = 1 .. Len(q) /\ Head(q) = q[1]
      BY <1>2
  <2> QED
      BY <2>1 DEF From
<1> QED
    BY <1>1, <1>2

Counts == Owned /\ Exact /\ Decided

\* The types the steps need, from the invariant.
LEMMA Types ==
    ASSUME PfcAssumption, IInv
    PROVE  /\ port \in [Ups \cup Outs -> Port] /\ wire \in [Ups -> InTransit(Packet)]
           /\ input \in [Ups -> [size: Int, paused: BOOLEAN]]
           /\ back \in [Ups -> InTransit(BOOLEAN)] /\ fabric \in InTransit(Packet)
           /\ \A p \in Ups \cup Outs : /\ port[p] \in Port /\ PortConsistent(port[p])
                                       /\ port[p].q \in Seq(Packet)
           /\ \A u \in Ups : input[u].size \in Int /\ wire[u] \in InTransit(Packet)
                             /\ Items(wire[u]) \in Seq(Packet)
           /\ Items(fabric) \in Seq(Packet)
           /\ Latency \in Nat /\ SwitchDelay \in Nat
<1>1. /\ port \in [Ups \cup Outs -> Port] /\ wire \in [Ups -> InTransit(Packet)]
      /\ input \in [Ups -> [size: Int, paused: BOOLEAN]]
      /\ back \in [Ups -> InTransit(BOOLEAN)] /\ fabric \in InTransit(Packet)
      /\ \A p \in Ups \cup Outs : port[p] \in Port /\ PortConsistent(port[p])
      /\ Latency \in Nat /\ SwitchDelay \in Nat
    BY InvParts DEF TypeOK, PortsOK, PfcAssumption
<1>2. \A p \in Ups \cup Outs : port[p].q \in Seq(Packet)
    BY <1>1 DEF Port
<1>3. \A u \in Ups : input[u].size \in Int /\ wire[u] \in InTransit(Packet)
    BY <1>1
<1>4. \A u \in Ups : Items(wire[u]) \in Seq(Packet)
    BY <1>3, ItemsOf
<1>5. Items(fabric) \in Seq(Packet)
    BY <1>1, ItemsOf
<1> QED
    BY <1>1, <1>2, <1>3, <1>4, <1>5

\* Only the queue of one link changes, and the pipes hold what they held.
LEMMA CountsStay ==
    ASSUME PfcAssumption, IInv, Counts, NEW v \in Ups, NEW a \in Port, From(a.q, v),
           port' = [port EXCEPT ![v] = a], UNCHANGED input,
           \A u \in Ups : Items(wire'[u]) = Items(wire[u]), Items(fabric') = Items(fabric)
    PROVE  Counts'
<1>1. \A q \in Ups \cup Outs : port'[q] = IF q = v THEN a ELSE port[q]
    BY Types
<1>2. \A o \in Outs : port'[o] = port[o]
    BY <1>1 DEF PfcAssumption
<1>3. \A u \in Ups : InOutputs(u)' = InOutputs(u)
    BY <1>2, OutputsStay
<1>4. Owned'
    BY <1>1 DEF Counts, Owned
<1> QED
    BY <1>3, <1>4 DEF Counts, Exact, Decided

LEMMA InitCounts == PfcAssumption /\ Init => Counts
<1> SUFFICES ASSUME PfcAssumption, Init PROVE Counts
    OBVIOUS
<1>1. IInv
    BY InitInv
<1>2. Items(fabric) = <<>> /\ \A u \in Ups : Items(wire[u]) = <<>>
    BY DEF Init, Items
<1>3. \A p \in Ups \cup Outs : port[p].q = <<>>
    BY DEF Init
<1>4. \A u \in Ups : InOutputs(u) = 0
  <2> SUFFICES ASSUME NEW u \in Ups PROVE InOutputs(u) = 0
      OBVIOUS
  <2> DEFINE f == [o \in Outs |-> Bytes(port[o].q, u)]
             S == Outs
  <2>1. \A o \in Outs : f[o] = 0
      BY <1>1, <1>3, Types, BytesNatural
  <2>2. IsFiniteSet(S)
      BY DEF PfcAssumption
  <2>3. InOutputs(u) = SumFunctionOnSet(f, S)
      BY DEF InOutputs, SumFunction
  <2>4. \A o \in S : f[o] = 0
      BY <2>1
  <2> HIDE DEF f, S
  <2>5. SumFunctionOnSet(f, S) = 0
      BY <2>2, <2>4, SumZero
  <2> QED
      BY <2>3, <2>5
<1>5. \A u \in Ups : Bytes(Items(fabric), u) = 0
    BY <1>1, <1>2, Types, BytesNatural
<1>6. \A u \in Ups : input[u].size = 0 /\ input[u].paused = FALSE
    BY DEF Init
<1>7. Exact /\ Decided
    BY <1>4, <1>5, <1>6 DEF Exact, Decided, PfcAssumption
<1>8. Owned
    BY <1>2, <1>3 DEF Owned, From
<1> QED
    BY <1>7, <1>8 DEF Counts

\* Every step keeps the counts.
LEMMA NextCounts == PfcAssumption /\ IInv /\ Counts /\ [Next]_vars => Counts'
<1> SUFFICES ASSUME PfcAssumption, IInv, Counts, [Next]_vars PROVE Counts'
    OBVIOUS
<1>1. ASSUME NEW u \in Ups, UpstreamSends(u) PROVE Counts'
  <2> DEFINE pkt == Head(port[u].q)
             a == CompleteService(port[u])
  <2>1. /\ port[u].sending /\ port' = [port EXCEPT ![u] = a]
        /\ wire' = [wire EXCEPT ![u] = Enter(@, pkt, Latency)]
        /\ UNCHANGED <<scene, input, back, fabric>>
      BY <1>1 DEF UpstreamSends, Sent
  <2>2. pkt \in Packet /\ a.q = Tail(port[u].q) /\ port[u].q # <<>> /\ port[u].q \in Seq(Packet)
      BY <2>1, Types, CompletePort, CompleteQueue
  <2>3. From(Tail(port[u].q), u) /\ pkt.from = u
      BY <2>2, FromLists DEF Counts, Owned
  <2> HIDE DEF a, pkt
  <2>4. \A q \in Ups \cup Outs : port'[q] = IF q = u THEN a ELSE port[q]
      BY <2>1, Types
  <2>5. \A o \in Outs : port'[o] = port[o]
      BY <2>4 DEF PfcAssumption
  <2>6. \A v \in Ups : InOutputs(v)' = InOutputs(v)
      BY <2>5, OutputsStay
  <2>7. \A v \in Ups : wire'[v] = IF v = u THEN Enter(wire[u], pkt, Latency) ELSE wire[v]
      BY <2>1, Types
  <2>8. Items(Enter(wire[u], pkt, Latency)) = Append(Items(wire[u]), pkt)
      BY <2>2, Types, ItemsEnter
  <2>9. From(Append(Items(wire[u]), pkt), u)
      BY <2>2, <2>3, Types, FromLists DEF Counts, Owned
  <2>10. Owned'
      BY <2>2, <2>3, <2>4, <2>7, <2>8, <2>9 DEF Counts, Owned
  <2>11. Exact' /\ Decided'
      BY <2>1, <2>6 DEF Counts, Exact, Decided
  <2> QED
      BY <2>10, <2>11 DEF Counts
<1>2. ASSUME NEW u \in Ups, Arrives(u) PROVE Counts'
  <2> DEFINE line == wire[u]
             pkt == Head(line).item
             size == input[u].size + pkt.size
  <2>1. /\ line # <<>> /\ SetSize(u, size) /\ fabric' = Enter(fabric, pkt, SwitchDelay)
        /\ wire' = [wire EXCEPT ![u] = Tail(line)] /\ UNCHANGED <<scene, port>>
      BY <1>2 DEF Arrives, Due
  <2>2. /\ Items(line) # <<>> /\ Head(Items(line)) = pkt
        /\ Items(Tail(line)) = Tail(Items(line)) /\ Items(line) \in Seq(Packet)
      BY <2>1, Types, ItemsTail
  <2>3. pkt \in Packet
      BY <2>2
  <2>4. From(Tail(Items(line)), u) /\ pkt.from = u
      BY <2>2, FromLists DEF Counts, Owned
  <2>5. size \in Int /\ pkt.size \in Nat /\ input[u].size \in Int
      BY <2>3, Types, Packets
  <2> HIDE DEF pkt, size
  <2>6. Decided' /\ \A v \in Ups : input'[v].size = IF v = u THEN size ELSE input[v].size
      BY <2>1, <2>5, DecidedStep DEF Counts
  <2>7. Items(fabric') = Append(Items(fabric), pkt)
      BY <2>1, <2>3, Types, ItemsEnter
  <2>8. \A v \in Ups : Bytes(Items(fabric'), v) = Bytes(Items(fabric), v) + Share(pkt, v)
      BY <2>3, <2>7, Types, BytesAppend
  <2>9. \A v \in Ups : InOutputs(v)' = InOutputs(v)
      BY <2>1, OutputsStay
  <2>10. \A v \in Ups : Share(pkt, v) = IF v = u THEN pkt.size ELSE 0
      BY <2>4 DEF Share
  <2>11. \A v \in Ups : Bytes(Items(fabric), v) \in Nat
      BY Types, BytesNatural
  <2>12. Exact'
    <3>1. ASSUME NEW v \in Ups PROVE (input'[v].size = Bytes(Items(fabric'), v) + InOutputs(v)')
      <4>1. input[v].size = Bytes(Items(fabric), v) + InOutputs(v) /\ input[v].size \in Int
          BY Types DEF Counts, Exact
      <4>2. InOutputs(v) \in Int
          BY Types, OutputsType
      <4>3. CASE v = u
          BY <2>5, <2>6, <2>8, <2>9, <2>10, <2>11, <4>1, <4>2, <4>3 DEF size
      <4>4. CASE v # u
          BY <2>6, <2>8, <2>9, <2>10, <2>11, <4>1, <4>2, <4>4
      <4> QED
          BY <4>3, <4>4
    <3> QED
        BY <3>1 DEF Exact
  <2>13. Owned'
    <3>1. \A v \in Ups : wire'[v] = IF v = u THEN Tail(line) ELSE wire[v]
        BY <2>1, Types
    <3> QED
        BY <2>1, <2>2, <2>4, <3>1 DEF Counts, Owned
  <2> QED
      BY <2>6, <2>12, <2>13 DEF Counts
<1>3. CASE Switches
  <2> DEFINE pkt == Head(fabric).item
             a == ReceiveData(port[pkt.out], pkt)
  <2>1. /\ fabric # <<>> /\ port' = [port EXCEPT ![pkt.out] = a] /\ fabric' = Tail(fabric)
        /\ UNCHANGED <<scene, input, wire, back>>
      BY <1>3 DEF Switches, Due
  <2>2. /\ Items(fabric) # <<>> /\ Head(Items(fabric)) = pkt
        /\ Items(Tail(fabric)) = Tail(Items(fabric)) /\ Items(fabric) \in Seq(Packet)
      BY <2>1, Types, ItemsTail
  <2>3. pkt \in Packet
      BY <2>2
  <2>4. pkt.out \in Outs /\ pkt.out \in Ups \cup Outs
      BY <2>3, Packets
  <2>5. a \in Port /\ a.q = Append(port[pkt.out].q, pkt) /\ port[pkt.out].q \in Seq(Packet)
      BY <2>3, <2>4, Types, DataPort, DataQueue
  <2> DEFINE o == pkt.out
  <2>6. /\ o \in Outs /\ port' = [port EXCEPT ![o] = a]
        /\ a.q = Append(port[o].q, pkt) /\ port[o].q \in Seq(Packet)
      BY <2>1, <2>4, <2>5
  <2> HIDE DEF a, pkt, o
  <2>7. \A v \in Ups : InOutputs(v)' = InOutputs(v) + Share(pkt, v)
    <3> SUFFICES ASSUME NEW v \in Ups PROVE InOutputs(v)' = InOutputs(v) + Share(pkt, v)
        OBVIOUS
    <3>1. Bytes(a.q, v) = Bytes(port[o].q, v) + Share(pkt, v)
        BY <2>3, <2>6, BytesAppend
    <3>2. Share(pkt, v) \in Int
        BY <2>3, Packets
    <3>3. a \in Port /\ port \in [Ups \cup Outs -> Port]
      <4>1. port \in [Ups \cup Outs -> Port]
          BY Types
      <4> QED
          BY <2>5, <4>1
    <3>4. o \in Outs /\ port' = [port EXCEPT ![o] = a]
        BY <2>6
    <3> DEFINE d == Share(pkt, v)
    <3>5. d \in Int /\ Bytes(a.q, v) = Bytes(port[o].q, v) + d
        BY <3>1, <3>2
    <3> HIDE DEF d
    <3>6. InOutputs(v)' = InOutputs(v) + d
        BY <3>3, <3>4, <3>5, OutputsStep, ZenonT(40)
    <3> QED
        BY <3>6 DEF d
  <2>8. \A v \in Ups : Bytes(Items(fabric), v) = Share(pkt, v) + Bytes(Items(fabric'), v)
      BY <2>1, <2>2, BytesTail
  <2>9. \A v \in Ups : Bytes(Items(fabric'), v) \in Nat
    <3>1. Items(fabric') \in Seq(Packet)
        BY <2>1, <2>2
    <3> QED
        BY <3>1, BytesNatural
  <2>10. Exact'
    <3>1. ASSUME NEW v \in Ups PROVE input'[v].size = Bytes(Items(fabric'), v) + InOutputs(v)'
      <4>1. input[v].size = Bytes(Items(fabric), v) + InOutputs(v) /\ InOutputs(v) \in Int
          BY Types, OutputsType DEF Counts, Exact
      <4>2. Share(pkt, v) \in Nat
          BY <2>3, Packets
      <4>3. input'[v] = input[v]
          BY <2>1
      <4> QED
          BY <2>7, <2>8, <2>9, <4>1, <4>2, <4>3
    <3> QED
        BY <3>1 DEF Exact
  <2>11. Owned'
    <3>1. \A u \in Ups : port'[u] = port[u]
        BY <2>6, Types DEF PfcAssumption
    <3> QED
        BY <2>1, <3>1 DEF Counts, Owned
  <2>12. Decided'
      BY <2>1 DEF Counts, Decided
  <2> QED
      BY <2>10, <2>11, <2>12 DEF Counts
<1>4. ASSUME NEW o \in Outs, SwitchSends(o) PROVE Counts'
  <2> DEFINE pkt == Head(port[o].q)
             a == CompleteService(port[o])
             u == pkt.from
             size == input[u].size - pkt.size
  <2>1. /\ port[o].sending /\ port' = [port EXCEPT ![o] = a] /\ SetSize(u, size)
        /\ UNCHANGED <<scene, wire, fabric>>
      BY <1>4 DEF SwitchSends, Sent
  <2>2. /\ pkt \in Packet /\ a \in Port /\ a.q = Tail(port[o].q) /\ port[o].q # <<>>
        /\ port[o].q \in Seq(Packet)
      BY <2>1, Types, CompletePort, CompleteQueue
  <2>3. u \in Ups /\ pkt.size \in Nat
      BY <2>2, Packets
  <2>4. size \in Int /\ input[u].size \in Int
      BY <2>3, Types
  <2>5. \A v \in Ups : Share(pkt, v) = IF v = u THEN pkt.size ELSE 0
      BY DEF Share
  <2>6. \A v \in Ups : Bytes(port[o].q, v) = Share(pkt, v) + Bytes(a.q, v) /\ Bytes(a.q, v) \in Nat
                       /\ Share(pkt, v) \in Nat
    <3>1. a.q \in Seq(Packet)
        BY <2>2
    <3>2. \A v \in Ups : Bytes(port[o].q, v) = Share(pkt, v) + Bytes(Tail(port[o].q), v)
        BY <2>2, BytesTail
    <3> QED
        BY <2>2, <3>1, <3>2, BytesNatural, Packets
  <2> HIDE DEF pkt, a, u, size
  <2>7. Decided' /\ \A v \in Ups : input'[v].size = IF v = u THEN size ELSE input[v].size
      BY <2>1, <2>3, <2>4, DecidedStep DEF Counts
  <2>8. \A v \in Ups : InOutputs(v)' = InOutputs(v) - Share(pkt, v)
    <3> SUFFICES ASSUME NEW v \in Ups PROVE InOutputs(v)' = InOutputs(v) - Share(pkt, v)
        OBVIOUS
    <3> DEFINE d == 0 - Share(pkt, v)
    <3>1. d \in Int /\ Bytes(a.q, v) = Bytes(port[o].q, v) + d
        BY <2>6
    <3> HIDE DEF d
    <3>4. a \in Port /\ port \in [Ups \cup Outs -> Port]
        BY <2>2, Types
    <3>2. InOutputs(v)' = InOutputs(v) + d
        BY <2>1, <3>1, <3>4, OutputsStep, ZenonT(40)
    <3>3. InOutputs(v) \in Int /\ Share(pkt, v) \in Nat
        BY <2>6, Types, OutputsType
    <3> QED
        BY <3>2, <3>3 DEF d
  <2>9. Exact'
    <3>1. ASSUME NEW v \in Ups PROVE input'[v].size = Bytes(Items(fabric'), v) + InOutputs(v)'
      <4>1. /\ input[v].size = Bytes(Items(fabric), v) + InOutputs(v) /\ InOutputs(v) \in Int
            /\ Bytes(Items(fabric), v) \in Nat /\ input[v].size \in Int
          BY Types, OutputsType, BytesNatural DEF Counts, Exact
      <4>2. fabric' = fabric
          BY <2>1
      <4>3. CASE v = u
          BY <2>3, <2>5, <2>7, <2>8, <4>1, <4>2, <4>3 DEF size
      <4>4. CASE v # u
          BY <2>5, <2>7, <2>8, <4>1, <4>2, <4>4
      <4> QED
          BY <4>3, <4>4
    <3> QED
        BY <3>1 DEF Exact
  <2>10. Owned'
    <3>1. \A v \in Ups : port'[v] = port[v]
        BY <2>1, Types DEF PfcAssumption
    <3> QED
        BY <2>1, <3>1 DEF Counts, Owned
  <2> QED
      BY <2>7, <2>9, <2>10 DEF Counts
<1>5. ASSUME NEW u \in Ups, Inject(u) PROVE Counts'
  <2>1. PICK o \in Outs, s \in Sizes :
            port' = [port EXCEPT ![u] = ReceiveData(@, [from |-> u, out |-> o, size |-> s])]
      BY <1>5 DEF Inject
  <2> DEFINE pkt == [from |-> u, out |-> o, size |-> s]
             a == ReceiveData(port[u], pkt)
  <2>2. pkt \in Packet /\ pkt.from = u
      BY DEF Packet
  <2> HIDE DEF pkt
  <2>3. a \in Port /\ a.q = Append(port[u].q, pkt)
      BY <2>2, Types, DataPort, DataQueue
  <2>4. From(a.q, u)
      BY <2>2, <2>3, Types, FromLists DEF Counts, Owned
  <2>5. port' = [port EXCEPT ![u] = a] /\ UNCHANGED <<scene, input, wire, back, fabric>>
      BY <1>5, <2>1 DEF Inject, pkt
  <2> HIDE DEF a
  <2> QED
      BY <2>3, <2>4, <2>5, CountsStay
<1>6. ASSUME NEW u \in Ups, FrameArrives(u) PROVE Counts'
  <2> DEFINE f == Head(back[u]).item
             a == ReceiveFrame(port[u], f)
  <2>1. /\ port' = [port EXCEPT ![u] = a] /\ UNCHANGED <<scene, input, wire, fabric>>
        /\ back[u] # <<>> /\ back[u] \in InTransit(BOOLEAN)
      BY <1>6, Types DEF FrameArrives, Due
  <2>2. f \in BOOLEAN
      BY <2>1, LineItems
  <2> HIDE DEF f
  <2>3. a \in Port /\ a.q = port[u].q
      BY <2>2, Types, FramePort, FrameQueue
  <2>4. From(a.q, u)
      BY <2>3 DEF Counts, Owned
  <2> HIDE DEF a
  <2> QED
      BY <2>1, <2>3, <2>4, CountsStay
<1>7. ASSUME NEW o \in Outs, DownstreamPauses(o) \/ DownstreamResumes(o) PROVE Counts'
  <2>1. PICK f \in BOOLEAN : port' = [port EXCEPT ![o] = ReceiveFrame(@, f)]
      BY <1>7 DEF DownstreamPauses, DownstreamResumes
  <2> DEFINE a == ReceiveFrame(port[o], f)
  <2>2. a \in Port /\ a.q = port[o].q
      BY Types, FramePort, FrameQueue
  <2>3. port' = [port EXCEPT ![o] = a] /\ UNCHANGED <<scene, input, wire, back, fabric>>
      BY <1>7, <2>1 DEF DownstreamPauses, DownstreamResumes
  <2> HIDE DEF a
  <2>4. \A q \in Ups \cup Outs : port'[q].q = port[q].q
      BY <2>2, <2>3, Types
  <2>5. \A v \in Ups : InOutputs(v)' = InOutputs(v)
      BY <2>4, OutputsStay
  <2> QED
      BY <2>3, <2>4, <2>5 DEF Counts, Owned, Exact, Decided
<1>8. CASE Tick
  <2>1. /\ fabric' = Later(fabric) /\ UNCHANGED <<scene, input>>
        /\ \A u \in Ups : wire'[u] = Later(wire[u])
        /\ \A p \in Ups \cup Outs :
              port'[p] = [port[p] EXCEPT !.left = IF port[p].sending THEN @ - 1 ELSE @]
      BY <1>8 DEF Tick
  <2>2. ASSUME NEW p \in Ups \cup Outs PROVE port'[p].q = port[p].q
    <3>1. port[p] \in Port /\ port'[p] = [port[p] EXCEPT !.left = IF port[p].sending THEN @ - 1 ELSE @]
        BY <2>1, Types
    <3> QED
        BY <3>1 DEF Port
  <2>3. Items(fabric') = Items(fabric) /\ \A u \in Ups : Items(wire'[u]) = Items(wire[u])
      BY <2>1, Types, ItemsLater
  <2>4. \A v \in Ups : InOutputs(v)' = InOutputs(v)
      BY <2>2, OutputsStay
  <2> QED
      BY <2>1, <2>2, <2>3, <2>4 DEF Counts, Owned, Exact, Decided
<1>9. CASE UNCHANGED vars
  <2>1. UNCHANGED <<scene, port, input, wire, back, fabric>>
      BY <1>9 DEF vars
  <2>2. \A v \in Ups : InOutputs(v)' = InOutputs(v)
      BY <2>1, OutputsStay
  <2> QED
      BY <2>1, <2>2 DEF Counts, Owned, Exact, Decided
<1> QED
    BY <1>1, <1>2, <1>3, <1>4, <1>5, <1>6, <1>7, <1>8, <1>9 DEF Next, System

\* Each input queue's count is the data of its packets inside the switch, and
\* its thresholds are kept, whatever the instance.
THEOREM InputsCountExactly == ASSUME PfcAssumption PROVE Spec => []InputExact
<1>1. Init => IInv /\ Counts
    BY InitInv, InitCounts
<1>2. IInv /\ Counts /\ [Next]_vars => (IInv /\ Counts)'
    BY NextInv, NextCounts
<1>3. IInv /\ Counts => InputExact
    BY InputExactParts DEF Counts
<1> QED
    BY <1>1, <1>2, <1>3, PTL DEF Spec

-----------------------------------------------------------------------------
(* Headroom: what may still come in after a PAUSE.                         *)

\* The packets of a wire follow each other no closer than they were sent.
Spaced(line) ==
    \A i \in 1 .. Len(line) - 1 : line[i].left + line[i + 1].item.size <= line[i + 1].left

\* What is being sent is behind the last packet of the wire by what was sent of it.
Behind(p, line) ==
    p.sending =>
        /\ p.left <= Head(p.q).size
        /\ line # <<>> => Last(line).left + (Head(p.q).size - p.left) <= Latency

\* What an output queue upstream may still put on the wire before it obeys: the
\* rest of what it is sending, what it can begin until the last frame arrives
\* and one packet more.
Rest(p, frames) ==
    LET L == Last(frames).left
    IN  IF frames = <<>> THEN IF p.sending THEN Head(p.q).size ELSE 0
        ELSE IF ~p.sending THEN L + MaxSize
        ELSE Head(p.q).size + IF p.left <= L THEN L - p.left + MaxSize ELSE 0

Room == High + 2 * MaxSize + 2 * Latency

\* All that will have come in when the port upstream stands still has room.
Owes(u) ==
    input[u].paused => input[u].size + Bytes(Items(wire[u]), u) + Rest(port[u], back[u]) <= Room

Link(u) == Spaced(wire[u]) /\ Behind(port[u], wire[u]) /\ Owes(u)

Headroom == \A u \in Ups : Link(u)

\* There is a largest size.
LEMMA LargestSize ==
    ASSUME PfcAssumption
    PROVE  MaxSize \in Sizes /\ MaxSize \in Nat /\ \A t \in Sizes : t <= MaxSize
<1> DEFINE Bound(s) == \E m \in s : \A t \in s : t <= m
           T == {s \in SUBSET Sizes : s # {} => Bound(s)}
<1>1. IsFiniteSet(Sizes) /\ Sizes # {} /\ Sizes \subseteq Nat
    BY DEF PfcAssumption
<1>2. {} \in T
    OBVIOUS
<1>3. ASSUME NEW s \in SUBSET Sizes, NEW x \in Sizes \ s, s \in T PROVE s \cup {x} \in T
  <2>1. s \cup {x} \in SUBSET Sizes /\ x \in Nat /\ s \subseteq Nat
      BY <1>1
  <2>2. CASE s = {}
      BY <2>1, <2>2
  <2>3. CASE s # {}
    <3>1. PICK m \in s : \A t \in s : t <= m
        BY <1>3, <2>3
    <3>2. CASE m <= x
      <4>1. \A t \in s \cup {x} : t <= x
          BY <2>1, <3>1, <3>2
      <4> QED
          BY <2>1, <4>1
    <3>3. CASE ~(m <= x)
      <4>1. \A t \in s \cup {x} : t <= m
          BY <2>1, <3>1, <3>3
      <4> QED
          BY <2>1, <3>1, <4>1
    <3> QED
        BY <3>2, <3>3
  <2> QED
      BY <2>2, <2>3
<1> HIDE DEF T
<1>4. Sizes \in T
    BY <1>1, <1>2, <1>3, FiniteSetsByInduction
<1>5. \E m \in Sizes : \A t \in Sizes : t <= m
    BY <1>1, <1>4 DEF T
<1>6. MaxSize \in Sizes /\ \A t \in Sizes : t <= MaxSize
    BY <1>5 DEF MaxSize
<1> QED
    BY <1>1, <1>6

\* The last item of a pipe.
LEMMA LastLine ==
    ASSUME NEW Item, NEW line \in InTransit(Item), line # <<>>
    PROVE  /\ Last(line) = line[Len(line)] /\ Len(line) \in DOMAIN line
           /\ Last(line).left \in Nat
           /\ \A delay \in Nat : AtMost(line, delay) => Last(line).left <= delay
<1>1. /\ DOMAIN line = 1 .. Len(line) /\ Len(line) \in Nat /\ 1 \in DOMAIN line
      /\ \A i \in DOMAIN line : line[i].left \in Nat
    BY LineItems
<1>2. Len(line) \in DOMAIN line
    BY <1>1
<1> QED
    BY <1>1, <1>2 DEF Last, AtMost

LEMMA SpacedEnter ==
    ASSUME PfcAssumption, NEW line \in InTransit(Packet), Spaced(line), NEW pkt \in Packet,
           line # <<>> => Last(line).left + pkt.size <= Latency
    PROVE  /\ Spaced(Enter(line, pkt, Latency)) /\ Enter(line, pkt, Latency) # <<>>
           /\ Last(Enter(line, pkt, Latency)).left = Latency
<1> DEFINE R == [item: Packet, left: Nat]
           e == [item |-> pkt, left |-> Latency]
           new == Append(line, e)
           n == Len(line)
<1>0. Latency \in Nat /\ pkt.size \in Nat
    BY Packets DEF PfcAssumption
<1>1. e \in R /\ line \in Seq(R) /\ e.item = pkt /\ e.left = Latency
    BY <1>0 DEF InTransit
<1>2. Enter(line, pkt, Latency) = new
    BY DEF Enter
<1> HIDE DEF e, R
<1>3. /\ new \in Seq(R) /\ Len(new) = n + 1 /\ n \in Nat
      /\ new[n + 1] = e /\ \A i \in 1 .. n : new[i] = line[i]
    BY <1>1
<1>7. new # <<>>
    BY <1>3
<1>4. n # 0 => line # <<>>
    OBVIOUS
<1> HIDE DEF new
<1>5. ASSUME NEW i \in 1 .. Len(new) - 1 PROVE new[i].left + new[i + 1].item.size <= new[i + 1].left
  <2>1. CASE i = n
    <3>1. line # <<>> /\ new[i] = line[n] /\ new[i + 1] = e
        BY <1>3, <1>4, <1>5, <2>1
    <3>2. Last(line) = line[n]
        BY <3>1, LastLine
    <3> QED
        BY <1>1, <3>1, <3>2
  <2>2. CASE i # n
    <3>1. i \in 1 .. n - 1 /\ i \in 1 .. n /\ i + 1 \in 1 .. n
        BY <1>3, <1>5, <2>2
    <3>2. new[i] = line[i] /\ new[i + 1] = line[i + 1]
        BY <1>3, <3>1
    <3> QED
        BY <3>1, <3>2 DEF Spaced
  <2> QED
      BY <2>1, <2>2
<1>6. Last(new).left = Latency
    BY <1>1, <1>3 DEF Last
<1> QED
    BY <1>2, <1>5, <1>6, <1>7 DEF Spaced

LEMMA SpacedTail ==
    ASSUME NEW line \in InTransit(Packet), Spaced(line), line # <<>>
    PROVE  /\ Spaced(Tail(line))
           /\ Tail(line) # <<>> => /\ Last(Tail(line)) = Last(line)
                                   /\ Head(line).left + Head(Tail(line)).item.size
                                         <= Head(Tail(line)).left
           /\ Tail(line) = <<>> => Last(line) = Head(line)
<1> DEFINE R == [item: Packet, left: Nat]
           rest == Tail(line)
<1>1. line \in Seq(R)
    BY DEF InTransit
<1> HIDE DEF R
<1>2. /\ rest \in Seq(R) /\ Len(rest) = Len(line) - 1 /\ Len(line) \in Nat /\ Len(line) > 0
      /\ Head(line) = line[1] /\ \A i \in 1 .. Len(line) - 1 : rest[i] = line[i + 1]
    BY <1>1
<1> HIDE DEF rest
<1>3. (rest = <<>>) <=> (Len(rest) = 0)
    BY <1>2
<1>7. rest # <<>> => Head(rest) = rest[1]
    BY <1>2
<1>4. ASSUME NEW i \in 1 .. Len(rest) - 1
      PROVE  rest[i].left + rest[i + 1].item.size <= rest[i + 1].left
  <2>1. i \in 1 .. Len(line) - 1 /\ i + 1 \in 1 .. Len(line) - 1
      BY <1>2, <1>4
  <2>2. rest[i] = line[i + 1] /\ rest[i + 1] = line[i + 1 + 1]
      BY <1>2, <2>1
  <2> QED
      BY <2>1, <2>2 DEF Spaced
<1>5. rest # <<>> => /\ Last(rest) = Last(line)
                     /\ Head(line).left + Head(rest).item.size <= Head(rest).left
    BY <1>2, <1>3, <1>7 DEF Last, Spaced
<1>6. rest = <<>> => Last(line) = Head(line)
  <2>1. rest = <<>> => Len(line) = 1
      BY <1>2, <1>3
  <2> QED
      BY <1>2, <2>1 DEF Last
<1> QED
    BY <1>4, <1>5, <1>6 DEF Spaced, rest

LEMMA SpacedLater ==
    ASSUME PfcAssumption, NEW line \in InTransit(Packet), Spaced(line)
    PROVE  /\ Spaced(Later(line)) /\ ((Later(line) = <<>>) <=> (line = <<>>))
           /\ line # <<>> => Last(Later(line)).left = Last(line).left - 1
<1> DEFINE new == Later(line)
<1>1. /\ DOMAIN line = 1 .. Len(line) /\ Len(line) \in Nat
      /\ \A i \in DOMAIN line : line[i] \in [item: Packet, left: Nat] /\ line[i].left \in Nat
      /\ line # <<>> => 1 \in DOMAIN line
    BY LineItems
<1>2. DOMAIN new = DOMAIN line /\ Len(new) = Len(line)
    BY <1>1 DEF Later
<1>3. \A i \in DOMAIN line : new[i].left = line[i].left - 1 /\ new[i].item = line[i].item
    BY <1>1 DEF Later
<1>4. (new = <<>>) <=> (line = <<>>)
    BY <1>1 DEF Later
<1> HIDE DEF new
<1>5. ASSUME NEW i \in 1 .. Len(new) - 1 PROVE new[i].left + new[i + 1].item.size <= new[i + 1].left
  <2>1. i \in DOMAIN line /\ i + 1 \in DOMAIN line /\ i \in 1 .. Len(line) - 1
      BY <1>1, <1>2, <1>5
  <2>2. line[i].left + line[i + 1].item.size <= line[i + 1].left
      BY <2>1 DEF Spaced
  <2>4. line[i].left \in Nat /\ line[i + 1].left \in Nat /\ line[i + 1].item \in Packet
      BY <1>1, <2>1
  <2>3. line[i].left \in Nat /\ line[i + 1].left \in Nat /\ line[i + 1].item.size \in Nat
      BY <2>4, Packets
  <2>5. /\ new[i].left = line[i].left - 1 /\ new[i + 1].left = line[i + 1].left - 1
        /\ new[i + 1].item = line[i + 1].item
      BY <1>3, <2>1
  <2>6. new[i + 1].item.size = line[i + 1].item.size
      BY <2>5
  <2> DEFINE x == line[i].left
             y == line[i + 1].left
             z == line[i + 1].item.size
  <2>7. x \in Nat /\ y \in Nat /\ z \in Nat /\ x + z <= y
      BY <2>2, <2>3
  <2>8. new[i].left = x - 1 /\ new[i + 1].left = y - 1 /\ new[i + 1].item.size = z
      BY <2>5, <2>6
  <2> HIDE DEF x, y, z
  <2>9. (x - 1) + z <= y - 1
      BY <2>7
  <2> QED
      BY <2>8, <2>9
<1>6. line # <<>> => Last(new).left = Last(line).left - 1
    BY <1>1, <1>2, <1>3, LastLine DEF Last
<1> QED
    BY <1>4, <1>5, <1>6 DEF Spaced, new

\* What is on a wire behind a packet that is due took as long to send.
LEMMA WireSum ==
    ASSUME PfcAssumption, NEW line \in InTransit(Packet), Spaced(line), line # <<>>, NEW u \in Ups
    PROVE  Bytes(Items(line), u) <= Head(line).item.size + (Last(line).left - Head(line).left)
<1> DEFINE Fits(w) == Bytes(Items(w), u) <= Head(w).item.size + (Last(w).left - Head(w).left)
           T == {n \in Nat : \A w \in InTransit(Packet) :
                                 Len(w) = n + 1 /\ Spaced(w) => Fits(w)}
<1>1. ASSUME NEW w \in InTransit(Packet), w # <<>>, Spaced(w), Tail(w) = <<>> \/ Fits(Tail(w))
      PROVE  Fits(w)
  <2> DEFINE rest == Tail(w)
  <2>1. /\ Items(w) # <<>> /\ Head(Items(w)) = Head(w).item /\ rest \in InTransit(Packet)
        /\ Items(rest) = Tail(Items(w))
      BY <1>1, ItemsTail
  <2>2. Items(w) \in Seq(Packet) /\ Items(rest) \in Seq(Packet)
      BY <2>1, ItemsOf
  <2>3. Bytes(Items(w), u) = Share(Head(w).item, u) + Bytes(Items(rest), u)
      BY <2>1, <2>2, BytesTail
  <2>4. Head(w).item \in Packet /\ Head(w).left \in Nat
      BY <1>1, LineItems
  <2>5. /\ Share(Head(w).item, u) \in Nat /\ Head(w).item.size \in Nat
        /\ Share(Head(w).item, u) <= Head(w).item.size
      BY <2>4, Packets
  <2>6. Last(w).left \in Nat
      BY <1>1, LastLine
  <2>7. CASE rest = <<>>
    <3>1. Items(rest) = <<>>
        BY <2>7 DEF Items
    <3>2. Bytes(Items(rest), u) = 0
        BY <2>2, <3>1, BytesNatural
    <3>3. Last(w) = Head(w)
        BY <1>1, <2>7, SpacedTail
    <3> QED
        BY <2>3, <2>4, <2>5, <3>2, <3>3
  <2>8. CASE rest # <<>>
    <3>1. /\ Last(rest) = Last(w)
          /\ Head(w).left + Head(rest).item.size <= Head(rest).left
        BY <1>1, <2>8, SpacedTail
    <3>2. Head(rest).item \in Packet /\ Head(rest).left \in Nat
        BY <2>1, <2>8, LineItems
    <3>3. Head(rest).item.size \in Nat
        BY <3>2, Packets
    <3>4. Bytes(Items(rest), u) <= Head(rest).item.size + (Last(rest).left - Head(rest).left)
        BY <1>1, <2>8
    <3>5. Bytes(Items(rest), u) \in Nat
        BY <2>2, BytesNatural
    <3> HIDE DEF rest
    <3>6. Bytes(Items(rest), u) <= Last(w).left - Head(w).left
        BY <2>4, <2>6, <3>1, <3>2, <3>3, <3>4, <3>5
    <3>7. Share(Head(w).item, u) + Bytes(Items(rest), u)
          <= Head(w).item.size + (Last(w).left - Head(w).left)
        BY <2>4, <2>5, <2>6, <3>5, <3>6
    <3> QED
        BY <2>3, <3>7
  <2> QED
      BY <2>7, <2>8
<1>2. \A w \in InTransit(Packet) : w # <<>> => Len(Tail(w)) = Len(w) - 1 /\ Tail(w) \in InTransit(Packet)
    BY DEF InTransit
<1>3. \A w \in InTransit(Packet) : Len(w) \in Nat /\ (w = <<>> <=> Len(w) = 0)
  <2> SUFFICES ASSUME NEW w \in InTransit(Packet) PROVE Len(w) \in Nat /\ (w = <<>> <=> Len(w) = 0)
      OBVIOUS
  <2> DEFINE R == [item: Packet, left: Nat]
  <2>1. w \in Seq(R)
      BY DEF InTransit
  <2> HIDE DEF R
  <2> QED
      BY <2>1
<1>4. \A w \in InTransit(Packet) : w # <<>> /\ Spaced(w) => Spaced(Tail(w))
    BY SpacedTail
<1> HIDE DEF Fits
<1>5. 0 \in T
  <2> SUFFICES ASSUME NEW w \in InTransit(Packet), Len(w) = 1, Spaced(w) PROVE Fits(w)
      OBVIOUS
  <2>0. Len(w) # 0
      OBVIOUS
  <2>2. w # <<>>
      BY <1>3, <2>0
  <2>3. Len(Tail(w)) = 0 /\ Tail(w) \in InTransit(Packet)
      BY <1>2, <2>2
  <2>1. w # <<>> /\ Tail(w) = <<>>
      BY <1>3, <2>2, <2>3
  <2> QED
      BY <1>1, <2>1
<1>6. ASSUME NEW n \in Nat, n \in T PROVE n + 1 \in T
  <2> SUFFICES ASSUME NEW w \in InTransit(Packet), Len(w) = n + 1 + 1, Spaced(w) PROVE Fits(w)
      OBVIOUS
  <2>1. w # <<>>
      BY <1>3
  <2>2. Len(Tail(w)) = n + 1 /\ Tail(w) \in InTransit(Packet) /\ Spaced(Tail(w))
      BY <1>2, <1>4, <2>1
  <2>3. Fits(Tail(w))
      BY <1>6, <2>2
  <2> QED
      BY <1>1, <2>1, <2>3
<1> HIDE DEF T
<1>7. \A n \in Nat : n \in T
    BY <1>5, <1>6, NaturalsByInduction
<1>8. Len(line) \in Nat /\ Len(line) # 0
    BY <1>3
<1>9. Len(line) - 1 \in T /\ Len(line) = (Len(line) - 1) + 1
    BY <1>7, <1>8
<1>10. Fits(line)
    BY <1>9 DEF T
<1> QED
    BY <1>10 DEF Fits

\* What an output queue is sending, and what it may still send.
LEMMA RestTypes ==
    ASSUME PfcAssumption, NEW p \in Port, PortConsistent(p), NEW frames \in InTransit(BOOLEAN)
    PROVE  /\ p.left \in Nat /\ p.sending \in BOOLEAN
           /\ p.sending => /\ p.q # <<>> /\ Head(p.q) \in Packet /\ Head(p.q).size \in Nat
                           /\ Head(p.q).size <= MaxSize
           /\ frames # <<>> => Last(frames).left \in Nat
           /\ Rest(p, frames) \in Nat
<1>1. /\ p.left \in Nat /\ p.sending \in BOOLEAN /\ p.q \in Seq(Packet)
      /\ p.state \in {"READY", "PAUSED", "PAUSE_RECEIVED"}
    BY DEF Port
<1>2. p.sending => p.q # <<>>
    BY <1>1 DEF PortConsistent
<1>3. p.sending => Head(p.q) \in Packet
    BY <1>1, <1>2
<1>4. p.sending => Head(p.q).size \in Nat /\ Head(p.q).size <= MaxSize
    BY <1>3, Packets, LargestSize
<1>5. frames # <<>> => Last(frames).left \in Nat
    BY LastLine
<1>6. Rest(p, frames) \in Nat
  <2>1. MaxSize \in Nat
      BY LargestSize
  <2>2. CASE frames = <<>>
      BY <1>1, <1>4, <2>2 DEF Rest
  <2>3. CASE frames # <<>> /\ ~p.sending
      BY <1>5, <2>1, <2>3 DEF Rest
  <2>4. CASE frames # <<>> /\ p.sending
    <3>1. Rest(p, frames) = Head(p.q).size + IF p.left <= Last(frames).left
                                             THEN Last(frames).left - p.left + MaxSize ELSE 0
        BY <2>4 DEF Rest
    <3>2. Head(p.q).size \in Nat /\ Last(frames).left \in Nat
        BY <1>4, <1>5, <2>4
    <3> QED
        BY <1>1, <2>1, <3>1, <3>2
  <2> QED
      BY <1>1, <2>2, <2>3, <2>4
<1> QED
    BY <1>1, <1>2, <1>3, <1>4, <1>5, <1>6

\* A queue goes on with what it was sending.
LEMMA RestKeeps ==
    ASSUME NEW p, NEW a, p.sending, a.sending, a.left = p.left, Head(a.q) = Head(p.q)
    PROVE  /\ \A frames : Rest(a, frames) = Rest(p, frames)
           /\ \A line : Behind(p, line) => Behind(a, line)
BY DEF Rest, Behind

\* A queue that sent nothing may begin; that was counted.
LEMMA RestBegins ==
    ASSUME PfcAssumption, NEW p, ~p.sending, NEW a \in Port, PortConsistent(a), Whole(a),
           NEW frames \in InTransit(BOOLEAN), frames = <<>> => ~a.sending
    PROVE  Rest(a, frames) <= Rest(p, frames)
<1>1. /\ a.left \in Nat
      /\ a.sending => Head(a.q).size \in Nat /\ Head(a.q).size <= MaxSize
      /\ frames # <<>> => Last(frames).left \in Nat
    BY RestTypes
<1>2. MaxSize \in Nat
    BY LargestSize
<1> QED
    BY <1>1, <1>2 DEF Rest, Whole

\* What has just begun is behind everything on the wire.
LEMMA BehindWhole ==
    ASSUME PfcAssumption, NEW a \in Port, PortConsistent(a), Whole(a),
           NEW line \in InTransit(Packet), AtMost(line, Latency)
    PROVE  Behind(a, line)
<1>1. Latency \in Nat
    BY DEF PfcAssumption
<1>2. line # <<>> => Last(line).left \in Nat /\ Last(line).left <= Latency
    BY <1>1, LastLine
<1>3. a.sending => Head(a.q).size \in Nat /\ a.left = Head(a.q).size
  <2>1. <<>> \in InTransit(BOOLEAN)
      BY DEF InTransit
  <2> QED
      BY <2>1, RestTypes DEF Whole
<1> QED
    BY <1>1, <1>2, <1>3 DEF Behind

\* What is known of a link.
LEMMA LinkTypes ==
    ASSUME PfcAssumption, IInv, NEW u \in Ups
    PROVE  /\ port[u] \in Port /\ PortConsistent(port[u]) /\ port[u].sending \in BOOLEAN
           /\ wire[u] \in InTransit(Packet) /\ InTime(wire[u]) /\ AtMost(wire[u], Latency)
           /\ back[u] \in InTransit(BOOLEAN) /\ InTime(back[u]) /\ AtMost(back[u], Latency)
           /\ input[u].size \in Int /\ input[u].paused \in BOOLEAN
           /\ Bytes(Items(wire[u]), u) \in Nat /\ Rest(port[u], back[u]) \in Nat
           /\ back[u] = <<>> => (input[u].paused <=> port[u].state # "READY")
           /\ MaxSize \in Nat /\ Latency \in Nat /\ High \in Nat /\ Low \in Nat /\ Low < High
<1>1. /\ port[u] \in Port /\ PortConsistent(port[u]) /\ wire[u] \in InTransit(Packet)
      /\ back[u] \in InTransit(BOOLEAN) /\ Items(wire[u]) \in Seq(Packet)
      /\ input[u] \in [size: Int, paused: BOOLEAN]
    BY Types
<1>2. InTime(wire[u]) /\ AtMost(wire[u], Latency) /\ InTime(back[u]) /\ AtMost(back[u], Latency)
    BY InvParts DEF Pipes
<1>3. Bytes(Items(wire[u]), u) \in Nat
    BY <1>1, BytesNatural
<1>4. Rest(port[u], back[u]) \in Nat /\ port[u].sending \in BOOLEAN
    BY <1>1, RestTypes
<1>5. Told(u) <=> input[u].paused
    BY InvParts
<1>6. back[u] = <<>> => (input[u].paused <=> port[u].state # "READY")
    BY <1>5 DEF Told
<1>7. MaxSize \in Nat
    BY LargestSize
<1> QED
    BY <1>1, <1>2, <1>3, <1>4, <1>6, <1>7 DEF PfcAssumption

\* A link that nothing happens to.
LEMMA LinkStays ==
    ASSUME NEW u, Link(u), port'[u] = port[u], wire'[u] = wire[u], back'[u] = back[u],
           input'[u] = input[u]
    PROVE  Link(u)'
BY DEF Link, Owes

\* The queue upstream changes, and the frames to it as far as they say the same.
LEMMA PortChanges ==
    ASSUME PfcAssumption, IInv, NEW u \in Ups, Link(u), NEW a \in Port, PortConsistent(a),
           NEW frames \in InTransit(BOOLEAN),
           Rest(port[u], frames) <= Rest(port[u], back[u]),
           port[u].sending => /\ a.sending /\ a.left = port[u].left
                              /\ Head(a.q) = Head(port[u].q),
           ~port[u].sending => Whole(a),
           ~port[u].sending /\ input[u].paused /\ frames = <<>> => ~a.sending,
           port'[u] = a, back'[u] = frames, wire'[u] = wire[u], input'[u] = input[u]
    PROVE  Link(u)'
<1> DEFINE p == port[u]
           line == wire[u]
           bytes == Bytes(Items(line), u)
           size == input[u].size
<1>1. /\ p \in Port /\ PortConsistent(p) /\ line \in InTransit(Packet) /\ AtMost(line, Latency)
      /\ size \in Int /\ bytes \in Nat /\ Rest(p, back[u]) \in Nat
      /\ Rest(p, frames) \in Nat /\ Rest(a, frames) \in Nat
    BY LinkTypes, RestTypes
<1>2. Spaced(line) /\ Behind(p, line) /\ (input[u].paused => size + bytes + Rest(p, back[u]) <= Room)
    BY DEF Link, Owes
<1>3. Behind(a, line)
  <2>1. CASE p.sending
      BY <1>2, <2>1, RestKeeps
  <2>2. CASE ~p.sending
      BY <1>1, <2>2, BehindWhole
  <2> QED
      BY <2>1, <2>2
<1>4. input[u].paused => Rest(a, frames) <= Rest(p, back[u])
  <2>1. CASE p.sending
    <3>1. Rest(a, frames) = Rest(p, frames)
        BY <2>1, RestKeeps
    <3> QED
        BY <3>1
  <2>2. CASE ~p.sending
    <3>1. input[u].paused => Rest(a, frames) <= Rest(p, frames)
        BY <2>2, RestBegins
    <3> QED
        BY <1>1, <3>1
  <2> QED
      BY <2>1, <2>2
<1>5. Room \in Nat
    BY LargestSize DEF Room, PfcAssumption
<1>6. input[u].paused => size + bytes + Rest(a, frames) <= Room
    BY <1>1, <1>2, <1>4, <1>5
<1> QED
    BY <1>2, <1>3, <1>6 DEF Link, Owes

\* What setting _queuesize does to the port and its frames.
LEMMA SizeSet ==
    ASSUME PfcAssumption, IInv, NEW v \in Ups, NEW size \in Int, SetSize(v, size)
    PROVE  /\ input'[v].size = size
           /\ input'[v].paused <=> \/ input[v].paused /\ size >= Low
                                   \/ ~input[v].paused /\ size > High
           /\ input[v].paused /\ size >= Low => back'[v] = back[v]
           /\ ~input[v].paused /\ size > High => back'[v] = Enter(back[v], TRUE, Latency)
           /\ \A u \in Ups : u # v => input'[u] = input[u] /\ back'[u] = back[u]
<1> DEFINE in == input[v]
           pause == CrossesHigh(in, size)
           resume == FallsBelowLow(in, size)
           new == [size |-> size, paused |-> (in.paused \/ pause) /\ ~resume]
           new2 == Enter(back[v], pause, Latency)
<1>1. /\ input \in [Ups -> [size: Int, paused: BOOLEAN]] /\ in.paused \in BOOLEAN
      /\ back \in [Ups -> InTransit(BOOLEAN)] /\ Low \in Nat /\ High \in Nat /\ Low < High
    BY InvParts DEF TypeOK, PfcAssumption
<1>2. /\ input' = [input EXCEPT ![v] = new]
      /\ back' = IF pause \/ resume THEN [back EXCEPT ![v] = new2] ELSE back
    BY DEF SetSize
<1>3. new.size = size /\ (new.paused <=> (in.paused \/ pause) /\ ~resume)
    OBVIOUS
<1>4. /\ pause <=> size > High /\ ~in.paused
      /\ resume <=> size < Low /\ in.paused
      /\ pause \in BOOLEAN
    BY DEF CrossesHigh, FallsBelowLow
<1>5. size > High /\ ~in.paused => new2 = Enter(back[v], TRUE, Latency)
    BY <1>4
<1> HIDE DEF in, pause, resume, new, new2
<1>6. /\ input'[v] = new
      /\ back'[v] = IF pause \/ resume THEN new2 ELSE back[v]
      /\ \A u \in Ups : u # v => input'[u] = input[u] /\ back'[u] = back[u]
    BY <1>1, <1>2
<1>7. in.paused /\ size >= Low => ~pause /\ ~resume
    BY <1>1, <1>4
<1>8. (in.paused \/ pause) /\ ~resume <=> \/ in.paused /\ size >= Low
                                          \/ ~in.paused /\ size > High
    BY <1>1, <1>4
<1>9. ~in.paused /\ size > High => pause
    BY <1>4
<1> QED
    BY <1>3, <1>5, <1>6, <1>7, <1>8, <1>9 DEF in

\* A packet leaves the queue upstream: what was to be sent is now on the wire.
LEMMA LinkSends ==
    ASSUME PfcAssumption, IInv, Counts, NEW u \in Ups, Link(u), UpstreamSends(u)
    PROVE  Link(u)'
<1> DEFINE p == port[u]
           pkt == Head(p.q)
           a == CompleteService(p)
           line == wire[u]
           new == Enter(line, pkt, Latency)
           frames == back[u]
           bytes == Bytes(Items(line), u)
           size == input[u].size
           L == Last(frames).left
<1>1. /\ p.sending /\ p.left = 0 /\ port'[u] = a /\ wire'[u] = new
      /\ back'[u] = frames /\ input'[u] = input[u]
    BY Types DEF UpstreamSends, Sent
<1>2. /\ p \in Port /\ PortConsistent(p) /\ line \in InTransit(Packet) /\ AtMost(line, Latency)
      /\ frames \in InTransit(BOOLEAN) /\ size \in Int /\ bytes \in Nat
      /\ MaxSize \in Nat /\ Latency \in Nat /\ Room \in Nat
      /\ frames = <<>> => (input[u].paused <=> p.state # "READY")
    BY LinkTypes DEF Room
<1>3. /\ pkt \in Packet /\ a \in Port /\ PortConsistent(a) /\ Whole(a)
      /\ p.state # "READY" => ~a.sending
    BY <1>1, <1>2, CompletePort, CompleteQueue
<1>4. pkt.size \in Nat /\ pkt.size <= MaxSize
    BY <1>3, Packets, LargestSize
<1>5. pkt.from = u
  <2>1. From(p.q, u) /\ p.q \in Seq(Packet) /\ p.q # <<>>
      BY <1>1, <1>2, CompletePort, Types DEF Counts, Owned
  <2> QED
      BY <2>1, FromLists
<1>6. Items(new) = Append(Items(line), pkt)
    BY <1>2, <1>3, ItemsEnter
<1>7. Bytes(Items(new), u) = bytes + pkt.size
  <2>1. Items(line) \in Seq(Packet)
      BY <1>2, ItemsOf
  <2> QED
      BY <1>3, <1>5, <1>6, <2>1, BytesAppend DEF Share
<1>8. line # <<>> => Last(line).left + pkt.size <= Latency
  <2>1. line # <<>> => Last(line).left + (pkt.size - p.left) <= Latency
      BY <1>1 DEF Link, Behind
  <2>2. line # <<>> => Last(line).left \in Nat
      BY <1>2, LastLine
  <2> QED
      BY <1>1, <1>4, <2>1, <2>2
<1>9. Spaced(new) /\ new # <<>> /\ Last(new).left = Latency
    BY <1>2, <1>3, <1>8, SpacedEnter DEF Link
<1>10. Behind(a, new)
  <2>1. a.sending => Head(a.q).size \in Nat
      BY <1>2, <1>3, RestTypes
  <2> QED
      BY <1>2, <1>3, <1>9, <2>1 DEF Behind, Whole
<1>11. input[u].paused => pkt.size + Rest(a, frames) <= Rest(p, frames)
  <2>1. CASE frames = <<>>
      BY <1>1, <1>2, <1>3, <1>4, <2>1 DEF Rest
  <2>2. CASE frames # <<>>
    <3>1. L \in Nat
        BY <1>2, <2>2, LastLine
    <3>2. Rest(p, frames) = pkt.size + (L + MaxSize)
        BY <1>1, <1>2, <2>2, <3>1 DEF Rest
    <3>3. a.sending => Head(a.q).size \in Nat /\ Head(a.q).size <= MaxSize
                       /\ a.left = Head(a.q).size
        BY <1>2, <1>3, RestTypes DEF Whole
    <3>4. Rest(a, frames) <= L + MaxSize
        BY <1>2, <2>2, <3>1, <3>3 DEF Rest
    <3>5. Rest(a, frames) \in Nat
        BY <1>2, <1>3, RestTypes
    <3> QED
        BY <1>2, <1>4, <3>1, <3>2, <3>4, <3>5
  <2> QED
      BY <2>1, <2>2
<1>12. input[u].paused => size + bytes + Rest(p, frames) <= Room
    BY DEF Link, Owes
<1>13. Rest(a, frames) \in Nat /\ Rest(p, frames) \in Nat
    BY <1>2, <1>3, RestTypes
<1> HIDE DEF bytes, size, pkt, a, p, line, new, frames
<1>14. input[u].paused => size + (bytes + pkt.size) + Rest(a, frames) <= Room
    BY <1>2, <1>4, <1>11, <1>12, <1>13
<1>15. Owes(u)'
    BY <1>1, <1>7, <1>14 DEF Owes, size
<1> QED
    BY <1>1, <1>9, <1>10, <1>15 DEF Link

\* The port is not paused and a packet takes it over the threshold: all on the
\* wire and all that is sent until the PAUSE arrives has room.
LEMMA LinkCrosses ==
    ASSUME PfcAssumption, IInv, NEW u \in Ups, Link(u), wire[u] # <<>>, Head(wire[u]).left = 0,
           input[u].size <= High, NEW frames \in InTransit(BOOLEAN), frames # <<>>,
           Last(frames).left = Latency
    PROVE  input[u].size + Bytes(Items(wire[u]), u) + Rest(port[u], frames) <= Room
<1> DEFINE p == port[u]
           line == wire[u]
           bytes == Bytes(Items(line), u)
           size == input[u].size
           first == Head(line).item.size
           last == Last(line).left
<1>1. /\ p \in Port /\ PortConsistent(p) /\ line \in InTransit(Packet) /\ AtMost(line, Latency)
      /\ size \in Int /\ bytes \in Nat /\ MaxSize \in Nat /\ Latency \in Nat /\ High \in Nat
    BY LinkTypes
<1>2. last \in Nat /\ last <= Latency
    BY <1>1, LastLine
<1>3. first \in Nat /\ first <= MaxSize
  <2>1. Head(line).item \in Packet
      BY <1>1, LineItems
  <2> QED
      BY <2>1, Packets, LargestSize
<1>4. bytes <= first + (last - 0)
    BY <1>1, WireSum DEF Link
<1>5. p.sending => /\ Head(p.q).size \in Nat /\ Head(p.q).size <= MaxSize /\ p.left \in Nat
                   /\ p.left <= Head(p.q).size
                   /\ last + (Head(p.q).size - p.left) <= Latency
    BY <1>1, RestTypes DEF Link, Behind
<1>6. Rest(p, frames) = IF ~p.sending THEN Latency + MaxSize
                        ELSE Head(p.q).size
                                + IF p.left <= Latency THEN Latency - p.left + MaxSize ELSE 0
    BY DEF Rest
<1> HIDE DEF bytes, size, first, last, p
<1>7. last + Rest(p, frames) <= 2 * Latency + MaxSize /\ Rest(p, frames) \in Int
  <2>1. CASE ~p.sending
      BY <1>1, <1>2, <1>6, <2>1
  <2>2. CASE p.sending
    <3> DEFINE z == Head(p.q).size
    <3>1. /\ z \in Nat /\ z <= MaxSize /\ p.left \in Nat /\ p.left <= z
          /\ last + (z - p.left) <= Latency
        BY <1>5, <2>2
    <3>2. Rest(p, frames) = z + IF p.left <= Latency THEN Latency - p.left + MaxSize ELSE 0
        BY <1>6, <2>2
    <3> HIDE DEF z
    <3> QED
        BY <1>1, <1>2, <3>1, <3>2
  <2> QED
      BY <2>1, <2>2
<1>9. size <= High
    BY DEF size
<1>10. bytes <= MaxSize + last
    BY <1>1, <1>2, <1>3, <1>4
<1>8. size + bytes + Rest(p, frames) <= High + 2 * MaxSize + 2 * Latency
    BY <1>1, <1>2, <1>7, <1>9, <1>10
<1> QED
    BY <1>8 DEF size, bytes, p, Room

\* A packet arrives: it moves from the wire into the count, or it crosses.
LEMMA LinkArrives ==
    ASSUME PfcAssumption, IInv, Counts, NEW u \in Ups, Link(u), Arrives(u)
    PROVE  Link(u)'
<1> DEFINE p == port[u]
           line == wire[u]
           rest == Tail(line)
           pkt == Head(line).item
           bytes == Bytes(Items(line), u)
           left == Bytes(Items(rest), u)
           size == input[u].size
           total == size + pkt.size
           frames == back'[u]
<1>1. /\ line # <<>> /\ Head(line).left = 0 /\ SetSize(u, total)
      /\ port'[u] = p /\ wire'[u] = rest
    BY Types DEF Arrives, Due
<1>2. /\ p \in Port /\ PortConsistent(p) /\ line \in InTransit(Packet) /\ AtMost(line, Latency)
      /\ InTime(line) /\ size \in Int /\ bytes \in Nat /\ Rest(p, back[u]) \in Nat
      /\ High \in Nat /\ Low \in Nat /\ Low < High /\ Latency \in Nat /\ MaxSize \in Nat
      /\ back[u] \in InTransit(BOOLEAN) /\ AtMost(back[u], Latency) /\ InTime(back[u])
      /\ input[u].paused \in BOOLEAN
    BY LinkTypes
<1>3. /\ Spaced(line) /\ Behind(p, line)
      /\ input[u].paused => size + bytes + Rest(p, back[u]) <= Room
    BY DEF Link, Owes
<1>4. Spaced(rest) /\ (rest # <<>> => Last(rest) = Last(line))
    BY <1>1, <1>2, <1>3, SpacedTail
<1>5. Behind(p, rest)
    BY <1>1, <1>3, <1>4 DEF Behind
<1>6. pkt \in Packet /\ pkt.size \in Nat
    BY <1>1, <1>2, LineItems, Packets
<1>7. /\ Items(line) \in Seq(Packet) /\ Items(line) # <<>> /\ Head(Items(line)) = pkt
      /\ Items(rest) = Tail(Items(line)) /\ From(Items(line), u)
    BY <1>1, <1>2, ItemsOf, ItemsTail DEF Counts, Owned
<1>8. bytes = pkt.size + left /\ left \in Nat
  <2>1. pkt.from = u
      BY <1>7, FromLists
  <2>2. Bytes(Items(line), u) = Share(pkt, u) + Bytes(Items(rest), u)
      BY <1>7, BytesTail
  <2>3. Items(rest) \in Seq(Packet)
      BY <1>7
  <2>4. left \in Nat
      BY <2>3, BytesNatural
  <2> QED
      BY <2>1, <2>2, <2>4 DEF Share
<1>9. total \in Int
    BY <1>2, <1>6
<1> HIDE DEF total
<1>10. /\ input'[u].size = total
       /\ input'[u].paused <=> \/ input[u].paused /\ total >= Low
                               \/ ~input[u].paused /\ total > High
       /\ input[u].paused /\ total >= Low => frames = back[u]
       /\ ~input[u].paused /\ total > High => frames = Enter(back[u], TRUE, Latency)
    BY <1>1, <1>9, SizeSet
<1>11. ASSUME input'[u].paused PROVE total + left + Rest(p, frames) <= Room
  <2>1. CASE input[u].paused
    <3>1. frames = back[u]
        BY <1>10, <1>11, <2>1
    <3>2. Room \in Nat
        BY <1>2 DEF Room
    <3> HIDE DEF bytes, left, size, pkt
    <3> QED
        BY <1>2, <1>3, <1>6, <1>8, <2>1, <3>1, <3>2 DEF total
  <2>2. CASE ~input[u].paused
    <3>1. frames = Enter(back[u], TRUE, Latency)
        BY <1>10, <1>11, <2>2
    <3>8. \A x \in BOOLEAN : /\ Enter(back[u], x, Latency) \in InTransit(BOOLEAN)
                             /\ Enter(back[u], x, Latency) # <<>>
        BY <1>2, EnterLine
    <3>9. /\ Enter(back[u], TRUE, Latency) \in InTransit(BOOLEAN)
          /\ Enter(back[u], TRUE, Latency) # <<>>
        BY <3>8
    <3>2. frames \in InTransit(BOOLEAN) /\ frames # <<>>
        BY <3>1, <3>9
    <3>3. Last(frames).left = Latency
      <4>1. frames = Append(back[u], [item |-> TRUE, left |-> Latency])
          BY <3>1 DEF Enter
      <4>2. back[u] \in Seq([item: BOOLEAN, left: Nat])
          BY <1>2 DEF InTransit
      <4>3. [item |-> TRUE, left |-> Latency] \in [item: BOOLEAN, left: Nat]
          BY <1>2
      <4> DEFINE e == [item |-> TRUE, left |-> Latency]
                 R == [item: BOOLEAN, left: Nat]
      <4>4. e \in R /\ back[u] \in Seq(R) /\ frames = Append(back[u], e) /\ e.left = Latency
          BY <4>1, <4>2, <4>3
      <4> HIDE DEF e, R
      <4>5. frames[Len(frames)] = e
          BY <4>4
      <4> QED
          BY <4>4, <4>5 DEF Last
    <3>4. input[u].size <= High
        BY <2>2, <1>2 DEF Counts, Decided
    <3>5. size + bytes + Rest(p, frames) <= Room
        BY <1>1, <3>2, <3>3, <3>4, LinkCrosses
    <3>6. Rest(p, frames) \in Nat
        BY <1>2, <3>2, RestTypes
    <3>7. Room \in Nat
        BY <1>2 DEF Room
    <3> HIDE DEF bytes, left, size, pkt, p
    <3> QED
        BY <1>2, <1>6, <1>8, <3>5, <3>6, <3>7 DEF total
  <2> QED
      BY <2>1, <2>2
<1>12. Owes(u)'
    BY <1>1, <1>10, <1>11 DEF Owes
<1> QED
    BY <1>1, <1>4, <1>5, <1>12 DEF Link

\* A packet leaves the switch: the count of its input queue goes down.
LEMMA LinkDrains ==
    ASSUME PfcAssumption, IInv, Counts, NEW u \in Ups, Link(u), NEW n \in Nat,
           SetSize(u, input[u].size - n), port'[u] = port[u], wire'[u] = wire[u]
    PROVE  Link(u)'
<1> DEFINE size == input[u].size
           total == size - n
           bytes == Bytes(Items(wire[u]), u)
<1>1. /\ size \in Int /\ bytes \in Nat /\ Rest(port[u], back[u]) \in Nat
      /\ High \in Nat /\ Low \in Nat /\ Low < High /\ Room \in Nat
      /\ input[u].paused \in BOOLEAN
    BY LinkTypes DEF Room
<1>2. total \in Int /\ total <= size
    BY <1>1
<1>3. ~input[u].paused => size <= High
    BY <1>1 DEF Counts, Decided
<1>4. input[u].paused => size + bytes + Rest(port[u], back[u]) <= Room
    BY DEF Link, Owes
<1> HIDE DEF total
<1>5. /\ input'[u].size = total
      /\ input'[u].paused <=> \/ input[u].paused /\ total >= Low
                              \/ ~input[u].paused /\ total > High
      /\ input[u].paused /\ total >= Low => back'[u] = back[u]
    BY <1>2, SizeSet DEF total
<1> HIDE DEF size
<1>6. input'[u].paused => input[u].paused /\ total >= Low
    BY <1>1, <1>2, <1>3, <1>5
<1>7. input'[u].paused => total + bytes + Rest(port[u], back'[u]) <= Room
    BY <1>1, <1>2, <1>4, <1>5, <1>6
<1>8. Owes(u)'
    BY <1>5, <1>7 DEF Owes
<1> QED
    BY <1>8 DEF Link

\* The clock moves: what is on the wire, what is being sent and the frames on
\* their way move together.
LEMMA LinkTicks ==
    ASSUME PfcAssumption, IInv, NEW u \in Ups, Link(u), Tick
    PROVE  Link(u)'
<1> DEFINE p == port[u]
           a == port'[u]
           line == wire[u]
           new == Later(line)
           frames == back[u]
           soon == Later(frames)
           L == Last(frames).left
           bytes == Bytes(Items(line), u)
           size == input[u].size
<1>1. /\ a = [p EXCEPT !.left = IF p.sending THEN @ - 1 ELSE @]
      /\ wire'[u] = new /\ back'[u] = soon /\ input'[u] = input[u]
      /\ ~Due(line) /\ ~Due(frames) /\ ~(p.sending /\ p.left = 0)
    BY DEF Tick, Sent
<1>2. /\ p \in Port /\ PortConsistent(p) /\ line \in InTransit(Packet) /\ AtMost(line, Latency)
      /\ InTime(line) /\ size \in Int /\ bytes \in Nat
      /\ frames \in InTransit(BOOLEAN) /\ AtMost(frames, Latency) /\ InTime(frames)
      /\ Latency \in Nat /\ MaxSize \in Nat /\ Room \in Nat /\ p.sending \in BOOLEAN
    BY LinkTypes DEF Room
<1>3. /\ Spaced(line) /\ Behind(p, line)
      /\ input[u].paused => size + bytes + Rest(p, frames) <= Room
    BY DEF Link, Owes
<1>4. /\ a.q = p.q /\ (a.sending <=> p.sending)
      /\ a.left = IF p.sending THEN p.left - 1 ELSE p.left
    BY <1>1, <1>2 DEF Port
<1>5. /\ Spaced(new) /\ ((new = <<>>) <=> (line = <<>>))
      /\ line # <<>> => Last(new).left = Last(line).left - 1
    BY <1>2, <1>3, SpacedLater
<1>6. Items(new) = Items(line)
    BY <1>2, ItemsLater
<1>7. p.left \in Nat /\ (p.sending => Head(p.q).size \in Nat)
    BY <1>2, RestTypes
<1>8. line # <<>> => Last(line).left \in Nat
    BY <1>2, LastLine
<1>9. Behind(a, new)
  <2>1. p.sending => /\ p.left <= Head(p.q).size
                     /\ line # <<>> => Last(line).left + (Head(p.q).size - p.left) <= Latency
      BY <1>3 DEF Behind
  <2> HIDE DEF new, line, a, p
  <2>2. p.sending => /\ a.left <= Head(p.q).size
                     /\ line # <<>> => Last(new).left + (Head(p.q).size - a.left) <= Latency
      BY <1>2, <1>4, <1>5, <1>7, <1>8, <2>1
  <2> QED
      BY <1>4, <1>5, <2>2 DEF Behind
<1>10. Rest(a, soon) <= Rest(p, frames) /\ Rest(a, soon) \in Int
  <2>1. (soon = <<>>) <=> (frames = <<>>)
      BY <1>1, <1>2, LaterLine
  <2>2. CASE frames = <<>>
    <3>1. Rest(a, soon) = Rest(p, frames)
        BY <1>4, <2>1, <2>2 DEF Rest
    <3>2. Rest(p, frames) \in Nat
        BY <1>2, RestTypes
    <3> QED
        BY <3>1, <3>2
  <2>3. CASE frames # <<>>
    <3>1. Last(soon).left = L - 1 /\ L \in Nat
      <4>1. /\ DOMAIN frames = 1 .. Len(frames) /\ Len(frames) \in DOMAIN frames
            /\ Last(frames) = frames[Len(frames)] /\ L \in Nat
          BY <1>2, <2>3, LineItems, LastLine
      <4>2. Len(soon) = Len(frames)
          BY <1>2, <4>1, LineItems DEF Later
      <4>3. frames[Len(frames)] \in [item: BOOLEAN, left: Nat]
          BY <1>2, <4>1, LineItems
      <4>4. soon[Len(frames)] = [frames[Len(frames)] EXCEPT !.left = @ - 1]
          BY <4>1 DEF Later
      <4>5. soon[Len(frames)].left = L - 1
          BY <4>1, <4>3, <4>4
      <4> QED
          BY <4>1, <4>2, <4>5 DEF Last
    <3> HIDE DEF soon, frames, L, a, p
    <3>2. CASE p.sending
      <4>1. Rest(p, frames) = Head(p.q).size + IF p.left <= L THEN L - p.left + MaxSize ELSE 0
          BY <2>3, <3>2 DEF Rest, L
      <4>2. Rest(a, soon) = Head(p.q).size + IF a.left <= L - 1 THEN (L - 1) - a.left + MaxSize ELSE 0
          BY <1>4, <2>1, <2>3, <3>1, <3>2 DEF Rest
      <4>3. a.left = p.left - 1
          BY <1>4, <3>2
      <4> QED
          BY <1>2, <1>7, <3>1, <3>2, <4>1, <4>2, <4>3
    <3>3. CASE ~p.sending
      <4>1. Rest(p, frames) = L + MaxSize
          BY <2>3, <3>3 DEF Rest, L
      <4>2. Rest(a, soon) = (L - 1) + MaxSize
          BY <1>4, <2>1, <2>3, <3>1, <3>3 DEF Rest
      <4> QED
          BY <1>2, <3>1, <4>1, <4>2
    <3> QED
        BY <3>2, <3>3
  <2> QED
      BY <2>2, <2>3
<1>11. Rest(p, frames) \in Nat
    BY <1>2, RestTypes
<1>12. Owes(u)'
  <2> HIDE DEF new, line, a, p, frames, soon, size, bytes
  <2>1. input[u].paused => size + bytes + Rest(a, soon) <= Room
      BY <1>2, <1>3, <1>10, <1>11
  <2> QED
      BY <1>1, <1>6, <2>1 DEF Owes, size, bytes, a, line
<1> QED
    BY <1>1, <1>5, <1>9, <1>12 DEF Link

LEMMA InitHeadroom == PfcAssumption /\ Init => Headroom
BY DEF Init, Headroom, Link, Owes, Spaced, Behind

\* Every step keeps the headroom of every link.
LEMMA NextHeadroom == PfcAssumption /\ IInv /\ Counts /\ Headroom /\ [Next]_vars => Headroom'
<1> SUFFICES ASSUME PfcAssumption, IInv, Counts, Headroom, [Next]_vars, NEW u \in Ups
             PROVE  Link(u)'
    BY DEF Headroom
<1>0. /\ Link(u) /\ u \in Ups \cup Outs /\ \A o \in Outs : u # o
      /\ port \in [Ups \cup Outs -> Port] /\ wire \in [Ups -> InTransit(Packet)]
      /\ back \in [Ups -> InTransit(BOOLEAN)]
    BY Types DEF Headroom, PfcAssumption
<1>1. ASSUME NEW v \in Ups, UpstreamSends(v) PROVE Link(u)'
  <2>1. CASE v = u
      BY <1>0, <1>1, <2>1, LinkSends
  <2>2. CASE v # u
    <3>1. /\ port' = [port EXCEPT ![v] = CompleteService(@)] /\ back' = back /\ input' = input
          /\ wire' = [wire EXCEPT ![v] = Enter(@, Head(port[v].q), Latency)]
        BY <1>1 DEF UpstreamSends
    <3> QED
        BY <1>0, <2>2, <3>1, LinkStays
  <2> QED
      BY <2>1, <2>2
<1>2. ASSUME NEW v \in Ups, Arrives(v) PROVE Link(u)'
  <2>1. CASE v = u
      BY <1>0, <1>2, <2>1, LinkArrives
  <2>2. CASE v # u
    <3>1. /\ SetSize(v, input[v].size + Head(wire[v]).item.size) /\ port' = port
          /\ wire' = [wire EXCEPT ![v] = Tail(@)] /\ wire[v] # <<>>
        BY <1>2 DEF Arrives, Due
    <3>2. input[v].size + Head(wire[v]).item.size \in Int
      <4>1. Head(wire[v]).item \in Packet
          BY <3>1, Types, LineItems
      <4>2. Head(wire[v]).item.size \in Nat
          BY <4>1, Packets
      <4>3. input[v].size \in Int
          BY Types
      <4> QED
          BY <4>2, <4>3
    <3>3. input'[u] = input[u] /\ back'[u] = back[u]
        BY <2>2, <3>1, <3>2, SizeSet
    <3> QED
        BY <1>0, <2>2, <3>1, <3>3, LinkStays
  <2> QED
      BY <2>1, <2>2
<1>3. CASE Switches
  <2>1. Head(fabric).item.out \in Outs
    <3>1. Head(fabric).item \in Packet
        BY <1>3, Types, LineItems DEF Switches, Due
    <3> QED
        BY <3>1, Packets
  <2>2. port'[u] = port[u] /\ UNCHANGED <<input, wire, back>>
      BY <1>0, <1>3, <2>1 DEF Switches
  <2> QED
      BY <1>0, <2>2, LinkStays
<1>4. ASSUME NEW o \in Outs, SwitchSends(o) PROVE Link(u)'
  <2> DEFINE pkt == Head(port[o].q)
             v == pkt.from
  <2>1. /\ port[o].sending /\ port' = [port EXCEPT ![o] = CompleteService(@)]
        /\ SetSize(v, input[v].size - pkt.size) /\ wire' = wire
      BY <1>4 DEF SwitchSends, Sent
  <2>2. pkt \in Packet
      BY <2>1, Types, CompletePort
  <2>7. v \in Ups /\ pkt.size \in Nat
      BY <2>2, Packets
  <2>3. v \in Ups /\ pkt.size \in Nat /\ input[v].size - pkt.size \in Int
    <3>1. input[v].size \in Int
        BY <2>7, Types
    <3> QED
        BY <2>7, <3>1
  <2>4. port'[u] = port[u] /\ wire'[u] = wire[u]
      BY <1>0, <2>1
  <2> HIDE DEF v
  <2>5. CASE v = u
      BY <1>0, <2>1, <2>3, <2>4, <2>5, LinkDrains
  <2>6. CASE v # u
    <3>1. input'[u] = input[u] /\ back'[u] = back[u]
        BY <2>1, <2>3, <2>6, SizeSet
    <3> QED
        BY <1>0, <2>4, <3>1, LinkStays
  <2> QED
      BY <2>5, <2>6
<1>5. ASSUME NEW v \in Ups, Inject(v) PROVE Link(u)'
  <2>1. PICK o \in Outs, s \in Sizes :
            port' = [port EXCEPT ![v] = ReceiveData(@, [from |-> v, out |-> o, size |-> s])]
      BY <1>5 DEF Inject
  <2>2. UNCHANGED <<scene, input, wire, back, fabric>>
      BY <1>5 DEF Inject
  <2>3. CASE v = u
    <3> DEFINE pkt == [from |-> v, out |-> o, size |-> s]
               a == ReceiveData(port[u], pkt)
    <3>1. pkt \in Packet
        BY DEF Packet
    <3> HIDE DEF pkt
    <3>2. /\ port[u] \in Port /\ PortConsistent(port[u]) /\ back[u] \in InTransit(BOOLEAN)
          /\ Rest(port[u], back[u]) \in Nat
          /\ back[u] = <<>> => (input[u].paused <=> port[u].state # "READY")
        BY LinkTypes
    <3>3. /\ a \in Port /\ PortConsistent(a)
          /\ port[u].sending => /\ a.sending /\ a.left = port[u].left
                                /\ Head(a.q) = Head(port[u].q)
          /\ ~port[u].sending => Whole(a)
          /\ port[u].state # "READY" /\ ~port[u].sending => ~a.sending
        BY <3>1, <3>2, DataPort, DataQueue
    <3>4. port'[u] = a
        BY <1>0, <2>1, <2>3 DEF pkt
    <3> HIDE DEF a
    <3>5. ~port[u].sending /\ input[u].paused /\ back[u] = <<>> => ~a.sending
        BY <3>2, <3>3
    <3> QED
        BY <1>0, <2>2, <3>2, <3>3, <3>4, <3>5, PortChanges
  <2>4. CASE v # u
      BY <1>0, <2>1, <2>2, <2>4, LinkStays
  <2> QED
      BY <2>3, <2>4
<1>6. ASSUME NEW v \in Ups, FrameArrives(v) PROVE Link(u)'
  <2>1. /\ port' = [port EXCEPT ![v] = ReceiveFrame(@, Head(back[v]).item)]
        /\ back' = [back EXCEPT ![v] = Tail(@)] /\ back[v] # <<>> /\ Head(back[v]).left = 0
        /\ UNCHANGED <<scene, input, wire, fabric>>
      BY <1>6 DEF FrameArrives, Due
  <2>2. CASE v = u
    <3> DEFINE p == port[u]
               line == back[u]
               f == Head(line).item
               a == ReceiveFrame(p, f)
               frames == Tail(line)
    <3>1. /\ p \in Port /\ PortConsistent(p) /\ line \in InTransit(BOOLEAN) /\ Latency \in Nat
          /\ InTime(line) /\ AtMost(line, Latency) /\ MaxSize \in Nat /\ line # <<>>
        BY <2>1, <2>2, LinkTypes
    <3>2. /\ frames \in InTransit(BOOLEAN) /\ f \in BOOLEAN
          /\ frames # <<>> => Last(frames) = Last(line)
          /\ frames = <<>> => Last(line) = Head(line)
        BY <3>1, LeaveLine
    <3>3. /\ a \in Port /\ PortConsistent(a)
          /\ p.sending => a.sending /\ a.left = p.left /\ a.q = p.q
          /\ ~p.sending => Whole(a)
          /\ ~p.sending /\ f => ~a.sending
        BY <3>1, <3>2, FramePort, FrameQueue
    <3>4. port'[u] = a /\ back'[u] = frames
        BY <1>0, <2>1, <2>2
    <3>5. frames = <<>> /\ input[u].paused => f
      <4>1. Told(u) <=> input[u].paused
          BY InvParts
      <4> QED
          BY <3>1, <3>2, <4>1 DEF Told
    <3>6. Rest(p, frames) <= Rest(p, line)
      <4>1. Rest(p, line) \in Nat /\ (p.sending => Head(p.q).size \in Nat) /\ p.left \in Nat
            /\ Last(line).left \in Nat
          BY <3>1, RestTypes
      <4>2. CASE frames # <<>>
        <5>1. Rest(p, frames) = Rest(p, line)
            BY <3>1, <3>2, <4>2 DEF Rest
        <5> QED
            BY <4>1, <5>1
      <4>3. CASE frames = <<>>
        <5> HIDE DEF p, line, frames
        <5> QED
            BY <3>1, <4>1, <4>3 DEF Rest
      <4> QED
          BY <4>2, <4>3
    <3> HIDE DEF a, f, frames
    <3> QED
        BY <1>0, <2>1, <3>2, <3>3, <3>4, <3>5, <3>6, PortChanges
  <2>3. CASE v # u
      BY <1>0, <2>1, <2>3, LinkStays
  <2> QED
      BY <2>2, <2>3
<1>7. ASSUME NEW o \in Outs, DownstreamPauses(o) \/ DownstreamResumes(o) PROVE Link(u)'
  <2>1. PICK f \in BOOLEAN : port' = [port EXCEPT ![o] = ReceiveFrame(@, f)]
      BY <1>7 DEF DownstreamPauses, DownstreamResumes
  <2>2. UNCHANGED <<input, wire, back>>
      BY <1>7 DEF DownstreamPauses, DownstreamResumes
  <2> QED
      BY <1>0, <2>1, <2>2, LinkStays
<1>8. CASE Tick
    BY <1>0, <1>8, LinkTicks
<1>9. CASE UNCHANGED vars
    BY <1>0, <1>9, LinkStays DEF vars
<1> QED
    BY <1>1, <1>2, <1>3, <1>4, <1>5, <1>6, <1>7, <1>8, <1>9 DEF Next, System

\* The buffer never overflows: no input queue ever holds more than the high
\* threshold, two packets and what two latencies of the link carry, for any
\* links, traffic, packets, delays and thresholds.
THEOREM HeadroomIsEnough == ASSUME PfcAssumption PROVE Spec => []HeadroomSuffices
<1>1. Init => IInv /\ Counts /\ Headroom
    BY InitInv, InitCounts, InitHeadroom
<1>2. IInv /\ Counts /\ Headroom /\ [Next]_vars => (IInv /\ Counts /\ Headroom)'
    BY NextInv, NextCounts, NextHeadroom
<1>3. IInv /\ Counts /\ Headroom => HeadroomSuffices
  <2> SUFFICES ASSUME IInv, Counts, Headroom, NEW u \in Ups
               PROVE  input[u].size <= High + 2 * MaxSize + 2 * Latency
      BY DEF HeadroomSuffices
  <2>1. /\ input[u].size \in Int /\ Bytes(Items(wire[u]), u) \in Nat
        /\ Rest(port[u], back[u]) \in Nat /\ MaxSize \in Nat /\ Latency \in Nat /\ High \in Nat
      BY LinkTypes
  <2>2. input[u].paused =>
            input[u].size + Bytes(Items(wire[u]), u) + Rest(port[u], back[u]) <= Room
      BY DEF Headroom, Link, Owes
  <2>3. ~input[u].paused => input[u].size <= High
      BY <2>1 DEF Counts, Decided
  <2> QED
      BY <2>1, <2>2, <2>3 DEF Room
<1> QED
    BY <1>1, <1>2, <1>3, PTL DEF Spec

=============================================================================
