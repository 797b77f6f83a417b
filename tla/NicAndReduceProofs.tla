------------------------- MODULE NicAndReduceProofs -------------------------
(***************************************************************************)
(* Theorems about UecNIC, for any number of senders, ports, packets and    *)
(* losses, and about IncReduce, for any tree, any number of blocks and any *)
(* number of mishaps: how the packets of a host get to its ports, and how  *)
(* those of an all-reduce are summed on their way.  The two share no state. *)
(*                                                                         *)
(* The NIC is work-conserving, no sender that waits is forgotten, and      *)
(* senders and NIC stay in step.  The three are inductive together, Sound  *)
(* below: that nobody waits while a port is idle is what makes an          *)
(* immediate transmission meet an empty list and no waiting control        *)
(* packet, and that everybody who can send is registered is what leaves    *)
(* the list without one when it is empty.                                  *)
(*                                                                         *)
(* The argument about IncReduce follows the share of one host in one block *)
(* on its way up: it is in one place only, a packet on a link or an entry  *)
(* of a table or the switch at the top (Alone, TopAlone); what is there    *)
(* counts it (Weighed); and on the way down a host is headed for by one    *)
(* copy (OneCopy).  What a host has settled is added in Settles, and where *)
(* a share waits while nothing was dropped in Somewhere.                   *)
(***************************************************************************)
EXTENDS UecNIC, IncReduce, ArithmeticTheorems, SequenceTheorems

-----------------------------------------------------------------------------
(* The NIC.                                                                *)

HostType ==
    [busy : SUBSET Ports, active : Seq(Srcs), control : Nat,
     crt : 0 .. (RatioData + RatioControl - 1), fault : Faults, src : [Srcs -> Senders]]

InList(list, f) == \E i \in DOMAIN list : list[i] = f

PortsSound(h) == Free(h) # {} => h.active = <<>> /\ h.control = 0

SenderSound(h, f) == h.src[f].blocked \/ CanSend(h.src[f]) => InList(h.active, f)

Sound(h) == h.fault = "none" /\ PortsSound(h) /\ \A f \in Srcs : SenderSound(h, f)

Good(h) == h.fault = "rtx_empty" \/ Sound(h)

Inv == host \in HostType /\ losses \in Nat /\ Good(host)

-----------------------------------------------------------------------------
(* Sets and lists.                                                         *)

LEMMA SmallestOf ==
    ASSUME NEW S \in SUBSET Nat, S # {}
    PROVE  Min(S) \in S /\ \A m \in S : Min(S) <= m
<1> DEFINE R == OpToRel(<, Nat)
<1>1. \A m, n \in Nat : m < n => <<m, n>> \in R
    BY DEF OpToRel
<1>2. IsWellFoundedOn(R, Nat)
    BY NatLessThanWellFounded
<1> HIDE DEF R
<1>3. PICK n \in S : \A m \in S : <<m, n>> \notin R
    BY <1>2, WFMin
<1>4. \A m \in S : n <= m
  <2>1. ASSUME NEW m \in S PROVE n <= m
    <3>1. m \in Nat /\ n \in Nat /\ ~(m < n)
        BY <1>1, <1>3
    <3> QED
        BY <3>1
  <2> QED
      BY <2>1
<1> QED
    BY <1>3, <1>4 DEF Min

LEMMA AppendList ==
    ASSUME NEW list \in Seq(Srcs), NEW f \in Srcs
    PROVE  /\ Append(list, f) \in Seq(Srcs)
           /\ InList(Append(list, f), f)
           /\ \A g \in Srcs : InList(list, g) => InList(Append(list, f), g)
<1>1. /\ Append(list, f) \in Seq(Srcs) /\ Len(Append(list, f)) = Len(list) + 1
      /\ \A i \in 1 .. Len(list) : Append(list, f)[i] = list[i]
      /\ Append(list, f)[Len(list) + 1] = f
      /\ Len(list) \in Nat
      /\ DOMAIN list = 1 .. Len(list)
      /\ DOMAIN Append(list, f) = 1 .. Len(Append(list, f))
    BY AppendProperties, LenProperties
<1> QED
    BY <1>1 DEF InList

\* The list from place n + 1 on.
LEMMA DropList ==
    ASSUME NEW list \in Seq(Srcs), NEW n \in 0 .. Len(list)
    PROVE  LET rest == SubSeq(list, n + 1, Len(list)) IN
           /\ rest \in Seq(Srcs) /\ Len(rest) = Len(list) - n
           /\ \A i \in 1 .. Len(rest) : rest[i] = list[n + i]
           /\ \A g \in Srcs : InList(rest, g) <=> \E i \in (n + 1) .. Len(list) : list[i] = g
<1> DEFINE rest == SubSeq(list, n + 1, Len(list))
<1>1. Len(list) \in Nat /\ DOMAIN list = 1 .. Len(list) /\ n \in Nat
    BY LenProperties
<1>2. \A i \in n + 1 .. Len(list) : list[i] \in Srcs
    BY <1>1, ElementOfSeq
<1>3. /\ rest \in Seq(Srcs)
      /\ Len(rest) = IF n + 1 <= Len(list) THEN Len(list) - (n + 1) + 1 ELSE 0
      /\ \A i \in 1 .. Len(list) - (n + 1) + 1 : rest[i] = list[n + 1 + i - 1]
    BY <1>1, <1>2, SubSeqProperties
<1>5. DOMAIN rest = 1 .. Len(rest)
    BY <1>3, LenProperties
<1> HIDE DEF rest
<1>4. Len(rest) = Len(list) - n /\ Len(list) - (n + 1) + 1 = Len(list) - n
  <2>1. Len(list) \in Nat /\ n \in Nat /\ n <= Len(list)
      BY <1>1
  <2>2. Len(rest) = IF n + 1 <= Len(list) THEN Len(list) - (n + 1) + 1 ELSE 0
      BY <1>3
  <2>3. \A a, b \in Nat : b <= a =>
            a - (b + 1) + 1 = a - b /\ (IF b + 1 <= a THEN a - (b + 1) + 1 ELSE 0) = a - b
      OBVIOUS
  <2> QED
      BY <2>1, <2>2, <2>3
<1>6. ASSUME NEW i \in 1 .. Len(rest) PROVE rest[i] = list[n + i] /\ n + i \in (n + 1) .. Len(list)
  <2>1. i \in 1 .. Len(list) - (n + 1) + 1 /\ n + 1 + i - 1 = n + i /\ n + i \in (n + 1) .. Len(list)
      BY <1>1, <1>4
  <2>2. rest[i] = list[n + 1 + i - 1]
      BY <2>1, <1>3
  <2> QED
      BY <2>1, <2>2
<1>7. ASSUME NEW g \in Srcs PROVE InList(rest, g) <=> \E i \in (n + 1) .. Len(list) : list[i] = g
  <2>1. ASSUME NEW i \in 1 .. Len(rest), rest[i] = g PROVE \E j \in (n + 1) .. Len(list) : list[j] = g
      BY <2>1, <1>1, <1>4, <1>6
  <2>2. ASSUME NEW j \in (n + 1) .. Len(list), list[j] = g PROVE \E i \in 1 .. Len(rest) : rest[i] = g
    <3>1. j - n \in 1 .. Len(rest) /\ n + (j - n) = j
        BY <1>1, <1>4
    <3> QED
        BY <3>1, <2>2, <1>6
  <2> QED
      BY <2>1, <2>2, <1>5 DEF InList
<1> QED
    BY <1>3, <1>4, <1>6, <1>7 DEF rest

LEMMA FreeFinite ==
    ASSUME NEW h \in HostType
    PROVE  /\ IsFiniteSet(Free(h)) /\ Cardinality(Free(h)) \in Nat
           /\ Free(h) \subseteq Ports
           /\ Cardinality(Free(h)) = 0 <=> Free(h) = {}
<1>1. Free(h) \in SUBSET Ports
    BY DEF Free
<1>2. IsFiniteSet(Free(h))
    BY <1>1, NicAssumption, FS_Subset
<1> QED
    BY <1>1, <1>2, FS_CardinalityType, FS_EmptySet

-----------------------------------------------------------------------------
(* The sender's side.                                                      *)

LEMMA SentFields ==
    ASSUME NEW r \in Senders, NEW k \in Nat, k <= Work(r), k <= r.room
    PROVE  /\ Sent(r, k) \in Senders
           /\ Sent(r, k).blocked = r.blocked
           /\ Work(Sent(r, k)) = Work(r) - k
           /\ Sent(r, k).room = r.room - k
<1> DEFINE again == IF k < r.rtx THEN k ELSE r.rtx
<1>1. /\ r.backlog \in Nat /\ r.rtx \in Nat /\ r.flight \in Nat /\ r.room \in Nat
      /\ r.blocked \in BOOLEAN
    BY DEF Senders
<1>2. again \in Nat /\ again <= r.rtx /\ k - again \in Nat /\ k - again <= r.backlog
    BY <1>1 DEF Work
<1> HIDE DEF again
<1>3. Sent(r, k) = [r EXCEPT !.rtx = @ - again, !.backlog = @ - (k - again),
                             !.room = @ - k, !.flight = @ + k]
    BY DEF Sent, again
<1>4. /\ Sent(r, k).rtx = r.rtx - again /\ Sent(r, k).backlog = r.backlog - (k - again)
      /\ Sent(r, k).room = r.room - k /\ Sent(r, k).flight = r.flight + k
      /\ Sent(r, k).blocked = r.blocked
    BY <1>3 DEF Senders
<1>5. Sent(r, k) = [backlog |-> r.backlog - (k - again), rtx |-> r.rtx - again,
                    flight |-> r.flight + k, room |-> r.room - k, blocked |-> r.blocked]
    BY <1>3 DEF Senders
<1>6. Sent(r, k) \in Senders
    BY <1>1, <1>2, <1>5 DEF Senders
<1>7. Work(Sent(r, k)) = Work(r) - k
    BY <1>1, <1>2, <1>4 DEF Work
<1> QED
    BY <1>4, <1>6, <1>7

LEMMA SentNone ==
    ASSUME NEW r \in Senders
    PROVE  Sent(r, 0) = r
<1>1. /\ r.backlog \in Nat /\ r.rtx \in Nat /\ r.flight \in Nat /\ r.room \in Nat
      /\ r.blocked \in BOOLEAN
    BY DEF Senders
<1> DEFINE again == IF 0 < r.rtx THEN 0 ELSE r.rtx
<1>2. again = 0
    BY <1>1
<1> HIDE DEF again
<1>3. Sent(r, 0) = [r EXCEPT !.rtx = @ - again, !.backlog = @ - (0 - again),
                             !.room = @ - 0, !.flight = @ + 0]
    BY DEF Sent, again
<1>4. /\ r.rtx - again = r.rtx /\ r.backlog - (0 - again) = r.backlog
      /\ r.room - 0 = r.room /\ r.flight + 0 = r.flight
    BY <1>1, <1>2
<1> QED
    BY <1>3, <1>4 DEF Senders

\* The least of three naturals is one of them.
LEMMA LeastOfThree ==
    ASSUME NEW a \in Nat, NEW b \in Nat, NEW c \in Nat
    PROVE  /\ Min({a, b, c}) \in Nat
           /\ Min({a, b, c}) <= a /\ Min({a, b, c}) <= b /\ Min({a, b, c}) <= c
           /\ Min({a, b, c}) \in {a, b, c}
<1>1. {a, b, c} \in SUBSET Nat /\ {a, b, c} # {}
    OBVIOUS
<1> QED
    BY <1>1, SmallestOf

-----------------------------------------------------------------------------
(* The host's record.                                                      *)

LEMMA HostFields ==
    ASSUME NEW h \in HostType
    PROVE  /\ h.busy \in SUBSET Ports /\ h.active \in Seq(Srcs) /\ h.control \in Nat
           /\ h.crt \in 0 .. (RatioData + RatioControl - 1) /\ h.fault \in Faults
           /\ h.src \in [Srcs -> Senders]
           /\ \A f \in Srcs : h.src[f] \in Senders
<1>1. h.src \in [Srcs -> Senders]
    BY DEF HostType
<1> QED
    BY <1>1 DEF HostType

\* Only the record of f changes.
LEMMA WithSender ==
    ASSUME NEW h \in HostType, NEW f \in Srcs, NEW r \in Senders
    PROVE  LET g == [h EXCEPT !.src[f] = r] IN
           /\ g \in HostType
           /\ g.busy = h.busy /\ g.active = h.active /\ g.control = h.control
           /\ g.crt = h.crt /\ g.fault = h.fault
           /\ g.src[f] = r /\ \A x \in Srcs : x # f => g.src[x] = h.src[x]
<1> DEFINE g == [h EXCEPT !.src[f] = r]
           s == [h.src EXCEPT ![f] = r]
<1>1. s \in [Srcs -> Senders] /\ s[f] = r /\ \A x \in Srcs : x # f => s[x] = h.src[x]
    BY HostFields
<1>2. g = [h EXCEPT !.src = s]
    BY DEF HostType
<1> HIDE DEF g, s
<1>3. /\ g.busy = h.busy /\ g.active = h.active /\ g.control = h.control
      /\ g.crt = h.crt /\ g.fault = h.fault /\ g.src = s
    BY <1>2 DEF HostType
<1>4. g \in HostType
    BY <1>1, <1>2 DEF HostType
<1> QED
    BY <1>1, <1>3, <1>4 DEF g

\* An assertion that holds changes nothing.
LEMMA NoFault ==
    ASSUME NEW h \in HostType, NEW A, NEW w, ~A
    PROVE  Fails(h, A, w) = h
BY DEF Fails, HostType

\* Nobody was registered: startSending only takes the ports.
LEMMA StartSendingEmpty ==
    ASSUME NEW h \in HostType, NEW f \in Srcs, NEW q \in SUBSET Ports, h.active = <<>>
    PROVE  StartSending(h, f, q) = [h EXCEPT !.busy = @ \cup q]
<1>1. Len(h.active) = 0 /\ SubSeq(h.active, 1, 0) = <<>>
    BY EmptySeq
<1>2. Cardinality(q) \in Nat
    BY NicAssumption, FS_Subset, FS_CardinalityType
<1> DEFINE n == IF Cardinality(q) < Len(h.active) THEN Cardinality(q) ELSE Len(h.active)
<1>3. n = 0
    BY <1>1, <1>2
<1> HIDE DEF n
<1>4. Fails(h, \E i \in 1 .. n : h.active[i] # f, "not_first") = h
    BY <1>3 DEF Fails, HostType
<1>5. SubSeq(h.active, n + 1, Len(h.active)) = h.active
    BY <1>1, <1>3
<1>6. StartSending(h, f, q) = [h EXCEPT !.busy = @ \cup q, !.active = SubSeq(@, n + 1, Len(@))]
    BY <1>4 DEF StartSending, n
<1> QED
    BY <1>5, <1>6 DEF HostType

\* No port is taken: startSending is not called at all.
LEMMA StartSendingNone ==
    ASSUME NEW h \in HostType, NEW f \in Srcs
    PROVE  StartSending(h, f, {}) = h
<1>1. Cardinality({}) = 0 /\ Len(h.active) \in Nat /\ h.active \in Seq(Srcs)
    BY FS_EmptySet, HostFields, LenProperties
<1> DEFINE n == IF Cardinality({}) < Len(h.active) THEN Cardinality({}) ELSE Len(h.active)
<1>3. n = 0
    BY <1>1
<1> HIDE DEF n
<1>4. Fails(h, \E i \in 1 .. n : h.active[i] # f, "not_first") = h
    BY <1>3 DEF Fails, HostType
<1>5. SubSeq(h.active, n + 1, Len(h.active)) = h.active
  <2> DEFINE rest == SubSeq(h.active, n + 1, Len(h.active))
  <2>1. /\ rest \in Seq(Srcs) /\ Len(rest) = Len(h.active) - n
        /\ \A i \in 1 .. Len(rest) : rest[i] = h.active[n + i]
      BY <1>1, <1>3, DropList
  <2> HIDE DEF rest
  <2>2. Len(rest) = Len(h.active) /\ \A i \in 1 .. Len(rest) : rest[i] = h.active[i]
      BY <2>1, <1>1, <1>3
  <2> QED
      BY <2>1, <2>2, <1>1, SeqEqual DEF rest
<1>6. StartSending(h, f, {}) = [h EXCEPT !.busy = @ \cup {}, !.active = SubSeq(@, n + 1, Len(@))]
    BY <1>4 DEF StartSending, n
<1> QED
    BY <1>5, <1>6 DEF HostType

\* A sender registers: it is now on the list, and everybody who was still is.
LEMMA Waits ==
    ASSUME NEW h \in HostType, NEW f \in Srcs
    PROVE  /\ Wait(h, f) \in HostType
           /\ Wait(h, f).busy = h.busy /\ Wait(h, f).control = h.control
           /\ Wait(h, f).fault = h.fault
           /\ Wait(h, f).active = Append(h.active, f)
           /\ \A x \in Srcs : x # f => Wait(h, f).src[x] = h.src[x]
<1> DEFINE g == [h EXCEPT !.active = Append(@, f)]
           r == [h.src[f] EXCEPT !.blocked = TRUE]
<1>1. g \in HostType /\ g.src = h.src /\ g.active = Append(h.active, f) /\ g.busy = h.busy
      /\ g.control = h.control /\ g.fault = h.fault
    BY HostFields, AppendList DEF HostType
<1>2. r \in Senders
    BY HostFields DEF Senders
<1>3. Wait(h, f) = [g EXCEPT !.src[f] = r]
    BY DEF Wait, HostType
<1> HIDE DEF g, r
<1> QED
    BY <1>1, <1>2, <1>3, WithSender

\* When no port is idle, registering leaves everything sound if the others were.
LEMMA WaitsSoundly ==
    ASSUME NEW h \in HostType, NEW f \in Srcs, h.fault = "none", Free(h) = {},
           \A x \in Srcs : x # f => SenderSound(h, x)
    PROVE  Wait(h, f) \in HostType /\ Sound(Wait(h, f))
<1> DEFINE g == Wait(h, f)
<1>1. /\ g \in HostType /\ g.busy = h.busy /\ g.fault = "none" /\ g.active = Append(h.active, f)
      /\ \A x \in Srcs : x # f => g.src[x] = h.src[x]
    BY Waits
<1> HIDE DEF g
<1>2. PortsSound(g)
    BY <1>1 DEF PortsSound, Free
<1>3. ASSUME NEW x \in Srcs PROVE SenderSound(g, x)
  <2>1. h.active \in Seq(Srcs)
      BY HostFields
  <2>2. CASE x = f
      BY <2>1, <2>2, <1>1, AppendList DEF SenderSound
  <2>3. CASE x # f
      BY <2>1, <2>3, <1>1, AppendList DEF SenderSound
  <2> QED
      BY <2>2, <2>3
<1> QED
    BY <1>1, <1>2, <1>3 DEF g, Sound

-----------------------------------------------------------------------------
(* What a sender may ask for.                                              *)

\* Nothing but f may have changed since the host was sound.
AllBut(h, f) ==
    /\ h.fault = "none" /\ PortsSound(h)
    /\ \A x \in Srcs : h.src[x].blocked => InList(h.active, x)
    /\ \A x \in Srcs : x # f => SenderSound(h, x)

LEMMA PermittedBounds ==
    ASSUME NEW h \in HostType, NEW f \in Srcs
    PROVE  /\ Permitted(h, f) \in Nat
           /\ Permitted(h, f) <= Work(h.src[f]) /\ Permitted(h, f) <= h.src[f].room
           /\ Permitted(h, f) <= Cardinality(Free(h))
           /\ h.src[f].blocked => Permitted(h, f) = 0
           /\ ~h.src[f].blocked =>
                 Permitted(h, f) \in {Work(h.src[f]), h.src[f].room, Cardinality(Free(h))}
           /\ Work(h.src[f]) \in Nat /\ h.src[f].room \in Nat
<1>1. h.src[f] \in Senders
    BY HostFields
<1>2. Work(h.src[f]) \in Nat /\ h.src[f].room \in Nat /\ h.src[f].blocked \in BOOLEAN
    BY <1>1 DEF Work, Senders
<1>3. Cardinality(Free(h)) \in Nat
    BY FreeFinite
<1> QED
    BY <1>2, <1>3, LeastOfThree DEF Permitted

LEMMA SendIfPermittedSound ==
    ASSUME NEW h \in HostType, NEW f \in Srcs, AllBut(h, f),
           NEW q \in kSubset(Permitted(h, f), Free(h))
    PROVE  SendIfPermitted(h, f, q) \in HostType /\ Sound(SendIfPermitted(h, f, q))
<1>1. /\ q \in SUBSET Free(h) /\ q \in SUBSET Ports /\ Cardinality(q) = Permitted(h, f)
      /\ IsFiniteSet(q) /\ (Cardinality(q) = 0 <=> q = {})
  <2>1. q \in SUBSET Free(h) /\ Cardinality(q) = Permitted(h, f)
      BY DEF kSubset
  <2>2. IsFiniteSet(q)
      BY <2>1, FreeFinite, FS_Subset
  <2> QED
      BY <2>1, <2>2, FreeFinite, FS_EmptySet
<1> DEFINE k == Cardinality(q)
           a == Fails(StartSending(h, f, q), q # {} /\ h.control > 0, "control_waiting")
           s == Sent(h.src[f], k)
           b == [a EXCEPT !.src[f] = Sent(@, Cardinality(q))]
<1>2. SendIfPermitted(h, f, q) = IF CanSend(b.src[f]) /\ ~b.src[f].blocked THEN Wait(b, f) ELSE b
    BY DEF SendIfPermitted
<1>3. /\ h.src[f] \in Senders /\ k \in Nat /\ k <= Work(h.src[f]) /\ k <= h.src[f].room
      /\ s \in Senders /\ s.blocked = h.src[f].blocked
      /\ Work(s) = Work(h.src[f]) - k /\ s.room = h.src[f].room - k
  <2>1. h.src[f] \in Senders /\ k \in Nat /\ k <= Work(h.src[f]) /\ k <= h.src[f].room
      BY <1>1, HostFields, PermittedBounds
  <2> QED
      BY <2>1, SentFields
<1>0. k = Cardinality(q) /\ b = [a EXCEPT !.src[f] = Sent(@, k)]
    OBVIOUS
<1> HIDE DEF k, a, s, b
<1>4. CASE q = {}
  <2>1. k = 0
      BY <1>0, <1>1, <1>4
  <2>2. a = h
      BY <1>4, StartSendingNone DEF Fails, HostType, a
  <2>3. s = h.src[f]
      BY <1>3, <2>1, SentNone DEF s
  <2>4. b = h
    <3>1. b = [h EXCEPT !.src[f] = h.src[f]]
        BY <1>0, <2>2, <2>3 DEF s
    <3>2. h.src \in [Srcs -> Senders] /\ [h.src EXCEPT ![f] = h.src[f]] = h.src
        BY HostFields
    <3> QED
        BY <3>1, <3>2 DEF HostType
  <2>5. CASE CanSend(h.src[f]) /\ ~h.src[f].blocked
    <3>0. /\ Permitted(h, f) = 0
          /\ Permitted(h, f) \in {Work(h.src[f]), h.src[f].room, Cardinality(Free(h))}
        BY <1>0, <1>1, <2>1, <2>5, PermittedBounds
    <3>1. Cardinality(Free(h)) = 0
        BY <3>0, <2>5 DEF CanSend
    <3>2. Free(h) = {}
        BY <3>1, FreeFinite
    <3> QED
        BY <3>2, <1>2, <2>4, <2>5, WaitsSoundly DEF AllBut
  <2>6. CASE ~(CanSend(h.src[f]) /\ ~h.src[f].blocked)
    <3>1. SenderSound(h, f)
        BY <2>6 DEF SenderSound, AllBut
    <3> QED
        BY <3>1, <1>2, <2>4, <2>6 DEF AllBut, Sound
  <2> QED
      BY <2>5, <2>6
<1>5. CASE q # {}
  <2>1. k > 0 /\ Free(h) # {} /\ h.active = <<>> /\ h.control = 0 /\ h.fault = "none"
      BY <1>0, <1>1, <1>3, <1>5 DEF AllBut, PortsSound
  <2>2. ~h.src[f].blocked
      BY <1>0, <1>1, <2>1, PermittedBounds
  <2>3. \A x \in Srcs : ~InList(h.active, x)
      BY <2>1 DEF InList
  <2>4. \A x \in Srcs : x # f => ~h.src[x].blocked /\ ~CanSend(h.src[x])
      BY <2>3 DEF AllBut, SenderSound
  <2> DEFINE c == [h EXCEPT !.busy = @ \cup q]
  <2>5. /\ c \in HostType /\ c.busy = h.busy \cup q /\ c.active = <<>> /\ c.control = 0
        /\ c.fault = "none" /\ c.src = h.src
      BY <1>1, <2>1 DEF HostType
  <2>6. a = c
    <3>1. StartSending(h, f, q) = c
        BY <2>1, <1>1, StartSendingEmpty DEF c
    <3>2. a = Fails(c, q # {} /\ h.control > 0, "control_waiting")
        BY <3>1 DEF a
    <3>3. ~(q # {} /\ h.control > 0)
        BY <2>1
    <3> HIDE DEF c
    <3> QED
        BY <3>2, <3>3, <2>5, NoFault
  <2> HIDE DEF c
  <2>7. b = [c EXCEPT !.src[f] = s]
      BY <1>0, <2>5, <2>6 DEF s
  <2>8. /\ b \in HostType /\ b.busy = h.busy \cup q /\ b.active = <<>> /\ b.control = 0
        /\ b.fault = "none" /\ b.src[f] = s /\ \A x \in Srcs : x # f => b.src[x] = h.src[x]
      BY <1>3, <2>5, <2>7, WithSender
  <2>9. \A x \in Srcs : x # f => SenderSound(b, x)
      BY <2>4, <2>8 DEF SenderSound
  <2>10. CASE CanSend(s)
    <3>1. k # Work(h.src[f]) /\ k # h.src[f].room
        BY <1>3, <2>10, PermittedBounds DEF CanSend
    <3>2. k = Cardinality(Free(h))
        BY <3>1, <1>0, <1>1, <2>2, PermittedBounds
    <3>3. q = Free(h)
        BY <3>2, <1>0, <1>1, FreeFinite, FS_Subset
    <3>4. Free(b) = {}
        BY <3>3, <2>8 DEF Free
    <3> QED
        BY <3>4, <2>8, <2>9, <2>10, <1>2, <1>3, <2>2, WaitsSoundly
  <2>11. CASE ~CanSend(s)
    <3>1. PortsSound(b) /\ SenderSound(b, f)
        BY <2>8, <2>11, <1>3, <2>2 DEF PortsSound, SenderSound
    <3> QED
        BY <3>1, <2>8, <2>9, <2>11, <1>2 DEF Sound
  <2> QED
      BY <2>10, <2>11
<1> QED
    BY <1>4, <1>5

-----------------------------------------------------------------------------
(* Control packets, and the timer that insists.                            *)

LEMMA ControlArrivesSound ==
    ASSUME NEW h \in HostType, Sound(h), NEW ports \in OnePort(h)
    PROVE  ControlArrives(h, ports) \in HostType /\ Sound(ControlArrives(h, ports))
<1> DEFINE g == ControlArrives(h, ports)
<1>1. /\ h.busy \in SUBSET Ports /\ h.control \in Nat /\ h.fault = "none"
      /\ PortsSound(h) /\ \A x \in Srcs : SenderSound(h, x)
    BY HostFields DEF Sound
<1>2. CASE Free(h) = {}
  <2>1. ports = {}
      BY <1>2 DEF OnePort
  <2>2. g = [h EXCEPT !.control = @ + 1]
      BY <2>1 DEF ControlArrives
  <2>3. /\ g \in HostType /\ g.busy = h.busy /\ g.active = h.active /\ g.src = h.src
        /\ g.fault = h.fault
      BY <1>1, <2>2 DEF HostType
  <2> HIDE DEF g
  <2>4. Free(g) = {}
      BY <2>3, <1>2 DEF Free
  <2> QED
      BY <2>3, <2>4, <1>1 DEF Sound, PortsSound, SenderSound, g
<1>3. CASE Free(h) # {}
  <2>1. PICK p \in Free(h) : ports = {p}
      BY <1>3 DEF OnePort
  <2>2. g = [h EXCEPT !.busy = @ \cup {p}] /\ p \in Ports
      BY <2>1 DEF ControlArrives, Free
  <2>3. /\ g \in HostType /\ g.active = h.active /\ g.src = h.src
        /\ g.fault = h.fault /\ g.control = h.control
      BY <1>1, <2>2 DEF HostType
  <2> HIDE DEF g
  <2>4. g.active = <<>> /\ g.control = 0
      BY <1>1, <1>3, <2>3 DEF PortsSound
  <2> QED
      BY <2>3, <2>4, <1>1 DEF Sound, PortsSound, SenderSound, g
<1> QED
    BY <1>2, <1>3

LEMMA InsistGood ==
    ASSUME NEW h \in HostType, Sound(h), NEW f \in Srcs, NEW ports \in OnePort(h)
    PROVE  Insist(h, f, ports) \in HostType /\ Good(Insist(h, f, ports))
<1>1. /\ h.src[f] \in Senders /\ h.active \in Seq(Srcs) /\ h.fault = "none"
      /\ PortsSound(h) /\ \A x \in Srcs : SenderSound(h, x)
    BY HostFields DEF Sound
<1>2. CASE h.src[f].room = 0
  <2> DEFINE r == [h.src[f] EXCEPT !.flight = @ + 1]
             g == [h EXCEPT !.src[f] = r]
  <2>1. /\ r \in Senders /\ r.blocked = h.src[f].blocked /\ r.room = h.src[f].room
        /\ r.backlog = h.src[f].backlog /\ r.rtx = h.src[f].rtx
      BY <1>1 DEF Senders
  <2>2. [h EXCEPT !.src[f].flight = @ + 1] = g
      BY DEF HostType
  <2> HIDE DEF r
  <2>3. /\ g \in HostType /\ g.busy = h.busy /\ g.active = h.active /\ g.control = h.control
        /\ g.fault = h.fault /\ g.src[f] = r /\ \A x \in Srcs : x # f => g.src[x] = h.src[x]
      BY <2>1, WithSender
  <2>4. Insist(h, f, ports) = ControlArrives(g, ports)
      BY <1>2, <2>2 DEF Insist
  <2> HIDE DEF g
  <2>5. Free(g) = Free(h) /\ OnePort(g) = OnePort(h)
      BY <2>3 DEF Free, OnePort
  <2>6. \A x \in Srcs : (g.src[x].blocked \/ CanSend(g.src[x])) <=>
                        (h.src[x].blocked \/ CanSend(h.src[x]))
      BY <2>1, <2>3 DEF CanSend, Work
  <2>7. Sound(g)
      BY <2>3, <2>5, <2>6, <1>1 DEF Sound, PortsSound, SenderSound
  <2> QED
      BY <2>3, <2>4, <2>5, <2>7, ControlArrivesSound DEF Good
<1>3. CASE h.src[f].room # 0 /\ ports = {}
  <2> DEFINE g == [h EXCEPT !.active = Append(@, f)]
  <2>1. Insist(h, f, ports) = g
      BY <1>3 DEF Insist
  <2>2. /\ g \in HostType /\ g.busy = h.busy /\ g.active = Append(h.active, f)
        /\ g.src = h.src /\ g.fault = h.fault
      BY <1>1, AppendList DEF HostType
  <2> HIDE DEF g
  <2>3. Free(g) = {}
      BY <1>3, <2>2 DEF Free, OnePort
  <2>4. \A x \in Srcs : SenderSound(g, x)
      BY <1>1, <2>2, AppendList DEF SenderSound
  <2> QED
      BY <2>1, <2>2, <2>3, <2>4, <1>1 DEF Good, Sound, PortsSound
<1>4. CASE h.src[f].room # 0 /\ ports # {}
  <2>1. Free(h) # {}
      BY <1>4 DEF OnePort
  <2>2. h.active = <<>> /\ h.control = 0
      BY <2>1, <1>1 DEF PortsSound
  <2>3. ~CanSend(h.src[f])
      BY <2>2, <1>1 DEF SenderSound, InList
  <2>4. h.src[f].rtx = 0
      BY <2>3, <1>1, <1>4 DEF CanSend, Work, Senders
  <2> DEFINE g == [h EXCEPT !.fault = "rtx_empty"]
  <2>5. Fails(h, h.control > 0, "control_waiting") = h
    <3>1. ~(h.control > 0)
        BY <2>2
    <3> QED
        BY <3>1, NoFault
  <2>6. Fails(h, h.src[f].rtx = 0, "rtx_empty") = g
      BY <2>4, <1>1 DEF Fails, HostType
  <2>7. g \in HostType /\ g.fault = "rtx_empty"
      BY DEF HostType, Faults
  <2> HIDE DEF g
  <2>8. Insist(h, f, ports) = g
      BY <1>4, <2>5, <2>6, <2>7 DEF Insist
  <2> QED
      BY <2>7, <2>8 DEF Good
<1> QED
    BY <1>2, <1>3, <1>4

-----------------------------------------------------------------------------
(* A port falls idle.                                                      *)

\* A control packet takes the last idle port.
LEMMA SendControlSound ==
    ASSUME NEW h \in HostType, NEW p \in Ports, h.fault = "none", h.control > 0,
           Free(h) = {p}, \A x \in Srcs : SenderSound(h, x)
    PROVE  SendControl(h, p) \in HostType /\ Sound(SendControl(h, p))
<1> DEFINE g == SendControl(h, p)
<1>1. g = [h EXCEPT !.control = h.control - 1, !.busy = h.busy \cup {p}]
    BY DEF SendControl
<1>2. h.control - 1 \in Nat /\ h.busy \cup {p} \in SUBSET Ports
    BY HostFields
<1>3. /\ g \in HostType /\ g.busy = h.busy \cup {p} /\ g.active = h.active /\ g.src = h.src
      /\ g.fault = h.fault
    BY <1>1, <1>2 DEF HostType
<1> HIDE DEF g
<1>4. Free(g) = {}
    BY <1>3 DEF Free
<1> QED
    BY <1>3, <1>4 DEF Sound, PortsSound, SenderSound, g

\* The registered sender that is called answers, and takes the port.
LEMMA SendTurnSound ==
    ASSUME NEW h \in HostType, NEW p \in Ports, NEW f \in Srcs, h.fault = "none",
           Free(h) = {p}, Len(h.active) > 0, h.active[1] = f, CanSend(h.src[f]),
           \A x \in Srcs : SenderSound(h, x)
    PROVE  SendTurn(h, f, p, p) \in HostType /\ Sound(SendTurn(h, f, p, p))
<1> DEFINE rest == SubSeq(h.active, 2, Len(h.active))
           a == [h EXCEPT !.busy = @ \cup {p}, !.active = rest]
           r == [Sent(h.src[f], 1) EXCEPT !.blocked = FALSE]
           b == [a EXCEPT !.src[f] = r]
<1>1. /\ h.active \in Seq(Srcs) /\ Len(h.active) \in Nat /\ h.busy \in SUBSET Ports
      /\ h.src[f] \in Senders
    BY HostFields, LenProperties
<1>2. /\ rest \in Seq(Srcs)
      /\ \A x \in Srcs : InList(rest, x) <=> \E i \in 2 .. Len(h.active) : h.active[i] = x
  <2>1. 1 \in 0 .. Len(h.active) /\ 1 + 1 = 2
      BY <1>1
  <2> QED
      BY <1>1, <2>1, DropList
<1>3. \A x \in Srcs : x # f /\ InList(h.active, x) => InList(rest, x)
  <2>1. ASSUME NEW x \in Srcs, x # f, NEW i \in 1 .. Len(h.active), h.active[i] = x
        PROVE  i \in 2 .. Len(h.active)
      BY <2>1, <1>1
  <2>2. DOMAIN h.active = 1 .. Len(h.active)
      BY <1>1, LenProperties
  <2> QED
      BY <1>2, <2>1, <2>2 DEF InList
<1>4. Fails(StartSending(h, f, {p}), p # p, "wrong_port") = a
  <2>1. Cardinality({p}) = 1
      BY FS_Singleton
  <2> DEFINE n == IF Cardinality({p}) < Len(h.active) THEN Cardinality({p}) ELSE Len(h.active)
  <2>2. n = 1
    <3>1. \A c, l \in Nat : c = 1 /\ l > 0 => (IF c < l THEN c ELSE l) = 1
        OBVIOUS
    <3> QED
        BY <3>1, <2>1, <1>1
  <2> HIDE DEF n
  <2>3. ~(\E i \in 1 .. n : h.active[i] # f)
      BY <2>2
  <2>4. Fails(h, \E i \in 1 .. n : h.active[i] # f, "not_first") = h
      BY <2>3, NoFault
  <2>5. StartSending(h, f, {p})
           = [h EXCEPT !.busy = @ \cup {p}, !.active = SubSeq(@, n + 1, Len(@))]
      BY <2>4 DEF StartSending, n
  <2>6. SubSeq(h.active, n + 1, Len(h.active)) = rest
      BY <2>2
  <2>7. StartSending(h, f, {p}) = a
      BY <2>5, <2>6 DEF HostType
  <2>8. a \in HostType
      BY <1>1, <1>2 DEF HostType
  <2> HIDE DEF a
  <2> QED
      BY <2>7, <2>8, NoFault
<1>5. /\ a \in HostType /\ a.busy = h.busy \cup {p} /\ a.active = rest /\ a.fault = h.fault
      /\ a.src = h.src /\ a.control = h.control
    BY <1>1, <1>2 DEF HostType
<1>6. r \in Senders /\ r.blocked = FALSE
  <2>1. 1 <= Work(h.src[f]) /\ 1 <= h.src[f].room
      BY <1>1 DEF CanSend, Work, Senders
  <2>2. Sent(h.src[f], 1) \in Senders
      BY <1>1, <2>1, SentFields
  <2> HIDE DEF a, b
  <2> QED
      BY <2>2 DEF Senders
<1>7. SendTurn(h, f, p, p) = IF ~CanSend(b.src[f]) THEN b
                             ELSE IF Free(b) = {} THEN Wait(b, f)
                             ELSE Fails(b, TRUE, "port_left")
    BY <1>4, <1>5 DEF SendTurn
<1> HIDE DEF a, r, rest
<1>8. /\ b \in HostType /\ b.busy = h.busy \cup {p} /\ b.active = rest /\ b.fault = "none"
      /\ b.src[f] = r /\ \A x \in Srcs : x # f => b.src[x] = h.src[x]
    BY <1>5, <1>6, WithSender
<1> HIDE DEF b
<1>9. Free(b) = {}
    BY <1>8 DEF Free
<1>10. \A x \in Srcs : x # f => SenderSound(b, x)
    BY <1>3, <1>8 DEF SenderSound
<1>11. CASE CanSend(b.src[f])
    BY <1>7, <1>8, <1>9, <1>10, <1>11, WaitsSoundly
<1>12. CASE ~CanSend(b.src[f])
  <2>1. SenderSound(b, f)
      BY <1>6, <1>8, <1>12 DEF SenderSound
  <2> QED
      BY <1>7, <1>8, <1>9, <1>10, <1>12, <2>1 DEF Sound, PortsSound
<1> QED
    BY <1>11, <1>12

\* The senders at the front that cannot send drop out.
Dropped(h, k) ==
    [h EXCEPT !.active = SubSeq(@, k + 1, Len(@)),
              !.src = [f \in Srcs |-> [h.src[f] EXCEPT
                  !.blocked = @ /\ \A i \in 1 .. k : h.active[i] # f]]]

LEMMA DroppedSound ==
    ASSUME NEW h \in HostType, NEW k \in 0 .. Len(h.active), \A x \in Srcs : SenderSound(h, x),
           \A i \in 1 .. k : ~CanSend(h.src[h.active[i]])
    PROVE  LET g == Dropped(h, k) IN
           /\ g \in HostType /\ g.busy = h.busy /\ g.control = h.control /\ g.fault = h.fault
           /\ g.active \in Seq(Srcs) /\ Len(g.active) = Len(h.active) - k
           /\ \A i \in 1 .. Len(g.active) : g.active[i] = h.active[k + i]
           /\ \A x \in Srcs : CanSend(g.src[x]) <=> CanSend(h.src[x])
           /\ \A x \in Srcs : SenderSound(g, x)
<1> DEFINE rest == SubSeq(h.active, k + 1, Len(h.active))
           r(x) == [h.src[x] EXCEPT !.blocked = @ /\ \A i \in 1 .. k : h.active[i] # x]
           s == [x \in Srcs |-> r(x)]
           g == [h EXCEPT !.active = rest, !.src = s]
<1>1. /\ h.active \in Seq(Srcs) /\ Len(h.active) \in Nat /\ DOMAIN h.active = 1 .. Len(h.active)
    BY HostFields, LenProperties
<1>2. /\ rest \in Seq(Srcs) /\ Len(rest) = Len(h.active) - k
      /\ \A i \in 1 .. Len(rest) : rest[i] = h.active[k + i]
      /\ \A x \in Srcs : InList(rest, x) <=> \E i \in (k + 1) .. Len(h.active) : h.active[i] = x
    BY <1>1, DropList
<1>3. ASSUME NEW x \in Srcs
      PROVE  /\ r(x) \in Senders /\ r(x).backlog = h.src[x].backlog /\ r(x).rtx = h.src[x].rtx
             /\ r(x).room = h.src[x].room
             /\ r(x).blocked <=> h.src[x].blocked /\ \A i \in 1 .. k : h.active[i] # x
  <2>1. h.src[x] \in Senders
      BY HostFields
  <2> QED
      BY <2>1 DEF Senders
<1> HIDE DEF r, rest
<1>4. s \in [Srcs -> Senders] /\ \A x \in Srcs : s[x] = r(x)
    BY <1>3
<1> HIDE DEF s
<1>5. /\ g \in HostType /\ g.busy = h.busy /\ g.control = h.control /\ g.fault = h.fault
      /\ g.active = rest /\ g.src = s
    BY <1>2, <1>4 DEF HostType
<1>6. Dropped(h, k) = g
    BY DEF Dropped, rest, s, r
<1> HIDE DEF g
<1>7. ASSUME NEW x \in Srcs PROVE CanSend(g.src[x]) <=> CanSend(h.src[x])
    BY <1>3, <1>4, <1>5 DEF CanSend, Work
<1>8. ASSUME NEW x \in Srcs PROVE SenderSound(g, x)
  <2>1. SUFFICES ASSUME g.src[x].blocked \/ CanSend(g.src[x]) PROVE InList(rest, x)
      BY <1>5 DEF SenderSound
  <2>2. h.src[x].blocked \/ CanSend(h.src[x])
      BY <2>1, <1>3, <1>4, <1>5, <1>7
  <2>3. PICK i \in 1 .. Len(h.active) : h.active[i] = x
      BY <2>2, <1>1 DEF SenderSound, InList
  <2>4. i \notin 1 .. k
      BY <2>1, <2>3, <1>3, <1>4, <1>5, <1>7
  <2>5. i \in (k + 1) .. Len(h.active)
      BY <2>3, <2>4, <1>1
  <2> QED
      BY <2>3, <2>5, <1>2
<1> QED
    BY <1>2, <1>5, <1>6, <1>7, <1>8

LEMMA DataTurnSound ==
    ASSUME NEW h \in HostType, NEW p \in Ports, h.fault = "none", Free(h) = {p},
           \A x \in Srcs : SenderSound(h, x)
    PROVE  DataTurn(h, p, p) \in HostType /\ Sound(DataTurn(h, p, p))
<1> DEFINE able == {i \in DOMAIN h.active : CanSend(h.src[h.active[i]])}
           k == IF able = {} THEN Len(h.active) ELSE Min(able) - 1
           g == Dropped(h, k)
<1>1. /\ h.active \in Seq(Srcs) /\ Len(h.active) \in Nat /\ DOMAIN h.active = 1 .. Len(h.active)
      /\ able \in SUBSET (1 .. Len(h.active)) /\ able \in SUBSET Nat
    BY HostFields, LenProperties
<1>2. DataTurn(h, p, p) = IF able # {} THEN SendTurn(g, Head(g.active), p, p)
                          ELSE IF h.control > 0 THEN SendControl(g, p)
                          ELSE g
    BY DEF DataTurn, Dropped
<1>3. CASE able = {}
  <2>1. k = Len(h.active)
      BY <1>3
  <2>2. k \in 0 .. Len(h.active) /\ \A i \in 1 .. k : ~CanSend(h.src[h.active[i]])
      BY <1>1, <1>3, <2>1
  <2> HIDE DEF able, k
  <2>3. /\ g \in HostType /\ g.busy = h.busy /\ g.control = h.control /\ g.fault = "none"
        /\ g.active \in Seq(Srcs) /\ Len(g.active) = Len(h.active) - k
        /\ \A x \in Srcs : SenderSound(g, x)
      BY <2>2, DroppedSound
  <2> HIDE DEF g
  <2>4. g.active = <<>>
    <3>1. Len(g.active) = 0
        BY <2>1, <2>3, <1>1
    <3> QED
        BY <3>1, <2>3, EmptySeq
  <2>5. Free(g) = {p}
      BY <2>3 DEF Free
  <2>6. CASE h.control > 0
      BY <2>3, <2>5, <2>6, <1>2, <1>3, SendControlSound
  <2>7. CASE ~(h.control > 0)
    <3>1. g.control = 0
        BY <2>3, <2>7, HostFields
    <3> QED
        BY <3>1, <2>3, <2>4, <2>7, <1>2, <1>3 DEF Sound, PortsSound
  <2> QED
      BY <2>6, <2>7
<1>4. CASE able # {}
  <2> DEFINE m == Min(able)
  <2>1. m \in able /\ \A i \in able : m <= i
      BY <1>1, <1>4, SmallestOf
  <2>2. m \in 1 .. Len(h.active) /\ k = m - 1 /\ CanSend(h.src[h.active[m]])
    <3>1. m \in 1 .. Len(h.active)
        BY <1>1, <2>1
    <3>2. k = m - 1
        BY <1>4
    <3>3. CanSend(h.src[h.active[m]])
        BY <2>1
    <3> QED
        BY <3>1, <3>2, <3>3
  <2>3. k \in 0 .. Len(h.active) /\ k + 1 = m
    <3> HIDE DEF k, m
    <3>1. Len(h.active) \in Nat
        BY <1>1
    <3>2. m \in 1 .. Len(h.active) /\ k = m - 1
        BY <2>2
    <3> QED
        BY <3>1, <3>2
  <2>4. ASSUME NEW i \in 1 .. k PROVE ~CanSend(h.src[h.active[i]])
    <3>1. i \in 1 .. Len(h.active) /\ ~(m <= i)
      <4>1. /\ Len(h.active) \in Nat /\ m \in 1 .. Len(h.active)
            /\ k \in 0 .. Len(h.active) /\ k + 1 = m
          BY <2>2, <2>3, <1>1
      <4> HIDE DEF k, m
      <4> QED
          BY <4>1
    <3>2. i \notin able
        BY <3>1, <2>1
    <3> QED
        BY <3>1, <3>2, <1>1
  <2> HIDE DEF able, k, m
  <2>5. /\ g \in HostType /\ g.busy = h.busy /\ g.control = h.control /\ g.fault = "none"
        /\ g.active \in Seq(Srcs) /\ Len(g.active) = Len(h.active) - k
        /\ \A i \in 1 .. Len(g.active) : g.active[i] = h.active[k + i]
        /\ \A x \in Srcs : CanSend(g.src[x]) <=> CanSend(h.src[x])
        /\ \A x \in Srcs : SenderSound(g, x)
    <3>1. k \in 0 .. Len(h.active)
        BY <2>3
    <3>2. \A i \in 1 .. k : ~CanSend(h.src[h.active[i]])
        BY <2>4
    <3> QED
        BY <3>1, <3>2, DroppedSound
  <2> HIDE DEF g
  <2>6. Len(g.active) > 0 /\ 1 \in 1 .. Len(g.active)
      BY <2>2, <2>3, <2>5, <1>1
  <2>7. Head(g.active) = g.active[1] /\ g.active[1] = h.active[m]
      BY <2>3, <2>5, <2>6
  <2>8. h.active[m] \in Srcs
      BY <2>2, <1>1, ElementOfSeq
  <2>9. Free(g) = {p} /\ CanSend(g.src[g.active[1]])
      BY <2>2, <2>5, <2>7, <2>8 DEF Free
  <2>10. SendTurn(g, g.active[1], p, p) \in HostType /\ Sound(SendTurn(g, g.active[1], p, p))
      BY <2>5, <2>6, <2>7, <2>8, <2>9, SendTurnSound
  <2> QED
      BY <2>7, <2>10, <1>2, <1>4
<1> QED
    BY <1>3, <1>4

\* The turn of the weighted round robin stays in its range.
LEMMA NextCrtInRange ==
    ASSUME NEW h \in HostType
    PROVE  NextCrt(h) \in 0 .. (RatioData + RatioControl - 1)
<1>1. /\ RatioData \in Nat /\ RatioControl \in Nat /\ RatioData + RatioControl > 0
      /\ h.crt \in 0 .. (RatioData + RatioControl - 1)
    BY NicAssumption, HostFields
<1>2. \A c, d \in Nat : d > 0 => (c + 1) % d \in 0 .. (d - 1)
    OBVIOUS
<1>3. h.crt \in Nat
    BY <1>1
<1>4. PICK d \in Nat : d = RatioData + RatioControl /\ d > 0
    BY <1>1
<1>5. (h.crt + 1) % d \in 0 .. (d - 1)
    BY <1>2, <1>3, <1>4
<1>6. (h.crt + 1) % (RatioData + RatioControl) \in 0 .. (RatioData + RatioControl - 1)
  <2>1. d - 1 = RatioData + RatioControl - 1
      BY <1>1, <1>4
  <2> QED
      BY <2>1, <1>4, <1>5, Zenon
<1> QED
    BY <1>1, <1>6 DEF NextCrt

\* A port that falls idle is served: it was the only idle one if anybody waits.
LEMMA ServeSound ==
    ASSUME NEW h \in HostType, Sound(h), NEW p \in h.busy,
           NEW g, g = [h EXCEPT !.busy = @ \ {p}],
           NEW route \in Free(g), NEW port \in Free(g)
    PROVE  Serve(g, route, port) \in HostType /\ Sound(Serve(g, route, port))
<1> DEFINE c == NextCrt(g)
           d == [g EXCEPT !.crt = c]
<1>1. /\ h.busy \in SUBSET Ports /\ h.active \in Seq(Srcs) /\ h.control \in Nat /\ h.fault = "none"
      /\ PortsSound(h) /\ \A x \in Srcs : SenderSound(h, x)
    BY HostFields DEF Sound
<1>2. /\ g \in HostType /\ g.busy = h.busy \ {p} /\ g.active = h.active /\ g.control = h.control
      /\ g.fault = "none" /\ g.src = h.src
    BY <1>1 DEF HostType
<1>3. c \in 0 .. (RatioData + RatioControl - 1)
    BY <1>2, NextCrtInRange
<1> HIDE DEF c
<1>4. /\ d \in HostType /\ d.busy = g.busy /\ d.active = g.active /\ d.control = g.control
      /\ d.fault = g.fault /\ d.src = g.src /\ d.crt = c
    BY <1>2, <1>3 DEF HostType
<1>5. Serve(g, route, port) =
         IF h.active # <<>> /\ IsDataTurn(g, c) THEN DataTurn(d, route, port)
         ELSE IF h.control > 0 THEN SendControl(d, port)
         ELSE d
    BY <1>2, <1>4 DEF Serve, c
<1> HIDE DEF d
<1>6. Free(d) = Free(h) \cup {p} /\ Free(d) = Free(g)
    BY <1>1, <1>2, <1>4 DEF Free
<1>7. \A x \in Srcs : SenderSound(d, x)
    BY <1>1, <1>2, <1>4 DEF SenderSound
<1>8. CASE h.active = <<>> /\ h.control = 0
  <2>1. Serve(g, route, port) = d
      BY <1>5, <1>8
  <2> QED
      BY <2>1, <1>2, <1>4, <1>7, <1>8 DEF Sound, PortsSound
<1>9. CASE ~(h.active = <<>> /\ h.control = 0)
  <2>1. Free(d) = {p}
      BY <1>1, <1>6, <1>9 DEF PortsSound
  <2>2. route = p /\ port = p /\ p \in Ports
      BY <2>1, <1>1, <1>6
  <2>3. CASE h.active # <<>> /\ IsDataTurn(g, c)
      BY <2>1, <2>2, <2>3, <1>2, <1>4, <1>5, <1>7, DataTurnSound
  <2>4. CASE ~(h.active # <<>> /\ IsDataTurn(g, c))
    <3>1. h.control > 0
        BY <2>4, <1>1, <1>2, <1>9 DEF IsDataTurn
    <3>2. Serve(g, route, port) = SendControl(d, p)
        BY <3>1, <2>2, <2>4, <1>5
    <3> QED
        BY <3>1, <3>2, <2>1, <2>2, <1>2, <1>4, <1>7, SendControlSound
  <2> QED
      BY <2>3, <2>4
<1> QED
    BY <1>8, <1>9

-----------------------------------------------------------------------------
(* The steps.                                                              *)

\* A sender that is told something is all that may have become unsound.
LEMMA TellOne ==
    ASSUME NEW h \in HostType, Sound(h), NEW f \in Srcs, NEW r \in Senders,
           r.blocked = h.src[f].blocked
    PROVE  [h EXCEPT !.src[f] = r] \in HostType /\ AllBut([h EXCEPT !.src[f] = r], f)
<1> DEFINE g == [h EXCEPT !.src[f] = r]
<1>1. /\ g \in HostType /\ g.busy = h.busy /\ g.active = h.active /\ g.control = h.control
      /\ g.fault = h.fault /\ g.src[f] = r /\ \A x \in Srcs : x # f => g.src[x] = h.src[x]
    BY WithSender
<1> HIDE DEF g
<1>2. g.fault = "none" /\ PortsSound(g)
    BY <1>1 DEF Sound, PortsSound, Free
<1>3. \A x \in Srcs : x # f => SenderSound(g, x)
    BY <1>1 DEF Sound, SenderSound
<1>4. \A x \in Srcs : g.src[x].blocked => InList(g.active, x)
    BY <1>1 DEF Sound, SenderSound
<1> QED
    BY <1>1, <1>2, <1>3, <1>4 DEF AllBut, g

\* A packet is accounted for: the window moves on, with or without the packet
\* being queued again.
LEMMA PacketBack ==
    ASSUME NEW r \in Senders, r.flight > 0
    PROVE  /\ [r EXCEPT !.flight = @ - 1, !.room = @ + 1] \in Senders
           /\ [r EXCEPT !.flight = @ - 1, !.room = @ + 1].blocked = r.blocked
           /\ [r EXCEPT !.flight = @ - 1, !.room = @ + 1, !.rtx = @ + 1] \in Senders
           /\ [r EXCEPT !.flight = @ - 1, !.room = @ + 1, !.rtx = @ + 1].blocked = r.blocked
<1>1. r.flight - 1 \in Nat /\ r.room + 1 \in Nat /\ r.rtx + 1 \in Nat
    BY DEF Senders
<1>2. ASSUME NEW a \in Nat, NEW b \in Nat
      PROVE  /\ [r EXCEPT !.flight = a, !.room = b] \in Senders
             /\ [r EXCEPT !.flight = a, !.room = b].blocked = r.blocked
    BY DEF Senders
<1>3. ASSUME NEW a \in Nat, NEW b \in Nat, NEW c \in Nat
      PROVE  /\ [r EXCEPT !.flight = a, !.room = b, !.rtx = c] \in Senders
             /\ [r EXCEPT !.flight = a, !.room = b, !.rtx = c].blocked = r.blocked
    BY DEF Senders
<1> QED
    BY <1>1, <1>2, <1>3

\* The sender resumes: it sends what it may, or it is registered.
LEMMA ResumesSound ==
    ASSUME Inv, Running, NEW f \in Srcs, NEW r \in Senders,
           r.blocked = host.src[f].blocked, Resumes(f, r)
    PROVE  host' \in HostType /\ Good(host')
<1> DEFINE h == [host EXCEPT !.src[f] = r]
<1>1. host \in HostType /\ Sound(host)
    BY DEF Inv, Good, Running
<1>2. h \in HostType /\ AllBut(h, f)
    BY <1>1, TellOne
<1>3. PICK q \in kSubset(Permitted(h, f), Free(h)) : host' = SendIfPermitted(h, f, q)
    BY DEF Resumes
<1> HIDE DEF h
<1> QED
    BY <1>2, <1>3, SendIfPermittedSound DEF Good

LEMMA InitInv == Init => Inv
<1> SUFFICES ASSUME Init PROVE Inv
    OBVIOUS
<1>1. 0 \in 0 .. (RatioData + RatioControl - 1)
    BY NicAssumption
<1> DEFINE r == [backlog |-> NPkts, rtx |-> 0, flight |-> 0, room |-> 0, blocked |-> FALSE]
<1>2. r \in Senders /\ r.blocked = FALSE /\ r.room = 0
    BY NicAssumption DEF Senders
<1> HIDE DEF r
<1>3. /\ host.busy = {} /\ host.active = <<>> /\ host.control = 0 /\ host.crt = 0
      /\ host.fault = "none" /\ host.src = [f \in Srcs |-> r]
      /\ host = [busy |-> {}, active |-> <<>>, control |-> 0, crt |-> 0, fault |-> "none",
                 src |-> [f \in Srcs |-> r]]
    BY DEF Init, r
<1>4. host.src \in [Srcs -> Senders]
    BY <1>2, <1>3
<1>5. host \in HostType
    BY <1>1, <1>3, <1>4, EmptySeq DEF HostType, Faults
<1>6. \A x \in Srcs : SenderSound(host, x)
    BY <1>2, <1>3 DEF SenderSound, CanSend
<1> QED
    BY <1>3, <1>5, <1>6 DEF Init, Inv, Good, Sound, PortsSound

LEMMA NextInv == Inv /\ [Next]_vars => Inv'
<1> SUFFICES ASSUME Inv, [Next]_vars PROVE Inv'
    OBVIOUS
<1>1. CASE UNCHANGED vars
    BY <1>1 DEF vars, Inv
<1>2. CASE Next
  <2>1. host \in HostType /\ losses \in Nat
      BY DEF Inv
  <2>2. \A f \in Srcs : /\ host.src[f] \in Senders /\ host.src[f].rtx \in Nat
                        /\ host.src[f].flight \in Nat /\ host.src[f].room \in Nat
    <3>1. \A f \in Srcs : host.src[f] \in Senders
        BY <2>1, HostFields
    <3> QED
        BY <3>1 DEF Senders
  <2>3. Running => Sound(host)
      BY DEF Inv, Good, Running
  <2>4. SUFFICES host' \in HostType /\ Good(host') /\ losses' \in Nat
      BY DEF Inv
  <2>5. ASSUME NEW p \in Ports, PortDone(p) PROVE host' \in HostType /\ Good(host') /\ losses' \in Nat
    <3> DEFINE g == [host EXCEPT !.busy = @ \ {p}]
    <3>1. PICK route, port \in Free(g) : host' = Serve(g, route, port)
        BY <2>5 DEF PortDone
    <3>2. p \in host.busy /\ Sound(host)
        BY <2>5, <2>3 DEF PortDone
    <3>3. host' \in HostType /\ Sound(host')
        BY <2>1, <3>1, <3>2, ServeSound
    <3> QED
        BY <3>3, <2>1, <2>5 DEF PortDone, Good
  <2>6. ASSUME NEW f \in Srcs, Grow(f) PROVE host' \in HostType /\ Good(host') /\ losses' \in Nat
    <3> DEFINE r == [host.src[f] EXCEPT !.room = @ + 1]
    <3>1. r \in Senders /\ r.blocked = host.src[f].blocked
        BY <2>2 DEF Senders
    <3>2. Resumes(f, r) /\ Running
        BY <2>6 DEF Grow
    <3> HIDE DEF r
    <3> QED
        BY <2>1, <2>6, <3>1, <3>2, ResumesSound DEF Grow
  <2>7. ASSUME NEW f \in Srcs, Shrink(f) PROVE host' \in HostType /\ Good(host') /\ losses' \in Nat
    <3> DEFINE r == [host.src[f] EXCEPT !.room = @ - 1]
    <3>1. host.src[f].room > 0 /\ Running /\ host' = [host EXCEPT !.src[f].room = @ - 1]
        BY <2>7 DEF Shrink
    <3>2. /\ r \in Senders /\ r.blocked = host.src[f].blocked /\ r.room = host.src[f].room - 1
          /\ r.backlog = host.src[f].backlog /\ r.rtx = host.src[f].rtx
      <4>1. host.src[f].room - 1 \in Nat
          BY <2>2, <3>1
      <4> QED
          BY <4>1, <2>2 DEF Senders
    <3>3. host' = [host EXCEPT !.src[f] = r]
        BY <2>1, <3>1 DEF HostType
    <3> HIDE DEF r
    <3>4. /\ host' \in HostType /\ host'.busy = host.busy /\ host'.active = host.active
          /\ host'.control = host.control /\ host'.fault = host.fault
          /\ host'.src[f] = r /\ \A x \in Srcs : x # f => host'.src[x] = host.src[x]
        BY <2>1, <3>2, <3>3, WithSender
    <3>5. Work(r) = Work(host.src[f])
        BY <3>2 DEF Work
    <3>6. CanSend(r) => CanSend(host.src[f])
        BY <3>1, <3>2, <3>5 DEF CanSend
    <3>7. \A x \in Srcs : SenderSound(host', x)
        BY <2>3, <3>1, <3>2, <3>4, <3>6 DEF SenderSound, Sound
    <3>8. PortsSound(host') /\ host'.fault = "none"
        BY <2>3, <3>1, <3>4 DEF Sound, PortsSound, Free
    <3> QED
        BY <2>1, <2>7, <3>4, <3>7, <3>8 DEF Good, Sound, Shrink
  <2>8. ASSUME NEW f \in Srcs, Acked(f) PROVE host' \in HostType /\ Good(host') /\ losses' \in Nat
    <3> DEFINE r == [host.src[f] EXCEPT !.flight = @ - 1, !.room = @ + 1]
    <3>1. Resumes(f, r) /\ Running /\ host.src[f].flight > 0
        BY <2>8 DEF Acked
    <3>2. r \in Senders /\ r.blocked = host.src[f].blocked
        BY <2>2, <3>1, PacketBack
    <3> HIDE DEF r
    <3> QED
        BY <2>1, <2>8, <3>1, <3>2, ResumesSound DEF Acked
  <2>9. ASSUME NEW f \in Srcs, Nacked(f) PROVE host' \in HostType /\ Good(host') /\ losses' \in Nat
    <3> DEFINE r == [host.src[f] EXCEPT !.flight = @ - 1, !.room = @ + 1, !.rtx = @ + 1]
    <3>1. Resumes(f, r) /\ Running /\ host.src[f].flight > 0
        BY <2>9 DEF Nacked
    <3>2. r \in Senders /\ r.blocked = host.src[f].blocked
        BY <2>2, <3>1, PacketBack
    <3> HIDE DEF r
    <3> QED
        BY <2>1, <2>9, <3>1, <3>2, ResumesSound DEF Nacked
  <2>10. ASSUME NEW f \in Srcs, TimerExpires(f)
         PROVE  host' \in HostType /\ Good(host') /\ losses' \in Nat
    <3> DEFINE r == [host.src[f] EXCEPT !.flight = @ - 1, !.room = @ + 1, !.rtx = @ + 1]
               h == [host EXCEPT !.src[f] = r]
    <3>1. Running /\ host.src[f].flight > 0 /\ losses' = losses + 1
        BY <2>10 DEF TimerExpires
    <3>2. r \in Senders /\ r.blocked = host.src[f].blocked
        BY <2>2, <3>1, PacketBack
    <3>3. PICK q \in kSubset(Permitted(h, f), Free(h)) :
             \/ host' = SendIfPermitted(h, f, q)
             \/ \E p \in OnePort(SendIfPermitted(h, f, q)) :
                   host' = Insist(SendIfPermitted(h, f, q), f, p)
        BY <2>10 DEF TimerExpires
    <3> HIDE DEF r
    <3>4. h \in HostType /\ AllBut(h, f)
        BY <2>1, <2>3, <3>1, <3>2, TellOne
    <3> HIDE DEF h
    <3>5. SendIfPermitted(h, f, q) \in HostType /\ Sound(SendIfPermitted(h, f, q))
        BY <3>4, SendIfPermittedSound
    <3> DEFINE g == SendIfPermitted(h, f, q)
    <3> HIDE DEF g
    <3>6. /\ g \in HostType /\ Sound(g)
          /\ host' = g \/ \E p \in OnePort(g) : host' = Insist(g, f, p)
        BY <3>3, <3>5 DEF g
    <3> QED
        BY <2>1, <3>1, <3>6, InsistGood DEF Good
  <2>11. ASSUME ControlPacket PROVE host' \in HostType /\ Good(host') /\ losses' \in Nat
    <3>1. PICK p \in OnePort(host) : host' = ControlArrives(host, p)
        BY <2>11 DEF ControlPacket
    <3> QED
        BY <2>1, <2>3, <2>11, <3>1, ControlArrivesSound DEF Good, ControlPacket
  <2> QED
      BY <1>2, <2>5, <2>6, <2>7, <2>8, <2>9, <2>10, <2>11 DEF Next
<1> QED
    BY <1>1, <1>2

LEMMA AlwaysInv == Spec => []Inv
<1> QED
    BY InitInv, NextInv, PTL DEF Spec

-----------------------------------------------------------------------------
(* The theorems.                                                           *)

\* The NIC is work-conserving, for any number of senders and ports: while a
\* port is idle neither a sender nor a control packet waits for one, so that
\* an immediate transmission (UecNIC::requestSending, sendControlPacket) never
\* overtakes anybody.
THEOREM WorkConserving == Spec => []NobodyWaitsForAFreePort
<1>1. Inv => NobodyWaitsForAFreePort
  <2>1. SUFFICES ASSUME Inv, Running, host.busy # Ports
                 PROVE  host.active = <<>> /\ host.control = 0
      BY DEF NobodyWaitsForAFreePort
  <2>2. Sound(host) /\ host.busy \in SUBSET Ports
      BY <2>1, HostFields DEF Inv, Good, Running
  <2> QED
      BY <2>1, <2>2 DEF Sound, PortsSound, Free
<1> QED
    BY <1>1, AlwaysInv, PTL

\* No wake-up is lost: a sender with work and window is registered with the NIC,
\* and one that has noted _send_blocked_on_nic is on the list.
THEOREM NoLostWakeup == Spec => []WaitersAreRegistered
<1>1. Inv => WaitersAreRegistered
    BY DEF Inv, Good, Running, Sound, SenderSound, WaitersAreRegistered, Registered, InList
<1> QED
    BY <1>1, AlwaysInv, PTL

\* Of the assertions between senders and NIC only the one of sendRtxPacket can
\* fail; counters stay natural and the turn in its range.
THEOREM InStep == Spec => []NicInStep
<1>1. Inv => NicInStep
    BY DEF Inv, Good, Sound, NicInStep, TypeOK, HostType
<1> QED
    BY <1>1, AlwaysInv, PTL


-----------------------------------------------------------------------------
(* The tree.                                                               *)

Nodes == Hosts \cup Switches

\* A child covers somebody, and nobody another child of the switch covers.
LEMMA ChildFacts ==
    ASSUME NEW s \in Switches, NEW n \in Children(s)
    PROVE  /\ n \in Nodes /\ s \in Ups[n] /\ <<n, s>> \in Links
           /\ Under(n) # {} /\ Under(n) \subseteq Hosts /\ Under(n) \subseteq Below[s]
           /\ \A m \in Children(s) : m = n \/ Under(m) \cap Under(n) = {}
<1>1. n \in Nodes /\ s \in Ups[n] /\ Under(n) # {}
  BY DEF Children, Nodes
<1>2. <<n, s>> \in Links
  BY <1>1 DEF Links, Nodes
<1>3. Under(n) \subseteq Below[s]
  BY TreeAssumption
<1>4. Below[s] \subseteq Hosts
  BY TreeAssumption
<1>5. \A m \in Children(s) : m = n \/ Under(m) \cap Under(n) = {}
  BY TreeAssumption
<1>6. QED
  BY <1>1, <1>2, <1>3, <1>4, <1>5

LEMMA LinkFacts ==
    ASSUME NEW l \in Links
    PROVE  /\ l = <<l[1], l[2]>> /\ l[2] \in Switches /\ l[1] \in Children(l[2])
           /\ l[1] \in Nodes
BY DEF Links, Nodes

\* Whoever a switch covers is covered by one of its children.
LEMMA BelowFacts ==
    ASSUME NEW s \in Switches
    PROVE  /\ Below[s] \subseteq Hosts
           /\ \A h \in Below[s] : \E n \in Children(s) : h \in Under(n)
           /\ s \notin Hosts /\ Under(s) = Below[s]
<1>1. Below[s] = UNION {Under(n) : n \in Children(s)} /\ Below[s] \subseteq Hosts
  BY TreeAssumption
<1>2. s \notin Hosts
  BY TreeAssumption
<1>3. QED
  BY <1>1, <1>2 DEF Under

LEMMA TorFacts ==
    ASSUME NEW h \in Hosts
    PROVE  /\ Tor(h) \in Switches /\ h \in Children(Tor(h)) /\ <<h, Tor(h)>> \in Links
           /\ \A s \in Switches : h \in Children(s) => s = Tor(h)
           /\ Under(h) = {h} /\ h \in Nodes
<1>1. Cardinality(Ups[h]) = 1 /\ Ups[h] \subseteq Switches
  BY TreeAssumption
<1>2. IsFiniteSet(Ups[h])
  BY <1>1, TreeAssumption, FS_Subset
<1>3. PICK s : Ups[h] = {s}
  BY <1>1, <1>2, FS_Singleton
<1>4. Tor(h) = s /\ s \in Switches
  BY <1>1, <1>3 DEF Tor
<1>5. Under(h) = {h} /\ h \in Nodes
  BY DEF Under, Nodes
<1>6. h \in Children(s) /\ \A t \in Switches : h \in Children(t) => t = s
  BY <1>3, <1>5 DEF Children
<1>7. <<h, s>> \in Links
  BY <1>4, <1>6, ChildFacts
<1>8. QED
  BY <1>4, <1>5, <1>6, <1>7

\* A switch that has a packet from a child is covered by whatever it is linked to.
LEMMA UpFacts ==
    ASSUME NEW s \in Switches, NEW n \in Children(s), NEW t \in Ups[s]
    PROVE  t \in Switches /\ s \in Children(t) /\ <<s, t>> \in Links
<1>1. t \in Switches
  BY TreeAssumption
<1>2. Under(s) # {}
  <2>1. Under(n) # {} /\ Under(n) \subseteq Below[s]
    BY ChildFacts
  <2>2. Under(s) = Below[s]
    BY BelowFacts
  <2>3. QED
    BY <2>1, <2>2
<1>3. s \in Children(t)
  BY <1>2 DEF Children
<1>4. QED
  BY <1>1, <1>3, ChildFacts

LEMMA WholeFacts ==
    ASSUME NEW s \in Switches, NEW F \in SUBSET Children(s)
    PROVE  IsWhole(s, F) <=> F = Children(s)
<1>1. IsFiniteSet(Children(s))
  <2>1. IsFiniteSet(Hosts \cup Switches)
    BY TreeAssumption, FS_Union
  <2>2. Children(s) \subseteq Hosts \cup Switches
    BY DEF Children
  <2>3. QED
    BY <2>1, <2>2, FS_Subset
<1>2. /\ IsFiniteSet(F) /\ Cardinality(F) \in Nat /\ Cardinality(Children(s)) \in Nat
      /\ Cardinality(F) <= Cardinality(Children(s))
      /\ Cardinality(F) = Cardinality(Children(s)) => F = Children(s)
  BY <1>1, FS_Subset, FS_CardinalityType
<1>3. QED
  BY <1>2 DEF IsWhole

-----------------------------------------------------------------------------
(* Links as sequences.  Position i of a link is Back(l, k, i) of what it   *)
(* was before a packet was taken from link k.                              *)

Piece == [block : Blocks, data : [Hosts -> Nat]]

Back(l, k, i) == IF l = k THEN i + 1 ELSE i

\* V is U without the first packet of link k.
Taken(U, V, k) ==
    /\ V \in [Links -> Seq(Piece)]
    /\ Head(U[k]) \in Piece /\ Head(U[k]) = U[k][1] /\ 1 \in DOMAIN U[k]
    /\ \A l \in Links : \A i \in DOMAIN V[l] :
           /\ i \in Nat \ {0} /\ Back(l, k, i) \in DOMAIN U[l]
           /\ V[l][i] = U[l][Back(l, k, i)]
    /\ \A l \in Links : \A i \in DOMAIN U[l] :
           l # k \/ i # 1 =>
               \E j \in DOMAIN V[l] : Back(l, k, j) = i /\ V[l][j] = U[l][i]

LEMMA TailFacts ==
    ASSUME NEW U \in [Links -> Seq(Piece)], NEW k \in Links, U[k] # <<>>,
           NEW V, V = [U EXCEPT ![k] = Tail(U[k])]
    PROVE  Taken(U, V, k)
<1>1. U[k] \in Seq(Piece)
  OBVIOUS
<1>2. /\ Tail(U[k]) \in Seq(Piece) /\ Head(U[k]) \in Piece /\ Head(U[k]) = U[k][1]
      /\ 1 \in DOMAIN U[k]
  BY <1>1
<1>3. V \in [Links -> Seq(Piece)]
  BY <1>2
<1>4. \A i \in DOMAIN Tail(U[k]) :
          i \in Nat \ {0} /\ i + 1 \in DOMAIN U[k] /\ Tail(U[k])[i] = U[k][i + 1]
  BY <1>1
<1>5. \A i \in DOMAIN U[k] :
          i # 1 => i - 1 \in DOMAIN Tail(U[k]) /\ Tail(U[k])[i - 1] = U[k][i] /\ (i - 1) + 1 = i
  BY <1>1
<1>6. \A l \in Links : V[l] = IF l = k THEN Tail(U[k]) ELSE U[l]
  OBVIOUS
<1>7. \A l \in Links : \A i \in DOMAIN U[l] : i \in Nat \ {0}
  <2>1. SUFFICES ASSUME NEW l \in Links, NEW i \in DOMAIN U[l] PROVE i \in Nat \ {0}
    OBVIOUS
  <2>2. U[l] \in Seq(Piece)
    OBVIOUS
  <2>3. QED
    BY <2>2
<1>8. ASSUME NEW l \in Links, NEW i \in DOMAIN V[l]
      PROVE  /\ i \in Nat \ {0} /\ Back(l, k, i) \in DOMAIN U[l]
             /\ V[l][i] = U[l][Back(l, k, i)]
  <2>1. CASE l = k
    <3>1. V[l] = Tail(U[k]) /\ Back(l, k, i) = i + 1
      BY <1>6, <2>1 DEF Back
    <3>2. QED
      BY <1>4, <2>1, <3>1
  <2>2. CASE l # k
    <3>1. V[l] = U[l] /\ Back(l, k, i) = i
      BY <1>6, <2>2 DEF Back
    <3>2. QED
      BY <1>7, <3>1
  <2>3. QED
    BY <2>1, <2>2
<1>9. ASSUME NEW l \in Links, NEW i \in DOMAIN U[l], l # k \/ i # 1
      PROVE  \E j \in DOMAIN V[l] : Back(l, k, j) = i /\ V[l][j] = U[l][i]
  <2>1. CASE l = k
    <3>1. V[l] = Tail(U[k]) /\ Back(l, k, i - 1) = (i - 1) + 1
      BY <1>6, <2>1 DEF Back
    <3>2. QED
      BY <1>5, <1>9, <2>1, <3>1
  <2>2. CASE l # k
    BY <1>6, <2>2 DEF Back
  <2>3. QED
    BY <2>1, <2>2
<1>10. QED
  BY <1>2, <1>3, <1>8, <1>9 DEF Taken

\* Packets are put at the end of the links L.
Puts(U, V, L, p) ==
    V = [l \in Links |-> IF l \in L THEN Append(U[l], p) ELSE U[l]]

\* A packet of V was in U at the same place, or is p at the end of a link of L.
Put(U, V, L, p) ==
    /\ V \in [Links -> Seq(Piece)]
    /\ \A l \in Links : \A i \in DOMAIN V[l] :
           \/ i \in DOMAIN U[l] /\ V[l][i] = U[l][i]
           \/ l \in L /\ i = Len(U[l]) + 1 /\ V[l][i] = p
    /\ \A l \in Links : \A i \in DOMAIN U[l] :
           i \in DOMAIN V[l] /\ V[l][i] = U[l][i]
    /\ \A l \in L : /\ Len(U[l]) + 1 \in DOMAIN V[l]
                    /\ V[l][Len(U[l]) + 1] = p

LEMMA PutFacts ==
    ASSUME NEW U \in [Links -> Seq(Piece)], NEW L \in SUBSET Links, NEW p \in Piece,
           NEW V, Puts(U, V, L, p)
    PROVE  Put(U, V, L, p)
<1>1. \A l \in Links : U[l] \in Seq(Piece)
  OBVIOUS
<1>2. ASSUME NEW l \in Links
      PROVE  /\ Append(U[l], p) \in Seq(Piece)
             /\ \A i \in DOMAIN Append(U[l], p) :
                    \/ i \in DOMAIN U[l] /\ Append(U[l], p)[i] = U[l][i]
                    \/ i = Len(U[l]) + 1 /\ Append(U[l], p)[i] = p
             /\ \A i \in DOMAIN U[l] :
                    i \in DOMAIN Append(U[l], p) /\ Append(U[l], p)[i] = U[l][i]
             /\ Len(U[l]) + 1 \in DOMAIN Append(U[l], p)
             /\ Append(U[l], p)[Len(U[l]) + 1] = p
  <2>1. U[l] \in Seq(Piece)
    BY <1>1
  <2>2. QED
    BY <2>1
<1>3. \A l \in Links : V[l] = IF l \in L THEN Append(U[l], p) ELSE U[l]
  BY DEF Puts
<1>4. V \in [Links -> Seq(Piece)]
  BY <1>1, <1>2 DEF Puts
<1>5. QED
  BY <1>2, <1>3, <1>4 DEF Put

-----------------------------------------------------------------------------
(* Types, and the invariant.                                               *)

Entry == [data : [Hosts -> Nat], from : SUBSET Nodes]
Source == [next : 0 .. NBlocks, records : SUBSET Blocks, rtx : SUBSET Blocks, timer : Int]

Typed ==
    /\ up \in [Links -> Seq(Piece)] /\ down \in [Links -> Seq(Piece)]
    /\ table \in [Switches -> [Blocks -> Entry]]
    /\ completed \in [Switches -> SUBSET Blocks]
    /\ flow \in [Hosts -> Source] /\ got \in [Hosts -> Seq(Piece)]
    /\ timeouts \in Nat /\ drops \in Nat

\* The source or switch n has sent block b up.
SentBy(n, b) ==
    IF n \in Hosts THEN b < flow[n].next ELSE b \in completed[n] /\ Below[n] # Hosts

\* The share of h in block b is with n at position i of its link to s, or, for
\* i = 0, entered by n in the table of s.  Once a source repeats blocks its own
\* packets do not count.
Has(h, b, n, s, i) ==
    /\ h \in Under(n) /\ n \in Children(s)
    /\ \/ i = 0 /\ n \in table[s][b].from
       \/ /\ i \in DOMAIN up[<<n, s>>] /\ up[<<n, s>>][i].block = b
          /\ n \in Switches \/ timeouts = 0

\* Switch s, which covers everybody, has the sum.
Top(s, b) == Below[s] = Hosts /\ b \in completed[s]

Alone ==
    \A h \in Hosts, b \in Blocks, n, m \in Nodes, s, t \in Switches, i, j \in Nat :
        Has(h, b, n, s, i) /\ Has(h, b, m, t, j) => n = m /\ s = t /\ i = j

TopAlone ==
    \A s \in Switches, b \in Blocks : Top(s, b) =>
        /\ \A t \in Switches : Top(t, b) => t = s
        /\ \A h \in Hosts, n \in Nodes, t \in Switches, i \in Nat : ~Has(h, b, n, t, i)

\* What a switch holds it was sent, it holds no complete block, and of a block it
\* has closed nothing.
Tables ==
    \A s \in Switches, b \in Blocks :
        /\ \A n \in table[s][b].from : n \in Children(s) /\ SentBy(n, b)
        /\ table[s][b].from # {} => table[s][b].from # Children(s)
        /\ b \in completed[s] =>
               /\ table[s][b] = Empty
               /\ \A n \in Children(s) : SentBy(n, b)
               /\ \A h \in Below[s] : b < flow[h].next

OnLinks ==
    \A l \in Links : \A i \in DOMAIN up[l] : SentBy(l[1], up[l][i].block)

\* The share of h has left the source's own switch.
Beyond(h, b) ==
    \/ \E n \in Nodes \ {h}, s \in Switches, i \in Nat : Has(h, b, n, s, i)
    \/ \E s \in Switches : Top(s, b)

\* It was summed there.
Passed == \A h \in Hosts, b \in Blocks : Beyond(h, b) => b \in completed[Tor(h)]

\* No share is on its way to a switch that has closed the block.
NotOld ==
    \A h \in Hosts, b \in Blocks, n \in Nodes, s \in Switches, i \in Nat :
        Has(h, b, n, s, i) => b \notin completed[s]

Shares == Alone /\ TopAlone /\ Tables /\ OnLinks /\ Passed /\ NotOld

\* d counts the hosts of H, once each as long as nobody has repeated a block.
Counts(d, H) ==
    \A h \in Hosts :
        /\ h \in H => d[h] >= 1 /\ (timeouts = 0 => d[h] = 1)
        /\ h \notin H => d[h] = 0

Entered(F) == UNION {Under(n) : n \in F}

Weighed ==
    /\ \A l \in Links : \A i \in DOMAIN up[l] : Counts(up[l][i].data, Under(l[1]))
    /\ \A s \in Switches, b \in Blocks :
           Counts(table[s][b].data, Entered(table[s][b].from))

\* What a source remembers are blocks it has sent.
Remembers ==
    \A h \in Hosts :
        /\ \A b \in flow[h].records \cup flow[h].rtx : b < flow[h].next
        /\ timeouts = 0 => flow[h].rtx = {}

\* A packet of a link has a position, a block and a sum.
LEMMA PieceFacts ==
    ASSUME NEW D, NEW U \in [D -> Seq(Piece)], NEW l \in D, NEW i \in DOMAIN U[l]
    PROVE  /\ i \in Nat \ {0} /\ U[l][i] \in Piece
           /\ U[l][i].block \in Blocks /\ U[l][i].data \in [Hosts -> Nat]
<1>1. U[l] \in Seq(Piece)
  OBVIOUS
<1>2. i \in Nat \ {0} /\ U[l][i] \in Piece
  BY <1>1
<1>3. QED
  BY <1>2 DEF Piece

-----------------------------------------------------------------------------
(* Sources.                                                                *)

LEMMA HasKnown ==
    ASSUME Tables, OnLinks, NEW h \in Hosts, NEW b \in Blocks, NEW n \in Nodes,
           NEW s \in Switches, NEW i \in Nat, Has(h, b, n, s, i)
    PROVE  b < flow[h].next /\ SentBy(n, b)
<1>1. n \in Children(s) /\ h \in Under(n) /\ <<n, s>> \in Links
  BY ChildFacts DEF Has
<1>2. SentBy(n, b)
  <2>1. CASE n \in table[s][b].from
    BY <2>1 DEF Tables
  <2>2. CASE i \in DOMAIN up[<<n, s>>] /\ up[<<n, s>>][i].block = b
    BY <1>1, <2>2 DEF OnLinks
  <2>3. QED
    BY <2>1, <2>2 DEF Has
<1>3. CASE n \in Hosts
  <2>1. n = h
    BY <1>1, <1>3 DEF Under
  <2>2. QED
    BY <1>2, <1>3, <2>1 DEF SentBy
<1>4. CASE n \notin Hosts
  <2>1. n \in Switches /\ h \in Below[n]
    BY <1>1, <1>4 DEF Nodes, Under
  <2>2. b \in completed[n]
    BY <1>2, <1>4 DEF SentBy
  <2>3. QED
    BY <1>2, <2>1, <2>2 DEF Tables
<1>5. QED
  BY <1>3, <1>4

LEMMA SentLater ==
    ASSUME Typed, \A h \in Hosts : flow'[h].next \in Nat /\ flow[h].next <= flow'[h].next,
           \A s \in Switches : completed[s] \subseteq completed'[s]
    PROVE  \A n \in Nodes, b \in Blocks : SentBy(n, b) => SentBy(n, b)'
<1> SUFFICES ASSUME NEW n \in Nodes, NEW b \in Blocks, SentBy(n, b) PROVE SentBy(n, b)'
  OBVIOUS
<1>1. CASE n \in Hosts
  <2>1. b \in Int /\ b < flow[n].next /\ flow[n].next \in Nat
    BY <1>1 DEF SentBy, Blocks, Typed, Source
  <2>2. b < flow'[n].next
    BY <1>1, <2>1
  <2>3. QED
    BY <1>1, <2>2 DEF SentBy
<1>2. CASE n \notin Hosts
  BY <1>2 DEF SentBy, Nodes
<1>3. QED
  BY <1>1, <1>2

\* Nothing moves, and sources send no new block.
LEMMA SharesStay ==
    ASSUME Typed, Shares, Weighed, UNCHANGED <<up, table, completed>>,
           \A h \in Hosts : flow'[h].next = flow[h].next,
           timeouts' \in Nat, timeouts <= timeouts'
    PROVE  Shares' /\ Weighed'
<1>1. timeouts' = 0 => timeouts = 0
  BY DEF Typed
<1>2. \A h, b, n, s, i : Has(h, b, n, s, i)' => Has(h, b, n, s, i)
  BY <1>1 DEF Has
<1>3. \A s \in Switches, b \in Blocks : Top(s, b)' <=> Top(s, b)
  BY DEF Top
<1>4. Alone'
  BY <1>2 DEF Shares, Alone
<1>5. TopAlone'
  BY <1>2, <1>3 DEF Shares, TopAlone
<1>6. \A n \in Nodes, b \in Blocks : SentBy(n, b) => SentBy(n, b)'
  BY DEF SentBy
<1>7. Tables'
  <2>1. SUFFICES ASSUME NEW s \in Switches, NEW b \in Blocks
                 PROVE  /\ \A n \in table[s][b].from : n \in Children(s) /\ SentBy(n, b)'
                        /\ table[s][b].from # {} => table[s][b].from # Children(s)
                        /\ b \in completed[s] =>
                               /\ table[s][b] = Empty
                               /\ \A n \in Children(s) : SentBy(n, b)'
                               /\ \A h \in Below[s] : b < flow'[h].next
    BY DEF Tables
  <2>2. \A n \in Children(s) : n \in Nodes
    BY ChildFacts
  <2>3. \A h \in Below[s] : h \in Hosts
    BY BelowFacts
  <2>4. QED
    BY <1>6, <2>2, <2>3 DEF Shares, Tables
<1>8. OnLinks'
  <2>1. \A l \in Links : l[1] \in Nodes
    BY LinkFacts
  <2>2. \A l \in Links : \A i \in DOMAIN up[l] : up[l][i].block \in Blocks
    BY PieceFacts DEF Typed
  <2>3. QED
    BY <1>6, <2>1, <2>2 DEF Shares, OnLinks
<1>9. Passed'
  BY <1>2, <1>3 DEF Shares, Passed, Beyond
<1>10. NotOld'
  BY <1>2 DEF Shares, NotOld
<1>11. Weighed'
  BY <1>1 DEF Weighed, Counts
<1>12. QED
  BY <1>4, <1>5, <1>7, <1>8, <1>9, <1>10, <1>11 DEF Shares

\* Source h0 sends block b0, for the first time unless timers have expired.
LEMMA SharesSend ==
    ASSUME Typed, Shares, Weighed, NEW h0 \in Hosts, NEW b0 \in Blocks,
           up' = [up EXCEPT ![<<h0, Tor(h0)>>] = Append(@, [block |-> b0, data |-> From(h0)])],
           UNCHANGED <<table, completed, timeouts>>,
           \A h \in Hosts : flow'[h].next \in Nat /\ flow[h].next <= flow'[h].next,
           b0 < flow'[h0].next, timeouts = 0 => b0 >= flow[h0].next
    PROVE  Shares' /\ Weighed'
<1> DEFINE k == <<h0, Tor(h0)>>
           p == [block |-> b0, data |-> From(h0)]
<1>1. k \in Links /\ Tor(h0) \in Switches /\ Under(h0) = {h0} /\ h0 \in Nodes
  BY TorFacts
<1>2. p \in Piece /\ p.block = b0 /\ p.data = From(h0)
  BY DEF Piece, From
<1>3. Puts(up, up', {k}, p)
  <2>1. up' = [up EXCEPT ![k] = Append(@, p)] /\ up = [l \in Links |-> up[l]]
    BY DEF Typed
  <2>2. up' = [l \in Links |-> IF l \in {k} THEN Append(up[l], p) ELSE up[l]]
    BY <1>1, <2>1
  <2>3. QED
    BY <2>2 DEF Puts
<1> HIDE DEF p, k
<1>4. \A l \in Links : \A i \in DOMAIN up'[l] :
          \/ i \in DOMAIN up[l] /\ up'[l][i] = up[l][i]
          \/ l = k /\ i = Len(up[k]) + 1 /\ up'[l][i] = p
  <2>1. up \in [Links -> Seq(Piece)] /\ {k} \in SUBSET Links
    BY <1>1 DEF Typed
  <2>2. Put(up, up', {k}, p)
    BY <1>2, <1>3, <2>1, PutFacts
  <2>3. SUFFICES ASSUME NEW l \in Links, NEW i \in DOMAIN up'[l]
                 PROVE  \/ i \in DOMAIN up[l] /\ up'[l][i] = up[l][i]
                        \/ l = k /\ i = Len(up[k]) + 1 /\ up'[l][i] = p
    OBVIOUS
  <2>4. \/ i \in DOMAIN up[l] /\ up'[l][i] = up[l][i]
        \/ l \in {k} /\ i = Len(up[l]) + 1 /\ up'[l][i] = p
    BY <2>2 DEF Put
  <2>5. QED
    BY <2>4
<1>5. ASSUME NEW h \in Hosts, NEW b \in Blocks, NEW n \in Nodes, NEW s \in Switches,
             NEW i \in Nat, Has(h, b, n, s, i)'
      PROVE  \/ Has(h, b, n, s, i)
             \/ /\ h = h0 /\ b = b0 /\ n = h0 /\ s = Tor(h0) /\ i = Len(up[k]) + 1
                /\ timeouts = 0
  <2>1. n \in Children(s) /\ h \in Under(n) /\ <<n, s>> \in Links
    BY <1>5, ChildFacts DEF Has
  <2>2. CASE i = 0 /\ n \in table[s][b].from
    BY <2>1, <2>2 DEF Has
  <2>3. CASE /\ i \in DOMAIN up'[<<n, s>>] /\ up'[<<n, s>>][i].block = b
             /\ n \in Switches \/ timeouts = 0
    <3>1. CASE i \in DOMAIN up[<<n, s>>] /\ up'[<<n, s>>][i] = up[<<n, s>>][i]
      BY <2>1, <2>3, <3>1 DEF Has
    <3>2. CASE <<n, s>> = k /\ i = Len(up[k]) + 1 /\ up'[<<n, s>>][i] = p
      <4>1. n = h0 /\ s = Tor(h0) /\ b = b0
        BY <1>2, <2>3, <3>2 DEF k
      <4>2. h = h0 /\ n \notin Switches
        BY <1>1, <2>1, <4>1, TreeAssumption
      <4>3. QED
        BY <2>3, <3>2, <4>1, <4>2
    <3>3. QED
      BY <1>4, <2>1, <2>3, <3>1, <3>2
  <2>4. QED
    BY <1>5, <2>2, <2>3 DEF Has
<1>6. ASSUME timeouts = 0, NEW n \in Nodes, NEW s \in Switches, NEW i \in Nat
      PROVE  ~Has(h0, b0, n, s, i)
  <2>1. flow[h0].next \in Nat /\ b0 \in Int /\ b0 >= flow[h0].next
    BY <1>6 DEF Typed, Source, Blocks
  <2>2. Has(h0, b0, n, s, i) => b0 < flow[h0].next
    BY HasKnown DEF Shares
  <2>3. QED
    BY <2>1, <2>2
<1>7. ASSUME timeouts = 0, NEW s \in Switches, h0 \in Below[s] PROVE b0 \notin completed[s]
  <2>1. flow[h0].next \in Nat /\ b0 \in Int /\ b0 >= flow[h0].next
    BY <1>7 DEF Typed, Source, Blocks
  <2>2. b0 \in completed[s] => b0 < flow[h0].next
    BY <1>7 DEF Shares, Tables
  <2>3. QED
    BY <2>1, <2>2
<1>8. \A s \in Switches, b \in Blocks : Top(s, b)' <=> Top(s, b)
  BY DEF Top
<1>9. h0 \in Below[Tor(h0)]
  BY <1>1, TorFacts, ChildFacts
<1>10. Alone'
  BY <1>5, <1>6 DEF Shares, Alone
<1>11. TopAlone'
  <2>1. ASSUME NEW s \in Switches, Top(s, b0), timeouts = 0 PROVE FALSE
    <3>1. h0 \in Below[s] /\ b0 \in completed[s]
      BY <2>1 DEF Top
    <3>2. QED
      BY <1>7, <2>1, <3>1
  <2>2. QED
    BY <1>5, <1>8, <2>1 DEF Shares, TopAlone
<1>12. \A n \in Nodes, b \in Blocks : SentBy(n, b) => SentBy(n, b)'
  BY SentLater
<1>13. Tables'
  <2>1. SUFFICES ASSUME NEW s \in Switches, NEW b \in Blocks
                 PROVE  /\ \A n \in table[s][b].from : n \in Children(s) /\ SentBy(n, b)'
                        /\ table[s][b].from # {} => table[s][b].from # Children(s)
                        /\ b \in completed[s] =>
                               /\ table[s][b] = Empty
                               /\ \A n \in Children(s) : SentBy(n, b)'
                               /\ \A h \in Below[s] : b < flow'[h].next
    BY DEF Tables
  <2>2. \A n \in Children(s) : n \in Nodes
    BY ChildFacts
  <2>3. ASSUME NEW h \in Below[s], b < flow[h].next PROVE b < flow'[h].next
    <3>1. h \in Hosts
      BY BelowFacts
    <3>2. b \in Int /\ flow[h].next \in Nat
      BY <3>1 DEF Typed, Source, Blocks
    <3>3. QED
      BY <2>3, <3>1, <3>2
  <2>4. QED
    BY <1>12, <2>2, <2>3 DEF Shares, Tables
<1>14. OnLinks'
  <2>1. SUFFICES ASSUME NEW l \in Links, NEW i \in DOMAIN up'[l]
                 PROVE  SentBy(l[1], up[l][i].block)'
    BY DEF OnLinks
  <2>2. CASE i \in DOMAIN up[l] /\ up'[l][i] = up[l][i]
    <3>1. l[1] \in Nodes /\ up[l][i].block \in Blocks
      BY <2>2, LinkFacts, PieceFacts DEF Typed
    <3>2. QED
      BY <1>12, <2>2, <3>1 DEF Shares, OnLinks
  <2>3. CASE l = k /\ up'[l][i] = p
    <3>1. l[1] = h0 /\ up'[l][i].block = b0
      BY <1>2, <2>3 DEF k
    <3>2. QED
      BY <3>1 DEF SentBy
  <2>4. QED
    BY <1>4, <2>2, <2>3
<1>15. Passed'
  <2>1. \A h \in Hosts, b \in Blocks : Beyond(h, b)' => Beyond(h, b)
    BY <1>5, <1>8 DEF Beyond
  <2>2. QED
    BY <2>1 DEF Shares, Passed
<1>16. NotOld'
  BY <1>1, <1>5, <1>7, <1>9 DEF Shares, NotOld
<1>17. Weighed'
  <2>0. \A s \in Switches, b \in Blocks :
            Counts(table[s][b].data, Entered(table[s][b].from))'
    BY DEF Weighed, Counts, Entered
  <2>1. ASSUME NEW l \in Links, NEW i \in DOMAIN up'[l]
        PROVE  Counts(up[l][i].data, Under(l[1]))'
    <3>1. CASE i \in DOMAIN up[l] /\ up'[l][i] = up[l][i]
      <4>1. Counts(up[l][i].data, Under(l[1]))
        BY <3>1 DEF Weighed
      <4>2. QED
        BY <3>1, <4>1 DEF Counts
    <3>2. CASE l = k /\ up'[l][i] = p
      <4>1. Under(l[1]) = {h0} /\ up'[l][i].data = From(h0)
        BY <1>1, <1>2, <3>2 DEF k
      <4>2. \A h \in Hosts : up'[l][i].data[h] = IF h = h0 THEN 1 ELSE 0
        BY <4>1 DEF From
      <4>3. QED
        BY <4>1, <4>2 DEF Counts
    <3>3. QED
      BY <1>4, <2>1, <3>1, <3>2
  <2>2. QED
    BY <2>0, <2>1 DEF Weighed
<1>18. QED
  BY <1>10, <1>11, <1>13, <1>14, <1>15, <1>16, <1>17 DEF Shares

-----------------------------------------------------------------------------
(* A packet leaves a link.                                                 *)

LEMMA BackFacts ==
    ASSUME NEW l, NEW k, NEW i \in Nat \ {0}
    PROVE  /\ Back(l, k, i) \in Nat \ {0} /\ (l = k => Back(l, k, i) # 1)
           /\ \A j \in Nat : Back(l, k, j) = Back(l, k, i) => j = i
BY DEF Back

\* What is on a link after a packet was taken from link k was there before.
LEMMA HasBack ==
    ASSUME Typed, NEW k \in Links, NEW V, Taken(up, V, k),
           NEW s \in Switches, NEW n \in Children(s), NEW h \in Under(n), NEW i,
           i \in DOMAIN V[<<n, s>>], n \in Switches \/ timeouts = 0
    PROVE  /\ Has(h, V[<<n, s>>][i].block, n, s, Back(<<n, s>>, k, i))
           /\ i \in Nat \ {0} /\ Back(<<n, s>>, k, i) \in Nat \ {0}
           /\ <<n, s>> = k => Back(<<n, s>>, k, i) # 1
<1>1. <<n, s>> \in Links
  BY ChildFacts
<1>2. /\ i \in Nat \ {0} /\ Back(<<n, s>>, k, i) \in DOMAIN up[<<n, s>>]
      /\ V[<<n, s>>][i] = up[<<n, s>>][Back(<<n, s>>, k, i)]
  BY <1>1 DEF Taken
<1>3. QED
  BY <1>2, BackFacts DEF Has

\* A share after a packet was taken from link k, and nothing else happened.
LEMMA HasTaken ==
    ASSUME Typed, NEW k \in Links, Taken(up, up', k), UNCHANGED <<table, timeouts>>,
           NEW h \in Hosts, NEW b \in Blocks, NEW n \in Nodes, NEW s \in Switches,
           NEW i \in Nat, Has(h, b, n, s, i)'
    PROVE  LET j == IF i = 0 THEN 0 ELSE Back(<<n, s>>, k, i)
           IN  Has(h, b, n, s, j) /\ j \in Nat
<1>1. n \in Children(s) /\ h \in Under(n)
  BY DEF Has
<1>2. CASE i = 0 /\ n \in table[s][b].from
  BY <1>1, <1>2 DEF Has
<1>3. CASE /\ i \in DOMAIN up'[<<n, s>>] /\ up'[<<n, s>>][i].block = b
           /\ n \in Switches \/ timeouts = 0
  <2>1. /\ Has(h, b, n, s, Back(<<n, s>>, k, i))
        /\ i \in Nat \ {0} /\ Back(<<n, s>>, k, i) \in Nat
    <3>1. PICK V : V = up'
      OBVIOUS
    <3>2. Taken(up, V, k) /\ i \in DOMAIN V[<<n, s>>] /\ V[<<n, s>>][i].block = b
      BY <1>3, <3>1
    <3>3. QED
      BY <1>1, <1>3, <3>2, HasBack
  <2>2. QED
    BY <2>1
<1>4. QED
  BY <1>2, <1>3 DEF Has

LEMMA SharesTaken ==
    ASSUME Typed, Shares, Weighed, NEW k \in Links, Taken(up, up', k),
           UNCHANGED <<table, completed, flow, timeouts>>
    PROVE  Shares' /\ Weighed'
<1> DEFINE J(n, s, i) == IF i = 0 THEN 0 ELSE Back(<<n, s>>, k, i)
<1>1. ASSUME NEW h \in Hosts, NEW b \in Blocks, NEW n \in Nodes, NEW s \in Switches,
             NEW i \in Nat, Has(h, b, n, s, i)'
      PROVE  Has(h, b, n, s, J(n, s, i)) /\ J(n, s, i) \in Nat
  BY <1>1, HasTaken
<1>2. \A n \in Nodes, s \in Switches, i, j \in Nat : J(n, s, i) = J(n, s, j) => i = j
  BY DEF Back
<1> HIDE DEF J
<1>3. \A s \in Switches, b \in Blocks : Top(s, b)' <=> Top(s, b)
  BY DEF Top
<1>4. Alone'
  <2>1. SUFFICES ASSUME NEW h \in Hosts, NEW b \in Blocks, NEW n \in Nodes, NEW m \in Nodes,
                        NEW s \in Switches, NEW t \in Switches, NEW i \in Nat, NEW j \in Nat,
                        Has(h, b, n, s, i)', Has(h, b, m, t, j)'
                 PROVE  n = m /\ s = t /\ i = j
    BY DEF Alone
  <2>2. n = m /\ s = t /\ J(n, s, i) = J(m, t, j)
    BY <1>1, <2>1 DEF Shares, Alone
  <2>3. QED
    BY <1>2, <2>2
<1>5. TopAlone'
  BY <1>1, <1>3 DEF Shares, TopAlone
<1>6. Tables'
  BY DEF Shares, Tables, SentBy
<1>7. OnLinks'
  <2>1. SUFFICES ASSUME NEW l \in Links, NEW i \in DOMAIN up'[l]
                 PROVE  SentBy(l[1], up[l][i].block)'
    BY DEF OnLinks
  <2>2. Back(l, k, i) \in DOMAIN up[l] /\ up'[l][i] = up[l][Back(l, k, i)]
    BY DEF Taken
  <2>3. QED
    BY <2>2 DEF Shares, OnLinks, SentBy
<1>8. Passed'
  <2>1. \A h \in Hosts, b \in Blocks : Beyond(h, b)' => Beyond(h, b)
    BY <1>1, <1>3 DEF Beyond
  <2>2. QED
    BY <2>1 DEF Shares, Passed
<1>9. NotOld'
  BY <1>1 DEF Shares, NotOld
<1>10. Weighed'
  <2>1. SUFFICES ASSUME NEW l \in Links, NEW i \in DOMAIN up'[l]
                 PROVE  Counts(up[l][i].data, Under(l[1]))'
    BY DEF Weighed, Counts
  <2>2. Back(l, k, i) \in DOMAIN up[l] /\ up'[l][i] = up[l][Back(l, k, i)]
    BY DEF Taken
  <2>3. QED
    BY <2>2 DEF Weighed, Counts
<1>11. QED
  BY <1>4, <1>5, <1>6, <1>7, <1>8, <1>9, <1>10 DEF Shares

-----------------------------------------------------------------------------
(* A contribution.                                                         *)

\* The next packet on the link from n to s is one of block b.
Offers(n, s, b) ==
    /\ s \in Switches /\ n \in Children(s) /\ b \in Blocks
    /\ up[<<n, s>>] # <<>> /\ Head(up[<<n, s>>]).block = b

\* A share that arrives is nowhere else, except where its source has already
\* entered it: then timers have expired.
LEMMA Fresh ==
    ASSUME Typed, Shares, NEW n0, NEW s0, NEW b0, Offers(n0, s0, b0), b0 \notin completed[s0],
           NEW h \in Under(n0)
    PROVE  /\ \A n \in Nodes, s \in Switches, i \in Nat : Has(h, b0, n, s, i) =>
                  /\ n = n0 /\ s = s0
                  /\ i = 1 \/ (i = 0 /\ n0 \notin Switches /\ timeouts # 0)
           /\ \A s \in Switches : ~Top(s, b0)
           /\ n0 \in Switches \/ timeouts = 0 => Has(h, b0, n0, s0, 1)
<1>1. /\ s0 \in Switches /\ n0 \in Children(s0) /\ n0 \in Nodes /\ h \in Hosts
      /\ b0 \in Blocks /\ <<n0, s0>> \in Links
  BY ChildFacts DEF Offers
<1>2. 1 \in DOMAIN up[<<n0, s0>>] /\ up[<<n0, s0>>][1].block = b0
  <2>1. up[<<n0, s0>>] \in Seq(Piece) /\ up[<<n0, s0>>] # <<>>
    BY <1>1 DEF Typed, Offers
  <2>2. 1 \in DOMAIN up[<<n0, s0>>] /\ up[<<n0, s0>>][1] = Head(up[<<n0, s0>>])
    BY <2>1
  <2>3. QED
    BY <2>2 DEF Offers
<1>3. CASE n0 \in Switches \/ timeouts = 0
  <2>1. Has(h, b0, n0, s0, 1)
    BY <1>1, <1>2, <1>3 DEF Has
  <2>2. QED
    BY <1>1, <2>1 DEF Shares, Alone, TopAlone
<1>4. CASE n0 \notin Switches /\ timeouts # 0
  <2>1. n0 \in Hosts
    BY <1>1, <1>4 DEF Nodes
  <2>2. h = n0 /\ s0 = Tor(h)
    <3>1. h = n0
      BY <2>1 DEF Under
    <3>2. s0 = Tor(n0)
      BY <1>1, <2>1, TorFacts
    <3>3. QED
      BY <3>1, <3>2
  <2>3. ~Beyond(h, b0)
    BY <1>1, <2>2 DEF Shares, Passed
  <2>4. ASSUME NEW n \in Nodes, NEW s \in Switches, NEW i \in Nat, Has(h, b0, n, s, i)
        PROVE  n = n0 /\ s = s0 /\ i = 0
    <3>1. n = h
      BY <2>3, <2>4 DEF Beyond
    <3>2. s = Tor(h)
      BY <1>1, <2>4, <3>1, TorFacts DEF Has
    <3>3. i = 0
      BY <1>4, <2>2, <2>4, <3>1 DEF Has
    <3>4. QED
      BY <2>2, <3>1, <3>2, <3>3
  <2>5. QED
    BY <1>4, <2>3, <2>4 DEF Beyond
<1>5. QED
  BY <1>3, <1>4

\* The table after n's packet with sum d was added to block b.
Sum(n, s, b) == Plus(table[s][b].data, Head(up[<<n, s>>]).data)
Enter(n, s, b) == table[s][b].from \cup {n}

\* What a table's entry and the packet add up to.
LEMMA SumFacts ==
    ASSUME Typed, Shares, Weighed, NEW n0, NEW s0, NEW b0, Offers(n0, s0, b0),
           b0 \notin completed[s0]
    PROVE  /\ Sum(n0, s0, b0) \in [Hosts -> Nat]
           /\ Enter(n0, s0, b0) \subseteq Children(s0)
           /\ \A n \in Enter(n0, s0, b0) : SentBy(n, b0)
           /\ Counts(Sum(n0, s0, b0), Entered(Enter(n0, s0, b0)))
<1> DEFINE d == table[s0][b0].data
           F == table[s0][b0].from
           p == Head(up[<<n0, s0>>])
<1>1. /\ s0 \in Switches /\ n0 \in Children(s0) /\ n0 \in Nodes /\ b0 \in Blocks
      /\ <<n0, s0>> \in Links /\ \A n \in Children(s0) : n \in Nodes
  BY ChildFacts DEF Offers
<1>2. /\ p \in Piece /\ p.block = b0 /\ 1 \in DOMAIN up[<<n0, s0>>]
      /\ p = up[<<n0, s0>>][1]
  <2>1. up[<<n0, s0>>] \in Seq(Piece) /\ up[<<n0, s0>>] # <<>>
    BY <1>1 DEF Typed, Offers
  <2>2. QED
    BY <2>1 DEF Offers
<1>3. d \in [Hosts -> Nat] /\ p.data \in [Hosts -> Nat]
  <2>1. table[s0][b0] \in Entry
    BY <1>1 DEF Typed
  <2>2. QED
    BY <1>2, <2>1 DEF Entry, Piece
<1>4. Sum(n0, s0, b0) = [h \in Hosts |-> d[h] + p.data[h]]
  BY DEF Sum, Plus
<1>5. Sum(n0, s0, b0) \in [Hosts -> Nat]
  BY <1>3, <1>4
<1>6. F \subseteq Children(s0) /\ Enter(n0, s0, b0) = F \cup {n0}
  BY <1>1 DEF Shares, Tables, Enter
<1>7. \A n \in Enter(n0, s0, b0) : SentBy(n, b0)
  BY <1>1, <1>2, <1>6 DEF Shares, Tables, OnLinks
<1>8. Counts(d, Entered(F)) /\ Counts(p.data, Under(n0))
  BY <1>1, <1>2 DEF Weighed
<1>9. ASSUME NEW h \in Hosts, h \in Entered(F), h \in Under(n0) PROVE timeouts # 0
  <2>1. PICK m \in F : h \in Under(m)
    BY <1>9 DEF Entered
  <2>2. m = n0
    <3>1. m \in Children(s0)
      BY <1>6
    <3>2. m = n0 \/ Under(m) \cap Under(n0) = {}
      BY <1>1, <3>1, ChildFacts
    <3>3. QED
      BY <1>9, <2>1, <3>2
  <2>3. Has(h, b0, n0, s0, 0)
    BY <1>1, <1>9, <2>1, <2>2 DEF Has
  <2>4. QED
    BY <1>1, <1>9, <2>3, Fresh
<1>10. Entered(Enter(n0, s0, b0)) = Entered(F) \cup Under(n0)
  BY <1>6 DEF Entered
<1>11. ASSUME NEW h \in Hosts
       PROVE  LET H == Entered(F) \cup Under(n0)
                  x == Sum(n0, s0, b0)[h]
              IN  /\ h \in H => x >= 1 /\ (timeouts = 0 => x = 1)
                  /\ h \notin H => x = 0
  <2>1. d[h] \in Nat /\ p.data[h] \in Nat /\ Sum(n0, s0, b0)[h] = d[h] + p.data[h]
    BY <1>3, <1>4
  <2>2. /\ h \in Entered(F) => d[h] >= 1 /\ (timeouts = 0 => d[h] = 1)
        /\ h \notin Entered(F) => d[h] = 0
        /\ h \in Under(n0) => p.data[h] >= 1 /\ (timeouts = 0 => p.data[h] = 1)
        /\ h \notin Under(n0) => p.data[h] = 0
    BY <1>8 DEF Counts
  <2> HIDE DEF d, p, F
  <2>3. QED
    BY <1>9, <2>1, <2>2
<1>12. Counts(Sum(n0, s0, b0), Entered(Enter(n0, s0, b0)))
  BY <1>10, <1>11 DEF Counts
<1>13. QED
  BY <1>5, <1>6, <1>7, <1>12, <1>1

\* A share's place before a packet was taken from link k.
Place(k, n, s, i) == IF i = 0 THEN 0 ELSE Back(<<n, s>>, k, i)

LEMMA PlaceFacts ==
    ASSUME NEW k, NEW n, NEW s, NEW i \in Nat
    PROVE  /\ Place(k, n, s, i) \in Nat /\ (Place(k, n, s, i) = 0 <=> i = 0)
           /\ <<n, s>> = k => Place(k, n, s, i) # 1
           /\ \A j \in Nat : Place(k, n, s, j) = Place(k, n, s, i) => j = i
BY DEF Place, Back

\* The packet is entered, and the block waits for other children.
LEMMA SharesAdd ==
    ASSUME Typed, Shares, Weighed, NEW n0, NEW s0, NEW b0, Offers(n0, s0, b0),
           b0 \notin completed[s0], Enter(n0, s0, b0) # Children(s0),
           Taken(up, up', <<n0, s0>>),
           table' = [table EXCEPT ![s0][b0] = [data |-> Sum(n0, s0, b0), from |-> Enter(n0, s0, b0)]],
           UNCHANGED <<completed, flow, timeouts>>
    PROVE  Shares' /\ Weighed'
<1> DEFINE k == <<n0, s0>>
           e == [data |-> Sum(n0, s0, b0), from |-> Enter(n0, s0, b0)]
<1>1. /\ s0 \in Switches /\ n0 \in Children(s0) /\ n0 \in Nodes /\ b0 \in Blocks
      /\ k \in Links /\ Under(n0) # {} /\ Under(n0) \subseteq Hosts
  BY ChildFacts DEF Offers
<1>2. \A s \in Switches, b \in Blocks :
          table'[s][b] = IF s = s0 /\ b = b0 THEN e ELSE table[s][b]
  BY <1>1 DEF Typed
<1>3. /\ e.from \subseteq Children(s0) /\ \A n \in e.from : SentBy(n, b0)
      /\ Counts(e.data, Entered(e.from)) /\ e.from = table[s0][b0].from \cup {n0}
  BY SumFacts DEF Enter
<1>4. e.from # Children(s0)
  OBVIOUS
<1>5. ASSUME NEW h \in Hosts, NEW b \in Blocks, NEW n \in Nodes, NEW s \in Switches,
             NEW i \in Nat, Has(h, b, n, s, i)'
      PROVE  /\ h \in Under(n) /\ n \in Children(s)
             /\ \/ Has(h, b, n, s, Place(k, n, s, i))
                \/ n = n0 /\ s = s0 /\ i = 0 /\ b = b0
  <2>1. n \in Children(s) /\ h \in Under(n)
    BY <1>5 DEF Has
  <2>2. CASE i = 0 /\ n \in table'[s][b].from
    <3> HIDE DEF e
    <3>1. CASE n \in table[s][b].from
      BY <2>1, <2>2, <3>1 DEF Has, Place
    <3>2. CASE n \notin table[s][b].from
      <4>1. s = s0 /\ b = b0
        BY <1>2, <2>2, <3>2
      <4>2. n \in e.from
        BY <1>2, <2>2, <4>1
      <4>3. QED
        BY <1>3, <2>1, <2>2, <3>2, <4>1, <4>2
    <3>3. QED
      BY <3>1, <3>2
  <2>3. CASE /\ i \in DOMAIN up'[<<n, s>>] /\ up'[<<n, s>>][i].block = b
             /\ n \in Switches \/ timeouts = 0
    <3>1. PICK V : V = up'
      OBVIOUS
    <3>2. Taken(up, V, k) /\ i \in DOMAIN V[<<n, s>>] /\ V[<<n, s>>][i].block = b
      BY <2>3, <3>1
    <3> HIDE DEF k
    <3>3. Has(h, b, n, s, Back(<<n, s>>, k, i)) /\ i \in Nat \ {0}
      BY <1>1, <2>1, <2>3, <3>2, HasBack
    <3>4. QED
      BY <2>1, <3>3 DEF Place
  <2>4. QED
    BY <1>5, <2>2, <2>3 DEF Has
<1>6. ASSUME NEW h \in Under(n0), NEW n \in Nodes, NEW s \in Switches, NEW i \in Nat,
             Has(h, b0, n, s, Place(k, n, s, i))
      PROVE  n = n0 /\ s = s0 /\ i = 0 /\ n0 \notin Switches
  <2>1. Place(k, n, s, i) \in Nat
    BY PlaceFacts
  <2>2. /\ n = n0 /\ s = s0
        /\ Place(k, n, s, i) = 1 \/ (Place(k, n, s, i) = 0 /\ n0 \notin Switches)
    BY <1>6, <2>1, Fresh
  <2>3. Place(k, n, s, i) # 1
    BY <2>2, PlaceFacts
  <2>4. QED
    BY <2>2, <2>3, PlaceFacts
<1> HIDE DEF k, e
<1>7. \A s \in Switches, b \in Blocks : Top(s, b)' <=> Top(s, b)
  BY DEF Top
<1>8. \A n \in Nodes, s \in Switches, i \in Nat : Place(k, n, s, i) \in Nat
  BY PlaceFacts
<1>9. Alone'
  <2>1. SUFFICES ASSUME NEW h \in Hosts, NEW b \in Blocks, NEW n \in Nodes, NEW m \in Nodes,
                        NEW s \in Switches, NEW t \in Switches, NEW i \in Nat, NEW j \in Nat,
                        Has(h, b, n, s, i)', Has(h, b, m, t, j)'
                 PROVE  n = m /\ s = t /\ i = j
    BY DEF Alone
  <2>2. CASE Has(h, b, n, s, Place(k, n, s, i)) /\ Has(h, b, m, t, Place(k, m, t, j))
    <3>1. n = m /\ s = t /\ Place(k, n, s, i) = Place(k, m, t, j)
      BY <1>8, <2>2 DEF Shares, Alone
    <3>2. QED
      BY <3>1, PlaceFacts
  <2>3. CASE n = n0 /\ s = s0 /\ i = 0 /\ b = b0
    BY <1>5, <1>6, <2>1, <2>3
  <2>4. CASE m = n0 /\ t = s0 /\ j = 0 /\ b = b0
    BY <1>5, <1>6, <2>1, <2>4
  <2>5. QED
    BY <1>5, <2>1, <2>2, <2>3, <2>4
<1>10. TopAlone'
  <2>1. \A s \in Switches : ~Top(s, b0)
    BY <1>1, Fresh
  <2>2. QED
    BY <1>5, <1>7, <1>8, <2>1 DEF Shares, TopAlone
<1>11. \A n \in Nodes, b \in Blocks : SentBy(n, b)' <=> SentBy(n, b)
  BY DEF SentBy
<1>12. Tables'
  <2>1. SUFFICES ASSUME NEW s \in Switches, NEW b \in Blocks
                 PROVE  /\ \A n \in table'[s][b].from : n \in Children(s) /\ SentBy(n, b)'
                        /\ table'[s][b].from # {} => table'[s][b].from # Children(s)
                        /\ b \in completed[s] =>
                               /\ table'[s][b] = Empty
                               /\ \A n \in Children(s) : SentBy(n, b)'
                               /\ \A h \in Below[s] : b < flow[h].next
    BY DEF Tables
  <2>2. \A n \in Children(s) : n \in Nodes
    BY ChildFacts
  <2>3. CASE s = s0 /\ b = b0
    BY <1>2, <1>3, <1>4, <1>11, <2>2, <2>3
  <2>4. CASE s # s0 \/ b # b0
    <3>1. table'[s][b] = table[s][b]
      BY <1>2, <2>4
    <3>2. QED
      BY <1>11, <2>2, <3>1 DEF Shares, Tables
  <2>5. QED
    BY <2>3, <2>4
<1>13. OnLinks'
  <2>1. SUFFICES ASSUME NEW l \in Links, NEW i \in DOMAIN up'[l]
                 PROVE  SentBy(l[1], up[l][i].block)'
    BY DEF OnLinks
  <2>2. Back(l, k, i) \in DOMAIN up[l] /\ up'[l][i] = up[l][Back(l, k, i)]
    BY DEF Taken, k
  <2>3. QED
    BY <2>2 DEF Shares, OnLinks, SentBy
<1>14. Passed'
  <2>1. SUFFICES ASSUME NEW h \in Hosts, NEW b \in Blocks, Beyond(h, b)'
                 PROVE  Beyond(h, b)
    BY DEF Shares, Passed
  <2>2. CASE \E s \in Switches : Top(s, b)'
    BY <1>7, <2>2 DEF Beyond
  <2>3. ASSUME NEW n \in Nodes \ {h}, NEW s \in Switches, NEW i \in Nat, Has(h, b, n, s, i)'
        PROVE  Beyond(h, b)
    <3>1. CASE Has(h, b, n, s, Place(k, n, s, i))
      BY <1>8, <3>1 DEF Beyond
    <3>2. CASE n = n0 /\ s = s0 /\ i = 0 /\ b = b0 /\ h \in Under(n0)
      <4>1. n0 \in Switches
        BY <1>1, <2>3, <3>2 DEF Nodes, Under
      <4>2. Has(h, b0, n0, s0, 1)
        BY <3>2, <4>1, Fresh
      <4>3. QED
        BY <1>1, <2>3, <3>2, <4>2 DEF Beyond
    <3>3. QED
      BY <1>5, <2>3, <3>1, <3>2
  <2>4. QED
    BY <2>1, <2>2, <2>3 DEF Beyond
<1>15. NotOld'
  BY <1>5, <1>8 DEF Shares, NotOld
<1>16. Weighed'
  <2>1. ASSUME NEW l \in Links, NEW i \in DOMAIN up'[l]
        PROVE  Counts(up[l][i].data, Under(l[1]))'
    <3>1. Back(l, k, i) \in DOMAIN up[l] /\ up'[l][i] = up[l][Back(l, k, i)]
      BY DEF Taken, k
    <3>2. QED
      BY <3>1 DEF Weighed, Counts
  <2>2. ASSUME NEW s \in Switches, NEW b \in Blocks
        PROVE  Counts(table[s][b].data, Entered(table[s][b].from))'
    <3>1. CASE s = s0 /\ b = b0
      <4>1. table'[s][b] = e
        BY <1>2, <3>1
      <4>2. QED
        BY <1>3, <4>1 DEF Counts, Entered
    <3>2. CASE s # s0 \/ b # b0
      <4>1. table'[s][b] = table[s][b]
        BY <1>2, <3>2
      <4>2. QED
        BY <4>1 DEF Weighed, Counts, Entered
    <3>3. QED
      BY <3>1, <3>2
  <2>3. QED
    BY <2>1, <2>2 DEF Weighed
<1>17. QED
  BY <1>9, <1>10, <1>12, <1>13, <1>14, <1>15, <1>16 DEF Shares

\* When the last child's packet arrives all the shares of the block are there.
LEMMA AllHere ==
    ASSUME Typed, Shares, NEW n0, NEW s0, NEW b0, Offers(n0, s0, b0), b0 \notin completed[s0],
           Enter(n0, s0, b0) = Children(s0), NEW h \in Below[s0]
    PROVE  /\ \A n \in Nodes, s \in Switches, i \in Nat : Has(h, b0, n, s, i) =>
                  s = s0 /\ (i = 0 \/ (n = n0 /\ i = 1))
           /\ \A s \in Switches : ~Top(s, b0)
           /\ \/ \E i \in Nat, m \in Switches : m \in Children(s0) /\ Has(h, b0, m, s0, i)
              \/ Tor(h) = s0
<1>1. /\ s0 \in Switches /\ n0 \in Children(s0) /\ b0 \in Blocks /\ h \in Hosts
      /\ \A n \in Children(s0) : n \in Nodes
  BY ChildFacts, BelowFacts DEF Offers
<1>2. PICK m \in Children(s0) : h \in Under(m)
  BY <1>1, BelowFacts
<1>3. CASE m = n0
  <2>1. \/ \E i \in Nat, x \in Switches : x \in Children(s0) /\ Has(h, b0, x, s0, i)
        \/ Tor(h) = s0
    <3>1. CASE n0 \in Switches
      BY <1>1, <1>2, <1>3, <3>1, Fresh
    <3>2. CASE n0 \notin Switches
      <4>1. n0 \in Hosts
        BY <1>1, <3>2 DEF Nodes
      <4>2. h = n0
        BY <1>2, <1>3, <4>1 DEF Under
      <4>3. QED
        BY <1>1, <4>1, <4>2, TorFacts
    <3>3. QED
      BY <3>1, <3>2
  <2>2. QED
    BY <1>2, <1>3, <2>1, Fresh
<1>4. CASE m # n0
  <2>1. m \in table[s0][b0].from
    BY <1>4 DEF Enter
  <2>2. Has(h, b0, m, s0, 0)
    BY <1>2, <2>1 DEF Has
  <2>3. m \in Switches \/ Tor(h) = s0
    <3>1. CASE m \notin Switches
      <4>1. m \in Hosts
        BY <1>1, <3>1 DEF Nodes
      <4>2. h = m
        BY <1>2, <4>1 DEF Under
      <4>3. QED
        BY <1>1, <4>1, <4>2, TorFacts
    <3>2. QED
      BY <3>1
  <2>4. QED
    BY <1>1, <2>2, <2>3 DEF Shares, Alone, TopAlone
<1>5. QED
  BY <1>3, <1>4

\* The block is whole: what the switch had of it goes up on the links L, or is
\* the sum if it covers everybody.
LEMMA SharesClose ==
    ASSUME Typed, Shares, Weighed, NEW n0, NEW s0, NEW b0, Offers(n0, s0, b0),
           b0 \notin completed[s0], Enter(n0, s0, b0) = Children(s0),
           NEW V, Taken(up, V, <<n0, s0>>), NEW L \in SUBSET Links,
           Put(V, up', L, [block |-> b0, data |-> Sum(n0, s0, b0)]),
           \/ Below[s0] = Hosts /\ L = {}
           \/ Below[s0] # Hosts /\ \E t \in Ups[s0] : L = {<<s0, t>>},
           completed' = [completed EXCEPT ![s0] = @ \cup {b0}],
           table' = [table EXCEPT ![s0][b0] = Empty],
           UNCHANGED <<flow, timeouts>>
    PROVE  /\ Shares' /\ Weighed'
           /\ \A t \in Switches : ~Top(t, b0)
<1> DEFINE k == <<n0, s0>>
           q == [block |-> b0, data |-> Sum(n0, s0, b0)]
<1>1. /\ s0 \in Switches /\ n0 \in Children(s0) /\ n0 \in Nodes /\ b0 \in Blocks
      /\ k \in Links /\ Under(n0) # {} /\ Under(n0) \subseteq Below[s0]
      /\ Below[s0] \subseteq Hosts /\ s0 \notin Hosts /\ Under(s0) = Below[s0]
  BY ChildFacts, BelowFacts DEF Offers
<1>2. \A s \in Switches, b \in Blocks :
          table'[s][b] = IF s = s0 /\ b = b0 THEN Empty ELSE table[s][b]
  BY <1>1 DEF Typed
<1>3. \A s \in Switches : completed'[s] = IF s = s0 THEN completed[s] \cup {b0} ELSE completed[s]
  BY <1>1 DEF Typed
<1>4. /\ \A n \in Children(s0) : SentBy(n, b0)
      /\ Counts(Sum(n0, s0, b0), Entered(Children(s0)))
  BY SumFacts
<1>5. /\ q.block = b0 /\ q.data = Sum(n0, s0, b0)
      /\ \A l \in Links : \A i \in DOMAIN up'[l] :
             \/ i \in DOMAIN V[l] /\ up'[l][i] = V[l][i]
             \/ l \in L /\ i = Len(V[l]) + 1 /\ up'[l][i] = q
  BY DEF Put
<1>6. Taken(up, V, k)
  OBVIOUS
<1>7. \A t, u \in Switches : <<s0, t>> \in L /\ <<s0, u>> \in L => t = u
  OBVIOUS
<1>8. \A l \in L : l[1] = s0 /\ Below[s0] # Hosts
  OBVIOUS
<1> HIDE DEF q
<1>9. ASSUME NEW h \in Hosts, NEW b \in Blocks, NEW n \in Nodes, NEW s \in Switches,
             NEW i \in Nat, Has(h, b, n, s, i)'
      PROVE  /\ h \in Under(n) /\ n \in Children(s)
             /\ \/ Has(h, b, n, s, Place(k, n, s, i)) /\ ~(b = b0 /\ s = s0 /\ i = 0)
                \/ /\ n = s0 /\ <<s0, s>> \in L /\ i = Len(V[<<s0, s>>]) + 1 /\ b = b0
                   /\ h \in Below[s0]
  <2>1. n \in Children(s) /\ h \in Under(n) /\ <<n, s>> \in Links
    BY <1>9, ChildFacts DEF Has
  <2>2. CASE i = 0 /\ n \in table'[s][b].from
    <3>1. ~(s = s0 /\ b = b0) /\ n \in table[s][b].from
      BY <1>2, <2>2 DEF Empty
    <3>2. QED
      BY <2>1, <2>2, <3>1 DEF Has, Place
  <2>3. CASE /\ i \in DOMAIN up'[<<n, s>>] /\ up'[<<n, s>>][i].block = b
             /\ n \in Switches \/ timeouts = 0
    <3> HIDE DEF k
    <3>1. CASE i \in DOMAIN V[<<n, s>>] /\ up'[<<n, s>>][i] = V[<<n, s>>][i]
      <4>1. Has(h, b, n, s, Back(<<n, s>>, k, i)) /\ i \in Nat \ {0}
        BY <1>1, <1>6, <2>1, <2>3, <3>1, HasBack
      <4>2. QED
        BY <2>1, <4>1 DEF Place
    <3>2. CASE /\ <<n, s>> \in L /\ i = Len(V[<<n, s>>]) + 1
               /\ up'[<<n, s>>][i] = q
      <4>1. n = s0
        BY <1>8, <3>2
      <4>2. h \in Below[s0]
        BY <1>1, <2>1, <4>1
      <4>3. b = b0
        BY <1>5, <2>3, <3>2
      <4>4. QED
        BY <2>1, <3>2, <4>1, <4>2, <4>3
    <3>3. QED
      BY <1>5, <2>1, <2>3, <3>1, <3>2
  <2>4. QED
    BY <1>9, <2>2, <2>3 DEF Has
<1> HIDE DEF k
<1>10. ASSUME NEW h \in Below[s0], NEW n \in Nodes, NEW s \in Switches, NEW i \in Nat,
              Has(h, b0, n, s, i)'
       PROVE  n = s0 /\ <<s0, s>> \in L /\ i = Len(V[<<s0, s>>]) + 1
  <2>1. SUFFICES ASSUME Has(h, b0, n, s, Place(k, n, s, i)), ~(s = s0 /\ i = 0)
                 PROVE  FALSE
    BY <1>1, <1>9, <1>10
  <2>2. Place(k, n, s, i) \in Nat
    BY PlaceFacts
  <2>3. s = s0 /\ (Place(k, n, s, i) = 0 \/ (n = n0 /\ Place(k, n, s, i) = 1))
    BY <2>1, <2>2, AllHere
  <2>4. Place(k, n, s, i) = 0 => i = 0
    BY PlaceFacts
  <2>5. n = n0 /\ s = s0 => Place(k, n, s, i) # 1
    BY PlaceFacts DEF k
  <2>6. QED
    BY <2>1, <2>3, <2>4, <2>5
<1>11. \A s \in Switches : ~Top(s, b0)
  BY <1>1, AllHere
<1>12. \A n \in Nodes, s \in Switches, i \in Nat : Place(k, n, s, i) \in Nat
  BY PlaceFacts
<1>13. ASSUME NEW s \in Switches, NEW b \in Blocks, Top(s, b)'
       PROVE  Top(s, b) \/ (s = s0 /\ b = b0 /\ Below[s0] = Hosts)
  BY <1>3, <1>13 DEF Top
<1>14. Alone'
  <2>1. SUFFICES ASSUME NEW h \in Hosts, NEW b \in Blocks, NEW n \in Nodes, NEW m \in Nodes,
                        NEW s \in Switches, NEW t \in Switches, NEW i \in Nat, NEW j \in Nat,
                        Has(h, b, n, s, i)', Has(h, b, m, t, j)'
                 PROVE  n = m /\ s = t /\ i = j
    BY DEF Alone
  <2>2. CASE Has(h, b, n, s, Place(k, n, s, i)) /\ Has(h, b, m, t, Place(k, m, t, j))
    <3>1. n = m /\ s = t /\ Place(k, n, s, i) = Place(k, m, t, j)
      BY <1>12, <2>2 DEF Shares, Alone
    <3>2. QED
      BY <3>1, PlaceFacts
  <2>3. CASE b = b0 /\ h \in Below[s0]
    <3>1. n = s0 /\ <<s0, s>> \in L /\ i = Len(V[<<s0, s>>]) + 1
      BY <1>10, <2>1, <2>3
    <3>2. m = s0 /\ <<s0, t>> \in L /\ j = Len(V[<<s0, t>>]) + 1
      BY <1>10, <2>1, <2>3
    <3>3. s = t
      BY <1>7, <3>1, <3>2
    <3>4. QED
      BY <3>1, <3>2, <3>3
  <2>4. QED
    <3>1. \/ Has(h, b, n, s, Place(k, n, s, i))
          \/ b = b0 /\ h \in Below[s0]
      BY <1>9, <2>1
    <3>2. \/ Has(h, b, m, t, Place(k, m, t, j))
          \/ b = b0 /\ h \in Below[s0]
      BY <1>9, <2>1
    <3>3. QED
      BY <2>2, <2>3, <3>1, <3>2
<1>15. TopAlone'
  <2>1. SUFFICES ASSUME NEW s \in Switches, NEW b \in Blocks, Top(s, b)'
                 PROVE  /\ \A t \in Switches : Top(t, b)' => t = s
                        /\ \A h \in Hosts, n \in Nodes, t \in Switches, i \in Nat :
                               ~Has(h, b, n, t, i)'
    BY DEF TopAlone
  <2>2. CASE b # b0
    <3>1. Top(s, b) /\ \A t \in Switches : Top(t, b)' => Top(t, b)
      BY <1>13, <2>1, <2>2
    <3>2. \A h \in Hosts, n \in Nodes, t \in Switches, i \in Nat :
              Has(h, b, n, t, i)' => Has(h, b, n, t, Place(k, n, t, i))
      BY <1>9, <2>2
    <3>3. QED
      BY <1>12, <3>1, <3>2 DEF Shares, TopAlone
  <2>3. CASE b = b0
    <3>1. s = s0 /\ Below[s0] = Hosts
      BY <1>11, <1>13, <2>1, <2>3
    <3>2. L = {}
      BY <1>8, <3>1
    <3>3. QED
      BY <1>10, <1>11, <1>13, <2>3, <3>1, <3>2
  <2>4. QED
    BY <2>2, <2>3
<1>16. \A n \in Nodes, b \in Blocks : SentBy(n, b) => SentBy(n, b)'
  BY <1>3 DEF SentBy, Nodes
<1>17. \A h \in Below[s0] : b0 < flow[h].next
  <2>1. SUFFICES ASSUME NEW h \in Below[s0] PROVE b0 < flow[h].next
    OBVIOUS
  <2>2. PICK m \in Children(s0) : h \in Under(m)
    BY <1>1, BelowFacts
  <2>3. SentBy(m, b0) /\ m \in Nodes
    BY <1>1, <1>4, ChildFacts
  <2>4. CASE m \in Hosts
    BY <2>2, <2>3, <2>4 DEF Under, SentBy
  <2>5. CASE m \notin Hosts
    <3>1. m \in Switches /\ h \in Below[m] /\ b0 \in completed[m]
      BY <2>2, <2>3, <2>5 DEF Under, SentBy, Nodes
    <3>2. QED
      BY <1>1, <3>1 DEF Shares, Tables
  <2>6. QED
    BY <2>4, <2>5
<1>18. Tables'
  <2>1. SUFFICES ASSUME NEW s \in Switches, NEW b \in Blocks
                 PROVE  /\ \A n \in table'[s][b].from : n \in Children(s) /\ SentBy(n, b)'
                        /\ table'[s][b].from # {} => table'[s][b].from # Children(s)
                        /\ b \in completed'[s] =>
                               /\ table'[s][b] = Empty
                               /\ \A n \in Children(s) : SentBy(n, b)'
                               /\ \A h \in Below[s] : b < flow[h].next
    BY DEF Tables
  <2>2. \A n \in Children(s) : n \in Nodes
    BY ChildFacts
  <2>3. CASE s = s0 /\ b = b0
    <3>1. table'[s][b] = Empty /\ Empty.from = {}
      BY <1>2, <2>3 DEF Empty
    <3>2. QED
      BY <1>1, <1>4, <1>16, <1>17, <2>2, <2>3, <3>1
  <2>4. CASE s # s0 \/ b # b0
    <3>1. table'[s][b] = table[s][b] /\ (b \in completed'[s] => b \in completed[s])
      BY <1>2, <1>3, <2>4
    <3>2. QED
      BY <1>16, <2>2, <3>1 DEF Shares, Tables
  <2>5. QED
    BY <2>3, <2>4
<1>19. OnLinks'
  <2>1. SUFFICES ASSUME NEW l \in Links, NEW i \in DOMAIN up'[l]
                 PROVE  SentBy(l[1], up[l][i].block)'
    BY DEF OnLinks
  <2>2. CASE i \in DOMAIN V[l] /\ up'[l][i] = V[l][i]
    <3>1. Back(l, k, i) \in DOMAIN up[l] /\ V[l][i] = up[l][Back(l, k, i)]
      BY <1>6, <2>2 DEF Taken
    <3>2. l[1] \in Nodes /\ up[l][Back(l, k, i)].block \in Blocks
      BY <3>1, LinkFacts, PieceFacts DEF Typed
    <3>3. QED
      BY <1>16, <2>2, <3>1, <3>2 DEF Shares, OnLinks
  <2>3. CASE l \in L /\ up'[l][i] = q
    <3>1. l[1] = s0 /\ Below[s0] # Hosts /\ up'[l][i].block = b0
      BY <1>5, <1>8, <2>3
    <3>2. b0 \in completed'[s0]
      BY <1>1, <1>3
    <3>3. SentBy(s0, b0)'
      BY <1>1, <3>1, <3>2 DEF SentBy
    <3>4. QED
      BY <3>1, <3>3
  <2>4. QED
    BY <1>5, <2>2, <2>3
<1>20. Passed'
  <2>1. SUFFICES ASSUME NEW h \in Hosts, NEW b \in Blocks, Beyond(h, b)'
                 PROVE  b \in completed'[Tor(h)]
    BY DEF Passed
  <2>2. Beyond(h, b) => b \in completed'[Tor(h)]
    BY <1>3, TorFacts DEF Shares, Passed
  <2>3. CASE b = b0 /\ h \in Below[s0]
    <3>1. CASE Tor(h) = s0
      BY <1>1, <1>3, <2>3, <3>1
    <3>2. ASSUME NEW i \in Nat, NEW m \in Switches, m \in Children(s0), Has(h, b0, m, s0, i)
          PROVE  Beyond(h, b0)
      <4>1. m # h /\ m \in Nodes
        BY BelowFacts DEF Nodes
      <4>2. QED
        BY <1>1, <3>2, <4>1 DEF Beyond
    <3>3. QED
      BY <2>2, <2>3, <3>1, <3>2, AllHere
  <2>4. CASE ~(b = b0 /\ h \in Below[s0])
    <3>1. CASE \E s \in Switches : Top(s, b)'
      BY <1>13, <2>2, <2>4, <3>1 DEF Beyond
    <3>2. ASSUME NEW n \in Nodes \ {h}, NEW s \in Switches, NEW i \in Nat, Has(h, b, n, s, i)'
          PROVE  Beyond(h, b)
      <4>1. Has(h, b, n, s, Place(k, n, s, i))
        BY <1>9, <2>4, <3>2
      <4>2. QED
        BY <1>12, <4>1 DEF Beyond
    <3>3. QED
      BY <2>1, <2>2, <3>1, <3>2 DEF Beyond
  <2>5. QED
    BY <2>3, <2>4
<1>21. NotOld'
  <2>1. SUFFICES ASSUME NEW h \in Hosts, NEW b \in Blocks, NEW n \in Nodes, NEW s \in Switches,
                        NEW i \in Nat, Has(h, b, n, s, i)'
                 PROVE  b \notin completed'[s]
    BY DEF NotOld
  <2>2. n \in Children(s) /\ h \in Under(n)
    BY <1>9, <2>1
  <2>3. CASE Has(h, b, n, s, Place(k, n, s, i)) /\ ~(s = s0 /\ b = b0)
    BY <1>3, <1>12, <2>3 DEF Shares, NotOld
  <2>4. CASE s = s0 /\ b = b0 /\ n # s0
    <3>1. h \in Below[s0]
      BY <2>2, <2>4, ChildFacts
    <3>2. QED
      BY <1>10, <2>1, <2>4, <3>1
  <2>5. CASE n = s0 /\ b = b0
    <3>1. ~SentBy(s0, b0)
      BY <1>1 DEF SentBy
    <3>2. b0 \notin completed[s]
      BY <1>1, <2>2, <2>5, <3>1 DEF Shares, Tables
    <3>3. s # s0
      BY <1>4, <2>2, <2>5, <3>1
    <3>4. QED
      BY <1>3, <2>5, <3>2, <3>3
  <2>6. QED
    <3>1. \/ Has(h, b, n, s, Place(k, n, s, i)) /\ ~(b = b0 /\ s = s0 /\ i = 0)
          \/ n = s0 /\ b = b0
      BY <1>9, <2>1
    <3>2. CASE Has(h, b, n, s, Place(k, n, s, i))
      <4>1. CASE s = s0 /\ b = b0
        BY <2>4, <2>5, <4>1
      <4>2. QED
        BY <2>3, <3>2, <4>1
    <3>3. QED
      BY <2>5, <3>1, <3>2
<1>22. Weighed'
  <2>1. ASSUME NEW l \in Links, NEW i \in DOMAIN up'[l]
        PROVE  Counts(up[l][i].data, Under(l[1]))'
    <3>1. CASE i \in DOMAIN V[l] /\ up'[l][i] = V[l][i]
      <4>1. Back(l, k, i) \in DOMAIN up[l] /\ V[l][i] = up[l][Back(l, k, i)]
        BY <1>6, <3>1 DEF Taken
      <4>2. QED
        BY <3>1, <4>1 DEF Weighed, Counts
    <3>2. CASE l \in L /\ up'[l][i] = q
      <4>1. Entered(Children(s0)) = Under(s0)
        BY <1>1, TreeAssumption DEF Entered
      <4>2. l[1] = s0 /\ up'[l][i].data = Sum(n0, s0, b0)
        BY <1>5, <1>8, <3>2
      <4>3. QED
        BY <1>4, <4>1, <4>2 DEF Counts
    <3>3. QED
      BY <1>5, <3>1, <3>2
  <2>2. ASSUME NEW s \in Switches, NEW b \in Blocks
        PROVE  Counts(table[s][b].data, Entered(table[s][b].from))'
    <3>1. CASE s = s0 /\ b = b0
      <4>1. table'[s][b] = Empty
        BY <1>2, <3>1
      <4>2. QED
        BY <4>1 DEF Counts, Entered, Empty, Nothing
    <3>2. CASE s # s0 \/ b # b0
      <4>1. table'[s][b] = table[s][b]
        BY <1>2, <3>2
      <4>2. QED
        BY <4>1 DEF Weighed, Counts, Entered
    <3>3. QED
      BY <3>1, <3>2
  <2>3. QED
    BY <2>1, <2>2 DEF Weighed
<1>23. QED
  BY <1>11, <1>14, <1>15, <1>18, <1>19, <1>20, <1>21, <1>22 DEF Shares


-----------------------------------------------------------------------------
(* Every step keeps the shares apart and weighed.                          *)

ReduceSound == Typed /\ Shares /\ Weighed /\ Remembers

\* The packet that n's link brings s is one of block b.
Brought(n, s) == Head(up[<<n, s>>]).block

\* The block was complete already: the packet is dropped.
Ignored(n, s, b) ==
    /\ b \in completed[s] /\ Taken(up, up', <<n, s>>)
    /\ UNCHANGED <<down, table, completed>>

\* It is added, and other children are awaited.
Added(n, s, b) ==
    /\ b \notin completed[s] /\ Enter(n, s, b) # Children(s) /\ Taken(up, up', <<n, s>>)
    /\ table' = [table EXCEPT ![s][b] = [data |-> Sum(n, s, b), from |-> Enter(n, s, b)]]
    /\ UNCHANGED <<down, completed>>

\* Whatever goes up on the links L takes its place there.
Sends(n, s, b, V, L) ==
    /\ Taken(up, V, <<n, s>>) /\ L \in SUBSET Links
    /\ Put(V, up', L, [block |-> b, data |-> Sum(n, s, b)])
    /\ \/ Below[s] = Hosts /\ L = {}
       \/ Below[s] # Hosts /\ \E t \in Ups[s] : L = {<<s, t>>}

\* The block is whole.
Closed(n, s, b) ==
    /\ b \notin completed[s] /\ Enter(n, s, b) = Children(s)
    /\ \E V, L : Sends(n, s, b, V, L)
    /\ completed' = [completed EXCEPT ![s] = @ \cup {b}]
    /\ table' = [table EXCEPT ![s][b] = Empty]
    /\ \/ Below[s] = Hosts /\ down' = Multicast(down, s, b, Sum(n, s, b))
       \/ Below[s] # Hosts /\ UNCHANGED down

\* What a contribution does is one of these.
LEMMA ContributionIs ==
    ASSUME Typed, Shares, Weighed, NEW l \in Links, Contribution(l[1], l[2])
    PROVE  LET b == Brought(l[1], l[2])
           IN  /\ Offers(l[1], l[2], b)
               /\ Ignored(l[1], l[2], b) \/ Added(l[1], l[2], b) \/ Closed(l[1], l[2], b)
               /\ UNCHANGED <<flow, got, timeouts, drops>>
<1> DEFINE n == l[1]
           s == l[2]
           b == Brought(n, s)
           u == [up EXCEPT ![<<n, s>>] = Tail(@)]
           data == Plus(table[s][b].data, Head(up[<<n, s>>]).data)
           from == table[s][b].from \cup {n}
<1>1. s \in Switches /\ n \in Children(s) /\ l = <<n, s>>
  BY LinkFacts
<1>2. up[<<n, s>>] # <<>> /\ UNCHANGED <<flow, got, timeouts, drops>>
  BY DEF Contribution
<1>3. up \in [Links -> Seq(Piece)] /\ down \in [Links -> Seq(Piece)]
  BY DEF Typed
<1>4. Head(up[<<n, s>>]) \in Piece
  <2>1. up[<<n, s>>] \in Seq(Piece)
    BY <1>1, <1>3
  <2>2. QED
    BY <1>2, <2>1
<1>5. b \in Blocks
  BY <1>4 DEF Brought, Piece
<1>6. Offers(n, s, b)
  BY <1>1, <1>2, <1>5 DEF Offers, Brought
<1>7. data = Sum(n, s, b) /\ from = Enter(n, s, b)
  BY DEF Sum, Enter
<1>8. PICK V : V = u
  OBVIOUS
<1>9. Taken(up, V, <<n, s>>)
  <2>1. V = [up EXCEPT ![<<n, s>>] = Tail(up[<<n, s>>])]
    BY <1>8
  <2>2. <<n, s>> \in Links
    BY <1>1
  <2>3. QED
    BY <1>2, <1>3, <2>1, <2>2, TailFacts
<1>10. CASE b \in completed[s]
  <2>1. up' = V /\ UNCHANGED <<down, table, completed>>
    BY <1>8, <1>10 DEF Contribution, IsOld, Brought, switches
  <2>2. Ignored(n, s, b)
    BY <1>9, <1>10, <2>1 DEF Ignored
  <2>3. QED
    BY <1>2, <1>6, <2>2
<1>11. CASE b \notin completed[s]
  <2>1. /\ Sum(n, s, b) \in [Hosts -> Nat] /\ Enter(n, s, b) \subseteq Children(s)
    BY <1>6, <1>11, SumFacts
  <2>2. IsWhole(s, from) <=> Enter(n, s, b) = Children(s)
    BY <1>1, <1>7, <2>1, WholeFacts
  <2>3. CASE Enter(n, s, b) # Children(s)
    <3>1. /\ table' = [table EXCEPT ![s][b] = [data |-> data, from |-> from]]
          /\ up' = V /\ UNCHANGED <<down, completed>>
      BY <1>8, <1>11, <2>2, <2>3 DEF Contribution, IsOld, Brought
    <3>2. Added(n, s, b)
      BY <1>7, <1>9, <1>11, <2>3, <3>1 DEF Added
    <3>3. QED
      BY <1>2, <1>6, <3>2
  <2>4. CASE Enter(n, s, b) = Children(s)
    <3>1. Close(s, b, data, u)
      BY <1>11, <2>2, <2>4 DEF Contribution, IsOld, Brought
    <3>2. Close(s, b, Sum(n, s, b), V)
      BY <1>7, <1>8, <3>1
    <3>3. [block |-> b, data |-> Sum(n, s, b)] \in Piece
      BY <1>5, <2>1 DEF Piece
    <3>4. V \in [Links -> Seq(Piece)]
      BY <1>9 DEF Taken
    <3>5. PICK q : q = [block |-> b, data |-> Sum(n, s, b)]
      OBVIOUS
    <3> HIDE DEF n, s, b, u, data, from
    <3>6. /\ \E L : Sends(n, s, b, V, L)
          /\ \/ Below[s] = Hosts /\ down' = Multicast(down, s, b, Sum(n, s, b))
             \/ Below[s] # Hosts /\ UNCHANGED down
      <4>1. CASE Below[s] = Hosts
        <5>1. up' = V /\ down' = Multicast(down, s, b, Sum(n, s, b))
          BY <3>2, <4>1 DEF Close
        <5>2. Puts(V, up', {}, q)
          BY <3>4, <5>1 DEF Puts
        <5>3. Put(V, up', {}, q)
          BY <3>3, <3>4, <3>5, <5>2, PutFacts
        <5>4. Sends(n, s, b, V, {})
          BY <1>9, <3>5, <4>1, <5>3 DEF Sends
        <5>5. QED
          BY <4>1, <5>1, <5>4
      <4>2. CASE Below[s] # Hosts
        <5>1. PICK t \in Ups[s] : up' = [V EXCEPT ![<<s, t>>] = Append(@, q)]
          BY <3>2, <3>5, <4>2 DEF Close
        <5>2. <<s, t>> \in Links
          BY <1>1, UpFacts
        <5>3. Puts(V, up', {<<s, t>>}, q)
          <6>1. V = [k \in Links |-> V[k]]
            BY <3>4
          <6>2. up' = [k \in Links |-> IF k \in {<<s, t>>} THEN Append(V[k], q) ELSE V[k]]
            BY <5>1, <5>2, <6>1
          <6>3. QED
            BY <6>2 DEF Puts
        <5>4. Put(V, up', {<<s, t>>}, q)
          <6>1. {<<s, t>>} \in SUBSET Links
            BY <5>2
          <6>2. QED
            BY <3>3, <3>4, <3>5, <5>3, <6>1, PutFacts
        <5>5. Sends(n, s, b, V, {<<s, t>>})
          BY <1>9, <3>5, <4>2, <5>2, <5>4 DEF Sends
        <5>6. UNCHANGED down
          BY <3>2, <4>2 DEF Close
        <5>7. QED
          BY <4>2, <5>5, <5>6
      <4>3. QED
        BY <4>1, <4>2
    <3>7. Closed(n, s, b)
      BY <1>11, <2>4, <3>2, <3>6 DEF Closed, Close
    <3>8. QED
      BY <1>2, <1>6, <3>7 DEF n, s, b
  <2>5. QED
    BY <2>3, <2>4
<1>12. QED
  BY <1>10, <1>11


-----------------------------------------------------------------------------
(* The sources' steps.                                                     *)

LEMMA MinFacts ==
    ASSUME NEW S \in SUBSET Nat, S # {}
    PROVE  Min(S) \in S /\ \A x \in S : Min(S) <= x
<1>1. \E x \in S : \A y \in S : x <= y
  BY LeastNatural
<1>2. QED
  BY <1>1 DEF Min

LEMMA SourceFacts ==
    ASSUME Typed, NEW h \in Hosts
    PROVE  /\ flow[h] \in Source /\ flow[h].next \in Nat /\ flow[h].next <= NBlocks
           /\ flow[h].records \subseteq Blocks /\ flow[h].rtx \subseteq Blocks
           /\ flow[h].timer \in Int /\ NBlocks \in Nat /\ Blocks \subseteq Nat
           /\ Off \in Int /\ Again \in Int
BY TreeAssumption DEF Typed, Source, Blocks, Off, Again

LEMMA SendNewSound ==
    ASSUME ReduceSound, NEW h \in Hosts, SendNew(h)
    PROVE  ReduceSound'
<1> DEFINE b == flow[h].next
           r == [flow[h] EXCEPT !.next = b + 1, !.records = @ \cup {b},
                                !.timer = Armed(@, b)]
<1>1. /\ b < NBlocks /\ flow[h].rtx = {} /\ flow' = [flow EXCEPT ![h] = r]
      /\ up' = [up EXCEPT ![<<h, Tor(h)>>] = Append(@, [block |-> b, data |-> From(h)])]
      /\ UNCHANGED <<down, table, completed, got, timeouts, drops>>
  BY DEF SendNew, switches, ReduceSound, Typed
<1>2. b \in Blocks /\ b + 1 \in 0 .. NBlocks /\ b < b + 1
  BY <1>1, SourceFacts DEF ReduceSound, Blocks
<1>3. /\ r \in Source /\ r.next = b + 1 /\ r.records = flow[h].records \cup {b}
      /\ r.rtx = flow[h].rtx
  <2>1. flow[h] \in Source /\ Armed(flow[h].timer, b) \in Int
    BY <1>2, SourceFacts DEF ReduceSound, Armed, Blocks
  <2>2. QED
    BY <1>2, <2>1 DEF Source
<1>4. flow \in [Hosts -> Source]
  BY DEF ReduceSound, Typed
<1> HIDE DEF r
<1>5. flow' \in [Hosts -> Source] /\ \A g \in Hosts : flow'[g] = IF g = h THEN r ELSE flow[g]
  BY <1>1, <1>3, <1>4
<1>6. \A g \in Hosts : flow'[g].next \in Nat /\ flow[g].next <= flow'[g].next
  <2>1. SUFFICES ASSUME NEW g \in Hosts
                 PROVE  flow'[g].next \in Nat /\ flow[g].next <= flow'[g].next
    OBVIOUS
  <2>2. flow[g].next \in Nat
    BY SourceFacts DEF ReduceSound
  <2>3. QED
    BY <1>2, <1>3, <1>5, <2>2
<1>7. Shares' /\ Weighed'
  <2>1. b < flow'[h].next /\ b >= flow[h].next
    <3>1. flow[h].next \in Nat /\ flow'[h].next = flow[h].next + 1
      BY <1>3, <1>5, SourceFacts DEF ReduceSound
    <3>2. QED
      BY <3>1
  <2> HIDE DEF b
  <2>2. UNCHANGED <<table, completed, timeouts>>
    BY <1>1
  <2>3. QED
    BY <1>1, <1>2, <1>6, <2>1, <2>2, SharesSend DEF ReduceSound
<1>8. up' \in [Links -> Seq(Piece)]
  <2>1. [block |-> b, data |-> From(h)] \in Piece
    BY <1>2 DEF Piece, From
  <2>2. QED
    BY <1>1, <2>1, TorFacts DEF ReduceSound, Typed
<1>9. Typed'
  BY <1>1, <1>5, <1>8 DEF ReduceSound, Typed
<1>10. Remembers'
  <2>1. SUFFICES ASSUME NEW g \in Hosts
                 PROVE  /\ \A x \in flow'[g].records \cup flow'[g].rtx : x < flow'[g].next
                        /\ timeouts = 0 => flow'[g].rtx = {}
    BY <1>1 DEF Remembers
  <2>2. CASE g # h
    BY <1>5, <2>2 DEF ReduceSound, Remembers
  <2>3. CASE g = h
    <3>1. \A x \in flow[h].records \cup flow[h].rtx : x \in Nat /\ x < b
      BY SourceFacts DEF ReduceSound, Remembers
    <3>2. /\ flow'[g].next = flow[h].next + 1 /\ flow[h].next \in Nat
          /\ flow'[g].records = flow[h].records \cup {b} /\ flow'[g].rtx = {}
      BY <1>1, <1>3, <1>5, <2>3, SourceFacts DEF ReduceSound
    <3>3. QED
      BY <3>1, <3>2
  <2>4. QED
    BY <2>2, <2>3
<1>11. QED
  BY <1>7, <1>9, <1>10 DEF ReduceSound

LEMMA SendRtxSound ==
    ASSUME ReduceSound, NEW h \in Hosts, SendRtx(h)
    PROVE  ReduceSound'
<1> DEFINE b == Min(flow[h].rtx)
           r == [flow[h] EXCEPT !.rtx = @ \ {b}, !.timer = Armed(@, Again)]
<1>1. /\ flow[h].rtx # {} /\ flow' = [flow EXCEPT ![h] = r]
      /\ up' = [up EXCEPT ![<<h, Tor(h)>>] = Append(@, [block |-> b, data |-> From(h)])]
      /\ UNCHANGED <<down, table, completed, got, timeouts, drops>>
  BY DEF SendRtx, switches, ReduceSound, Typed
<1>2. b \in flow[h].rtx /\ b \in Blocks /\ b < flow[h].next /\ timeouts # 0
  <2>1. flow[h].rtx \subseteq Blocks /\ Blocks \subseteq Nat
    BY SourceFacts DEF ReduceSound
  <2>2. b \in flow[h].rtx
    <3>1. flow[h].rtx \in SUBSET Nat
      BY <2>1
    <3>2. QED
      BY <1>1, <3>1, MinFacts
  <2> HIDE DEF b
  <2>3. QED
    BY <1>1, <2>1, <2>2 DEF ReduceSound, Remembers
<1> HIDE DEF b
<1>3. /\ r \in Source /\ r.next = flow[h].next /\ r.records = flow[h].records
      /\ r.rtx = flow[h].rtx \ {b}
  <2>1. flow[h] \in Source /\ Armed(flow[h].timer, Again) \in Int
    BY SourceFacts DEF ReduceSound, Armed
  <2>2. QED
    BY <2>1 DEF Source
<1>4. flow \in [Hosts -> Source]
  BY DEF ReduceSound, Typed
<1> HIDE DEF r
<1>5. flow' \in [Hosts -> Source] /\ \A g \in Hosts : flow'[g] = IF g = h THEN r ELSE flow[g]
  BY <1>1, <1>3, <1>4
<1>6. \A g \in Hosts : flow'[g].next \in Nat /\ flow[g].next <= flow'[g].next
  <2>1. SUFFICES ASSUME NEW g \in Hosts
                 PROVE  flow'[g].next \in Nat /\ flow[g].next <= flow'[g].next
    OBVIOUS
  <2>2. flow[g].next \in Nat
    BY SourceFacts DEF ReduceSound
  <2>3. QED
    BY <1>3, <1>5, <2>2
<1>7. Shares' /\ Weighed'
  <2>1. b < flow'[h].next
    BY <1>2, <1>3, <1>5
  <2>2. UNCHANGED <<table, completed, timeouts>>
    BY <1>1
  <2>3. QED
    BY <1>1, <1>2, <1>6, <2>1, <2>2, SharesSend DEF ReduceSound
<1>8. up' \in [Links -> Seq(Piece)]
  <2>1. [block |-> b, data |-> From(h)] \in Piece
    BY <1>2 DEF Piece, From
  <2>2. QED
    BY <1>1, <2>1, TorFacts DEF ReduceSound, Typed
<1>9. Typed'
  BY <1>1, <1>5, <1>8 DEF ReduceSound, Typed
<1>10. Remembers'
  BY <1>1, <1>2, <1>3, <1>5 DEF ReduceSound, Remembers
<1>11. QED
  BY <1>7, <1>9, <1>10 DEF ReduceSound

\* A source is left with fewer records and retransmissions, or with some of its
\* records as retransmissions after a timer expired; no packet is sent.
LEMMA SourceSound ==
    ASSUME ReduceSound, NEW h \in Hosts, NEW r \in Source,
           flow' = [flow EXCEPT ![h] = r], r.next = flow[h].next,
           r.records \subseteq flow[h].records,
           r.rtx \subseteq flow[h].rtx \cup flow[h].records,
           timeouts' \in Nat, timeouts <= timeouts',
           timeouts' = 0 => r.rtx \subseteq flow[h].rtx,
           UNCHANGED <<up, table, completed, drops>>,
           down' \in [Links -> Seq(Piece)], got' \in [Hosts -> Seq(Piece)]
    PROVE  ReduceSound'
<1>1. /\ flow' \in [Hosts -> Source]
      /\ \A g \in Hosts : flow'[g] = IF g = h THEN r ELSE flow[g]
  BY DEF ReduceSound, Typed
<1>2. Shares' /\ Weighed'
  <2>1. \A g \in Hosts : flow'[g].next = flow[g].next
    BY <1>1
  <2>2. UNCHANGED <<up, table, completed>>
    OBVIOUS
  <2>3. QED
    BY <2>1, <2>2, SharesStay DEF ReduceSound
<1>3. Typed'
  BY <1>1 DEF ReduceSound, Typed
<1>4. Remembers'
  <2>1. SUFFICES ASSUME NEW g \in Hosts
                 PROVE  /\ \A x \in flow'[g].records \cup flow'[g].rtx : x < flow'[g].next
                        /\ timeouts' = 0 => flow'[g].rtx = {}
    BY DEF Remembers
  <2>2. timeouts' = 0 => timeouts = 0
    BY DEF ReduceSound, Typed
  <2>3. QED
    BY <1>1, <2>2 DEF ReduceSound, Remembers
<1>5. QED
  BY <1>2, <1>3, <1>4 DEF ReduceSound


LEMMA RtxTimerExpiredSound ==
    ASSUME ReduceSound, NEW h \in Hosts, RtxTimerExpired(h)
    PROVE  ReduceSound'
<1>1. /\ timeouts' = timeouts + 1
      /\ UNCHANGED <<up, down, table, completed, got, drops>>
  BY DEF RtxTimerExpired, switches
<1>2. /\ timeouts' \in Nat /\ timeouts <= timeouts' /\ timeouts' # 0
  BY <1>1 DEF ReduceSound, Typed
<1>3. down' \in [Links -> Seq(Piece)] /\ got' \in [Hosts -> Seq(Piece)]
  BY <1>1 DEF ReduceSound, Typed
<1> DEFINE records == flow[h].records
           b == Min(records)
           left == records \ {b}
           r == [flow[h] EXCEPT !.records = left, !.rtx = @ \cup {b}, !.timer = Earliest(left)]
<1>4. CASE records = {}
  <2>1. flow' = [flow EXCEPT ![h] = flow[h]]
    BY <1>4 DEF RtxTimerExpired, ReduceSound, Typed
  <2>2. flow[h] \in Source
    BY SourceFacts DEF ReduceSound
  <2>3. QED
    BY <1>1, <1>2, <1>3, <2>1, <2>2, SourceSound
<1>5. CASE records # {}
  <2>1. flow' = [flow EXCEPT ![h] = r]
    BY <1>5 DEF RtxTimerExpired, ReduceSound, Typed
  <2>2. records \subseteq Blocks /\ Blocks \subseteq Nat
    BY SourceFacts DEF ReduceSound
  <2>3. b \in records
    <3>1. records \in SUBSET Nat
      BY <2>2
    <3>2. QED
      BY <1>5, <3>1, MinFacts
  <2>4. Earliest(left) \in Int
    <3>1. left \in SUBSET Nat
      BY <2>2
    <3>2. CASE left = {}
      BY <3>2 DEF Earliest, Off
    <3>3. CASE left # {}
      <4>1. Min(left) \in left
        BY <3>1, <3>3, MinFacts
      <4>2. Earliest(left) \in Nat
        BY <3>1, <3>3, <4>1 DEF Earliest
      <4>3. QED
        BY <4>2
    <3>4. QED
      BY <3>2, <3>3
  <2> HIDE DEF b
  <2>5. /\ r \in Source /\ r.next = flow[h].next /\ r.records = left
        /\ r.rtx = flow[h].rtx \cup {b}
    <3>1. flow[h] \in Source
      BY SourceFacts DEF ReduceSound
    <3>2. b \in Blocks /\ left \subseteq Blocks
      BY <2>2, <2>3
    <3> HIDE DEF left
    <3>3. QED
      BY <2>4, <3>1, <3>2 DEF Source
  <2> HIDE DEF r
  <2>6. QED
    BY <1>1, <1>2, <1>3, <2>1, <2>3, <2>5, SourceSound
<1>6. QED
  BY <1>4, <1>5

\* What the source h remembers after a result of block b.
After(h, b) ==
    [flow[h] EXCEPT !.records = {x \in @ : x > b}, !.rtx = {x \in @ : x > b},
                    !.timer = ResultTimer(flow[h], b, {x \in flow[h].records : x > b})]

LEMMA AfterFacts ==
    ASSUME Typed, NEW h \in Hosts, NEW b \in Blocks
    PROVE  /\ After(h, b) \in Source /\ After(h, b).next = flow[h].next
           /\ After(h, b).records = {x \in flow[h].records : x > b}
           /\ After(h, b).rtx = {x \in flow[h].rtx : x > b}
           /\ After(h, b).timer = ResultTimer(flow[h], b, {x \in flow[h].records : x > b})
<1> DEFINE left == {x \in flow[h].records : x > b}
<1>1. /\ flow[h] \in Source /\ flow[h].timer \in Int /\ flow[h].records \subseteq Blocks
      /\ Blocks \subseteq Nat
  BY SourceFacts
<1>2. left \in SUBSET Nat
  BY <1>1
<1> HIDE DEF left
<1>3. Earliest(left) \in Int
  <2>1. CASE left = {}
    BY <2>1 DEF Earliest, Off
  <2>2. CASE left # {}
    <3>1. Min(left) \in left
      BY <1>2, <2>2, MinFacts
    <3>2. Earliest(left) \in Nat
      BY <1>2, <2>2, <3>1 DEF Earliest
    <3>3. QED
      BY <3>2
  <2>3. QED
    BY <2>1, <2>2
<1>4. ResultTimer(flow[h], b, left) \in Int
  BY <1>1, <1>3 DEF ResultTimer, Off
<1>5. QED
  BY <1>1, <1>4 DEF After, Source, left

LEMMA ResultIs ==
    ASSUME Typed, NEW h \in Hosts, Result(h)
    PROVE  LET k == <<h, Tor(h)>>
               r == Head(down[k])
           IN  /\ k \in Links /\ down[k] # <<>> /\ Taken(down, down', k)
               /\ r \in Piece /\ r.block \in Blocks /\ r = down[k][1] /\ 1 \in DOMAIN down[k]
               /\ flow' = [flow EXCEPT ![h] = After(h, r.block)]
               /\ got' = [got EXCEPT ![h] = Append(got[h], r)]
               /\ UNCHANGED <<up, table, completed, timeouts, drops>>
<1> DEFINE k == <<h, Tor(h)>>
           r == Head(down[k])
<1>1. k \in Links
  BY TorFacts
<1>2. down[k] # <<>> /\ down' = [down EXCEPT ![k] = Tail(down[k])]
      /\ UNCHANGED <<up, table, completed, timeouts, drops>>
      /\ got' = [got EXCEPT ![h] = Append(got[h], r)]
  BY DEF Result, switches, Typed
<1>3. Taken(down, down', k)
  <2>1. down \in [Links -> Seq(Piece)]
    BY DEF Typed
  <2>2. QED
    BY <1>1, <1>2, <2>1, TailFacts
<1>4. r \in Piece /\ r.block \in Blocks /\ r = down[k][1] /\ 1 \in DOMAIN down[k]
  BY <1>3 DEF Taken, Piece
<1>5. flow' = [flow EXCEPT ![h] = After(h, r.block)]
  BY DEF Result, After, Typed
<1>6. QED
  BY <1>1, <1>2, <1>3, <1>4, <1>5

LEMMA ResultSound ==
    ASSUME ReduceSound, NEW h \in Hosts, Result(h)
    PROVE  ReduceSound'
<1> DEFINE k == <<h, Tor(h)>>
           r == Head(down[k])
<1>1. Typed
  BY DEF ReduceSound
<1>2. /\ Taken(down, down', k) /\ r \in Piece /\ r.block \in Blocks
      /\ flow' = [flow EXCEPT ![h] = After(h, r.block)]
      /\ got' = [got EXCEPT ![h] = Append(got[h], r)]
      /\ UNCHANGED <<up, table, completed, timeouts, drops>>
  BY <1>1, ResultIs
<1>3. /\ After(h, r.block) \in Source /\ After(h, r.block).next = flow[h].next
      /\ After(h, r.block).records \subseteq flow[h].records
      /\ After(h, r.block).rtx \subseteq flow[h].rtx
  BY <1>1, <1>2, AfterFacts
<1>4. down' \in [Links -> Seq(Piece)]
  BY <1>2 DEF Taken
<1>5. got' \in [Hosts -> Seq(Piece)]
  <2>1. got \in [Hosts -> Seq(Piece)]
    BY <1>1 DEF Typed
  <2>2. Append(got[h], r) \in Seq(Piece)
    <3>1. got[h] \in Seq(Piece)
      BY <2>1
    <3>2. QED
      BY <1>2, <3>1
  <2>3. QED
    BY <1>2, <2>1, <2>2
<1>6. timeouts' \in Nat /\ timeouts <= timeouts'
  BY <1>1, <1>2 DEF Typed
<1> HIDE DEF r, k
<1>7. QED
  BY <1>2, <1>3, <1>4, <1>5, <1>6, SourceSound


-----------------------------------------------------------------------------
(* The network's steps.                                                    *)

\* The links to the children of s.
Out(s) == {k \in Links : k[2] = s}

LEMMA PassDownIs ==
    ASSUME Typed, NEW l \in Links, l[1] \in Switches, PassDown(l[1], l[2])
    PROVE  /\ \E V : Taken(down, V, l) /\ Put(V, down', Out(l[1]), down[l][1])
           /\ down[l][1] \in Piece /\ 1 \in DOMAIN down[l]
           /\ UNCHANGED <<up, table, completed, flow, got, timeouts, drops>>
<1> DEFINE s == l[1]
           r == Head(down[l])
           q == [block |-> r.block, data |-> r.data]
<1>1. /\ l = <<l[1], l[2]>>
      /\ down[l] # <<>>
      /\ down' = Multicast([down EXCEPT ![l] = Tail(@)], s, r.block, r.data)
      /\ UNCHANGED <<up, table, completed, flow, got, timeouts, drops>>
  BY LinkFacts DEF PassDown, switches
<1>2. PICK V : V = [down EXCEPT ![l] = Tail(down[l])]
  OBVIOUS
<1>3. down \in [Links -> Seq(Piece)]
  BY DEF Typed
<1>4. Taken(down, V, l)
  BY <1>1, <1>2, <1>3, TailFacts
<1>5. V \in [Links -> Seq(Piece)] /\ r \in Piece /\ r = down[l][1] /\ 1 \in DOMAIN down[l]
  BY <1>4 DEF Taken
<1>6. q = r /\ q \in Piece
  BY <1>5 DEF Piece
<1>7. Puts(V, down', Out(s), q)
  <2>1. down' = Multicast(V, s, r.block, r.data)
    BY <1>1, <1>2
  <2> HIDE DEF s, r
  <2>2. down' = [k \in Links |-> IF k[2] = s THEN Append(V[k], q) ELSE V[k]]
    BY <2>1 DEF Multicast
  <2> HIDE DEF q
  <2>3. [k \in Links |-> IF k[2] = s THEN Append(V[k], q) ELSE V[k]]
        = [k \in Links |-> IF k \in Out(s) THEN Append(V[k], q) ELSE V[k]]
    BY DEF Out
  <2>4. QED
    BY <2>2, <2>3 DEF Puts
<1>8. Put(V, down', Out(s), q)
  <2>1. Out(s) \in SUBSET Links
    BY DEF Out
  <2> HIDE DEF s, q
  <2>2. QED
    BY <1>5, <1>6, <1>7, <2>1, PutFacts
<1>9. QED
  BY <1>1, <1>4, <1>5, <1>6, <1>8

LEMMA DropIs ==
    ASSUME Typed, NEW l \in Links, Drop(l)
    PROVE  /\ \/ Taken(up, up', l) /\ UNCHANGED down
              \/ Taken(down, down', l) /\ UNCHANGED up
           /\ drops' = drops + 1
           /\ UNCHANGED <<table, completed, flow, got, timeouts>>
<1>1. up \in [Links -> Seq(Piece)] /\ down \in [Links -> Seq(Piece)]
  BY DEF Typed
<1>2. drops' = drops + 1 /\ UNCHANGED <<table, completed, flow, got, timeouts>>
  BY DEF Drop, switches
<1>3. CASE up[l] # <<>> /\ up' = [up EXCEPT ![l] = Tail(@)] /\ UNCHANGED down
  <2>1. Taken(up, up', l)
    BY <1>1, <1>3, TailFacts
  <2>2. QED
    BY <1>2, <1>3, <2>1
<1>4. CASE down[l] # <<>> /\ down' = [down EXCEPT ![l] = Tail(@)] /\ UNCHANGED up
  <2>1. Taken(down, down', l)
    BY <1>1, <1>4, TailFacts
  <2>2. QED
    BY <1>2, <1>4, <2>1
<1>5. QED
  BY <1>3, <1>4 DEF Drop

\* Only what comes down changes.
LEMMA DownSound ==
    ASSUME ReduceSound, down' \in [Links -> Seq(Piece)], drops' \in Nat,
           UNCHANGED <<up, table, completed, flow, got, timeouts>>
    PROVE  ReduceSound'
<1>1. timeouts' \in Nat /\ timeouts <= timeouts'
  BY DEF ReduceSound, Typed
<1>2. Shares' /\ Weighed'
  BY <1>1, SharesStay DEF ReduceSound
<1>3. QED
  BY <1>2 DEF ReduceSound, Typed, Remembers

LEMMA DropSound ==
    ASSUME ReduceSound, NEW l \in Links, Drop(l)
    PROVE  ReduceSound'
<1>1. /\ \/ Taken(up, up', l) /\ UNCHANGED down
         \/ Taken(down, down', l) /\ UNCHANGED up
      /\ drops' = drops + 1 /\ UNCHANGED <<table, completed, flow, got, timeouts>>
  BY DropIs DEF ReduceSound
<1>2. drops' \in Nat
  BY <1>1 DEF ReduceSound, Typed
<1>3. CASE Taken(up, up', l) /\ UNCHANGED down
  <2>1. Shares' /\ Weighed'
    BY <1>1, <1>3, SharesTaken DEF ReduceSound
  <2>2. up' \in [Links -> Seq(Piece)]
    BY <1>3 DEF Taken
  <2>3. QED
    BY <1>1, <1>2, <1>3, <2>1, <2>2 DEF ReduceSound, Typed, Remembers
<1>4. CASE Taken(down, down', l) /\ UNCHANGED up
  <2>1. down' \in [Links -> Seq(Piece)]
    BY <1>4 DEF Taken
  <2>2. QED
    BY <1>1, <1>2, <1>4, <2>1, DownSound
<1>5. QED
  BY <1>1, <1>3, <1>4

LEMMA PassDownSound ==
    ASSUME ReduceSound, NEW l \in Links, l[1] \in Switches, PassDown(l[1], l[2])
    PROVE  ReduceSound'
<1>1. /\ \E V : Put(V, down', Out(l[1]), down[l][1])
      /\ UNCHANGED <<up, table, completed, flow, got, timeouts, drops>>
  BY PassDownIs DEF ReduceSound
<1>2. down' \in [Links -> Seq(Piece)] /\ drops' \in Nat
  BY <1>1 DEF Put, ReduceSound, Typed
<1>3. QED
  BY <1>1, <1>2, DownSound

LEMMA MulticastFacts ==
    ASSUME NEW D \in [Links -> Seq(Piece)], NEW s \in Switches, NEW q \in Piece,
           NEW W, W = Multicast(D, s, q.block, q.data)
    PROVE  Put(D, W, Out(s), q)
<1>1. [block |-> q.block, data |-> q.data] = q
  BY DEF Piece
<1>2. W = [k \in Links |-> IF k[2] = s THEN Append(D[k], q) ELSE D[k]]
  BY <1>1 DEF Multicast
<1>3. [k \in Links |-> IF k[2] = s THEN Append(D[k], q) ELSE D[k]]
      = [k \in Links |-> IF k \in Out(s) THEN Append(D[k], q) ELSE D[k]]
  BY DEF Out
<1>4. Puts(D, W, Out(s), q)
  BY <1>2, <1>3 DEF Puts
<1>5. Out(s) \in SUBSET Links
  BY DEF Out
<1>6. QED
  BY <1>4, <1>5, PutFacts

LEMMA ContributionSound ==
    ASSUME ReduceSound, NEW l \in Links, Contribution(l[1], l[2])
    PROVE  ReduceSound'
<1> DEFINE n == l[1]
           s == l[2]
           b == Brought(n, s)
<1>1. /\ Offers(n, s, b)
      /\ Ignored(n, s, b) \/ Added(n, s, b) \/ Closed(n, s, b)
      /\ UNCHANGED <<flow, got, timeouts, drops>>
  BY ContributionIs DEF ReduceSound
<1>2. Typed /\ Shares /\ Weighed /\ Remembers
  BY DEF ReduceSound
<1>3. <<n, s>> \in Links /\ s \in Switches /\ b \in Blocks
  BY LinkFacts, <1>1 DEF Offers
<1> HIDE DEF n, s, b
<1>4. CASE Ignored(n, s, b)
  <2>1. Shares' /\ Weighed'
    BY <1>1, <1>2, <1>3, <1>4, SharesTaken DEF Ignored
  <2>2. up' \in [Links -> Seq(Piece)]
    BY <1>4 DEF Ignored, Taken
  <2>3. QED
    BY <1>1, <1>2, <1>4, <2>1, <2>2 DEF Ignored, ReduceSound, Typed, Remembers
<1>5. CASE Added(n, s, b)
  <2>1. Shares' /\ Weighed'
    BY <1>1, <1>2, <1>5, SharesAdd DEF Added
  <2>2. up' \in [Links -> Seq(Piece)]
    BY <1>5 DEF Added, Taken
  <2>3. [data |-> Sum(n, s, b), from |-> Enter(n, s, b)] \in Entry
    <3>1. Sum(n, s, b) \in [Hosts -> Nat] /\ Enter(n, s, b) \subseteq Children(s)
      BY <1>1, <1>2, <1>5, SumFacts DEF Added
    <3>2. Children(s) \subseteq Nodes
      BY DEF Children, Nodes
    <3>3. QED
      BY <3>1, <3>2 DEF Entry
  <2>4. table' \in [Switches -> [Blocks -> Entry]]
    <3>1. PICK e \in Entry : e = [data |-> Sum(n, s, b), from |-> Enter(n, s, b)]
      BY <2>3
    <3>2. table' = [table EXCEPT ![s][b] = e]
      BY <1>5, <3>1 DEF Added
    <3>3. QED
      BY <1>2, <3>2 DEF Typed
  <2>5. QED
    BY <1>1, <1>2, <1>5, <2>1, <2>2, <2>4 DEF Added, ReduceSound, Typed, Remembers
<1>6. CASE Closed(n, s, b)
  <2>1. PICK V, L : Sends(n, s, b, V, L)
    BY <1>6 DEF Closed
  <2>2. Shares' /\ Weighed'
    BY <1>1, <1>2, <1>6, <2>1, SharesClose DEF Closed, Sends
  <2>3. up' \in [Links -> Seq(Piece)]
    BY <2>1 DEF Sends, Put
  <2>4. [block |-> b, data |-> Sum(n, s, b)] \in Piece
    BY <1>1, <1>2, <1>3, <1>6, SumFacts DEF Closed, Piece
  <2>5. down' \in [Links -> Seq(Piece)]
    <3>1. PICK q : q = [block |-> b, data |-> Sum(n, s, b)]
      OBVIOUS
    <3>2. CASE down' = Multicast(down, s, b, Sum(n, s, b))
      <4>1. down' = Multicast(down, s, q.block, q.data) /\ q \in Piece
        BY <2>4, <3>1, <3>2
      <4>2. Put(down, down', Out(s), q)
        BY <1>2, <1>3, <4>1, MulticastFacts DEF Typed
      <4>3. QED
        BY <4>2 DEF Put
    <3>3. QED
      BY <1>2, <1>6, <3>2 DEF Closed, Typed
  <2>6. Empty \in Entry
    BY DEF Empty, Entry, Nothing
  <2>7. table' \in [Switches -> [Blocks -> Entry]]
    <3> HIDE DEF Entry
    <3>1. QED
      BY <1>2, <1>6, <2>6 DEF Closed, Typed
  <2>8. completed' \in [Switches -> SUBSET Blocks]
    BY <1>2, <1>3, <1>6 DEF Closed, Typed
  <2>9. QED
    BY <1>1, <1>2, <2>2, <2>3, <2>5, <2>7, <2>8 DEF ReduceSound, Typed, Remembers
<1>7. QED
  BY <1>1, <1>4, <1>5, <1>6

\* The first state: nothing was sent.
LEMMA InitSound ==
    ASSUME ReduceInit
    PROVE  ReduceSound
<1>1. Typed
  <2>1. Empty \in Entry
    BY DEF Empty, Entry, Nothing
  <2>2. [next |-> 0, records |-> {}, rtx |-> {}, timer |-> Off] \in Source
    BY TreeAssumption DEF Source, Off
  <2>3. QED
    BY <2>1, <2>2 DEF ReduceInit, Typed
<1>2. \A h, b, n, i : \A s \in Switches : b \in Blocks /\ n \in Children(s) => ~Has(h, b, n, s, i)
  BY ChildFacts DEF ReduceInit, Has, Empty
<1>3. \A s \in Switches, b \in Blocks : ~Top(s, b) /\ table[s][b] = Empty /\ b \notin completed[s]
  BY DEF ReduceInit, Top
<1>4. \A h, b, n, i : \A s \in Switches : b \in Blocks => ~Has(h, b, n, s, i)
  BY <1>2 DEF Has
<1>5. Alone /\ TopAlone /\ Passed /\ NotOld
  BY <1>3, <1>4 DEF Alone, TopAlone, Passed, NotOld, Beyond
<1>6. Tables
  BY <1>3 DEF Tables, Empty
<1>7. \A l \in Links : DOMAIN up[l] = {}
  BY DEF ReduceInit
<1>8. OnLinks
  BY <1>7 DEF OnLinks
<1>9. Weighed
  BY <1>3, <1>7 DEF Weighed, Empty, Counts, Entered, Nothing
<1>10. Remembers
  BY DEF ReduceInit, Remembers
<1>11. QED
  BY <1>1, <1>5, <1>6, <1>8, <1>9, <1>10 DEF ReduceSound, Shares

\* What a step is.
Steps ==
    \/ \E h \in Hosts : SendNew(h) \/ SendRtx(h) \/ Result(h) \/ RtxTimerExpired(h)
    \/ \E l \in Links : Contribution(l[1], l[2]) \/ Drop(l)
    \/ \E l \in Links : l[1] \in Switches /\ PassDown(l[1], l[2])
    \/ UNCHANGED reduceVars

LEMMA NextIs ==
    ASSUME [ReduceNext]_reduceVars
    PROVE  Steps
BY DEF ReduceNext, Goes, Steps

LEMMA SoundKept ==
    ASSUME ReduceSound, [ReduceNext]_reduceVars
    PROVE  ReduceSound'
<1>1. CASE UNCHANGED reduceVars
  <2>1. /\ down' \in [Links -> Seq(Piece)] /\ drops' \in Nat
        /\ UNCHANGED <<up, table, completed, flow, got, timeouts>>
    BY <1>1 DEF reduceVars, ReduceSound, Typed
  <2>2. QED
    BY <2>1, DownSound
<1>2. CASE \E h \in Hosts : SendNew(h) \/ SendRtx(h) \/ Result(h) \/ RtxTimerExpired(h)
  BY <1>2, SendNewSound, SendRtxSound, ResultSound, RtxTimerExpiredSound
<1>3. CASE \E l \in Links : Contribution(l[1], l[2]) \/ Drop(l)
  BY <1>3, ContributionSound, DropSound
<1>4. CASE \E l \in Links : l[1] \in Switches /\ PassDown(l[1], l[2])
  BY <1>4, PassDownSound
<1>5. QED
  BY <1>1, <1>2, <1>3, <1>4, NextIs DEF Steps


-----------------------------------------------------------------------------
(* The way down.  D stands for what is on the links down, and G for what   *)
(* the hosts got.                                                          *)

\* A copy of block b's sum that is headed for h is at position i from s to n.
Coming(D, h, b, n, s, i) ==
    /\ h \in Under(n) /\ n \in Children(s)
    /\ i \in DOMAIN D[<<n, s>>] /\ D[<<n, s>>][i].block = b

Gotten(G, h, b, i) == i \in DOMAIN G[h] /\ G[h][i].block = b

Headed(D, h, b) == \E n \in Nodes, s \in Switches, i \in Nat : Coming(D, h, b, n, s, i)
Reached(G, h, b) == \E i \in Nat : Gotten(G, h, b, i)

\* A host is headed for by one copy of a block's sum at most, which it did not get before.
OneCopy(D, G) ==
    \A h \in Hosts, b \in Blocks :
        /\ \A n, m \in Nodes, s, t \in Switches, i, j \in Nat :
               Coming(D, h, b, n, s, i) /\ Coming(D, h, b, m, t, j) =>
                   n = m /\ s = t /\ i = j
        /\ Headed(D, h, b) => ~Reached(G, h, b)
        /\ \A i, j \in Nat : Gotten(G, h, b, i) /\ Gotten(G, h, b, j) => i = j

\* What is on the links down after a packet was taken was there before.
LEMMA ComingBack ==
    ASSUME NEW D, NEW k \in Links, NEW V, Taken(D, V, k), NEW h, NEW b, NEW n, NEW s \in Switches,
           NEW i, Coming(V, h, b, n, s, i)
    PROVE  /\ i \in Nat \ {0} /\ Coming(D, h, b, n, s, Place(k, n, s, i))
           /\ Place(k, n, s, i) \in Nat
<1>1. n \in Children(s) /\ <<n, s>> \in Links
  BY ChildFacts DEF Coming
<1>2. /\ i \in Nat \ {0} /\ Back(<<n, s>>, k, i) \in DOMAIN D[<<n, s>>]
      /\ V[<<n, s>>][i] = D[<<n, s>>][Back(<<n, s>>, k, i)]
  BY <1>1 DEF Taken, Coming
<1>3. Place(k, n, s, i) = Back(<<n, s>>, k, i)
  BY <1>2 DEF Place
<1>4. QED
  BY <1>2, <1>3, PlaceFacts DEF Coming

LEMMA TakenCopies ==
    ASSUME NEW D, NEW G, OneCopy(D, G), NEW k \in Links, NEW V, Taken(D, V, k)
    PROVE  OneCopy(V, G)
<1>1. ASSUME NEW h \in Hosts, NEW b \in Blocks, Headed(V, h, b) PROVE Headed(D, h, b)
  <2>1. PICK n \in Nodes, s \in Switches, i \in Nat : Coming(V, h, b, n, s, i)
    BY <1>1 DEF Headed
  <2>2. Coming(D, h, b, n, s, Place(k, n, s, i)) /\ Place(k, n, s, i) \in Nat
    BY <2>1, ComingBack
  <2>3. QED
    BY <2>2 DEF Headed
<1>2. ASSUME NEW h \in Hosts, NEW b \in Blocks, NEW n \in Nodes, NEW m \in Nodes,
             NEW s \in Switches, NEW t \in Switches, NEW i \in Nat, NEW j \in Nat,
             Coming(V, h, b, n, s, i), Coming(V, h, b, m, t, j)
      PROVE  n = m /\ s = t /\ i = j
  <2>1. /\ Coming(D, h, b, n, s, Place(k, n, s, i)) /\ Place(k, n, s, i) \in Nat
        /\ Coming(D, h, b, m, t, Place(k, m, t, j)) /\ Place(k, m, t, j) \in Nat
    BY <1>2, ComingBack
  <2>2. n = m /\ s = t /\ Place(k, n, s, i) = Place(k, m, t, j)
    BY <2>1 DEF OneCopy
  <2>3. QED
    BY <2>2, PlaceFacts
<1>3. QED
  BY <1>1, <1>2 DEF OneCopy

\* The first packet of a link is headed for whoever is under it, and for nobody
\* after it was taken.
LEMMA FirstGone ==
    ASSUME NEW D \in [Links -> Seq(Piece)], NEW G, OneCopy(D, G), NEW k \in Links,
           NEW V, Taken(D, V, k), NEW h \in Under(k[1])
    PROVE  /\ h \in Hosts /\ D[k][1].block \in Blocks
           /\ Coming(D, h, D[k][1].block, k[1], k[2], 1)
           /\ ~Headed(V, h, D[k][1].block) /\ ~Reached(G, h, D[k][1].block)
<1> DEFINE b == D[k][1].block
<1>1. /\ k = <<k[1], k[2]>> /\ k[2] \in Switches /\ k[1] \in Children(k[2]) /\ k[1] \in Nodes
      /\ h \in Hosts
  BY LinkFacts, ChildFacts
<1>2. b \in Blocks /\ 1 \in DOMAIN D[k]
  <2>1. 1 \in DOMAIN D[k]
    BY DEF Taken
  <2>2. QED
    BY <2>1, PieceFacts
<1>3. Coming(D, h, b, k[1], k[2], 1)
  BY <1>1, <1>2 DEF Coming
<1>4. ~Reached(G, h, b)
  BY <1>1, <1>2, <1>3 DEF OneCopy, Headed
<1>5. ASSUME NEW n \in Nodes, NEW s \in Switches, NEW i \in Nat, Coming(V, h, b, n, s, i)
      PROVE  FALSE
  <2>1. Coming(D, h, b, n, s, Place(k, n, s, i)) /\ Place(k, n, s, i) \in Nat
    BY <1>5, ComingBack
  <2>2. n = k[1] /\ s = k[2] /\ Place(k, n, s, i) = 1
    BY <1>1, <1>2, <1>3, <2>1 DEF OneCopy
  <2>3. <<n, s>> = k
    BY <1>1, <2>2
  <2>4. QED
    BY <2>2, <2>3, PlaceFacts
<1>6. QED
  BY <1>1, <1>2, <1>3, <1>4, <1>5 DEF Headed

\* A copy is put on the way to each child of s, whom nobody headed for.
LEMMA SpreadCopies ==
    ASSUME NEW V \in [Links -> Seq(Piece)], NEW G, OneCopy(V, G), NEW s0 \in Switches,
           NEW q \in Piece, NEW W, Put(V, W, Out(s0), q),
           \A h \in Below[s0] : ~Headed(V, h, q.block) /\ ~Reached(G, h, q.block)
    PROVE  OneCopy(W, G)
<1>1. ASSUME NEW h \in Hosts, NEW b \in Blocks, NEW n \in Nodes, NEW s \in Switches,
             NEW i \in Nat, Coming(W, h, b, n, s, i)
      PROVE  \/ Coming(V, h, b, n, s, i)
             \/ /\ s = s0 /\ n \in Children(s0) /\ i = Len(V[<<n, s0>>]) + 1 /\ b = q.block
                /\ h \in Under(n) /\ h \in Below[s0]
  <2>1. n \in Children(s) /\ h \in Under(n) /\ <<n, s>> \in Links /\ h \in Below[s]
    BY <1>1, ChildFacts DEF Coming
  <2>2. i \in DOMAIN W[<<n, s>>] /\ W[<<n, s>>][i].block = b
    BY <1>1 DEF Coming
  <2>3. CASE i \in DOMAIN V[<<n, s>>] /\ W[<<n, s>>][i] = V[<<n, s>>][i]
    BY <2>1, <2>2, <2>3 DEF Coming
  <2>4. CASE /\ <<n, s>> \in Out(s0) /\ i = Len(V[<<n, s>>]) + 1
             /\ W[<<n, s>>][i] = q
    <3>1. s = s0
      BY <2>4 DEF Out
    <3>2. QED
      BY <2>1, <2>2, <2>4, <3>1
  <2>5. QED
    BY <2>1, <2>2, <2>3, <2>4 DEF Put
<1>2. ASSUME NEW h \in Hosts, NEW b \in Blocks, NEW n \in Nodes, NEW s \in Switches,
             NEW i \in Nat, Coming(W, h, b, n, s, i), b = q.block, h \in Below[s0]
      PROVE  s = s0 /\ n \in Children(s0) /\ i = Len(V[<<n, s0>>]) + 1 /\ h \in Under(n)
  <2>1. ~Coming(V, h, b, n, s, i)
    BY <1>2 DEF Headed
  <2>2. QED
    BY <1>1, <1>2, <2>1
<1>3. ASSUME NEW h \in Hosts, NEW b \in Blocks, NEW n \in Nodes, NEW m \in Nodes,
             NEW s \in Switches, NEW t \in Switches, NEW i \in Nat, NEW j \in Nat,
             Coming(W, h, b, n, s, i), Coming(W, h, b, m, t, j)
      PROVE  n = m /\ s = t /\ i = j
  <2>1. CASE b = q.block /\ h \in Below[s0]
    <3>1. s = s0 /\ n \in Children(s0) /\ i = Len(V[<<n, s0>>]) + 1 /\ h \in Under(n)
      BY <1>2, <1>3, <2>1
    <3>2. t = s0 /\ m \in Children(s0) /\ j = Len(V[<<m, s0>>]) + 1 /\ h \in Under(m)
      BY <1>2, <1>3, <2>1
    <3>3. n = m
      BY <3>1, <3>2, ChildFacts
    <3>4. QED
      BY <3>1, <3>2, <3>3
  <2>2. CASE ~(b = q.block /\ h \in Below[s0])
    <3>1. Coming(V, h, b, n, s, i) /\ Coming(V, h, b, m, t, j)
      BY <1>1, <1>3, <2>2
    <3>2. QED
      BY <3>1 DEF OneCopy
  <2>3. QED
    BY <2>1, <2>2
<1>4. ASSUME NEW h \in Hosts, NEW b \in Blocks, Headed(W, h, b) PROVE ~Reached(G, h, b)
  <2>1. Headed(V, h, b) \/ (b = q.block /\ h \in Below[s0])
    BY <1>1, <1>4 DEF Headed
  <2>2. QED
    BY <2>1 DEF OneCopy
<1>5. QED
  BY <1>3, <1>4 DEF OneCopy

LEMMA GottenFacts ==
    ASSUME NEW G \in [Hosts -> Seq(Piece)], NEW h0 \in Hosts, NEW r \in Piece,
           NEW F, F = [G EXCEPT ![h0] = Append(G[h0], r)]
    PROVE  /\ F \in [Hosts -> Seq(Piece)]
           /\ \A h \in Hosts : \A i \in DOMAIN F[h] :
                  \/ i \in DOMAIN G[h] /\ F[h][i] = G[h][i]
                  \/ h = h0 /\ i = Len(G[h0]) + 1 /\ F[h][i] = r
           /\ \A h \in Hosts : \A i \in DOMAIN G[h] : i \in DOMAIN F[h] /\ F[h][i] = G[h][i]
           /\ Len(G[h0]) + 1 \in DOMAIN F[h0] /\ F[h0][Len(G[h0]) + 1] = r
           /\ Len(G[h0]) + 1 \in Nat
<1>1. G[h0] \in Seq(Piece)
  OBVIOUS
<1>2. /\ Append(G[h0], r) \in Seq(Piece)
      /\ \A i \in DOMAIN Append(G[h0], r) :
             \/ i \in DOMAIN G[h0] /\ Append(G[h0], r)[i] = G[h0][i]
             \/ i = Len(G[h0]) + 1 /\ Append(G[h0], r)[i] = r
      /\ \A i \in DOMAIN G[h0] : i \in DOMAIN Append(G[h0], r) /\ Append(G[h0], r)[i] = G[h0][i]
      /\ Len(G[h0]) + 1 \in DOMAIN Append(G[h0], r) /\ Append(G[h0], r)[Len(G[h0]) + 1] = r
      /\ Len(G[h0]) + 1 \in Nat
  BY <1>1
<1>3. \A h \in Hosts : F[h] = IF h = h0 THEN Append(G[h0], r) ELSE G[h]
  OBVIOUS
<1>4. F \in [Hosts -> Seq(Piece)]
  BY <1>2
<1>5. QED
  BY <1>2, <1>3, <1>4

\* A host receives the packet that was taken.
LEMMA ReceiveCopies ==
    ASSUME NEW D \in [Links -> Seq(Piece)], NEW G \in [Hosts -> Seq(Piece)], OneCopy(D, G),
           NEW h0 \in Hosts, NEW V, Taken(D, V, <<h0, Tor(h0)>>),
           NEW F, F = [G EXCEPT ![h0] = Append(G[h0], D[<<h0, Tor(h0)>>][1])]
    PROVE  OneCopy(V, F)
<1> DEFINE k == <<h0, Tor(h0)>>
           r == D[k][1]
<1>1. k \in Links /\ k[1] = h0 /\ h0 \in Under(k[1])
  BY TorFacts
<1>2. /\ ~Headed(V, h0, r.block) /\ ~Reached(G, h0, r.block) /\ OneCopy(V, G)
  BY <1>1, FirstGone, TakenCopies
<1>3. r \in Piece
  <2>1. 1 \in DOMAIN D[k]
    BY DEF Taken
  <2>2. QED
    BY <1>1, <2>1, PieceFacts
<1> HIDE DEF k
<1>4. ASSUME NEW h \in Hosts, NEW b \in Blocks, NEW i \in Nat, Gotten(F, h, b, i)
      PROVE  \/ Gotten(G, h, b, i)
             \/ h = h0 /\ b = r.block /\ i = Len(G[h0]) + 1
  <2> HIDE DEF r
  <2>1. i \in DOMAIN F[h] /\ F[h][i].block = b
    BY <1>4 DEF Gotten
  <2>2. F = [G EXCEPT ![h0] = Append(G[h0], r)]
    BY DEF r, k
  <2>3. \/ i \in DOMAIN G[h] /\ F[h][i] = G[h][i]
        \/ h = h0 /\ i = Len(G[h0]) + 1 /\ F[h][i] = r
    BY <1>3, <2>1, <2>2, GottenFacts
  <2>4. QED
    BY <2>1, <2>3 DEF Gotten
<1> HIDE DEF r
<1>5. ASSUME NEW h \in Hosts, NEW b \in Blocks, Headed(V, h, b) PROVE ~Reached(F, h, b)
  <2>1. ~(h = h0 /\ b = r.block)
    BY <1>2, <1>5
  <2>2. ~Reached(G, h, b)
    BY <1>2, <1>5 DEF OneCopy
  <2>3. QED
    BY <1>4, <2>1, <2>2 DEF Reached
<1>6. ASSUME NEW h \in Hosts, NEW b \in Blocks, NEW i \in Nat, NEW j \in Nat,
             Gotten(F, h, b, i), Gotten(F, h, b, j)
      PROVE  i = j
  <2>1. CASE h = h0 /\ b = r.block
    <3>1. ~Gotten(G, h, b, i) /\ ~Gotten(G, h, b, j)
      BY <1>2, <2>1 DEF Reached
    <3>2. QED
      BY <1>4, <1>6, <3>1
  <2>2. CASE ~(h = h0 /\ b = r.block)
    <3>1. Gotten(G, h, b, i) /\ Gotten(G, h, b, j)
      BY <1>4, <1>6, <2>2
    <3>2. QED
      BY <1>2, <3>1 DEF OneCopy
  <2>3. QED
    BY <2>1, <2>2
<1>7. QED
  BY <1>2, <1>5, <1>6 DEF OneCopy


\* Whoever was headed for still is, unless the packet taken was headed there.
LEMMA TakenHeaded ==
    ASSUME NEW D \in [Links -> Seq(Piece)], NEW k \in Links, NEW V, Taken(D, V, k),
           NEW h, NEW b, Headed(D, h, b)
    PROVE  Headed(V, h, b) \/ (h \in Under(k[1]) /\ b = D[k][1].block)
<1>1. PICK n \in Nodes, s \in Switches, i \in Nat : Coming(D, h, b, n, s, i)
  BY DEF Headed
<1>2. n \in Children(s) /\ h \in Under(n) /\ <<n, s>> \in Links
      /\ i \in DOMAIN D[<<n, s>>] /\ D[<<n, s>>][i].block = b
  BY <1>1, ChildFacts DEF Coming
<1>3. CASE <<n, s>> = k /\ i = 1
  BY <1>2, <1>3
<1>4. CASE ~(<<n, s>> = k /\ i = 1)
  <2>1. PICK j \in DOMAIN V[<<n, s>>] : V[<<n, s>>][j] = D[<<n, s>>][i]
    <3>1. \A l \in Links : \A x \in DOMAIN D[l] :
              l # k \/ x # 1 =>
                  \E y \in DOMAIN V[l] : Back(l, k, y) = x /\ V[l][y] = D[l][x]
      BY DEF Taken
    <3>2. <<n, s>> # k \/ i # 1
      BY <1>4
    <3>3. QED
      BY <1>2, <3>1, <3>2
  <2>2. j \in Nat
    BY <1>2, <2>1 DEF Taken
  <2>3. Coming(V, h, b, n, s, j)
    BY <1>2, <2>1 DEF Coming
  <2>4. QED
    BY <2>2, <2>3 DEF Headed
<1>5. QED
  BY <1>3, <1>4

LEMMA PutHeaded ==
    ASSUME NEW V, NEW W, NEW L, NEW q, Put(V, W, L, q), NEW h, NEW b, Headed(V, h, b)
    PROVE  Headed(W, h, b)
<1>1. PICK n \in Nodes, s \in Switches, i \in Nat : Coming(V, h, b, n, s, i)
  BY DEF Headed
<1>2. n \in Children(s) /\ h \in Under(n) /\ <<n, s>> \in Links
  BY <1>1, ChildFacts DEF Coming
<1>3. Coming(W, h, b, n, s, i)
  BY <1>1, <1>2 DEF Put, Coming
<1>4. QED
  BY <1>3 DEF Headed

\* A multicast heads for everybody below the switch.
LEMMA SpreadHeaded ==
    ASSUME NEW V \in [Links -> Seq(Piece)], NEW s \in Switches, NEW q, NEW W, Put(V, W, Out(s), q),
           NEW h \in Below[s]
    PROVE  Headed(W, h, q.block)
<1>1. PICK n \in Children(s) : h \in Under(n)
  BY BelowFacts
<1>2. <<n, s>> \in Links /\ n \in Nodes
  BY ChildFacts
<1>3. <<n, s>> \in Out(s)
  BY <1>2 DEF Out
<1>4. Len(V[<<n, s>>]) + 1 \in Nat
  <2>1. V[<<n, s>>] \in Seq(Piece)
    BY <1>2
  <2>2. QED
    BY <2>1
<1>5. /\ Len(V[<<n, s>>]) + 1 \in DOMAIN W[<<n, s>>]
      /\ W[<<n, s>>][Len(V[<<n, s>>]) + 1] = q
  BY <1>3 DEF Put
<1>6. Coming(W, h, q.block, n, s, Len(V[<<n, s>>]) + 1)
  BY <1>1, <1>5 DEF Coming
<1>7. QED
  BY <1>2, <1>4, <1>6 DEF Headed

-----------------------------------------------------------------------------
(* The sums that come down.                                                *)

\* r is on its way down or was received.
Given(D, G, r) ==
    \/ \E l \in Links : \E i \in DOMAIN D[l] : r = D[l][i]
    \/ \E h \in Hosts : \E i \in DOMAIN G[h] : r = G[h][i]

LEMMA GivenFacts ==
    ASSUME NEW D, NEW G
    PROVE  \A r : r \in (UNION {Elements(D[l]) : l \in Links}) \cup (UNION {Elements(G[h]) : h \in Hosts})
                     <=> Given(D, G, r)
<1>1. \A q, r : r \in Elements(q) <=> \E i \in DOMAIN q : r = q[i]
  BY DEF Elements
<1>2. \A r : r \in UNION {Elements(D[l]) : l \in Links} <=> \E l \in Links : r \in Elements(D[l])
  OBVIOUS
<1>3. \A r : r \in UNION {Elements(G[h]) : h \in Hosts} <=> \E h \in Hosts : r \in Elements(G[h])
  OBVIOUS
<1>4. QED
  BY <1>1, <1>2, <1>3 DEF Given

LEMMA ResultsFacts == \A r : r \in Results <=> Given(down, got, r)
BY GivenFacts DEF Results

\* A result counts everybody, is the only sum of its block, and some switch at
\* the top made it.
Summed ==
    /\ \A r \in Results : Counts(r.data, Hosts) /\ \E s \in Switches : Top(s, r.block)
    /\ \A q, r \in Results : q.block = r.block => q.data = r.data

\* As long as no packet was dropped a sum that was made has reached everybody, or will.
Arrives ==
    drops = 0 =>
        \A s \in Switches, b \in Blocks : Top(s, b) =>
            \A h \in Hosts : Headed(down, h, b) \/ Reached(got, h, b)

Returned == OneCopy(down, got) /\ Summed /\ Arrives

Tops == {x \in Switches \X Blocks : Top(x[1], x[2])}

\* No switch at the top made a sum.
LEMMA ReturnedStays ==
    ASSUME ReduceSound, Returned, OneCopy(down, got)',
           \A r : Given(down, got, r)' => Given(down, got, r),
           \A s \in Switches, b \in Blocks : Top(s, b)' <=> Top(s, b),
           \A s \in Switches : completed[s] \subseteq completed'[s],
           timeouts' \in Nat, timeouts <= timeouts',
           drops' = 0 =>
               /\ drops = 0
               /\ \A h \in Hosts, b \in Blocks :
                      Headed(down, h, b) \/ Reached(got, h, b) =>
                          (Headed(down, h, b) \/ Reached(got, h, b))'
    PROVE  Returned'
<1>1. timeouts' = 0 => timeouts = 0
  BY DEF ReduceSound, Typed
<1>2. \A r : r \in Results' => r \in Results
  <2>1. \A r : r \in Results' => Given(down, got, r)'
    <3>1. PICK D, G : D = down' /\ G = got'
      OBVIOUS
    <3>2. Results' = (UNION {Elements(D[l]) : l \in Links}) \cup (UNION {Elements(G[h]) : h \in Hosts})
      BY <3>1 DEF Results, Elements
    <3>3. \A r : r \in Results' => Given(D, G, r)
      BY <3>2, GivenFacts
    <3>4. QED
      BY <3>1, <3>3 DEF Given
  <2>2. QED
    BY <2>1, ResultsFacts
<1>3. ASSUME NEW r \in Results'
      PROVE  Counts(r.data, Hosts)' /\ \E s \in Switches : Top(s, r.block)'
  <2>1. Counts(r.data, Hosts) /\ \E s \in Switches : Top(s, r.block)
    BY <1>2 DEF Returned, Summed
  <2>2. Counts(r.data, Hosts)'
    BY <1>1, <2>1 DEF Counts
  <2>3. \E s \in Switches : Top(s, r.block)'
    BY <2>1 DEF Top
  <2>4. QED
    BY <2>2, <2>3
<1>4. Summed'
  BY <1>2, <1>3 DEF Returned, Summed
<1>5. Arrives'
  <2>1. SUFFICES ASSUME drops' = 0, NEW s \in Switches, NEW b \in Blocks, Top(s, b)',
                        NEW h \in Hosts
                 PROVE  (Headed(down, h, b) \/ Reached(got, h, b))'
    BY DEF Arrives
  <2>2. Headed(down, h, b) \/ Reached(got, h, b)
    BY <2>1 DEF Returned, Arrives
  <2>3. QED
    BY <2>1, <2>2
<1>6. QED
  BY <1>4, <1>5 DEF Returned

LEMMA TakenGiven ==
    ASSUME NEW D, NEW V, NEW k \in Links, Taken(D, V, k), NEW G, NEW r, Given(V, G, r)
    PROVE  Given(D, G, r)
<1>1. ASSUME NEW l \in Links, NEW i \in DOMAIN V[l], r = V[l][i] PROVE Given(D, G, r)
  <2>1. Back(l, k, i) \in DOMAIN D[l] /\ V[l][i] = D[l][Back(l, k, i)]
    BY DEF Taken
  <2>2. QED
    BY <1>1, <2>1 DEF Given
<1>2. QED
  BY <1>1 DEF Given

LEMMA PutGiven ==
    ASSUME NEW V, NEW W, NEW L, NEW q, Put(V, W, L, q), NEW G, NEW r, Given(W, G, r)
    PROVE  Given(V, G, r) \/ r = q
<1>1. ASSUME NEW l \in Links, NEW i \in DOMAIN W[l], r = W[l][i]
      PROVE  Given(V, G, r) \/ r = q
  <2>1. \/ i \in DOMAIN V[l] /\ W[l][i] = V[l][i]
        \/ W[l][i] = q
    BY DEF Put
  <2>2. QED
    BY <1>1, <2>1 DEF Given
<1>2. QED
  BY <1>1 DEF Given

\* Neither the links down nor what was received changes, nor what was made at the top.
LEMMA DownAlone ==
    ASSUME ReduceSound, Returned, UNCHANGED <<down, got>>,
           \A s \in Switches, b \in Blocks : Top(s, b)' <=> Top(s, b),
           \A s \in Switches : completed[s] \subseteq completed'[s],
           timeouts' \in Nat, timeouts <= timeouts', drops' = 0 => drops = 0
    PROVE  Returned'
<1>1. OneCopy(down, got)'
  <2>1. OneCopy(down, got) /\ down' = down /\ got' = got
    BY DEF Returned
  <2>2. QED
    BY <2>1
<1>2. \A r : Given(down, got, r)' => Given(down, got, r)
  BY DEF Given
<1>3. \A h \in Hosts, b \in Blocks :
          Headed(down, h, b) \/ Reached(got, h, b) => (Headed(down, h, b) \/ Reached(got, h, b))'
  BY DEF Headed, Reached, Coming, Gotten
<1>4. QED
  BY <1>1, <1>2, <1>3, ReturnedStays


LEMMA SentReturned ==
    ASSUME ReduceSound, Returned, NEW h \in Hosts, SendNew(h) \/ SendRtx(h) \/ RtxTimerExpired(h)
    PROVE  Returned'
<1>1. UNCHANGED <<down, completed, got, drops>>
  BY DEF SendNew, SendRtx, RtxTimerExpired, switches
<1>2. timeouts' = timeouts \/ timeouts' = timeouts + 1
  BY DEF SendNew, SendRtx, RtxTimerExpired, switches
<1>3. timeouts' \in Nat /\ timeouts <= timeouts'
  BY <1>2 DEF ReduceSound, Typed
<1>4. QED
  BY <1>1, <1>3, DownAlone DEF Top

LEMMA ResultReturned ==
    ASSUME ReduceSound, Returned, NEW h0 \in Hosts, Result(h0)
    PROVE  Returned'
<1> DEFINE k == <<h0, Tor(h0)>>
           r == down[k][1]
<1>1. /\ k \in Links /\ Taken(down, down', k) /\ r \in Piece /\ 1 \in DOMAIN down[k]
      /\ got' = [got EXCEPT ![h0] = Append(got[h0], r)]
      /\ UNCHANGED <<up, table, completed, timeouts, drops>>
  BY ResultIs DEF ReduceSound
<1>2. down \in [Links -> Seq(Piece)] /\ got \in [Hosts -> Seq(Piece)] /\ timeouts \in Nat
  BY DEF ReduceSound, Typed
<1>3. OneCopy(down, got)
  BY DEF Returned
<1>4. PICK W, F : W = down' /\ F = got'
  OBVIOUS
<1>5. OneCopy(W, F)
  BY <1>1, <1>2, <1>3, <1>4, ReceiveCopies
<1>6. \A r1 : Given(W, F, r1) => Given(down, got, r1)
  <2>1. SUFFICES ASSUME NEW r1, Given(W, F, r1) PROVE Given(down, got, r1)
    OBVIOUS
  <2> HIDE DEF k
  <2>2. CASE \E l \in Links : \E i \in DOMAIN W[l] : r1 = W[l][i]
    <3>1. Given(W, got, r1)
      BY <2>2 DEF Given
    <3>2. QED
      BY <1>1, <1>4, <3>1, TakenGiven
  <2>3. CASE \E h \in Hosts : \E i \in DOMAIN F[h] : r1 = F[h][i]
    <3>1. PICK h \in Hosts : \E i \in DOMAIN F[h] : r1 = F[h][i]
      BY <2>3
    <3>2. PICK i \in DOMAIN F[h] : r1 = F[h][i]
      BY <3>1
    <3>3. (i \in DOMAIN got[h] /\ r1 = got[h][i]) \/ r1 = r
      BY <1>1, <1>2, <1>4, <3>2, GottenFacts
    <3>4. QED
      BY <1>1, <3>3 DEF Given
  <2>4. QED
    BY <2>1, <2>2, <2>3 DEF Given
<1>7. ASSUME NEW h \in Hosts, NEW b \in Blocks, Headed(down, h, b) \/ Reached(got, h, b)
      PROVE  Headed(W, h, b) \/ Reached(F, h, b)
  <2>1. CASE Reached(got, h, b)
    <3>1. PICK i \in Nat : Gotten(got, h, b, i)
      BY <2>1 DEF Reached
    <3>2. Gotten(F, h, b, i)
      BY <1>1, <1>2, <1>4, <3>1, GottenFacts DEF Gotten
    <3>3. QED
      BY <3>2 DEF Reached
  <2>2. CASE Headed(down, h, b)
    <3>1. Headed(W, h, b) \/ (h \in Under(k[1]) /\ b = r.block)
      <4> HIDE DEF k
      <4>1. QED
        BY <1>1, <1>2, <1>4, <2>2, TakenHeaded
    <3>2. CASE h \in Under(k[1]) /\ b = r.block
      <4>1. h = h0
        BY <3>2, TorFacts
      <4>2. Len(got[h0]) + 1 \in Nat /\ Gotten(F, h0, b, Len(got[h0]) + 1)
        <5> HIDE DEF r, k
        <5>1. QED
          BY <1>1, <1>2, <1>4, <3>2, GottenFacts DEF Gotten
      <4>3. QED
        BY <4>1, <4>2 DEF Reached
    <3>3. QED
      BY <3>1, <3>2
  <2>3. QED
    BY <1>7, <2>1, <2>2
<1>8. OneCopy(down, got)' /\ \A x : Given(down, got, x)' => Given(down, got, x)
  BY <1>4, <1>5, <1>6
<1>9. \A h \in Hosts, b \in Blocks :
          Headed(down, h, b) \/ Reached(got, h, b) => (Headed(down, h, b) \/ Reached(got, h, b))'
  BY <1>4, <1>7
<1>10. timeouts' \in Nat /\ timeouts <= timeouts' /\ (drops' = 0 => drops = 0)
       /\ \A s \in Switches, b \in Blocks : Top(s, b)' <=> Top(s, b)
  BY <1>1, <1>2 DEF Top
<1>11. \A s \in Switches : completed[s] \subseteq completed'[s]
  BY <1>1
<1>12. QED
  BY <1>8, <1>9, <1>10, <1>11, ReturnedStays

LEMMA PassDownReturned ==
    ASSUME ReduceSound, Returned, NEW k \in Links, k[1] \in Switches, PassDown(k[1], k[2])
    PROVE  Returned'
<1> DEFINE r == down[k][1]
           s0 == k[1]
<1>1. /\ \E V : Taken(down, V, k) /\ Put(V, down', Out(s0), r)
      /\ r \in Piece /\ 1 \in DOMAIN down[k]
      /\ UNCHANGED <<up, table, completed, flow, got, timeouts, drops>>
  BY PassDownIs DEF ReduceSound
<1>2. PICK V : Taken(down, V, k) /\ Put(V, down', Out(s0), r)
  BY <1>1
<1>3. PICK W : W = down'
  OBVIOUS
<1>4. down \in [Links -> Seq(Piece)] /\ V \in [Links -> Seq(Piece)] /\ timeouts \in Nat
  BY <1>2 DEF ReduceSound, Typed, Taken
<1>5. OneCopy(down, got) /\ OneCopy(V, got)
  BY <1>2, TakenCopies DEF Returned
<1>6. Under(s0) = Below[s0]
  BY BelowFacts
<1>7. OneCopy(W, got)
  <2>1. \A h \in Below[s0] : ~Headed(V, h, r.block) /\ ~Reached(got, h, r.block)
    BY <1>2, <1>4, <1>5, <1>6, FirstGone
  <2> HIDE DEF r
  <2>2. QED
    BY <1>1, <1>2, <1>3, <1>4, <1>5, <2>1, SpreadCopies
<1>8. \A x : Given(W, got, x) => Given(down, got, x)
  <2>1. SUFFICES ASSUME NEW x, Given(W, got, x) PROVE Given(down, got, x)
    OBVIOUS
  <2>2. Given(V, got, x) \/ x = r
    BY <1>2, <1>3, <2>1, PutGiven
  <2>3. Given(V, got, x) => Given(down, got, x)
    BY <1>2, TakenGiven
  <2>4. Given(down, got, r)
    BY <1>1 DEF Given
  <2>5. QED
    BY <2>2, <2>3, <2>4
<1>9. ASSUME NEW h \in Hosts, NEW b \in Blocks, Headed(down, h, b) PROVE Headed(W, h, b)
  <2>1. Headed(V, h, b) \/ (h \in Below[s0] /\ b = r.block)
    BY <1>2, <1>4, <1>6, <1>9, TakenHeaded
  <2>2. CASE Headed(V, h, b)
    BY <1>2, <1>3, <2>2, PutHeaded
  <2>3. CASE h \in Below[s0] /\ b = r.block
    <3>1. Put(V, W, Out(s0), r)
      BY <1>2, <1>3
    <3> HIDE DEF r
    <3>2. QED
      BY <1>4, <2>3, <3>1, SpreadHeaded
  <2>4. QED
    BY <2>1, <2>2, <2>3
<1>10. OneCopy(down, got)' /\ \A x : Given(down, got, x)' => Given(down, got, x)
  BY <1>1, <1>3, <1>7, <1>8
<1>11. \A h \in Hosts, b \in Blocks :
           Headed(down, h, b) \/ Reached(got, h, b) => (Headed(down, h, b) \/ Reached(got, h, b))'
  BY <1>1, <1>3, <1>9
<1>12. timeouts' \in Nat /\ timeouts <= timeouts' /\ (drops' = 0 => drops = 0)
       /\ \A s \in Switches, b \in Blocks : Top(s, b)' <=> Top(s, b)
  BY <1>1, <1>4 DEF Top
<1>13. \A s \in Switches : completed[s] \subseteq completed'[s]
  BY <1>1
<1>14. QED
  BY <1>10, <1>11, <1>12, <1>13, ReturnedStays

LEMMA DropReturned ==
    ASSUME ReduceSound, Returned, NEW k \in Links, Drop(k)
    PROVE  Returned'
<1>1. /\ \/ Taken(up, up', k) /\ UNCHANGED down
         \/ Taken(down, down', k) /\ UNCHANGED up
      /\ drops' = drops + 1 /\ UNCHANGED <<table, completed, flow, got, timeouts>>
  BY DropIs DEF ReduceSound
<1>2. drops' # 0 /\ timeouts' \in Nat /\ timeouts <= timeouts'
  BY <1>1 DEF ReduceSound, Typed
<1>3. /\ \A s \in Switches, b \in Blocks : Top(s, b)' <=> Top(s, b)
      /\ \A s \in Switches : completed[s] \subseteq completed'[s]
  BY <1>1 DEF Top
<1>4. CASE UNCHANGED down
  <2>1. UNCHANGED <<down, got>>
    BY <1>1, <1>4
  <2>2. QED
    BY <1>2, <1>3, <2>1, DownAlone
<1>5. CASE Taken(down, down', k)
  <2>1. PICK W : W = down'
    OBVIOUS
  <2>2. OneCopy(W, got) /\ \A x : Given(W, got, x) => Given(down, got, x)
    BY <1>5, <2>1, TakenCopies, TakenGiven DEF Returned
  <2>3. OneCopy(down, got)' /\ \A x : Given(down, got, x)' => Given(down, got, x)
    BY <1>1, <2>1, <2>2
  <2>4. QED
    BY <1>2, <1>3, <2>3, ReturnedStays
<1>6. QED
  BY <1>1, <1>4, <1>5

\* The switch at the top sends the sum down: nobody has had one of this block.
LEMMA TopReturned ==
    ASSUME ReduceSound, Returned, NEW n0, NEW s0, NEW b0, Offers(n0, s0, b0), Closed(n0, s0, b0),
           Below[s0] = Hosts, UNCHANGED <<flow, got, timeouts, drops>>
    PROVE  Returned'
<1> DEFINE q == [block |-> b0, data |-> Sum(n0, s0, b0)]
<1>1. /\ Typed /\ Shares /\ Weighed /\ b0 \notin completed[s0] /\ s0 \in Switches /\ b0 \in Blocks
      /\ Enter(n0, s0, b0) = Children(s0)
      /\ down' = Multicast(down, s0, b0, Sum(n0, s0, b0))
      /\ completed' = [completed EXCEPT ![s0] = @ \cup {b0}]
  BY DEF ReduceSound, Offers, Closed
<1>2. /\ Sum(n0, s0, b0) \in [Hosts -> Nat]
      /\ Counts(Sum(n0, s0, b0), Entered(Children(s0)))
  BY <1>1, SumFacts
<1>3. q \in Piece /\ q.block = b0 /\ q.data = Sum(n0, s0, b0)
  BY <1>1, <1>2 DEF Piece
<1>4. Counts(q.data, Hosts)
  <2>1. Entered(Children(s0)) = Hosts
    BY <1>1, TreeAssumption DEF Entered
  <2>2. QED
    BY <1>2, <1>3, <2>1
<1>5. \A t \in Switches : ~Top(t, b0)
  <2>1. Hosts # {}
    BY TreeAssumption
  <2>2. PICK h : h \in Below[s0]
    BY <2>1
  <2>3. QED
    BY <1>1, <2>2, AllHere
<1> HIDE DEF q
<1>6. PICK W : W = down'
  OBVIOUS
<1>7. Put(down, W, Out(s0), q)
  <2>1. W = Multicast(down, s0, q.block, q.data) /\ down \in [Links -> Seq(Piece)]
    BY <1>1, <1>3, <1>6 DEF Typed
  <2>2. QED
    BY <1>1, <1>3, <2>1, MulticastFacts
<1>8. \A r : Given(down, got, r) => r.block # b0
  <2>1. SUFFICES ASSUME NEW r, Given(down, got, r), r.block = b0 PROVE FALSE
    OBVIOUS
  <2>2. r \in Results
    BY <2>1, ResultsFacts
  <2>3. QED
    BY <1>5, <2>1, <2>2 DEF Returned, Summed
<1>9. \A h \in Hosts : ~Headed(down, h, b0) /\ ~Reached(got, h, b0)
  <2>1. ASSUME NEW h \in Hosts, Headed(down, h, b0) PROVE FALSE
    <3>1. PICK n \in Nodes, s \in Switches, i \in Nat : Coming(down, h, b0, n, s, i)
      BY <2>1 DEF Headed
    <3>2. <<n, s>> \in Links /\ i \in DOMAIN down[<<n, s>>] /\ down[<<n, s>>][i].block = b0
      BY <3>1, ChildFacts DEF Coming
    <3>3. Given(down, got, down[<<n, s>>][i])
      BY <3>2 DEF Given
    <3>4. QED
      BY <1>8, <3>2, <3>3
  <2>2. ASSUME NEW h \in Hosts, Reached(got, h, b0) PROVE FALSE
    <3>1. PICK i \in Nat : i \in DOMAIN got[h] /\ got[h][i].block = b0
      BY <2>2 DEF Reached, Gotten
    <3>2. Given(down, got, got[h][i])
      BY <3>1 DEF Given
    <3>3. QED
      BY <1>8, <3>1, <3>2
  <2>3. QED
    BY <2>1, <2>2
<1>10. OneCopy(W, got)
  <2>1. down \in [Links -> Seq(Piece)] /\ OneCopy(down, got)
    BY <1>1 DEF Typed, Returned
  <2>2. \A h \in Below[s0] : ~Headed(down, h, q.block) /\ ~Reached(got, h, q.block)
    BY <1>3, <1>9
  <2>3. QED
    BY <1>1, <1>3, <1>7, <2>1, <2>2, SpreadCopies
<1>11. \A s \in Switches : completed'[s] = IF s = s0 THEN completed[s] \cup {b0} ELSE completed[s]
  BY <1>1 DEF Typed
<1>12. Top(s0, b0)'
  BY <1>1, <1>11 DEF Top
<1>13. \A s \in Switches, b \in Blocks : Top(s, b) => Top(s, b)'
  BY <1>11 DEF Top
<1>14. \A s \in Switches, b \in Blocks : Top(s, b)' => Top(s, b) \/ b = b0
  BY <1>11 DEF Top
<1>15. \A r \in Results' : r = q \/ r \in Results
  <2>1. SUFFICES ASSUME NEW r \in Results' PROVE r = q \/ r \in Results
    OBVIOUS
  <2>2. Given(W, got, r)
    <3>1. r \in (UNION {Elements(W[l]) : l \in Links}) \cup (UNION {Elements(got[h]) : h \in Hosts})
      BY <1>6 DEF Results, Elements
    <3>2. QED
      BY <3>1, GivenFacts
  <2>3. Given(down, got, r) \/ r = q
    BY <1>7, <2>2, PutGiven
  <2>4. QED
    BY <2>3, ResultsFacts
<1>16. Summed'
  <2>1. ASSUME NEW r \in Results'
        PROVE  Counts(r.data, Hosts)' /\ \E s \in Switches : Top(s, r.block)'
    <3>1. CASE r = q
      <4>1. Counts(r.data, Hosts)'
        BY <1>4, <3>1 DEF Counts
      <4>2. QED
        BY <1>1, <1>3, <1>12, <3>1, <4>1
    <3>2. CASE r \in Results
      <4>1. Counts(r.data, Hosts) /\ \E s \in Switches : Top(s, r.block)
        BY <3>2 DEF Returned, Summed
      <4>2. Counts(r.data, Hosts)'
        BY <4>1 DEF Counts
      <4>3. \E s \in Switches : Top(s, r.block)'
        BY <1>11, <4>1 DEF Top
      <4>4. QED
        BY <4>2, <4>3
    <3>3. QED
      BY <1>15, <3>1, <3>2
  <2>2. ASSUME NEW r \in Results', NEW p \in Results', r.block = p.block PROVE r.data = p.data
    <3>1. \A x \in Results : x.block # b0
      BY <1>8, ResultsFacts
    <3>2. QED
      BY <1>3, <1>15, <2>2, <3>1 DEF Returned, Summed
  <2>3. QED
    BY <2>1, <2>2 DEF Summed
<1>17. Arrives'
  <2>1. SUFFICES ASSUME drops' = 0, NEW s \in Switches, NEW b \in Blocks, Top(s, b)',
                        NEW h \in Hosts
                 PROVE  (Headed(down, h, b) \/ Reached(got, h, b))'
    BY DEF Arrives
  <2>2. Headed(W, h, b) \/ Reached(got, h, b)
    <3>1. CASE b = b0
      <4>1. down \in [Links -> Seq(Piece)] /\ h \in Below[s0]
        BY <1>1 DEF Typed
      <4>2. Headed(W, h, q.block)
        BY <1>1, <1>7, <4>1, SpreadHeaded
      <4>3. QED
        BY <1>3, <3>1, <4>2
    <3>2. CASE b # b0
      <4>1. Headed(down, h, b) \/ Reached(got, h, b)
        BY <1>14, <2>1, <3>2 DEF Returned, Arrives
      <4>2. QED
        BY <1>7, <4>1, PutHeaded
    <3>3. QED
      BY <3>1, <3>2
  <2>3. QED
    BY <1>6, <2>2
<1>18. OneCopy(down, got)'
  BY <1>6, <1>10
<1>19. QED
  BY <1>16, <1>17, <1>18 DEF Returned

LEMMA ContributionReturned ==
    ASSUME ReduceSound, Returned, NEW l \in Links, Contribution(l[1], l[2])
    PROVE  Returned'
<1> DEFINE n == l[1]
           s == l[2]
           b == Brought(n, s)
<1>1. /\ Offers(n, s, b)
      /\ Ignored(n, s, b) \/ Added(n, s, b) \/ Closed(n, s, b)
      /\ UNCHANGED <<flow, got, timeouts, drops>>
  BY ContributionIs DEF ReduceSound
<1>2. timeouts' \in Nat /\ timeouts <= timeouts' /\ (drops' = 0 => drops = 0)
  BY <1>1 DEF ReduceSound, Typed
<1>3. s \in Switches /\ completed \in [Switches -> SUBSET Blocks]
  BY LinkFacts DEF ReduceSound, Typed
<1> HIDE DEF n, s, b
<1>4. CASE Ignored(n, s, b) \/ Added(n, s, b)
  <2>1. UNCHANGED <<down, got>> /\ completed' = completed
    BY <1>1, <1>4 DEF Ignored, Added
  <2>2. QED
    BY <1>2, <2>1, DownAlone DEF Top
<1>5. CASE Closed(n, s, b) /\ Below[s] # Hosts
  <2>1. UNCHANGED <<down, got>> /\ completed' = [completed EXCEPT ![s] = @ \cup {b}]
    BY <1>1, <1>5 DEF Closed
  <2>2. \A t \in Switches : completed'[t] = IF t = s THEN completed[t] \cup {b} ELSE completed[t]
    BY <1>3, <2>1
  <2>3. \A t \in Switches, x \in Blocks : Top(t, x)' <=> Top(t, x)
    BY <1>5, <2>2 DEF Top
  <2>4. \A t \in Switches : completed[t] \subseteq completed'[t]
    BY <2>2
  <2>5. QED
    BY <1>2, <2>1, <2>3, <2>4, DownAlone
<1>6. CASE Closed(n, s, b) /\ Below[s] = Hosts
  BY <1>1, <1>6, TopReturned
<1>7. QED
  BY <1>1, <1>4, <1>5, <1>6

LEMMA InitReturned ==
    ASSUME ReduceInit
    PROVE  Returned
<1>1. \A l \in Links : DOMAIN down[l] = {}
  BY DEF ReduceInit
<1>2. \A h \in Hosts : DOMAIN got[h] = {}
  BY DEF ReduceInit
<1>3. \A s \in Switches, b \in Blocks : ~Top(s, b)
  BY DEF ReduceInit, Top
<1>4. \A h, b, n, i : \A s \in Switches : ~Coming(down, h, b, n, s, i)
  BY <1>1, ChildFacts DEF Coming
<1>5. OneCopy(down, got)
  BY <1>2, <1>4 DEF OneCopy, Gotten, Headed
<1>6. \A r : ~Given(down, got, r)
  BY <1>1, <1>2 DEF Given
<1>7. Results = {}
  BY <1>6, ResultsFacts
<1>8. QED
  BY <1>3, <1>5, <1>7 DEF Returned, Summed, Arrives

LEMMA ReturnedKept ==
    ASSUME ReduceSound, Returned, [ReduceNext]_reduceVars
    PROVE  Returned'
<1>1. CASE UNCHANGED reduceVars
  <2>1. /\ UNCHANGED <<down, got, completed, timeouts, drops>>
    BY <1>1 DEF reduceVars
  <2>2. timeouts' \in Nat /\ timeouts <= timeouts'
    BY <2>1 DEF ReduceSound, Typed
  <2>3. QED
    BY <2>1, <2>2, DownAlone DEF Top
<1>2. CASE \E h \in Hosts : SendNew(h) \/ SendRtx(h) \/ Result(h) \/ RtxTimerExpired(h)
  BY <1>2, SentReturned, ResultReturned
<1>3. CASE \E l \in Links : Contribution(l[1], l[2]) \/ Drop(l)
  BY <1>3, ContributionReturned, DropReturned
<1>4. CASE \E l \in Links : l[1] \in Switches /\ PassDown(l[1], l[2])
  BY <1>4, PassDownReturned
<1>5. QED
  BY <1>1, <1>2, <1>3, <1>4, NextIs DEF Steps

LEMMA Reduced == ReduceSpec => [](ReduceSound /\ Returned)
<1>1. ReduceInit => ReduceSound /\ Returned
  BY InitSound, InitReturned
<1>2. ReduceSound /\ Returned /\ [ReduceNext]_reduceVars => (ReduceSound /\ Returned)'
  <2>1. ReduceSound /\ Returned /\ [ReduceNext]_reduceVars => ReduceSound'
    BY SoundKept
  <2>2. ReduceSound /\ Returned /\ [ReduceNext]_reduceVars => Returned'
    BY ReturnedKept
  <2>3. QED
    BY <2>1, <2>2
<1>3. QED
  BY <1>1, <1>2, PTL DEF ReduceSpec

\* All-reduce is right whatever the tree, the order of the packets, the queues that
\* overflow and the timers that expire (IncSwitch, UecIncSrc): a result counts every
\* participant, exactly once each until some timer expires; a block has one sum; and
\* nobody is given it twice.
THEOREM EveryoneIsCounted == ReduceSpec => []EveryoneCounted
<1>1. ReduceSound /\ Returned => EveryoneCounted
  <2>1. SUFFICES ASSUME ReduceSound, Returned PROVE EveryoneCounted
    OBVIOUS
  <2>2. \A r \in Results, h \in Hosts : r.data[h] >= 1 /\ (timeouts = 0 => r.data[h] = 1)
    BY <2>1 DEF Returned, Summed, Counts
  <2>3. \A q, r \in Results : q.block = r.block => q.data = r.data
    BY <2>1 DEF Returned, Summed
  <2>4. ASSUME NEW h \in Hosts, NEW i \in DOMAIN got[h], NEW j \in DOMAIN got[h],
               got[h][i].block = got[h][j].block
        PROVE  i = j
    <3>1. i \in Nat /\ j \in Nat /\ got[h][i].block \in Blocks
      BY <2>1, PieceFacts DEF ReduceSound, Typed
    <3>2. Gotten(got, h, got[h][i].block, i) /\ Gotten(got, h, got[h][i].block, j)
      BY <2>4 DEF Gotten
    <3>3. QED
      BY <2>1, <3>1, <3>2 DEF Returned, OneCopy
  <2>5. QED
    BY <2>2, <2>3, <2>4 DEF EveryoneCounted
<1>2. QED
  BY <1>1, Reduced, PTL


-----------------------------------------------------------------------------
(* A source's timer.                                                       *)

Settled(r) ==
    /\ r.records # {} => r.timer # Off
    /\ r.timer \in r.records \cup {Again, Off}

Quiet(r) == r.timer = Off /\ r.records = {} /\ r.rtx = {}

\* The host got the last block's result.
Last(G, h) == \E i \in DOMAIN G[h] : G[h][i].block = NBlocks - 1

Settles == \A h \in Hosts : Settled(flow[h]) /\ (Last(got, h) => Quiet(flow[h]))

\* Whoever got the last block's result has sent everything.
LEMMA LastSent ==
    ASSUME ReduceSound, Returned, NEW h \in Hosts, Last(got, h)
    PROVE  flow[h].next = NBlocks
<1>1. PICK i \in DOMAIN got[h] : got[h][i].block = NBlocks - 1
  BY DEF Last
<1>2. got[h][i] \in Results
  BY ResultsFacts DEF Given
<1>3. got[h][i].block \in Blocks
  BY PieceFacts DEF ReduceSound, Typed
<1>4. PICK s \in Switches : Top(s, NBlocks - 1)
  BY <1>1, <1>2 DEF Returned, Summed
<1>5. NBlocks - 1 < flow[h].next
  BY <1>1, <1>3, <1>4 DEF Top, ReduceSound, Shares, Tables
<1>6. flow[h].next \in Nat /\ flow[h].next <= NBlocks /\ NBlocks \in Nat
  BY SourceFacts DEF ReduceSound
<1>7. QED
  BY <1>5, <1>6

LEMMA EarliestFacts ==
    ASSUME NEW S \in SUBSET Blocks
    PROVE  IF S = {} THEN Earliest(S) = Off ELSE Earliest(S) \in S /\ Earliest(S) # Off
<1>1. S \in SUBSET Nat
  BY DEF Blocks
<1>2. CASE S = {}
  BY <1>2 DEF Earliest
<1>3. CASE S # {}
  <2>1. Min(S) \in S
    BY <1>1, <1>3, MinFacts
  <2>2. Min(S) # Off
    BY <1>1, <2>1 DEF Off
  <2>3. QED
    BY <1>3, <2>1, <2>2 DEF Earliest
<1>4. QED
  BY <1>2, <1>3

\* One source's step; nobody else's state changes.
LEMMA SettlesKept ==
    ASSUME ReduceSound, Settles, NEW h \in Hosts, NEW r, flow' = [flow EXCEPT ![h] = r],
           \A g \in Hosts \ {h} : got'[g] = got[g],
           Settled(r), Last(got, h)' => Quiet(r)
    PROVE  Settles'
<1>1. \A g \in Hosts : flow'[g] = IF g = h THEN r ELSE flow[g]
  BY DEF ReduceSound, Typed
<1>2. \A g \in Hosts \ {h} : Last(got, g)' => Last(got, g)
  BY DEF Last
<1>3. QED
  BY <1>1, <1>2 DEF Settles

LEMMA SendNewSettles ==
    ASSUME ReduceSound, Returned, Settles, NEW h \in Hosts, SendNew(h)
    PROVE  Settles'
<1> DEFINE b == flow[h].next
           r == [flow[h] EXCEPT !.next = b + 1, !.records = @ \cup {b},
                                !.timer = Armed(@, b)]
<1>1. /\ b < NBlocks /\ flow' = [flow EXCEPT ![h] = r] /\ UNCHANGED got
  BY DEF SendNew, ReduceSound, Typed
<1>2. flow[h] \in Source /\ b \in Nat /\ NBlocks \in Nat /\ Settled(flow[h])
  BY SourceFacts DEF ReduceSound, Settles
<1>3. r.records = flow[h].records \cup {b} /\ r.timer = Armed(flow[h].timer, b)
  BY <1>2 DEF Source
<1>4. b # Off
  BY <1>2 DEF Off
<1>5. ~Last(got, h)
  BY <1>1, <1>2, LastSent
<1>6. ~Last(got, h)'
  BY <1>1, <1>5 DEF Last
<1> HIDE DEF r, b
<1>7. Settled(r)
  BY <1>2, <1>3, <1>4 DEF Settled, Armed
<1>8. QED
  BY <1>1, <1>6, <1>7, SettlesKept

LEMMA SendRtxSettles ==
    ASSUME ReduceSound, Returned, Settles, NEW h \in Hosts, SendRtx(h)
    PROVE  Settles'
<1> DEFINE b == Min(flow[h].rtx)
           r == [flow[h] EXCEPT !.rtx = @ \ {b}, !.timer = Armed(@, Again)]
<1>1. /\ flow[h].rtx # {} /\ flow' = [flow EXCEPT ![h] = r] /\ UNCHANGED got
  BY DEF SendRtx, ReduceSound, Typed
<1>2. flow[h] \in Source /\ NBlocks \in Nat /\ Settled(flow[h])
  BY SourceFacts DEF ReduceSound, Settles
<1>3. r.records = flow[h].records /\ r.timer = Armed(flow[h].timer, Again)
  BY <1>2 DEF Source
<1>4. Again # Off
  BY <1>2 DEF Off, Again
<1>5. ~Last(got, h)
  BY <1>1 DEF Settles, Quiet
<1>6. ~Last(got, h)'
  BY <1>1, <1>5 DEF Last
<1> HIDE DEF r
<1>7. Settled(r)
  BY <1>2, <1>3, <1>4 DEF Settled, Armed
<1>8. QED
  BY <1>1, <1>6, <1>7, SettlesKept

LEMMA RtxTimerExpiredSettles ==
    ASSUME ReduceSound, Returned, Settles, NEW h \in Hosts, RtxTimerExpired(h)
    PROVE  Settles'
<1> DEFINE records == flow[h].records
           b == Min(records)
           left == records \ {b}
           r == [flow[h] EXCEPT !.records = left, !.rtx = @ \cup {b}, !.timer = Earliest(left)]
<1>1. flow[h].timer # Off /\ UNCHANGED got
  BY DEF RtxTimerExpired
<1>2. flow[h] \in Source /\ records \subseteq Blocks /\ Settled(flow[h])
  BY SourceFacts DEF ReduceSound, Settles
<1>3. ~Last(got, h)
  BY <1>1 DEF Settles, Quiet
<1>4. ~Last(got, h)'
  BY <1>1, <1>3 DEF Last
<1>5. CASE records = {}
  <2>1. flow' = [flow EXCEPT ![h] = flow[h]]
    BY <1>5 DEF RtxTimerExpired, ReduceSound, Typed
  <2>2. QED
    BY <1>1, <1>2, <1>4, <2>1, SettlesKept
<1>6. CASE records # {}
  <2>1. flow' = [flow EXCEPT ![h] = r]
    BY <1>6 DEF RtxTimerExpired, ReduceSound, Typed
  <2>2. r.records = left /\ r.timer = Earliest(left)
    BY <1>2 DEF Source
  <2>3. left \in SUBSET Blocks
    BY <1>2
  <2> HIDE DEF r, left
  <2>4. Settled(r)
    BY <2>2, <2>3, EarliestFacts DEF Settled
  <2>5. QED
    BY <1>1, <1>4, <2>1, <2>4, SettlesKept
<1>7. QED
  BY <1>5, <1>6

LEMMA ResultSettles ==
    ASSUME ReduceSound, Returned, Settles, NEW h \in Hosts, Result(h)
    PROVE  Settles'
<1> DEFINE p == Head(down[<<h, Tor(h)>>])
           b == p.block
           left == {x \in flow[h].records : x > b}
           r == After(h, b)
<1>1. /\ p \in Piece /\ b \in Blocks /\ flow' = [flow EXCEPT ![h] = r]
      /\ got' = [got EXCEPT ![h] = Append(got[h], p)]
  BY ResultIs DEF ReduceSound
<1>2. got \in [Hosts -> Seq(Piece)] /\ Typed
  BY DEF ReduceSound, Typed
<1> HIDE DEF p
<1>3. /\ r.records = left /\ r.rtx = {x \in flow[h].rtx : x > b}
      /\ r.timer = ResultTimer(flow[h], b, left)
  BY <1>1, <1>2, AfterFacts
<1>4. /\ flow[h].records \subseteq Blocks /\ flow[h].rtx \subseteq Blocks /\ NBlocks \in Nat
      /\ Settled(flow[h])
  BY SourceFacts DEF ReduceSound, Settles
<1>5. \A g \in Hosts \ {h} : got'[g] = got[g]
  BY <1>1, <1>2
<1>6. Last(got, h)' => Last(got, h) \/ b = NBlocks - 1
  <2>1. SUFFICES ASSUME NEW F, F = got', Last(F, h) PROVE Last(got, h) \/ b = NBlocks - 1
    OBVIOUS
  <2>2. PICK i \in DOMAIN F[h] : F[h][i].block = NBlocks - 1
    BY <2>1 DEF Last
  <2>3. (i \in DOMAIN got[h] /\ F[h][i] = got[h][i]) \/ F[h][i] = p
    BY <1>1, <1>2, <2>1, GottenFacts
  <2>4. QED
    BY <2>2, <2>3 DEF Last
<1>7. left \in SUBSET Blocks
  BY <1>4
<1>8. CASE b = NBlocks - 1
  <2>1. \A x \in Blocks : ~(x > b)
    BY <1>4, <1>8 DEF Blocks
  <2>2. left = {} /\ r.rtx = {}
    BY <1>3, <1>4, <2>1
  <2>3. r.timer = Off
    BY <1>3, <1>8 DEF ResultTimer
  <2>4. Settled(r) /\ Quiet(r)
    BY <1>3, <2>2, <2>3 DEF Settled, Quiet
  <2>5. QED
    BY <1>1, <1>5, <2>4, SettlesKept
<1>9. CASE b # NBlocks - 1
  <2>1. r.timer = IF flow[h].timer \in flow[h].records \ left THEN Earliest(left) ELSE flow[h].timer
    BY <1>3, <1>9 DEF ResultTimer
  <2>2. left \subseteq flow[h].records
    OBVIOUS
  <2> HIDE DEF left
  <2>3. Settled(r)
    BY <1>3, <1>4, <1>7, <2>1, <2>2, EarliestFacts DEF Settled
  <2>4. ASSUME Last(got, h)' PROVE Quiet(r)
    <3>1. Quiet(flow[h])
      BY <1>6, <1>9, <2>4 DEF Settles
    <3>2. left = {} /\ r.rtx = {} /\ r.timer = Off
      BY <1>3, <2>1, <2>2, <3>1 DEF Quiet
    <3>3. QED
      BY <1>3, <3>2 DEF Quiet
  <2> HIDE DEF r
  <2>5. QED
    BY <1>1, <1>5, <2>3, <2>4, SettlesKept
<1>10. QED
  BY <1>8, <1>9

LEMMA SettlesAlways == ReduceSpec => []Settles
<1>1. ReduceInit => Settles
  BY DEF ReduceInit, Settles, Settled, Last
<1>2. ASSUME ReduceSound, Returned, Settles, [ReduceNext]_reduceVars PROVE Settles'
  <2>1. ASSUME UNCHANGED <<flow, got>> PROVE Settles'
    BY <1>2, <2>1 DEF Settles, Settled, Quiet, Last
  <2>2. CASE UNCHANGED reduceVars
    BY <2>1, <2>2 DEF reduceVars
  <2>3. CASE \E h \in Hosts : SendNew(h) \/ SendRtx(h) \/ Result(h) \/ RtxTimerExpired(h)
    BY <1>2, <2>3, SendNewSettles, SendRtxSettles, ResultSettles, RtxTimerExpiredSettles
  <2>4. CASE \E l \in Links : Contribution(l[1], l[2]) \/ Drop(l)
    BY <2>1, <2>4 DEF Contribution, Drop
  <2>5. CASE \E l \in Links : l[1] \in Switches /\ PassDown(l[1], l[2])
    BY <2>1, <2>5 DEF PassDown
  <2>6. QED
    BY <1>2, <2>2, <2>3, <2>4, <2>5, NextIs DEF Steps
<1>3. QED
  BY <1>1, <1>2, Reduced, PTL DEF ReduceSpec

\* A source's timer (UecIncSrc, and startRTO and rtxTimerExpired of UecSrc) runs while
\* a block has a send record, and is set for such a block or a retransmission; a
\* source that has had the last block's result is done, however its results and its
\* timeouts followed each other.
THEOREM SourcesSettle == ReduceSpec => []SourceSettles
<1>1. Settles => SourceSettles
  <2>1. SUFFICES ASSUME Settles, NEW h \in Hosts
                 PROVE  /\ flow[h].records # {} => flow[h].timer # Off
                        /\ flow[h].timer \in flow[h].records \cup {Again, Off}
                        /\ (\E r \in Elements(got[h]) : r.block = NBlocks - 1) =>
                              flow[h].timer = Off /\ flow[h].records = {} /\ flow[h].rtx = {}
    BY DEF SourceSettles
  <2>2. (\E r \in Elements(got[h]) : r.block = NBlocks - 1) => Last(got, h)
    BY DEF Elements, Last
  <2>3. QED
    BY <2>1, <2>2 DEF Settles, Settled, Quiet
<1>2. QED
  BY <1>1, SettlesAlways, PTL


-----------------------------------------------------------------------------
(* Nothing is held back.                                                   *)

\* The share of h is past its own first link: entered in a table or on a link
\* between switches.
Held(h, b, n, s, i) ==
    /\ h \in Under(n) /\ n \in Children(s)
    /\ \/ i = 0 /\ n \in table[s][b].from
       \/ n \in Switches /\ i \in DOMAIN up[<<n, s>>] /\ up[<<n, s>>][i].block = b

\* A packet of h's is on its way to a switch that has not closed the block.
Waiting(h, b) ==
    /\ b \notin completed[Tor(h)]
    /\ \E i \in DOMAIN up[<<h, Tor(h)>>] : up[<<h, Tor(h)>>][i].block = b

IsHeld(h, b) == \E n \in Nodes, s \in Switches, i \in Nat : Held(h, b, n, s, i)
IsDone(b) == \E s \in Switches : Top(s, b)

Kept(h, b) == Waiting(h, b) \/ IsDone(b) \/ IsHeld(h, b)

\* As long as no packet was dropped every share that was sent is somewhere.
Somewhere ==
    drops = 0 => \A h \in Hosts, b \in Blocks : b < flow[h].next => Kept(h, b)

LEMMA HeldHas ==
    ASSUME NEW h, NEW b, NEW n, NEW s, NEW i, Held(h, b, n, s, i)
    PROVE  Has(h, b, n, s, i)
BY DEF Held, Has

\* No packet leaves, and the tables stay as they are.
LEMMA KeptStays ==
    ASSUME UNCHANGED <<table, completed>>,
           \A l \in Links : \A i \in DOMAIN up[l] : i \in DOMAIN up'[l] /\ up'[l][i] = up[l][i],
           NEW h \in Hosts, NEW b \in Blocks, Kept(h, b)
    PROVE  Kept(h, b)'
<1>1. CASE Waiting(h, b)
  <2>1. <<h, Tor(h)>> \in Links
    BY TorFacts
  <2>2. Waiting(h, b)'
    BY <1>1, <2>1 DEF Waiting
  <2>3. QED
    BY <2>2 DEF Kept
<1>2. CASE IsDone(b)
  BY <1>2 DEF Kept, IsDone, Top
<1>3. CASE IsHeld(h, b)
  <2>1. PICK n \in Nodes, s \in Switches, i \in Nat : Held(h, b, n, s, i)
    BY <1>3 DEF IsHeld
  <2>2. <<n, s>> \in Links
    BY <2>1, ChildFacts DEF Held
  <2>3. Held(h, b, n, s, i)'
    BY <2>1, <2>2 DEF Held
  <2>4. QED
    BY <2>3 DEF Kept, IsHeld
<1>4. QED
  BY <1>1, <1>2, <1>3 DEF Kept

\* A source sends a block, new or again.
LEMMA SentSomewhere ==
    ASSUME ReduceSound, Somewhere, NEW h0 \in Hosts, SendNew(h0) \/ SendRtx(h0)
    PROVE  Somewhere'
<1> DEFINE k == <<h0, Tor(h0)>>
<1>1. /\ UNCHANGED <<table, completed, drops>>
      /\ \E b0 : /\ up' = [up EXCEPT ![k] = Append(@, [block |-> b0, data |-> From(h0)])]
                 /\ SendNew(h0) => b0 = flow[h0].next /\ b0 < NBlocks
                 /\ SendRtx(h0) => b0 = Min(flow[h0].rtx) /\ flow[h0].rtx # {}
  BY DEF SendNew, SendRtx, switches
<1>2. PICK b0 : /\ up' = [up EXCEPT ![k] = Append(@, [block |-> b0, data |-> From(h0)])]
                /\ SendNew(h0) => b0 = flow[h0].next /\ b0 < NBlocks
                /\ SendRtx(h0) => b0 = Min(flow[h0].rtx) /\ flow[h0].rtx # {}
  BY <1>1
<1>3. k \in Links /\ Tor(h0) \in Switches /\ h0 \in Below[Tor(h0)]
  BY TorFacts, ChildFacts
<1>4. b0 \in Blocks
  <2>1. /\ flow[h0].next \in Nat /\ flow[h0].rtx \subseteq Blocks /\ Blocks \subseteq Nat
        /\ NBlocks \in Nat
    BY SourceFacts DEF ReduceSound
  <2>2. CASE SendNew(h0)
    BY <1>2, <2>1, <2>2 DEF Blocks
  <2>3. CASE SendRtx(h0)
    <3>1. flow[h0].rtx \in SUBSET Nat
      BY <2>1
    <3>2. QED
      BY <1>2, <2>1, <2>3, <3>1, MinFacts
  <2>4. QED
    BY <2>2, <2>3
<1>5. PICK p : p = [block |-> b0, data |-> From(h0)]
  OBVIOUS
<1>6. p \in Piece /\ p.block = b0
  BY <1>4, <1>5 DEF Piece, From
<1>7. up \in [Links -> Seq(Piece)]
  BY DEF ReduceSound, Typed
<1> HIDE DEF k
<1>8. Put(up, up', {k}, p)
  <2>1. Puts(up, up', {k}, p)
    <3>1. up' = [up EXCEPT ![k] = Append(@, p)] /\ up = [l \in Links |-> up[l]]
      BY <1>2, <1>5, <1>7
    <3>2. up' = [l \in Links |-> IF l \in {k} THEN Append(up[l], p) ELSE up[l]]
      BY <1>3, <3>1
    <3>3. QED
      BY <3>2 DEF Puts
  <2>2. {k} \in SUBSET Links
    BY <1>3
  <2>3. QED
    BY <1>6, <1>7, <2>1, <2>2, PutFacts
<1>9. \A l \in Links : \A i \in DOMAIN up[l] : i \in DOMAIN up'[l] /\ up'[l][i] = up[l][i]
  BY <1>8 DEF Put
<1>10. SUFFICES ASSUME drops' = 0, NEW h \in Hosts, NEW b \in Blocks, b < flow'[h].next
                PROVE  Kept(h, b)'
  BY DEF Somewhere
<1>11. CASE b < flow[h].next
  <2>1. Kept(h, b)
    BY <1>1, <1>10, <1>11 DEF Somewhere
  <2>2. QED
    BY <1>1, <1>9, <2>1, KeptStays
<1>12. CASE ~(b < flow[h].next)
  <2>1. SendNew(h0) /\ h = h0 /\ b = b0
    <3>1. ~(\A g \in Hosts : flow'[g].next = flow[g].next)
      BY <1>10, <1>12
    <3>2. ASSUME SendRtx(h0) PROVE FALSE
      <4>1. flow \in [Hosts -> Source]
        BY DEF ReduceSound, Typed
      <4>2. PICK r : r = [flow[h0] EXCEPT !.rtx = @ \ {Min(flow[h0].rtx)},
                                          !.timer = Armed(@, Again)]
        OBVIOUS
      <4>3. flow' = [flow EXCEPT ![h0] = r]
        BY <3>2, <4>1, <4>2 DEF SendRtx
      <4>4. flow[h0] \in Source
        BY <4>1
      <4>5. r.next = flow[h0].next
        BY <4>2, <4>4 DEF Source
      <4>6. \A g \in Hosts : flow'[g].next = flow[g].next
        BY <4>1, <4>3, <4>5
      <4>7. QED
        BY <3>1, <4>6
    <3>3. SendNew(h0)
      BY <3>2
    <3>4. \A g \in Hosts : flow'[g].next = IF g = h0 THEN flow[h0].next + 1 ELSE flow[g].next
      BY <3>3 DEF SendNew, ReduceSound, Typed, Source
    <3>5. h = h0
      BY <1>10, <1>12, <3>4
    <3>6. b < flow[h0].next + 1 /\ ~(b < flow[h0].next) /\ flow[h0].next \in Nat /\ b \in Int
      BY <1>10, <1>12, <3>4, <3>5, SourceFacts DEF ReduceSound, Blocks
    <3>7. b = flow[h0].next
      BY <3>6
    <3>8. QED
      BY <1>2, <3>3, <3>5, <3>7
  <2>2. b0 \notin completed[Tor(h0)]
    BY <1>3, <1>12, <2>1 DEF ReduceSound, Shares, Tables
  <2>3. Len(up[k]) + 1 \in DOMAIN up'[k] /\ up'[k][Len(up[k]) + 1] = p
    BY <1>8 DEF Put
  <2>4. Waiting(h0, b0)'
    BY <1>1, <1>6, <2>2, <2>3 DEF Waiting, k
  <2>5. QED
    BY <2>1, <2>4 DEF Kept
<1>13. QED
  BY <1>11, <1>12

\* A packet is taken from link k, and the tables may gain entries and complete blocks:
\* what matters is that whatever was there is still somewhere.
LEMMA TakenSomewhere ==
    ASSUME ReduceSound, Somewhere, UNCHANGED <<flow, drops>>,
           \A h \in Hosts, b \in Blocks : Kept(h, b) => Kept(h, b)'
    PROVE  Somewhere'
BY DEF Somewhere

\* A link other than k, or a later packet of k, keeps what it holds.
LEMMA LaterHeld ==
    ASSUME NEW V, NEW k \in Links, Taken(up, V, k), NEW n, NEW s \in Switches, n \in Children(s),
           NEW i \in DOMAIN up[<<n, s>>], ~(<<n, s>> = k /\ i = 1)
    PROVE  \E j \in DOMAIN V[<<n, s>>] : j \in Nat /\ V[<<n, s>>][j] = up[<<n, s>>][i]
<1>1. <<n, s>> \in Links
  BY ChildFacts
<1>2. \A l \in Links : \A x \in DOMAIN up[l] :
          l # k \/ x # 1 => \E y \in DOMAIN V[l] : Back(l, k, y) = x /\ V[l][y] = up[l][x]
  BY DEF Taken
<1>3. PICK j \in DOMAIN V[<<n, s>>] : V[<<n, s>>][j] = up[<<n, s>>][i]
  BY <1>1, <1>2
<1>4. j \in Nat
  BY <1>1 DEF Taken
<1>5. QED
  BY <1>3, <1>4

LEMMA IgnoredSomewhere ==
    ASSUME ReduceSound, Somewhere, NEW n0, NEW s0, NEW b0, Offers(n0, s0, b0), Ignored(n0, s0, b0),
           UNCHANGED <<flow, drops>>
    PROVE  Somewhere'
<1> DEFINE k == <<n0, s0>>
<1>1. k \in Links /\ n0 \in Nodes /\ s0 \in Switches /\ n0 \in Children(s0)
  BY ChildFacts DEF Offers
<1>2. Taken(up, up', k) /\ UNCHANGED <<table, completed>> /\ b0 \in completed[s0]
  BY DEF Ignored
<1>3. PICK V : V = up'
  OBVIOUS
<1>4. up[k][1].block = b0 /\ Taken(up, V, k)
  <2>1. Head(up[k]).block = b0
    BY DEF Offers
  <2>2. Taken(up, V, k)
    BY <1>2, <1>3
  <2>3. Head(up[k]) = up[k][1]
    BY <2>2 DEF Taken
  <2>4. QED
    BY <2>1, <2>2, <2>3
<1>5. SUFFICES ASSUME NEW h \in Hosts, NEW b \in Blocks, Kept(h, b) PROVE Kept(h, b)'
  BY TakenSomewhere
<1>6. CASE Waiting(h, b)
  <2>1. PICK i \in DOMAIN up[<<h, Tor(h)>>] : up[<<h, Tor(h)>>][i].block = b
    BY <1>6 DEF Waiting
  <2>2. b \notin completed[Tor(h)]
    BY <1>6 DEF Waiting
  <2>3. ~(<<h, Tor(h)>> = k /\ i = 1)
    BY <1>2, <1>4, <2>1, <2>2
  <2>4. h \in Children(Tor(h)) /\ Tor(h) \in Switches
    BY TorFacts
  <2> HIDE DEF k
  <2>5. \E j \in DOMAIN V[<<h, Tor(h)>>] : V[<<h, Tor(h)>>][j] = up[<<h, Tor(h)>>][i]
    BY <1>1, <1>4, <2>1, <2>3, <2>4, LaterHeld
  <2>6. Waiting(h, b)'
    BY <1>2, <1>3, <2>1, <2>2, <2>5 DEF Waiting
  <2>7. QED
    BY <2>6 DEF Kept
<1>7. CASE IsDone(b)
  BY <1>2, <1>7 DEF Kept, IsDone, Top
<1>8. CASE IsHeld(h, b)
  <2>1. PICK n \in Nodes, s \in Switches, i \in Nat : Held(h, b, n, s, i)
    BY <1>8 DEF IsHeld
  <2>2. Has(h, b, n, s, i)
    BY <2>1, HeldHas
  <2>3. b \notin completed[s]
    BY <2>2 DEF ReduceSound, Shares, NotOld
  <2>4. CASE i = 0 /\ n \in table[s][b].from
    <3>1. Held(h, b, n, s, 0)'
      BY <1>2, <2>1, <2>4 DEF Held
    <3>2. QED
      BY <3>1 DEF Kept, IsHeld
  <2>5. CASE n \in Switches /\ i \in DOMAIN up[<<n, s>>] /\ up[<<n, s>>][i].block = b
    <3>1. ~(<<n, s>> = k /\ i = 1)
      BY <1>2, <1>4, <2>3, <2>5
    <3>2. n \in Children(s) /\ h \in Under(n)
      BY <2>1 DEF Held
    <3> HIDE DEF k
    <3>3. PICK j \in DOMAIN V[<<n, s>>] : j \in Nat /\ V[<<n, s>>][j] = up[<<n, s>>][i]
      BY <1>1, <1>4, <2>5, <3>1, <3>2, LaterHeld
    <3>4. Held(h, b, n, s, j)'
      BY <1>3, <2>5, <3>2, <3>3 DEF Held
    <3>5. QED
      BY <3>3, <3>4 DEF Kept, IsHeld
  <2>6. QED
    BY <2>1, <2>4, <2>5 DEF Held
<1>9. QED
  BY <1>5, <1>6, <1>7, <1>8 DEF Kept


LEMMA AddedSomewhere ==
    ASSUME ReduceSound, Somewhere, NEW n0, NEW s0, NEW b0, Offers(n0, s0, b0), Added(n0, s0, b0),
           UNCHANGED <<flow, drops>>
    PROVE  Somewhere'
<1> DEFINE k == <<n0, s0>>
<1>1. /\ k \in Links /\ n0 \in Nodes /\ s0 \in Switches /\ n0 \in Children(s0)
      /\ b0 \in Blocks
  BY ChildFacts DEF Offers
<1>2. Taken(up, up', k) /\ UNCHANGED completed
  BY DEF Added
<1>3. PICK V : V = up'
  OBVIOUS
<1>4. up[k][1].block = b0 /\ Taken(up, V, k)
  <2>1. Head(up[k]).block = b0
    BY DEF Offers
  <2>2. Taken(up, V, k)
    BY <1>2, <1>3
  <2>3. Head(up[k]) = up[k][1]
    BY <2>2 DEF Taken
  <2>4. QED
    BY <2>1, <2>2, <2>3
<1>5. /\ n0 \in table'[s0][b0].from
      /\ \A s \in Switches, b \in Blocks : table[s][b].from \subseteq table'[s][b].from
  <2>1. PICK e : e = [data |-> Sum(n0, s0, b0), from |-> Enter(n0, s0, b0)]
    OBVIOUS
  <2>2. \A s \in Switches, b \in Blocks :
            table'[s][b] = IF s = s0 /\ b = b0 THEN e ELSE table[s][b]
    BY <1>1, <2>1 DEF Added, ReduceSound, Typed
  <2>3. e.from = table[s0][b0].from \cup {n0}
    BY <2>1 DEF Enter
  <2>4. QED
    BY <1>1, <2>2, <2>3
<1>6. SUFFICES ASSUME NEW h \in Hosts, NEW b \in Blocks, Kept(h, b) PROVE Kept(h, b)'
  BY TakenSomewhere
<1>7. ASSUME h \in Under(n0), b = b0 PROVE Kept(h, b)'
  <2>1. Held(h, b, n0, s0, 0)'
    BY <1>1, <1>5, <1>7 DEF Held
  <2>2. QED
    BY <1>1, <2>1 DEF Kept, IsHeld
<1>8. CASE Waiting(h, b)
  <2>1. PICK i \in DOMAIN up[<<h, Tor(h)>>] : up[<<h, Tor(h)>>][i].block = b
    BY <1>8 DEF Waiting
  <2>2. b \notin completed[Tor(h)]
    BY <1>8 DEF Waiting
  <2>3. h \in Children(Tor(h)) /\ Tor(h) \in Switches /\ h \in Under(h)
    BY TorFacts
  <2>4. CASE <<h, Tor(h)>> = k /\ i = 1
    BY <1>4, <1>7, <2>1, <2>3, <2>4
  <2>5. CASE ~(<<h, Tor(h)>> = k /\ i = 1)
    <3> HIDE DEF k
    <3>1. \E j \in DOMAIN V[<<h, Tor(h)>>] : V[<<h, Tor(h)>>][j] = up[<<h, Tor(h)>>][i]
      BY <1>1, <1>4, <2>1, <2>3, <2>5, LaterHeld
    <3>2. Waiting(h, b)'
      BY <1>2, <1>3, <2>1, <2>2, <3>1 DEF Waiting
    <3>3. QED
      BY <3>2 DEF Kept
  <2>6. QED
    BY <2>4, <2>5
<1>9. CASE IsDone(b)
  BY <1>2, <1>9 DEF Kept, IsDone, Top
<1>10. CASE IsHeld(h, b)
  <2>1. PICK n \in Nodes, s \in Switches, i \in Nat : Held(h, b, n, s, i)
    BY <1>10 DEF IsHeld
  <2>2. CASE i = 0 /\ n \in table[s][b].from
    <3>1. Held(h, b, n, s, 0)'
      BY <1>5, <2>1, <2>2 DEF Held
    <3>2. QED
      BY <3>1 DEF Kept, IsHeld
  <2>3. CASE n \in Switches /\ i \in DOMAIN up[<<n, s>>] /\ up[<<n, s>>][i].block = b
    <3>1. n \in Children(s) /\ h \in Under(n)
      BY <2>1 DEF Held
    <3>2. CASE <<n, s>> = k /\ i = 1
      BY <1>4, <1>7, <2>3, <3>1, <3>2
    <3>3. CASE ~(<<n, s>> = k /\ i = 1)
      <4> HIDE DEF k
      <4>1. PICK j \in DOMAIN V[<<n, s>>] : j \in Nat /\ V[<<n, s>>][j] = up[<<n, s>>][i]
        BY <1>1, <1>4, <2>3, <3>1, <3>3, LaterHeld
      <4>2. Held(h, b, n, s, j)'
        BY <1>3, <2>3, <3>1, <4>1 DEF Held
      <4>3. QED
        BY <4>1, <4>2 DEF Kept, IsHeld
    <3>4. QED
      BY <3>2, <3>3
  <2>4. QED
    BY <2>1, <2>2, <2>3 DEF Held
<1>11. QED
  BY <1>6, <1>8, <1>9, <1>10 DEF Kept

LEMMA ClosedSomewhere ==
    ASSUME ReduceSound, Somewhere, NEW n0, NEW s0, NEW b0, Offers(n0, s0, b0), Closed(n0, s0, b0),
           UNCHANGED <<flow, drops>>
    PROVE  Somewhere'
<1> DEFINE k == <<n0, s0>>
<1>1. /\ k \in Links /\ n0 \in Nodes /\ s0 \in Switches /\ n0 \in Children(s0)
      /\ b0 \in Blocks /\ Under(s0) = Below[s0]
      /\ \A n \in Children(s0) : Under(n) \subseteq Below[s0]
  BY ChildFacts, BelowFacts DEF Offers
<1>2. PICK V, L : Sends(n0, s0, b0, V, L)
  BY DEF Closed
<1>3. PICK W, q : W = up' /\ q = [block |-> b0, data |-> Sum(n0, s0, b0)]
  OBVIOUS
<1>4. /\ Taken(up, V, k) /\ Put(V, W, L, q)
      /\ Below[s0] # Hosts => \E t \in Ups[s0] : <<s0, t>> \in L
  BY <1>2, <1>3 DEF Sends
<1>5. up[k][1].block = b0
  <2>1. Head(up[k]).block = b0
    BY DEF Offers
  <2>2. Head(up[k]) = up[k][1]
    BY <1>4 DEF Taken
  <2>3. QED
    BY <2>1, <2>2
<1>6. \A s \in Switches, b \in Blocks :
          table'[s][b] = IF s = s0 /\ b = b0 THEN Empty ELSE table[s][b]
  BY <1>1 DEF Closed, ReduceSound, Typed
<1>7. \A s \in Switches : completed'[s] = IF s = s0 THEN completed[s] \cup {b0} ELSE completed[s]
  BY <1>1 DEF Closed, ReduceSound, Typed
<1>8. ASSUME NEW n, NEW s \in Switches, n \in Children(s), NEW i \in DOMAIN up[<<n, s>>],
             ~(<<n, s>> = k /\ i = 1)
      PROVE  \E j \in DOMAIN W[<<n, s>>] : j \in Nat /\ W[<<n, s>>][j] = up[<<n, s>>][i]
  <2> HIDE DEF k
  <2>1. PICK j \in DOMAIN V[<<n, s>>] : j \in Nat /\ V[<<n, s>>][j] = up[<<n, s>>][i]
    BY <1>1, <1>4, <1>8, LaterHeld
  <2>2. <<n, s>> \in Links
    BY <1>8, ChildFacts
  <2>3. j \in DOMAIN W[<<n, s>>] /\ W[<<n, s>>][j] = V[<<n, s>>][j]
    BY <1>4, <2>2 DEF Put
  <2>4. QED
    BY <2>1, <2>3
<1>9. SUFFICES ASSUME NEW h \in Hosts, NEW b \in Blocks, Kept(h, b) PROVE Kept(h, b)'
  BY TakenSomewhere
<1>10. CASE b = b0 /\ h \in Below[s0]
  <2>1. CASE Below[s0] = Hosts
    <3>1. Top(s0, b0)'
      BY <1>1, <1>7, <2>1 DEF Top
    <3>2. QED
      BY <1>1, <1>10, <3>1 DEF Kept, IsDone
  <2>2. CASE Below[s0] # Hosts
    <3>1. PICK t \in Ups[s0] : <<s0, t>> \in L
      BY <1>4, <2>2
    <3>2. t \in Switches /\ s0 \in Children(t) /\ <<s0, t>> \in Links
      BY <1>1, UpFacts
    <3>3. PICK i : i = Len(V[<<s0, t>>]) + 1
      OBVIOUS
    <3>4. i \in Nat
      <4>1. V[<<s0, t>>] \in Seq(Piece)
        BY <1>4, <3>2 DEF Taken
      <4>2. QED
        BY <3>3, <4>1
    <3>5. i \in DOMAIN W[<<s0, t>>] /\ W[<<s0, t>>][i] = q
      BY <1>4, <3>1, <3>3 DEF Put
    <3>6. Held(h, b, s0, t, i)'
      BY <1>1, <1>3, <1>10, <3>2, <3>5 DEF Held
    <3>7. s0 \in Nodes
      BY <1>1 DEF Nodes
    <3>8. QED
      BY <3>2, <3>4, <3>6, <3>7 DEF Kept, IsHeld
  <2>3. QED
    BY <2>1, <2>2
<1>11. CASE ~(b = b0 /\ h \in Below[s0])
  <2>1. CASE Waiting(h, b)
    <3>1. PICK i \in DOMAIN up[<<h, Tor(h)>>] : up[<<h, Tor(h)>>][i].block = b
      BY <2>1 DEF Waiting
    <3>2. b \notin completed[Tor(h)]
      BY <2>1 DEF Waiting
    <3>3. h \in Children(Tor(h)) /\ Tor(h) \in Switches /\ h \in Under(h)
      BY TorFacts
    <3>4. Tor(h) = s0 => h \in Below[s0]
      BY <1>1, <3>3
    <3>5. ~(<<h, Tor(h)>> = k /\ i = 1)
      BY <1>5, <1>11, <3>1, <3>4
    <3>6. b \notin completed'[Tor(h)]
      BY <1>7, <1>11, <3>2, <3>3, <3>4
    <3>7. \E j \in DOMAIN W[<<h, Tor(h)>>] : W[<<h, Tor(h)>>][j] = up[<<h, Tor(h)>>][i]
      BY <1>8, <3>1, <3>3, <3>5
    <3>8. Waiting(h, b)'
      BY <1>3, <3>1, <3>6, <3>7 DEF Waiting
    <3>9. QED
      BY <3>8 DEF Kept
  <2>2. CASE IsDone(b)
    BY <1>7, <2>2 DEF Kept, IsDone, Top
  <2>3. CASE IsHeld(h, b)
    <3>1. PICK n \in Nodes, s \in Switches, i \in Nat : Held(h, b, n, s, i)
      BY <2>3 DEF IsHeld
    <3>2. n \in Children(s) /\ h \in Under(n)
      BY <3>1 DEF Held
    <3>3. s = s0 => b # b0
      BY <1>1, <1>11, <3>2
    <3>4. CASE i = 0 /\ n \in table[s][b].from
      <4>1. table'[s][b] = table[s][b]
        BY <1>6, <3>3
      <4>2. Held(h, b, n, s, 0)'
        BY <3>2, <3>4, <4>1 DEF Held
      <4>3. QED
        BY <4>2 DEF Kept, IsHeld
    <3>5. CASE n \in Switches /\ i \in DOMAIN up[<<n, s>>] /\ up[<<n, s>>][i].block = b
      <4>1. ~(<<n, s>> = k /\ i = 1)
        BY <1>5, <3>3, <3>5
      <4>2. PICK j \in DOMAIN W[<<n, s>>] : j \in Nat /\ W[<<n, s>>][j] = up[<<n, s>>][i]
        BY <1>8, <3>2, <3>5, <4>1
      <4>3. Held(h, b, n, s, j)'
        BY <1>3, <3>2, <3>5, <4>2 DEF Held
      <4>4. QED
        BY <4>2, <4>3 DEF Kept, IsHeld
    <3>6. QED
      BY <3>1, <3>4, <3>5 DEF Held
  <2>4. QED
    BY <1>9, <2>1, <2>2, <2>3 DEF Kept
<1>12. QED
  BY <1>10, <1>11

\* Steps that leave the way up alone.
LEMMA UpAlone ==
    ASSUME ReduceSound, Somewhere, UNCHANGED <<up, table, completed>>,
           \A h \in Hosts : flow'[h].next = flow[h].next, drops' = 0 => drops = 0
    PROVE  Somewhere'
<1>1. \A h \in Hosts, b \in Blocks : Kept(h, b) => Kept(h, b)'
  BY KeptStays
<1>2. QED
  BY <1>1 DEF Somewhere

LEMMA ExpiredNext ==
    ASSUME ReduceSound, NEW h \in Hosts, RtxTimerExpired(h) \/ Result(h)
    PROVE  \A g \in Hosts : flow'[g].next = flow[g].next
<1>1. flow \in [Hosts -> Source] /\ Typed
  BY DEF ReduceSound, Typed
<1>2. ASSUME NEW r, flow' = [flow EXCEPT ![h] = r], r.next = flow[h].next
      PROVE  \A g \in Hosts : flow'[g].next = flow[g].next
  BY <1>1, <1>2
<1>3. CASE Result(h)
  <2>1. PICK b \in Blocks : flow' = [flow EXCEPT ![h] = After(h, b)]
    BY <1>1, <1>3, ResultIs
  <2>2. After(h, b).next = flow[h].next
    BY <1>1, AfterFacts
  <2>3. QED
    BY <1>2, <2>1, <2>2
<1>4. CASE RtxTimerExpired(h)
  <2>1. CASE flow[h].records = {}
    BY <1>4, <2>1 DEF RtxTimerExpired
  <2>2. CASE flow[h].records # {}
    <3>1. PICK left, b : flow' = [flow EXCEPT ![h].records = left, ![h].rtx = @ \cup {b},
                                              ![h].timer = Earliest(left)]
      BY <1>4, <2>2 DEF RtxTimerExpired
    <3>2. PICK r : r = [flow[h] EXCEPT !.records = left, !.rtx = @ \cup {b},
                                       !.timer = Earliest(left)]
      OBVIOUS
    <3>3. flow' = [flow EXCEPT ![h] = r]
      BY <1>1, <3>1, <3>2
    <3>4. flow[h] \in Source
      BY <1>1
    <3>5. r.next = flow[h].next
      BY <3>2, <3>4 DEF Source
    <3>6. QED
      BY <1>2, <3>3, <3>5
  <2>3. QED
    BY <2>1, <2>2
<1>5. QED
  BY <1>3, <1>4

LEMMA SomewhereAlways == ReduceSpec => []Somewhere
<1>1. ReduceInit => Somewhere
  BY DEF ReduceInit, Somewhere, Blocks
<1>2. ASSUME ReduceSound, Somewhere, [ReduceNext]_reduceVars PROVE Somewhere'
  <2>1. CASE UNCHANGED reduceVars
    BY <1>2, <2>1, UpAlone DEF reduceVars
  <2>2. ASSUME NEW h \in Hosts, SendNew(h) \/ SendRtx(h) PROVE Somewhere'
    BY <1>2, <2>2, SentSomewhere
  <2>3. ASSUME NEW h \in Hosts, Result(h) \/ RtxTimerExpired(h) PROVE Somewhere'
    <3>1. UNCHANGED <<up, table, completed, drops>>
      BY <2>3 DEF Result, RtxTimerExpired, switches
    <3>2. QED
      BY <1>2, <2>3, <3>1, ExpiredNext, UpAlone
  <2>4. ASSUME NEW l \in Links, Contribution(l[1], l[2]) PROVE Somewhere'
    <3>1. PICK n, s, b : /\ Offers(n, s, b)
                         /\ Ignored(n, s, b) \/ Added(n, s, b) \/ Closed(n, s, b)
                         /\ UNCHANGED <<flow, drops>>
      BY <1>2, <2>4, ContributionIs DEF ReduceSound
    <3>2. QED
      BY <1>2, <3>1, IgnoredSomewhere, AddedSomewhere, ClosedSomewhere
  <2>5. ASSUME NEW l \in Links, Drop(l) PROVE Somewhere'
    <3>1. drops' = drops + 1
      BY <2>5 DEF Drop
    <3>2. drops' # 0
      BY <1>2, <3>1 DEF ReduceSound, Typed
    <3>3. QED
      BY <3>2 DEF Somewhere
  <2>6. ASSUME NEW l \in Links, PassDown(l[1], l[2]) PROVE Somewhere'
    <3>1. UNCHANGED <<up, table, completed, flow, drops>>
      BY <2>6 DEF PassDown, switches
    <3>2. QED
      BY <1>2, <3>1, UpAlone
  <2>7. QED
    BY <1>2, <2>1, <2>2, <2>3, <2>4, <2>5, <2>6, NextIs DEF Steps
<1>3. QED
  BY <1>1, <1>2, Reduced, PTL DEF ReduceSpec


\* The switches that hold a part of block b.
Holders(b) == {s \in Switches : table[s][b].from # {}}

LEMMA BelowFinite ==
    ASSUME NEW s \in Switches
    PROVE  IsFiniteSet(Below[s]) /\ Cardinality(Below[s]) \in Nat
BY TreeAssumption, FS_Subset, FS_CardinalityType

\* One of them covers no more hosts than any other.
LEMMA LeastHolder ==
    ASSUME NEW E \in SUBSET Switches, E # {}
    PROVE  \E s \in E : \A t \in E : Cardinality(Below[s]) <= Cardinality(Below[t])
<1> DEFINE C == {Cardinality(Below[s]) : s \in E}
<1>1. C \in SUBSET Nat /\ C # {}
  BY BelowFinite
<1>2. PICK m \in C : \A k \in C : m <= k
  <2> HIDE DEF C
  <2>1. QED
    BY <1>1, LeastNatural
<1>3. QED
  BY <1>2

LEMMA SmallerBelow ==
    ASSUME NEW s \in Switches, NEW t \in Switches, Below[s] \subseteq Below[t], Below[s] # Below[t]
    PROVE  ~(Cardinality(Below[t]) <= Cardinality(Below[s]))
BY BelowFinite, FS_Subset

\* A share in a table is in one table, and entered by one child.
LEMMA EnteredOnce ==
    ASSUME ReduceSound, NEW h \in Hosts, NEW b \in Blocks, NEW s \in Switches, NEW t \in Switches,
           NEW n \in table[s][b].from, NEW m \in table[t][b].from, h \in Under(n), h \in Under(m)
    PROVE  s = t /\ n = m
<1>1. n \in Children(s) /\ m \in Children(t)
  BY DEF ReduceSound, Shares, Tables
<1>2. n \in Nodes /\ m \in Nodes
  BY <1>1, ChildFacts
<1>3. Has(h, b, n, s, 0) /\ Has(h, b, m, t, 0)
  BY <1>1 DEF Has
<1>4. QED
  BY <1>2, <1>3 DEF ReduceSound, Shares, Alone

\* Tables that hold everybody's share of a block between them: two of them cover the
\* same hosts.  A switch lacks one child at least, somebody below it is held elsewhere,
\* and in a fat tree that other switch is below the child, or covers the same hosts, or
\* covers more and would have the first switch's share as well.
LEMMA HeldSplit ==
    ASSUME ReduceSound, NEW b \in Blocks,
           \A h \in Hosts : \E s \in Switches : \E n \in table[s][b].from : h \in Under(n)
    PROVE  Split(b)
<1>1. SUFFICES ASSUME ~Split(b) PROVE FALSE
  OBVIOUS
<1>2. PICK s \in Holders(b) :
          \A t \in Holders(b) : Cardinality(Below[s]) <= Cardinality(Below[t])
  <2>1. Hosts # {}
    BY TreeAssumption
  <2>2. Holders(b) # {} /\ Holders(b) \in SUBSET Switches
    BY <2>1 DEF Holders
  <2>3. QED
    BY <2>2, LeastHolder
<1>3. s \in Switches /\ table[s][b].from # {}
  BY DEF Holders
<1>4. /\ table[s][b].from \subseteq Children(s) /\ table[s][b].from # Children(s)
  BY <1>3 DEF ReduceSound, Shares, Tables
<1>5. PICK m \in Children(s) : m \notin table[s][b].from
  BY <1>4
<1>6. PICK x \in Children(s) : x \in table[s][b].from
  BY <1>3, <1>4
<1>7. Under(m) \cap Under(x) = {} /\ Under(x) # {} /\ Under(m) \subseteq Below[s]
      /\ Under(x) \subseteq Below[s] /\ Under(m) # {} /\ Under(m) \subseteq Hosts
      /\ Under(x) \subseteq Hosts
  BY <1>3, <1>5, <1>6, ChildFacts
<1>8. PICK g : g \in Under(m) /\ g \in Hosts
  BY <1>7
<1>9. PICK t \in Switches : \E n \in table[t][b].from : g \in Under(n)
  BY <1>8
<1>10. PICK n \in table[t][b].from : g \in Under(n)
  BY <1>9
<1>11. t \in Holders(b)
  BY <1>10 DEF Holders
<1>12. n \in Children(t) /\ Under(n) \subseteq Below[t]
  <2>1. n \in Children(t)
    BY <1>10 DEF ReduceSound, Shares, Tables
  <2>2. QED
    BY <2>1, ChildFacts
<1>13. s # t
  <2>1. SUFFICES ASSUME s = t PROVE FALSE
    OBVIOUS
  <2>2. n \in Children(s) /\ Under(n) \cap Under(m) # {}
    BY <1>8, <1>10, <1>12, <2>1
  <2>3. n = m
    BY <1>3, <1>5, <2>2, ChildFacts
  <2>4. QED
    BY <1>5, <1>10, <2>1, <2>3
<1>14. g \in Below[t] /\ g \in Below[s]
  BY <1>7, <1>8, <1>10, <1>12
<1>15. Below[s] # Below[t]
  BY <1>1, <1>3, <1>10, <1>13 DEF Split
<1>16. ~(Below[t] \subseteq Below[s])
  BY <1>2, <1>3, <1>11, <1>15, SmallerBelow
<1>17. Below[s] \subseteq Below[t]
  <2>1. Below[t] \subseteq Under(m) \/ Below[s] \subseteq Below[t]
    <3>1. Under(m) \cap Below[t] # {}
      BY <1>8, <1>14
    <3>2. QED
      BY <1>3, <3>1, TierAssumption
  <2>2. QED
    BY <1>7, <1>16, <2>1
<1>18. Below[s] \subseteq Under(n)
  <2>1. Below[s] \subseteq Under(n) \/ Below[t] \subseteq Below[s]
    <3>1. Under(n) \cap Below[s] # {}
      BY <1>10, <1>14
    <3>2. QED
      BY <1>3, <1>12, <3>1, TierAssumption
  <2>2. QED
    BY <1>16, <2>1
<1>19. PICK y : y \in Under(x) /\ y \in Hosts /\ y \in Under(n)
  BY <1>7, <1>18
<1>20. s = t
  BY <1>3, <1>6, <1>10, <1>19, EnteredOnce
<1>21. QED
  BY <1>13, <1>20

\* Once the links are empty a block that everybody has sent has been reduced and its
\* sum has reached everybody (IncSwitch::handle_inc_packet and send_multicast_down),
\* unless a full queue dropped a packet or the parts took different ways up.
THEOREM NothingIsHeldBack == ReduceSpec => []NothingHeldBack
<1>1. ReduceSound /\ Returned /\ Somewhere => NothingHeldBack
  <2>1. SUFFICES ASSUME ReduceSound, Returned, Somewhere,
                        \A l \in Links : up[l] = <<>> /\ down[l] = <<>>,
                        NEW b \in Blocks, \A h \in Hosts : flow[h].next > b,
                        ~(drops > 0), ~Split(b), NEW h \in Hosts
                 PROVE  \E r \in Elements(got[h]) : r.block = b
    BY DEF NothingHeldBack
  <2>2. drops = 0
    BY <2>1 DEF ReduceSound, Typed
  <2>3. \A l \in Links : DOMAIN up[l] = {} /\ DOMAIN down[l] = {}
    BY <2>1
  <2>4. \A g \in Hosts : Kept(g, b)
    <3>1. SUFFICES ASSUME NEW g \in Hosts PROVE Kept(g, b)
      OBVIOUS
    <3>2. flow[g].next \in Nat /\ b \in Int /\ flow[g].next > b
      BY <2>1, SourceFacts DEF ReduceSound, Blocks
    <3>3. b < flow[g].next
      BY <3>2
    <3>4. QED
      BY <2>1, <2>2, <3>3 DEF Somewhere
  <2>5. \A g \in Hosts : ~Waiting(g, b)
    BY <2>3, TorFacts DEF Waiting
  <2>6. IsDone(b)
    <3>1. SUFFICES ASSUME ~IsDone(b) PROVE FALSE
      OBVIOUS
    <3>2. ASSUME NEW g \in Hosts
          PROVE  \E s \in Switches : \E n \in table[s][b].from : g \in Under(n)
      <4>1. IsHeld(g, b)
        BY <2>4, <2>5, <3>1 DEF Kept
      <4>2. PICK n \in Nodes, s \in Switches, i \in Nat : Held(g, b, n, s, i)
        BY <4>1 DEF IsHeld
      <4>3. <<n, s>> \in Links
        BY <4>2, ChildFacts DEF Held
      <4>4. QED
        BY <2>3, <4>2, <4>3 DEF Held
    <3>3. Split(b)
      BY <2>1, <3>2, HeldSplit
    <3>4. QED
      BY <2>1, <3>3
  <2>7. Headed(down, h, b) \/ Reached(got, h, b)
    BY <2>1, <2>2, <2>6 DEF Returned, Arrives, IsDone
  <2>8. ~Headed(down, h, b)
    <3>1. ASSUME NEW n \in Nodes, NEW s \in Switches, NEW i \in Nat, Coming(down, h, b, n, s, i)
          PROVE  FALSE
      <4>1. <<n, s>> \in Links /\ i \in DOMAIN down[<<n, s>>]
        BY <3>1, ChildFacts DEF Coming
      <4>2. QED
        BY <2>3, <4>1
    <3>2. QED
      BY <3>1 DEF Headed
  <2>9. PICK i \in Nat : i \in DOMAIN got[h] /\ got[h][i].block = b
    BY <2>7, <2>8 DEF Reached, Gotten
  <2>10. QED
    BY <2>9 DEF Elements
<1>2. QED
  BY <1>1, Reduced, SomewhereAlways, PTL

=============================================================================
