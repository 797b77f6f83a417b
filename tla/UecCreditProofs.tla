-------------------------- MODULE UecCreditProofs --------------------------
(***************************************************************************)
(* Theorems about UecCredit, for any flows, packet sizes, window, quantum  *)
(* and number of faults: the pacer's lists and the flags of the flows      *)
(* always agree, demand is always on its way to being served, and credit   *)
(* is never spent that was not granted.                                    *)
(***************************************************************************)
EXTENDS UecCredit, FiniteSetTheorems, WellFoundedInduction, TLAPS

-----------------------------------------------------------------------------
(* The sender's record: its type, and what relates its fields.             *)

Request == [type : {"data"}, seq : Nat, pt : Int] \cup [type : {"rts"}, seq : Nat, pt : Int]

Sender ==
    [started : BOOLEAN, next : Nat, backlog : Nat, outstanding : SUBSET Nat,
     rtx : SUBSET Nat, ctrl : SUBSET Nat, credit : Int, pull : Nat, target : Int,
     speculating : BOOLEAN, blocked : BOOLEAN, registered : Nat, spent : Nat,
     out : SUBSET Request]

\* What the sender has spent since it stopped speculating, and still may, is
\* what it was pulled for.
Granted(s) == IF s.speculating THEN MaxWnd ELSE Quantum * s.pull

Fits(s) ==
    /\ s \in Sender
    /\ IsFiniteSet(s.rtx)
    /\ s.credit > -PktSize
    /\ s.spent + s.credit <= Granted(s)
    /\ s.speculating => s.pull = 0

\* t is what a handler that is given no credit makes of s.
Keeps(s, t) == Fits(t) /\ t.pull = s.pull

LEMMA SenderFields ==
    ASSUME NEW s \in Sender
    PROVE  /\ s.next \in Nat /\ s.backlog \in Nat /\ s.credit \in Int /\ s.pull \in Nat
           /\ s.target \in Int /\ s.registered \in Nat /\ s.spent \in Nat
           /\ s.outstanding \in SUBSET Nat /\ s.rtx \in SUBSET Nat /\ s.ctrl \in SUBSET Nat
           /\ s.speculating \in BOOLEAN /\ s.out \in SUBSET Request
BY DEF Sender

\* The least element of a set of naturals.
LEMMA MinNat ==
    ASSUME NEW S \in SUBSET Nat, S # {}
    PROVE  Min(S) \in S
<1> DEFINE R == OpToRel(<, Nat)
<1>1. IsWellFoundedOn(R, Nat)
  BY NatLessThanWellFounded
<1>2. \A x, y \in Nat : y < x => <<y, x>> \in R
  BY DEF OpToRel
<1> HIDE DEF R
<1>3. PICK x \in S : \A y \in S : <<y, x>> \notin R
  BY <1>1, WFMin
<1>4. ASSUME NEW y \in S PROVE x <= y
  <2>1. x \in Nat /\ y \in Nat
    OBVIOUS
  <2>2. ~(y < x)
    BY <1>2, <1>3, <2>1
  <2>3. QED
    BY <2>1, <2>2
<1>5. QED
  BY <1>4 DEF Min

LEMMA DivideTypes ==
    ASSUME NEW b \in Int
    PROVE  /\ \A n \in Nat \ {0} : Truncated(b, n) \in Int
           /\ QuantizeCeil(b) \in Int
<1>1. \A x \in Int, n \in Nat \ {0} : x \div n \in Int
  OBVIOUS
<1>2. QED
  BY <1>1, CreditAssumption DEF Truncated, QuantizeCeil

LEMMA TargetType ==
    ASSUME NEW s \in Sender, IsFiniteSet(s.rtx), NEW n \in Shares
    PROVE  ComputePullTarget(s, n) \in Int
<1> USE CreditAssumption
<1>1. Cardinality(s.rtx \ s.ctrl) \in Nat /\ Cardinality(s.rtx \cap s.ctrl) \in Nat
  BY FS_Subset, FS_CardinalityType, FS_Difference, FS_Intersection
<1>2. RtxBytes(s) \in Int
  <2> DEFINE x == Cardinality(s.rtx \ s.ctrl)
             y == Cardinality(s.rtx \cap s.ctrl)
  <2> HIDE DEF x, y
  <2>1. x \in Nat /\ y \in Nat
    BY <1>1 DEF x, y
  <2>2. PktSize * x + HdrSize * y \in Int
    BY <2>1
  <2>3. QED
    BY <2>2 DEF x, y, RtxBytes
<1>3. PktSize * s.backlog + RtxBytes(s) \in Int
  BY <1>2, SenderFields
<1>4. ASSUME NEW ask \in Int
      PROVE  QuantizeCeil(Truncated(ask, n) + Quantum * s.pull) \in Int
  <2>1. Truncated(ask, n) \in Int
    BY DivideTypes DEF Shares
  <2>2. Truncated(ask, n) + Quantum * s.pull \in Int
    BY <2>1, SenderFields
  <2>3. QED
    BY <2>2, DivideTypes
<1>5. QED
  <2> DEFINE backlog == PktSize * s.backlog + RtxBytes(s)
             ask == (IF backlog > MaxWnd THEN MaxWnd ELSE backlog) - s.credit
             atLeast == IF s.speculating /\ ask < PktSize /\ s.backlog > 0 THEN PktSize ELSE ask
  <2>1. ask \in Int
    BY <1>3, SenderFields
  <2>2. atLeast \in Int
    BY <2>1
  <2>3. ComputePullTarget(s, n) = QuantizeCeil(Truncated(atLeast, n) + Quantum * s.pull)
    BY DEF ComputePullTarget
  <2> HIDE DEF atLeast
  <2>4. QED
    BY <2>2, <2>3, <1>4

-----------------------------------------------------------------------------
(* What each helper of the sender does.                                    *)

\* Only the NIC's bookkeeping changes, or the sets of packets.
LEMMA BookkeepingKeeps ==
    ASSUME NEW s, Fits(s), NEW t \in Sender, t.rtx = s.rtx, t.credit = s.credit,
           t.spent = s.spent, t.pull = s.pull, t.speculating = s.speculating
    PROVE  Keeps(s, t)
BY DEF Fits, Keeps, Granted

LEMMA NicKeeps ==
    ASSUME NEW s, Fits(s)
    PROVE  /\ Keeps(s, Register(s)) /\ Keeps(s, RequestAgain(s))
           /\ Keeps(s, [s EXCEPT !.started = TRUE])
           /\ s.registered > 0 => Keeps(s, [s EXCEPT !.blocked = FALSE, !.registered = @ - 1])
           /\ \A q : Keeps(s, [s EXCEPT !.outstanding = @ \ {q}])
<1>1. s \in Sender /\ s.registered \in Nat
  BY DEF Fits, Sender
<1>2. Keeps(s, Register(s))
  <2>1. Register(s) \in Sender
    BY <1>1 DEF Register, Sender
  <2>2. QED
    BY <1>1, <2>1, BookkeepingKeeps DEF Register, Sender
<1>3. Keeps(s, RequestAgain(s))
  <2> DEFINE r == Register(s)
  <2>0. r \in Sender
    BY <1>2 DEF Keeps, Fits
  <2>1. [r EXCEPT !.blocked = TRUE] \in Sender
    <3> HIDE DEF r
    <3>1. QED
      BY <2>0 DEF Sender
  <2>2. Keeps(s, [Register(s) EXCEPT !.blocked = TRUE])
    BY <1>1, <2>1, BookkeepingKeeps DEF Register, Sender
  <2>3. QED
    BY <2>2 DEF RequestAgain, Keeps
<1>4. Keeps(s, [s EXCEPT !.started = TRUE])
  <2>1. [s EXCEPT !.started = TRUE] \in Sender
    BY <1>1 DEF Sender
  <2>2. QED
    BY <1>1, <2>1, BookkeepingKeeps DEF Sender
<1>5. ASSUME s.registered > 0
      PROVE  Keeps(s, [s EXCEPT !.blocked = FALSE, !.registered = @ - 1])
  <2>1. s.registered - 1 \in Nat
    BY <1>1, <1>5
  <2>2. [s EXCEPT !.blocked = FALSE, !.registered = @ - 1] \in Sender
    BY <1>1, <2>1 DEF Sender
  <2>3. QED
    BY <1>1, <2>2, BookkeepingKeeps DEF Sender
<1>6. ASSUME NEW q PROVE Keeps(s, [s EXCEPT !.outstanding = @ \ {q}])
  <2>1. s.outstanding \ {q} \in SUBSET Nat
    BY <1>1, SenderFields
  <2>2. [s EXCEPT !.outstanding = @ \ {q}] \in Sender
    BY <1>1, <2>1 DEF Sender
  <2>3. QED
    BY <1>1, <2>2, BookkeepingKeeps DEF Sender
<1>7. QED
  BY <1>2, <1>3, <1>4, <1>5, <1>6

LEMMA SendPacketKeeps ==
    ASSUME NEW s, Fits(s), s.credit > 0, s.rtx # {} \/ s.backlog > 0, NEW n \in Shares
    PROVE  Keeps(s, SendPacket(s, n))
<1> DEFINE fresh == s.rtx = {}
           q == IF fresh THEN s.next ELSE Min(s.rtx)
           z == Size(s, q)
           a == [s EXCEPT !.credit = @ - z, !.spent = @ + z, !.rtx = @ \ {q},
                          !.backlog = IF fresh THEN @ - 1 ELSE @,
                          !.next = IF fresh THEN @ + 1 ELSE @,
                          !.outstanding = @ \cup {q}]
           pt == ComputePullTarget(a, n)
           t == [a EXCEPT !.target = pt, !.out = @ \cup {Data(q, pt)}]
<1>1. s \in Sender
  BY DEF Fits
<1>2. q \in Nat
  BY <1>1, SenderFields, MinNat
<1>3. z \in 1 .. PktSize
  BY CreditAssumption DEF Size
<1>4. /\ s.credit - z \in Int /\ s.credit - z > -PktSize
      /\ s.spent + z \in Nat
      /\ (IF fresh THEN s.backlog - 1 ELSE s.backlog) \in Nat
      /\ (IF fresh THEN s.next + 1 ELSE s.next) \in Nat
      /\ s.rtx \ {q} \in SUBSET Nat /\ s.outstanding \cup {q} \in SUBSET Nat
  <2> HIDE DEF q, z
  <2>1. QED
    BY <1>1, <1>2, <1>3, SenderFields, CreditAssumption
<1>5. a \in Sender /\ IsFiniteSet(a.rtx)
  <2>1. a \in Sender
    <3> DEFINE c == s.credit - z
               p == s.spent + z
               r == s.rtx \ {q}
               b == IF fresh THEN s.backlog - 1 ELSE s.backlog
               x == IF fresh THEN s.next + 1 ELSE s.next
               o == s.outstanding \cup {q}
    <3>1. a = [s EXCEPT !.credit = c, !.spent = p, !.rtx = r, !.backlog = b,
                        !.next = x, !.outstanding = o]
      BY <1>1 DEF Sender
    <3>2. c \in Int /\ p \in Nat /\ r \in SUBSET Nat /\ b \in Nat /\ x \in Nat /\ o \in SUBSET Nat
      BY <1>4
    <3> HIDE DEF a, c, p, r, b, x, o
    <3>3. QED
      BY <1>1, <3>1, <3>2 DEF Sender
  <2>2. a.rtx = s.rtx \ {q}
    BY <1>1 DEF Sender
  <2> HIDE DEF a, q
  <2>3. QED
    BY <2>1, <2>2, FS_RemoveElement DEF Fits
<1>6. pt \in Int
  BY <1>5, TargetType
<1>7. /\ a.credit = s.credit - z /\ a.spent = s.spent + z /\ a.pull = s.pull
      /\ a.speculating = s.speculating
  BY <1>1 DEF Sender
<1>8. t \in Sender /\ t.rtx = a.rtx /\ t.credit = a.credit /\ t.spent = a.spent
      /\ t.pull = a.pull /\ t.speculating = a.speculating
  <2>1. Data(q, pt) \in Request
    BY <1>2, <1>6 DEF Data, Request
  <2> DEFINE d == Data(q, pt)
  <2> HIDE DEF a, pt, d
  <2>2. t = [a EXCEPT !.target = pt, !.out = @ \cup {d}]
    BY DEF d
  <2>3. d \in Request
    BY <2>1 DEF d
  <2>4. a.out \cup {d} \in SUBSET Request
    BY <1>5, <2>3, SenderFields
  <2>5. QED
    BY <1>5, <1>6, <2>2, <2>4 DEF Sender
<1>9. SendPacket(s, n) = t
  BY DEF SendPacket
<1>10. QED
  <2> HIDE DEF t, a, z
  <2>1. Granted(t) = Granted(s)
    BY <1>7, <1>8 DEF Granted
  <2>2. t.spent + t.credit = s.spent + s.credit
    BY <1>1, <1>3, <1>7, <1>8, SenderFields
  <2>3. QED
    BY <1>1, <1>4, <1>5, <1>7, <1>8, <1>9, <2>1, <2>2 DEF Fits, Keeps

LEMMA KeepsTransitive ==
    ASSUME NEW s, NEW t, NEW u, Keeps(s, t), Keeps(t, u)
    PROVE  Keeps(s, u)
BY DEF Keeps

LEMMA SendIfPermittedKeeps ==
    ASSUME NEW s, Fits(s), NEW n \in Shares, NEW free
    PROVE  Keeps(s, SendIfPermitted(s, n, free))
<1>1. CASE ~CanSend(s) \/ s.blocked
  BY <1>1 DEF SendIfPermitted, Keeps
<1>2. CASE CanSend(s) /\ ~s.blocked /\ free
  <2>1. Keeps(s, SendPacket(s, n))
    BY <1>2, SendPacketKeeps DEF CanSend
  <2>2. Keeps(SendPacket(s, n), RequestAgain(SendPacket(s, n)))
    BY <2>1, NicKeeps DEF Keeps
  <2>3. SendIfPermitted(s, n, free) = RequestAgain(SendPacket(s, n))
    BY <1>2 DEF SendIfPermitted
  <2>4. QED
    BY <2>1, <2>2, <2>3, KeepsTransitive
<1>3. CASE CanSend(s) /\ ~s.blocked /\ ~free
  <2>1. SendIfPermitted(s, n, free) = RequestAgain(s)
    BY <1>3 DEF SendIfPermitted
  <2>2. QED
    BY <2>1, NicKeeps
<1>4. QED
  BY <1>1, <1>2, <1>3

\* The window of speculation is closed and its credit gone.
LEMMA StopSpeculatingCloses ==
    ASSUME NEW s, Fits(s)
    PROVE  Keeps(s, StopSpeculating(s)) /\ ~StopSpeculating(s).speculating
<1> DEFINE c == IF s.speculating /\ s.credit > 0 THEN 0 ELSE s.credit
           p == IF s.speculating THEN 0 ELSE s.spent
           t == StopSpeculating(s)
<1>1. s \in Sender
  BY DEF Fits
<1>2. c \in Int /\ p \in Nat
  BY <1>1, SenderFields
<1>3. t = [s EXCEPT !.speculating = FALSE, !.credit = c, !.spent = p]
  BY DEF StopSpeculating
<1>4. /\ t \in Sender /\ t.speculating = FALSE /\ t.credit = c /\ t.spent = p
      /\ t.pull = s.pull /\ t.rtx = s.rtx
  <2> HIDE DEF c, p, t
  <2>1. QED
    BY <1>1, <1>2, <1>3 DEF Sender
<1>5. c > -PktSize
  BY <1>1, SenderFields, CreditAssumption DEF Fits
<1>6. p + c <= Quantum * s.pull
  <2>1. CASE s.speculating
    <3>1. s.pull = 0 /\ Quantum * 0 = 0
      BY <2>1, CreditAssumption DEF Fits
    <3>2. p + c <= 0
      BY <1>1, <2>1, SenderFields
    <3>3. QED
      BY <3>1, <3>2
  <2>2. CASE ~s.speculating
    BY <2>2 DEF Fits, Granted
  <2>3. QED
    BY <2>1, <2>2
<1>7. QED
  <2> HIDE DEF c, p, t
  <2>1. Fits(t)
    BY <1>4, <1>5, <1>6 DEF Fits, Granted
  <2>2. QED
    BY <1>4, <2>1 DEF Keeps, t

\* A pull adds at most what it raises _pull by.
LEMMA HandlePullFits ==
    ASSUME NEW s, Fits(s), ~s.speculating, NEW no \in Nat
    PROVE  /\ Fits(HandlePull(s, no))
           /\ HandlePull(s, no).pull \in {s.pull, no}
<1>1. CASE ~(no > s.pull)
  BY <1>1 DEF HandlePull
<1>2. CASE no > s.pull
  <2> DEFINE c == s.credit + Quantum * (no - s.pull)
             d == IF c > MaxWnd THEN MaxWnd ELSE c
             t == [s EXCEPT !.credit = d, !.pull = no]
  <2>1. s \in Sender /\ s.credit \in Int /\ s.pull \in Nat /\ s.spent \in Nat
    BY SenderFields DEF Fits
  <2>2. /\ Quantum * (no - s.pull) \in Nat
        /\ Quantum * (no - s.pull) = Quantum * no - Quantum * s.pull
        /\ Quantum * no \in Nat /\ Quantum * s.pull \in Nat
    BY <1>2, <2>1, CreditAssumption
  <2>3. c \in Int /\ c >= s.credit /\ s.spent + c <= Quantum * no
    <3> HIDE DEF c
    <3>1. s.spent + s.credit <= Quantum * s.pull
      BY DEF Fits, Granted
    <3>2. QED
      BY <2>1, <2>2, <3>1 DEF c
  <2>4. d \in Int /\ d > -PktSize /\ s.spent + d <= Quantum * no
    <3> HIDE DEF c
    <3>1. QED
      BY <2>1, <2>3, CreditAssumption DEF Fits
  <2>5. /\ t \in Sender /\ t.credit = d /\ t.pull = no /\ t.spent = s.spent
        /\ t.speculating = s.speculating /\ t.rtx = s.rtx
    <3> HIDE DEF d
    <3>1. QED
      BY <2>1, <2>4 DEF Sender
  <2>6. HandlePull(s, no) = t
    BY <1>2 DEF HandlePull
  <2>7. QED
    <3> HIDE DEF t, d
    <3>1. QED
      BY <2>4, <2>5, <2>6 DEF Fits, Granted
<1>3. QED
  BY <1>1, <1>2

LEMMA QueueForRtxKeeps ==
    ASSUME NEW s, Fits(s), NEW q \in Nat, NEW n \in Shares, NEW free
    PROVE  Keeps(s, QueueForRtx(s, q, n, free))
<1> DEFINE a == [s EXCEPT !.rtx = @ \cup {q}]
<1>1. s \in Sender
  BY DEF Fits
<1>2. /\ a \in Sender /\ a.rtx = s.rtx \cup {q} /\ a.credit = s.credit
      /\ a.spent = s.spent /\ a.pull = s.pull /\ a.speculating = s.speculating
  <2> DEFINE r == s.rtx \cup {q}
  <2>1. r \in SUBSET Nat
    BY <1>1, SenderFields
  <2>2. a = [s EXCEPT !.rtx = r]
    BY <1>1
  <2> HIDE DEF a, r
  <2>3. /\ a \in Sender /\ a.rtx = r /\ a.credit = s.credit
        /\ a.spent = s.spent /\ a.pull = s.pull /\ a.speculating = s.speculating
    BY <1>1, <2>1, <2>2 DEF Sender
  <2>4. QED
    BY <2>3 DEF r
<1>3. Keeps(s, a)
  <2> HIDE DEF a
  <2>1. IsFiniteSet(a.rtx)
    BY <1>2, FS_AddElement DEF Fits
  <2>2. QED
    BY <1>2, <2>1 DEF Fits, Keeps, Granted
<1>4. QED
  <2> HIDE DEF a
  <2>1. Keeps(s, SendIfPermitted(a, n, free))
    BY <1>3, SendIfPermittedKeeps, KeepsTransitive DEF Keeps
  <2>2. QueueForRtx(s, q, n, free) = IF s.speculating THEN a ELSE SendIfPermitted(a, n, free)
    BY DEF QueueForRtx, a
  <2>3. QED
    BY <1>3, <2>1, <2>2

LEMMA SendRTSKeeps ==
    ASSUME NEW s, Fits(s)
    PROVE  Keeps(s, SendRTS(s))
<1>1. s \in Sender
  BY DEF Fits
<1> DEFINE c == s.ctrl \cup {s.next}
           o == s.outstanding \cup {s.next}
           m == s.out \cup {[type |-> "rts", seq |-> s.next, pt |-> s.target]}
           t == SendRTS(s)
<1>2. c \in SUBSET Nat /\ o \in SUBSET Nat /\ s.next + 1 \in Nat /\ m \in SUBSET Request
  BY <1>1, SenderFields DEF Request
<1>3. t = [s EXCEPT !.ctrl = c, !.outstanding = o, !.next = s.next + 1, !.out = m]
  BY <1>1 DEF SendRTS
<1>4. /\ t \in Sender /\ t.rtx = s.rtx /\ t.credit = s.credit
      /\ t.spent = s.spent /\ t.pull = s.pull /\ t.speculating = s.speculating
  <2> HIDE DEF c, o, m, t
  <2>1. QED
    BY <1>1, <1>2, <1>3 DEF Sender
<1>5. QED
  <2> HIDE DEF t
  <2>1. Keeps(s, t)
    BY <1>4, BookkeepingKeeps
  <2>2. QED
    BY <2>1 DEF t

LEMMA RtxTimerExpiredKeeps ==
    ASSUME NEW s, Fits(s), NEW q \in Nat, NEW n \in Shares, NEW free
    PROVE  Keeps(s, RtxTimerExpired(s, q, n, free))
<1> DEFINE a == [s EXCEPT !.outstanding = @ \ {q}]
           b == QueueForRtx(a, q, n, free)
           d == QueueForRtx(StopSpeculating(a), q, n, free)
<1>1. Keeps(s, a)
  BY NicKeeps
<1>2. RtxTimerExpired(s, q, n, free) \in
        {SendRTS(d), SendRTS(b), SendPacket(b, n), Register(b)}
      /\ (RtxTimerExpired(s, q, n, free) = SendPacket(b, n) /\ b.credit \in Int
            => \/ RtxTimerExpired(s, q, n, free) \in {SendRTS(d), SendRTS(b), Register(b)}
               \/ b.credit > 0 /\ b.rtx # {})
  BY DEF RtxTimerExpired
<1> HIDE DEF a
<1>3. Keeps(s, b)
  BY <1>1, QueueForRtxKeeps, KeepsTransitive DEF Keeps
<1>4. Keeps(s, d)
  <2>1. Keeps(s, StopSpeculating(a))
    BY <1>1, StopSpeculatingCloses, KeepsTransitive DEF Keeps
  <2>2. QED
    BY <2>1, QueueForRtxKeeps, KeepsTransitive DEF Keeps
<1> HIDE DEF b, d
<1>5. Keeps(s, SendRTS(b)) /\ Keeps(s, SendRTS(d)) /\ Keeps(s, Register(b))
  BY <1>3, <1>4, SendRTSKeeps, NicKeeps, KeepsTransitive DEF Keeps
<1>6. b.credit > 0 /\ b.rtx # {} => Keeps(s, SendPacket(b, n))
  BY <1>3, SendPacketKeeps, KeepsTransitive DEF Keeps
<1>7. b.credit \in Int
  BY <1>3 DEF Keeps, Fits, Sender
<1>8. QED
  BY <1>2, <1>5, <1>6, <1>7

-----------------------------------------------------------------------------
(* The pacer's lists.                                                      *)

Unique(list, f) == \A i, j \in At(list, f) : i = j

LEMMA Appended ==
    ASSUME NEW list \in Seq(Flows), NEW g \in Flows, NEW f \in Flows
    PROVE  /\ Append(list, g) \in Seq(Flows) /\ Append(list, g) # <<>>
           /\ At(Append(list, g), f) # {} <=> f = g \/ At(list, f) # {}
           /\ Unique(list, f) /\ (f = g => At(list, f) = {}) => Unique(Append(list, g), f)
<1> DEFINE l == Append(list, g)
           n == Len(list)
<1>1. /\ l \in Seq(Flows) /\ l # <<>> /\ Len(l) = n + 1 /\ n \in Nat
      /\ \A i \in 1 .. n : l[i] = list[i]
      /\ l[n + 1] = g
      /\ DOMAIN l = 1 .. (n + 1) /\ DOMAIN list = 1 .. n
  OBVIOUS
<1> HIDE DEF l, n
<1>2. At(l, f) = At(list, f) \cup {i \in {n + 1} : f = g}
  BY <1>1 DEF At
<1>3. QED
  BY <1>1, <1>2 DEF Unique, l

LEMMA TakenFirst ==
    ASSUME NEW list \in Seq(Flows), list # <<>>, NEW f \in Flows
    PROVE  /\ Tail(list) \in Seq(Flows) /\ Head(list) \in Flows
           /\ f # Head(list) => (At(Tail(list), f) # {} <=> At(list, f) # {})
           /\ At(list, Head(list)) # {}
           /\ Unique(list, f) => Unique(Tail(list), f)
           /\ Unique(list, Head(list)) => At(Tail(list), Head(list)) = {}
<1> DEFINE l == Tail(list)
           n == Len(list)
           g == Head(list)
<1>1. /\ l \in Seq(Flows) /\ n \in Nat \ {0} /\ g \in Flows /\ g = list[1]
      /\ \A i \in 1 .. (n - 1) : l[i] = list[i + 1]
      /\ DOMAIN l = 1 .. (n - 1) /\ DOMAIN list = 1 .. n
  OBVIOUS
<1> HIDE DEF l, n, g
<1>2. ASSUME NEW h, NEW i \in At(l, h) PROVE i \in Nat /\ i # 0 /\ i + 1 \in At(list, h)
  BY <1>1 DEF At
<1>3. ASSUME NEW h, NEW i \in At(list, h), i # 1 PROVE i - 1 \in At(l, h)
  <2>1. i \in 1 .. n /\ list[i] = h
    BY <1>1 DEF At
  <2>2. i - 1 \in 1 .. (n - 1) /\ (i - 1) + 1 = i
    BY <1>1, <1>3, <2>1
  <2>3. l[i - 1] = h
    BY <1>1, <2>1, <2>2
  <2>4. QED
    BY <1>1, <2>2, <2>3 DEF At
<1>4. \A h : 1 \in At(list, h) <=> h = g
  BY <1>1 DEF At
<1>5. f # g => (At(l, f) # {} <=> At(list, f) # {})
  BY <1>2, <1>3, <1>4
<1>6. Unique(list, f) => Unique(l, f)
  <2>1. SUFFICES ASSUME Unique(list, f), NEW i \in At(l, f), NEW j \in At(l, f)
                 PROVE  i = j
    BY DEF Unique
  <2>2. i + 1 = j + 1 /\ i \in Nat /\ j \in Nat
    BY <1>2, <2>1 DEF Unique
  <2>3. QED
    BY <2>2
<1>7. Unique(list, g) => At(l, g) = {}
  <2>1. SUFFICES ASSUME Unique(list, g), NEW i \in At(l, g)
                 PROVE  FALSE
    OBVIOUS
  <2>2. i + 1 = 1 /\ i \in Nat /\ i # 0
    BY <1>2, <1>4, <2>1 DEF Unique
  <2>3. QED
    BY <2>2
<1>8. QED
  BY <1>1, <1>4, <1>5, <1>6, <1>7 DEF l, g

-----------------------------------------------------------------------------
(* The receiver: k is the ends of the flows, p the pacer.                  *)

Receiver == [got : SUBSET Nat, latest : Nat, highest : Nat, inPull : BOOLEAN, inSlow : BOOLEAN]
Pacer == [active : Seq(Flows), idle : Seq(Flows), running : BOOLEAN, events : Nat]

\* ListsMatchFlags and DemandIsServed, for one flow and for the pacer.
Matches(r, p, f) ==
    /\ r.inPull <=> At(p.active, f) # {}
    /\ Unique(p.active, f)
    /\ r.inSlow => At(p.idle, f) # {}
    /\ Backlog(r) > 0 => r.inPull

Ticks(p) ==
    /\ p.events = IF p.running THEN 1 ELSE 0
    /\ p.active # <<>> \/ p.idle # <<>> => p.running

Served(k, p) ==
    /\ k \in [Flows -> Receiver] /\ p \in Pacer
    /\ Ticks(p)
    /\ \A f \in Flows : Matches(k[f], p, f)

LEMMA PacerFields ==
    ASSUME NEW p \in Pacer
    PROVE  /\ p.active \in Seq(Flows) /\ p.idle \in Seq(Flows)
           /\ p.running \in BOOLEAN /\ p.events \in Nat
BY DEF Pacer

LEMMA ReceiverFields ==
    ASSUME NEW r \in Receiver
    PROVE  r.got \in SUBSET Nat /\ r.latest \in Nat /\ r.highest \in Nat
           /\ r.inPull \in BOOLEAN /\ r.inSlow \in BOOLEAN
BY DEF Receiver

LEMMA RequestPullServes ==
    ASSUME NEW p \in Pacer, Ticks(p), NEW f \in Flows
    PROVE  /\ RequestPull(p, f) \in Pacer /\ Ticks(RequestPull(p, f))
           /\ RequestPull(p, f).active = Append(p.active, f)
           /\ RequestPull(p, f).idle = p.idle
<1> DEFINE l == Append(p.active, f)
           e == IF p.running THEN p.events ELSE p.events + 1
           t == RequestPull(p, f)
<1>1. l \in Seq(Flows) /\ e \in Nat
  BY PacerFields, Appended
<1>2. t = [p EXCEPT !.active = l, !.events = e, !.running = TRUE]
  BY DEF RequestPull, Pacer
<1> HIDE DEF l, t
<1>3. t \in Pacer /\ t.active = l /\ t.idle = p.idle /\ t.running = TRUE /\ t.events = e
  BY <1>1, <1>2 DEF Pacer
<1>4. e = 1
  BY PacerFields DEF Ticks
<1>5. QED
  BY <1>3, <1>4 DEF Ticks, l, t

\* A packet from the fabric leaves its flow served.
LEMMA DemandServes ==
    ASSUME NEW k, NEW p, Served(k, p), NEW f \in Flows, NEW pt \in Int, NEW must \in BOOLEAN,
           NEW r \in Receiver, r.latest = k[f].latest, r.highest = Larger(k[f].highest, pt),
           r.inPull = (k[f].inPull \/ Asked(k[f], pt, must)), r.inSlow = k[f].inSlow
    PROVE  Served([k EXCEPT ![f] = r],
                  IF Asked(k[f], pt, must) THEN RequestPull(p, f) ELSE p)
<1> DEFINE asked == Asked(k[f], pt, must)
           u == IF asked THEN RequestPull(p, f) ELSE p
           h == [k EXCEPT ![f] = r]
<1>1. /\ k \in [Flows -> Receiver] /\ p \in Pacer /\ Ticks(p)
      /\ \A g \in Flows : Matches(k[g], p, g)
      /\ k[f] \in Receiver
  BY DEF Served
<1>2. h \in [Flows -> Receiver] /\ h[f] = r /\ \A g \in Flows \ {f} : h[g] = k[g]
  BY <1>1
<1>3. /\ u \in Pacer /\ Ticks(u) /\ u.idle = p.idle
      /\ asked => u.active = Append(p.active, f)
      /\ ~asked => u.active = p.active
  BY <1>1, RequestPullServes
<1>4. asked => ~k[f].inPull /\ At(p.active, f) = {}
  BY <1>1 DEF Asked, Matches
<1>5. ~asked /\ ~k[f].inPull => r.highest = k[f].highest
  BY <1>1, ReceiverFields DEF Asked, Larger
<1> HIDE DEF h, u, asked
<1>6. Matches(r, u, f)
  <2>1. r.inPull <=> At(u.active, f) # {}
    <3>1. r.inPull <=> k[f].inPull \/ asked
      BY DEF asked
    <3>2. (k[f].inPull <=> At(p.active, f) # {}) /\ p.active \in Seq(Flows)
      BY <1>1, PacerFields DEF Matches
    <3>3. CASE asked
      <4>1. At(u.active, f) # {}
        BY <1>3, <3>2, <3>3, Appended
      <4>2. QED
        BY <3>1, <3>3, <4>1
    <3>4. CASE ~asked
      BY <1>3, <3>1, <3>2, <3>4
    <3>5. QED
      BY <3>3, <3>4
  <2>2. Unique(u.active, f)
    <3>1. Unique(p.active, f) /\ p.active \in Seq(Flows)
      BY <1>1, PacerFields DEF Matches
    <3>2. asked => Unique(Append(p.active, f), f)
      BY <3>1, <1>4, Appended
    <3>3. QED
      BY <3>1, <3>2, <1>3
  <2>3. r.inSlow => At(u.idle, f) # {}
    BY <1>1, <1>3 DEF Matches
  <2>4. Backlog(r) > 0 => r.inPull
    BY <1>1, <1>5 DEF Matches, Backlog, asked
  <2>5. QED
    BY <2>1, <2>2, <2>3, <2>4 DEF Matches
<1>7. ASSUME NEW g \in Flows \ {f} PROVE Matches(k[g], u, g)
  <2>1. At(u.active, g) # {} <=> At(p.active, g) # {}
    BY <1>1, <1>3, PacerFields, Appended
  <2>2. Unique(p.active, g) => Unique(u.active, g)
    <3>1. p.active \in Seq(Flows) /\ g # f
      BY <1>1, PacerFields
    <3>2. Unique(p.active, g) => Unique(Append(p.active, f), g)
      BY <3>1, Appended
    <3>3. QED
      BY <3>2, <1>3
  <2>3. QED
    BY <1>1, <1>3, <2>1, <2>2 DEF Matches
<1>8. QED
  <2>1. \A g \in Flows : Matches(h[g], u, g)
    BY <1>2, <1>6, <1>7
  <2>2. Served(h, u)
    BY <1>2, <1>3, <2>1 DEF Served
  <2>3. QED
    BY <2>2 DEF h, u, asked

\* Pull never lowers what was granted, nor the target.
LEMMA PullGrants ==
    ASSUME NEW r \in Receiver, NEW extra \in Nat
    PROVE  \E x \in Nat : x >= r.latest /\ Pull(r, extra) = [r EXCEPT !.latest = x]
<1> DEFINE up == r.latest + CreditPerPull
           x == IF extra > 0 THEN r.latest + extra
                ELSE IF up > r.highest THEN Larger(r.highest, r.latest) ELSE up
<1>1. r.latest \in Nat /\ r.highest \in Nat /\ up \in Nat /\ up > r.latest
  BY ReceiverFields, CreditAssumption
<1>2. x \in Nat /\ x >= r.latest
  <2> HIDE DEF up
  <2>1. QED
    BY <1>1 DEF Larger
<1>3. Pull(r, extra) = [r EXCEPT !.latest = x]
  BY DEF Pull
<1> HIDE DEF x
<1>4. QED
  BY <1>2, <1>3

LEMMA ServeActiveServes ==
    ASSUME Served(sink, pacer), pacer.events > 0, pacer.active # <<>>,
           ServeActive(Head(pacer.active))
    PROVE  /\ Served(sink', pacer')
           /\ \A g \in Flows : sink'[g].latest >= sink[g].latest
           /\ \E r \in Receiver :
                 /\ sink'[Head(pacer.active)].latest = r.latest
                 /\ net' = [net EXCEPT ![Head(pacer.active)] = @ \cup {[type |-> "pull", no |-> r.latest]}]
<1> DEFINE f == Head(pacer.active)
           k == Pull(sink[f], 0)
           rest == Tail(pacer.active)
           more == Backlog(k) > 0
           r == IF more THEN k ELSE [k EXCEPT !.inPull = FALSE, !.inSlow = TRUE]
           act == IF more THEN Append(rest, f) ELSE rest
           idl == IF more THEN pacer.idle ELSE Append(pacer.idle, f)
<1>1. /\ sink \in [Flows -> Receiver] /\ pacer \in Pacer /\ Ticks(pacer)
      /\ \A g \in Flows : Matches(sink[g], pacer, g)
  BY DEF Served
<1>2. f \in Flows /\ rest \in Seq(Flows) /\ At(pacer.active, f) # {}
  BY <1>1, PacerFields, TakenFirst
<1>3. sink[f] \in Receiver /\ sink[f].inPull
  BY <1>1, <1>2 DEF Matches
<1>4. PICK x \in Nat : x >= sink[f].latest /\ k = [sink[f] EXCEPT !.latest = x]
  BY <1>3, PullGrants
<1>5. /\ sink' = [sink EXCEPT ![f] = r]
      /\ pacer' = [pacer EXCEPT !.active = act, !.idle = idl]
      /\ net' = [net EXCEPT ![f] = @ \cup {[type |-> "pull", no |-> k.latest]}]
  BY <1>1, PacerFields DEF ServeActive
<1> HIDE DEF f, k
<1>6. /\ k \in Receiver /\ k.latest = x /\ k.inPull = TRUE
      /\ k.inSlow = sink[f].inSlow /\ k.highest = sink[f].highest
  BY <1>3, <1>4 DEF Receiver
<1>7. /\ r \in Receiver /\ r.latest = x /\ (r.inPull <=> more)
      /\ r.highest = k.highest /\ (more => r.inSlow = sink[f].inSlow)
  <2>1. CASE more
    BY <2>1, <1>6
  <2>2. CASE ~more
    <3> DEFINE t == [k EXCEPT !.inPull = FALSE, !.inSlow = TRUE]
    <3>1. t \in Receiver /\ t.latest = k.latest /\ t.inPull = FALSE /\ t.highest = k.highest
      BY <1>6 DEF Receiver
    <3> HIDE DEF t
    <3>2. r = t
      BY <2>2 DEF t
    <3> HIDE DEF r, more
    <3>3. QED
      BY <2>2, <1>6, <3>1, <3>2
  <2>3. QED
    BY <2>1, <2>2
<1>8. Backlog(r) = Backlog(k)
  BY <1>6, <1>7 DEF Backlog
<1>9. act \in Seq(Flows) /\ idl \in Seq(Flows)
  BY <1>1, <1>2, PacerFields, Appended
<1>10. /\ pacer' \in Pacer /\ Ticks(pacer')
       /\ pacer'.active = act /\ pacer'.idle = idl
  <2> HIDE DEF act, idl
  <2>1. /\ pacer' \in Pacer /\ pacer'.active = act /\ pacer'.idle = idl
        /\ pacer'.running = pacer.running /\ pacer'.events = pacer.events
    BY <1>1, <1>5, <1>9 DEF Pacer
  <2>2. pacer.running
    BY <1>1 DEF Ticks
  <2>3. QED
    BY <1>1, <2>1, <2>2 DEF Ticks
<1>11. At(rest, f) = {}
  BY <1>1, <1>2, PacerFields, TakenFirst DEF f, Matches
<1>12. Matches(r, pacer', f)
  <2>1. (At(act, f) # {} <=> more) /\ Unique(act, f)
    BY <1>2, <1>11, Appended DEF Unique
  <2>2. r.inSlow => At(idl, f) # {}
    <3>1. sink[f].inSlow => At(pacer.idle, f) # {}
      BY <1>1, <1>2 DEF Matches
    <3>2. At(Append(pacer.idle, f), f) # {}
      BY <1>1, <1>2, PacerFields, Appended
    <3> HIDE DEF r, more
    <3>3. CASE more
      BY <3>1, <3>3, <1>7
    <3>4. CASE ~more
      BY <3>2, <3>4
    <3>5. QED
      BY <3>3, <3>4
  <2>3. QED
    <3> HIDE DEF act, idl
    <3>1. QED
      BY <1>7, <1>8, <1>10, <2>1, <2>2 DEF Matches
<1>13. ASSUME NEW g \in Flows, g # f PROVE Matches(sink[g], pacer', g)
  <2>1. (At(act, g) # {} <=> At(pacer.active, g) # {}) /\ (Unique(pacer.active, g) => Unique(act, g))
    <3>1. (At(rest, g) # {} <=> At(pacer.active, g) # {}) /\ (Unique(pacer.active, g) => Unique(rest, g))
      BY <1>1, <1>13, PacerFields, TakenFirst DEF f
    <3>2. (At(Append(rest, f), g) # {} <=> At(rest, g) # {}) /\ (Unique(rest, g) => Unique(Append(rest, f), g))
      BY <1>2, <1>13, Appended
    <3>3. QED
      BY <3>1, <3>2
  <2>2. At(pacer.idle, g) # {} => At(idl, g) # {}
    BY <1>1, <1>2, PacerFields, Appended
  <2>3. QED
    <3> HIDE DEF act, idl
    <3>1. QED
      BY <1>1, <1>10, <2>1, <2>2 DEF Matches
<1>14. QED
  <2> HIDE DEF r, act, idl
  <2>1. /\ sink' \in [Flows -> Receiver] /\ sink'[f] = r
        /\ \A g \in Flows : g # f => sink'[g] = sink[g]
    BY <1>1, <1>2, <1>5, <1>7
  <2>2. \A g \in Flows : Matches(sink'[g], pacer', g)
    BY <2>1, <1>12, <1>13
  <2>3. \A g \in Flows : sink'[g].latest >= sink[g].latest
    <3>1. \A g \in Flows : sink[g].latest \in Nat
      BY <1>1, ReceiverFields
    <3>2. sink'[f].latest >= sink[f].latest
      BY <2>1, <1>4, <1>7
    <3>3. \A n \in Nat : n >= n
      OBVIOUS
    <3>4. QED
      BY <2>1, <3>1, <3>2, <3>3
  <2>4. sink'[f].latest = k.latest
    BY <2>1, <1>6, <1>7
  <2>5. QED
    BY <1>5, <1>6, <1>10, <2>1, <2>2, <2>3, <2>4 DEF Served, f

LEMMA ServeIdleServes ==
    ASSUME Served(sink, pacer), pacer.active = <<>>, pacer.idle # <<>>,
           ServeIdle(Head(pacer.idle))
    PROVE  /\ Served(sink', pacer')
           /\ \A g \in Flows : sink'[g].latest >= sink[g].latest
           /\ \E r \in Receiver :
                 /\ sink'[Head(pacer.idle)].latest = r.latest
                 /\ net' = [net EXCEPT ![Head(pacer.idle)] = @ \cup {[type |-> "pull", no |-> r.latest]}]
<1> DEFINE f == Head(pacer.idle)
           k == Pull(sink[f], CreditPerPull)
           rest == Tail(pacer.idle)
           more == Backlog(k) = 0 /\ SlowCredit(k) < QuantizeFloor(MaxWnd)
           r == [k EXCEPT !.inPull = @ /\ k.inSlow /\ more, !.inSlow = more]
           idl == IF more THEN Append(rest, f) ELSE rest
<1>1. /\ sink \in [Flows -> Receiver] /\ pacer \in Pacer /\ Ticks(pacer)
      /\ \A g \in Flows : Matches(sink[g], pacer, g)
  BY DEF Served
<1>2. f \in Flows /\ rest \in Seq(Flows)
  BY <1>1, PacerFields, TakenFirst
<1>3. \A g : At(pacer.active, g) = {}
  BY DEF At
<1>4. \A g \in Flows : sink[g] \in Receiver /\ sink[g].inPull = FALSE
  BY <1>1, <1>3, ReceiverFields DEF Matches
<1>5. PICK x \in Nat : x >= sink[f].latest /\ k = [sink[f] EXCEPT !.latest = x]
  BY <1>2, <1>4, PullGrants, CreditAssumption
<1>6. /\ sink' = [sink EXCEPT ![f] = r]
      /\ pacer' = [pacer EXCEPT !.idle = idl]
      /\ net' = [net EXCEPT ![f] = @ \cup {[type |-> "pull", no |-> k.latest]}]
  BY <1>1, PacerFields DEF ServeIdle
<1> HIDE DEF f, k
<1>7. /\ k \in Receiver /\ k.latest = x /\ k.inPull = FALSE /\ k.highest = sink[f].highest
  BY <1>2, <1>4, <1>5 DEF Receiver
<1>8. r \in Receiver /\ r.latest = x /\ r.inPull = FALSE
      /\ r.highest = sink[f].highest /\ (r.inSlow <=> more)
  <2>1. more \in BOOLEAN
    OBVIOUS
  <2> HIDE DEF more
  <2>2. r = [k EXCEPT !.inPull = FALSE, !.inSlow = more]
    BY <1>7 DEF Receiver
  <2> HIDE DEF r
  <2>3. QED
    BY <1>7, <2>1, <2>2 DEF Receiver
<1>9. idl \in Seq(Flows)
  BY <1>2, Appended
<1>10. /\ pacer' \in Pacer /\ Ticks(pacer')
       /\ pacer'.active = pacer.active /\ pacer'.idle = idl
  <2> HIDE DEF idl
  <2>1. /\ pacer' \in Pacer /\ pacer'.active = pacer.active /\ pacer'.idle = idl
        /\ pacer'.running = pacer.running /\ pacer'.events = pacer.events
    BY <1>1, <1>6, <1>9 DEF Pacer
  <2>2. pacer.running
    BY <1>1 DEF Ticks
  <2>3. QED
    BY <1>1, <2>1, <2>2 DEF Ticks
<1>11. Matches(r, pacer', f)
  <2>1. Backlog(r) = 0
    <3>1. Backlog(sink[f]) = 0
      <4>1. sink[f] \in Receiver
        BY <1>1, <1>2
      <4>2. Backlog(sink[f]) > 0 => sink[f].inPull
        BY <1>1, <1>2, Zenon DEF Matches
      <4>3. ~(Backlog(sink[f]) > 0)
        BY <1>2, <1>4, <4>2
      <4>4. sink[f].latest \in Nat /\ sink[f].highest \in Nat
        BY <4>1, ReceiverFields
      <4>5. Backlog(sink[f]) \in Nat
        BY <4>4 DEF Backlog
      <4>6. QED
        BY <4>3, <4>5
    <3> HIDE DEF r
    <3>2. QED
      BY <1>2, <1>4, <1>5, <1>8, <3>1, ReceiverFields DEF Backlog
  <2>2. r.inSlow => At(idl, f) # {}
    <3>1. At(Append(rest, f), f) # {}
      BY <1>2, Appended
    <3> HIDE DEF r, more
    <3>2. QED
      BY <3>1, <1>8
  <2> HIDE DEF r, idl
  <2>3. QED
    BY <1>3, <1>8, <1>10, <2>1, <2>2 DEF Matches, Unique
<1>12. ASSUME NEW g \in Flows, g # f PROVE Matches(sink[g], pacer', g)
  <2>1. At(pacer.idle, g) # {} => At(idl, g) # {}
    <3>1. At(rest, g) # {} <=> At(pacer.idle, g) # {}
      BY <1>1, <1>12, PacerFields, TakenFirst DEF f
    <3>2. At(rest, g) # {} => At(Append(rest, f), g) # {}
      BY <1>2, Appended
    <3> HIDE DEF more
    <3>3. QED
      BY <3>1, <3>2
  <2> HIDE DEF idl
  <2>2. QED
    BY <1>1, <1>10, <2>1 DEF Matches
<1>13. QED
  <2> HIDE DEF r, idl
  <2>1. /\ sink' \in [Flows -> Receiver] /\ sink'[f] = r
        /\ \A g \in Flows : g # f => sink'[g] = sink[g]
    BY <1>1, <1>2, <1>6, <1>8
  <2>2. \A g \in Flows : Matches(sink'[g], pacer', g)
    BY <2>1, <1>11, <1>12
  <2>3. \A g \in Flows : sink'[g].latest >= sink[g].latest
    <3>1. \A g \in Flows : sink[g].latest \in Nat
      BY <1>1, ReceiverFields
    <3>2. sink'[f].latest >= sink[f].latest
      BY <2>1, <1>5, <1>8
    <3>3. \A n \in Nat : n >= n
      OBVIOUS
    <3>4. QED
      BY <2>1, <3>1, <3>2, <3>3
  <2>4. sink'[f].latest = k.latest
    BY <2>1, <1>7, <1>8
  <2>5. QED
    BY <1>6, <1>7, <1>10, <2>1, <2>2, <2>3, <2>4 DEF Served, f

-----------------------------------------------------------------------------
(* The inductive invariant.                                                *)

\* Every pull under way was granted, so _pull never runs ahead of the receiver.
PullsGranted(ms, r) == \A m \in ms : m.type = "pull" => m.no <= r.latest

Inv ==
    /\ src \in [Flows -> Sender]
    /\ \A f \in Flows : Fits(src[f]) /\ src[f].out = {}
    /\ Served(sink, pacer)
    /\ net \in [Flows -> SUBSET Packet]
    /\ \A f \in Flows : PullsGranted(net[f], sink[f]) /\ src[f].pull <= sink[f].latest

LEMMA InitInv == Init => Inv
<1> SUFFICES ASSUME Init PROVE Inv
  OBVIOUS
<1>1. src \in [Flows -> Sender]
  BY CreditAssumption DEF Init, Sender
<1>2. ASSUME NEW f \in Flows
      PROVE  Fits(src[f]) /\ src[f].out = {} /\ src[f].pull = 0
  <2>1. /\ src[f].rtx = {} /\ src[f].credit = MaxWnd /\ src[f].spent = 0
        /\ src[f].pull = 0 /\ src[f].speculating = TRUE /\ src[f].out = {}
    BY DEF Init
  <2>2. MaxWnd > -PktSize /\ 0 + MaxWnd <= MaxWnd
    BY CreditAssumption
  <2>3. QED
    BY <1>1, <2>1, <2>2, FS_EmptySet DEF Fits, Granted
<1>3. sink \in [Flows -> Receiver] /\ pacer \in Pacer /\ Ticks(pacer)
  BY DEF Init, Receiver, Pacer, Ticks
<1>4. ASSUME NEW f \in Flows PROVE Matches(sink[f], pacer, f) /\ sink[f].latest = 0
  BY DEF Init, Matches, Unique, At, Backlog
<1>5. net \in [Flows -> SUBSET Packet] /\ \A f \in Flows : net[f] = {}
  BY DEF Init
<1>6. QED
  BY <1>1, <1>2, <1>3, <1>4, <1>5 DEF Inv, Served, PullsGranted

\* A packet of the fabric, and what a flow's sender may make of it.
LEMMA PacketFields ==
    ASSUME NEW m \in Packet
    PROVE  /\ m.type \in {"data", "trimmed", "rts", "ack", "nack", "pull"}
           /\ m.type # "pull" => m.seq \in Nat
           /\ m.type = "pull" => m.no \in Nat
           /\ m.type \in {"data", "trimmed", "rts"} => m.pt \in Int
BY DEF Packet

LEMMA SrcStep ==
    ASSUME Inv, NEW f \in Flows, NEW s, Fits(s), s.pull <= sink[f].latest, NEW gone,
           SrcDone(f, s, gone)
    PROVE  Inv'
<1> DEFINE t == [s EXCEPT !.out = {}]
<1>1. s \in Sender
  BY DEF Fits
<1>2. t \in Sender /\ t.out = {} /\ t.rtx = s.rtx /\ t.credit = s.credit
      /\ t.spent = s.spent /\ t.pull = s.pull /\ t.speculating = s.speculating
  BY <1>1 DEF Sender
<1>3. /\ src' = [src EXCEPT ![f] = t]
      /\ net' = [net EXCEPT ![f] = (@ \ gone) \cup s.out]
      /\ sink' = sink /\ pacer' = pacer
  BY DEF SrcDone
<1> HIDE DEF t
<1>4. Fits(t)
  BY <1>2, BookkeepingKeeps DEF Keeps
<1>5. src' \in [Flows -> Sender] /\ \A g \in Flows : src'[g] = IF g = f THEN t ELSE src[g]
  BY <1>2, <1>3 DEF Inv
<1>6. s.out \in SUBSET Packet /\ \A m \in s.out : m.type # "pull"
  BY <1>1, SenderFields DEF Request, Packet
<1>7. /\ net' \in [Flows -> SUBSET Packet]
      /\ \A g \in Flows : net'[g] = IF g = f THEN (net[f] \ gone) \cup s.out ELSE net[g]
  <2>1. net \in [Flows -> SUBSET Packet]
    BY DEF Inv
  <2>2. (net[f] \ gone) \cup s.out \in SUBSET Packet
    BY <2>1, <1>6
  <2>3. QED
    BY <2>1, <2>2, <1>3
<1>8. \A g \in Flows : PullsGranted(net'[g], sink'[g])
  BY <1>3, <1>6, <1>7 DEF Inv, PullsGranted
<1>9. \A g \in Flows : Fits(src'[g]) /\ src'[g].out = {} /\ src'[g].pull <= sink'[g].latest
  BY <1>2, <1>3, <1>4, <1>5 DEF Inv
<1>10. Served(sink', pacer')
  BY <1>3 DEF Inv
<1>11. QED
  BY <1>5, <1>7, <1>8, <1>9, <1>10 DEF Inv

\* The same for a handler that is given no credit.
LEMMA KeepsStep ==
    ASSUME Inv, NEW f \in Flows, NEW s, Keeps(src[f], s), NEW gone, SrcDone(f, s, gone)
    PROVE  Inv'
BY SrcStep DEF Keeps, Inv

LEMMA SinkStep ==
    ASSUME Inv, NEW f \in Flows, NEW m \in net[f], m.type # "pull",
           NEW k, NEW asked, NEW reply \in {"ack", "nack"},
           SinkDone(f, k, asked, m, reply), k.latest = sink[f].latest,
           Served([sink EXCEPT ![f] = k], IF asked THEN RequestPull(pacer, f) ELSE pacer)
    PROVE  Inv'
<1> DEFINE a == [type |-> reply, seq |-> m.seq]
<1>1. /\ sink' = [sink EXCEPT ![f] = k]
      /\ pacer' = IF asked THEN RequestPull(pacer, f) ELSE pacer
      /\ net' = [net EXCEPT ![f] = (@ \ {m}) \cup {a}]
      /\ src' = src
  BY DEF SinkDone
<1>2. Served(sink', pacer')
  BY <1>1
<1>3. net \in [Flows -> SUBSET Packet] /\ sink \in [Flows -> Receiver]
  BY DEF Inv, Served
<1>4. a \in Packet /\ a.type # "pull"
  <2>1. m.seq \in Nat
    BY <1>3, PacketFields
  <2>2. QED
    BY <2>1 DEF Packet
<1> HIDE DEF a
<1>5. /\ net' \in [Flows -> SUBSET Packet]
      /\ \A g \in Flows : net'[g] = IF g = f THEN (net[f] \ {m}) \cup {a} ELSE net[g]
  <2>1. (net[f] \ {m}) \cup {a} \in SUBSET Packet
    BY <1>3, <1>4
  <2>2. QED
    BY <2>1, <1>1, <1>3
<1>6. \A g \in Flows : sink'[g].latest = sink[g].latest
  BY <1>1, <1>3
<1>7. \A g \in Flows : PullsGranted(net'[g], sink'[g]) /\ src'[g].pull <= sink'[g].latest
  BY <1>1, <1>4, <1>5, <1>6 DEF Inv, PullsGranted
<1>8. QED
  BY <1>1, <1>2, <1>5, <1>7 DEF Inv

\* Demand raises the target of one flow.
LEMMA DemandFields ==
    ASSUME NEW r \in Receiver, NEW pt \in Int, NEW must \in BOOLEAN
    PROVE  /\ Demand(r, pt, must) \in Receiver
           /\ Demand(r, pt, must).latest = r.latest
           /\ Demand(r, pt, must).highest = Larger(r.highest, pt)
           /\ Demand(r, pt, must).inPull = (r.inPull \/ Asked(r, pt, must))
           /\ Demand(r, pt, must).inSlow = r.inSlow
<1> DEFINE h == Larger(r.highest, pt)
           b == r.inPull \/ Asked(r, pt, must)
           t == Demand(r, pt, must)
<1>1. h \in Nat /\ b \in BOOLEAN
  BY ReceiverFields DEF Larger
<1>2. t = [r EXCEPT !.highest = h, !.inPull = b]
  BY DEF Demand
<1>3. t \in Receiver /\ t.latest = r.latest /\ t.highest = h /\ t.inPull = b /\ t.inSlow = r.inSlow
  <2> HIDE DEF h, b, t
  <2>1. QED
    BY <1>1, <1>2 DEF Receiver
<1>4. QED
  BY <1>3

LEMMA ReceiveDataStep ==
    ASSUME Inv, NEW f \in Flows, NEW m \in net[f], ReceiveData(f, m) \/ ReceiveRts(f, m)
    PROVE  Inv'
<1>1. m \in Packet /\ sink[f] \in Receiver
  BY DEF Inv, Served
<1>2. m.type \in {"data", "rts"} /\ m.seq \in Nat /\ m.pt \in Int
  BY <1>1, PacketFields DEF ReceiveData, ReceiveRts
<1>3. PICK must \in BOOLEAN :
        SinkDone(f, [Demand(sink[f], m.pt, must) EXCEPT !.got = @ \cup {m.seq}],
                 Asked(sink[f], m.pt, must), m, "ack")
  BY DEF ReceiveData, ReceiveRts
<1> DEFINE d == Demand(sink[f], m.pt, must)
           r == [d EXCEPT !.got = @ \cup {m.seq}]
<1>4. /\ d \in Receiver /\ d.latest = sink[f].latest /\ d.highest = Larger(sink[f].highest, m.pt)
      /\ d.inPull = (sink[f].inPull \/ Asked(sink[f], m.pt, must)) /\ d.inSlow = sink[f].inSlow
  BY <1>1, <1>2, DemandFields
<1>5. r \in Receiver /\ r.latest = d.latest /\ r.highest = d.highest
      /\ r.inPull = d.inPull /\ r.inSlow = d.inSlow
  <2> HIDE DEF d
  <2>1. d.got \cup {m.seq} \in SUBSET Nat
    BY <1>2, <1>4, ReceiverFields
  <2>2. QED
    BY <1>4, <2>1 DEF Receiver
<1>6. SinkDone(f, r, Asked(sink[f], m.pt, must), m, "ack")
  BY <1>3
<1> HIDE DEF d, r
<1>7. Served([sink EXCEPT ![f] = r],
             IF Asked(sink[f], m.pt, must) THEN RequestPull(pacer, f) ELSE pacer)
  <2>1. Served(sink, pacer)
    BY DEF Inv
  <2>2. QED
    BY <2>1, <1>2, <1>4, <1>5, DemandServes
<1>8. QED
  BY <1>2, <1>4, <1>5, <1>6, <1>7, SinkStep

LEMMA ReceiveTrimmedStep ==
    ASSUME Inv, NEW f \in Flows, NEW m \in net[f], ReceiveTrimmed(f, m)
    PROVE  Inv'
<1>1. m \in Packet /\ sink \in [Flows -> Receiver] /\ Served(sink, pacer)
  BY DEF Inv, Served
<1>2. m.type = "trimmed" /\ m.pt \in Int /\ sink[f] \in Receiver
  BY <1>1, PacketFields DEF ReceiveTrimmed
<1>3. CASE m.seq \in sink[f].got
  <2>1. SinkDone(f, sink[f], FALSE, m, "ack")
    BY <1>3 DEF ReceiveTrimmed
  <2>2. [sink EXCEPT ![f] = sink[f]] = sink
    BY <1>1
  <2>3. QED
    BY <1>1, <1>2, <2>1, <2>2, SinkStep
<1>4. CASE m.seq \notin sink[f].got
  <2> DEFINE d == Demand(sink[f], m.pt, TRUE)
  <2>1. SinkDone(f, d, Asked(sink[f], m.pt, TRUE), m, "nack")
    BY <1>4 DEF ReceiveTrimmed
  <2>2. /\ d \in Receiver /\ d.latest = sink[f].latest /\ d.highest = Larger(sink[f].highest, m.pt)
        /\ d.inPull = (sink[f].inPull \/ Asked(sink[f], m.pt, TRUE)) /\ d.inSlow = sink[f].inSlow
    BY <1>2, DemandFields
  <2> HIDE DEF d
  <2>3. Served([sink EXCEPT ![f] = d],
               IF Asked(sink[f], m.pt, TRUE) THEN RequestPull(pacer, f) ELSE pacer)
    BY <1>1, <1>2, <2>2, DemandServes
  <2>4. QED
    BY <1>2, <2>1, <2>2, <2>3, SinkStep
<1>5. QED
  BY <1>3, <1>4

LEMMA SenderStep ==
    ASSUME Inv, NEW f \in Flows, NEW n \in Shares, NEW free \in BOOLEAN,
           StartConnection(f, n, free) \/ TimeToSend(f, n) \/ TimerExpires(f, n, free)
    PROVE  Inv'
<1>1. Fits(src[f]) /\ src[f] \in Sender
  BY DEF Inv
<1>2. CASE StartConnection(f, n, free)
  <2> DEFINE a == [src[f] EXCEPT !.started = TRUE]
  <2>1. Keeps(src[f], a)
    BY <1>1, NicKeeps
  <2>2. SrcDone(f, SendIfPermitted(a, n, free), {})
    BY <1>2 DEF StartConnection
  <2> HIDE DEF a
  <2>3. Keeps(src[f], SendIfPermitted(a, n, free))
    BY <2>1, SendIfPermittedKeeps, KeepsTransitive DEF Keeps
  <2>4. QED
    BY <2>2, <2>3, KeepsStep
<1>3. CASE TimeToSend(f, n)
  <2> DEFINE a == [src[f] EXCEPT !.blocked = FALSE, !.registered = @ - 1]
             b == SendPacket(a, n)
             t == IF CanSend(a) THEN RequestAgain(b) ELSE a
  <2>1. Keeps(src[f], a)
    BY <1>1, <1>3, NicKeeps DEF TimeToSend
  <2>2. SrcDone(f, t, {})
    BY <1>3 DEF TimeToSend
  <2> HIDE DEF a
  <2>3. CanSend(a) => Keeps(src[f], b)
    BY <2>1, SendPacketKeeps, KeepsTransitive DEF Keeps, CanSend
  <2> HIDE DEF b
  <2>4. CanSend(a) => Keeps(src[f], RequestAgain(b))
    BY <2>3, NicKeeps, KeepsTransitive DEF Keeps
  <2>5. Keeps(src[f], t)
    BY <2>1, <2>4
  <2>6. QED
    BY <2>2, <2>5, KeepsStep
<1>4. CASE TimerExpires(f, n, free)
  <2>1. PICK q \in src[f].outstanding : SrcDone(f, RtxTimerExpired(src[f], q, n, free), {})
    BY <1>4 DEF TimerExpires
  <2>2. q \in Nat
    BY <1>1, SenderFields
  <2>3. QED
    BY <1>1, <2>1, <2>2, RtxTimerExpiredKeeps, KeepsStep
<1>5. QED
  BY <1>2, <1>3, <1>4

LEMMA AnswerStep ==
    ASSUME Inv, NEW f \in Flows, NEW m \in net[f], NEW n \in Shares, NEW free \in BOOLEAN,
           ReceiveAck(f, m, n, free) \/ ReceiveNack(f, m, n, free) \/ ReceivePull(f, m, n, free)
    PROVE  Inv'
<1>1. Fits(src[f]) /\ src[f] \in Sender /\ m \in Packet
  BY DEF Inv
<1>2. CASE ReceiveAck(f, m, n, free)
  <2> DEFINE a == [src[f] EXCEPT !.outstanding = @ \ {m.seq}, !.rtx = @ \ {m.seq}]
             b == StopSpeculating(a)
  <2>1. SrcDone(f, SendIfPermitted(b, n, free), {m})
    BY <1>2 DEF ReceiveAck
  <2>2. Keeps(src[f], a)
    <3> DEFINE o == src[f].outstanding \ {m.seq}
               r == src[f].rtx \ {m.seq}
    <3>1. o \in SUBSET Nat /\ r \in SUBSET Nat /\ IsFiniteSet(r)
      BY <1>1, SenderFields, FS_RemoveElement DEF Fits
    <3>2. a = [src[f] EXCEPT !.outstanding = o, !.rtx = r]
      BY <1>1
    <3> HIDE DEF a, o, r
    <3>3. /\ a \in Sender /\ a.rtx = r /\ a.credit = src[f].credit
          /\ a.spent = src[f].spent /\ a.pull = src[f].pull
          /\ a.speculating = src[f].speculating
      BY <1>1, <3>1, <3>2 DEF Sender
    <3>4. QED
      BY <1>1, <3>1, <3>3 DEF Fits, Keeps, Granted
  <2> HIDE DEF a
  <2>3. Keeps(src[f], b)
    BY <2>2, StopSpeculatingCloses, KeepsTransitive DEF Keeps
  <2> HIDE DEF b
  <2>4. Keeps(src[f], SendIfPermitted(b, n, free))
    BY <2>3, SendIfPermittedKeeps, KeepsTransitive DEF Keeps
  <2>5. QED
    BY <2>1, <2>4, KeepsStep
<1>3. CASE ReceiveNack(f, m, n, free)
  <2> DEFINE a == [src[f] EXCEPT !.outstanding = @ \ {m.seq}]
             b == StopSpeculating(a)
             t == IF m.seq \in src[f].outstanding THEN QueueForRtx(b, m.seq, n, free) ELSE src[f]
  <2>1. SrcDone(f, t, {m})
    BY <1>3 DEF ReceiveNack
  <2>2. Keeps(src[f], a)
    BY <1>1, NicKeeps
  <2>3. Keeps(src[f], src[f])
    BY <1>1 DEF Keeps
  <2> HIDE DEF a
  <2>4. Keeps(src[f], b)
    BY <2>2, StopSpeculatingCloses, KeepsTransitive DEF Keeps
  <2> HIDE DEF b
  <2>5. m.seq \in src[f].outstanding => Keeps(src[f], QueueForRtx(b, m.seq, n, free))
    BY <1>1, <2>4, SenderFields, QueueForRtxKeeps, KeepsTransitive DEF Keeps
  <2>6. Keeps(src[f], t)
    BY <2>3, <2>5
  <2>7. QED
    BY <2>1, <2>6, KeepsStep
<1>4. CASE ReceivePull(f, m, n, free)
  <2> DEFINE a == StopSpeculating(src[f])
             b == HandlePull(a, m.no)
             t == SendIfPermitted(b, n, free)
  <2>1. m.type = "pull" /\ SrcDone(f, t, {m})
    BY <1>4 DEF ReceivePull
  <2>2. m.no \in Nat /\ m.no <= sink[f].latest /\ src[f].pull <= sink[f].latest
    BY <1>1, <2>1, PacketFields DEF Inv, PullsGranted
  <2>3. Fits(a) /\ ~a.speculating /\ a.pull = src[f].pull
    BY <1>1, StopSpeculatingCloses DEF Keeps
  <2> HIDE DEF a
  <2>4. Fits(b) /\ b.pull <= sink[f].latest
    BY <2>2, <2>3, HandlePullFits
  <2> HIDE DEF b
  <2>5. Fits(t) /\ t.pull = b.pull
    BY <2>4, SendIfPermittedKeeps DEF Keeps
  <2> HIDE DEF t
  <2>6. QED
    BY <2>1, <2>4, <2>5, SrcStep
<1>5. QED
  BY <1>2, <1>3, <1>4

LEMMA PacerStep ==
    ASSUME Inv, PacerEvent
    PROVE  Inv'
<1>1. /\ sink \in [Flows -> Receiver] /\ pacer \in Pacer /\ Served(sink, pacer)
      /\ net \in [Flows -> SUBSET Packet] /\ pacer.events > 0
      /\ src' = src
  BY DEF Inv, Served, PacerEvent
\* A pull for flow g with what it was granted goes out.
<1>2. ASSUME NEW g \in Flows, NEW r \in Receiver, sink'[g].latest = r.latest,
             net' = [net EXCEPT ![g] = @ \cup {[type |-> "pull", no |-> r.latest]}],
             Served(sink', pacer'), \A h \in Flows : sink'[h].latest >= sink[h].latest
      PROVE  Inv'
  <2> DEFINE x == [type |-> "pull", no |-> r.latest]
  <2>1. x \in Packet /\ x.no = r.latest /\ r.latest \in Nat
    BY ReceiverFields DEF Packet
  <2> HIDE DEF x
  <2>2. /\ net' \in [Flows -> SUBSET Packet]
        /\ \A h \in Flows : net'[h] = IF h = g THEN net[g] \cup {x} ELSE net[h]
    <3>1. net' = [net EXCEPT ![g] = @ \cup {x}]
      BY <1>2 DEF x
    <3>2. QED
      BY <1>1, <2>1, <3>1
  <2>3. \A h \in Flows : sink[h].latest \in Nat /\ sink'[h].latest \in Nat
    <3>1. sink' \in [Flows -> Receiver]
      BY <1>2 DEF Served
    <3>2. QED
      BY <1>1, <3>1, ReceiverFields
  <2>4. ASSUME NEW h \in Flows PROVE PullsGranted(net'[h], sink'[h])
    <3>1. SUFFICES ASSUME NEW m \in net'[h], m.type = "pull" PROVE m.no <= sink'[h].latest
      BY DEF PullsGranted
    <3>2. CASE m \in net[h]
      <4>1. m.no \in Nat /\ m.no <= sink[h].latest
        BY <1>1, <3>1, <3>2, PacketFields DEF Inv, PullsGranted
      <4>2. QED
        BY <1>2, <2>3, <4>1
    <3>3. CASE m \notin net[h]
      <4>1. h = g /\ m = x
        BY <2>2, <3>1, <3>3
      <4>2. QED
        BY <1>2, <2>1, <4>1
    <3>4. QED
      BY <3>2, <3>3
  <2>5. ASSUME NEW h \in Flows PROVE src'[h].pull <= sink'[h].latest
    <3>1. src[h].pull \in Nat /\ src[h].pull <= sink[h].latest
      BY SenderFields DEF Inv
    <3>2. QED
      BY <1>1, <1>2, <2>3, <3>1
  <2>6. QED
    BY <1>1, <1>2, <2>2, <2>4, <2>5 DEF Inv
<1>3. CASE pacer.active # <<>> /\ ServeActive(Head(pacer.active))
  <2>1. Head(pacer.active) \in Flows
    BY <1>1, <1>3, PacerFields, TakenFirst
  <2>2. QED
    BY <1>1, <1>2, <1>3, <2>1, ServeActiveServes
<1>4. CASE pacer.active = <<>> /\ pacer.idle # <<>> /\ ServeIdle(Head(pacer.idle))
  <2>1. Head(pacer.idle) \in Flows
    BY <1>1, <1>4, PacerFields, TakenFirst
  <2>2. QED
    BY <1>1, <1>2, <1>4, <2>1, ServeIdleServes
<1>5. CASE /\ pacer.active = <<>> /\ pacer.idle = <<>>
           /\ pacer' = [pacer EXCEPT !.running = FALSE, !.events = @ - 1]
           /\ UNCHANGED <<sink, net>>
  <2>1. pacer.running /\ pacer.events = 1
    BY <1>1, PacerFields DEF Served, Ticks
  <2>2. pacer' = [pacer EXCEPT !.running = FALSE, !.events = 0]
    BY <1>1, <1>5, <2>1 DEF Pacer
  <2>3. /\ pacer' \in Pacer /\ pacer'.active = pacer.active /\ pacer'.idle = pacer.idle
        /\ pacer'.running = FALSE /\ pacer'.events = 0
    BY <1>1, <2>2 DEF Pacer
  <2>4. Ticks(pacer')
    BY <1>5, <2>3 DEF Ticks
  <2>5. \A g \in Flows : Matches(sink'[g], pacer', g)
    BY <1>1, <1>5, <2>3 DEF Served, Matches
  <2>6. Served(sink', pacer')
    BY <1>1, <1>5, <2>3, <2>4, <2>5 DEF Served
  <2>7. QED
    BY <1>1, <1>5, <2>6 DEF Inv
<1>6. QED
  BY <1>3, <1>4, <1>5 DEF PacerEvent

LEMMA FaultStep ==
    ASSUME Inv, NEW f \in Flows, NEW m \in net[f],
           Trim(f, m) \/ Lose(f, m) \/ LosePull(f, m)
    PROVE  Inv'
<1>1. net \in [Flows -> SUBSET Packet] /\ m \in Packet
  BY DEF Inv
<1>2. src' = src /\ sink' = sink /\ pacer' = pacer
  BY DEF Trim, Lose, LosePull
<1>3. PICK x \in SUBSET Packet :
        /\ \A y \in x : y.type # "pull"
        /\ net' = [net EXCEPT ![f] = (@ \ {m}) \cup x]
  <2>1. CASE Trim(f, m)
    <3> DEFINE y == [m EXCEPT !.type = "trimmed"]
    <3>1. y \in Packet /\ y.type # "pull"
      BY <1>1, <2>1 DEF Trim, Packet
    <3>2. net' = [net EXCEPT ![f] = (@ \ {m}) \cup {y}]
      BY <2>1 DEF Trim
    <3>3. QED
      BY <3>1, <3>2
  <2>2. CASE Lose(f, m) \/ LosePull(f, m)
    <3>1. net' = [net EXCEPT ![f] = (@ \ {m}) \cup {}]
      BY <2>2 DEF Lose, LosePull
    <3>2. QED
      BY <3>1
  <2>3. QED
    BY <2>1, <2>2
<1>4. /\ net' \in [Flows -> SUBSET Packet]
      /\ \A g \in Flows : net'[g] = IF g = f THEN (net[f] \ {m}) \cup x ELSE net[g]
  BY <1>1, <1>3
<1>5. \A g \in Flows : PullsGranted(net'[g], sink'[g])
  BY <1>2, <1>3, <1>4 DEF Inv, PullsGranted
<1>6. QED
  BY <1>2, <1>4, <1>5 DEF Inv

LEMMA NextInv == Inv /\ [Next]_vars => Inv'
<1> SUFFICES ASSUME Inv, [Next]_vars PROVE Inv'
  OBVIOUS
<1>1. CASE PacerEvent
  BY <1>1, PacerStep
<1>2. ASSUME NEW f \in Flows, Start(f) \/ Turn(f) \/ Expire(f) PROVE Inv'
  BY <1>2, SenderStep DEF Start, Turn, Expire
<1>3. ASSUME NEW f \in Flows, Deliver(f) PROVE Inv'
  BY <1>3, AnswerStep, ReceiveDataStep, ReceiveTrimmedStep DEF Deliver
<1>4. ASSUME NEW f \in Flows, Fault(f) PROVE Inv'
  BY <1>4, FaultStep DEF Fault
<1>5. CASE UNCHANGED vars
  BY <1>5 DEF vars, Inv
<1>6. QED
  BY <1>1, <1>2, <1>3, <1>4, <1>5 DEF Next

-----------------------------------------------------------------------------
(* Theorems.                                                               *)

\* The inductive invariant: what every sender has spent and may still spend
\* is covered, and the pacer's lists hold exactly the flows the flags say.
THEOREM CreditInvariance == Spec => []Inv
<1>1. QED
  BY InitInv, NextInv, PTL DEF Spec

\* requestPull never aborts and the pacer's assertion never fails, whatever
\* the order in which packets and pacer events come.
THEOREM ListsMatchFlagsAlways == Spec => []ListsMatchFlags
<1>1. Inv => ListsMatchFlags
  BY DEF Inv, Served, Matches, ListsMatchFlags, Unique
<1>2. QED
  BY <1>1, CreditInvariance, PTL

\* A flow that wants more is in the active list of a running pacer, which has
\* one event pending: no request for credit is ever left behind.
THEOREM DemandIsServedAlways == Spec => []DemandIsServed
<1>1. Inv => DemandIsServed
  BY DEF Inv, Served, Matches, Ticks, DemandIsServed
<1>2. QED
  BY <1>1, CreditInvariance, PTL

\* After the first answer a sender's bytes are covered by its pulls, up to one
\* packet, through any loss, trimming, reordering or timeout.
THEOREM CreditCoveredAlways == Spec => []CreditCovered
<1>1. ASSUME Inv PROVE CreditCovered
  <2>1. SUFFICES ASSUME NEW f \in Flows
                 PROVE  /\ src[f].spent < PktSize + Granted(src[f])
                        /\ src[f].pull <= sink[f].latest
    BY DEF CreditCovered, Granted
  <2> DEFINE s == src[f]
             g == Granted(s)
  <2>2. s \in Sender /\ s.credit > -PktSize /\ s.spent + s.credit <= g
    BY <1>1 DEF Inv, Fits
  <2>3. g \in Int
    BY <2>2, SenderFields, CreditAssumption DEF Granted
  <2>4. s.spent < PktSize + g
    <3> HIDE DEF g
    <3>1. QED
      BY <2>2, <2>3, SenderFields, CreditAssumption
  <2>5. QED
    BY <1>1, <2>4 DEF Inv
<1>2. QED
  BY <1>1, CreditInvariance, PTL

\* The types of the whole state; between handlers nothing is left to send.
THEOREM CreditTypeOK == Spec => []TypeOK
<1>1. ASSUME Inv PROVE TypeOK
  <2> DEFINE Idle ==
        [started : BOOLEAN, next : Nat, backlog : Nat, outstanding : SUBSET Nat,
         rtx : SUBSET Nat, ctrl : SUBSET Nat, credit : Int, pull : Nat, target : Int,
         speculating : BOOLEAN, blocked : BOOLEAN, registered : Nat, spent : Nat, out : {{}}]
  <2>1. ASSUME NEW f \in Flows PROVE src[f] \in Idle
    <3>1. src[f] \in Sender /\ src[f].out = {}
      BY <1>1 DEF Inv
    <3>2. QED
      BY <3>1 DEF Sender
  <2> HIDE DEF Idle
  <2>2. src \in [Flows -> Idle]
    BY <1>1, <2>1 DEF Inv
  <2>3. sink \in [Flows -> Receiver] /\ pacer \in Pacer /\ net \in [Flows -> SUBSET Packet]
    BY <1>1 DEF Inv, Served
  <2>4. QED
    BY <2>2, <2>3, PacerFields DEF TypeOK, Receiver, Idle
<1>2. QED
  BY <1>1, CreditInvariance, PTL

\* The pacer gives unasked-for credit only when nobody asks.
THEOREM NoCreditBeyondDemandAlways == Spec => NoCreditBeyondDemand
<1> DEFINE Beyond(f) == sink'[f].latest > Larger(sink[f].highest, sink[f].latest)
<1>1. ASSUME Inv, [Next]_vars, NEW f \in Flows, Beyond(f), NEW g \in Flows
      PROVE  ~sink[g].inPull
  <2>1. /\ sink \in [Flows -> Receiver] /\ pacer \in Pacer /\ Served(sink, pacer)
        /\ sink[f] \in Receiver
    BY <1>1 DEF Inv, Served
  <2>2. sink'[f].latest # sink[f].latest
    BY <1>1, <2>1, ReceiverFields DEF Larger
  <2>3. PacerEvent
    <3>1. ASSUME NEW h \in Flows, NEW s, NEW gone, SrcDone(h, s, gone) PROVE FALSE
      BY <2>2, <3>1 DEF SrcDone
    <3>2. ASSUME NEW h \in Flows, NEW m \in net[h],
                 ReceiveData(h, m) \/ ReceiveTrimmed(h, m) \/ ReceiveRts(h, m)
          PROVE  FALSE
      <4>1. m \in Packet /\ sink[h] \in Receiver
        BY <1>1, <2>1 DEF Inv
      <4>2. m.type \in {"data", "trimmed", "rts"} /\ m.pt \in Int
        BY <3>2, <4>1, PacketFields DEF ReceiveData, ReceiveTrimmed, ReceiveRts
      <4>3. PICK k : sink' = [sink EXCEPT ![h] = k] /\ k.latest = sink[h].latest
        <5>1. \A must \in BOOLEAN :
                /\ Demand(sink[h], m.pt, must).latest = sink[h].latest
                /\ [Demand(sink[h], m.pt, must) EXCEPT !.got = @ \cup {m.seq}].latest = sink[h].latest
          <6>1. ASSUME NEW must \in BOOLEAN
                PROVE  /\ Demand(sink[h], m.pt, must) \in Receiver
                       /\ Demand(sink[h], m.pt, must).latest = sink[h].latest
            BY <4>1, <4>2, DemandFields
          <6>2. ASSUME NEW r \in Receiver PROVE [r EXCEPT !.got = @ \cup {m.seq}].latest = r.latest
            BY DEF Receiver
          <6>3. QED
            BY <6>1, <6>2
        <5>2. QED
          BY <3>2, <5>1 DEF ReceiveData, ReceiveTrimmed, ReceiveRts, SinkDone
      <4>4. QED
        BY <2>1, <2>2, <4>3
    <3>3. \A h \in Flows : ~Start(h) /\ ~Turn(h) /\ ~Expire(h)
      BY <3>1 DEF Start, Turn, Expire, StartConnection, TimeToSend, TimerExpires
    <3>4. \A h \in Flows : ~Deliver(h)
      <4>1. ASSUME NEW h \in Flows, NEW m \in net[h], NEW n \in Shares, NEW free \in BOOLEAN
            PROVE  ~ReceiveAck(h, m, n, free) /\ ~ReceiveNack(h, m, n, free)
                   /\ ~ReceivePull(h, m, n, free)
        BY <3>1 DEF ReceiveAck, ReceiveNack, ReceivePull
      <4>2. QED
        BY <3>2, <4>1 DEF Deliver
    <3>5. \A h \in Flows : ~Fault(h)
      BY <2>2 DEF Fault, Trim, Lose, LosePull
    <3>6. ~UNCHANGED vars
      BY <2>2 DEF vars
    <3>7. QED
      BY <1>1, <3>3, <3>4, <3>5, <3>6 DEF Next
  <2>4. pacer.active = <<>>
    <3>1. SUFFICES ASSUME pacer.active # <<>> PROVE FALSE
      OBVIOUS
    <3> DEFINE h == Head(pacer.active)
               k == Pull(sink[h], 0)
    <3>2. ServeActive(h)
      BY <2>3, <3>1 DEF PacerEvent
    <3>3. h \in Flows /\ sink[h] \in Receiver
      BY <2>1, <3>1, PacerFields, TakenFirst
    <3>4. k.latest <= Larger(sink[h].highest, sink[h].latest)
      BY <3>3, ReceiverFields, CreditAssumption DEF Pull, Larger, Receiver
    <3>5. sink' = [sink EXCEPT ![h] = IF Backlog(k) > 0 THEN k
                                       ELSE [k EXCEPT !.inPull = FALSE, !.inSlow = TRUE]]
      BY <3>2 DEF ServeActive
    <3>6. f = h
      BY <2>1, <2>2, <3>5
    <3>7. k \in Receiver
      <4>1. PICK x \in Nat : k = [sink[h] EXCEPT !.latest = x]
        BY <3>3, PullGrants
      <4> HIDE DEF k
      <4>2. QED
        BY <3>3, <4>1 DEF Receiver
    <3> HIDE DEF h, k
    <3>8. sink'[h].latest = k.latest
      BY <2>1, <3>3, <3>5, <3>7 DEF Receiver
    <3>9. k.latest \in Nat /\ Larger(sink[h].highest, sink[h].latest) \in Nat
      BY <3>3, <3>7, ReceiverFields DEF Larger
    <3>10. QED
      BY <1>1, <3>4, <3>6, <3>8, <3>9
  <2>5. QED
    BY <2>1, <2>4 DEF Served, Matches, At
<1>2. Inv /\ [Next]_vars =>
        \A f \in Flows : Beyond(f) => \A g \in Flows : ~sink[g].inPull
  BY <1>1
<1>3. QED
  BY <1>2, CreditInvariance, PTL DEF Spec, NoCreditBeyondDemand

=============================================================================
