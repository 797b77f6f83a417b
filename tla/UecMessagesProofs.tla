-------------------------- MODULE UecMessagesProofs ---------------------------
(***************************************************************************)
(* Theorems about UecMessages, for any messages, any triggers among them,  *)
(* any losses and any window: messages are sent in causal order, a message *)
(* is in one place, and the assertions about one message never fail.       *)
(*                                                                         *)
(* The inductive invariant, Sound, speaks of the tracker alone: what a     *)
(* message has counted agrees with its status and with the packets it      *)
(* still waits for (MsgSound); the lists and the counts tell the same of   *)
(* every message (Placed); and a trigger is known to be waiting exactly    *)
(* until the message it names has come so far (Awaiting).  Nothing of the  *)
(* sender or of the fabric is needed: whatever packet arrives, the tracker *)
(* looks up the message that owns it, and the message keeps the sequence   *)
(* numbers it has not seen received and acked.  The handlers take several  *)
(* sequence numbers in turn; InOrderSteps and StaysIn say that such a walk *)
(* stays where each of its steps does.                                     *)
(***************************************************************************)
EXTENDS UecMessages, ArithmeticTheorems, SequenceTheorems

-----------------------------------------------------------------------------
(* Numbers of packets and messages.                                        *)

SeqNos == 0 .. NSeqs - 1
Members(s) == {s[i] : i \in 1 .. Len(s)}
Once(s) == \A i, j \in 1 .. Len(s) : s[i] = s[j] => i = j

LEMMA MsgsAre ==
    /\ Len(MsgPkts) \in Nat /\ Msgs = 1 .. Len(MsgPkts) /\ IsFiniteSet(Msgs) /\ 0 \notin Msgs
    /\ \A m \in Msgs : MsgPkts[m] \in Nat \ {0}
<1>1. MsgPkts \in Seq(Nat \ {0})
    BY MessagesAssumption
<1>2. Len(MsgPkts) \in Nat /\ Msgs = 1 .. Len(MsgPkts)
    BY <1>1 DEF Msgs
<1>3. IsFiniteSet(Msgs)
    BY <1>2, FS_Interval
<1>4. \A m \in Msgs : MsgPkts[m] \in Nat \ {0}
    BY <1>1, <1>2, ElementOfSeq
<1> QED
    BY <1>2, <1>3, <1>4

LEMMA PktsOfType == ASSUME NEW S \in SUBSET Msgs PROVE PktsOf(S) \in Nat
<1>1. IsFiniteSet(S)
    BY MsgsAre, FS_Subset
<1>2. \A m \in S : MsgPkts[m] \in Nat
    BY MsgsAre
<1> QED
    BY <1>1, <1>2, SumNatural DEF PktsOf

LEMMA NSeqsType == NSeqs \in Nat
BY PktsOfType, MessagesAssumption DEF NSeqs

\* The set of messages is put in order: each of them, and each once.
LEMMA AscendingIs ==
    ASSUME NEW S \in SUBSET Msgs
    PROVE  Ascending(S) \in Seq(Msgs) /\ Members(Ascending(S)) = S /\ Once(Ascending(S))
<1> DEFINE m == Len(MsgPkts)
           X == Seq(Msgs)
           Step(t, n) == IF n + 1 \in S THEN Append(t, n + 1) ELSE t
           F == [t \in X |-> [n \in 0 .. m - 1 |-> Step(t, n)]]
           Is(g) == g = [n \in 0 .. m |->
                            IF n = 0 THEN <<>>
                            ELSE IF n \in S THEN Append(g[n - 1], n) ELSE g[n - 1]]
           up == CHOOSE g : Is(g)
           Holds(t, n) == /\ t \in Seq(Msgs) /\ Once(t)
                          /\ Members(t) = {k \in S : k <= n}
<1>1. m \in Nat /\ Msgs = 1 .. m
    BY MsgsAre
<1>2. Ascending(S) = up[m]
    BY DEF Ascending
<1> HIDE DEF m
<1>3. <<>> \in X
    OBVIOUS
<1>4. ASSUME NEW t \in X, NEW n \in 0 .. m - 1 PROVE Step(t, n) \in X
  <2>1. CASE n + 1 \in S
    <3>1. n + 1 \in Msgs
        BY <2>1
    <3>2. Append(t, n + 1) \in Seq(Msgs)
        BY <3>1
    <3> QED
        BY <2>1, <3>2
  <2>2. CASE n + 1 \notin S
      BY <2>2
  <2> QED
      BY <2>1, <2>2
<1>5. F \in [X -> [0 .. m - 1 -> X]] /\ \A t \in X : \A n \in 0 .. m - 1 : F[t][n] = Step(t, n)
    BY <1>4
<1> HIDE DEF F, X
<1>6. PICK g \in [0 .. m -> X] : g[0] = <<>> /\ \A n \in 0 .. m - 1 : g[n + 1] = F[g[n]][n]
  <2>1. Iterates(X, <<>>, m, F)
      BY <1>1, <1>3, <1>5, StepByStep
  <2> QED
      BY <2>1 DEF Iterates
<1>7. Is(g)
  <2>1. ASSUME NEW n \in 0 .. m
        PROVE  g[n] = IF n = 0 THEN <<>> ELSE IF n \in S THEN Append(g[n - 1], n) ELSE g[n - 1]
    <3>1. CASE n = 0
        BY <1>6, <3>1
    <3>2. CASE n # 0
      <4>1. n - 1 \in 0 .. m - 1 /\ n - 1 \in 0 .. m /\ (n - 1) + 1 = n
          BY <1>1, <3>2
      <4>2. g[n - 1] \in X /\ g[n] = F[g[n - 1]][n - 1]
          BY <1>6, <4>1
      <4>3. F[g[n - 1]][n - 1] = Step(g[n - 1], n - 1)
          BY <1>5, <4>1, <4>2
      <4> QED
          BY <3>2, <4>1, <4>2, <4>3
    <3> QED
        BY <3>1, <3>2
  <2> QED
      BY <2>1
<1>a. \A k \in S : k \in Nat /\ 1 <= k /\ k <= m
    BY <1>1
<1>8. Is(up)
    BY <1>7
<1> HIDE DEF up
<1>9. up[0] = <<>>
    BY <1>1, <1>8
<1>10. \A n \in 0 .. m - 1 : up[n + 1] = Step(up[n], n)
  <2>1. ASSUME NEW n \in 0 .. m - 1 PROVE up[n + 1] = Step(up[n], n)
    <3>1. n + 1 \in 0 .. m /\ n + 1 # 0 /\ (n + 1) - 1 = n
        BY <1>1
    <3> QED
        BY <1>8, <3>1
  <2> QED
      BY <2>1
<1> HIDE DEF Is
<1> DEFINE Good == {n \in Nat : n <= m => Holds(up[n], n)}
<1>11. 0 \in Good
  <2>1. Members(<<>>) = {} /\ Once(<<>>) /\ <<>> \in Seq(Msgs)
      BY DEF Members, Once
  <2>2. {k \in S : k <= 0} = {}
      BY <1>a
  <2> QED
      BY <1>9, <2>1, <2>2
<1>12. ASSUME NEW n \in Nat, n \in Good PROVE n + 1 \in Good
  <2>1. ASSUME n + 1 <= m PROVE Holds(up[n + 1], n + 1)
    <3> DEFINE t == up[n]
    <3>0. n \in 0 .. m - 1 /\ n <= m
        BY <1>1, <2>1
    <3>1. n \in 0 .. m - 1 /\ Holds(t, n)
      <4>1. n <= m => Holds(up[n], n)
          BY <1>12
      <4> QED
          BY <3>0, <4>1
    <3>2. up[n + 1] = Step(t, n)
        BY <1>10, <3>1
    <3> HIDE DEF t
    <3>3. CASE n + 1 \in S
      <4> DEFINE u == Append(t, n + 1)
      <4>1. n + 1 \in Msgs
          BY <3>3
      <4>2. /\ u \in Seq(Msgs) /\ Len(t) \in Nat /\ Len(u) = Len(t) + 1
            /\ u[Len(t) + 1] = n + 1 /\ \A i \in 1 .. Len(t) : u[i] = t[i]
          BY <3>1, <4>1
      <4> HIDE DEF u
      <4>3. \A i \in 1 .. Len(t) : t[i] \in S /\ t[i] <= n
          BY <3>1 DEF Members
      <4>4. n + 1 \notin Members(t)
          BY <3>1
      <4>5. Members(u) = Members(t) \cup {n + 1}
        <5>1. \A i \in 1 .. Len(u) : i \in 1 .. Len(t) \/ i = Len(t) + 1
            BY <4>2
        <5>2. Len(t) + 1 \in 1 .. Len(u) /\ \A i \in 1 .. Len(t) : i \in 1 .. Len(u)
            BY <4>2
        <5> QED
            BY <4>2, <5>1, <5>2 DEF Members
      <4>6. Once(u)
        <5>1. ASSUME NEW i \in 1 .. Len(u), NEW j \in 1 .. Len(u), u[i] = u[j] PROVE i = j
          <6>1. i \in 1 .. Len(t) \/ i = Len(t) + 1
              BY <4>2
          <6>2. j \in 1 .. Len(t) \/ j = Len(t) + 1
              BY <4>2
          <6>3. CASE i \in 1 .. Len(t) /\ j \in 1 .. Len(t)
              BY <3>1, <4>2, <5>1, <6>3 DEF Once
          <6>4. CASE i \in 1 .. Len(t) /\ j = Len(t) + 1
              BY <4>2, <4>4, <5>1, <6>4 DEF Members
          <6>5. CASE i = Len(t) + 1 /\ j \in 1 .. Len(t)
              BY <4>2, <4>4, <5>1, <6>5 DEF Members
          <6> QED
              BY <6>1, <6>2, <6>3, <6>4, <6>5
        <5> QED
            BY <5>1 DEF Once
      <4>7. {k \in S : k <= n + 1} = {k \in S : k <= n} \cup {n + 1}
        <5>1. \A k \in S : k <= n + 1 <=> k <= n \/ k = n + 1
            BY <1>a
        <5> QED
            BY <3>3, <5>1
      <4> QED
          BY <3>1, <3>2, <3>3, <4>2, <4>5, <4>6, <4>7 DEF u
    <3>4. CASE n + 1 \notin S
      <4>1. {k \in S : k <= n + 1} = {k \in S : k <= n}
        <5>1. \A k \in S : k <= n + 1 <=> k <= n \/ k = n + 1
            BY <1>a
        <5> QED
            BY <3>4, <5>1
      <4> QED
          BY <3>1, <3>2, <3>4, <4>1
    <3> QED
        BY <3>3, <3>4
  <2> HIDE DEF Holds
  <2> QED
      BY <2>1
<1> HIDE DEF Good
<1>13. m \in Good
    BY <1>1, <1>11, <1>12, NaturalsByInduction
<1>14. Holds(up[m], m)
    BY <1>1, <1>13 DEF Good
<1>15. {k \in S : k <= m} = S
    BY <1>a
<1> QED
    BY <1>2, <1>14, <1>15

-----------------------------------------------------------------------------
(* The types of the messages and of the tracker.                           *)

MsgRec == [status : Statuses, unsent : Nat, notrecvd : SUBSET SeqNos, notacked : SUBSET SeqNos,
           recvd : Nat, acked : Nat]

Owners == UNION {[D -> Msgs] : D \in SUBSET SeqNos}

\* v is the value maxSeq has when an RTS has set it.
PdcType(v) ==
    [known : SUBSET Msgs, scheduled : SUBSET Msgs, triggered : SUBSET Msgs,
     eligible : Seq(Msgs), cur : Msgs \cup {0}, inFlight : SUBSET Msgs, complete : Seq(Msgs),
     owner : Owners, maxSeq : SeqNos \cup {-1, v}, fired : Seq(Msgs), msg : [Msgs -> MsgRec],
     eligiblePkts : Nat, sent : Nat, recvd : Nat, acked : Nat,
     fault : (Assertions \cup {"none"}) \ {"message", "trigger"}]

\* How far a message is follows from its counts.
StatusOf(m, r) ==
    IF r.acked = MsgPkts[m] THEN "finished"
    ELSE IF r.recvd = MsgPkts[m] THEN "recvdLast"
    ELSE IF r.unsent = 0 THEN "sentLast"
    ELSE IF r.unsent < MsgPkts[m] THEN "sentFirst" ELSE "init"

MsgSound(m, r) ==
    /\ r \in MsgRec
    /\ r.recvd + Cardinality(r.notrecvd) + r.unsent <= MsgPkts[m]
    /\ r.acked + Cardinality(r.notacked) <= r.recvd
    /\ r.status = StatusOf(m, r)

LEMMA CountsAre ==
    ASSUME NEW m \in Msgs, NEW r, MsgSound(m, r)
    PROVE  /\ MsgPkts[m] \in Nat \ {0} /\ r \in MsgRec
           /\ IsFiniteSet(r.notrecvd) /\ Cardinality(r.notrecvd) \in Nat
           /\ IsFiniteSet(r.notacked) /\ Cardinality(r.notacked) \in Nat
           /\ r.unsent \in Nat /\ r.recvd \in Nat /\ r.acked \in Nat
           /\ r.unsent <= MsgPkts[m] /\ r.recvd <= MsgPkts[m] /\ r.acked <= r.recvd
           /\ r.unsent = MsgPkts[m] => r.recvd = 0
           /\ r.recvd = MsgPkts[m] => r.unsent = 0
           /\ r.notrecvd # {} => r.recvd < MsgPkts[m] /\ r.unsent < MsgPkts[m]
           /\ r.notacked # {} => r.acked < MsgPkts[m] /\ r.unsent < MsgPkts[m]
<1>1. MsgPkts[m] \in Nat \ {0}
    BY MsgsAre
<1>2. /\ r \in MsgRec /\ r.unsent \in Nat /\ r.recvd \in Nat /\ r.acked \in Nat
      /\ r.notrecvd \subseteq SeqNos /\ r.notacked \subseteq SeqNos
      /\ r.recvd + Cardinality(r.notrecvd) + r.unsent <= MsgPkts[m]
      /\ r.acked + Cardinality(r.notacked) <= r.recvd
    BY DEF MsgSound, MsgRec
<1>3. IsFiniteSet(SeqNos)
    BY NSeqsType, FS_Interval DEF SeqNos
<1>4. /\ IsFiniteSet(r.notrecvd) /\ Cardinality(r.notrecvd) \in Nat
      /\ IsFiniteSet(r.notacked) /\ Cardinality(r.notacked) \in Nat
      /\ r.notrecvd # {} => Cardinality(r.notrecvd) # 0
      /\ r.notacked # {} => Cardinality(r.notacked) # 0
    BY <1>2, <1>3, FS_Subset, FS_CardinalityType, FS_EmptySet
<1> DEFINE x == Cardinality(r.notrecvd)
           y == Cardinality(r.notacked)
<1>5. /\ x \in Nat /\ y \in Nat /\ r.recvd + x + r.unsent <= MsgPkts[m] /\ r.acked + y <= r.recvd
      /\ r.notrecvd # {} => x # 0
      /\ r.notacked # {} => y # 0
    BY <1>2, <1>4
<1> HIDE DEF x, y
<1> QED
    BY <1>1, <1>2, <1>4, <1>5

\* The target t of a trigger has been reached when the message has record r.
ReachedBy(t, r) ==
    LET m == After[t].msg
    IN  \/ After[t].status = "sentLast" /\ r.unsent = 0
        \/ After[t].status = "recvdLast" /\ r.recvd = MsgPkts[m]
        \/ After[t].status = "finished" /\ r.acked = MsgPkts[m]

Reached(p, t) == ReachedBy(t, p.msg[After[t].msg])

Newly(m, r0, r) == {t \in DOMAIN After : After[t].msg = m /\ ReachedBy(t, r) /\ ~ReachedBy(t, r0)}

\* Where the messages are: those that wait, that have sent nothing, that have
\* sent everything, that are finished.
Waiting(p) == p.scheduled \cup p.triggered
Fresh(p) == {m \in Msgs : p.msg[m].unsent = MsgPkts[m]}
Gone(p) == {m \in Msgs : p.msg[m].unsent = 0}
Finished(p) == {m \in Msgs : p.msg[m].acked = MsgPkts[m]}

Placed(p) ==
    /\ Msgs \ Fresh(p) \subseteq p.known
    /\ p.known \cap Fresh(p) = Waiting(p) \cup Members(p.eligible)
    /\ p.scheduled \cap p.triggered = {} /\ Waiting(p) \cap Members(p.eligible) = {}
    /\ p.inFlight = Msgs \ (Fresh(p) \cup Finished(p))
    /\ Members(p.complete) = Finished(p)
    /\ Once(p.eligible) /\ Once(p.complete)
    /\ p.cur \notin Fresh(p) \cup Gone(p)

Awaiting(p) ==
    /\ p.scheduled \cap DOMAIN After = {} /\ p.triggered \subseteq DOMAIN After
    /\ Once(p.fired)
    /\ \A t \in Members(p.fired) : t \in p.triggered /\ Reached(p, t)
    /\ \A t \in DOMAIN After \cap p.known : t \notin p.triggered => Reached(p, t)
    /\ \A m \in p.known : \A n \in Msgs : Batch[n] = Batch[m] => n \in p.known

Sound(p) ==
    /\ \A m \in Msgs : MsgSound(m, p.msg[m])
    /\ Placed(p)
    /\ Awaiting(p)

LEMMA AfterIs ==
    ASSUME NEW t \in DOMAIN After
    PROVE  /\ t \in Msgs /\ After[t].msg \in Msgs /\ After[t].status \in Statuses
           /\ After[t].msg # t /\ Batch[After[t].msg] = Batch[t]
           /\ \A m, st : After[t] = [msg |-> m, status |-> st] <=>
                            After[t].msg = m /\ After[t].status = st
<1>1. /\ DOMAIN After \subseteq Msgs /\ After \in [DOMAIN After -> [msg : Msgs, status : Statuses]]
      /\ \A m \in DOMAIN After : After[m].msg # m /\ Batch[m] = Batch[After[m].msg]
    BY MessagesAssumption
<1>2. After[t] \in [msg : Msgs, status : Statuses]
    BY <1>1
<1>3. \A a \in [msg : Msgs, status : Statuses] : \A m, st :
          a = [msg |-> m, status |-> st] <=> a.msg = m /\ a.status = st
    OBVIOUS
<1> QED
    BY <1>1, <1>2, <1>3

LEMMA Appending ==
    ASSUME NEW s \in Seq(Msgs), NEW u \in Seq(Msgs)
    PROVE  /\ s \o u \in Seq(Msgs) /\ Members(s \o u) = Members(s) \cup Members(u)
           /\ Once(s) /\ Once(u) /\ Members(s) \cap Members(u) = {} => Once(s \o u)
<1> DEFINE w == s \o u
           a == Len(s)
           b == Len(u)
<1>1. /\ w \in Seq(Msgs) /\ a \in Nat /\ b \in Nat /\ Len(w) = a + b
      /\ \A i \in 1 .. a : w[i] = s[i]
      /\ \A i \in a + 1 .. a + b : w[i] = u[i - a]
    OBVIOUS
<1>2. \A i \in 1 .. b : a + i \in a + 1 .. a + b /\ w[a + i] = u[i]
    BY <1>1
<1> HIDE DEF w, a, b
<1>3. \A i \in 1 .. Len(w) : i \in 1 .. a \/ (i - a \in 1 .. b /\ i \in a + 1 .. a + b)
    BY <1>1
<1>4. \A i \in 1 .. a : i \in 1 .. Len(w)
    BY <1>1
<1>5. \A i \in 1 .. b : a + i \in 1 .. Len(w)
    BY <1>1
<1>6. Members(w) = Members(s) \cup Members(u)
  <2>1. ASSUME NEW i \in 1 .. Len(w) PROVE w[i] \in Members(s) \cup Members(u)
      BY <1>1, <1>3 DEF Members, a, b
  <2>2. ASSUME NEW i \in 1 .. a PROVE s[i] \in Members(w)
      BY <1>1, <1>4 DEF Members
  <2>3. ASSUME NEW i \in 1 .. b PROVE u[i] \in Members(w)
      BY <1>2, <1>5 DEF Members
  <2> QED
      BY <2>1, <2>2, <2>3 DEF Members, a, b
<1>7. ASSUME Once(s), Once(u), Members(s) \cap Members(u) = {} PROVE Once(w)
  <2>1. ASSUME NEW i \in 1 .. Len(w), NEW j \in 1 .. Len(w), w[i] = w[j] PROVE i = j
    <3>1. CASE i \in 1 .. a /\ j \in 1 .. a
        BY <1>1, <1>7, <2>1, <3>1 DEF Once, a
    <3>2. CASE i \in 1 .. a /\ j - a \in 1 .. b /\ j \in a + 1 .. a + b
        BY <1>1, <1>7, <2>1, <3>2 DEF Members, a, b
    <3>3. CASE j \in 1 .. a /\ i - a \in 1 .. b /\ i \in a + 1 .. a + b
        BY <1>1, <1>7, <2>1, <3>3 DEF Members, a, b
    <3>4. CASE /\ i - a \in 1 .. b /\ i \in a + 1 .. a + b
               /\ j - a \in 1 .. b /\ j \in a + 1 .. a + b
      <4>1. u[i - a] = u[j - a]
          BY <1>1, <2>1, <3>4
      <4>2. i - a = j - a
          BY <1>7, <3>4, <4>1 DEF Once, b
      <4> QED
          BY <1>1, <3>4, <4>2
    <3> QED
        BY <1>3, <3>1, <3>2, <3>3, <3>4
  <2> QED
      BY <2>1 DEF Once
<1> QED
    BY <1>1, <1>6, <1>7 DEF w

-----------------------------------------------------------------------------
(* One message goes on.                                                    *)

LEMMA NoneAscends == Ascending({}) = <<>>
<1>1. Ascending({}) \in Seq(Msgs) /\ Members(Ascending({})) = {}
    BY AscendingIs
<1>2. Len(Ascending({})) \in Nat /\ ~(1 \in 1 .. Len(Ascending({})))
    BY <1>1 DEF Members
<1>3. Len(Ascending({})) = 0
    BY <1>2
<1> QED
    BY <1>1, <1>3

\* Message m has got the record r, and what waited for that has been fired.
Advanced(p, s, m, r) ==
    /\ s.known = p.known /\ s.scheduled = p.scheduled /\ s.triggered = p.triggered
    /\ s.eligible = p.eligible /\ s.cur = p.cur /\ s.owner = p.owner /\ s.maxSeq = p.maxSeq
    /\ s.msg = [p.msg EXCEPT ![m] = r]
    /\ s.fired = p.fired \o Ascending(Newly(m, p.msg[m], r))

SameLists(p, s) == s.inFlight = p.inFlight /\ s.complete = p.complete

LEMMA TargetsAre ==
    ASSUME NEW m, NEW st
    PROVE  /\ {t \in DOMAIN After : After[t] = [msg |-> m, status |-> st]} \in SUBSET Msgs
           /\ \A t \in DOMAIN After :
                 t \in {u \in DOMAIN After : After[u] = [msg |-> m, status |-> st]} <=>
                     After[t].msg = m /\ After[t].status = st
BY AfterIs

\* With r instead of r0 message m has just reached the status st.
Turns(m, r0, r, st) ==
    \A t \in DOMAIN After : After[t].msg = m =>
        ((ReachedBy(t, r) /\ ~ReachedBy(t, r0)) <=> After[t].status = st)

WithStatus(r, r1, st) == r = [r1 EXCEPT !.status = st]

MsgSet(p, m, r0, r) ==
    [p EXCEPT !.msg = [p.msg EXCEPT ![m] = r], !.fired = p.fired \o Ascending(Newly(m, r0, r))]

StatusSet(v, p, m, r0, r, st) ==
    SetStatus(p, m, st) \in PdcType(v) /\ SetStatus(p, m, st) = MsgSet(p, m, r0, r)

\* set_status
LEMMA SetStatusIs ==
    ASSUME NEW v, NEW p \in PdcType(v), NEW m \in Msgs, NEW r0 \in MsgRec,
           NEW st \in {"sentLast", "recvdLast", "finished"},
           NEW r, WithStatus(r, p.msg[m], st), Turns(m, r0, r, st)
    PROVE  StatusSet(v, p, m, r0, r, st)
<1> DEFINE F == {t \in DOMAIN After : After[t] = [msg |-> m, status |-> st]}
<1>1. \A t \in DOMAIN After : t \in F <=> After[t].msg = m /\ After[t].status = st
    BY TargetsAre
<1>2. F \in SUBSET Msgs
    BY TargetsAre
<1>w. r = [p.msg[m] EXCEPT !.status = st]
    BY DEF WithStatus
<1>3. r \in MsgRec
  <2>1. p.msg[m] \in MsgRec
      BY DEF PdcType
  <2> QED
      BY <1>w, <2>1 DEF MsgRec, Statuses
<1>4. SetStatus(p, m, st) = [p EXCEPT !.msg = [p.msg EXCEPT ![m] = r], !.fired = p.fired \o Ascending(F)]
    BY <1>w DEF SetStatus, PdcType
<1> HIDE DEF F
<1>5. Newly(m, r0, r) = F
  <2>1. \A t \in DOMAIN After : After[t].msg = m =>
                  ((ReachedBy(t, r) /\ ~ReachedBy(t, r0)) <=> After[t].status = st)
      BY DEF Turns
  <2>2. \A t \in F : t \in DOMAIN After
      BY DEF F
  <2> QED
      BY <1>1, <2>1, <2>2 DEF Newly
<1>6. Ascending(F) \in Seq(Msgs)
    BY <1>2, AscendingIs
<1>7. p.fired \o Ascending(F) \in Seq(Msgs)
  <2>1. p.fired \in Seq(Msgs)
      BY DEF PdcType
  <2> QED
      BY <1>6, <2>1, Appending
<1>8. [p.msg EXCEPT ![m] = r] \in [Msgs -> MsgRec]
  <2>1. p.msg \in [Msgs -> MsgRec]
      BY DEF PdcType
  <2> QED
      BY <1>3, <2>1
<1> DEFINE a == p.fired \o Ascending(F)
           b == [p.msg EXCEPT ![m] = r]
<1> HIDE DEF a, b
<1>9. [p EXCEPT !.msg = b, !.fired = a] \in PdcType(v)
    BY <1>7, <1>8 DEF PdcType, a, b
<1> QED
    BY <1>3, <1>4, <1>5, <1>9 DEF a, b, MsgSet, StatusSet

Sending(r, q) ==
    [r EXCEPT !.unsent = @ - 1, !.notrecvd = @ \cup {q},
              !.status = IF r.unsent = 1 THEN "sentLast" ELSE "sentFirst"]

LEMMA OneMore ==
    ASSUME NEW S, IsFiniteSet(S), NEW q
    PROVE  Cardinality(S \cup {q}) \in Nat /\ Cardinality(S \cup {q}) <= Cardinality(S) + 1
<1>1. Cardinality(S) \in Nat
    BY FS_CardinalityType
<1>2. CASE q \in S
  <2> DEFINE U == S \cup {q}
  <2>1. U = S
      BY <1>2
  <2> HIDE DEF U
  <2>2. Cardinality(U) \in Nat /\ Cardinality(U) <= Cardinality(S) + 1
      BY <1>1, <2>1
  <2> QED
      BY <2>2 DEF U
<1>3. CASE q \notin S
  <2>1. Cardinality(S \cup {q}) = Cardinality(S) + 1
      BY <1>3, FS_AddElement
  <2> QED
      BY <1>1, <2>1
<1> QED
    BY <1>2, <1>3

\* getNextSegment
LEMMA SegmentIs ==
    ASSUME NEW v, NEW p \in PdcType(v), NEW m \in Msgs, NEW q \in SeqNos,
           MsgSound(m, p.msg[m]), p.msg[m].unsent # 0
    PROVE  LET s == Segment(p, m, q)
               r == Sending(p.msg[m], q)
           IN  /\ s \in PdcType(v) /\ MsgSound(m, r) /\ r.unsent # MsgPkts[m]
               /\ r.unsent = p.msg[m].unsent - 1 /\ r.recvd = p.msg[m].recvd
               /\ r.acked = p.msg[m].acked /\ p.msg[m].acked # MsgPkts[m]
               /\ Advanced(p, s, m, r) /\ SameLists(p, s)
<1> DEFINE r0 == p.msg[m]
           r == Sending(r0, q)
           N == MsgPkts[m]
           r1 == [r0 EXCEPT !.unsent = @ - 1, !.notrecvd = @ \cup {q},
                            !.status = IF @ = "init" THEN "sentFirst" ELSE @]
           a == [p EXCEPT !.msg[m].unsent = @ - 1,
                          !.msg[m].notrecvd = @ \cup {q},
                          !.msg[m].status = IF @ = "init" THEN "sentFirst" ELSE @]
<1>1. /\ N \in Nat \ {0} /\ r0 \in MsgRec /\ IsFiniteSet(r0.notrecvd)
      /\ Cardinality(r0.notrecvd) \in Nat
      /\ r0.unsent \in Nat /\ r0.recvd \in Nat /\ r0.acked \in Nat /\ r0.unsent <= N
      /\ r0.recvd <= N /\ r0.acked <= r0.recvd
      /\ r0.recvd = N => r0.unsent = 0
    BY CountsAre
<1>2. r0.unsent # 0 /\ r0.recvd # N /\ r0.acked # N
    BY <1>1
<1>3. r0.status \in {"init", "sentFirst"}
  <2>1. r0.status = StatusOf(m, r0)
      BY DEF MsgSound
  <2> QED
      BY <1>2, <2>1 DEF StatusOf
<1>4. a = [p EXCEPT !.msg = [p.msg EXCEPT ![m] = r1]]
    BY DEF PdcType, MsgRec
<1>f. p.msg \in [Msgs -> MsgRec] /\ p.fired \in Seq(Msgs)
    BY DEF PdcType
<1>g. MsgSound(m, r0)
    OBVIOUS
<1> HIDE DEF r0, N
<1>e. r0.unsent - 1 \in Nat /\ r0.notrecvd \cup {q} \in SUBSET SeqNos
  <2>1. r0.notrecvd \in SUBSET SeqNos
      BY <1>1 DEF MsgRec
  <2> QED
      BY <1>1, <1>2, <2>1
<1>5. /\ r1 \in MsgRec /\ r1.status = "sentFirst" /\ r1.unsent = r0.unsent - 1
      /\ r1.notrecvd = r0.notrecvd \cup {q} /\ r1.recvd = r0.recvd /\ r1.acked = r0.acked
    BY <1>1, <1>e, <1>3 DEF MsgRec, Statuses
<1>6. /\ r.unsent = r0.unsent - 1 /\ r.notrecvd = r0.notrecvd \cup {q} /\ r.recvd = r0.recvd
      /\ r.acked = r0.acked /\ r.notacked = r0.notacked /\ r \in MsgRec
      /\ r.status = IF r0.unsent = 1 THEN "sentLast" ELSE "sentFirst"
      /\ r = [r1 EXCEPT !.status = IF r0.unsent = 1 THEN "sentLast" ELSE "sentFirst"]
    BY <1>1, <1>e DEF MsgRec, Statuses, Sending
<1>7. MsgSound(m, r) /\ r.unsent # N
  <2>1. /\ Cardinality(r.notrecvd) \in Nat
        /\ Cardinality(r.notrecvd) <= Cardinality(r0.notrecvd) + 1
    <3>1. LET S == r0.notrecvd
          IN  Cardinality(S \cup {q}) \in Nat /\ Cardinality(S \cup {q}) <= Cardinality(S) + 1
        BY <1>1, OneMore
    <3>2. r.notrecvd = r0.notrecvd \cup {q}
        BY <1>6
    <3> QED
        BY <3>1, <3>2
  <2>2. /\ r0.recvd + Cardinality(r0.notrecvd) + r0.unsent <= N
        /\ r0.acked + Cardinality(r0.notacked) <= r0.recvd
      BY <1>g DEF MsgSound, N
  <2>3. r.recvd + Cardinality(r.notrecvd) + r.unsent <= N
    <3> DEFINE x == Cardinality(r.notrecvd)
               y == Cardinality(r0.notrecvd)
    <3>1. x \in Nat /\ y \in Nat /\ x <= y + 1 /\ r0.recvd + y + r0.unsent <= N
        BY <1>1, <2>1, <2>2
    <3> HIDE DEF x, y
    <3>2. r0.recvd + x + (r0.unsent - 1) <= N
        BY <1>1, <3>1
    <3> QED
        BY <1>6, <3>2 DEF x
  <2>4. r.acked + Cardinality(r.notacked) <= r.recvd
      BY <1>6, <2>2
  <2>5. r.unsent # N /\ (r.unsent = 0 <=> r0.unsent = 1) /\ r.unsent < N
      BY <1>1, <1>2, <1>6
  <2>6. r.status = StatusOf(m, r)
      BY <1>2, <1>6, <2>5 DEF StatusOf, N
  <2> QED
      BY <1>6, <2>3, <2>4, <2>5, <2>6 DEF MsgSound, N
<1>8. p.msg \in [Msgs -> MsgRec] /\ p.fired \in Seq(Msgs)
    BY <1>f
<1> HIDE DEF r, r1, a
<1>9. a \in PdcType(v) /\ a.msg = [p.msg EXCEPT ![m] = r1] /\ a.fired = p.fired
  <2>1. [p.msg EXCEPT ![m] = r1] \in [Msgs -> MsgRec]
      BY <1>5, <1>8
  <2> DEFINE b == [p.msg EXCEPT ![m] = r1]
  <2> HIDE DEF b
  <2> QED
      BY <1>4, <2>1 DEF PdcType, b
<1>10. a.msg[m] = r1 /\ [a.msg EXCEPT ![m] = r] = [p.msg EXCEPT ![m] = r]
    BY <1>8, <1>9
<1>11. Segment(p, m, q) = IF a.msg[m].unsent = 0 THEN SetStatus(a, m, "sentLast") ELSE a
    BY DEF Segment, a
<1>12. CASE r0.unsent = 1
  <2>1. Segment(p, m, q) = SetStatus(a, m, "sentLast")
      BY <1>5, <1>10, <1>11, <1>12
  <2>2. [a.msg[m] EXCEPT !.status = "sentLast"] = r
      BY <1>6, <1>10, <1>12
  <2>3. Turns(m, r0, r, "sentLast")
      BY <1>2, <1>6, <1>12 DEF ReachedBy, N, Turns
  <2>6. WithStatus(r, a.msg[m], "sentLast")
      BY <2>2 DEF WithStatus
  <2>7. StatusSet(v, a, m, r0, r, "sentLast")
      BY <1>1, <1>9, <2>3, <2>6, SetStatusIs
  <2>4. SetStatus(a, m, "sentLast") \in PdcType(v) /\ SetStatus(a, m, "sentLast") = MsgSet(a, m, r0, r)
      BY <2>7 DEF StatusSet
  <2>5. SetStatus(a, m, "sentLast") =
           [a EXCEPT !.msg = [p.msg EXCEPT ![m] = r],
                     !.fired = p.fired \o Ascending(Newly(m, r0, r))]
      BY <1>9, <1>10, <2>4 DEF MsgSet
  <2>9. LET s == [a EXCEPT !.msg = [p.msg EXCEPT ![m] = r],
                           !.fired = p.fired \o Ascending(Newly(m, r0, r))]
        IN  Advanced(p, s, m, r) /\ SameLists(p, s)
      BY <1>4 DEF Advanced, SameLists, PdcType, r0
  <2> QED
      BY <1>2, <1>6, <1>7, <2>1, <2>4, <2>5, <2>9 DEF r0, r, N
<1>13. CASE r0.unsent # 1
  <2>1. Segment(p, m, q) = a
    <3>1. r1.unsent # 0
        BY <1>1, <1>5, <1>13
    <3> QED
        BY <1>10, <1>11, <3>1
  <2>2. r1 = r
    <3>1. r1.status = "sentFirst" /\ r = [r1 EXCEPT !.status = "sentFirst"]
        BY <1>5, <1>6, <1>13
    <3> QED
        BY <1>5, <3>1 DEF MsgRec
  <2>3. Newly(m, r0, r) = {}
    <3>1. \A t \in DOMAIN After : After[t].msg = m => ~(ReachedBy(t, r) /\ ~ReachedBy(t, r0))
      <4>1. r.unsent # 0
          BY <1>1, <1>6, <1>13
      <4> QED
          BY <1>2, <1>6, <4>1 DEF ReachedBy, N
    <3> QED
        BY <3>1 DEF Newly
  <2>4. a.fired = p.fired \o Ascending(Newly(m, r0, r))
      BY <1>8, <1>9, <2>3, NoneAscends
  <2>5. Advanced(p, a, m, r) /\ SameLists(p, a)
      BY <1>4, <1>9, <2>2, <2>4 DEF Advanced, SameLists, PdcType, r0
  <2> QED
      BY <1>2, <1>6, <1>7, <1>9, <2>1, <2>5 DEF r0, r, N
<1> QED
    BY <1>12, <1>13

\* One message goes on: no other does, and what it triggers has waited for it.
LEMMA AdvanceKeeps ==
    ASSUME NEW v, NEW p \in PdcType(v), \A k \in Msgs : MsgSound(k, p.msg[k]), Awaiting(p),
           NEW m \in p.known, NEW r, MsgSound(m, r), r.unsent <= p.msg[m].unsent,
           p.msg[m].recvd <= r.recvd, p.msg[m].acked <= r.acked,
           NEW s, Advanced(p, s, m, r)
    PROVE  /\ Awaiting(s) /\ s.msg[m] = r /\ \A k \in Msgs \ {m} : s.msg[k] = p.msg[k]
           /\ \A k \in Msgs : MsgSound(k, s.msg[k])
<1> DEFINE r0 == p.msg[m]
           F == Newly(m, r0, r)
<1>1. /\ p.msg \in [Msgs -> MsgRec] /\ p.known \subseteq Msgs /\ p.fired \in Seq(Msgs)
      /\ p.triggered \subseteq Msgs
    BY DEF PdcType
<1>2. /\ s.known = p.known /\ s.scheduled = p.scheduled /\ s.triggered = p.triggered
      /\ s.msg = [p.msg EXCEPT ![m] = r] /\ s.fired = p.fired \o Ascending(F)
    BY DEF Advanced
<1>3. s.msg[m] = r /\ \A k \in Msgs \ {m} : s.msg[k] = p.msg[k]
    BY <1>1, <1>2
<1>4. \A k \in Msgs : MsgSound(k, s.msg[k])
    BY <1>3
<1>5. /\ MsgPkts[m] \in Nat \ {0} /\ r0.unsent \in Nat /\ r0.recvd \in Nat /\ r0.acked \in Nat
      /\ r.unsent \in Nat /\ r.recvd \in Nat /\ r.acked \in Nat
      /\ r.recvd <= MsgPkts[m] /\ r.acked <= r.recvd
  <2>1. m \in Msgs /\ MsgSound(m, r0) /\ MsgSound(m, r)
      BY <1>1
  <2> HIDE DEF r0
  <2>2. MsgPkts[m] \in Nat \ {0} /\ r0.unsent \in Nat /\ r0.recvd \in Nat /\ r0.acked \in Nat
      BY <2>1, CountsAre
  <2>3. /\ r.unsent \in Nat /\ r.recvd \in Nat /\ r.acked \in Nat
        /\ r.recvd <= MsgPkts[m] /\ r.acked <= r.recvd
      BY <2>1, CountsAre
  <2> QED
      BY <2>2, <2>3
<1>6. r.unsent <= r0.unsent /\ r0.recvd <= r.recvd /\ r0.acked <= r.acked
    OBVIOUS
<1>7. \A t \in DOMAIN After : After[t].msg \in Msgs /\ t \in Msgs /\ Batch[After[t].msg] = Batch[t]
    BY AfterIs
<1>8. \A t \in DOMAIN After : Reached(p, t) => Reached(s, t)
  <2>1. ASSUME NEW t \in DOMAIN After, Reached(p, t) PROVE Reached(s, t)
    <3>1. CASE After[t].msg = m
      <4>1. ReachedBy(t, r0) /\ s.msg[After[t].msg] = r
          BY <1>3, <2>1, <3>1 DEF Reached
      <4> HIDE DEF r0
      <4>2. ReachedBy(t, r)
          BY <1>5, <1>6, <3>1, <4>1 DEF ReachedBy
      <4> QED
          BY <4>1, <4>2 DEF Reached
    <3>2. CASE After[t].msg # m
        BY <1>3, <1>7, <2>1, <3>2 DEF Reached
    <3> QED
        BY <3>1, <3>2
  <2> QED
      BY <2>1
<1>9. /\ p.scheduled \cap DOMAIN After = {} /\ p.triggered \subseteq DOMAIN After
      /\ Once(p.fired)
      /\ \A t \in Members(p.fired) : t \in p.triggered /\ Reached(p, t)
      /\ \A t \in DOMAIN After \cap p.known : t \notin p.triggered => Reached(p, t)
      /\ \A k \in p.known : \A n \in Msgs : Batch[n] = Batch[k] => n \in p.known
    BY DEF Awaiting
<1>10. \A t \in F : /\ t \in DOMAIN After /\ After[t].msg = m /\ ~Reached(p, t) /\ Reached(s, t)
  <2>1. \A t \in F : t \in DOMAIN After /\ After[t].msg = m /\ ReachedBy(t, r) /\ ~ReachedBy(t, r0)
      BY DEF Newly
  <2> HIDE DEF F
  <2> QED
      BY <1>3, <2>1 DEF Reached
<1> HIDE DEF F, r0
<1>11. \A t \in F : t \in p.triggered /\ t \notin Members(p.fired) /\ t \in Msgs
  <2>1. ASSUME NEW t \in F PROVE t \in p.known
    <3>1. t \in Msgs /\ Batch[t] = Batch[m]
        BY <1>7, <1>10
    <3> QED
        BY <1>9, <3>1
  <2> QED
      BY <1>7, <1>9, <1>10, <2>1
<1>12. Ascending(F) \in Seq(Msgs) /\ Members(Ascending(F)) = F /\ Once(Ascending(F))
    BY <1>11, AscendingIs
<1>13. Members(s.fired) = Members(p.fired) \cup F
    BY <1>1, <1>2, <1>12, Appending
<1>14. Once(s.fired)
  <2>1. Members(p.fired) \cap Members(Ascending(F)) = {}
      BY <1>11, <1>12
  <2> QED
      BY <1>1, <1>2, <1>9, <1>12, <2>1, Appending
<1>15. \A t \in Members(s.fired) : t \in p.triggered /\ Reached(s, t)
  <2>1. \A t \in Members(p.fired) : t \in p.triggered /\ Reached(s, t)
      BY <1>8, <1>9
  <2> QED
      BY <1>10, <1>11, <1>13, <2>1
<1>16. \A t \in DOMAIN After \cap p.known : t \notin p.triggered => Reached(s, t)
    BY <1>8, <1>9
<1>17. Awaiting(s)
    BY <1>2, <1>9, <1>14, <1>15, <1>16 DEF Awaiting
<1> QED
    BY <1>3, <1>4, <1>17

Arriving(m, r, q) ==
    [r EXCEPT !.notrecvd = @ \ {q}, !.notacked = @ \cup {q}, !.recvd = @ + 1,
              !.status = IF r.recvd + 1 = MsgPkts[m] THEN "recvdLast" ELSE @]

LEMMA OneLess ==
    ASSUME NEW S, IsFiniteSet(S), NEW q \in S
    PROVE  /\ Cardinality(S) \in Nat \ {0} /\ Cardinality(S \ {q}) = Cardinality(S) - 1
           /\ Cardinality(S) = 1 => S \ {q} = {}
<1>1. Cardinality(S) \in Nat
    BY FS_CardinalityType
<1>2. Cardinality(S) # 0
    BY FS_EmptySet
<1>3. IsFiniteSet(S \ {q}) /\ Cardinality(S \ {q}) = Cardinality(S) - 1
    BY FS_RemoveElement
<1>4. ASSUME Cardinality(S) = 1 PROVE S \ {q} = {}
  <2>1. Cardinality(S \ {q}) = 0
      BY <1>3, <1>4
  <2> QED
      BY <1>3, <2>1, FS_EmptySet
<1> QED
    BY <1>1, <1>2, <1>3, <1>4

\* addRecvd
LEMMA ReceivedIs ==
    ASSUME NEW v, NEW p \in PdcType(v), NEW m \in Msgs, MsgSound(m, p.msg[m]),
           NEW q \in p.msg[m].notrecvd
    PROVE  LET s == Received(p, m, q)
               r == Arriving(m, p.msg[m], q)
           IN  /\ s \in PdcType(v) /\ MsgSound(m, r)
               /\ r.unsent = p.msg[m].unsent /\ r.recvd = p.msg[m].recvd + 1
               /\ r.acked = p.msg[m].acked /\ r.unsent # MsgPkts[m] /\ r.acked # MsgPkts[m]
               /\ Advanced(p, s, m, r) /\ SameLists(p, s)
<1> DEFINE r0 == p.msg[m]
           r == Arriving(m, r0, q)
           N == MsgPkts[m]
           r1 == [r0 EXCEPT !.notrecvd = @ \ {q}, !.notacked = @ \cup {q}, !.recvd = @ + 1]
           a == [p EXCEPT !.msg[m].notrecvd = @ \ {q},
                          !.msg[m].notacked = @ \cup {q},
                          !.msg[m].recvd = @ + 1,
                          !.recvd = @ + 1]
           wrong == a.msg[m].status # "sentLast" \/ a.msg[m].notrecvd # {}
<1>1. /\ N \in Nat \ {0} /\ r0 \in MsgRec /\ IsFiniteSet(r0.notrecvd) /\ IsFiniteSet(r0.notacked)
      /\ Cardinality(r0.notrecvd) \in Nat /\ Cardinality(r0.notacked) \in Nat
      /\ r0.unsent \in Nat /\ r0.recvd \in Nat /\ r0.acked \in Nat
      /\ r0.recvd < N /\ r0.acked <= r0.recvd /\ r0.unsent < N
    BY CountsAre
<1>2. p.msg \in [Msgs -> MsgRec] /\ p.fired \in Seq(Msgs) /\ p.recvd \in Nat
    BY DEF PdcType
<1>3. a = [p EXCEPT !.msg = [p.msg EXCEPT ![m] = r1], !.recvd = @ + 1]
    BY DEF PdcType, MsgRec
<1>4. MsgSound(m, r0) /\ q \in r0.notrecvd
    OBVIOUS
<1> HIDE DEF r0, N
<1>5. /\ r0.notrecvd \ {q} \in SUBSET SeqNos /\ r0.notacked \cup {q} \in SUBSET SeqNos
      /\ r0.recvd + 1 \in Nat
  <2>1. r0.notrecvd \in SUBSET SeqNos /\ r0.notacked \in SUBSET SeqNos
      BY <1>1 DEF MsgRec
  <2> QED
      BY <1>1, <1>4, <2>1
<1>6. /\ r1 \in MsgRec /\ r1.status = r0.status /\ r1.unsent = r0.unsent
      /\ r1.notrecvd = r0.notrecvd \ {q} /\ r1.notacked = r0.notacked \cup {q}
      /\ r1.recvd = r0.recvd + 1 /\ r1.acked = r0.acked
    BY <1>1, <1>5 DEF MsgRec
<1>7. /\ r.status = (IF r0.recvd + 1 = N THEN "recvdLast" ELSE r0.status)
      /\ r.unsent = r0.unsent /\ r.notrecvd = r0.notrecvd \ {q} /\ r.notacked = r0.notacked \cup {q}
      /\ r.recvd = r0.recvd + 1 /\ r.acked = r0.acked /\ r \in MsgRec
      /\ r = [r1 EXCEPT !.status = IF r0.recvd + 1 = N THEN "recvdLast" ELSE r0.status]
    BY <1>1, <1>5 DEF MsgRec, Arriving, N, Statuses
<1>8. /\ r0.recvd + Cardinality(r0.notrecvd) + r0.unsent <= N
      /\ r0.acked + Cardinality(r0.notacked) <= r0.recvd
      /\ r0.status = StatusOf(m, r0)
    BY <1>4 DEF MsgSound, N
<1>9. /\ Cardinality(r0.notrecvd) # 0
      /\ Cardinality(r0.notrecvd \ {q}) = Cardinality(r0.notrecvd) - 1
      /\ Cardinality(r0.notrecvd) = 1 => r0.notrecvd \ {q} = {}
    BY <1>1, <1>4, OneLess
<1>10. LET S == r0.notacked
       IN  Cardinality(S \cup {q}) \in Nat /\ Cardinality(S \cup {q}) <= Cardinality(S) + 1
    BY <1>1, OneMore
<1>11. /\ r.recvd + Cardinality(r.notrecvd) + r.unsent <= N
       /\ r.acked + Cardinality(r.notacked) <= r.recvd
       /\ r0.recvd + 1 = N => r0.unsent = 0 /\ Cardinality(r0.notrecvd) = 1
  <2> DEFINE x == Cardinality(r0.notrecvd)
             y == Cardinality(r0.notacked)
             z == Cardinality(r0.notacked \cup {q})
  <2>1. /\ x \in Nat /\ y \in Nat /\ z \in Nat /\ z <= y + 1 /\ x # 0
        /\ r0.recvd + x + r0.unsent <= N /\ r0.acked + y <= r0.recvd
        /\ Cardinality(r0.notrecvd \ {q}) = x - 1
      BY <1>1, <1>8, <1>9, <1>10
  <2> HIDE DEF x, y, z
  <2>2. /\ (r0.recvd + 1) + (x - 1) + r0.unsent <= N
        /\ r0.acked + z <= r0.recvd + 1
        /\ r0.recvd + 1 = N => r0.unsent = 0 /\ x = 1
      BY <1>1, <2>1
  <2> QED
      BY <1>7, <2>1, <2>2 DEF x, z
<1>12. r.status = StatusOf(m, r)
  <2>1. r0.acked # N /\ r0.recvd # N
      BY <1>1
  <2> QED
      BY <1>7, <1>8, <2>1 DEF StatusOf, N
<1>13. MsgSound(m, r) /\ r.unsent # N /\ r.acked # N
  <2>1. r.unsent # N /\ r.acked # N
      BY <1>1, <1>7
  <2> QED
      BY <1>7, <1>11, <1>12, <2>1 DEF MsgSound, N
<1> HIDE DEF r, r1, a, wrong
<1>14. a \in PdcType(v) /\ a.msg = [p.msg EXCEPT ![m] = r1] /\ a.fired = p.fired
  <2>1. [p.msg EXCEPT ![m] = r1] \in [Msgs -> MsgRec] /\ p.recvd + 1 \in Nat
      BY <1>2, <1>6
  <2> DEFINE b == [p.msg EXCEPT ![m] = r1]
             c == p.recvd + 1
  <2>2. a = [p EXCEPT !.msg = b, !.recvd = c]
      BY <1>3
  <2> HIDE DEF b, c
  <2>3. a \in PdcType(v) /\ a.msg = b /\ a.fired = p.fired
      BY <2>1, <2>2 DEF PdcType, b, c
  <2> QED
      BY <2>3 DEF b
<1>15. a.msg[m] = r1 /\ [a.msg EXCEPT ![m] = r] = [p.msg EXCEPT ![m] = r]
    BY <1>2, <1>14
<1>16. Received(p, m, q) = IF a.msg[m].recvd < N THEN a
                           ELSE SetStatus(Fails(a, wrong, "message"), m, "recvdLast")
    BY DEF Received, a, wrong, N
<1>17. LET s == [a EXCEPT !.msg = [p.msg EXCEPT ![m] = r],
                          !.fired = p.fired \o Ascending(Newly(m, r0, r))]
       IN  Advanced(p, s, m, r) /\ SameLists(p, s)
    BY <1>3 DEF Advanced, SameLists, PdcType, r0
<1>18. CASE r0.recvd + 1 = N
  <2>1. ~wrong
    <3>1. r0.status = "sentLast"
      <4>1. r0.acked # N /\ r0.recvd # N /\ r0.unsent = 0
          BY <1>1, <1>11, <1>18
      <4> QED
          BY <1>8, <4>1 DEF StatusOf, N
    <3>2. r0.notrecvd \ {q} = {}
        BY <1>9, <1>11, <1>18
    <3> QED
        BY <1>6, <1>15, <3>1, <3>2 DEF wrong
  <2>2. Fails(a, wrong, "message") = a
      BY <1>14, <2>1 DEF Fails, PdcType
  <2>3. Received(p, m, q) = SetStatus(a, m, "recvdLast")
    <3>1. ~(a.msg[m].recvd < N)
        BY <1>1, <1>6, <1>15, <1>18
    <3> QED
        BY <1>16, <2>2, <3>1
  <2>4. Turns(m, r0, r, "recvdLast")
    <3>1. r0.recvd # N /\ r.recvd = N /\ r0.unsent = 0 /\ r.unsent = 0 /\ r.acked # N
        BY <1>1, <1>7, <1>11, <1>13, <1>18
    <3> QED
        BY <1>7, <3>1 DEF ReachedBy, N, Turns
  <2>5. WithStatus(r, a.msg[m], "recvdLast")
      BY <1>7, <1>15, <1>18 DEF WithStatus
  <2>6. StatusSet(v, a, m, r0, r, "recvdLast")
      BY <1>1, <1>14, <2>4, <2>5, SetStatusIs
  <2>7. SetStatus(a, m, "recvdLast") \in PdcType(v) /\ SetStatus(a, m, "recvdLast") = MsgSet(a, m, r0, r)
      BY <2>6 DEF StatusSet
  <2>8. Received(p, m, q) = [a EXCEPT !.msg = [p.msg EXCEPT ![m] = r],
                                      !.fired = p.fired \o Ascending(Newly(m, r0, r))]
      BY <1>14, <1>15, <2>3, <2>7 DEF MsgSet
  <2> QED
      BY <1>7, <1>13, <1>17, <2>3, <2>7, <2>8 DEF r0, r, N
<1>19. CASE r0.recvd + 1 # N
  <2>1. Received(p, m, q) = a
    <3>1. a.msg[m].recvd < N
        BY <1>1, <1>6, <1>15, <1>19
    <3> QED
        BY <1>16, <3>1
  <2>2. r1 = r
    <3>1. r1.status = r0.status /\ r = [r1 EXCEPT !.status = r0.status]
        BY <1>6, <1>7, <1>19
    <3> QED
        BY <1>6, <3>1 DEF MsgRec
  <2>3. Newly(m, r0, r) = {}
    <3>1. \A t \in DOMAIN After : After[t].msg = m => ~(ReachedBy(t, r) /\ ~ReachedBy(t, r0))
        BY <1>7, <1>13, <1>19 DEF ReachedBy, N
    <3> QED
        BY <3>1 DEF Newly
  <2>4. a.fired = p.fired \o Ascending(Newly(m, r0, r))
      BY <1>2, <1>14, <2>3, NoneAscends
  <2>5. Advanced(p, a, m, r) /\ SameLists(p, a)
      BY <1>3, <1>14, <2>2, <2>4 DEF Advanced, SameLists, PdcType, r0
  <2> QED
      BY <1>7, <1>13, <1>14, <2>1, <2>5 DEF r0, r, N
<1> QED
    BY <1>18, <1>19

Acking(m, r, q) ==
    [r EXCEPT !.notacked = @ \ {q}, !.acked = @ + 1,
              !.status = IF r.acked + 1 = MsgPkts[m] THEN "finished" ELSE @]

\* addAck, and the end of the message
LEMMA AcknowledgedIs ==
    ASSUME NEW v, NEW p \in PdcType(v), NEW m \in Msgs, MsgSound(m, p.msg[m]),
           NEW q \in p.msg[m].notacked
    PROVE  LET s == Acknowledged(p, m, q)
               r == Acking(m, p.msg[m], q)
           IN  /\ s \in PdcType(v) /\ MsgSound(m, r)
               /\ r.unsent = p.msg[m].unsent /\ r.recvd = p.msg[m].recvd
               /\ r.acked = p.msg[m].acked + 1 /\ r.unsent # MsgPkts[m] /\ p.msg[m].acked # MsgPkts[m]
               /\ Advanced(p, s, m, r)
               /\ IF r.acked = MsgPkts[m]
                  THEN s.inFlight = p.inFlight \ {m} /\ s.complete = Append(p.complete, m)
                  ELSE SameLists(p, s)
<1> DEFINE r0 == p.msg[m]
           r == Acking(m, r0, q)
           N == MsgPkts[m]
           r1 == [r0 EXCEPT !.notacked = @ \ {q}, !.acked = @ + 1]
           a == [p EXCEPT !.msg[m].notacked = @ \ {q},
                          !.msg[m].acked = @ + 1,
                          !.acked = @ + 1]
           wrong == a.msg[m].status # "recvdLast" \/ a.msg[m].unsent > 0 \/ a.msg[m].notacked # {}
<1>1. /\ N \in Nat \ {0} /\ r0 \in MsgRec /\ IsFiniteSet(r0.notacked)
      /\ Cardinality(r0.notrecvd) \in Nat /\ Cardinality(r0.notacked) \in Nat
      /\ r0.unsent \in Nat /\ r0.recvd \in Nat /\ r0.acked \in Nat
      /\ r0.recvd <= N /\ r0.acked < N /\ r0.unsent < N
      /\ r0.recvd = N => r0.unsent = 0
    BY CountsAre
<1>2. /\ p.msg \in [Msgs -> MsgRec] /\ p.fired \in Seq(Msgs) /\ p.acked \in Nat
      /\ p.inFlight \in SUBSET Msgs /\ p.complete \in Seq(Msgs)
    BY DEF PdcType
<1>3. a = [p EXCEPT !.msg = [p.msg EXCEPT ![m] = r1], !.acked = @ + 1]
    BY DEF PdcType, MsgRec
<1>4. MsgSound(m, r0) /\ q \in r0.notacked
    OBVIOUS
<1> HIDE DEF r0, N
<1>5. r0.notacked \ {q} \in SUBSET SeqNos /\ r0.acked + 1 \in Nat
  <2>1. r0.notacked \in SUBSET SeqNos
      BY <1>1 DEF MsgRec
  <2> QED
      BY <1>1, <2>1
<1>6. /\ r1 \in MsgRec /\ r1.status = r0.status /\ r1.unsent = r0.unsent
      /\ r1.notrecvd = r0.notrecvd /\ r1.notacked = r0.notacked \ {q}
      /\ r1.recvd = r0.recvd /\ r1.acked = r0.acked + 1
    BY <1>1, <1>5 DEF MsgRec
<1>7. /\ r.status = (IF r0.acked + 1 = N THEN "finished" ELSE r0.status)
      /\ r.unsent = r0.unsent /\ r.notrecvd = r0.notrecvd /\ r.notacked = r0.notacked \ {q}
      /\ r.recvd = r0.recvd /\ r.acked = r0.acked + 1 /\ r \in MsgRec
      /\ r = [r1 EXCEPT !.status = IF r0.acked + 1 = N THEN "finished" ELSE r0.status]
    BY <1>1, <1>5 DEF MsgRec, Acking, N, Statuses
<1>8. /\ r0.recvd + Cardinality(r0.notrecvd) + r0.unsent <= N
      /\ r0.acked + Cardinality(r0.notacked) <= r0.recvd
      /\ r0.status = StatusOf(m, r0)
    BY <1>4 DEF MsgSound, N
<1>9. /\ Cardinality(r0.notacked) # 0
      /\ Cardinality(r0.notacked \ {q}) = Cardinality(r0.notacked) - 1
      /\ Cardinality(r0.notacked) = 1 => r0.notacked \ {q} = {}
    BY <1>1, <1>4, OneLess
<1>11. /\ r.recvd + Cardinality(r.notrecvd) + r.unsent <= N
       /\ r.acked + Cardinality(r.notacked) <= r.recvd
       /\ r0.acked + 1 = N => r0.recvd = N /\ r0.unsent = 0 /\ Cardinality(r0.notacked) = 1
  <2> DEFINE y == Cardinality(r0.notacked)
  <2>1. /\ y \in Nat /\ y # 0 /\ r0.acked + y <= r0.recvd
        /\ Cardinality(r0.notacked \ {q}) = y - 1
      BY <1>1, <1>8, <1>9
  <2> HIDE DEF y
  <2>2. /\ (r0.acked + 1) + (y - 1) <= r0.recvd
        /\ r0.acked + 1 = N => r0.recvd = N /\ r0.unsent = 0 /\ y = 1
      BY <1>1, <2>1
  <2> QED
      BY <1>7, <1>8, <2>1, <2>2 DEF y
<1>12. r.status = StatusOf(m, r)
  <2>1. r0.acked # N
      BY <1>1
  <2> QED
      BY <1>7, <1>8, <2>1 DEF StatusOf, N
<1>13. MsgSound(m, r) /\ r.unsent # N
  <2>1. r.unsent # N
      BY <1>1, <1>7
  <2> QED
      BY <1>7, <1>11, <1>12, <2>1 DEF MsgSound, N
<1> HIDE DEF r, r1, a, wrong
<1>14. a \in PdcType(v) /\ a.msg = [p.msg EXCEPT ![m] = r1] /\ a.fired = p.fired
  <2>1. [p.msg EXCEPT ![m] = r1] \in [Msgs -> MsgRec] /\ p.acked + 1 \in Nat
      BY <1>2, <1>6
  <2> DEFINE b == [p.msg EXCEPT ![m] = r1]
             c == p.acked + 1
  <2>2. a = [p EXCEPT !.msg = b, !.acked = c]
      BY <1>3
  <2> HIDE DEF b, c
  <2>3. a \in PdcType(v) /\ a.msg = b /\ a.fired = p.fired
      BY <2>1, <2>2 DEF PdcType, b, c
  <2> QED
      BY <2>3 DEF b
<1>15. a.msg[m] = r1 /\ [a.msg EXCEPT ![m] = r] = [p.msg EXCEPT ![m] = r]
    BY <1>2, <1>14
<1>16. Acknowledged(p, m, q) =
           IF a.msg[m].acked < N THEN a
           ELSE [SetStatus(Fails(a, wrong, "message"), m, "finished") EXCEPT
                    !.inFlight = @ \ {m}, !.complete = Append(@, m)]
    BY DEF Acknowledged, a, wrong, N
<1> DEFINE e == [a EXCEPT !.msg = [p.msg EXCEPT ![m] = r],
                          !.fired = p.fired \o Ascending(Newly(m, r0, r))]
<1>17. Advanced(p, e, m, r) /\ SameLists(p, e)
    BY <1>3 DEF Advanced, SameLists, PdcType, r0
<1>18. CASE r0.acked + 1 = N
  <2>1. ~wrong
    <3>1. r0.status = "recvdLast"
      <4>1. r0.acked # N /\ r0.recvd = N
          BY <1>1, <1>11, <1>18
      <4> QED
          BY <1>8, <4>1 DEF StatusOf, N
    <3>2. r0.notacked \ {q} = {} /\ ~(r0.unsent > 0)
      <4>1. r0.unsent = 0 /\ Cardinality(r0.notacked) = 1
          BY <1>11, <1>18
      <4> QED
          BY <1>9, <4>1
    <3> QED
        BY <1>6, <1>15, <3>1, <3>2 DEF wrong
  <2>2. Fails(a, wrong, "message") = a
      BY <1>14, <2>1 DEF Fails, PdcType
  <2> DEFINE t == SetStatus(a, m, "finished")
             u == [t EXCEPT !.inFlight = @ \ {m}, !.complete = Append(@, m)]
  <2>3. Acknowledged(p, m, q) = u
    <3>1. ~(a.msg[m].acked < N)
        BY <1>1, <1>6, <1>15, <1>18
    <3> QED
        BY <1>16, <2>2, <3>1
  <2>4. Turns(m, r0, r, "finished")
    <3>1. r0.acked # N /\ r.acked = N /\ r0.unsent = 0 /\ r.unsent = 0 /\ r0.recvd = N /\ r.recvd = N
        BY <1>1, <1>7, <1>11, <1>18
    <3> QED
        BY <1>7, <3>1 DEF ReachedBy, N, Turns
  <2>5. WithStatus(r, a.msg[m], "finished")
      BY <1>7, <1>15, <1>18 DEF WithStatus
  <2>6. StatusSet(v, a, m, r0, r, "finished")
      BY <1>1, <1>14, <2>4, <2>5, SetStatusIs
  <2>7. t \in PdcType(v) /\ t = MsgSet(a, m, r0, r)
      BY <2>6 DEF StatusSet
  <2> HIDE DEF t
  <2>8. t = e
      BY <1>14, <1>15, <2>7 DEF MsgSet
  <2> HIDE DEF e
  <2>9. t \in PdcType(v) /\ Advanced(p, t, m, r) /\ t.inFlight = p.inFlight /\ t.complete = p.complete
      BY <1>17, <2>7, <2>8 DEF SameLists
  <2>10. t.inFlight \ {m} \in SUBSET Msgs /\ Append(t.complete, m) \in Seq(Msgs)
      BY <1>2, <2>9
  <2>11. u \in PdcType(v) /\ u.inFlight = p.inFlight \ {m} /\ u.complete = Append(p.complete, m)
      BY <2>9, <2>10 DEF PdcType
  <2>12. Advanced(p, u, m, r)
      BY <2>9 DEF Advanced, PdcType
  <2>13. r.acked = N
      BY <1>7, <1>18
  <2> HIDE DEF u
  <2> QED
      BY <1>1, <1>7, <1>13, <2>3, <2>11, <2>12, <2>13 DEF r0, r, N
<1>19. CASE r0.acked + 1 # N
  <2>1. Acknowledged(p, m, q) = a
    <3>1. a.msg[m].acked < N
        BY <1>1, <1>6, <1>15, <1>19
    <3> QED
        BY <1>16, <3>1
  <2>2. r1 = r
    <3>1. r1.status = r0.status /\ r = [r1 EXCEPT !.status = r0.status]
        BY <1>6, <1>7, <1>19
    <3> QED
        BY <1>6, <3>1 DEF MsgRec
  <2>3. Newly(m, r0, r) = {}
    <3>1. \A t \in DOMAIN After : After[t].msg = m => ~(ReachedBy(t, r) /\ ~ReachedBy(t, r0))
        BY <1>7, <1>13, <1>19 DEF ReachedBy, N
    <3> QED
        BY <3>1 DEF Newly
  <2>4. a.fired = p.fired \o Ascending(Newly(m, r0, r))
      BY <1>2, <1>14, <2>3, NoneAscends
  <2>5. Advanced(p, a, m, r) /\ SameLists(p, a)
      BY <1>3, <1>14, <2>2, <2>4 DEF Advanced, SameLists, PdcType, r0
  <2>6. r.acked # N /\ r0.acked # N
      BY <1>1, <1>7, <1>19
  <2> QED
      BY <1>7, <1>13, <1>14, <2>1, <2>5, <2>6 DEF r0, r, N
<1> QED
    BY <1>18, <1>19

-----------------------------------------------------------------------------
(* The operations of the tracker keep it sound.                            *)

LEMMA OwnerIs ==
    ASSUME NEW v, NEW p \in PdcType(v)
    PROVE  DOMAIN p.owner \in SUBSET SeqNos /\ \A q \in DOMAIN p.owner : p.owner[q] \in Msgs
BY DEF PdcType, Owners

LEMMA FreshFacts ==
    ASSUME NEW p, \A m \in Msgs : MsgSound(m, p.msg[m])
    PROVE  Fresh(p) \cap Finished(p) = {} /\ Fresh(p) \cap Gone(p) = {}
<1>1. ASSUME NEW m \in Msgs
      PROVE  ~(p.msg[m].unsent = MsgPkts[m] /\ (p.msg[m].acked = MsgPkts[m] \/ p.msg[m].unsent = 0))
  <2> DEFINE r == p.msg[m]
  <2>1. MsgSound(m, r)
      OBVIOUS
  <2> HIDE DEF r
  <2>2. /\ MsgPkts[m] \in Nat \ {0} /\ r.unsent \in Nat /\ r.recvd \in Nat /\ r.acked \in Nat
        /\ r.acked <= r.recvd
        /\ r.unsent = MsgPkts[m] => r.recvd = 0
      BY <2>1, CountsAre
  <2>3. ~(r.unsent = MsgPkts[m] /\ (r.acked = MsgPkts[m] \/ r.unsent = 0))
      BY <2>2
  <2> QED
      BY <2>3 DEF r
<1> QED
    BY <1>1 DEF Fresh, Finished, Gone

\* One message goes on; nothing else of the sets changes.
LEMMA SetsAfter ==
    ASSUME NEW p, NEW s, NEW m \in Msgs, \A k \in Msgs \ {m} : s.msg[k] = p.msg[k]
    PROVE  /\ \A k \in Msgs \ {m} : /\ k \in Fresh(s) <=> k \in Fresh(p)
                                    /\ k \in Gone(s) <=> k \in Gone(p)
                                    /\ k \in Finished(s) <=> k \in Finished(p)
           /\ m \in Fresh(s) <=> s.msg[m].unsent = MsgPkts[m]
           /\ m \in Gone(s) <=> s.msg[m].unsent = 0
           /\ m \in Finished(s) <=> s.msg[m].acked = MsgPkts[m]
           /\ Fresh(s) \subseteq Msgs /\ Gone(s) \subseteq Msgs /\ Finished(s) \subseteq Msgs
BY DEF Fresh, Gone, Finished

LEMMA SetsSame ==
    ASSUME NEW p, NEW s, s.msg = p.msg
    PROVE  Fresh(s) = Fresh(p) /\ Gone(s) = Gone(p) /\ Finished(s) = Finished(p)
BY DEF Fresh, Gone, Finished

LEMMA AddRecvdSound ==
    ASSUME NEW v, NEW p \in PdcType(v), Sound(p), NEW q
    PROVE  AddRecvd(p, q) \in PdcType(v) /\ Sound(AddRecvd(p, q))
<1> DEFINE m == p.owner[q]
           r == Arriving(m, p.msg[m], q)
           s == Received(p, m, q)
<1>1. CASE ~(q \in DOMAIN p.owner /\ q \in p.msg[m].notrecvd)
    BY <1>1 DEF AddRecvd
<1>2. CASE q \in DOMAIN p.owner /\ q \in p.msg[m].notrecvd
  <2>1. /\ \A k \in Msgs : MsgSound(k, p.msg[k])
        /\ Placed(p) /\ Awaiting(p)
      BY DEF Sound
  <2>2. m \in Msgs
      BY <1>2, <2>1, OwnerIs
  <2>3. AddRecvd(p, q) = s
      BY <1>2 DEF AddRecvd
  <2> HIDE DEF m
  <2>4. MsgSound(m, p.msg[m]) /\ q \in p.msg[m].notrecvd
      BY <1>2, <2>1, <2>2
  <2>5. /\ s \in PdcType(v) /\ MsgSound(m, r)
        /\ r.unsent = p.msg[m].unsent /\ r.recvd = p.msg[m].recvd + 1
        /\ r.acked = p.msg[m].acked /\ r.unsent # MsgPkts[m] /\ r.acked # MsgPkts[m]
        /\ Advanced(p, s, m, r) /\ SameLists(p, s)
      BY <2>1, <2>2, <2>4, ReceivedIs
  <2> HIDE DEF r, s
  <2>6. m \in p.known
      BY <2>1, <2>2, <2>5 DEF Placed, Fresh
  <2>7. /\ p.msg[m].unsent \in Nat /\ p.msg[m].recvd \in Nat /\ p.msg[m].acked \in Nat
    <3> DEFINE x == p.msg[m]
    <3>1. MsgSound(m, x)
        BY <2>4
    <3> HIDE DEF x
    <3>2. x.unsent \in Nat /\ x.recvd \in Nat /\ x.acked \in Nat
        BY <2>2, <3>1, CountsAre
    <3> QED
        BY <3>2 DEF x
  <2>8. r.unsent <= p.msg[m].unsent /\ p.msg[m].recvd <= r.recvd /\ p.msg[m].acked <= r.acked
      BY <2>5, <2>7
  <2>9. /\ Awaiting(s) /\ s.msg[m] = r /\ \A k \in Msgs \ {m} : s.msg[k] = p.msg[k]
        /\ \A k \in Msgs : MsgSound(k, s.msg[k])
      BY <2>1, <2>5, <2>6, <2>8, AdvanceKeeps
  <2>10. Fresh(s) = Fresh(p) /\ Gone(s) = Gone(p) /\ Finished(s) = Finished(p)
      BY <2>2, <2>5, <2>9 DEF Fresh, Gone, Finished
  <2>11. Placed(s)
      BY <2>1, <2>5, <2>10 DEF Placed, Advanced, SameLists, Waiting
  <2> QED
      BY <2>3, <2>5, <2>9, <2>11 DEF Sound
<1> QED
    BY <1>1, <1>2

LEMMA TailIs ==
    ASSUME NEW s \in Seq(Msgs), s # <<>>, Once(s)
    PROVE  /\ Tail(s) \in Seq(Msgs) /\ Members(Tail(s)) = Members(s) \ {Head(s)} /\ Once(Tail(s))
           /\ Head(s) \in Members(s) /\ Head(s) \in Msgs
<1> DEFINE n == Len(s)
           t == Tail(s)
<1>1. /\ n \in Nat \ {0} /\ t \in Seq(Msgs) /\ Len(t) = n - 1 /\ Head(s) = s[1]
      /\ \A i \in 1 .. n - 1 : t[i] = s[i + 1]
      /\ 1 \in 1 .. n /\ s[1] \in Msgs
    OBVIOUS
<1> HIDE DEF n, t
<1>2. \A i \in 1 .. n - 1 : i + 1 \in 1 .. n /\ i + 1 # 1
    BY <1>1
<1>3. \A i \in 1 .. n : i = 1 \/ (i - 1 \in 1 .. n - 1 /\ (i - 1) + 1 = i)
    BY <1>1
<1>4. \A i, j \in 1 .. n : s[i] = s[j] => i = j
    BY DEF Once, n
<1>5. Members(t) = Members(s) \ {s[1]}
  <2>1. \A i \in 1 .. n - 1 : s[i + 1] \in Members(s) /\ s[i + 1] # s[1]
      BY <1>1, <1>2, <1>4 DEF Members, n
  <2>2. \A i \in 1 .. n : s[i] = s[1] \/ s[i] = t[i - 1]
      BY <1>1, <1>3
  <2>3. \A i \in 1 .. n : s[i] # s[1] => s[i] \in Members(t)
      BY <1>1, <1>3, <2>2 DEF Members
  <2>4. \A x \in Members(t) : \E i \in 1 .. n - 1 : x = s[i + 1]
      BY <1>1 DEF Members
  <2>5. \A x \in Members(s) : \E i \in 1 .. n : x = s[i]
      BY DEF Members, n
  <2> QED
      BY <2>1, <2>3, <2>4, <2>5
<1>6. Once(t)
  <2>1. ASSUME NEW i \in 1 .. n - 1, NEW j \in 1 .. n - 1, t[i] = t[j] PROVE i = j
    <3>1. s[i + 1] = s[j + 1]
        BY <1>1, <2>1
    <3>2. i + 1 = j + 1
        BY <1>2, <1>4, <3>1
    <3> QED
        BY <1>1, <3>2
  <2> QED
      BY <1>1, <2>1 DEF Once
<1> QED
    BY <1>1, <1>5, <1>6 DEF Members, t, n

LEMMA FrontIs ==
    ASSUME NEW s \in Seq(Msgs), s # <<>>, Once(s)
    PROVE  LET t == SubSeq(s, 1, Len(s) - 1)
               x == s[Len(s)]
           IN  /\ t \in Seq(Msgs) /\ Members(t) = Members(s) \ {x} /\ Once(t)
               /\ x \in Members(s) /\ x \in Msgs
<1> DEFINE n == Len(s)
           t == SubSeq(s, 1, n - 1)
<1>0. n \in Nat \ {0} /\ n \in 1 .. n /\ s[n] \in Msgs /\ \A i \in 1 .. n : s[i] \in Msgs
    OBVIOUS
<1>1. /\ n \in Nat \ {0} /\ t \in Seq(Msgs) /\ Len(t) = n - 1
      /\ \A i \in 1 .. n - 1 : t[i] = s[i]
      /\ n \in 1 .. n /\ s[n] \in Msgs
  <2>2. n - 1 \in Nat /\ (n - 1) - 1 + 1 = n - 1
      BY <1>0
  <2>3. t = [i \in 1 .. n - 1 |-> s[i]]
      BY <1>0
  <2>4. \A i \in 1 .. n - 1 : s[i] \in Msgs
      BY <1>0
  <2> HIDE DEF n
  <2>5. [i \in 1 .. n - 1 |-> s[i]] \in Seq(Msgs) /\ Len([i \in 1 .. n - 1 |-> s[i]]) = n - 1
      BY <2>2, <2>4
  <2> QED
      BY <1>0, <2>3, <2>5
<1> HIDE DEF n, t
<1>2. \A i \in 1 .. n - 1 : i \in 1 .. n /\ i # n
    BY <1>1
<1>3. \A i \in 1 .. n : i = n \/ i \in 1 .. n - 1
    BY <1>1
<1>4. \A i, j \in 1 .. n : s[i] = s[j] => i = j
    BY DEF Once, n
<1>5. Members(t) = Members(s) \ {s[n]}
  <2>1. Members(t) = {s[i] : i \in 1 .. n - 1}
      BY <1>1 DEF Members
  <2>2. Members(s) = {s[i] : i \in 1 .. n}
      BY DEF Members, n
  <2> QED
      BY <1>1, <1>2, <1>3, <1>4, <2>1, <2>2
<1>6. Once(t)
  <2>1. ASSUME NEW i \in 1 .. n - 1, NEW j \in 1 .. n - 1, t[i] = t[j] PROVE i = j
      BY <1>1, <1>2, <1>4, <2>1
  <2> QED
      BY <1>1, <2>1 DEF Once
<1>7. s[n] \in Members(s)
    BY <1>1 DEF Members, n
<1> QED
    BY <1>1, <1>5, <1>6, <1>7 DEF t, n

LEMMA AppendIs ==
    ASSUME NEW s \in Seq(Msgs), NEW m \in Msgs
    PROVE  /\ Append(s, m) \in Seq(Msgs) /\ Members(Append(s, m)) = Members(s) \cup {m}
           /\ Once(s) /\ m \notin Members(s) => Once(Append(s, m))
<1>1. <<m>> \in Seq(Msgs) /\ Append(s, m) = s \o <<m>>
    OBVIOUS
<1>2. Members(<<m>>) = {m} /\ Once(<<m>>)
    BY DEF Members, Once
<1>3. /\ s \o <<m>> \in Seq(Msgs) /\ Members(s \o <<m>>) = Members(s) \cup Members(<<m>>)
      /\ Once(s) /\ Once(<<m>>) /\ Members(s) \cap Members(<<m>>) = {} => Once(s \o <<m>>)
    BY <1>1, Appending
<1> QED
    BY <1>1, <1>2, <1>3

\* A failed assertion changes nothing else.
LEMMA FailsIs ==
    ASSUME NEW v, NEW p \in PdcType(v), NEW c, NEW what \in Assertions \ {"message", "trigger"}
    PROVE  LET s == Fails(p, c, what)
           IN  /\ s \in PdcType(v) /\ s.known = p.known /\ s.scheduled = p.scheduled
               /\ s.triggered = p.triggered /\ s.eligible = p.eligible /\ s.cur = p.cur
               /\ s.inFlight = p.inFlight /\ s.complete = p.complete /\ s.owner = p.owner
               /\ s.maxSeq = p.maxSeq /\ s.fired = p.fired /\ s.msg = p.msg /\ s.sent = p.sent
               /\ s.eligiblePkts = p.eligiblePkts
BY DEF Fails, PdcType

LEMMA SoundStill ==
    ASSUME NEW p, Sound(p), NEW s, s.known = p.known, s.scheduled = p.scheduled,
           s.triggered = p.triggered, s.eligible = p.eligible, s.cur = p.cur,
           s.inFlight = p.inFlight, s.complete = p.complete, s.fired = p.fired, s.msg = p.msg
    PROVE  Sound(s)
<1>1. Fresh(s) = Fresh(p) /\ Gone(s) = Gone(p) /\ Finished(s) = Finished(p)
    BY SetsSame
<1>2. \A t : Reached(s, t) <=> Reached(p, t)
    BY DEF Reached
<1>3. Placed(s)
    BY <1>1 DEF Sound, Placed, Waiting
<1>4. Awaiting(s)
    BY <1>2 DEF Sound, Awaiting
<1> QED
    BY <1>3, <1>4 DEF Sound

LEMMA FailsSound ==
    ASSUME NEW v, NEW p \in PdcType(v), Sound(p), NEW c, NEW what \in Assertions \ {"message", "trigger"}
    PROVE  Fails(p, c, what) \in PdcType(v) /\ Sound(Fails(p, c, what))
<1> DEFINE s == Fails(p, c, what)
<1>1. /\ s \in PdcType(v) /\ s.known = p.known /\ s.scheduled = p.scheduled
      /\ s.triggered = p.triggered /\ s.eligible = p.eligible /\ s.cur = p.cur
      /\ s.inFlight = p.inFlight /\ s.complete = p.complete /\ s.fired = p.fired /\ s.msg = p.msg
    BY FailsIs
<1> HIDE DEF s
<1>2. Sound(s)
    BY <1>1, SoundStill
<1> QED
    BY <1>1, <1>2 DEF s

LEMMA OwningType ==
    ASSUME NEW o \in Owners, NEW q \in SeqNos, NEW m \in Msgs
    PROVE  Owning(o, q, m) \in Owners
<1>1. PICK D \in SUBSET SeqNos : o \in [D -> Msgs]
    BY DEF Owners
<1>2. Owning(o, q, m) \in [D \cup {q} -> Msgs]
    BY <1>1 DEF Owning
<1> QED
    BY <1>2 DEF Owners

\* getNextPacket
LEMMA GetNextPacketSound ==
    ASSUME NEW v, NEW p \in PdcType(v), Sound(p), NEW q \in SeqNos
    PROVE  GetNextPacket(p, q) \in PdcType(v) /\ Sound(GetNextPacket(p, q))
<1> DEFINE m == IF p.cur # 0 THEN p.cur ELSE Head(p.eligible)
           a == IF p.cur # 0 THEN p
                ELSE [p EXCEPT !.eligible = Tail(@), !.inFlight = @ \cup {m}]
           c == q \in DOMAIN p.owner \/ q <= p.maxSeq
           s == Segment(a, m, q)
           b == Fails(s, c, "number")
           t == [b EXCEPT !.cur = IF b.msg[m].unsent = 0 THEN 0 ELSE m,
                          !.sent = @ + 1,
                          !.owner = Owning(@, q, m),
                          !.maxSeq = q]
           r == Sending(a.msg[m], q)
<1>1. GetNextPacket(p, q) = IF p.cur = 0 /\ p.eligible = <<>> THEN Fails(p, TRUE, "no_message") ELSE t
    BY DEF GetNextPacket
<1>2. "no_message" \in Assertions \ {"message", "trigger"} /\ "number" \in Assertions \ {"message", "trigger"}
    BY DEF Assertions
<1>3. CASE p.cur = 0 /\ p.eligible = <<>>
    BY <1>1, <1>2, <1>3, FailsSound
<1>4. CASE ~(p.cur = 0 /\ p.eligible = <<>>)
  <2>1. (\A k \in Msgs : MsgSound(k, p.msg[k])) /\ Placed(p) /\ Awaiting(p)
      BY DEF Sound
  <2>2. /\ p.eligible \in Seq(Msgs) /\ p.cur \in Msgs \cup {0} /\ p.inFlight \in SUBSET Msgs
        /\ p.known \in SUBSET Msgs /\ p.msg \in [Msgs -> MsgRec] /\ p.complete \in Seq(Msgs)
      BY DEF PdcType
  <2>3. /\ Msgs \ Fresh(p) \subseteq p.known
        /\ p.known \cap Fresh(p) = Waiting(p) \cup Members(p.eligible)
        /\ p.scheduled \cap p.triggered = {} /\ Waiting(p) \cap Members(p.eligible) = {}
        /\ p.inFlight = Msgs \ (Fresh(p) \cup Finished(p))
        /\ Members(p.complete) = Finished(p)
        /\ Once(p.eligible) /\ Once(p.complete)
        /\ p.cur \notin Fresh(p) \cup Gone(p)
      BY <2>1 DEF Placed
  <2>4. Fresh(p) \cap Finished(p) = {} /\ Fresh(p) \cap Gone(p) = {}
      BY <2>1, FreshFacts
  <2>5. /\ a \in PdcType(v) /\ m \in Msgs /\ m \in p.known /\ m \notin Gone(p)
        /\ a.known = p.known /\ a.scheduled = p.scheduled /\ a.triggered = p.triggered
        /\ a.complete = p.complete /\ a.fired = p.fired /\ a.msg = p.msg
        /\ Once(a.eligible) /\ Members(a.eligible) = Members(p.eligible) \ {m}
        /\ a.inFlight = Msgs \ ((Fresh(p) \ {m}) \cup Finished(p))
        /\ m \notin Waiting(p)
    <3>1. CASE p.cur # 0
      <4>1. p.cur \in Msgs \ Fresh(p)
          BY <2>2, <2>3, <3>1
      <4>2. p.cur \in p.known /\ p.cur \notin Waiting(p) \cup Members(p.eligible)
          BY <2>3, <4>1
      <4> QED
          BY <2>2, <2>3, <3>1, <4>1, <4>2
    <3>2. CASE p.cur = 0
      <4> DEFINE h == Head(p.eligible)
                 e == Tail(p.eligible)
      <4>1. p.eligible # <<>>
          BY <1>4, <3>2
      <4>2. e \in Seq(Msgs) /\ Members(e) = Members(p.eligible) \ {h} /\ Once(e)
            /\ h \in Members(p.eligible) /\ h \in Msgs
          BY <2>2, <2>3, <4>1, TailIs
      <4>3. h \in Fresh(p) /\ h \in p.known /\ h \notin Gone(p) /\ h \notin Finished(p)
            /\ h \notin Waiting(p)
          BY <2>3, <2>4, <4>2
      <4> HIDE DEF h, e
      <4>4. m = h /\ a = [p EXCEPT !.eligible = e, !.inFlight = @ \cup {h}]
          BY <3>2 DEF h, e
      <4> HIDE DEF m, a
      <4>5. p.inFlight \cup {h} \in SUBSET Msgs
          BY <2>2, <4>2
      <4>6. /\ a \in PdcType(v) /\ a.known = p.known /\ a.scheduled = p.scheduled
            /\ a.triggered = p.triggered /\ a.complete = p.complete /\ a.fired = p.fired
            /\ a.msg = p.msg /\ a.eligible = e /\ a.inFlight = p.inFlight \cup {h}
          BY <4>2, <4>4, <4>5 DEF PdcType
      <4>7. p.inFlight \cup {h} = Msgs \ ((Fresh(p) \ {h}) \cup Finished(p))
          BY <2>3, <4>2, <4>3
      <4> QED
          BY <4>2, <4>3, <4>4, <4>6, <4>7
    <3> QED
        BY <3>1, <3>2
  <2> HIDE DEF m, a
  <2>6. Awaiting(a)
    <3>1. \A k : Reached(a, k) <=> Reached(p, k)
        BY <2>5 DEF Reached
    <3> QED
        BY <2>1, <2>5, <3>1 DEF Awaiting
  <2>7. MsgSound(m, a.msg[m]) /\ a.msg[m].unsent # 0
      BY <2>1, <2>5 DEF Gone
  <2>8. /\ s \in PdcType(v) /\ MsgSound(m, r) /\ r.unsent # MsgPkts[m]
        /\ r.unsent = a.msg[m].unsent - 1 /\ r.recvd = a.msg[m].recvd
        /\ r.acked = a.msg[m].acked /\ a.msg[m].acked # MsgPkts[m]
        /\ Advanced(a, s, m, r) /\ SameLists(a, s)
      BY <2>5, <2>7, SegmentIs
  <2> HIDE DEF s, r
  <2>9. r.unsent <= a.msg[m].unsent /\ a.msg[m].recvd <= r.recvd /\ a.msg[m].acked <= r.acked
    <3> DEFINE x == a.msg[m]
    <3>1. MsgSound(m, x)
        BY <2>7
    <3>2. r.unsent = x.unsent - 1 /\ r.recvd = x.recvd /\ r.acked = x.acked
        BY <2>8
    <3> HIDE DEF x
    <3>3. x.unsent \in Nat /\ x.recvd \in Nat /\ x.acked \in Nat
        BY <2>5, <3>1, CountsAre
    <3>4. r.unsent <= x.unsent /\ x.recvd <= r.recvd /\ x.acked <= r.acked
        BY <3>2, <3>3
    <3> QED
        BY <3>4 DEF x
  <2>10. (\A k \in Msgs : MsgSound(k, a.msg[k])) /\ m \in a.known
      BY <2>1, <2>5
  <2>11. /\ Awaiting(s) /\ s.msg[m] = r /\ \A k \in Msgs \ {m} : s.msg[k] = a.msg[k]
         /\ \A k \in Msgs : MsgSound(k, s.msg[k])
      BY <2>5, <2>6, <2>8, <2>9, <2>10, AdvanceKeeps
  <2>12. /\ b \in PdcType(v) /\ b.known = s.known /\ b.scheduled = s.scheduled
         /\ b.triggered = s.triggered /\ b.eligible = s.eligible /\ b.cur = s.cur
         /\ b.inFlight = s.inFlight /\ b.complete = s.complete /\ b.owner = s.owner
         /\ b.fired = s.fired /\ b.msg = s.msg
      BY <1>2, <2>8, FailsIs
  <2> HIDE DEF b
  <2>13. t \in PdcType(v) /\ t.cur = (IF r.unsent = 0 THEN 0 ELSE m)
         /\ t.known = b.known /\ t.scheduled = b.scheduled
         /\ t.triggered = b.triggered /\ t.eligible = b.eligible
         /\ t.inFlight = b.inFlight /\ t.complete = b.complete
         /\ t.fired = b.fired /\ t.msg = b.msg
    <3> DEFINE c1 == IF b.msg[m].unsent = 0 THEN 0 ELSE m
               o == Owning(b.owner, q, m)
               n == b.sent + 1
    <3>1. b.owner \in Owners /\ b.sent \in Nat
        BY <2>12 DEF PdcType
    <3>2. o \in Owners /\ n \in Nat
        BY <2>5, <3>1, OwningType
    <3>3. b.msg[m] = r
        BY <2>11, <2>12
    <3>4. c1 = (IF r.unsent = 0 THEN 0 ELSE m) /\ c1 \in Msgs \cup {0}
        BY <2>5, <3>3
    <3>5. t = [b EXCEPT !.cur = c1, !.sent = n, !.owner = o, !.maxSeq = q]
        BY <2>12 DEF PdcType
    <3> HIDE DEF c1, o, n, t
    <3>6. t \in PdcType(v)
        BY <2>12, <3>2, <3>4, <3>5 DEF PdcType
    <3>7. /\ t.cur = c1 /\ t.known = b.known /\ t.scheduled = b.scheduled
          /\ t.triggered = b.triggered /\ t.eligible = b.eligible
          /\ t.inFlight = b.inFlight /\ t.complete = b.complete
          /\ t.fired = b.fired /\ t.msg = b.msg
        BY <2>12, <3>5 DEF PdcType
    <3> QED
        BY <3>4, <3>6, <3>7
  <2> HIDE DEF t
  <2>14. /\ t.known = p.known /\ t.scheduled = p.scheduled /\ t.triggered = p.triggered
         /\ t.eligible = a.eligible /\ t.inFlight = a.inFlight /\ t.complete = p.complete
         /\ t.fired = s.fired /\ t.msg = s.msg
      BY <2>5, <2>8, <2>12, <2>13 DEF Advanced, SameLists
  <2>15. (\A k \in Msgs \ {m} : t.msg[k] = p.msg[k]) /\ t.msg[m] = r
      BY <2>5, <2>11, <2>14
  <2>16. /\ Fresh(t) = Fresh(p) \ {m} /\ Finished(t) = Finished(p)
         /\ \A k \in Msgs \ {m} : k \in Gone(t) <=> k \in Gone(p)
         /\ m \in Gone(t) <=> r.unsent = 0
         /\ Gone(t) \subseteq Msgs
    <3>1. /\ \A k \in Msgs \ {m} : /\ k \in Fresh(t) <=> k \in Fresh(p)
                                   /\ k \in Gone(t) <=> k \in Gone(p)
                                   /\ k \in Finished(t) <=> k \in Finished(p)
          /\ m \in Fresh(t) <=> t.msg[m].unsent = MsgPkts[m]
          /\ m \in Gone(t) <=> t.msg[m].unsent = 0
          /\ m \in Finished(t) <=> t.msg[m].acked = MsgPkts[m]
          /\ Fresh(t) \subseteq Msgs /\ Gone(t) \subseteq Msgs /\ Finished(t) \subseteq Msgs
        BY <2>5, <2>15, SetsAfter
    <3>2. m \notin Fresh(t) /\ m \notin Finished(t) /\ m \notin Finished(p)
        BY <2>5, <2>8, <2>15, <3>1 DEF Finished
    <3>3. Fresh(p) \subseteq Msgs /\ Finished(p) \subseteq Msgs
        BY DEF Fresh, Finished
    <3>4. Fresh(t) = Fresh(p) \ {m}
        BY <3>1, <3>2, <3>3
    <3>5. Finished(t) = Finished(p)
        BY <3>1, <3>2, <3>3
    <3>6. m \in Gone(t) <=> r.unsent = 0
        BY <2>15, <3>1
    <3> QED
        BY <3>1, <3>4, <3>5, <3>6
  <2>17. Placed(t)
    <3>1. Waiting(t) = Waiting(p)
        BY <2>14 DEF Waiting
    <3>2. Msgs \ Fresh(t) \subseteq t.known
        BY <2>3, <2>5, <2>14, <2>16
    <3>3. t.known \cap Fresh(t) = Waiting(t) \cup Members(t.eligible)
        BY <2>3, <2>5, <2>14, <2>16, <3>1
    <3>4. t.scheduled \cap t.triggered = {} /\ Waiting(t) \cap Members(t.eligible) = {}
        BY <2>3, <2>5, <2>14, <3>1
    <3>5. t.inFlight = Msgs \ (Fresh(t) \cup Finished(t)) /\ Members(t.complete) = Finished(t)
        BY <2>3, <2>5, <2>14, <2>16
    <3>6. Once(t.eligible) /\ Once(t.complete)
        BY <2>3, <2>5, <2>14
    <3>7. t.cur \notin Fresh(t) \cup Gone(t)
      <4>1. Fresh(t) \subseteq Msgs
          BY DEF Fresh
      <4> QED
          BY <2>13, <2>16, <4>1, MsgsAre
    <3> QED
        BY <3>2, <3>3, <3>4, <3>5, <3>6, <3>7 DEF Placed
  <2>18. Awaiting(t)
    <3>1. \A k : Reached(t, k) <=> Reached(s, k)
        BY <2>14 DEF Reached
    <3> QED
        BY <2>11, <2>12, <2>13, <3>1 DEF Awaiting
  <2>19. \A k \in Msgs : MsgSound(k, t.msg[k])
      BY <2>11, <2>14
  <2> QED
      BY <1>1, <1>4, <2>13, <2>17, <2>18, <2>19 DEF Sound
<1> QED
    BY <1>3, <1>4

\* A step of a handler for one sequence number after another, over a set of
\* states that the step does not leave.
Stepped(X, x, S, F) ==
    \E g \in [0 .. NSeqs -> X] :
       \A n \in 0 .. NSeqs : g[n] = IF n = 0 THEN x
                                    ELSE IF n - 1 \in S THEN F[g[n - 1]][n - 1] ELSE g[n - 1]

LEMMA InOrderSteps ==
    ASSUME NEW X, NEW x \in X, NEW S, NEW F \in [X -> [SeqNos -> X]]
    PROVE  Stepped(X, x, S, F)
<1> DEFINE G == [t \in X |-> [n \in 0 .. NSeqs - 1 |-> IF n \in S THEN F[t][n] ELSE t]]
<1>1. NSeqs \in Nat
    BY NSeqsType
<1>2. \A t \in X : \A n \in 0 .. NSeqs - 1 : F[t][n] \in X
    BY DEF SeqNos
<1>3. /\ G \in [X -> [0 .. NSeqs - 1 -> X]]
      /\ \A t \in X : \A n \in 0 .. NSeqs - 1 : G[t][n] = IF n \in S THEN F[t][n] ELSE t
    BY <1>2
<1> HIDE DEF G
<1>4. Iterates(X, x, NSeqs, G)
    BY <1>1, <1>3, StepByStep
<1>5. PICK g \in [0 .. NSeqs -> X] : g[0] = x /\ \A n \in 0 .. NSeqs - 1 : g[n + 1] = G[g[n]][n]
    BY <1>4 DEF Iterates
<1>6. ASSUME NEW n \in 0 .. NSeqs
      PROVE  g[n] = IF n = 0 THEN x ELSE IF n - 1 \in S THEN F[g[n - 1]][n - 1] ELSE g[n - 1]
  <2>1. CASE n = 0
      BY <1>5, <2>1
  <2>2. CASE n # 0
    <3>1. n - 1 \in 0 .. NSeqs - 1 /\ n - 1 \in 0 .. NSeqs /\ (n - 1) + 1 = n
        BY <1>1, <2>2
    <3>2. g[n - 1] \in X /\ g[n] = G[g[n - 1]][n - 1]
        BY <1>5, <3>1
    <3> QED
        BY <1>3, <2>2, <3>1, <3>2
  <2> QED
      BY <2>1, <2>2
<1> QED
    BY <1>6 DEF Stepped

LEMMA StaysIn ==
    ASSUME NEW X, NEW up, up[0] \in X, \A n \in SeqNos : up[n] \in X => up[n + 1] \in X
    PROVE  up[NSeqs] \in X
<1> DEFINE Good == {n \in Nat : n <= NSeqs => up[n] \in X}
<1>1. NSeqs \in Nat
    BY NSeqsType
<1>2. 0 \in Good
    OBVIOUS
<1>3. ASSUME NEW n \in Nat, n \in Good PROVE n + 1 \in Good
  <2>1. n + 1 <= NSeqs => n \in SeqNos /\ n <= NSeqs
      BY <1>1 DEF SeqNos
  <2> QED
      BY <1>3, <2>1
<1> HIDE DEF Good
<1>4. NSeqs \in Good
    BY <1>1, <1>2, <1>3, NaturalsByInduction
<1> QED
    BY <1>1, <1>4 DEF Good

\* The packets a handler sends are of the messages in turn.
LEMMA NextPacketsSound ==
    ASSUME NEW v, NEW p \in PdcType(v), Sound(p), NEW S
    PROVE  InOrder(GetNextPacket, p, S) \in PdcType(v) /\ Sound(InOrder(GetNextPacket, p, S))
<1> DEFINE X == {x \in PdcType(v) : Sound(x)}
           F == [t \in X |-> [q \in SeqNos |-> GetNextPacket(t, q)]]
           Is(g) == g = [n \in 0 .. NSeqs |->
                            IF n = 0 THEN p
                            ELSE IF n - 1 \in S THEN GetNextPacket(g[n - 1], n - 1) ELSE g[n - 1]]
           up == CHOOSE g : Is(g)
<1>0. NSeqs \in Nat
    BY NSeqsType
<1>1. InOrder(GetNextPacket, p, S) = up[NSeqs]
    BY DEF InOrder
<1>2. \A t \in X : \A q \in SeqNos : GetNextPacket(t, q) \in X
    BY GetNextPacketSound
<1>3. p \in X
    OBVIOUS
<1>4. F \in [X -> [SeqNos -> X]] /\ \A t \in X : \A q \in SeqNos : F[t][q] = GetNextPacket(t, q)
    BY <1>2
<1> HIDE DEF X, F
<1>a. Stepped(X, p, S, F)
    BY <1>3, <1>4, InOrderSteps
<1>5. PICK g \in [0 .. NSeqs -> X] :
          \A n \in 0 .. NSeqs : g[n] = IF n = 0 THEN p
                                       ELSE IF n - 1 \in S THEN F[g[n - 1]][n - 1] ELSE g[n - 1]
    BY <1>a DEF Stepped
<1>6. Is(g)
  <2>1. ASSUME NEW n \in 0 .. NSeqs, n # 0 PROVE F[g[n - 1]][n - 1] = GetNextPacket(g[n - 1], n - 1)
    <3>1. n - 1 \in SeqNos /\ n - 1 \in 0 .. NSeqs
        BY <1>0, <2>1 DEF SeqNos
    <3> QED
        BY <1>4, <1>5, <3>1
  <2> QED
      BY <1>5, <2>1
<1>7. Is(up)
    BY <1>6
<1> HIDE DEF up
<1>8. up[0] = p
    BY <1>0, <1>7
<1>9. \A n \in SeqNos : up[n] \in X => up[n + 1] \in X
  <2>1. ASSUME NEW n \in SeqNos, up[n] \in X PROVE up[n + 1] \in X
    <3>1. n + 1 \in 0 .. NSeqs /\ n + 1 # 0 /\ (n + 1) - 1 = n
        BY <1>0 DEF SeqNos
    <3>2. up[n + 1] = IF n \in S THEN GetNextPacket(up[n], n) ELSE up[n]
        BY <1>7, <3>1
    <3> QED
        BY <1>2, <2>1, <3>2
  <2> QED
      BY <2>1
<1>10. up[NSeqs] \in X
    BY <1>3, <1>8, <1>9, StaysIn
<1> QED
    BY <1>1, <1>10 DEF X

LEMMA ForgetSound ==
    ASSUME NEW v, NEW p \in PdcType(v), Sound(p), NEW q
    PROVE  Forget(p, q) \in PdcType(v) /\ Sound(Forget(p, q))
<1> DEFINE o == [r \in DOMAIN p.owner \ {q} |-> p.owner[r]]
           s == Forget(p, q)
<1>1. o \in Owners
  <2>1. p.owner \in Owners
      BY DEF PdcType
  <2>2. PICK D \in SUBSET SeqNos : p.owner \in [D -> Msgs]
      BY <2>1 DEF Owners
  <2>3. o \in [D \ {q} -> Msgs]
      BY <2>2
  <2> QED
      BY <2>3 DEF Owners
<1>2. s = [p EXCEPT !.owner = o]
    BY DEF Forget, PdcType
<1> HIDE DEF o, s
<1>3. /\ s \in PdcType(v) /\ s.known = p.known /\ s.scheduled = p.scheduled
      /\ s.triggered = p.triggered /\ s.eligible = p.eligible /\ s.cur = p.cur
      /\ s.inFlight = p.inFlight /\ s.complete = p.complete /\ s.fired = p.fired /\ s.msg = p.msg
    BY <1>1, <1>2 DEF PdcType
<1>4. Sound(s)
    BY <1>3, SoundStill
<1> QED
    BY <1>3, <1>4 DEF s

LEMMA ResetMaxSound ==
    ASSUME NEW v, NEW p \in PdcType(v), Sound(p)
    PROVE  ResetMax(p) \in PdcType(v) /\ Sound(ResetMax(p))
<1> DEFINE s == [p EXCEPT !.maxSeq = -1]
<1>1. /\ s \in PdcType(v) /\ s.known = p.known /\ s.scheduled = p.scheduled
      /\ s.triggered = p.triggered /\ s.eligible = p.eligible /\ s.cur = p.cur
      /\ s.inFlight = p.inFlight /\ s.complete = p.complete /\ s.fired = p.fired /\ s.msg = p.msg
    BY DEF PdcType
<1> HIDE DEF s
<1>2. Sound(s)
    BY <1>1, SoundStill
<1>3. ResetMax(p) = s \/ ResetMax(p) = p
    BY DEF ResetMax, s
<1> QED
    BY <1>1, <1>2, <1>3

\* addAck of one packet: the message goes on, and is complete with the last.
LEMMA AcknowledgedSound ==
    ASSUME NEW v, NEW p \in PdcType(v), Sound(p), NEW m \in Msgs, NEW q \in p.msg[m].notacked
    PROVE  Acknowledged(p, m, q) \in PdcType(v) /\ Sound(Acknowledged(p, m, q))
<1> DEFINE r == Acking(m, p.msg[m], q)
           s == Acknowledged(p, m, q)
<1>1. /\ \A k \in Msgs : MsgSound(k, p.msg[k])
      /\ Placed(p) /\ Awaiting(p)
    BY DEF Sound
<1>2. /\ s \in PdcType(v) /\ MsgSound(m, r)
      /\ r.unsent = p.msg[m].unsent /\ r.recvd = p.msg[m].recvd
      /\ r.acked = p.msg[m].acked + 1 /\ r.unsent # MsgPkts[m] /\ p.msg[m].acked # MsgPkts[m]
      /\ Advanced(p, s, m, r)
      /\ IF r.acked = MsgPkts[m]
         THEN s.inFlight = p.inFlight \ {m} /\ s.complete = Append(p.complete, m)
         ELSE SameLists(p, s)
    BY <1>1, AcknowledgedIs
<1> HIDE DEF r, s
<1>3. m \in p.known
    BY <1>1, <1>2 DEF Placed, Fresh
<1>4. p.msg[m].unsent \in Nat /\ p.msg[m].recvd \in Nat /\ p.msg[m].acked \in Nat
  <2> DEFINE x == p.msg[m]
  <2>1. MsgSound(m, x)
      BY <1>1
  <2> HIDE DEF x
  <2>2. x.unsent \in Nat /\ x.recvd \in Nat /\ x.acked \in Nat
      BY <2>1, CountsAre
  <2> QED
      BY <2>2 DEF x
<1>5. r.unsent <= p.msg[m].unsent /\ p.msg[m].recvd <= r.recvd /\ p.msg[m].acked <= r.acked
    BY <1>2, <1>4
<1>6. /\ Awaiting(s) /\ s.msg[m] = r /\ \A k \in Msgs \ {m} : s.msg[k] = p.msg[k]
      /\ \A k \in Msgs : MsgSound(k, s.msg[k])
    BY <1>1, <1>2, <1>3, <1>5, AdvanceKeeps
<1>7. /\ \A k \in Msgs \ {m} : /\ k \in Fresh(s) <=> k \in Fresh(p)
                               /\ k \in Gone(s) <=> k \in Gone(p)
                               /\ k \in Finished(s) <=> k \in Finished(p)
      /\ m \in Fresh(s) <=> s.msg[m].unsent = MsgPkts[m]
      /\ m \in Gone(s) <=> s.msg[m].unsent = 0
      /\ m \in Finished(s) <=> s.msg[m].acked = MsgPkts[m]
      /\ Fresh(s) \subseteq Msgs /\ Gone(s) \subseteq Msgs /\ Finished(s) \subseteq Msgs
    BY <1>6, SetsAfter
<1>8. Fresh(p) \subseteq Msgs /\ Gone(p) \subseteq Msgs /\ Finished(p) \subseteq Msgs
    BY DEF Fresh, Gone, Finished
<1>9. m \notin Fresh(p) /\ m \notin Finished(p) /\ (m \in Gone(p) <=> p.msg[m].unsent = 0)
    BY <1>2 DEF Fresh, Finished, Gone
<1>10. Fresh(s) = Fresh(p) /\ Gone(s) = Gone(p)
  <2>1. m \notin Fresh(s) /\ (m \in Gone(s) <=> m \in Gone(p))
      BY <1>2, <1>6, <1>7, <1>9
  <2> QED
      BY <1>7, <1>8, <1>9, <2>1
<1>11. Finished(s) = IF r.acked = MsgPkts[m] THEN Finished(p) \cup {m} ELSE Finished(p)
  <2>1. m \in Finished(s) <=> r.acked = MsgPkts[m]
      BY <1>6, <1>7
  <2> QED
      BY <1>7, <1>8, <1>9, <2>1
<1>12. /\ Msgs \ Fresh(p) \subseteq p.known
       /\ p.known \cap Fresh(p) = Waiting(p) \cup Members(p.eligible)
       /\ p.scheduled \cap p.triggered = {} /\ Waiting(p) \cap Members(p.eligible) = {}
       /\ p.inFlight = Msgs \ (Fresh(p) \cup Finished(p))
       /\ Members(p.complete) = Finished(p)
       /\ Once(p.eligible) /\ Once(p.complete)
       /\ p.cur \notin Fresh(p) \cup Gone(p)
    BY <1>1 DEF Placed
<1>13. /\ s.known = p.known /\ Waiting(s) = Waiting(p) /\ s.eligible = p.eligible /\ s.cur = p.cur
       /\ s.scheduled = p.scheduled /\ s.triggered = p.triggered
    BY <1>2 DEF Advanced, Waiting
<1>14. /\ s.inFlight = Msgs \ (Fresh(s) \cup Finished(s)) /\ Members(s.complete) = Finished(s)
       /\ Once(s.complete)
  <2>1. CASE r.acked = MsgPkts[m]
    <3>1. s.inFlight = p.inFlight \ {m} /\ s.complete = Append(p.complete, m)
        BY <1>2, <2>1
    <3>2. p.complete \in Seq(Msgs)
        BY DEF PdcType
    <3>3. Members(s.complete) = Members(p.complete) \cup {m} /\ Once(s.complete)
      <4>1. m \notin Members(p.complete) /\ Once(p.complete)
          BY <1>9, <1>12
      <4> QED
          BY <3>1, <3>2, <4>1, AppendIs
    <3> QED
        BY <1>10, <1>11, <1>12, <2>1, <3>1, <3>3
  <2>2. CASE r.acked # MsgPkts[m]
      BY <1>2, <1>10, <1>11, <1>12, <2>2 DEF SameLists
  <2> QED
      BY <2>1, <2>2
<1>15. Placed(s)
    BY <1>10, <1>12, <1>13, <1>14 DEF Placed
<1> QED
    BY <1>2, <1>6, <1>15 DEF Sound, s

\* addCumAck, for one packet
LEMMA CumAckedSound ==
    ASSUME NEW v, NEW p \in PdcType(v), Sound(p), NEW q
    PROVE  CumAcked(p, q) \in PdcType(v) /\ Sound(CumAcked(p, q))
<1>1. CASE q \in DOMAIN p.owner /\ q \in p.msg[p.owner[q]].notacked
  <2> DEFINE m == p.owner[q]
             a == Acknowledged(p, m, q)
  <2>1. CumAcked(p, q) = Forget(a, q)
      BY <1>1 DEF CumAcked
  <2>2. m \in Msgs /\ q \in p.msg[m].notacked
      BY <1>1, OwnerIs
  <2> HIDE DEF m
  <2>3. a \in PdcType(v) /\ Sound(a)
      BY <2>2, AcknowledgedSound
  <2> HIDE DEF a
  <2> QED
      BY <2>1, <2>3, ForgetSound
<1>2. CASE ~(q \in DOMAIN p.owner /\ q \in p.msg[p.owner[q]].notacked)
    BY <1>2 DEF CumAcked
<1> QED
    BY <1>1, <1>2

\* addSAck
LEMMA AddSAckSound ==
    ASSUME NEW v, NEW p \in PdcType(v), Sound(p), NEW q, NEW ctrl
    PROVE  AddSAck(p, q, ctrl) \in PdcType(v) /\ Sound(AddSAck(p, q, ctrl))
<1> DEFINE a == Fails(p, q > p.maxSeq, "sack_beyond")
           m == p.owner[q]
           b == IF q \in a.msg[m].notacked THEN Acknowledged(a, m, q) ELSE a
<1>1. "sack_beyond" \in Assertions \ {"message", "trigger"}
    BY DEF Assertions
<1>2. a \in PdcType(v) /\ Sound(a)
    BY <1>1, FailsSound
<1>3. AddSAck(p, q, ctrl) = IF q \in ctrl \/ q \notin DOMAIN p.owner THEN a ELSE ResetMax(Forget(b, q))
    BY DEF AddSAck
<1>4. q \in DOMAIN p.owner => m \in Msgs
    BY OwnerIs
<1> HIDE DEF a, m
<1>5. CASE q \in DOMAIN p.owner
  <2>1. b \in PdcType(v) /\ Sound(b)
    <3>1. CASE q \in a.msg[m].notacked
        BY <1>2, <1>4, <1>5, <3>1, AcknowledgedSound
    <3>2. CASE q \notin a.msg[m].notacked
        BY <1>2, <3>2
    <3> QED
        BY <3>1, <3>2
  <2> HIDE DEF b
  <2> DEFINE c == Forget(b, q)
  <2>2. c \in PdcType(v) /\ Sound(c)
      BY <2>1, ForgetSound
  <2> HIDE DEF c
  <2>3. ResetMax(c) \in PdcType(v) /\ Sound(ResetMax(c))
      BY <2>2, ResetMaxSound
  <2> QED
      BY <1>2, <1>3, <2>3 DEF c
<1>6. CASE q \notin DOMAIN p.owner
    BY <1>2, <1>3, <1>6
<1> QED
    BY <1>5, <1>6

\* addCumAck, for the packets S.
LEMMA CumAcksSound ==
    ASSUME NEW v, NEW p \in PdcType(v), Sound(p), NEW S
    PROVE  InOrder(CumAcked, p, S) \in PdcType(v) /\ Sound(InOrder(CumAcked, p, S))
<1> DEFINE X == {x \in PdcType(v) : Sound(x)}
           F == [t \in X |-> [q \in SeqNos |-> CumAcked(t, q)]]
           Is(g) == g = [n \in 0 .. NSeqs |->
                            IF n = 0 THEN p
                            ELSE IF n - 1 \in S THEN CumAcked(g[n - 1], n - 1) ELSE g[n - 1]]
           up == CHOOSE g : Is(g)
<1>0. NSeqs \in Nat
    BY NSeqsType
<1>1. InOrder(CumAcked, p, S) = up[NSeqs]
    BY DEF InOrder
<1>2. \A t \in X : \A q \in SeqNos : CumAcked(t, q) \in X
    BY CumAckedSound
<1>3. p \in X
    OBVIOUS
<1>4. F \in [X -> [SeqNos -> X]] /\ \A t \in X : \A q \in SeqNos : F[t][q] = CumAcked(t, q)
    BY <1>2
<1> HIDE DEF X, F
<1>a. Stepped(X, p, S, F)
    BY <1>3, <1>4, InOrderSteps
<1>5. PICK g \in [0 .. NSeqs -> X] :
          \A n \in 0 .. NSeqs : g[n] = IF n = 0 THEN p
                                       ELSE IF n - 1 \in S THEN F[g[n - 1]][n - 1] ELSE g[n - 1]
    BY <1>a DEF Stepped
<1>6. Is(g)
  <2>1. ASSUME NEW n \in 0 .. NSeqs, n # 0 PROVE F[g[n - 1]][n - 1] = CumAcked(g[n - 1], n - 1)
    <3>1. n - 1 \in SeqNos /\ n - 1 \in 0 .. NSeqs
        BY <1>0, <2>1 DEF SeqNos
    <3> QED
        BY <1>4, <1>5, <3>1
  <2> QED
      BY <1>5, <2>1
<1>7. Is(up)
    BY <1>6
<1> HIDE DEF up
<1>8. up[0] = p
    BY <1>0, <1>7
<1>9. \A n \in SeqNos : up[n] \in X => up[n + 1] \in X
  <2>1. ASSUME NEW n \in SeqNos, up[n] \in X PROVE up[n + 1] \in X
    <3>1. n + 1 \in 0 .. NSeqs /\ n + 1 # 0 /\ (n + 1) - 1 = n
        BY <1>0 DEF SeqNos
    <3>2. up[n + 1] = IF n \in S THEN CumAcked(up[n], n) ELSE up[n]
        BY <1>7, <3>1
    <3> QED
        BY <1>2, <2>1, <3>2
  <2> QED
      BY <2>1
<1>10. up[NSeqs] \in X
    BY <1>3, <1>8, <1>9, StaysIn
<1> QED
    BY <1>1, <1>10 DEF X

\* addSAck, for the packets S.
LEMMA AddSAcksSound ==
    ASSUME NEW v, NEW p \in PdcType(v), Sound(p), NEW S, NEW ctrl
    PROVE  AddSAcks(p, S, ctrl) \in PdcType(v) /\ Sound(AddSAcks(p, S, ctrl))
<1> DEFINE X == {x \in PdcType(v) : Sound(x)}
           F == [t \in X |-> [q \in SeqNos |-> AddSAck(t, q, ctrl)]]
           Is(g) == g = [n \in 0 .. NSeqs |->
                            IF n = 0 THEN p
                            ELSE IF n - 1 \in S THEN AddSAck(g[n - 1], n - 1, ctrl) ELSE g[n - 1]]
           up == CHOOSE g : Is(g)
<1>0. NSeqs \in Nat
    BY NSeqsType
<1>1. AddSAcks(p, S, ctrl) = up[NSeqs]
    BY DEF AddSAcks, InOrder
<1>2. \A t \in X : \A q \in SeqNos : AddSAck(t, q, ctrl) \in X
    BY AddSAckSound
<1>3. p \in X
    OBVIOUS
<1>4. F \in [X -> [SeqNos -> X]] /\ \A t \in X : \A q \in SeqNos : F[t][q] = AddSAck(t, q, ctrl)
    BY <1>2
<1> HIDE DEF X, F
<1>a. Stepped(X, p, S, F)
    BY <1>3, <1>4, InOrderSteps
<1>5. PICK g \in [0 .. NSeqs -> X] :
          \A n \in 0 .. NSeqs : g[n] = IF n = 0 THEN p
                                       ELSE IF n - 1 \in S THEN F[g[n - 1]][n - 1] ELSE g[n - 1]
    BY <1>a DEF Stepped
<1>6. Is(g)
  <2>1. ASSUME NEW n \in 0 .. NSeqs, n # 0 PROVE F[g[n - 1]][n - 1] = AddSAck(g[n - 1], n - 1, ctrl)
    <3>1. n - 1 \in SeqNos /\ n - 1 \in 0 .. NSeqs
        BY <1>0, <2>1 DEF SeqNos
    <3> QED
        BY <1>4, <1>5, <3>1
  <2> QED
      BY <1>5, <2>1
<1>7. Is(up)
    BY <1>6
<1> HIDE DEF up
<1>8. up[0] = p
    BY <1>0, <1>7
<1>9. \A n \in SeqNos : up[n] \in X => up[n + 1] \in X
  <2>1. ASSUME NEW n \in SeqNos, up[n] \in X PROVE up[n + 1] \in X
    <3>1. n + 1 \in 0 .. NSeqs /\ n + 1 # 0 /\ (n + 1) - 1 = n
        BY <1>0 DEF SeqNos
    <3>2. up[n + 1] = IF n \in S THEN AddSAck(up[n], n, ctrl) ELSE up[n]
        BY <1>7, <3>1
    <3> QED
        BY <1>2, <2>1, <3>2
  <2> QED
      BY <2>1
<1>10. up[NSeqs] \in X
    BY <1>3, <1>8, <1>9, StaysIn
<1> QED
    BY <1>1, <1>10 DEF X

LEMMA AddCumAckSound ==
    ASSUME NEW v, NEW p \in PdcType(v), Sound(p), NEW cum
    PROVE  AddCumAck(p, cum) \in PdcType(v) /\ Sound(AddCumAck(p, cum))
<1> DEFINE S == {q \in DOMAIN p.owner : q < cum}
           a == InOrder(CumAcked, p, S)
<1>1. a \in PdcType(v) /\ Sound(a)
    BY CumAcksSound
<1>2. AddCumAck(p, cum) = ResetMax(a)
    BY DEF AddCumAck
<1> HIDE DEF a
<1> QED
    BY <1>1, <1>2, ResetMaxSound

\* A handler of the sender: its packets are counted, its RTS gives the number.
LEMMA EmittedSound ==
    ASSUME NEW v, NEW p \in PdcType(v), Sound(p), NEW s
    PROVE  Emitted(p, s) \in PdcType(Emitted(p, s).maxSeq) /\ Sound(Emitted(p, s))
<1> DEFINE S == {m.seq : m \in {m \in s.out : m.type = "data" /\ ~m.rtx}}
           rts == {m \in s.out : m.type = "rts"}
           a == InOrder(GetNextPacket, p, S)
           w == IF rts = {} THEN a.maxSeq ELSE (CHOOSE m \in rts : TRUE).seq
           t == [a EXCEPT !.maxSeq = w]
<1>1. a \in PdcType(v) /\ Sound(a)
    BY NextPacketsSound
<1>2. Emitted(p, s) = [a EXCEPT !.maxSeq = IF rts = {} THEN @ ELSE (CHOOSE m \in rts : TRUE).seq]
    BY DEF Emitted
<1> HIDE DEF a, rts
<1>3. Emitted(p, s) = t
    BY <1>1, <1>2 DEF PdcType
<1> HIDE DEF w
<1>4. /\ t.maxSeq = w /\ t.known = a.known /\ t.scheduled = a.scheduled
      /\ t.triggered = a.triggered /\ t.eligible = a.eligible /\ t.cur = a.cur
      /\ t.inFlight = a.inFlight /\ t.complete = a.complete /\ t.fired = a.fired /\ t.msg = a.msg
    BY <1>1 DEF PdcType
<1>5. t \in PdcType(w)
    BY <1>1 DEF PdcType
<1> HIDE DEF t
<1>6. Sound(t)
    BY <1>1, <1>4, SoundStill
<1> QED
    BY <1>3, <1>4, <1>5, <1>6

\* checkFinished and checkDoneSending
LEMMA CheckedSound ==
    ASSUME NEW v, NEW p \in PdcType(v), Sound(p)
    PROVE  Checked(p) \in PdcType(v) /\ Sound(Checked(p))
<1> DEFINE a == Fails(p, AllAcked(p) # (p.inFlight = {} /\ p.eligible = <<>>), "counters")
           b == Fails(a, AllAcked(p) /\ (p.cur # 0 \/ p.sent # p.acked \/ p.recvd # p.acked), "counters")
           c == Fails(b, AllAcked(p) /\ Len(p.complete) # Cardinality(p.known), "messages_left")
<1>1. {"counters", "messages_left"} \subseteq Assertions \ {"message", "trigger"}
    BY DEF Assertions
<1>2. a \in PdcType(v) /\ Sound(a)
    BY <1>1, FailsSound
<1> HIDE DEF a
<1>3. b \in PdcType(v) /\ Sound(b)
    BY <1>1, <1>2, FailsSound
<1> HIDE DEF b
<1>4. c \in PdcType(v) /\ Sound(c)
    BY <1>1, <1>3, FailsSound
<1> QED
    BY <1>4 DEF Checked, a, b

\* The assertions of isActivelySending and continueConnection.
LEMMA CheckScheduleSound ==
    ASSUME NEW v, NEW p \in PdcType(v), Sound(p), NEW s, NEW n
    PROVE  CheckSchedule(p, s, n) \in PdcType(v) /\ Sound(CheckSchedule(p, s, n))
<1> DEFINE idle == s.started /\ ~IsActivelySending(s)
           a == Fails(p, idle /\ s.done /\ s.rto # 0, "timer_left")
           b == Fails(a, idle /\ ~s.done /\ s.rto = 0, "no_timer")
           c == Fails(b, idle /\ s.rto = 0 /\ ~T!IsSendPermitted(AddToBacklog(s, n)), "no_timer")
<1>1. {"timer_left", "no_timer"} \subseteq Assertions \ {"message", "trigger"}
    BY DEF Assertions
<1>2. a \in PdcType(v) /\ Sound(a)
    BY <1>1, FailsSound
<1> HIDE DEF a
<1>3. b \in PdcType(v) /\ Sound(b)
    BY <1>1, <1>2, FailsSound
<1> HIDE DEF b
<1>4. c \in PdcType(v) /\ Sound(c)
    BY <1>1, <1>3, FailsSound
<1> QED
    BY <1>4 DEF CheckSchedule, a, b

\* makeMsgEligible: messages that waited may send now.
LEMMA MakeEligibleSound ==
    ASSUME NEW v, NEW p \in PdcType(v), Sound(p), NEW ms, ms \subseteq Waiting(p),
           \A t \in ms : t \in p.triggered => Reached(p, t) /\ t \notin Members(p.fired)
    PROVE  MakeEligible(p, ms) \in PdcType(v) /\ Sound(MakeEligible(p, ms))
<1> DEFINE u == Ascending(ms)
           e == p.eligible \o u
           c == p.scheduled \ ms
           d == p.triggered \ ms
           n == p.eligiblePkts + PktsOf(ms)
           s == MakeEligible(p, ms)
<1>1. /\ p.eligible \in Seq(Msgs) /\ p.scheduled \in SUBSET Msgs /\ p.triggered \in SUBSET Msgs
      /\ p.eligiblePkts \in Nat /\ p.known \in SUBSET Msgs
    BY DEF PdcType
<1>2. ms \in SUBSET Msgs
    BY <1>1 DEF Waiting
<1>3. /\ \A k \in Msgs : MsgSound(k, p.msg[k])
      /\ Msgs \ Fresh(p) \subseteq p.known
      /\ p.known \cap Fresh(p) = Waiting(p) \cup Members(p.eligible)
      /\ p.scheduled \cap p.triggered = {} /\ Waiting(p) \cap Members(p.eligible) = {}
      /\ p.inFlight = Msgs \ (Fresh(p) \cup Finished(p))
      /\ Members(p.complete) = Finished(p)
      /\ Once(p.eligible) /\ Once(p.complete)
      /\ p.cur \notin Fresh(p) \cup Gone(p)
    BY DEF Sound, Placed
<1>4. /\ p.scheduled \cap DOMAIN After = {} /\ p.triggered \subseteq DOMAIN After
      /\ Once(p.fired)
      /\ \A t \in Members(p.fired) : t \in p.triggered /\ Reached(p, t)
      /\ \A t \in DOMAIN After \cap p.known : t \notin p.triggered => Reached(p, t)
      /\ \A m \in p.known : \A k \in Msgs : Batch[k] = Batch[m] => k \in p.known
    BY DEF Sound, Awaiting
<1>5. u \in Seq(Msgs) /\ Members(u) = ms /\ Once(u)
    BY <1>2, AscendingIs
<1>6. PktsOf(ms) \in Nat
    BY <1>2, PktsOfType
<1>7. e \in Seq(Msgs) /\ Members(e) = Members(p.eligible) \cup ms /\ Once(e)
  <2>1. Members(p.eligible) \cap Members(u) = {}
      BY <1>3, <1>5
  <2> HIDE DEF u
  <2> QED
      BY <1>1, <1>3, <1>5, <2>1, Appending
<1>8. n \in Nat /\ c \in SUBSET Msgs /\ d \in SUBSET Msgs
    BY <1>1, <1>6
<1>9. s = [p EXCEPT !.eligible = e, !.scheduled = c, !.triggered = d, !.eligiblePkts = n]
    BY DEF MakeEligible, PdcType
<1> HIDE DEF u, e, n, s
<1>10. s \in PdcType(v)
  <2> HIDE DEF c, d
  <2> QED
      BY <1>7, <1>8, <1>9 DEF PdcType
<1>11. /\ s.known = p.known /\ s.scheduled = c /\ s.triggered = d /\ s.eligible = e
       /\ s.cur = p.cur /\ s.inFlight = p.inFlight /\ s.complete = p.complete
       /\ s.fired = p.fired /\ s.msg = p.msg
    BY <1>9 DEF PdcType
<1>12. Fresh(s) = Fresh(p) /\ Gone(s) = Gone(p) /\ Finished(s) = Finished(p)
    BY <1>11, SetsSame
<1>13. Waiting(s) = Waiting(p) \ ms
    BY <1>11 DEF Waiting
<1>14. Placed(s)
  <2>1. s.known \cap Fresh(s) = Waiting(s) \cup Members(s.eligible)
      BY <1>3, <1>7, <1>11, <1>12, <1>13
  <2>2. s.scheduled \cap s.triggered = {} /\ Waiting(s) \cap Members(s.eligible) = {}
      BY <1>3, <1>7, <1>11, <1>13
  <2> QED
      BY <1>3, <1>7, <1>11, <1>12, <2>1, <2>2 DEF Placed
<1>15. Awaiting(s)
  <2>1. \A t : Reached(s, t) <=> Reached(p, t)
      BY <1>11 DEF Reached
  <2>2. \A t \in Members(s.fired) : t \in s.triggered /\ Reached(s, t)
      BY <1>4, <1>11, <2>1
  <2>3. \A t \in DOMAIN After \cap s.known : t \notin s.triggered => Reached(s, t)
      BY <1>4, <1>11, <2>1
  <2> QED
      BY <1>4, <1>11, <2>2, <2>3 DEF Awaiting
<1>16. \A k \in Msgs : MsgSound(k, s.msg[k])
    BY <1>3, <1>11
<1> QED
    BY <1>10, <1>14, <1>15, <1>16 DEF Sound, s

-----------------------------------------------------------------------------
(* The inductive invariant, and what follows from it.                      *)

MessagesSound == pdc \in PdcType(pdc.maxSeq) /\ Sound(pdc)

LEMMA InitSound == Init => MessagesSound
<1> SUFFICES ASSUME Init PROVE MessagesSound
    OBVIOUS
<1> DEFINE r(m) == [status |-> "init", unsent |-> MsgPkts[m], notrecvd |-> {}, notacked |-> {},
                    recvd |-> 0, acked |-> 0]
           msg == [m \in Msgs |-> r(m)]
           o == <<>>
<1>1. pdc = [known |-> {}, scheduled |-> {}, triggered |-> {}, eligible |-> <<>>, cur |-> 0,
             inFlight |-> {}, complete |-> <<>>, owner |-> o, maxSeq |-> -1, fired |-> <<>>,
             msg |-> msg, eligiblePkts |-> 0, sent |-> 0, recvd |-> 0, acked |-> 0, fault |-> "none"]
    BY DEF Init
<1>2. \A m \in Msgs : /\ r(m) \in MsgRec /\ r(m).unsent = MsgPkts[m] /\ r(m).recvd = 0
                      /\ r(m).acked = 0 /\ r(m).notrecvd = {} /\ r(m).notacked = {}
                      /\ r(m).status = "init" /\ MsgPkts[m] \in Nat \ {0}
    BY MsgsAre DEF MsgRec, Statuses
<1> HIDE DEF r
<1>3. \A m \in Msgs : MsgSound(m, r(m))
  <2>1. ASSUME NEW m \in Msgs PROVE MsgSound(m, r(m))
    <3>1. Cardinality(r(m).notrecvd) = 0 /\ Cardinality(r(m).notacked) = 0
        BY <1>2, FS_EmptySet
    <3> DEFINE x == Cardinality(r(m).notrecvd)
               y == Cardinality(r(m).notacked)
    <3> HIDE DEF x, y
    <3>2. x = 0 /\ y = 0
        BY <3>1 DEF x, y
    <3>3. r(m).recvd + x + r(m).unsent <= MsgPkts[m] /\ r(m).acked + y <= r(m).recvd
        BY <1>2, <3>2
    <3>4. r(m).status = StatusOf(m, r(m))
        BY <1>2 DEF StatusOf
    <3> QED
        BY <1>2, <3>3, <3>4 DEF MsgSound, x, y
  <2> QED
      BY <2>1
<1>4. o \in Owners
  <2>1. o \in [{} -> Msgs] /\ {} \in SUBSET SeqNos
      OBVIOUS
  <2> QED
      BY <2>1 DEF Owners
<1>5. msg \in [Msgs -> MsgRec] /\ \A m \in Msgs : msg[m] = r(m)
    BY <1>2
<1> HIDE DEF msg, o
<1>6. pdc \in PdcType(pdc.maxSeq)
    BY <1>1, <1>4, <1>5 DEF PdcType, Assertions
<1>7. /\ pdc.known = {} /\ pdc.scheduled = {} /\ pdc.triggered = {} /\ pdc.eligible = <<>>
      /\ pdc.cur = 0 /\ pdc.inFlight = {} /\ pdc.complete = <<>> /\ pdc.fired = <<>> /\ pdc.msg = msg
    BY <1>1
<1>8. Members(<<>>) = {} /\ Once(<<>>)
    BY DEF Members, Once
<1>9. Fresh(pdc) = Msgs /\ Finished(pdc) = {} /\ Gone(pdc) = {}
    BY <1>2, <1>5, <1>7 DEF Fresh, Finished, Gone
<1>10. Placed(pdc)
    BY <1>7, <1>8, <1>9, MsgsAre DEF Placed, Waiting
<1>11. Awaiting(pdc)
    BY <1>7, <1>8 DEF Awaiting
<1> QED
    BY <1>3, <1>5, <1>6, <1>7, <1>10, <1>11 DEF MessagesSound, Sound

\* enque: the messages of a batch come together.
LEMMA EnqueSound == ASSUME MessagesSound, Enque PROVE MessagesSound'
<1> DEFINE next == {m \in Msgs \ pdc.known : \A n \in Msgs \ pdc.known : Batch[m] <= Batch[n]}
           c == pdc.scheduled \cup (next \ DOMAIN After)
           d == pdc.triggered \cup (next \cap DOMAIN After)
           k == pdc.known \cup next
<1>1. pdc' = [pdc EXCEPT !.known = k, !.scheduled = c, !.triggered = d]
    BY DEF Enque, MessagesSound, PdcType
<1>2. pdc \in PdcType(pdc.maxSeq) /\ Sound(pdc)
    BY DEF MessagesSound
<1>3. /\ pdc.scheduled \in SUBSET Msgs /\ pdc.triggered \in SUBSET Msgs /\ pdc.known \in SUBSET Msgs
    BY <1>2 DEF PdcType
<1>4. next \subseteq Msgs \ pdc.known
    OBVIOUS
<1>5. k \in SUBSET Msgs /\ c \in SUBSET Msgs /\ d \in SUBSET Msgs
    BY <1>3, <1>4
<1>6. \A m \in k : \A n \in Msgs : Batch[n] = Batch[m] => n \in k
  <2>1. \A m \in pdc.known : \A n \in Msgs : Batch[n] = Batch[m] => n \in pdc.known
      BY <1>2 DEF Sound, Awaiting
  <2>2. \A m \in next : \A n \in Msgs \ pdc.known : Batch[n] = Batch[m] => n \in next
      OBVIOUS
  <2> QED
      BY <2>1, <2>2
<1> HIDE DEF next, c, d, k
<1>7. pdc' \in PdcType(pdc'.maxSeq)
    BY <1>1, <1>2, <1>5 DEF PdcType
<1>8. /\ pdc'.known = k /\ pdc'.scheduled = c /\ pdc'.triggered = d
      /\ pdc'.eligible = pdc.eligible /\ pdc'.cur = pdc.cur /\ pdc'.inFlight = pdc.inFlight
      /\ pdc'.complete = pdc.complete /\ pdc'.fired = pdc.fired /\ pdc'.msg = pdc.msg
    BY <1>1, <1>2 DEF PdcType
<1>9. /\ \A m \in Msgs : MsgSound(m, pdc.msg[m])
      /\ Msgs \ Fresh(pdc) \subseteq pdc.known
      /\ pdc.known \cap Fresh(pdc) = Waiting(pdc) \cup Members(pdc.eligible)
      /\ pdc.scheduled \cap pdc.triggered = {} /\ Waiting(pdc) \cap Members(pdc.eligible) = {}
      /\ pdc.inFlight = Msgs \ (Fresh(pdc) \cup Finished(pdc))
      /\ Members(pdc.complete) = Finished(pdc)
      /\ Once(pdc.eligible) /\ Once(pdc.complete)
      /\ pdc.cur \notin Fresh(pdc) \cup Gone(pdc)
    BY <1>2 DEF Sound, Placed
<1>10. /\ pdc.scheduled \cap DOMAIN After = {} /\ pdc.triggered \subseteq DOMAIN After
       /\ Once(pdc.fired)
       /\ \A t \in Members(pdc.fired) : t \in pdc.triggered /\ Reached(pdc, t)
       /\ \A t \in DOMAIN After \cap pdc.known : t \notin pdc.triggered => Reached(pdc, t)
    BY <1>2 DEF Sound, Awaiting
<1> DEFINE p1 == pdc'
<1> HIDE DEF p1
<1>11. /\ p1.known = k /\ p1.scheduled = c /\ p1.triggered = d
       /\ p1.eligible = pdc.eligible /\ p1.cur = pdc.cur /\ p1.inFlight = pdc.inFlight
       /\ p1.complete = pdc.complete /\ p1.fired = pdc.fired /\ p1.msg = pdc.msg
    BY <1>8 DEF p1
<1>12. Fresh(p1) = Fresh(pdc) /\ Gone(p1) = Gone(pdc) /\ Finished(p1) = Finished(pdc)
    BY <1>11, SetsSame
<1>13. Waiting(p1) = Waiting(pdc) \cup next
    BY <1>11 DEF Waiting, c, d
<1>14. next \subseteq Fresh(pdc) /\ k = pdc.known \cup next
    BY <1>4, <1>9 DEF k
<1>15. Placed(p1)
  <2>1. p1.known \cap Fresh(p1) = Waiting(p1) \cup Members(p1.eligible)
      BY <1>9, <1>11, <1>12, <1>13, <1>14
  <2>2. Waiting(p1) \cap Members(p1.eligible) = {}
    <3>1. Members(pdc.eligible) \subseteq pdc.known
        BY <1>9
    <3> QED
        BY <1>4, <1>9, <1>11, <1>13, <3>1
  <2>3. p1.scheduled \cap p1.triggered = {}
      BY <1>9, <1>10, <1>11 DEF c, d
  <2>4. Msgs \ Fresh(p1) \subseteq p1.known
      BY <1>9, <1>11, <1>12, <1>14
  <2> QED
      BY <1>9, <1>11, <1>12, <2>1, <2>2, <2>3, <2>4 DEF Placed
<1>16. Awaiting(p1)
  <2>1. \A t : Reached(p1, t) <=> Reached(pdc, t)
      BY <1>11 DEF Reached
  <2>2. p1.scheduled \cap DOMAIN After = {} /\ p1.triggered \subseteq DOMAIN After
      BY <1>10, <1>11 DEF c, d
  <2>3. \A t \in Members(p1.fired) : t \in p1.triggered /\ Reached(p1, t)
      BY <1>10, <1>11, <2>1 DEF d
  <2>4. \A t \in DOMAIN After \cap p1.known : t \notin p1.triggered => Reached(p1, t)
      BY <1>10, <1>11, <1>14, <2>1 DEF d
  <2> QED
      BY <1>6, <1>10, <1>11, <2>2, <2>3, <2>4 DEF Awaiting
<1>17. \A m \in Msgs : MsgSound(m, p1.msg[m])
    BY <1>9, <1>11
<1>18. Sound(p1)
    BY <1>15, <1>16, <1>17 DEF Sound
<1>19. Sound(pdc)'
    BY <1>18 DEF p1
<1> QED
    BY <1>7, <1>19 DEF MessagesSound

LEMMA ScheduleSound ==
    ASSUME NEW v, NEW p \in PdcType(v), Sound(p), NEW ms, ms \subseteq Waiting(p),
           \A t \in ms : t \in p.triggered => Reached(p, t) /\ t \notin Members(p.fired),
           Schedule(p, ms)
    PROVE  MessagesSound'
<1> DEFINE a == MakeEligible(p, ms)
           b == CheckSchedule(a, src, PktsOf(ms))
           s == ScheduleConnection(src, PktsOf(ms))
           t == Emitted(b, s)
<1>1. pdc' = t
    BY DEF Schedule, SrcDone
<1>2. a \in PdcType(v) /\ Sound(a)
    BY MakeEligibleSound
<1> HIDE DEF a
<1>3. b \in PdcType(v) /\ Sound(b)
    BY <1>2, CheckScheduleSound
<1> HIDE DEF b, s
<1>4. t \in PdcType(t.maxSeq) /\ Sound(t)
    BY <1>3, EmittedSound
<1> HIDE DEF t
<1> QED
    BY <1>1, <1>4 DEF MessagesSound

LEMMA DueSound == ASSUME MessagesSound, Due PROVE MessagesSound'
<1> DEFINE ms == {m \in pdc.scheduled : \A n \in pdc.scheduled : Slot[m] <= Slot[n]}
<1>1. Schedule(pdc, ms)
    BY DEF Due
<1>2. pdc \in PdcType(pdc.maxSeq) /\ Sound(pdc)
    BY DEF MessagesSound
<1>3. ms \subseteq pdc.scheduled
    OBVIOUS
<1> HIDE DEF ms
<1>4. ms \subseteq Waiting(pdc) /\ \A t \in ms : t \notin pdc.triggered
    BY <1>2, <1>3 DEF Waiting, Sound, Placed
<1> QED
    BY <1>1, <1>2, <1>4, ScheduleSound

LEMMA ActivateSound == ASSUME MessagesSound, Activate PROVE MessagesSound'
<1> DEFINE m == pdc.fired[Len(pdc.fired)]
           f == SubSeq(pdc.fired, 1, Len(pdc.fired) - 1)
           a == [pdc EXCEPT !.fired = f]
           p == Fails(a, m \notin pdc.triggered, "trigger")
<1>1. pdc \in PdcType(pdc.maxSeq) /\ Sound(pdc)
    BY DEF MessagesSound
<1>2. Schedule(p, {m}) /\ pdc.fired # <<>>
    BY <1>1 DEF Activate, PdcType
<1>3. pdc.fired \in Seq(Msgs) /\ Once(pdc.fired)
    BY <1>1 DEF PdcType, Sound, Awaiting
<1>4. /\ f \in Seq(Msgs) /\ Members(f) = Members(pdc.fired) \ {m} /\ Once(f)
      /\ m \in Members(pdc.fired) /\ m \in Msgs
    BY <1>2, <1>3, FrontIs
<1>5. m \in pdc.triggered /\ Reached(pdc, m)
    BY <1>1, <1>4 DEF Sound, Awaiting
<1> HIDE DEF m, f
<1>6. p = a
    BY <1>1, <1>5 DEF Fails, PdcType
<1>7. /\ a \in PdcType(pdc.maxSeq) /\ a.known = pdc.known /\ a.scheduled = pdc.scheduled
      /\ a.triggered = pdc.triggered /\ a.eligible = pdc.eligible /\ a.cur = pdc.cur
      /\ a.inFlight = pdc.inFlight /\ a.complete = pdc.complete /\ a.fired = f /\ a.msg = pdc.msg
    BY <1>1, <1>4 DEF PdcType
<1> HIDE DEF a, p
<1>8. Fresh(a) = Fresh(pdc) /\ Gone(a) = Gone(pdc) /\ Finished(a) = Finished(pdc)
    BY <1>7, SetsSame
<1>9. \A t : Reached(a, t) <=> Reached(pdc, t)
    BY <1>7 DEF Reached
<1>10. Placed(a)
    BY <1>1, <1>7, <1>8 DEF Sound, Placed, Waiting
<1>11. Awaiting(a)
  <2>1. \A t \in Members(a.fired) : t \in a.triggered /\ Reached(a, t)
      BY <1>1, <1>4, <1>7, <1>9 DEF Sound, Awaiting
  <2> QED
      BY <1>1, <1>4, <1>7, <1>9, <2>1 DEF Sound, Awaiting
<1>12. Sound(a)
    BY <1>1, <1>7, <1>10, <1>11 DEF Sound
<1>13. {m} \subseteq Waiting(a)
    BY <1>5, <1>7 DEF Waiting
<1>14. \A t \in {m} : t \in a.triggered => Reached(a, t) /\ t \notin Members(a.fired)
    BY <1>4, <1>5, <1>7, <1>9
<1>15. Schedule(a, {m})
    BY <1>2, <1>6
<1> QED
    BY <1>7, <1>12, <1>13, <1>14, <1>15, ScheduleSound

\* What a handler of the sender leaves is sound when what it counts on is.
LEMMA SrcDoneSound ==
    ASSUME NEW v, NEW p \in PdcType(v), Sound(p), NEW s, NEW consumed, SrcDone(s, p, consumed)
    PROVE  MessagesSound'
<1> DEFINE t == Emitted(p, s)
<1>1. pdc' = t
    BY DEF SrcDone
<1>2. t \in PdcType(t.maxSeq) /\ Sound(t)
    BY EmittedSound
<1> HIDE DEF t
<1> QED
    BY <1>1, <1>2 DEF MessagesSound

LEMMA ReceiveAckSound ==
    ASSUME MessagesSound, NEW m, NEW w, ReceiveAck(m, w) PROVE MessagesSound'
<1> DEFINE newly == IF m.recvd > src.recvd THEN m.recvd - src.recvd ELSE 0
           a == T!HandleCumulativeAck([src EXCEPT !.recvd = @ + newly, !.inFlight = @ - newly], m.cum)
           b == [T!HandleSacks(a, m.sacks) EXCEPT !.cwnd = w]
           S == m.sacks \cap (DOMAIN a.tx \cup a.rtxQueue)
           q == AddCumAck(pdc, m.cum)
           p == AddSAcks(q, S, src.ctrl)
           c == CheckFinished(b, p)
           d == IF src.done THEN p ELSE Checked(p)
           s == IF c.done THEN c ELSE T!SendIfPermitted(c)
<1>1. SrcDone(s, d, {m})
    BY DEF ReceiveAck
<1> HIDE DEF s, S, a, b, c
<1>2. pdc \in PdcType(pdc.maxSeq) /\ Sound(pdc)
    BY DEF MessagesSound
<1>3. q \in PdcType(pdc.maxSeq) /\ Sound(q)
    BY <1>2, AddCumAckSound
<1> HIDE DEF q
<1>4. p \in PdcType(pdc.maxSeq) /\ Sound(p)
    BY <1>3, AddSAcksSound
<1> HIDE DEF p
<1>5. d \in PdcType(pdc.maxSeq) /\ Sound(d)
    BY <1>4, CheckedSound
<1> HIDE DEF d
<1> QED
    BY <1>1, <1>5, SrcDoneSound

LEMMA NextSound == ASSUME MessagesSound, [Next]_vars PROVE MessagesSound'
<1>1. pdc \in PdcType(pdc.maxSeq) /\ Sound(pdc)
    BY DEF MessagesSound
<1>2. ASSUME UNCHANGED pdc PROVE MessagesSound'
    BY <1>1, <1>2 DEF MessagesSound
<1>3. ASSUME NEW s, NEW consumed, SrcDone(s, pdc, consumed) PROVE MessagesSound'
    BY <1>1, <1>3, SrcDoneSound
<1>4. ASSUME NEW q, pdc' = AddRecvd(pdc, q) PROVE MessagesSound'
  <2> DEFINE t == AddRecvd(pdc, q)
  <2>1. t \in PdcType(pdc.maxSeq) /\ Sound(t)
      BY <1>1, AddRecvdSound
  <2>2. t \in PdcType(t.maxSeq)
    <3> HIDE DEF t
    <3> QED
        BY <2>1 DEF PdcType
  <2>3. pdc' = t
      BY <1>4
  <2> HIDE DEF t
  <2> QED
      BY <2>1, <2>2, <2>3 DEF MessagesSound
<1>5. CASE Enque
    BY <1>5, EnqueSound
<1>6. CASE Due
    BY <1>6, DueSound
<1>7. CASE Activate
    BY <1>7, ActivateSound
<1>8. CASE PortFree
    BY <1>3, <1>8 DEF PortFree
<1>9. CASE OtherTraffic
    BY <1>2, <1>9 DEF OtherTraffic
<1>10. CASE Expire
    BY <1>3, <1>10 DEF Expire, TimerExpires
<1>11. ASSUME NEW m \in net, Deliver(m) PROVE MessagesSound'
  <2>1. ASSUME NEW w \in CwndValues, ReceiveAck(m, w) PROVE MessagesSound'
      BY <2>1, ReceiveAckSound
  <2>2. ASSUME NEW w \in CwndValues, ReceiveNack(m, w) PROVE MessagesSound'
      BY <1>3, <2>2 DEF ReceiveNack
  <2>3. ASSUME NEW ecn \in BOOLEAN, ReceiveData(m, ecn) PROVE MessagesSound'
      BY <1>4, <2>3 DEF ReceiveData
  <2>4. CASE ReceiveTrimmed(m)
      BY <1>2, <2>4 DEF ReceiveTrimmed
  <2>5. CASE ReceiveRts(m)
      BY <1>4, <2>5 DEF ReceiveRts
  <2> QED
      BY <1>11, <2>1, <2>2, <2>3, <2>4, <2>5 DEF Deliver
<1>12. ASSUME NEW m \in net, Lose(m) \/ Trim(m) PROVE MessagesSound'
    BY <1>2, <1>12 DEF Lose, Trim
<1>13. CASE UNCHANGED vars
    BY <1>2, <1>13 DEF vars
<1> QED
    BY <1>5, <1>6, <1>7, <1>8, <1>9, <1>10, <1>11, <1>12, <1>13 DEF Next

\* The state of every message and of the lists is sound at all times, whatever the
\* handlers of the sender pass on to the tracker.
THEOREM SoundAlways == Spec => []MessagesSound
BY InitSound, NextSound, PTL DEF Spec

\* A triggered message sends nothing before the message it waits for is sent,
\* received or finished, whichever its trigger names, in whatever order packets
\* and acknowledgements come (UecMsg::set_status, UecMsg::activate): a message
\* that has sent is known and no longer triggered.
THEOREM MessagesKeepCausalOrder == Spec => []CausalOrder
<1>1. ASSUME MessagesSound PROVE CausalOrder
  <2>1. /\ \A m \in Msgs : MsgSound(m, pdc.msg[m])
        /\ Placed(pdc) /\ Awaiting(pdc) /\ pdc.triggered \in SUBSET Msgs
      BY <1>1 DEF MessagesSound, Sound, PdcType
  <2>2. ASSUME NEW m \in DOMAIN After, pdc.msg[m].status # "init"
        PROVE  CASE After[m].status = "sentLast" -> pdc.msg[After[m].msg].unsent = 0
                 [] After[m].status = "recvdLast" ->
                        pdc.msg[After[m].msg].status \in {"recvdLast", "finished"}
                 [] OTHER -> pdc.msg[After[m].msg].status = "finished"
    <3> DEFINE n == After[m].msg
               r == pdc.msg[m]
               s == pdc.msg[n]
    <3>1. m \in Msgs /\ n \in Msgs
        BY AfterIs
    <3>2. MsgSound(m, r) /\ MsgSound(n, s)
        BY <2>1, <3>1
    <3>3. m \notin Fresh(pdc)
      <4>1. ASSUME r.unsent = MsgPkts[m] PROVE FALSE
        <5> HIDE DEF r
        <5>1. /\ MsgPkts[m] \in Nat \ {0} /\ r.recvd = 0 /\ r.acked \in Nat /\ r.acked <= r.recvd
            BY <3>1, <3>2, <4>1, CountsAre
        <5>2. r.acked # MsgPkts[m] /\ r.recvd # MsgPkts[m] /\ r.unsent # 0 /\ ~(r.unsent < MsgPkts[m])
            BY <4>1, <5>1
        <5>3. r.status = "init"
            BY <3>2, <5>2 DEF MsgSound, StatusOf
        <5> QED
            BY <2>2, <5>3 DEF r
      <4> QED
          BY <4>1 DEF Fresh
    <3>4. m \in pdc.known /\ m \notin pdc.triggered
        BY <2>1, <3>1, <3>3 DEF Placed, Waiting
    <3>5. ReachedBy(m, s)
        BY <2>1, <3>4 DEF Awaiting, Reached
    <3> HIDE DEF s
    <3>6. /\ s.recvd = MsgPkts[n] => s.status \in {"recvdLast", "finished"}
          /\ s.acked = MsgPkts[n] => s.status = "finished"
        BY <3>2 DEF MsgSound, StatusOf
    <3>7. CASE After[m].status = "sentLast"
        BY <3>5, <3>7 DEF ReachedBy, s
    <3>8. CASE After[m].status = "recvdLast"
        BY <3>5, <3>6, <3>8 DEF ReachedBy, s
    <3>9. CASE After[m].status # "sentLast" /\ After[m].status # "recvdLast"
        BY <3>5, <3>6, <3>9 DEF ReachedBy, s
    <3> QED
        BY <3>7, <3>8, <3>9
  <2> QED
      BY <2>2 DEF CausalOrder
<1> QED
    BY <1>1, SoundAlways, PTL

MessageAssertionsHold == pdc.fault \notin {"message", "trigger"}

\* The assertions of UecMsg::addRecvd and UecMsg::addAck, that a message is sent
\* to its end before it is received to its end, and received before it is acked,
\* and that of UecMsg::activate, that a message is triggered once, never fail.

THEOREM MessageAssertionsAlwaysHold == Spec => []MessageAssertionsHold
<1>1. MessagesSound => MessageAssertionsHold
    BY DEF MessagesSound, PdcType, MessageAssertionsHold
<1> QED
    BY <1>1, SoundAlways, PTL

LEMMA OneIndex ==
    ASSUME NEW s \in Seq(Msgs), Once(s), NEW x
    PROVE  /\ x \notin Members(s) => {j \in DOMAIN s : s[j] = x} = {}
           /\ x \in Members(s) => \E i \in DOMAIN s : {j \in DOMAIN s : s[j] = x} = {i}
<1>1. DOMAIN s = 1 .. Len(s)
    OBVIOUS
<1>2. \A i, j \in DOMAIN s : s[i] = s[j] => i = j
    BY <1>1 DEF Once
<1>3. x \notin Members(s) => {j \in DOMAIN s : s[j] = x} = {}
    BY <1>1 DEF Members
<1>4. ASSUME x \in Members(s) PROVE \E i \in DOMAIN s : {j \in DOMAIN s : s[j] = x} = {i}
  <2>1. PICK i \in DOMAIN s : s[i] = x
      BY <1>1, <1>4 DEF Members
  <2>2. {j \in DOMAIN s : s[j] = x} = {i}
      BY <1>2, <2>1
  <2> QED
      BY <2>2
<1> QED
    BY <1>3, <1>4

\* A message is in one place, whatever order triggers, times and acknowledgements
\* come in: it waits for its time or for its trigger, is eligible, in flight or
\* complete.
THEOREM MessagesAreInOnePlace == Spec => []OnePlace
<1>1. ASSUME MessagesSound PROVE OnePlace
  <2> DEFINE I(m) == {j \in DOMAIN pdc.eligible : pdc.eligible[j] = m}
             J(m) == {j \in DOMAIN pdc.complete : pdc.complete[j] = m}
             A(m) == {i \in {1} : m \in pdc.scheduled}
             B(m) == {i \in {2} : m \in pdc.triggered}
             C(m) == {i \in {3} : m \in pdc.inFlight}
             D(m) == {10 + i : i \in I(m)}
             E(m) == {20 + i : i \in J(m)}
  <2>1. /\ pdc.eligible \in Seq(Msgs) /\ pdc.complete \in Seq(Msgs) /\ pdc.known \in SUBSET Msgs
        /\ \A m \in Msgs : MsgSound(m, pdc.msg[m])
      BY <1>1 DEF MessagesSound, PdcType, Sound
  <2>2. /\ Msgs \ Fresh(pdc) \subseteq pdc.known
        /\ pdc.known \cap Fresh(pdc) = Waiting(pdc) \cup Members(pdc.eligible)
        /\ pdc.scheduled \cap pdc.triggered = {} /\ Waiting(pdc) \cap Members(pdc.eligible) = {}
        /\ pdc.inFlight = Msgs \ (Fresh(pdc) \cup Finished(pdc))
        /\ Members(pdc.complete) = Finished(pdc)
        /\ Once(pdc.eligible) /\ Once(pdc.complete)
      BY <1>1 DEF MessagesSound, Sound, Placed
  <2>3. Fresh(pdc) \cap Finished(pdc) = {}
      BY <2>1, FreshFacts
  <2>4. \A m : /\ m \notin Members(pdc.eligible) => I(m) = {}
               /\ m \in Members(pdc.eligible) => \E i : I(m) = {i}
               /\ m \notin Members(pdc.complete) => J(m) = {}
               /\ m \in Members(pdc.complete) => \E i : J(m) = {i}
      BY <2>1, <2>2, OneIndex
  <2> HIDE DEF I, J
  <2>5. ASSUME NEW m \in pdc.known
        PROVE  \E x : A(m) \cup B(m) \cup C(m) \cup D(m) \cup E(m) = {x}
    <3>0. m \in Msgs
        BY <2>1
    <3>1. CASE m \in pdc.scheduled
      <4>1. /\ m \notin pdc.triggered /\ m \notin pdc.inFlight /\ m \notin Members(pdc.eligible)
            /\ m \notin Members(pdc.complete)
          BY <2>2, <2>3, <3>1 DEF Waiting
      <4>2. A(m) = {1} /\ B(m) = {} /\ C(m) = {} /\ D(m) = {} /\ E(m) = {}
          BY <2>4, <3>1, <4>1
      <4> QED
          BY <4>2
    <3>2. CASE m \in pdc.triggered
      <4>1. /\ m \notin pdc.scheduled /\ m \notin pdc.inFlight /\ m \notin Members(pdc.eligible)
            /\ m \notin Members(pdc.complete)
          BY <2>2, <2>3, <3>2 DEF Waiting
      <4>2. A(m) = {} /\ B(m) = {2} /\ C(m) = {} /\ D(m) = {} /\ E(m) = {}
          BY <2>4, <3>2, <4>1
      <4> QED
          BY <4>2
    <3>3. CASE m \in Members(pdc.eligible)
      <4>1. /\ m \notin pdc.scheduled /\ m \notin pdc.triggered /\ m \notin pdc.inFlight
            /\ m \notin Members(pdc.complete)
          BY <2>2, <2>3, <3>3 DEF Waiting
      <4>2. PICK i : I(m) = {i}
          BY <2>4, <3>3
      <4>3. A(m) = {} /\ B(m) = {} /\ C(m) = {} /\ D(m) = {10 + i} /\ E(m) = {}
          BY <2>4, <4>1, <4>2
      <4> QED
          BY <4>3
    <3>4. CASE m \in Finished(pdc)
      <4>1. /\ m \notin pdc.scheduled /\ m \notin pdc.triggered /\ m \notin pdc.inFlight
            /\ m \notin Members(pdc.eligible) /\ m \in Members(pdc.complete)
          BY <2>2, <2>3, <3>4 DEF Waiting
      <4>2. PICK i : J(m) = {i}
          BY <2>4, <4>1
      <4>3. A(m) = {} /\ B(m) = {} /\ C(m) = {} /\ D(m) = {} /\ E(m) = {20 + i}
          BY <2>4, <4>1, <4>2
      <4> QED
          BY <4>3
    <3>5. CASE m \notin Waiting(pdc) \cup Members(pdc.eligible) \cup Finished(pdc)
      <4>1. /\ m \notin pdc.scheduled /\ m \notin pdc.triggered /\ m \in pdc.inFlight
            /\ m \notin Members(pdc.eligible) /\ m \notin Members(pdc.complete)
          BY <2>2, <3>0, <3>5 DEF Waiting
      <4>2. A(m) = {} /\ B(m) = {} /\ C(m) = {3} /\ D(m) = {} /\ E(m) = {}
          BY <2>4, <4>1
      <4> QED
          BY <4>2
    <3> QED
        BY <3>1, <3>2, <3>3, <3>4, <3>5 DEF Waiting
  <2>6. ASSUME NEW m \in pdc.known
        PROVE  Cardinality(A(m) \cup B(m) \cup C(m) \cup D(m) \cup E(m)) = 1
    <3>1. PICK x : A(m) \cup B(m) \cup C(m) \cup D(m) \cup E(m) = {x}
        BY <2>5
    <3> HIDE DEF A, B, C, D, E
    <3>2. Cardinality({x}) = 1
        BY FS_Singleton
    <3> QED
        BY <3>1, <3>2
  <2> QED
      BY <2>6 DEF OnePlace, I, J
<1> QED
    BY <1>1, SoundAlways, PTL
=============================================================================
