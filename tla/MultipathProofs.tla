--------------------------- MODULE MultipathProofs ---------------------------
(***************************************************************************)
(* Proofs about sending over several paths.                                *)
(*                                                                         *)
(* Spraying, for any number of paths, packets, sizes, limits and weights:  *)
(* the queues count their bytes, keep their limits and serve what they     *)
(* hold, the pipes keep order, the receiver's bitmap is the set received.  *)
(* First the structures these rest on.                                     *)
(*                                                                         *)
(* PathSelection, for any power of two of paths, any penalties and any     *)
(* ring: oblivious spraying is even, the count of the penalised paths is   *)
(* exact and the scan passes them over, the ring of reps is a queue.       *)
(* First the exclusive or, which these rest on: it is defined by           *)
(* recursion, and is its own inverse.                                      *)
(***************************************************************************)
EXTENDS Spraying, PathSelection, ArithmeticTheorems, SequenceTheorems

-----------------------------------------------------------------------------
(* The ring is a sequence: for any size, any items and any point at which  *)
(* it grows, items leave in the order they came and none is lost.          *)

\* The items of a ring, as a sequence.
LEMMA ContentsOf ==
    ASSUME NEW Item, NEW r, IsRing(r, Item)
    PROVE  /\ Contents(r) \in Seq(Item) /\ Len(Contents(r)) = r.count
           /\ \A i \in 1 .. r.count :
                  /\ Wrap(r.pop + i - 1, r.size) \in 0 .. r.size - 1
                  /\ Contents(r)[i] = r.slots[Wrap(r.pop + i - 1, r.size)]
           /\ r.push = Wrap(r.pop + r.count, r.size)
<1> DEFINE n == r.size
           c == r.count
           first == r.pop
           slots == r.slots
           s == Contents(r)
<1>1. /\ n \in Nat \ {0} /\ c \in 0 .. n - 1 /\ first \in 0 .. n - 1
      /\ slots \in [0 .. n - 1 -> Item] /\ r.push = (first + c) % n
    BY DEF IsRing
<1>2. s = [i \in 1 .. c |-> slots[(first + i - 1) % n]]
    BY DEF Contents
<1> HIDE DEF n, c, first, slots, s
<1>3. ASSUME NEW i \in 1 .. c
      PROVE  /\ (first + i - 1) % n = Wrap(first + i - 1, n)
             /\ Wrap(first + i - 1, n) \in 0 .. n - 1
  <2>1. first + i - 1 \in Nat /\ first + i - 1 < 2 * n
      BY <1>1
  <2> QED
      BY <1>1, <2>1, SlotOf
<1>4. \A i \in 1 .. c : slots[(first + i - 1) % n] \in Item
    BY <1>1, <1>3
<1>5. c \in Nat
    BY <1>1
<1>6. s \in Seq(Item) /\ Len(s) = c
    BY <1>2, <1>4, <1>5
<1>7. \A i \in 1 .. c : s[i] = slots[Wrap(first + i - 1, n)]
    BY <1>2, <1>3
<1>8. r.push = Wrap(first + c, n)
  <2>1. first + c \in Nat /\ first + c < 2 * n
      BY <1>1
  <2> QED
      BY <1>1, <2>1, SlotOf
<1> QED
    BY <1>3, <1>6, <1>7, <1>8 DEF n, c, first, slots, s

\* A ring is known by its fields.
LEMMA RingFrom ==
    ASSUME NEW Item, NEW n \in Nat \ {0}, NEW slots \in [0 .. n - 1 -> Item],
           NEW c \in 0 .. n - 1, NEW first \in 0 .. n - 1,
           NEW r, r = Ring(slots, Wrap(first + c, n), first, c, n)
    PROVE  IsRing(r, Item)
<1>1. first + c \in Nat /\ first + c < 2 * n
    OBVIOUS
<1>2. Wrap(first + c, n) \in 0 .. n - 1 /\ Wrap(first + c, n) = (first + c) % n
    BY <1>1, SlotOf
<1>3. /\ r.slots = slots /\ r.push = Wrap(first + c, n) /\ r.pop = first
      /\ r.count = c /\ r.size = n
    BY DEF Ring
<1> QED
    BY <1>2, <1>3 DEF IsRing

\* Growing moves what had wrapped around, and changes nothing to be seen.
LEMMA GrowKeeps ==
    ASSUME NEW Item, NoItem \in Item, NEW r, IsRing(r, Item), r.count + 1 = r.size
    PROVE  /\ IsRing(Grow(r), Item) /\ Contents(Grow(r)) = Contents(r)
           /\ Grow(r).size = 2 * r.size /\ Grow(r).count = r.count
<1> DEFINE n == r.size
           c == r.count
           first == r.pop
           fill == r.push
           slots == r.slots
           more == [k \in 0 .. 2 * n - 1 |->
                        IF k < n THEN slots[k]
                        ELSE IF k - n < fill /\ fill < first THEN slots[k - n]
                        ELSE NoItem]
           g == Grow(r)
           s == Contents(r)
           t == Contents(g)
<1>1. /\ n \in Nat \ {0} /\ c \in 0 .. n - 1 /\ first \in 0 .. n - 1 /\ c + 1 = n
      /\ slots \in [0 .. n - 1 -> Item]
    BY DEF IsRing
<1>2. /\ s \in Seq(Item) /\ Len(s) = c
      /\ \A i \in 1 .. c : s[i] = slots[Wrap(first + i - 1, n)]
      /\ fill = Wrap(first + c, n)
    BY ContentsOf
<1>3. g = Ring(more, IF fill < first THEN fill + n ELSE fill, first, c, 2 * n)
    BY DEF Grow
<1>4. g.slots = more /\ g.pop = first /\ g.count = c /\ g.size = 2 * n
    BY <1>3 DEF Ring
<1> HIDE DEF n, c, first, fill, slots, g, s, t
<1>5. (IF fill < first THEN fill + n ELSE fill) = Wrap(first + c, 2 * n)
    BY <1>1, <1>2 DEF Wrap
<1>6. \A k \in 0 .. 2 * n - 1 : more[k] \in Item
    BY <1>1, <1>2 DEF Wrap
<1>7. more \in [0 .. 2 * n - 1 -> Item] /\ 2 * n \in Nat \ {0}
    BY <1>1, <1>6
<1>8. c \in 0 .. 2 * n - 1 /\ first \in 0 .. 2 * n - 1
    BY <1>1
<1>9. IsRing(g, Item)
  <2> HIDE DEF more
  <2> QED
      BY <1>3, <1>5, <1>7, <1>8, RingFrom
<1>10. /\ t \in Seq(Item) /\ Len(t) = c
       /\ \A i \in 1 .. c : t[i] = more[Wrap(first + i - 1, 2 * n)]
  <2>1. /\ Contents(g) \in Seq(Item) /\ Len(Contents(g)) = g.count
        /\ \A i \in 1 .. g.count : Contents(g)[i] = g.slots[Wrap(g.pop + i - 1, g.size)]
      BY <1>9, ContentsOf
  <2> HIDE DEF more
  <2> QED
      BY <1>4, <2>1 DEF t
<1>11. ASSUME NEW i \in 1 .. c PROVE s[i] = t[i]
  <2>1. first + i - 1 \in 0 .. 2 * n - 1 /\ first + i - 1 < 2 * n
      BY <1>1
  <2>2. t[i] = more[first + i - 1]
      BY <1>10, <2>1 DEF Wrap
  <2>3. CASE first + i - 1 < n
      BY <1>2, <2>1, <2>2, <2>3 DEF Wrap
  <2>4. CASE ~(first + i - 1 < n)
    <3>1. first + i - 1 - n < fill /\ fill < first
        BY <1>1, <1>2, <2>4 DEF Wrap
    <3> DEFINE k == first + i - 1
    <3>2. more[k] = slots[k - n]
      <4>1. k \in 0 .. 2 * n - 1
          BY <2>1
      <4>2. ~(k < n) /\ k - n < fill /\ fill < first
          BY <1>1, <2>1, <2>4, <3>1
      <4> HIDE DEF k
      <4> QED
          BY <4>1, <4>2
    <3>3. s[i] = slots[k - n]
      <4>1. Wrap(first + i - 1, n) = k - n
          BY <2>4 DEF Wrap
      <4> HIDE DEF k
      <4> QED
          BY <1>2, <4>1
    <3> QED
        BY <2>2, <3>2, <3>3
  <2> QED
      BY <2>3, <2>4
<1>12. s = t
    BY <1>2, <1>10, <1>11, SeqEqual
<1> QED
    BY <1>4, <1>9, <1>12 DEF n, c, g, s, t

\* Putting an item into a ring that has room.
LEMMA PutInAppends ==
    ASSUME NEW Item, NEW r, IsRing(r, Item), r.count + 1 < r.size, NEW x \in Item
    PROVE  IsRing(PutIn(r, x), Item) /\ Contents(PutIn(r, x)) = Append(Contents(r), x)
<1> DEFINE n == r.size
           c == r.count
           first == r.pop
           fill == r.push
           slots == r.slots
           more == [slots EXCEPT ![fill] = x]
           p == PutIn(r, x)
           s == Contents(r)
           t == Contents(p)
<1>1. /\ n \in Nat \ {0} /\ c \in 0 .. n - 1 /\ first \in 0 .. n - 1 /\ fill \in 0 .. n - 1
      /\ slots \in [0 .. n - 1 -> Item] /\ c + 1 < n
    BY DEF IsRing
<1>2. /\ s \in Seq(Item) /\ Len(s) = c
      /\ \A i \in 1 .. c : s[i] = slots[Wrap(first + i - 1, n)]
      /\ fill = Wrap(first + c, n)
    BY ContentsOf
<1>3. p = Ring(more, (fill + 1) % n, first, c + 1, n)
    BY DEF PutIn
<1>4. p.slots = more /\ p.pop = first /\ p.count = c + 1 /\ p.size = n
    BY <1>3 DEF Ring
<1> HIDE DEF n, c, first, fill, slots, s, t, p
<1>5. (fill + 1) % n = Wrap(first + (c + 1), n)
  <2>1. (fill + 1) % n = Wrap(fill + 1, n)
      BY <1>1, SlotOf
  <2> QED
      BY <1>1, <1>2, <2>1 DEF Wrap
<1>6. more \in [0 .. n - 1 -> Item] /\ c + 1 \in 0 .. n - 1
    BY <1>1
<1>7. IsRing(p, Item)
  <2> DEFINE d == c + 1
  <2>1. /\ d \in 0 .. n - 1 /\ n \in Nat \ {0} /\ first \in 0 .. n - 1
        /\ p = Ring(more, Wrap(first + d, n), first, d, n)
      BY <1>1, <1>3, <1>5, <1>6
  <2> HIDE DEF more, d
  <2> QED
      BY <1>6, <2>1, RingFrom
<1>8. /\ t \in Seq(Item) /\ Len(t) = c + 1
      /\ \A i \in 1 .. c + 1 : t[i] = more[Wrap(first + i - 1, n)]
  <2>1. /\ Contents(p) \in Seq(Item) /\ Len(Contents(p)) = p.count
        /\ \A i \in 1 .. p.count : Contents(p)[i] = p.slots[Wrap(p.pop + i - 1, p.size)]
      BY <1>7, ContentsOf
  <2> HIDE DEF more
  <2> QED
      BY <1>4, <2>1 DEF t
<1>9. Append(s, x) \in Seq(Item) /\ Len(Append(s, x)) = c + 1
    BY <1>2
<1>10. ASSUME NEW i \in 1 .. c + 1 PROVE t[i] = Append(s, x)[i]
  <2>1. Wrap(first + i - 1, n) \in 0 .. n - 1 /\ t[i] = more[Wrap(first + i - 1, n)]
      BY <1>1, <1>8 DEF Wrap
  <2>2. CASE i = c + 1
    <3>1. Wrap(first + i - 1, n) = fill
        BY <1>1, <1>2, <2>2
    <3>2. more[fill] = x
        BY <1>1
    <3>3. Append(s, x)[i] = x
        BY <1>2, <2>2
    <3> QED
        BY <2>1, <3>1, <3>2, <3>3
  <2>3. CASE i # c + 1
    <3>1. i \in 1 .. c
        BY <1>1, <2>3
    <3>2. Wrap(first + i - 1, n) # fill
        BY <1>1, <1>2, <3>1 DEF Wrap
    <3>3. more[Wrap(first + i - 1, n)] = slots[Wrap(first + i - 1, n)]
        BY <1>1, <2>1, <3>2
    <3>4. Append(s, x)[i] = s[i]
        BY <1>2, <3>1
    <3> QED
        BY <1>2, <2>1, <3>1, <3>3, <3>4
  <2> QED
      BY <2>2, <2>3
<1>11. t = Append(s, x)
    BY <1>1, <1>8, <1>9, <1>10, SeqEqual
<1> QED
    BY <1>7, <1>11 DEF s, t, p

\* push puts the item last, whether the ring has to grow or not.
THEOREM PushAppends ==
    ASSUME NEW Item, NoItem \in Item, NEW r, IsRing(r, Item), NEW x \in Item
    PROVE  IsRing(Push(r, x), Item) /\ Contents(Push(r, x)) = Append(Contents(r), x)
<1> DEFINE g == IF r.count + 1 = r.size THEN Grow(r) ELSE r
<1>1. r.count \in 0 .. r.size - 1 /\ r.size \in Nat \ {0}
    BY DEF IsRing
<1>2. IsRing(g, Item) /\ Contents(g) = Contents(r) /\ g.count + 1 < g.size
  <2>1. CASE r.count + 1 = r.size
    <3>1. /\ IsRing(Grow(r), Item) /\ Contents(Grow(r)) = Contents(r)
          /\ Grow(r).size = 2 * r.size /\ Grow(r).count = r.count
        BY <2>1, GrowKeeps
    <3>2. g = Grow(r)
        BY <2>1
    <3> HIDE DEF g
    <3> QED
        BY <1>1, <2>1, <3>1, <3>2
  <2>2. CASE r.count + 1 # r.size
      BY <1>1, <2>2
  <2> QED
      BY <2>1, <2>2
<1>3. Push(r, x) = PutIn(g, x)
    BY DEF Push
<1> HIDE DEF g
<1> QED
    BY <1>2, <1>3, PutInAppends

\* pop takes the oldest item and leaves the others in their order.
THEOREM PopTakesOldest ==
    ASSUME NEW Item, NEW r, IsRing(r, Item), r.count > 0
    PROVE  /\ IsRing(Pop(r), Item) /\ Contents(r) # <<>>
           /\ Oldest(r) = Head(Contents(r)) /\ Contents(Pop(r)) = Tail(Contents(r))
<1> DEFINE n == r.size
           c == r.count
           first == r.pop
           fill == r.push
           slots == r.slots
           p == Pop(r)
           s == Contents(r)
           t == Contents(p)
<1>1. /\ n \in Nat \ {0} /\ c \in 0 .. n - 1 /\ first \in 0 .. n - 1 /\ fill \in 0 .. n - 1
      /\ slots \in [0 .. n - 1 -> Item] /\ c > 0
    BY DEF IsRing
<1>2. /\ s \in Seq(Item) /\ Len(s) = c
      /\ \A i \in 1 .. c : s[i] = slots[Wrap(first + i - 1, n)]
      /\ fill = Wrap(first + c, n)
    BY ContentsOf
<1>3. p = Ring(slots, fill, (first + 1) % n, c - 1, n) /\ Oldest(r) = slots[first]
    BY DEF Pop, Oldest
<1> HIDE DEF n, c, first, fill, slots, s, t, p
<1>4. (first + 1) % n = Wrap(first + 1, n) /\ Wrap(first + 1, n) \in 0 .. n - 1
  <2>1. first + 1 \in Nat /\ first + 1 < 2 * n
      BY <1>1
  <2> QED
      BY <1>1, <2>1, SlotOf
<1>5. Wrap(Wrap(first + 1, n) + (c - 1), n) = fill
    BY <1>1, <1>2 DEF Wrap
<1>6. p = Ring(slots, fill, Wrap(first + 1, n), c - 1, n)
    BY <1>3, <1>4
<1>7. IsRing(p, Item)
  <2>1. c - 1 \in 0 .. n - 1
      BY <1>1
  <2> QED
      BY <1>1, <1>4, <1>5, <1>6, <2>1, RingFrom
<1>8. /\ t \in Seq(Item) /\ Len(t) = c - 1
      /\ \A i \in 1 .. c - 1 : t[i] = slots[Wrap(Wrap(first + 1, n) + i - 1, n)]
  <2>1. /\ Contents(p) \in Seq(Item) /\ Len(Contents(p)) = p.count
        /\ \A i \in 1 .. p.count : Contents(p)[i] = p.slots[Wrap(p.pop + i - 1, p.size)]
      BY <1>7, ContentsOf
  <2>2. p.slots = slots /\ p.pop = Wrap(first + 1, n) /\ p.count = c - 1 /\ p.size = n
      BY <1>6 DEF Ring
  <2> QED
      BY <2>1, <2>2 DEF t
<1>9. s # <<>>
    BY <1>1, <1>2
<1>10. Tail(s) \in Seq(Item) /\ Len(Tail(s)) = c - 1 /\ \A i \in 1 .. c - 1 : Tail(s)[i] = s[i + 1]
    BY <1>1, <1>2, <1>9
<1>11. ASSUME NEW i \in 1 .. c - 1 PROVE t[i] = Tail(s)[i]
  <2>1. Wrap(Wrap(first + 1, n) + i - 1, n) = Wrap(first + (i + 1) - 1, n)
      BY <1>1 DEF Wrap
  <2>2. i + 1 \in 1 .. c
      BY <1>1
  <2> QED
      BY <1>2, <1>8, <1>10, <2>1, <2>2
<1>12. t = Tail(s)
    BY <1>8, <1>10, <1>11, SeqEqual
<1>13. Oldest(r) = Head(s)
  <2>1. Head(s) = s[1] /\ 1 \in 1 .. c
      BY <1>1, <1>2, <1>9
  <2>2. Wrap(first + 1 - 1, n) = first
      BY <1>1 DEF Wrap
  <2> QED
      BY <1>2, <1>3, <2>1, <2>2
<1> QED
    BY <1>7, <1>9, <1>12, <1>13 DEF s, t, p

\* pop_front takes the youngest item, as trimming the last packet of a queue does.
THEOREM PopFrontTakesYoungest ==
    ASSUME NEW Item, NEW r, IsRing(r, Item), r.count > 0
    PROVE  /\ IsRing(PopFront(r), Item) /\ Contents(r) # <<>>
           /\ Contents(r) = Append(Contents(PopFront(r)), Youngest(r))
<1> DEFINE n == r.size
           c == r.count
           first == r.pop
           fill == r.push
           slots == r.slots
           p == PopFront(r)
           s == Contents(r)
           t == Contents(p)
           x == Youngest(r)
<1>1. /\ n \in Nat \ {0} /\ c \in 0 .. n - 1 /\ first \in 0 .. n - 1 /\ fill \in 0 .. n - 1
      /\ slots \in [0 .. n - 1 -> Item] /\ c > 0
    BY DEF IsRing
<1>2. /\ s \in Seq(Item) /\ Len(s) = c
      /\ \A i \in 1 .. c : s[i] = slots[Wrap(first + i - 1, n)]
      /\ fill = Wrap(first + c, n)
    BY ContentsOf
<1>3. p = Ring(slots, (fill + n - 1) % n, first, c - 1, n) /\ x = slots[(fill + n - 1) % n]
    BY DEF PopFront, Youngest
<1> HIDE DEF n, c, first, fill, slots, s, t, p, x
<1>4. (fill + n - 1) % n = Wrap(first + (c - 1), n) /\ Wrap(first + (c - 1), n) \in 0 .. n - 1
  <2>1. fill + n - 1 \in Nat /\ fill + n - 1 < 2 * n
      BY <1>1
  <2>2. (fill + n - 1) % n = Wrap(fill + n - 1, n)
      BY <1>1, <2>1, SlotOf
  <2> QED
      BY <1>1, <1>2, <2>2 DEF Wrap
<1>5. p = Ring(slots, Wrap(first + (c - 1), n), first, c - 1, n)
    BY <1>3, <1>4
<1>6. c - 1 \in 0 .. n - 1
    BY <1>1
<1>7. IsRing(p, Item)
    BY <1>1, <1>5, <1>6, RingFrom
<1>8. /\ t \in Seq(Item) /\ Len(t) = c - 1
      /\ \A i \in 1 .. c - 1 : t[i] = slots[Wrap(first + i - 1, n)]
  <2>1. /\ Contents(p) \in Seq(Item) /\ Len(Contents(p)) = p.count
        /\ \A i \in 1 .. p.count : Contents(p)[i] = p.slots[Wrap(p.pop + i - 1, p.size)]
      BY <1>7, ContentsOf
  <2>2. p.slots = slots /\ p.pop = first /\ p.count = c - 1 /\ p.size = n
      BY <1>5 DEF Ring
  <2> QED
      BY <2>1, <2>2 DEF t
<1>9. x = s[c] /\ x \in Item
  <2>1. c \in 1 .. c /\ first + c - 1 = first + (c - 1)
      BY <1>1
  <2> QED
      BY <1>1, <1>2, <1>3, <1>4, <2>1
<1>10. Append(t, x) \in Seq(Item) /\ Len(Append(t, x)) = c
    BY <1>1, <1>8, <1>9
<1>11. ASSUME NEW i \in 1 .. c PROVE s[i] = Append(t, x)[i]
  <2>1. CASE i = c
      BY <1>8, <1>9, <2>1
  <2>2. CASE i # c
    <3>1. i \in 1 .. c - 1
        BY <1>1, <2>2
    <3>2. Append(t, x)[i] = t[i]
        BY <1>8, <3>1
    <3> QED
        BY <1>2, <1>8, <3>1, <3>2
  <2> QED
      BY <2>1, <2>2
<1>12. s = Append(t, x)
    BY <1>2, <1>10, <1>11, SeqEqual
<1>13. s # <<>>
    BY <1>1, <1>2
<1> QED
    BY <1>7, <1>12, <1>13 DEF s, t, p, x

-----------------------------------------------------------------------------
(* The bitmap is a set: for every size, wherever its base has got to and   *)
(* however often it has grown, it stands for the numbers put into it.      *)

(* The least of a set of naturals; numbers less than n apart have          *)
(* different slots modulo n.                                               *)

LEMMA SmallestOf ==
    ASSUME NEW S \in SUBSET Nat, S # {}
    PROVE  \E n \in S : \A m \in S : n <= m
<1> DEFINE R == OpToRel(<, Nat)
<1>1. \A m, n \in Nat : m < n => <<m, n>> \in R
    BY DEF OpToRel
<1>2. IsWellFoundedOn(R, Nat)
    BY NatLessThanWellFounded
<1> HIDE DEF R
<1>3. PICK n \in S : \A m \in S : <<m, n>> \notin R
    BY <1>2, WFMin
<1>4. ASSUME NEW m \in S PROVE n <= m
  <2>1. m \in Nat /\ n \in Nat /\ ~(m < n)
      BY <1>1, <1>3
  <2> QED
      BY <2>1
<1> QED
    BY <1>4

LEMMA ModSplit ==
    ASSUME NEW n \in Nat \ {0}, NEW i \in Int
    PROVE  i = n * (i \div n) + (i % n) /\ i \div n \in Int /\ i % n \in 0 .. n - 1
OBVIOUS

LEMMA Multiple ==
    ASSUME NEW n \in Nat \ {0}, NEW p \in Int, NEW q \in Int, p < q
    PROVE  n * q - n * p >= n
<1> DEFINE d == q - p
<1>1. d \in Nat /\ d >= 1
    OBVIOUS
<1>2. n * q - n * p = n * d
    OBVIOUS
<1> HIDE DEF d
<1>3. n * d >= n
    BY <1>1
<1> QED
    BY <1>2, <1>3

LEMMA SlotsDiffer ==
    ASSUME NEW n \in Nat \ {0}, NEW i \in Int, NEW j \in Int, i < j, j - i < n
    PROVE  i % n # j % n
<1> SUFFICES ASSUME i % n = j % n PROVE FALSE
    OBVIOUS
<1> DEFINE p == i \div n
           q == j \div n
<1>1. /\ i = n * p + (i % n) /\ j = n * q + (j % n) /\ p \in Int /\ q \in Int
      /\ i % n \in Int
    BY ModSplit
<1> HIDE DEF p, q
<1>2. n * p \in Int /\ n * q \in Int /\ j - i = n * q - n * p
    BY <1>1
<1>3. CASE p < q
    BY <1>1, <1>2, <1>3, Multiple
<1>4. CASE p = q
    BY <1>1, <1>2, <1>4
<1>5. CASE q < p
  <2>1. n * p - n * q >= n
      BY <1>1, <1>5, Multiple
  <2> QED
      BY <1>1, <1>2, <2>1
<1> QED
    BY <1>1, <1>3, <1>4, <1>5

LEMMA OwnSlot ==
    ASSUME NEW n \in Nat \ {0}, NEW b \in Int, NEW i \in b .. b + n - 1, NEW j \in b .. b + n - 1
    PROVE  (i % n = j % n) => i = j
<1>1. i \in Int /\ j \in Int /\ j - i < n /\ i - j < n
    OBVIOUS
<1>2. CASE i < j
    BY <1>1, <1>2, SlotsDiffer
<1>3. CASE j < i
  <2>1. j % n # i % n
      BY <1>1, <1>3, SlotsDiffer
  <2> QED
      BY <2>1
<1> QED
    BY <1>1, <1>2, <1>3

\* Going round once does not change the slot.
LEMMA OnceRound ==
    ASSUME NEW n \in Nat \ {0}, NEW i \in Int
    PROVE  (i - n) % n = i % n
<1> DEFINE p == i \div n
           q == (i - n) \div n
<1>1. /\ i = n * p + (i % n) /\ p \in Int /\ i % n \in 0 .. n - 1
      /\ i - n = n * q + ((i - n) % n) /\ q \in Int /\ (i - n) % n \in 0 .. n - 1
  <2>1. i - n \in Int
      OBVIOUS
  <2> QED
      BY <2>1, ModSplit
<1> HIDE DEF p, q
<1>2. n * (q + 1) = n * q + n /\ n * p \in Int /\ n * (q + 1) \in Int
    BY <1>1
<1>3. ~(p < q + 1)
  <2> SUFFICES ASSUME p < q + 1 PROVE FALSE
      OBVIOUS
  <2>1. n * (q + 1) - n * p >= n
      BY <1>1, Multiple
  <2> QED
      BY <1>1, <1>2, <2>1
<1>4. ~(q + 1 < p)
  <2> SUFFICES ASSUME q + 1 < p PROVE FALSE
      OBVIOUS
  <2>1. n * p - n * (q + 1) >= n
      BY <1>1, Multiple
  <2> QED
      BY <1>1, <1>2, <2>1
<1>5. p = q + 1
    BY <1>1, <1>3, <1>4
<1> QED
    BY <1>1, <1>2, <1>5

LEMMA SmallNumbers ==
    ASSUME NEW n \in Nat \ {0}, NEW a \in 0 .. n - 1 PROVE a % n = a
OBVIOUS

-----------------------------------------------------------------------------
(* The allocated sizes.                                                    *)

LEMMA LengthsNat == Lengths \subseteq Nat \ {0} /\ MaxSize \in Lengths /\ \A n \in Lengths : n <= MaxSize
BY BitmapAssumption DEF Lengths

LEMMA SizeFound ==
    ASSUME NEW b, b.size \in Lengths \cup {0}, NEW off \in 0 .. MaxSize - 1
    PROVE  NewSize(b, off) \in Lengths /\ NewSize(b, off) > off /\ NewSize(b, off) >= b.size
<1> DEFINE S == {n \in Lengths : n >= b.size /\ n > off}
<1>1. S \in SUBSET Nat
    BY LengthsNat
<1>2. MaxSize \in S
  <2>1. MaxSize \in Nat \ {0} /\ MaxSize \in Lengths
      BY LengthsNat
  <2>2. b.size <= MaxSize
    <3>1. CASE b.size = 0
        BY <2>1, <3>1
    <3>2. CASE b.size \in Lengths
      <4> DEFINE n == b.size
      <4> HIDE DEF n
      <4>1. n \in Lengths
          BY <3>2 DEF n
      <4>2. n <= MaxSize
          BY <4>1, LengthsNat
      <4> QED
          BY <4>2 DEF n
    <3> QED
        BY <3>1, <3>2
  <2> QED
      BY <2>1, <2>2
<1>3. S # {}
    BY <1>2
<1>4. \E n \in S : \A m \in S : n <= m
  <2> HIDE DEF S
  <2> QED
      BY <1>1, <1>3, SmallestOf
<1>5. \E n \in Lengths : /\ n >= b.size /\ n > off
                         /\ \A m \in Lengths : m >= b.size /\ m > off => n <= m
    BY <1>4
<1> QED
    BY <1>5 DEF NewSize

\* Within MaxSize of the base an offset is the distance.
LEMMA OffsetIs ==
    ASSUME NEW b, b.base \in Nat, NEW i \in b.base .. b.base + MaxSize - 1
    PROVE  Offset(b, i) = i - b.base /\ Offset(b, i) \in 0 .. MaxSize - 1
<1>1. MaxSize \in Nat \ {0} /\ i - b.base \in 0 .. MaxSize - 1
    BY LengthsNat
<1> QED
    BY <1>1, SmallNumbers DEF Offset

-----------------------------------------------------------------------------
(* The operations.                                                         *)

\* get answers for every number the receiver can ask about.
THEOREM GetReads ==
    ASSUME NEW b, NEW S, Represents(b, S), NEW i \in b.base .. b.base + MaxSize - 1
    PROVE  Get(b, i) <=> i \in S
<1>1. /\ b.base \in Nat /\ b.size \in Nat /\ i \in Int
      /\ S \subseteq b.base .. b.base + b.size - 1
      /\ \A j \in b.base .. b.base + b.size - 1 : b.buf[j % b.size] <=> j \in S
    BY LengthsNat DEF Represents
<1>2. Offset(b, i) = i - b.base
    BY <1>1, OffsetIs
<1>3. CASE i - b.base < b.size
  <2>1. i \in b.base .. b.base + b.size - 1
      BY <1>1, <1>3
  <2>2. b.buf[i % b.size] <=> i \in S
      BY <1>1, <2>1
  <2> QED
      BY <1>2, <1>3, <2>2 DEF Get
<1>4. CASE ~(i - b.base < b.size)
  <2>1. i \notin S
      BY <1>1, <1>4
  <2> QED
      BY <1>2, <1>4, <2>1 DEF Get
<1> QED
    BY <1>3, <1>4

\* grow keeps every number and makes room for one more.
LEMMA GrowToKeeps ==
    ASSUME NEW b, NEW S, Represents(b, S), NEW off \in 0 .. MaxSize - 1
    PROVE  /\ Represents(GrowTo(b, off), S)
           /\ GrowTo(b, off).base = b.base /\ GrowTo(b, off).size > off
<1> DEFINE n == NewSize(b, off)
           base == b.base
           old == b.size
           buf == b.buf
           new == [k \in 0 .. n - 1 |-> \E i \in base .. base + old - 1 : i % n = k /\ buf[i % old]]
           g == GrowTo(b, off)
<1>1. /\ base \in Nat /\ old \in Lengths \cup {0} /\ old \in Nat
      /\ S \subseteq base .. base + old - 1
      /\ \A i \in base .. base + old - 1 : buf[i % old] <=> i \in S
    BY LengthsNat DEF Represents
<1>2. n \in Lengths /\ n \in Nat \ {0} /\ n > off /\ n >= old
    BY <1>1, SizeFound, LengthsNat
<1>3. g = [base |-> base, size |-> n, buf |-> new]
    BY DEF GrowTo
<1>4. g.base = base /\ g.size = n /\ g.buf = new
    BY <1>3
<1>5. new \in [0 .. n - 1 -> BOOLEAN]
    OBVIOUS
<1> HIDE DEF n, base, old, buf, g
<1>6. ASSUME NEW i \in base .. base + n - 1 PROVE new[i % n] <=> i \in S
  <2>1. i % n \in 0 .. n - 1
    <3>1. i \in Int
        BY <1>1, <1>2
    <3> QED
        BY <1>2, <3>1, ModSplit
  <2>2. new[i % n] <=> \E j \in base .. base + old - 1 : j % n = i % n /\ buf[j % old]
      BY <2>1
  <2> HIDE DEF new
  <2>3. ASSUME NEW j \in base .. base + old - 1, j % n = i % n, buf[j % old] PROVE i \in S
    <3>1. j \in base .. base + n - 1
        BY <1>1, <1>2
    <3>2. base \in Int /\ n \in Nat \ {0} /\ i % n = j % n
        BY <1>1, <1>2, <2>3
    <3>3. i = j
        BY <3>1, <3>2, OwnSlot
    <3> QED
        BY <1>1, <2>3, <3>3
  <2>4. ASSUME i \in S PROVE i \in base .. base + old - 1 /\ buf[i % old]
      BY <1>1, <2>4
  <2> QED
      BY <2>2, <2>3, <2>4
<1>7. S \subseteq base .. base + n - 1
    BY <1>1, <1>2
<1> HIDE DEF new
<1>8. Represents(g, S)
    BY <1>1, <1>2, <1>3, <1>4, <1>5, <1>6, <1>7 DEF Represents
<1> QED
    BY <1>2, <1>4, <1>8 DEF n, base, g

\* set of a number to be received, which may make the bitmap grow.
THEOREM PutAdds ==
    ASSUME NEW b, NEW S, Represents(b, S), NEW i \in b.base .. b.base + MaxSize - 1
    PROVE  Represents(Put(b, i, TRUE), S \cup {i}) /\ Put(b, i, TRUE).base = b.base
<1> DEFINE off == Offset(b, i)
           a == IF off >= b.size THEN GrowTo(b, off) ELSE b
           p == Put(b, i, TRUE)
           n == a.size
           base == a.base
           buf == a.buf
           new == [buf EXCEPT ![i % n] = TRUE]
<1>1. b.base \in Nat /\ b.size \in Nat /\ i \in Int
    BY LengthsNat DEF Represents
<1>2. off = i - b.base /\ off \in 0 .. MaxSize - 1
    BY <1>1, OffsetIs
<1>3. Represents(a, S) /\ a.base = b.base /\ a.size > off
  <2>1. CASE off >= b.size
      BY <1>2, <2>1, GrowToKeeps
  <2>2. CASE ~(off >= b.size)
      BY <1>1, <1>2, <2>2
  <2> QED
      BY <2>1, <2>2
<1>4. p = [base |-> base, size |-> n, buf |-> new]
    BY DEF Put
<1> HIDE DEF off, a, p, n, base, buf, new
<1>5. p.base = base /\ p.size = n /\ p.buf = new
    BY <1>4
<1> USE DEF n, base, buf, new
<1>6. /\ base \in Nat /\ n \in Lengths \cup {0} /\ n \in Nat
      /\ buf \in [0 .. n - 1 -> BOOLEAN]
      /\ S \subseteq base .. base + n - 1
      /\ \A j \in base .. base + n - 1 : buf[j % n] <=> j \in S
    BY <1>3, LengthsNat DEF Represents
<1>7. base = b.base /\ n > off
    BY <1>3
<1> HIDE DEF n, base, buf
<1>8. n \in Nat \ {0} /\ i \in base .. base + n - 1
    BY <1>1, <1>2, <1>6, <1>7
<1>9. i % n \in 0 .. n - 1
    BY <1>1, <1>8, ModSplit
<1>10. new \in [0 .. n - 1 -> BOOLEAN]
    BY <1>6
<1>11. ASSUME NEW j \in base .. base + n - 1 PROVE new[j % n] <=> j \in S \cup {i}
  <2>1. j % n \in 0 .. n - 1
    <3>1. j \in Int
        BY <1>6, <1>8
    <3> QED
        BY <1>8, <3>1, ModSplit
  <2>2. CASE j = i
    <3>1. new[i % n] = TRUE
        BY <1>6, <1>9
    <3> QED
        BY <2>2, <3>1
  <2>3. CASE j # i
    <3>1. j % n # i % n
      <4>1. base \in Int
          BY <1>6
      <4> QED
          BY <1>8, <2>3, <4>1, OwnSlot
    <3>2. new[j % n] = buf[j % n]
        BY <1>6, <2>1, <3>1
    <3>3. buf[j % n] <=> j \in S
        BY <1>6
    <3> HIDE DEF new
    <3> QED
        BY <2>3, <3>2, <3>3
  <2> QED
      BY <2>2, <2>3
<1> HIDE DEF new
<1>12. S \cup {i} \subseteq base .. base + n - 1
    BY <1>6, <1>8
<1>13. Represents(p, S \cup {i})
    BY <1>4, <1>5, <1>6, <1>10, <1>11, <1>12 DEF Represents
<1> QED
    BY <1>5, <1>7, <1>13 DEF p

\* The receiver clears the numbers up to the next one missing and moves the base.
THEOREM BaseMoves ==
    ASSUME NEW b, NEW S, Represents(b, S), NEW e \in Nat,
           e > b.base, b.base \notin S, \A i \in b.base + 1 .. e - 1 : i \in S
    PROVE  Represents(SetBase(ClearRange(b, b.base + 1, e - 1), e), {i \in S : i >= e})
<1> DEFINE n == b.size
           base == b.base
           buf == b.buf
           new == [k \in 0 .. n - 1 |-> buf[k] /\ \A i \in base + 1 .. e - 1 : i % n # k]
           T == {i \in S : i >= e}
           p == SetBase(ClearRange(b, base + 1, e - 1), e)
<1>1. /\ base \in Nat /\ n \in Lengths \cup {0} /\ n \in Nat
      /\ buf \in [0 .. n - 1 -> BOOLEAN]
      /\ S \subseteq base .. base + n - 1
      /\ \A i \in base .. base + n - 1 : buf[i % n] <=> i \in S
    BY LengthsNat DEF Represents
<1>2. p = [base |-> e, size |-> n, buf |-> new]
    BY DEF SetBase, ClearRange
<1>3. p.base = e /\ p.size = n /\ p.buf = new
  <2> HIDE DEF p, n, new
  <2> QED
      BY <1>2
<1>4. new \in [0 .. n - 1 -> BOOLEAN]
    OBVIOUS
<1>5. /\ e > base /\ base \notin S /\ \A i \in base + 1 .. e - 1 : i \in S
    OBVIOUS
<1> HIDE DEF n, base, buf, p
<1>6. T \subseteq e .. e + n - 1
  <2> SUFFICES ASSUME NEW i \in S, i >= e PROVE i \in e .. e + n - 1
      OBVIOUS
  <2> QED
      BY <1>1, <1>5
<1>7. ASSUME NEW i \in e .. e + n - 1 PROVE new[i % n] <=> i \in T
  <2>0. n \in Nat \ {0} /\ i \in Int
      BY <1>1
  <2>1. n \in Nat \ {0} /\ i % n \in 0 .. n - 1
      BY <2>0, ModSplit
  <2>2. new[i % n] <=> buf[i % n] /\ \A j \in base + 1 .. e - 1 : j % n # i % n
      BY <2>1
  <2> HIDE DEF new
  <2>3. ASSUME NEW j \in base + 1 .. e - 1 PROVE j \in base .. base + n - 1
      BY <1>1, <1>5
  <2>4. CASE i <= base + n - 1
    <3>1. i \in base .. base + n - 1
        BY <1>1, <1>5, <2>4
    <3>2. buf[i % n] <=> i \in S
        BY <1>1, <3>1
    <3>3. ASSUME NEW j \in base + 1 .. e - 1 PROVE j % n # i % n
      <4>1. j # i
          BY <1>1
      <4>2. base \in Int
          BY <1>1
      <4>3. j \in base .. base + n - 1
          BY <2>3
      <4> QED
          BY <2>1, <3>1, <4>1, <4>2, <4>3, OwnSlot
    <3> QED
        BY <2>2, <3>2, <3>3
  <2>5. CASE i > base + n - 1
    <3> DEFINE j == i - n
    <3>1. j \in base .. base + n - 1 /\ j \in base .. e - 1
        BY <1>1, <1>5, <2>5
    <3>2. j % n = i % n
        BY <2>0, OnceRound
    <3>3. i \notin T
        BY <1>1, <2>5
    <3> HIDE DEF j
    <3>4. CASE j = base
      <4>1. ~buf[i % n]
          BY <1>1, <1>5, <3>1, <3>2, <3>4
      <4> QED
          BY <2>2, <3>3, <4>1
    <3>5. CASE j # base
      <4>1. j \in base + 1 .. e - 1
          BY <1>1, <3>1, <3>5
      <4> QED
          BY <2>2, <3>2, <3>3, <4>1
    <3> QED
        BY <3>4, <3>5
  <2> QED
      BY <1>1, <2>4, <2>5
<1> HIDE DEF new
<1>8. Represents(p, T)
  <2> HIDE DEF T
  <2> QED
      BY <1>1, <1>2, <1>3, <1>4, <1>6, <1>7 DEF Represents
<1> QED
    BY <1>8 DEF p, base

-----------------------------------------------------------------------------
(* The sprayed flow.                                                       *)

Datas(n) == {Data(s) : s \in 0 .. n - 1}

Headers == {OtherHeader} \cup {StripPayload(Data(s)) : s \in 0 .. NPkts - 1}

\* A items's bytes, by the sums up to each place.
Sums(items, total) ==
    \E f \in [0 .. Len(items) -> Int] :
        /\ f[0] = 0 /\ f[Len(items)] = total
        /\ \A i \in 1 .. Len(items) : f[i] = f[i - 1] + items[i].size

QueueType(n) ==
    [low : Seq(Datas(n)), high : Seq(Headers), lowBytes : Int, highBytes : Int,
     serv : {"INVALID", "LOW", "HIGH"}, crt : Int]

QueueGood(q, n) ==
    /\ q \in QueueType(n) /\ Sums(q.low, q.lowBytes) /\ Sums(q.high, q.highBytes)
    /\ Bounded(q) /\ ServiceConsistent(q)

-----------------------------------------------------------------------------
(* Packets and lists.                                                      *)

LEMMA PacketFields ==
    /\ \A n \in Nat : \A pkt \in Datas(n) :
          pkt.header = FALSE /\ pkt.seq \in 0 .. n - 1 /\ pkt.size \in 1 .. MaxQ
    /\ \A pkt \in Headers : pkt.header = TRUE /\ pkt.size \in Nat
<1>1. ASSUME NEW n \in Nat, NEW pkt \in Datas(n)
      PROVE  pkt.header = FALSE /\ pkt.seq \in 0 .. n - 1 /\ pkt.size \in 1 .. MaxQ
  <2>1. PICK s \in 0 .. n - 1 : pkt = Data(s)
      BY DEF Datas
  <2>2. DataSize \in 1 .. MaxQ /\ LastSize \in 1 .. MaxQ
      BY SprayingAssumption
  <2> QED
      BY <2>1, <2>2 DEF Data
<1>2. ASSUME NEW pkt \in Headers PROVE pkt.header = TRUE /\ pkt.size \in Nat
  <2>1. CASE pkt = OtherHeader
      BY <2>1, SprayingAssumption DEF OtherHeader
  <2>2. CASE pkt # OtherHeader
    <3>1. PICK s \in 0 .. NPkts - 1 : pkt = StripPayload(Data(s))
        BY <2>2 DEF Headers
    <3> QED
        BY <3>1, QueueAssumption DEF StripPayload, Data
  <2> QED
      BY <2>1, <2>2
<1> QED
    BY <1>1, <1>2

LEMMA MoreDatas ==
    ASSUME NEW n \in Nat
    PROVE  Datas(n) \subseteq Datas(n + 1) /\ Data(n) \in Datas(n + 1)
<1>1. 0 .. n - 1 \subseteq 0 .. (n + 1) - 1 /\ n \in 0 .. (n + 1) - 1
    OBVIOUS
<1> QED
    BY <1>1 DEF Datas

LEMMA FrontLast ==
    ASSUME NEW S, NEW items \in Seq(S), items # <<>>
    PROVE  /\ Front(items) \in Seq(S) /\ Len(Front(items)) = Len(items) - 1
           /\ \A i \in 1 .. Len(items) - 1 : Front(items)[i] = items[i]
           /\ Last(items) = items[Len(items)] /\ Last(items) \in S
<1>1. Len(items) \in Nat \ {0}
    BY EmptySeq
<1> DEFINE m == Len(items) - 1
<1>2. m \in Nat /\ \A i \in 1 .. m : items[i] \in S
    BY <1>1, ElementOfSeq
<1>3. Front(items) = SubSeq(items, 1, m)
    BY DEF Front
<1>4. \A i \in 1 .. m - 1 + 1 : 1 + i - 1 = i
    BY <1>2
<1>5. /\ SubSeq(items, 1, m) \in Seq(S)
      /\ Len(SubSeq(items, 1, m)) = IF 1 <= m THEN m - 1 + 1 ELSE 0
      /\ \A i \in 1 .. m - 1 + 1 : SubSeq(items, 1, m)[i] = items[1 + i - 1]
    BY <1>2, SubSeqProperties
<1> HIDE DEF m
<1>6. m - 1 + 1 = m /\ (IF 1 <= m THEN m - 1 + 1 ELSE 0) = m
  <2>1. \A a \in Nat : a - 1 + 1 = a /\ (IF 1 <= a THEN a - 1 + 1 ELSE 0) = a
      OBVIOUS
  <2> QED
      BY <2>1, <1>2
<1>7. Len(items) \in 1 .. Len(items)
    BY <1>1
<1>8. items[Len(items)] \in S
    BY <1>7, ElementOfSeq
<1>9. Len(Front(items)) = m /\ \A i \in 1 .. m : Front(items)[i] = items[i]
    BY <1>3, <1>4, <1>5, <1>6
<1> QED
    BY <1>3, <1>5, <1>8, <1>9 DEF Last, m

-----------------------------------------------------------------------------
(* Sums.                                                                   *)

LEMMA SumsOfEmpty == \A t : Sums(<<>>, t) <=> t = 0
<1>1. Len(<<>>) = 0
    BY EmptySeq
<1>2. ASSUME NEW t, Sums(<<>>, t) PROVE t = 0
    BY <1>1, <1>2 DEF Sums
<1>3. Sums(<<>>, 0)
  <2> DEFINE f == [i \in 0 .. 0 |-> 0]
  <2>1. f \in [0 .. Len(<<>>) -> Int] /\ f[0] = 0 /\ f[Len(<<>>)] = 0
      BY <1>1
  <2>2. \A i \in 1 .. Len(<<>>) : f[i] = f[i - 1] + <<>>[i].size
      BY <1>1
  <2> QED
      BY <2>1, <2>2 DEF Sums
<1> QED
    BY <1>2, <1>3

LEMMA SumsAppend ==
    ASSUME NEW S, NEW items \in Seq(S), NEW x \in S, NEW t, x.size \in Int, Sums(items, t)
    PROVE  Sums(Append(items, x), t + x.size)
<1> DEFINE n == Len(items)
           l == Append(items, x)
<1>1. PICK f \in [0 .. n -> Int] :
         f[0] = 0 /\ f[n] = t /\ \A i \in 1 .. n : f[i] = f[i - 1] + items[i].size
    BY DEF Sums
<1>2. n \in Nat /\ Len(l) = n + 1 /\ (\A i \in 1 .. n : l[i] = items[i]) /\ l[n + 1] = x
    BY AppendProperties, LenProperties
<1> HIDE DEF n, l
<1> DEFINE g == [i \in 0 .. n + 1 |-> IF i = n + 1 THEN t + x.size ELSE f[i]]
<1>3. t \in Int
    BY <1>1, <1>2
<1>4. g \in [0 .. n + 1 -> Int]
    BY <1>1, <1>2, <1>3
<1>5. g[0] = 0 /\ g[n + 1] = t + x.size /\ \A i \in 0 .. n : g[i] = f[i]
    BY <1>1, <1>2
<1> HIDE DEF g
<1>6. ASSUME NEW i \in 1 .. n + 1 PROVE g[i] = g[i - 1] + l[i].size
  <2>1. CASE i = n + 1
    <3>0. i - 1 = n /\ n \in 0 .. n
        BY <2>1, <1>2
    <3>1. g[i - 1] = t /\ g[i] = t + x.size /\ l[i] = x
        BY <2>1, <3>0, <1>1, <1>2, <1>5
    <3> QED
        BY <3>1
  <2>2. CASE i # n + 1
    <3>1. i \in 1 .. n /\ i \in 0 .. n /\ i - 1 \in 0 .. n
        BY <2>2, <1>2
    <3>2. g[i - 1] = f[i - 1] /\ g[i] = f[i] /\ l[i] = items[i] /\ f[i] = f[i - 1] + items[i].size
        BY <3>1, <1>1, <1>2, <1>5
    <3> QED
        BY <3>2
  <2> QED
      BY <2>1, <2>2
<1> QED
    BY <1>2, <1>4, <1>5, <1>6 DEF Sums, l

LEMMA SumsFront ==
    ASSUME NEW S, NEW items \in Seq(S), items # <<>>, \A x \in S : x.size \in Int,
           NEW t, Sums(items, t)
    PROVE  Sums(Front(items), t - Last(items).size)
<1> DEFINE n == Len(items)
           l == Front(items)
<1>1. PICK f \in [0 .. n -> Int] :
         f[0] = 0 /\ f[n] = t /\ \A i \in 1 .. n : f[i] = f[i - 1] + items[i].size
    BY DEF Sums
<1>2. /\ n \in Nat \ {0} /\ Len(l) = n - 1 /\ \A i \in 1 .. n - 1 : l[i] = items[i]
      /\ Last(items) = items[n] /\ items[n].size \in Int
    BY EmptySeq, FrontLast
<1> HIDE DEF n, l
<1>3. f[n - 1] = t - items[n].size
  <2>1. n \in 1 .. n /\ n - 1 \in 0 .. n
      BY <1>2
  <2> DEFINE z == items[n].size
             y == f[n - 1]
  <2>2. t = y + z /\ y \in Int /\ z \in Int
      BY <2>1, <1>1, <1>2
  <2> HIDE DEF y, z
  <2>3. y = t - z
      BY <2>2
  <2> QED
      BY <2>3 DEF y, z
<1> DEFINE g == [i \in 0 .. n - 1 |-> f[i]]
<1>4. g \in [0 .. n - 1 -> Int] /\ \A i \in 0 .. n - 1 : g[i] = f[i]
    BY <1>1, <1>2
<1>5. g[0] = 0 /\ g[n - 1] = t - items[n].size
    BY <1>1, <1>2, <1>3, <1>4
<1> HIDE DEF g
<1>6. ASSUME NEW i \in 1 .. n - 1 PROVE g[i] = g[i - 1] + l[i].size
  <2>1. i \in 1 .. n /\ i \in 0 .. n - 1 /\ i - 1 \in 0 .. n - 1
      BY <1>2
  <2>2. g[i - 1] = f[i - 1] /\ g[i] = f[i] /\ l[i] = items[i] /\ f[i] = f[i - 1] + items[i].size
      BY <2>1, <1>1, <1>2, <1>4
  <2> QED
      BY <2>2
<1> QED
    BY <1>2, <1>4, <1>5, <1>6 DEF Sums, l

LEMMA SumsTail ==
    ASSUME NEW S, NEW items \in Seq(S), items # <<>>, \A x \in S : x.size \in Int,
           NEW t, Sums(items, t)
    PROVE  Sums(Tail(items), t - Head(items).size)
<1> DEFINE n == Len(items)
           l == Tail(items)
           z == Head(items).size
<1>1. PICK f \in [0 .. n -> Int] :
         f[0] = 0 /\ f[n] = t /\ \A i \in 1 .. n : f[i] = f[i - 1] + items[i].size
    BY DEF Sums
<1>2. /\ n \in Nat \ {0} /\ Len(l) = n - 1 /\ \A i \in 1 .. n - 1 : l[i] = items[i + 1]
      /\ Head(items) = items[1] /\ z \in Int
    BY EmptySeq, HeadTailProperties
<1> HIDE DEF n, l, z
<1>3. f[1] = z
  <2>1. 1 \in 1 .. n /\ 1 - 1 = 0
      BY <1>2
  <2>2. f[1] = f[0] + items[1].size
      BY <2>1, <1>1
  <2> QED
      BY <2>2, <1>1, <1>2 DEF z
<1> DEFINE g == [i \in 0 .. n - 1 |-> f[i + 1] - z]
<1>4. ASSUME NEW i \in 0 .. n - 1 PROVE f[i + 1] \in Int
  <2>1. i + 1 \in 0 .. n
      BY <1>2
  <2> QED
      BY <2>1, <1>1
<1>5. g \in [0 .. n - 1 -> Int] /\ \A i \in 0 .. n - 1 : g[i] = f[i + 1] - z
    BY <1>2, <1>4
<1>6. g[0] = 0 /\ g[n - 1] = t - z
  <2>1. 0 \in 0 .. n - 1 /\ n - 1 \in 0 .. n - 1 /\ 0 + 1 = 1 /\ (n - 1) + 1 = n
      BY <1>2
  <2>2. g[0] = f[0 + 1] - z /\ g[n - 1] = f[(n - 1) + 1] - z
      BY <2>1, <1>5
  <2> QED
      BY <2>1, <2>2, <1>1, <1>2, <1>3
<1> HIDE DEF g
<1>7. ASSUME NEW i \in 1 .. n - 1 PROVE g[i] = g[i - 1] + l[i].size
  <2>1. i \in 0 .. n - 1 /\ i - 1 \in 0 .. n - 1 /\ i + 1 \in 1 .. n /\ (i - 1) + 1 = i /\ (i + 1) - 1 = i
      BY <1>2
  <2>2. f[i + 1] = f[(i + 1) - 1] + items[i + 1].size
      BY <2>1, <1>1
  <2>3. g[i] = f[i + 1] - z /\ g[i - 1] = f[(i - 1) + 1] - z /\ l[i] = items[i + 1]
      BY <2>1, <1>2, <1>5
  <2>4. f[i] \in Int /\ f[i + 1] = f[i] + l[i].size /\ g[i - 1] = f[i] - z
      BY <2>1, <2>2, <2>3, <1>1, <1>2
  <2>5. f[i + 1] \in Int /\ g[i] \in Int /\ g[i - 1] \in Int
      BY <2>1, <1>4, <1>5
  <2>6. l[i].size = f[i + 1] - f[i]
    <3>1. l[i] \in S
        BY <2>1, <2>3, ElementOfSeq DEF n
    <3>2. l[i].size \in Int
        BY <3>1
    <3> QED
        BY <3>2, <2>4, <2>5
  <2>7. g[i] = f[i + 1] - z
      BY <2>3
  <2>8. \A p, q, r \in Int : (q - r) + (p - q) = p - r
      OBVIOUS
  <2>9. f[i + 1] - z = (f[i] - z) + (f[i + 1] - f[i])
      BY <2>4, <2>5, <2>8, <1>2
  <2> QED
      BY <2>4, <2>6, <2>7, <2>9
<1> QED
    BY <1>2, <1>5, <1>6, <1>7 DEF Sums, l, z

\* The sums up to each place are the sum that BytesExact takes.
LEMMA SumsAreSum ==
    ASSUME NEW S, NEW items \in Seq(S), \A x \in S : x.size \in Int, NEW t, Sums(items, t)
    PROVE  t = SumOfSizes(items)
<1> DEFINE n == Len(items)
           w == [i \in DOMAIN items |-> items[i].size]
<1>1. PICK f \in [0 .. n -> Int] :
         f[0] = 0 /\ f[n] = t /\ \A i \in 1 .. n : f[i] = f[i - 1] + items[i].size
    BY DEF Sums
<1>2. n \in Nat /\ DOMAIN items = 1 .. n /\ \A i \in 1 .. n : items[i] \in S
    OBVIOUS
<1>3. \A i \in 1 .. n : w[i] = items[i].size /\ w[i] \in Int
    BY <1>2
<1>4. SumOfSizes(items) = SumFunctionOnSet(w, 1 .. n)
    BY <1>2 DEF SumOfSizes, SumFunction
<1> HIDE DEF n, w
<1> DEFINE T == {k \in Nat : k <= n => f[k] = SumFunctionOnSet(w, 1 .. k)}
<1>5. 0 \in T
  <2>1. 1 .. 0 = {} /\ IsFiniteSet({}) /\ Ints(w, {})
      BY FS_EmptySet DEF Ints
  <2>2. SumFunctionOnSet(w, 1 .. 0) = 0
      BY <2>1, SumType
  <2> QED
      BY <1>1, <2>2
<1>6. ASSUME NEW k \in Nat, k \in T PROVE k + 1 \in T
  <2> SUFFICES ASSUME k + 1 <= n PROVE f[k + 1] = SumFunctionOnSet(w, 1 .. k + 1)
      OBVIOUS
  <2>1. k + 1 \in 1 .. n /\ (k + 1) - 1 = k /\ k <= n
      BY <1>2
  <2>2. f[k + 1] = f[k] + w[k + 1]
      BY <1>1, <1>3, <2>1
  <2>3. f[k] = SumFunctionOnSet(w, 1 .. k)
      BY <1>6, <2>1
  <2>4. Ints(w, 1 .. k + 1)
      BY <1>2, <1>3, <2>1 DEF Ints
  <2>5. SumFunctionOnSet(w, 1 .. k + 1) = SumFunctionOnSet(w, 1 .. k) + w[k + 1]
      BY <2>4, SumLast
  <2> QED
      BY <2>2, <2>3, <2>5
<1> HIDE DEF T
<1>7. n \in T
    BY <1>2, <1>5, <1>6, NaturalsByInduction
<1> QED
    BY <1>1, <1>2, <1>4, <1>7 DEF T

-----------------------------------------------------------------------------
(* The operations of a queue.                                              *)

LEMMA QueueFields ==
    ASSUME NEW n \in Nat, NEW q \in QueueType(n)
    PROVE  /\ q.low \in Seq(Datas(n)) /\ q.high \in Seq(Headers)
           /\ q.lowBytes \in Int /\ q.highBytes \in Int
           /\ q.serv \in {"INVALID", "LOW", "HIGH"} /\ q.crt \in Int
BY DEF QueueType

\* What the operations change at once.
SetLow(q, items, bytes) == [q EXCEPT !.low = items, !.lowBytes = bytes]
SetHigh(q, items, bytes) == [q EXCEPT !.high = items, !.highBytes = bytes]
SetServ(q, turn, serv) == [q EXCEPT !.crt = turn, !.serv = serv]

LEMMA WithLow ==
    ASSUME NEW n \in Nat, NEW q \in QueueType(n), NEW items \in Seq(Datas(n)), NEW bytes \in Int
    PROVE  LET a == SetLow(q, items, bytes)
           IN  /\ a \in QueueType(n) /\ a.low = items /\ a.lowBytes = bytes
               /\ a.high = q.high /\ a.highBytes = q.highBytes /\ a.serv = q.serv /\ a.crt = q.crt
<1> DEFINE S == Seq(Datas(n))
           H == Seq(Headers)
<1>1. /\ q \in [low : S, high : H, lowBytes : Int, highBytes : Int,
                serv : {"INVALID", "LOW", "HIGH"}, crt : Int]
      /\ QueueType(n) = [low : S, high : H, lowBytes : Int, highBytes : Int,
                         serv : {"INVALID", "LOW", "HIGH"}, crt : Int]
    BY DEF QueueType
<1> HIDE DEF S, H
<1>2. \A l \in S, y \in Int :
         LET b == [q EXCEPT !.low = l, !.lowBytes = y]
         IN  /\ b \in QueueType(n) /\ b.low = l /\ b.lowBytes = y
             /\ b.high = q.high /\ b.highBytes = q.highBytes /\ b.serv = q.serv /\ b.crt = q.crt
    BY <1>1
<1>3. items \in S
    BY DEF S
<1> QED
    BY <1>2, <1>3, ZenonT(40) DEF SetLow

LEMMA WithHigh ==
    ASSUME NEW n \in Nat, NEW q \in QueueType(n), NEW items \in Seq(Headers), NEW bytes \in Int
    PROVE  LET a == SetHigh(q, items, bytes)
           IN  /\ a \in QueueType(n) /\ a.high = items /\ a.highBytes = bytes
               /\ a.low = q.low /\ a.lowBytes = q.lowBytes /\ a.serv = q.serv /\ a.crt = q.crt
<1> DEFINE S == Seq(Datas(n))
           H == Seq(Headers)
<1>1. /\ q \in [low : S, high : H, lowBytes : Int, highBytes : Int,
                serv : {"INVALID", "LOW", "HIGH"}, crt : Int]
      /\ QueueType(n) = [low : S, high : H, lowBytes : Int, highBytes : Int,
                         serv : {"INVALID", "LOW", "HIGH"}, crt : Int]
    BY DEF QueueType
<1> HIDE DEF S, H
<1>2. \A l \in H, y \in Int :
         LET b == [q EXCEPT !.high = l, !.highBytes = y]
         IN  /\ b \in QueueType(n) /\ b.high = l /\ b.highBytes = y
             /\ b.low = q.low /\ b.lowBytes = q.lowBytes /\ b.serv = q.serv /\ b.crt = q.crt
    BY <1>1
<1>3. items \in H
    BY DEF H
<1> QED
    BY <1>2, <1>3, ZenonT(40) DEF SetHigh

LEMMA WithServ ==
    ASSUME NEW n \in Nat, NEW q \in QueueType(n), NEW turn \in Int,
           NEW serv, serv \in {"INVALID", "LOW", "HIGH"}
    PROVE  LET a == SetServ(q, turn, serv)
           IN  /\ a \in QueueType(n) /\ a.crt = turn /\ a.serv = serv
               /\ a.low = q.low /\ a.lowBytes = q.lowBytes /\ a.high = q.high /\ a.highBytes = q.highBytes
<1> DEFINE S == Seq(Datas(n))
           H == Seq(Headers)
<1>1. /\ q \in [low : S, high : H, lowBytes : Int, highBytes : Int,
                serv : {"INVALID", "LOW", "HIGH"}, crt : Int]
      /\ QueueType(n) = [low : S, high : H, lowBytes : Int, highBytes : Int,
                         serv : {"INVALID", "LOW", "HIGH"}, crt : Int]
    BY DEF QueueType
<1> HIDE DEF S, H
<1>2. \A c \in Int, v \in {"INVALID", "LOW", "HIGH"} :
         LET b == [q EXCEPT !.crt = c, !.serv = v]
         IN  /\ b \in QueueType(n) /\ b.crt = c /\ b.serv = v
             /\ b.low = q.low /\ b.lowBytes = q.lowBytes /\ b.high = q.high /\ b.highBytes = q.highBytes
    BY <1>1
<1> QED
    BY <1>2, ZenonT(40) DEF SetServ

LEMMA PushHighKeeps ==
    ASSUME NEW n \in Nat, NEW q \in QueueType(n), q.highBytes <= 2 * MaxQ, NEW pkt \in Headers,
           Sums(q.high, q.highBytes)
    PROVE  LET a == PushHigh(q, pkt)
           IN  /\ a \in QueueType(n) /\ a.low = q.low /\ a.lowBytes = q.lowBytes
               /\ a.serv = q.serv /\ a.highBytes <= 2 * MaxQ /\ Sums(a.high, a.highBytes)
               /\ a.high = q.high \/ a.high # <<>>
<1> DEFINE a == PushHigh(q, pkt)
           items == Append(q.high, pkt)
           bytes == q.highBytes + pkt.size
<1>1. q.high \in Seq(Headers) /\ q.highBytes \in Int /\ pkt.size \in Nat /\ MaxQ \in Nat
    BY QueueFields, PacketFields, QueueAssumption
<1>2. items \in Seq(Headers) /\ items # <<>> /\ bytes \in Int
    BY <1>1, AppendProperties, EmptySeq
<1>5. Sums(items, bytes)
  <2>1. pkt.size \in Int
      BY <1>1
  <2> QED
      BY <1>1, <2>1, SumsAppend
<1>3. CASE bytes > 2 * MaxQ
  <2>1. a = q
      BY <1>3 DEF PushHigh
  <2> QED
      BY <2>1
<1>4. CASE ~(bytes > 2 * MaxQ)
  <2>1. a = SetHigh(q, items, bytes)
      BY <1>4 DEF PushHigh, SetHigh
  <2>2. bytes <= 2 * MaxQ
      BY <1>1, <1>4
  <2> HIDE DEF items, bytes, a
  <2>3. /\ a \in QueueType(n) /\ a.high = items /\ a.highBytes = bytes /\ a.low = q.low
        /\ a.lowBytes = q.lowBytes /\ a.serv = q.serv
      BY <1>2, <2>1, WithHigh
  <2> QED
      BY <1>2, <1>5, <2>2, <2>3 DEF a
<1> QED
    BY <1>3, <1>4

LEMMA BeginKeeps ==
    ASSUME NEW n \in Nat, NEW q \in QueueType(n), q.low # <<>> \/ q.high # <<>>
    PROVE  LET a == BeginService(q)
           IN  /\ a \in QueueType(n) /\ a.low = q.low /\ a.lowBytes = q.lowBytes
               /\ a.high = q.high /\ a.highBytes = q.highBytes /\ ServiceConsistent(a)
<1> DEFINE a == BeginService(q)
           both == q.low # <<>> /\ q.high # <<>>
           turn == IF both THEN (q.crt + 1) % (RatioHigh + RatioLow) ELSE q.crt
           high == IF both THEN turn < RatioHigh ELSE q.high # <<>>
           serv == IF high THEN "HIGH" ELSE "LOW"
<1>1. a = SetServ(q, turn, serv)
    BY DEF BeginService, SetServ
<1>2. turn \in Int
  <2>1. q.crt \in Int /\ RatioHigh + RatioLow \in Nat \ {0}
      BY QueueFields, QueueAssumption
  <2>2. \A c \in Int, r \in Nat \ {0} : (c + 1) % r \in Int
      OBVIOUS
  <2> QED
      BY <2>1, <2>2
<1>3. serv \in {"INVALID", "LOW", "HIGH"}
    OBVIOUS
<1>4. (serv = "HIGH" => q.high # <<>>) /\ (serv = "LOW" => q.low # <<>>) /\ serv # "INVALID"
    OBVIOUS
<1> HIDE DEF a, turn, serv
<1> DEFINE b == SetServ(q, turn, serv)
<1>5. /\ b \in QueueType(n) /\ b.serv = serv /\ b.low = q.low
      /\ b.lowBytes = q.lowBytes /\ b.high = q.high /\ b.highBytes = q.highBytes
    BY <1>2, <1>3, WithServ
<1> QED
    BY <1>1, <1>4, <1>5 DEF a, ServiceConsistent

LEMMA StartKeeps ==
    ASSUME NEW n \in Nat, NEW q \in QueueType(n), q.low # <<>> \/ q.high # <<>>,
           q.serv = "LOW" => q.low # <<>>, q.serv = "HIGH" => q.high # <<>>
    PROVE  LET a == StartIfIdle(q)
           IN  /\ a \in QueueType(n) /\ a.low = q.low /\ a.lowBytes = q.lowBytes
               /\ a.high = q.high /\ a.highBytes = q.highBytes /\ ServiceConsistent(a)
<1>1. CASE q.serv = "INVALID"
  <2>1. StartIfIdle(q) = BeginService(q)
      BY <1>1 DEF StartIfIdle
  <2> QED
      BY <2>1, BeginKeeps
<1>2. CASE q.serv # "INVALID"
  <2>1. StartIfIdle(q) = q
      BY <1>2 DEF StartIfIdle
  <2> QED
      BY <1>2, <2>1 DEF ServiceConsistent
<1> QED
    BY <1>1, <1>2

LEMMA HeaderKeeps ==
    ASSUME NEW n \in Nat, NEW q, QueueGood(q, n), NEW pkt \in Headers
    PROVE  QueueGood(ReceiveHeader(q, pkt), n)
<1> DEFINE a == PushHigh(q, pkt)
<1>1. /\ q \in QueueType(n) /\ Sums(q.low, q.lowBytes) /\ q.highBytes <= 2 * MaxQ
      /\ Sums(q.high, q.highBytes)
      /\ q.low # <<>> => q.lowBytes - Last(q.low).size <= MaxQ
      /\ q.serv = "LOW" => q.low # <<>>
      /\ q.serv = "HIGH" => q.high # <<>>
      /\ q.serv = "INVALID" => q.low = <<>> /\ q.high = <<>>
    BY DEF QueueGood, Bounded, ServiceConsistent
<1>2. /\ a \in QueueType(n) /\ a.low = q.low /\ a.lowBytes = q.lowBytes
      /\ a.serv = q.serv /\ a.highBytes <= 2 * MaxQ /\ Sums(a.high, a.highBytes)
      /\ a.high = q.high \/ a.high # <<>>
    BY <1>1, PushHighKeeps
<1> HIDE DEF a
<1>3. CASE a.high = q.high
  <2>1. ReceiveHeader(q, pkt) = a
      BY <1>3 DEF ReceiveHeader, a
  <2> QED
      BY <1>1, <1>2, <1>3, <2>1 DEF QueueGood, Bounded, ServiceConsistent
<1>4. CASE a.high # q.high
  <2>1. ReceiveHeader(q, pkt) = StartIfIdle(a)
      BY <1>4 DEF ReceiveHeader, a
  <2> DEFINE b == StartIfIdle(a)
  <2>2. /\ b \in QueueType(n) /\ b.low = a.low /\ b.lowBytes = a.lowBytes
        /\ b.high = a.high /\ b.highBytes = a.highBytes /\ ServiceConsistent(b)
      BY <1>1, <1>2, <1>4, StartKeeps
  <2> HIDE DEF b
  <2> QED
      BY <1>1, <1>2, <2>1, <2>2 DEF QueueGood, Bounded, b
<1> QED
    BY <1>3, <1>4

LEMMA PushLowKeeps ==
    ASSUME NEW n \in Nat, NEW q \in QueueType(n), Sums(q.low, q.lowBytes), q.lowBytes <= MaxQ,
           q.highBytes <= 2 * MaxQ, Sums(q.high, q.highBytes),
           q.serv = "HIGH" => q.high # <<>>, NEW pkt \in Datas(n)
    PROVE  QueueGood(StartIfIdle(PushLow(q, pkt)), n)
<1> DEFINE items == Append(q.low, pkt)
           bytes == q.lowBytes + pkt.size
           a == SetLow(q, items, bytes)
           b == StartIfIdle(a)
<1>1. PushLow(q, pkt) = a
    BY DEF PushLow, SetLow
<1>2. q.low \in Seq(Datas(n)) /\ q.lowBytes \in Int /\ pkt.size \in 1 .. MaxQ /\ MaxQ \in Nat
    BY QueueFields, PacketFields, QueueAssumption
<1>3. items \in Seq(Datas(n)) /\ items # <<>> /\ bytes \in Int
    BY <1>2, AppendProperties, EmptySeq
<1>4. Last(items) = pkt
  <2>1. Len(items) = Len(q.low) + 1 /\ items[Len(q.low) + 1] = pkt
      BY <1>2, AppendProperties
  <2> QED
      BY <2>1 DEF Last
<1>5. Sums(items, bytes)
  <2>1. pkt.size \in Int
      BY <1>2
  <2> QED
      BY <1>2, <2>1, SumsAppend
<1>6. bytes - pkt.size <= MaxQ
    BY <1>2
<1> HIDE DEF items, bytes
<1>7. /\ a \in QueueType(n) /\ a.low = items /\ a.lowBytes = bytes /\ a.high = q.high
      /\ a.highBytes = q.highBytes /\ a.serv = q.serv
    BY <1>3, WithLow
<1> HIDE DEF a
<1>8. /\ b \in QueueType(n) /\ b.low = a.low /\ b.lowBytes = a.lowBytes
      /\ b.high = a.high /\ b.highBytes = a.highBytes /\ ServiceConsistent(b)
    BY <1>3, <1>7, StartKeeps
<1> HIDE DEF b
<1>9. Bounded(b)
    BY <1>4, <1>6, <1>7, <1>8 DEF Bounded
<1>10. Sums(b.low, b.lowBytes) /\ Sums(b.high, b.highBytes)
    BY <1>5, <1>7, <1>8
<1>11. QueueGood(b, n)
    BY <1>8, <1>9, <1>10 DEF QueueGood
<1> QED
    BY <1>1, <1>11 DEF b

LEMMA BootKeeps ==
    ASSUME NEW n \in 0 .. NPkts, NEW q, QueueGood(q, n), q.low # <<>>
    PROVE  LET a == BootLast(q)
           IN  /\ a \in QueueType(n) /\ Sums(a.low, a.lowBytes) /\ a.lowBytes <= MaxQ
               /\ a.highBytes <= 2 * MaxQ /\ Sums(a.high, a.highBytes)
               /\ a.serv = "HIGH" => a.high # <<>>
<1> DEFINE x == Last(q.low)
           items == Front(q.low)
           bytes == q.lowBytes - x.size
           a == SetLow(q, items, bytes)
           h == StripPayload(x)
<1>0. n \in Nat /\ 0 .. n - 1 \subseteq 0 .. NPkts - 1
    BY SprayingAssumption
<1>1. /\ q \in QueueType(n) /\ Sums(q.low, q.lowBytes) /\ q.highBytes <= 2 * MaxQ
      /\ Sums(q.high, q.highBytes)
      /\ bytes <= MaxQ
      /\ q.serv = "HIGH" => q.high # <<>>
    BY DEF QueueGood, Bounded, ServiceConsistent
<1>2. q.low \in Seq(Datas(n)) /\ q.lowBytes \in Int
    BY <1>0, <1>1, QueueFields
<1>3. x \in Datas(n) /\ items \in Seq(Datas(n))
    BY <1>2, FrontLast
<1>4. \A d \in Datas(n) : d.size \in Int
    BY <1>0, PacketFields
<1>5. bytes \in Int
    BY <1>2, <1>3, <1>4
<1>6. Sums(items, bytes)
    BY <1>1, <1>2, <1>4, SumsFront
<1> HIDE DEF items, bytes
<1>7. /\ a \in QueueType(n) /\ a.low = items /\ a.lowBytes = bytes /\ a.high = q.high
      /\ a.highBytes = q.highBytes /\ a.serv = q.serv
    BY <1>1, <1>3, <1>5, <1>0, WithLow
<1>8. BootLast(q) = IF DisableTrim THEN a ELSE PushHigh(a, h)
    BY DEF BootLast, SetLow, items, bytes
<1> HIDE DEF a
<1>9. CASE DisableTrim
    BY <1>1, <1>6, <1>7, <1>8, <1>9
<1>10. CASE ~DisableTrim
  <2>1. h \in Headers
      BY <1>0, <1>3 DEF Headers, Datas
  <2> DEFINE b == PushHigh(a, h)
  <2>2. /\ b \in QueueType(n) /\ b.low = a.low /\ b.lowBytes = a.lowBytes
        /\ b.serv = a.serv /\ b.highBytes <= 2 * MaxQ /\ Sums(b.high, b.highBytes)
        /\ b.high = a.high \/ b.high # <<>>
      BY <1>1, <1>7, <2>1, <1>0, PushHighKeeps
  <2> HIDE DEF b
  <2>3. BootLast(q) = b
      BY <1>8, <1>10 DEF b
  <2> QED
      BY <1>1, <1>6, <1>7, <2>2, <2>3
<1> QED
    BY <1>9, <1>10

LEMMA ReceiveKeeps ==
    ASSUME NEW n \in 0 .. NPkts, NEW q, QueueGood(q, n),
           NEW pkt \in Datas(n) \cup {OtherHeader}, NEW boot \in BOOLEAN
    PROVE  QueueGood(ReceivePacket(q, pkt, boot), n)
<1> DEFINE r == ReceivePacket(q, pkt, boot)
<1>1. n \in Nat /\ 0 .. n - 1 \subseteq 0 .. NPkts - 1 /\ MaxQ \in Nat
    BY SprayingAssumption, QueueAssumption
<1>2. /\ q \in QueueType(n) /\ Sums(q.low, q.lowBytes) /\ q.highBytes <= 2 * MaxQ
      /\ Sums(q.high, q.highBytes)
      /\ q.serv = "HIGH" => q.high # <<>>
    BY DEF QueueGood, Bounded, ServiceConsistent
<1>3. q.lowBytes \in Int
    BY <1>1, <1>2, QueueFields
<1>4. CASE pkt.header
  <2>1. pkt \notin Datas(n)
      BY <1>1, <1>4, PacketFields
  <2>2. pkt \in Headers
      BY <2>1 DEF Headers
  <2>3. r = ReceiveHeader(q, pkt)
      BY <1>4 DEF ReceivePacket
  <2> QED
      BY <1>1, <2>2, <2>3, HeaderKeeps
<1>5. CASE ~pkt.header
  <2>1. pkt # OtherHeader
      BY <1>5 DEF OtherHeader
  <2>2. pkt \in Datas(n)
      BY <2>1
  <2>3. pkt.size \in 1 .. MaxQ
      BY <1>1, <2>2, PacketFields
  <2>4. CASE Full(q, pkt) /\ ~boot
    <3>1. CASE DisableTrim
      <4>1. r = q
          BY <1>5, <2>4, <3>1 DEF ReceivePacket
      <4> QED
          BY <4>1
    <3>2. CASE ~DisableTrim
      <4>1. StripPayload(pkt) \in Headers
          BY <1>1, <2>2 DEF Headers, Datas
      <4>2. r = ReceiveHeader(q, StripPayload(pkt))
          BY <1>5, <2>4, <3>2 DEF ReceivePacket
      <4> QED
          BY <1>1, <4>1, <4>2, HeaderKeeps
    <3> QED
        BY <3>1, <3>2
  <2>5. CASE Full(q, pkt) /\ boot
    <3>1. q.low # <<>>
      <4> SUFFICES ASSUME q.low = <<>> PROVE FALSE
          OBVIOUS
      <4>1. q.lowBytes = 0
          BY <1>2, SumsOfEmpty
      <4>2. q.lowBytes + pkt.size > MaxQ
          BY <2>5 DEF Full
      <4> QED
          BY <1>1, <2>3, <4>1, <4>2
    <3> DEFINE a == BootLast(q)
    <3>2. /\ a \in QueueType(n) /\ Sums(a.low, a.lowBytes) /\ a.lowBytes <= MaxQ
          /\ a.highBytes <= 2 * MaxQ /\ Sums(a.high, a.highBytes)
          /\ a.serv = "HIGH" => a.high # <<>>
        BY <3>1, BootKeeps
    <3>3. r = StartIfIdle(PushLow(a, pkt))
        BY <1>5, <2>5 DEF ReceivePacket
    <3> HIDE DEF a
    <3> QED
        BY <1>1, <2>2, <3>2, <3>3, PushLowKeeps
  <2>6. CASE ~Full(q, pkt)
    <3>1. r = StartIfIdle(PushLow(q, pkt))
        BY <1>5, <2>6 DEF ReceivePacket
    <3>2. q.lowBytes <= MaxQ
        BY <1>1, <1>3, <2>3, <2>6 DEF Full
    <3> QED
        BY <1>1, <1>2, <2>2, <3>1, <3>2, PushLowKeeps
  <2> QED
      BY <2>4, <2>5, <2>6
<1> QED
    BY <1>4, <1>5

LEMMA TailLast ==
    ASSUME NEW S, NEW items \in Seq(S), items # <<>>
    PROVE  /\ Head(items) \in S /\ Tail(items) \in Seq(S)
           /\ Tail(items) # <<>> => Last(Tail(items)) = Last(items)
<1>1. Head(items) \in S /\ Tail(items) \in Seq(S)
    BY HeadTailProperties
<1> DEFINE n == Len(items)
           t == Tail(items)
<1>2. n \in Nat \ {0} /\ Len(t) = n - 1 /\ \A i \in 1 .. n - 1 : t[i] = items[i + 1]
    BY EmptySeq, HeadTailProperties
<1>3. ASSUME t # <<>> PROVE Last(t) = Last(items)
  <2>1. Len(t) \in Nat \ {0}
      BY <1>1, <1>3, EmptySeq
  <2> HIDE DEF n, t
  <2>2. n - 1 \in 1 .. n - 1 /\ (n - 1) + 1 = n
      BY <1>2, <2>1
  <2>3. t[n - 1] = items[n]
      BY <1>2, <2>2
  <2> QED
      BY <1>2, <2>3 DEF Last, n
<1> QED
    BY <1>1, <1>3

LEMMA CompleteKeeps ==
    ASSUME NEW n \in Nat, NEW q, QueueGood(q, n), q.serv # "INVALID"
    PROVE  QueueGood(CompleteService(q), n) /\ Served(q) \in Datas(n) \cup Headers
<1>1. /\ q \in QueueType(n) /\ Sums(q.low, q.lowBytes) /\ q.highBytes <= 2 * MaxQ
      /\ Sums(q.high, q.highBytes)
      /\ q.low # <<>> => q.lowBytes - Last(q.low).size <= MaxQ
      /\ q.serv = "LOW" => q.low # <<>>
      /\ q.serv = "HIGH" => q.high # <<>>
    BY DEF QueueGood, Bounded, ServiceConsistent
<1>2. /\ q.low \in Seq(Datas(n)) /\ q.high \in Seq(Headers)
      /\ q.lowBytes \in Int /\ q.highBytes \in Int /\ q.crt \in Int
      /\ q.serv \in {"INVALID", "LOW", "HIGH"} /\ MaxQ \in Nat
    BY <1>1, QueueFields, QueueAssumption
<1>3. (\A d \in Datas(n) : d.size \in Int /\ d.size >= 0) /\ \A h \in Headers : h.size \in Nat
    BY PacketFields, <1>2
<1> DEFINE a == IF q.serv = "LOW"
                THEN [q EXCEPT !.low = Tail(@), !.lowBytes = @ - Head(q.low).size]
                ELSE [q EXCEPT !.high = Tail(@), !.highBytes = @ - Head(q.high).size]
           b == [a EXCEPT !.serv = "INVALID"]
<1>4. /\ a \in QueueType(n) /\ Sums(a.low, a.lowBytes) /\ a.highBytes <= 2 * MaxQ
      /\ Sums(a.high, a.highBytes)
      /\ a.low # <<>> => a.lowBytes - Last(a.low).size <= MaxQ
      /\ Served(q) \in Datas(n) \cup Headers
  <2>1. CASE q.serv = "LOW"
    <3> DEFINE items == Tail(q.low)
               bytes == q.lowBytes - Head(q.low).size
    <3>1. /\ Head(q.low) \in Datas(n) /\ items \in Seq(Datas(n))
          /\ items # <<>> => Last(items) = Last(q.low)
        BY <1>1, <1>2, <2>1, TailLast
    <3>2. bytes \in Int /\ bytes <= q.lowBytes
        BY <1>2, <1>3, <3>1
    <3>3. Sums(items, bytes)
        BY <1>1, <1>2, <1>3, <2>1, SumsTail
    <3>4. items # <<>> => bytes - Last(items).size <= MaxQ
      <4> SUFFICES ASSUME items # <<>> PROVE bytes - Last(items).size <= MaxQ
          OBVIOUS
      <4>1. Last(items) = Last(q.low) /\ q.lowBytes - Last(q.low).size <= MaxQ
          BY <1>1, <2>1, <3>1
      <4>2. Last(q.low).size \in Int
          BY <1>1, <1>2, <1>3, <2>1, FrontLast
      <4> HIDE DEF items, bytes
      <4> QED
          BY <1>2, <3>2, <4>1, <4>2
    <3>5. a = SetLow(q, items, bytes)
        BY <2>1 DEF SetLow
    <3>6. Served(q) \in Datas(n)
        BY <2>1, <3>1 DEF Served
    <3> HIDE DEF a, items, bytes
    <3>7. /\ a \in QueueType(n) /\ a.low = items /\ a.lowBytes = bytes
          /\ a.high = q.high /\ a.highBytes = q.highBytes
        BY <1>1, <3>1, <3>2, <3>5, WithLow
    <3> QED
        BY <1>1, <3>3, <3>4, <3>6, <3>7
  <2>2. CASE q.serv = "HIGH"
    <3> DEFINE items == Tail(q.high)
               bytes == q.highBytes - Head(q.high).size
    <3>1. Head(q.high) \in Headers /\ items \in Seq(Headers)
        BY <1>1, <1>2, <2>2, TailLast
    <3>2. bytes \in Int /\ bytes <= 2 * MaxQ
      <4>1. Head(q.high).size \in Nat
          BY <1>3, <3>1
      <4> QED
          BY <1>1, <1>2, <4>1
    <3>6. Sums(items, bytes)
        BY <1>1, <1>2, <1>3, <2>2, SumsTail
    <3>3. a = SetHigh(q, items, bytes)
        BY <2>2 DEF SetHigh
    <3>4. Served(q) \in Headers
        BY <2>2, <3>1 DEF Served
    <3> HIDE DEF a, items, bytes
    <3>5. /\ a \in QueueType(n) /\ a.low = q.low /\ a.lowBytes = q.lowBytes
          /\ a.high = items /\ a.highBytes = bytes
        BY <1>1, <3>1, <3>2, <3>3, WithHigh
    <3> QED
        BY <1>1, <3>2, <3>4, <3>5, <3>6
  <2> QED
      BY <1>2, <2>1, <2>2
<1>5. CompleteService(q) = IF b.low # <<>> \/ b.high # <<>> THEN BeginService(b) ELSE b
    BY DEF CompleteService
<1> HIDE DEF a
<1>6. b = SetServ(a, a.crt, "INVALID") /\ a.crt \in Int
    BY <1>4, QueueFields DEF SetServ, QueueType
<1> HIDE DEF b
<1>7. /\ b \in QueueType(n) /\ b.low = a.low /\ b.lowBytes = a.lowBytes
      /\ b.high = a.high /\ b.highBytes = a.highBytes /\ b.serv = "INVALID"
    BY <1>4, <1>6, WithServ
<1>8. CASE b.low # <<>> \/ b.high # <<>>
  <2> DEFINE c == BeginService(b)
  <2>1. /\ c \in QueueType(n) /\ c.low = b.low /\ c.lowBytes = b.lowBytes
        /\ c.high = b.high /\ c.highBytes = b.highBytes /\ ServiceConsistent(c)
      BY <1>7, <1>8, BeginKeeps
  <2>2. CompleteService(q) = c
      BY <1>5, <1>8
  <2> HIDE DEF c
  <2> QED
      BY <1>4, <1>7, <2>1, <2>2 DEF QueueGood, Bounded
<1>9. CASE b.low = <<>> /\ b.high = <<>>
  <2>1. CompleteService(q) = b
      BY <1>5, <1>9
  <2> QED
      BY <1>4, <1>7, <1>9, <2>1 DEF QueueGood, Bounded, ServiceConsistent
<1> QED
    BY <1>8, <1>9

LEMMA QueueAdmitsMore ==
    ASSUME NEW n \in Nat, NEW q, QueueGood(q, n) PROVE QueueGood(q, n + 1)
<1>1. Seq(Datas(n)) \subseteq Seq(Datas(n + 1))
    BY MoreDatas, SeqMonotonic
<1>2. QueueType(n) \subseteq QueueType(n + 1)
  <2> DEFINE S == Seq(Datas(n))
             T == Seq(Datas(n + 1))
             H == Seq(Headers)
  <2>1. S \subseteq T
      BY <1>1
  <2> HIDE DEF S, T, H
  <2>2. [low : S, high : H, lowBytes : Int, highBytes : Int, serv : {"INVALID", "LOW", "HIGH"}, crt : Int]
        \subseteq [low : T, high : H, lowBytes : Int, highBytes : Int, serv : {"INVALID", "LOW", "HIGH"}, crt : Int]
      BY <2>1
  <2> QED
      BY <2>2 DEF QueueType, S, T, H
<1> QED
    BY <1>2 DEF QueueGood

-----------------------------------------------------------------------------
(* The receiver.                                                           *)

\* What the receiver keeps, when the data of the numbers in G has arrived.
Beyond(k, G) == {s \in G : s >= k.expected}

SinkGood(k, G) ==
    /\ k = [expected |-> k.expected, bitmap |-> k.bitmap, ooo |-> k.ooo]
    /\ k.expected \in Nat /\ G \subseteq Nat /\ IsFiniteSet(G)
    /\ 0 .. k.expected - 1 \subseteq G /\ k.expected \notin G
    /\ k.bitmap.base = k.expected
    /\ Represents(k.bitmap, Beyond(k, G))
    /\ k.ooo = Cardinality(Beyond(k, G))

\* One past the numbers the bitmap can tell apart it answers no, when every one
\* of them but the base is held.
LEMMA GetPast ==
    ASSUME NEW b, NEW S, Represents(b, S), b.base \notin S,
           \A i \in b.base + 1 .. b.base + MaxSize - 1 : i \in S
    PROVE  ~Get(b, b.base + MaxSize)
<1> DEFINE base == b.base
           n == b.size
           buf == b.buf
<1>1. /\ base \in Nat /\ n \in Lengths \cup {0} /\ S \subseteq base .. base + n - 1
      /\ \A i \in base .. base + n - 1 : buf[i % n] <=> i \in S
    BY DEF Represents
<1>2. MaxSize \in Nat \ {0} /\ n \in 0 .. MaxSize
    BY <1>1, LengthsNat
<1>3. base \notin S /\ \A i \in base + 1 .. base + MaxSize - 1 : i \in S
    OBVIOUS
<1> SUFFICES ASSUME n # 0 PROVE ~buf[(base + MaxSize) % n]
  <2>1. CASE n = 0
    <3>1. ((base + MaxSize) - base) % MaxSize \in Nat
      <4>1. (base + MaxSize) - base = MaxSize
          BY <1>1, <1>2
      <4>2. \A a \in Nat, m \in Nat \ {0} : a % m \in Nat
          OBVIOUS
      <4> QED
          BY <1>2, <4>1, <4>2
    <3>2. Offset(b, base + MaxSize) \in Nat
      <4>1. Offset(b, base + MaxSize) = ((base + MaxSize) - base) % MaxSize
          BY DEF Offset
      <4> QED
          BY <3>1, <4>1
    <3>3. ~(Offset(b, base + MaxSize) < b.size)
        BY <2>1, <3>2
    <3> QED
        BY <3>3 DEF Get
  <2>2. CASE n # 0
      BY <2>2 DEF Get
  <2> QED
      BY <2>1, <2>2
<1> HIDE DEF base, n, buf
<1>4. n = MaxSize
  <2>1. CASE MaxSize = 1
      BY <1>2, <2>1
  <2>2. CASE MaxSize # 1
    <3>1. base + MaxSize - 1 \in base + 1 .. base + MaxSize - 1
        BY <1>1, <1>2, <2>2
    <3>2. base + MaxSize - 1 \in base .. base + n - 1
        BY <1>1, <1>3, <3>1
    <3> QED
        BY <1>1, <1>2, <3>2
  <2> QED
      BY <2>1, <2>2
<1>5. (base + MaxSize) % n = base % n
  <2>1. base + MaxSize \in Int /\ (base + MaxSize) - MaxSize = base
      BY <1>1, <1>2
  <2>2. ((base + MaxSize) - MaxSize) % MaxSize = (base + MaxSize) % MaxSize
      BY <1>2, <2>1, OnceRound
  <2> QED
      BY <1>4, <2>1, <2>2
<1>6. base \in base .. base + n - 1
    BY <1>1, <1>2
<1> QED
    BY <1>1, <1>3, <1>5, <1>6

LEMMA HaveIsGot ==
    ASSUME NEW k, NEW G, SinkGood(k, G), NEW s \in 0 .. k.expected + MaxSize - 1
    PROVE  Have(k, s) <=> s \in G
<1>1. /\ k.expected \in Nat /\ 0 .. k.expected - 1 \subseteq G /\ k.bitmap.base = k.expected
      /\ Represents(k.bitmap, Beyond(k, G)) /\ MaxSize \in Nat
    BY LengthsNat DEF SinkGood
<1>2. CASE s < k.expected
    BY <1>1, <1>2 DEF Have
<1>3. CASE ~(s < k.expected)
  <2>1. s \in k.bitmap.base .. k.bitmap.base + MaxSize - 1 /\ s >= k.expected
      BY <1>1, <1>3
  <2>2. Get(k.bitmap, s) <=> s \in Beyond(k, G)
      BY <1>1, <2>1, GetReads
  <2> QED
      BY <1>3, <2>1, <2>2 DEF Have, Beyond
<1> QED
    BY <1>2, <1>3

\* The loop ends at the first number missing.
LEMMA AdvanceKeeps ==
    ASSUME NEW n \in 0 .. NPkts, NEW k, NEW G, SinkGood(k, G), G \subseteq 0 .. n - 1,
           n <= k.expected + MaxSize, k.expected < n
    PROVE  /\ SinkGood(Advance(k), G \cup {k.expected})
           /\ Advance(k).expected > k.expected
<1> DEFINE x == k.expected
           T == Beyond(k, G)
           P(e) == ~Get(k.bitmap, e) /\ \A i \in x + 1 .. e - 1 : Get(k.bitmap, i)
           e == CHOOSE d \in x + 1 .. NPkts : P(d)
           rest == {i \in T : i >= e}
           held == x + 1 .. e - 1
           b == SetBase(ClearRange(k.bitmap, x + 1, e - 1), e)
           a == Advance(k)
<1>1. /\ x \in Nat /\ G \subseteq Nat /\ IsFiniteSet(G)
      /\ 0 .. x - 1 \subseteq G /\ x \notin G
      /\ k.bitmap.base = x
      /\ Represents(k.bitmap, T)
      /\ k.ooo = Cardinality(T)
    BY DEF SinkGood
<1>2. n \in Nat /\ NPkts \in Nat /\ n <= NPkts /\ MaxSize \in Nat \ {0} /\ x < n /\ n <= x + MaxSize
    BY <1>1, SprayingAssumption, LengthsNat
<1>3. T = {s \in G : s >= x} /\ x \notin T
    BY <1>1 DEF Beyond
<1>4. \A i \in x .. x + MaxSize - 1 : Get(k.bitmap, i) <=> i \in T
    BY <1>1, GetReads
<1>5. ~(\A i \in x + 1 .. x + MaxSize - 1 : i \in T) \/ ~Get(k.bitmap, x + MaxSize)
    BY <1>1, <1>3, GetPast
<1>6. a = [expected |-> e, bitmap |-> b, ooo |-> k.ooo - (e - 1 - x)]
    BY DEF Advance
<1> HIDE DEF x, T, a, b
<1>7. \E d \in x + 1 .. n : P(d) /\ d \notin T /\ \A i \in x + 1 .. d - 1 : i \in T
  <2> DEFINE Missing == {i \in Nat : i > x /\ i \notin T}
  <2>1. n \in Missing
      BY <1>1, <1>2, <1>3
  <2>2. PICK d \in Missing : \A i \in Missing : d <= i
    <3>1. Missing \in SUBSET Nat /\ Missing # {}
        BY <2>1
    <3> HIDE DEF Missing
    <3> QED
        BY <3>1, SmallestOf
  <2>3. d \in x + 1 .. n /\ d \notin T
      BY <1>1, <1>2, <2>1, <2>2
  <2>4. ASSUME NEW i \in x + 1 .. d - 1 PROVE i \in T /\ i \in x .. x + MaxSize - 1
    <3>1. i \in Nat /\ i > x /\ i < d /\ i \in x .. x + MaxSize - 1
        BY <1>1, <1>2, <2>3
    <3>2. i \notin Missing
        BY <2>2, <3>1
    <3> QED
        BY <3>1, <3>2
  <2>5. ~Get(k.bitmap, d)
    <3>1. CASE d \in x .. x + MaxSize - 1
        BY <1>4, <2>3, <3>1
    <3>2. CASE d \notin x .. x + MaxSize - 1
      <4>1. d = x + MaxSize
          BY <1>1, <1>2, <2>3, <3>2
      <4>2. \A i \in x + 1 .. x + MaxSize - 1 : i \in T
          BY <1>1, <1>2, <2>4, <4>1
      <4> QED
          BY <1>5, <4>1, <4>2
    <3> QED
        BY <3>1, <3>2
  <2> QED
      BY <1>4, <2>3, <2>4, <2>5
<1>8. PICK d \in x + 1 .. n : P(d) /\ d \notin T /\ \A i \in x + 1 .. d - 1 : i \in T
    BY <1>7
<1>9. e \in x + 1 .. NPkts /\ P(e)
  <2>1. d \in x + 1 .. NPkts
      BY <1>1, <1>2
  <2> HIDE DEF P
  <2> QED
      BY <1>8, <2>1
<1>10. e = d
  <2> HIDE DEF e
  <2>1. ~(e < d)
    <3> SUFFICES ASSUME e < d PROVE FALSE
        OBVIOUS
    <3>1. e \in x + 1 .. d - 1
        BY <1>1, <1>2, <1>9
    <3> QED
        BY <1>8, <1>9, <3>1
  <2>2. ~(d < e)
    <3> SUFFICES ASSUME d < e PROVE FALSE
        OBVIOUS
    <3>1. d \in x + 1 .. e - 1
        BY <1>1, <1>2, <1>9
    <3> QED
        BY <1>8, <1>9, <3>1
  <2> QED
      BY <1>1, <1>2, <1>9, <2>1, <2>2
<1>11. e \in x + 1 .. n /\ e \notin T /\ held \subseteq T
    BY <1>8, <1>10
<1> HIDE DEF e, P
<1>12. Represents(b, rest) /\ b.base = e
  <2>1. e \in Nat /\ e > x
      BY <1>1, <1>2, <1>11
  <2>2. Represents(SetBase(ClearRange(k.bitmap, x + 1, e - 1), e), {i \in T : i >= e})
    <3>1. Represents(k.bitmap, T) /\ k.bitmap.base = x /\ x \notin T
        BY <1>1, <1>3
    <3>2. \A i \in x + 1 .. e - 1 : i \in T
        BY <1>11
    <3> QED
        BY <2>1, <3>1, <3>2, BaseMoves
  <2>3. b.base = e
      BY DEF b, SetBase
  <2>4. b = SetBase(ClearRange(k.bitmap, x + 1, e - 1), e)
      BY DEF b
  <2>5. rest = {i \in T : i >= e}
      OBVIOUS
  <2> HIDE DEF rest
  <2> QED
      BY <2>2, <2>3, <2>4, <2>5
<1>13. a.expected = e /\ a.bitmap = b /\ a.ooo = k.ooo - (e - 1 - x)
    BY <1>6
<1>14. Beyond(a, G \cup {x}) = rest
  <2>1. Beyond(a, G \cup {x}) = {s \in G \cup {x} : s >= e}
      BY <1>13 DEF Beyond
  <2>2. e > x /\ e \in Int
      BY <1>1, <1>2, <1>11
  <2>3. ASSUME NEW s \in G \cup {x}, s >= e PROVE s \in rest
    <3>1. s # x
        BY <1>1, <2>2, <2>3
    <3>2. s \in Nat /\ s \in G
        BY <1>1, <3>1
    <3>3. s >= x
        BY <1>1, <2>2, <2>3, <3>2
    <3> QED
        BY <1>3, <2>3, <3>2, <3>3
  <2>4. rest \subseteq G
      BY <1>3
  <2> QED
      BY <2>1, <2>3, <2>4
<1>15. a.ooo = Cardinality(rest)
  <2>1. T = rest \cup held /\ rest \cap held = {}
    <3>1. e > x /\ e \in Int
        BY <1>1, <1>2, <1>11
    <3>2. ASSUME NEW i \in T PROVE i >= e \/ i \in held
        BY <1>1, <1>3, <3>1
    <3>3. ASSUME NEW i \in held PROVE ~(i >= e)
        BY <1>1, <3>1
    <3> QED
        BY <1>11, <3>2, <3>3
  <2>2. IsFiniteSet(T)
    <3>1. T \in SUBSET G
        BY <1>3
    <3> QED
        BY <1>1, <3>1, FS_Subset
  <2>3. IsFiniteSet(rest)
    <3>1. rest \in SUBSET T
        OBVIOUS
    <3> QED
        BY <2>2, <3>1, FS_Subset
  <2>4. IsFiniteSet(held) /\ Cardinality(held) = e - 1 - x
    <3>1. x + 1 \in Int /\ e - 1 \in Int
        BY <1>1, <1>2, <1>11
    <3>2. IsFiniteSet(held) /\ Cardinality(held) = IF x + 1 > e - 1 THEN 0 ELSE e - 1 - (x + 1) + 1
        BY <3>1, FS_Interval
    <3> HIDE DEF held
    <3> QED
        BY <1>1, <1>2, <1>11, <3>2
  <2> HIDE DEF rest, held
  <2>5. Cardinality(T) = Cardinality(rest) + Cardinality(held) - Cardinality({})
      BY <2>1, <2>3, <2>4, FS_Union
  <2>6. Cardinality({}) = 0 /\ Cardinality(rest) \in Nat
      BY <2>3, FS_EmptySet, FS_CardinalityType
  <2> QED
      BY <1>1, <1>2, <1>11, <1>13, <2>4, <2>5, <2>6
<1>16. IsFiniteSet(G \cup {x}) /\ G \cup {x} \subseteq Nat
    BY <1>1, FS_AddElement
<1>17. 0 .. e - 1 \subseteq G \cup {x} /\ e \notin G \cup {x}
    BY <1>1, <1>2, <1>3, <1>11
<1>18. SinkGood(a, G \cup {x})
  <2>1. a = [expected |-> a.expected, bitmap |-> a.bitmap, ooo |-> a.ooo]
      BY <1>6
  <2>2. a.expected \in Nat
      BY <1>1, <1>2, <1>11, <1>13
  <2> QED
      BY <1>12, <1>13, <1>14, <1>15, <1>16, <1>17, <2>1, <2>2 DEF SinkGood
<1> QED
    BY <1>1, <1>2, <1>11, <1>13, <1>18 DEF a, x

LEMMA ProcessKeeps ==
    ASSUME NEW n \in 0 .. NPkts, NEW k, NEW G, SinkGood(k, G), G \subseteq 0 .. n - 1,
           n <= k.expected + MaxSize, NEW s \in 0 .. n - 1
    PROVE  /\ SinkGood(ProcessData(k, s), G \cup {s})
           /\ ProcessData(k, s).expected >= k.expected
<1>1. /\ k = [expected |-> k.expected, bitmap |-> k.bitmap, ooo |-> k.ooo]
      /\ k.expected \in Nat /\ G \subseteq Nat /\ IsFiniteSet(G)
      /\ 0 .. k.expected - 1 \subseteq G /\ k.expected \notin G
      /\ k.bitmap.base = k.expected
      /\ Represents(k.bitmap, Beyond(k, G))
      /\ k.ooo = Cardinality(Beyond(k, G))
    BY DEF SinkGood
<1>2. n \in Nat /\ MaxSize \in Nat \ {0} /\ s \in Nat /\ s \in 0 .. k.expected + MaxSize - 1
    BY <1>1, SprayingAssumption, LengthsNat
<1>3. Have(k, s) <=> s \in G
    BY <1>2, HaveIsGot
<1>4. CASE Have(k, s)
  <2>1. ProcessData(k, s) = k /\ G \cup {s} = G
      BY <1>3, <1>4 DEF ProcessData
  <2> QED
      BY <1>1, <2>1
<1>5. CASE s = k.expected
  <2>1. ProcessData(k, s) = Advance(k)
      BY <1>1, <1>3, <1>5 DEF ProcessData
  <2>2. k.expected < n
      BY <1>1, <1>2, <1>5
  <2>3. /\ SinkGood(Advance(k), G \cup {k.expected})
        /\ Advance(k).expected > k.expected
      BY <2>2, AdvanceKeeps
  <2>4. Advance(k).expected \in Nat
      BY <2>3 DEF SinkGood
  <2> QED
      BY <1>1, <1>5, <2>1, <2>3, <2>4
<1>6. CASE ~Have(k, s) /\ s # k.expected
  <2> DEFINE x == k.expected
             b == Put(k.bitmap, s, TRUE)
             T == Beyond(k, G)
             c == k.ooo + 1
             a == [expected |-> x, bitmap |-> b, ooo |-> c]
  <2>1. ProcessData(k, s) = a
    <3>1. ProcessData(k, s) = [k EXCEPT !.bitmap = b, !.ooo = c]
        BY <1>6 DEF ProcessData
    <3> HIDE DEF b, c
    <3> QED
        BY <1>1, <3>1
  <2>2. s > x /\ s \notin G
      BY <1>1, <1>2, <1>3, <1>6
  <2>3. s \in k.bitmap.base .. k.bitmap.base + MaxSize - 1
      BY <1>1, <1>2, <2>2
  <2>4. Represents(b, T \cup {s}) /\ b.base = x
      BY <1>1, <2>3, PutAdds
  <2> HIDE DEF b
  <2>5. a.expected = x /\ a.bitmap = b /\ a.ooo = c
      OBVIOUS
  <2> HIDE DEF a
  <2>6. Beyond(a, G \cup {s}) = T \cup {s}
    <3>1. Beyond(a, G \cup {s}) = {i \in G \cup {s} : i >= x} /\ T = {i \in G : i >= x}
        BY <2>5 DEF Beyond
    <3>2. s >= x
        BY <1>1, <1>2, <2>2
    <3> QED
        BY <3>1, <3>2
  <2>7. c = Cardinality(T \cup {s})
    <3>1. T \in SUBSET G /\ s \notin T
        BY <2>2 DEF Beyond
    <3>2. IsFiniteSet(T)
        BY <1>1, <3>1, FS_Subset
    <3> QED
        BY <1>1, <3>1, <3>2, FS_AddElement
  <2>8. /\ IsFiniteSet(G \cup {s}) /\ G \cup {s} \subseteq Nat
        /\ 0 .. x - 1 \subseteq G \cup {s} /\ x \notin G \cup {s}
      BY <1>1, <1>2, <2>2, FS_AddElement
  <2>9. SinkGood(a, G \cup {s})
    <3>1. a = [expected |-> a.expected, bitmap |-> a.bitmap, ooo |-> a.ooo]
        BY <2>5 DEF a
    <3> QED
        BY <1>1, <2>4, <2>5, <2>6, <2>7, <2>8, <3>1 DEF SinkGood
  <2> QED
      BY <1>1, <2>1, <2>5, <2>9
<1> QED
    BY <1>4, <1>5, <1>6

-----------------------------------------------------------------------------
(* A pipe.                                                                 *)

Items == {Data(s) : s \in 0 .. NPkts - 1} \cup {OtherHeader, NoItem}
             \cup {StripPayload(Data(s)) : s \in 0 .. NPkts - 1}

PipeGood(r, wire, events, n) ==
    /\ IsRing(r, Items) /\ Contents(r) = wire
    /\ wire \in Seq(Datas(n) \cup Headers)
    /\ events = IF wire = <<>> THEN 0 ELSE 1

LEMMA OnTheWire ==
    ASSUME NEW n \in 0 .. NPkts
    PROVE  Datas(n) \cup Headers \subseteq Items /\ NoItem \in Items
<1>1. 0 .. n - 1 \subseteq 0 .. NPkts - 1
    BY SprayingAssumption
<1> QED
    BY <1>1 DEF Datas, Headers, Items

LEMMA PipeCount ==
    ASSUME NEW r, NEW wire, NEW events, NEW n, PipeGood(r, wire, events, n)
    PROVE  r.count = Len(wire) /\ r.count \in Nat /\ (r.count = 0 <=> wire = <<>>)
<1>1. IsRing(r, Items) /\ Contents(r) = wire /\ wire \in Seq(Datas(n) \cup Headers)
    BY DEF PipeGood
<1>2. Len(wire) = r.count
    BY <1>1, ContentsOf
<1>3. r.count \in Nat
    BY <1>1, <1>2, LenProperties
<1> QED
    BY <1>1, <1>2, <1>3, EmptySeq

LEMMA PipeTakes ==
    ASSUME NEW n \in 0 .. NPkts, NEW r, NEW wire, NEW events, PipeGood(r, wire, events, n),
           NEW pkt \in Datas(n) \cup Headers
    PROVE  PipeGood(Push(r, pkt), Append(wire, pkt), IF r.count = 0 THEN events + 1 ELSE events, n)
<1>1. /\ IsRing(r, Items) /\ Contents(r) = wire /\ wire \in Seq(Datas(n) \cup Headers)
      /\ events = IF wire = <<>> THEN 0 ELSE 1
    BY DEF PipeGood
<1>2. IsRing(Push(r, pkt), Items) /\ Contents(Push(r, pkt)) = Append(wire, pkt)
    BY <1>1, OnTheWire, PushAppends
<1>3. Append(wire, pkt) \in Seq(Datas(n) \cup Headers) /\ Append(wire, pkt) # <<>>
  <2> DEFINE D == Datas(n) \cup Headers
  <2>1. wire \in Seq(D) /\ pkt \in D
      BY <1>1
  <2> HIDE DEF D
  <2>2. Append(wire, pkt) \in Seq(D) /\ Len(Append(wire, pkt)) = Len(wire) + 1 /\ Len(wire) \in Nat
      BY <2>1, AppendProperties, LenProperties
  <2>3. Append(wire, pkt) # <<>>
      BY <2>2, EmptySeq
  <2> QED
      BY <2>2, <2>3 DEF D
<1>4. r.count = 0 <=> wire = <<>>
    BY PipeCount
<1>5. (IF r.count = 0 THEN events + 1 ELSE events) = 1
    BY <1>1, <1>4
<1> QED
    BY <1>2, <1>3, <1>5 DEF PipeGood

LEMMA PipeGives ==
    ASSUME NEW n \in 0 .. NPkts, NEW r, NEW wire, NEW events, PipeGood(r, wire, events, n),
           events > 0
    PROVE  /\ PipeGood(Pop(r), Tail(wire), Rearm(events, Pop(r)), n)
           /\ Oldest(r) \in Datas(n) \cup Headers
<1>1. /\ IsRing(r, Items) /\ Contents(r) = wire /\ wire \in Seq(Datas(n) \cup Headers)
      /\ events = IF wire = <<>> THEN 0 ELSE 1
    BY DEF PipeGood
<1>2. wire # <<>> /\ events = 1
    BY <1>1
<1>3. r.count > 0
    BY <1>2, PipeCount
<1>4. IsRing(Pop(r), Items) /\ Oldest(r) = Head(wire) /\ Contents(Pop(r)) = Tail(wire)
    BY <1>1, <1>3, PopTakesOldest
<1>5. Head(wire) \in Datas(n) \cup Headers /\ Tail(wire) \in Seq(Datas(n) \cup Headers)
    BY <1>1, <1>2, TailLast
<1> DEFINE c == Pop(r).count
           t == Tail(wire)
<1>6. c \in Nat /\ (c = 0 <=> t = <<>>)
  <2>1. Len(t) = c
      BY <1>4, ContentsOf
  <2>2. c \in Nat
      BY <1>5, <2>1, LenProperties
  <2> QED
      BY <1>5, <2>1, <2>2, EmptySeq
<1>7. Rearm(events, Pop(r)) = IF t = <<>> THEN 0 ELSE 1
  <2>1. Rearm(events, Pop(r)) = IF c > 0 THEN 1 ELSE 0
      BY <1>2 DEF Rearm
  <2> HIDE DEF c, t
  <2> QED
      BY <1>6, <2>1
<1> QED
    BY <1>4, <1>5, <1>7 DEF PipeGood

LEMMA PipeAdmitsMore ==
    ASSUME NEW n \in Nat, NEW r, NEW wire, NEW events, PipeGood(r, wire, events, n)
    PROVE  PipeGood(r, wire, events, n + 1)
<1>1. Datas(n) \cup Headers \subseteq Datas(n + 1) \cup Headers
    BY MoreDatas
<1>2. wire \in Seq(Datas(n) \cup Headers)
    BY DEF PipeGood
<1>3. wire \in Seq(Datas(n + 1) \cup Headers)
    BY <1>1, <1>2, SeqMonotonic
<1> QED
    BY <1>3 DEF PipeGood

-----------------------------------------------------------------------------
(* The whole.                                                              *)

\* The sender stays within the receiver's window, and only what it sent arrives.
SenderGood ==
    /\ next \in 0 .. NPkts /\ next <= sink.expected + MaxSize
    /\ got \subseteq 0 .. next - 1
    /\ SinkGood(sink, got)

QueuesGood ==
    /\ queue = [p \in Routes |-> queue[p]]
    /\ \A p \in Routes : QueueGood(queue[p], next)

PipesGood ==
    /\ pipe = [p \in Routes |-> pipe[p]] /\ pending = [p \in Routes |-> pending[p]]
    /\ inPipe = [p \in Routes |-> inPipe[p]]
    /\ \A p \in Routes : PipeGood(pipe[p], inPipe[p], pending[p], next)

Inv == SenderGood /\ QueuesGood /\ PipesGood

LEMMA Ranges ==
    /\ MaxSize \in Nat \ {0} /\ Span \in 0 .. MaxSize - 1 /\ NPkts \in Nat \ {0}
    /\ PipeSize \in Nat \ {0} /\ MaxQ \in Nat
BY SprayingAssumption, QueueAssumption, LengthsNat

LEMMA Initially == Init => Inv
<1> SUFFICES ASSUME Init PROVE Inv
    OBVIOUS
<1>1. SenderGood
  <2>1. next = 0 /\ got = {} /\ sink = [expected |-> 0, bitmap |-> NewBitmap, ooo |-> 0]
      BY DEF Init
  <2>2. sink.expected = 0 /\ sink.bitmap = NewBitmap /\ sink.ooo = 0
      BY <2>1
  <2>3. Beyond(sink, got) = {}
      BY <2>1 DEF Beyond
  <2>4. Represents(NewBitmap, {}) /\ NewBitmap.base = 0
    <3>1. NewBitmap.base = 0 /\ NewBitmap.size = 0 /\ NewBitmap.buf = [k \in {} |-> FALSE]
        BY DEF NewBitmap
    <3>2. 0 .. NewBitmap.size - 1 = {} /\ NewBitmap.base .. NewBitmap.base + NewBitmap.size - 1 = {}
        BY <3>1
    <3>3. NewBitmap.buf \in [0 .. NewBitmap.size - 1 -> BOOLEAN]
        BY <3>1, <3>2
    <3> QED
        BY <3>1, <3>2, <3>3 DEF Represents, NewBitmap
  <2>5. IsFiniteSet({}) /\ Cardinality({}) = 0
      BY FS_EmptySet
  <2>6. SinkGood(sink, got)
      BY <2>1, <2>2, <2>3, <2>4, <2>5 DEF SinkGood
  <2> QED
      BY <2>1, <2>2, <2>6, Ranges DEF SenderGood
<1>2. next = 0
    BY DEF Init
<1>3. QueuesGood
  <2>1. queue = [p \in Routes |-> EmptyQueue]
      BY DEF Init
  <2>2. QueueGood(EmptyQueue, 0)
    <3>1. /\ EmptyQueue.low = <<>> /\ EmptyQueue.high = <<>> /\ EmptyQueue.lowBytes = 0
          /\ EmptyQueue.highBytes = 0 /\ EmptyQueue.serv = "INVALID"
        BY DEF EmptyQueue
    <3>2. <<>> \in Seq(Datas(0)) /\ <<>> \in Seq(Headers)
        BY EmptySeq
    <3>3. EmptyQueue \in QueueType(0)
        BY <3>2 DEF EmptyQueue, QueueType
    <3>4. Sums(EmptyQueue.low, EmptyQueue.lowBytes)
        BY <3>1, SumsOfEmpty
    <3> QED
        BY <3>1, <3>3, <3>4, Ranges DEF QueueGood, Bounded, ServiceConsistent
  <2> QED
      BY <1>2, <2>1, <2>2 DEF QueuesGood
<1>4. PipesGood
  <2>1. /\ pipe = [p \in Routes |-> Empty(PipeSize)] /\ pending = [p \in Routes |-> 0]
        /\ inPipe = [p \in Routes |-> <<>>]
      BY DEF Init
  <2>2. PipeGood(Empty(PipeSize), <<>>, 0, 0)
    <3> DEFINE slots == [k \in 0 .. PipeSize - 1 |-> NoItem]
               r == Empty(PipeSize)
    <3>1. slots \in [0 .. PipeSize - 1 -> Items]
        BY DEF Items
    <3> HIDE DEF slots
    <3>2. Wrap(0 + 0, PipeSize) = 0 /\ 0 \in 0 .. PipeSize - 1
        BY Ranges DEF Wrap
    <3>3. r = Ring(slots, Wrap(0 + 0, PipeSize), 0, 0, PipeSize)
        BY <3>2 DEF Empty, slots
    <3>4. IsRing(r, Items)
        BY <3>1, <3>2, <3>3, RingFrom, Ranges
    <3>5. r.count = 0
        BY <3>3 DEF Ring
    <3>6. Contents(r) \in Seq(Items) /\ Len(Contents(r)) = 0
        BY <3>4, <3>5, ContentsOf
    <3>7. Contents(r) = <<>> /\ <<>> \in Seq(Datas(0) \cup Headers)
        BY <3>6, EmptySeq
    <3> QED
        BY <3>4, <3>7 DEF PipeGood
  <2> QED
      BY <1>2, <2>1, <2>2 DEF PipesGood
<1> QED
    BY <1>1, <1>3, <1>4 DEF Inv

LEMMA EnqueueKeeps ==
    ASSUME QueuesGood, next \in 0 .. NPkts, NEW n \in 0 .. NPkts,
           \A p \in Routes : QueueGood(queue[p], n),
           NEW p \in Routes, NEW pkt \in Datas(n) \cup {OtherHeader}, Enqueue(p, pkt)
    PROVE  /\ queue' = [c \in Routes |-> queue'[c]]
           /\ \A c \in Routes : QueueGood(queue'[c], n)
<1>1. PICK boot \in BOOLEAN : queue' = [queue EXCEPT ![p] = ReceivePacket(queue[p], pkt, boot)]
    BY DEF Enqueue
<1> DEFINE r == ReceivePacket(queue[p], pkt, boot)
<1>2. QueueGood(r, n)
    BY ReceiveKeeps
<1> HIDE DEF r
<1>3. queue = [c \in Routes |-> queue[c]]
    BY DEF QueuesGood
<1>4. queue' = [c \in Routes |-> IF c = p THEN r ELSE queue[c]]
    BY <1>1, <1>3 DEF r
<1> QED
    BY <1>2, <1>4

LEMMA SendNewKeeps ==
    ASSUME Inv, NEW p \in Routes, SendNew(p) PROVE Inv'
<1>1. /\ next < NPkts /\ next <= sink.expected + Span /\ next' = next + 1
      /\ Enqueue(p, Data(next))
      /\ UNCHANGED <<pipe, pending, sink, inPipe, got>>
    BY DEF SendNew, Enqueue
<1>2. SenderGood /\ QueuesGood /\ PipesGood
    BY DEF Inv
<1>3. next \in 0 .. NPkts /\ next \in Nat /\ sink.expected \in Nat
    BY <1>2, Ranges DEF SenderGood, SinkGood
<1> DEFINE n == next + 1
<1>4. n \in 0 .. NPkts /\ n <= sink.expected + MaxSize /\ 0 .. next - 1 \subseteq 0 .. n - 1
    BY <1>1, <1>3, Ranges
<1>5. SenderGood'
    BY <1>1, <1>2, <1>4 DEF SenderGood, SinkGood, Beyond
<1>6. QueuesGood'
  <2>1. \A c \in Routes : QueueGood(queue[c], n)
      BY <1>2, <1>3, QueueAdmitsMore DEF QueuesGood
  <2>2. Data(next) \in Datas(n)
      BY <1>3, MoreDatas
  <2>3. /\ queue' = [c \in Routes |-> queue'[c]]
        /\ \A c \in Routes : QueueGood(queue'[c], n)
      BY <1>1, <1>2, <1>3, <1>4, <2>1, <2>2, EnqueueKeeps
  <2> QED
      BY <1>1, <2>3 DEF QueuesGood
<1>7. PipesGood'
  <2>1. \A c \in Routes : PipeGood(pipe[c], inPipe[c], pending[c], n)
      BY <1>2, <1>3, PipeAdmitsMore DEF PipesGood
  <2> QED
      BY <1>1, <1>2, <2>1 DEF PipesGood
<1> QED
    BY <1>5, <1>6, <1>7 DEF Inv

\* What leaves next, the receiver and the wire alone.
LEMMA OthersSendKeeps ==
    ASSUME Inv, NEW p \in Routes, NEW pkt \in Datas(next) \cup {OtherHeader}, Enqueue(p, pkt),
           UNCHANGED next
    PROVE  Inv'
<1>1. UNCHANGED <<pipe, pending, sink, inPipe, got>>
    BY DEF Enqueue
<1>2. SenderGood /\ QueuesGood /\ PipesGood /\ next \in 0 .. NPkts
    BY DEF Inv, SenderGood
<1>3. SenderGood'
    BY <1>1, <1>2 DEF SenderGood, SinkGood, Beyond
<1>4. QueuesGood'
  <2>1. \A c \in Routes : QueueGood(queue[c], next)
      BY <1>2 DEF QueuesGood
  <2>2. /\ queue' = [c \in Routes |-> queue'[c]]
        /\ \A c \in Routes : QueueGood(queue'[c], next)
      BY <1>2, <2>1, EnqueueKeeps
  <2> QED
      BY <2>2 DEF QueuesGood
<1>5. PipesGood'
    BY <1>1, <1>2 DEF PipesGood
<1> QED
    BY <1>3, <1>4, <1>5 DEF Inv

LEMMA QueueEventKeeps ==
    ASSUME Inv, NEW p \in Routes, QueueEvent(p) PROVE Inv'
<1> DEFINE pkt == Served(queue[p])
<1>1. SenderGood /\ QueuesGood /\ PipesGood /\ next \in 0 .. NPkts /\ next \in Nat
    BY Ranges DEF Inv, SenderGood
<1>2. /\ queue[p].serv # "INVALID"
      /\ pipe' = [pipe EXCEPT ![p] = Push(pipe[p], pkt)]
      /\ inPipe' = [inPipe EXCEPT ![p] = Append(inPipe[p], pkt)]
      /\ pending' = [pending EXCEPT ![p] = IF pipe[p].count = 0 THEN pending[p] + 1 ELSE pending[p]]
      /\ queue' = [queue EXCEPT ![p] = CompleteService(queue[p])]
      /\ UNCHANGED <<sink, next, got>>
    BY DEF QueueEvent
<1>3. QueueGood(CompleteService(queue[p]), next) /\ pkt \in Datas(next) \cup Headers
    BY <1>1, <1>2, CompleteKeeps DEF QueuesGood
<1>4. PipeGood(Push(pipe[p], pkt), Append(inPipe[p], pkt),
               IF pipe[p].count = 0 THEN pending[p] + 1 ELSE pending[p], next)
    BY <1>1, <1>3, PipeTakes DEF PipesGood
<1> DEFINE a == Push(pipe[p], pkt)
           b == Append(inPipe[p], pkt)
           c == IF pipe[p].count = 0 THEN pending[p] + 1 ELSE pending[p]
           d == CompleteService(queue[p])
<1> HIDE DEF pkt, a, b, c, d
<1>5. SenderGood'
    BY <1>1, <1>2 DEF SenderGood, SinkGood, Beyond
<1>6. QueuesGood'
  <2>1. queue' = [i \in Routes |-> IF i = p THEN d ELSE queue[i]]
      BY <1>1, <1>2 DEF QueuesGood, d
  <2>2. QueueGood(d, next)
      BY <1>3 DEF d
  <2> QED
      BY <1>1, <1>2, <2>1, <2>2 DEF QueuesGood
<1>7. PipesGood'
  <2>1. /\ pipe' = [i \in Routes |-> IF i = p THEN a ELSE pipe[i]]
        /\ inPipe' = [i \in Routes |-> IF i = p THEN b ELSE inPipe[i]]
        /\ pending' = [i \in Routes |-> IF i = p THEN c ELSE pending[i]]
      BY <1>1, <1>2 DEF PipesGood, a, b, c
  <2>2. PipeGood(a, b, c, next)
      BY <1>4 DEF a, b, c
  <2>3. \A i \in Routes : PipeGood(pipe'[i], inPipe'[i], pending'[i], next)
    <3> SUFFICES ASSUME NEW i \in Routes PROVE PipeGood(pipe'[i], inPipe'[i], pending'[i], next)
        OBVIOUS
    <3>1. CASE i = p
        BY <2>1, <2>2, <3>1
    <3>2. CASE i # p
        BY <1>1, <2>1, <3>2 DEF PipesGood
    <3> QED
        BY <3>1, <3>2
  <2> QED
      BY <1>1, <1>2, <2>1, <2>3 DEF PipesGood
<1> QED
    BY <1>5, <1>6, <1>7 DEF Inv

LEMMA PipeEventKeeps ==
    ASSUME Inv, NEW p \in Routes, PipeEvent(p) PROVE Inv'
<1> DEFINE pkt == Oldest(pipe[p])
           a == Pop(pipe[p])
           b == Tail(inPipe[p])
           c == Rearm(pending[p], a)
<1>1. SenderGood /\ QueuesGood /\ PipesGood /\ next \in 0 .. NPkts /\ next \in Nat
    BY Ranges DEF Inv, SenderGood
<1>2. /\ pending[p] > 0 /\ Receive(pkt)
      /\ pipe' = [pipe EXCEPT ![p] = a] /\ inPipe' = [inPipe EXCEPT ![p] = b]
      /\ pending' = [pending EXCEPT ![p] = c]
      /\ UNCHANGED <<queue, next>>
    BY DEF PipeEvent
<1>3. PipeGood(a, b, c, next) /\ pkt \in Datas(next) \cup Headers
    BY <1>1, <1>2, PipeGives DEF PipesGood
<1> HIDE DEF pkt, a, b, c
<1>4. SenderGood'
  <2>1. /\ SinkGood(sink, got) /\ got \subseteq 0 .. next - 1 /\ next <= sink.expected + MaxSize
        /\ sink.expected \in Nat
      BY <1>1 DEF SenderGood, SinkGood
  <2>2. CASE pkt.header
    <3>1. UNCHANGED <<sink, got>>
        BY <1>2, <2>2 DEF Receive
    <3> QED
        BY <1>1, <1>2, <3>1 DEF SenderGood, SinkGood, Beyond
  <2>3. CASE ~pkt.header
    <3> DEFINE s == pkt.seq
               k == ProcessData(sink, s)
               G == got \cup {s}
    <3>1. sink' = k /\ got' = G
        BY <1>2, <2>3 DEF Receive
    <3>2. pkt \in Datas(next)
        BY <1>3, <2>3, PacketFields
    <3>3. s \in 0 .. next - 1
        BY <1>1, <3>2, PacketFields
    <3>4. SinkGood(k, G) /\ k.expected >= sink.expected
        BY <1>1, <2>1, <3>3, ProcessKeeps
    <3>5. k.expected \in Nat
        BY <3>4 DEF SinkGood
    <3> HIDE DEF s, k
    <3>6. next <= k.expected + MaxSize
        BY <1>1, <2>1, <3>4, <3>5, Ranges
    <3>7. SinkGood(sink, got)'
        BY <3>1, <3>4 DEF SinkGood, Beyond
    <3> QED
        BY <1>1, <1>2, <2>1, <3>1, <3>3, <3>6, <3>7 DEF SenderGood
  <2> QED
      BY <2>2, <2>3
<1>5. QueuesGood'
    BY <1>1, <1>2 DEF QueuesGood
<1>6. PipesGood'
  <2>1. /\ pipe' = [i \in Routes |-> IF i = p THEN a ELSE pipe[i]]
        /\ inPipe' = [i \in Routes |-> IF i = p THEN b ELSE inPipe[i]]
        /\ pending' = [i \in Routes |-> IF i = p THEN c ELSE pending[i]]
      BY <1>1, <1>2 DEF PipesGood
  <2> QED
      BY <1>1, <1>2, <1>3, <2>1 DEF PipesGood
<1> QED
    BY <1>4, <1>5, <1>6 DEF Inv

LEMMA InvHolds == Spec => []Inv
<1>1. Init => Inv
    BY Initially
<1>2. Inv /\ [Next]_vars => Inv'
  <2> SUFFICES ASSUME Inv, [Next]_vars PROVE Inv'
      OBVIOUS
  <2>1. next \in Nat
      BY Ranges DEF Inv, SenderGood
  <2>2. ASSUME NEW p \in Routes, SendNew(p) PROVE Inv'
      BY <2>2, SendNewKeeps
  <2>3. ASSUME NEW p \in Routes, SendAgain(p) PROVE Inv'
    <3>1. PICK s \in 0 .. next - 1 : Enqueue(p, Data(s))
        BY <2>3 DEF SendAgain
    <3>2. Data(s) \in Datas(next) \cup {OtherHeader} /\ UNCHANGED next
        BY <2>3 DEF SendAgain, Datas
    <3> QED
        BY <3>1, <3>2, OthersSendKeeps
  <2>4. ASSUME NEW p \in Routes, CrossTraffic(p) PROVE Inv'
    <3>1. Enqueue(p, OtherHeader) /\ UNCHANGED next
        BY <2>4 DEF CrossTraffic
    <3>2. OtherHeader \in Datas(next) \cup {OtherHeader}
        OBVIOUS
    <3> QED
        BY <3>1, <3>2, OthersSendKeeps
  <2>5. ASSUME NEW p \in Routes, QueueEvent(p) PROVE Inv'
      BY <2>5, QueueEventKeeps
  <2>6. ASSUME NEW p \in Routes, PipeEvent(p) PROVE Inv'
      BY <2>6, PipeEventKeeps
  <2>7. CASE UNCHANGED vars
      BY <2>7 DEF vars, Inv, SenderGood, SinkGood, Beyond, QueuesGood, PipesGood
  <2> QED
      BY <2>2, <2>3, <2>4, <2>5, <2>6, <2>7 DEF Next
<1> QED
    BY <1>1, <1>2, PTL DEF Spec

\* Both byte counters of a composite queue are the sizes of the packets in its
\* lists, whatever is trimmed, dropped or served (compositequeue.cpp:44-319).
THEOREM BytesStayCounted == Spec => []BytesCounted
<1>1. Inv => BytesCounted
  <2> SUFFICES ASSUME Inv, NEW p \in Routes PROVE BytesExact(queue[p])
      BY DEF BytesCounted
  <2> DEFINE q == queue[p]
  <2>1. q \in QueueType(next) /\ Sums(q.low, q.lowBytes) /\ Sums(q.high, q.highBytes) /\ next \in Nat
      BY Ranges DEF Inv, SenderGood, QueuesGood, QueueGood
  <2>2. q.low \in Seq(Datas(next)) /\ q.high \in Seq(Headers)
      BY <2>1, QueueFields
  <2>3. (\A d \in Datas(next) : d.size \in Int) /\ \A h \in Headers : h.size \in Int
      BY <2>1, PacketFields
  <2> HIDE DEF q
  <2>4. q.lowBytes = SumOfSizes(q.low) /\ q.highBytes = SumOfSizes(q.high)
      BY <2>1, <2>2, <2>3, SumsAreSum
  <2> QED
      BY <2>4 DEF BytesExact, q
<1> QED
    BY <1>1, InvHolds, PTL

\* A composite queue keeps its limits and serves while it holds a packet, also
\* when the packet in service is trimmed (compositequeue.cpp:44-319).
THEOREM QueuesStaySound == Spec => []QueuesSound
<1>1. Inv => QueuesSound
    BY DEF Inv, QueuesGood, QueueGood, QueuesSound
<1> QED
    BY <1>1, InvHolds, PTL

\* Pipes deliver in order, and one event is pending exactly while a packet is on
\* the wire (pipe.cpp, circular_buffer.h).
THEOREM PipesStayInOrder == Spec => []PipesInOrder
<1>1. Inv => PipesInOrder
    BY DEF Inv, PipesGood, PipeGood, PipesInOrder, Items
<1> QED
    BY <1>1, InvHolds, PTL

\* Bitmap, expected number and count stand for the set of numbers received
\* (uec.cpp:2618-2733, reorder_bitmap.h).
THEOREM BitmapStaysSet == Spec => []BitmapIsSet
<1>1. Inv => BitmapIsSet
  <2> SUFFICES ASSUME Inv PROVE BitmapIsSet
      OBVIOUS
  <2>1. SinkGood(sink, got)
      BY DEF Inv, SenderGood
  <2> DEFINE beyond == {s \in got : s >= sink.expected}
  <2>2. Beyond(sink, got) = beyond
      BY DEF Beyond
  <2>3. \A i \in sink.expected .. sink.expected + MaxSize - 1 :
            Get(sink.bitmap, i) <=> i \in beyond
      BY <2>1, <2>2, GetReads DEF SinkGood
  <2> QED
      BY <2>1, <2>2, <2>3 DEF BitmapIsSet, SinkGood
<1> QED
    BY <1>1, InvHolds, PTL


-----------------------------------------------------------------------------
(* The exclusive or.                                                       *)

\* A number is its half and its lowest bit.
LEMMA Bits ==
    ASSUME NEW a \in Nat
    PROVE  /\ a \div 2 \in Nat /\ a % 2 \in {0, 1} /\ a = 2 * (a \div 2) + (a % 2)
           /\ a \div 2 <= a /\ a > 0 => a \div 2 < a
           /\ \A h \in Nat, b \in {0, 1} : a = 2 * h + b => a \div 2 = h /\ a % 2 = b
OBVIOUS

\* The recursion of Xor, at one place and over a set of pairs.
Flip(g, ab) ==
    IF ab = <<0, 0>> THEN 0 ELSE 2 * g[<<ab[1] \div 2, ab[2] \div 2>>] + ((ab[1] + ab[2]) % 2)

Flips(g, D) == \A ab \in D : g[ab] = Flip(g, ab)

Upto(n) == (0 .. n) \X (0 .. n)

LEMMA HalvesBelow ==
    ASSUME NEW n \in Nat, NEW ab \in Upto(n + 1)
    PROVE  /\ ab[1] \in Nat /\ ab[2] \in Nat /\ (ab[1] + ab[2]) % 2 \in {0, 1}
           /\ <<ab[1] \div 2, ab[2] \div 2>> \in Upto(n)
<1>1. ab[1] \in 0 .. n + 1 /\ ab[2] \in 0 .. n + 1
    BY DEF Upto
<1>2. ab[1] \div 2 \in 0 .. n /\ ab[2] \div 2 \in 0 .. n
    BY <1>1
<1>3. (ab[1] + ab[2]) % 2 \in {0, 1}
    BY <1>1
<1> QED
    BY <1>1, <1>2, <1>3 DEF Upto

LEMMA FlipsExist ==
    \A n \in Nat : \E g \in [Upto(n) -> Nat] : Flips(g, Upto(n))
<1> DEFINE T == {n \in Nat : \E g \in [Upto(n) -> Nat] : Flips(g, Upto(n))}
<1>1. 0 \in T
  <2> DEFINE g == [ab \in Upto(0) |-> 0]
  <2>1. g \in [Upto(0) -> Nat]
      OBVIOUS
  <2>2. ASSUME NEW ab \in Upto(0) PROVE g[ab] = Flip(g, ab)
    <3>1. ab = <<0, 0>>
        BY DEF Upto
    <3> QED
        BY <3>1 DEF Flip
  <2> HIDE DEF g
  <2>3. Flips(g, Upto(0))
      BY <2>2 DEF Flips
  <2> QED
      BY <2>1, <2>3
<1>2. ASSUME NEW n \in Nat, n \in T PROVE n + 1 \in T
  <2>1. PICK g \in [Upto(n) -> Nat] : Flips(g, Upto(n))
      BY <1>2
  <2> DEFINE h == [ab \in Upto(n + 1) |-> Flip(g, ab)]
  <2>2. ASSUME NEW ab \in Upto(n + 1) PROVE h[ab] = Flip(g, ab) /\ Flip(g, ab) \in Nat
    <3>1. /\ (ab[1] + ab[2]) % 2 \in {0, 1}
          /\ <<ab[1] \div 2, ab[2] \div 2>> \in Upto(n)
        BY HalvesBelow
    <3>2. g[<<ab[1] \div 2, ab[2] \div 2>>] \in Nat
        BY <2>1, <3>1
    <3> QED
        BY <3>1, <3>2 DEF Flip
  <2>3. h \in [Upto(n + 1) -> Nat]
      BY <2>2
  <2> HIDE DEF h
  <2>4. ASSUME NEW ab \in Upto(n) PROVE ab \in Upto(n + 1) /\ h[ab] = g[ab]
    <3>1. ab \in Upto(n + 1)
        BY DEF Upto
    <3> QED
        BY <3>1, <2>1, <2>2 DEF Flips
  <2>5. ASSUME NEW ab \in Upto(n + 1) PROVE h[ab] = Flip(h, ab)
    <3>1. <<ab[1] \div 2, ab[2] \div 2>> \in Upto(n)
        BY HalvesBelow
    <3>2. h[<<ab[1] \div 2, ab[2] \div 2>>] = g[<<ab[1] \div 2, ab[2] \div 2>>]
        BY <3>1, <2>4
    <3> QED
        BY <3>2, <2>2 DEF Flip
  <2>6. Flips(h, Upto(n + 1))
      BY <2>5 DEF Flips
  <2> QED
      BY <2>3, <2>6
<1> HIDE DEF T
<1>3. \A n \in Nat : n \in T
    BY <1>1, <1>2, NaturalsByInduction
<1> QED
    BY <1>3 DEF T

\* The lowest bits differ or agree, and the rest is the exclusive or of the rest.
LEMMA XorStep ==
    ASSUME NEW a \in Paths, NEW b \in Paths
    PROVE  /\ a \in Nat /\ b \in Nat /\ a \div 2 \in Paths /\ b \div 2 \in Paths
           /\ Xor[<<a, b>>] \in Nat
           /\ Xor[<<a, b>>] = 2 * Xor[<<a \div 2, b \div 2>>] + ((a + b) % 2)
           /\ Xor[<<0, 0>>] = 0
<1> DEFINE n == NPaths - 1
<1>1. n \in Nat /\ Paths = 0 .. n
    BY PathAssumption DEF Paths
<1>2. Paths \X Paths = Upto(n)
    BY <1>1 DEF Upto
<1> DEFINE Is(g) == g = [ab \in Paths \X Paths |->
                IF ab = <<0, 0>> THEN 0
                ELSE 2 * g[<<ab[1] \div 2, ab[2] \div 2>>] + ((ab[1] + ab[2]) % 2)]
<1>3. PICK g \in [Upto(n) -> Nat] : Flips(g, Upto(n))
    BY <1>1, FlipsExist
<1>4. \A ab \in Paths \X Paths : g[ab] =
                IF ab = <<0, 0>> THEN 0
                ELSE 2 * g[<<ab[1] \div 2, ab[2] \div 2>>] + ((ab[1] + ab[2]) % 2)
    BY <1>2, <1>3 DEF Flips, Flip
<1>5. g \in [Paths \X Paths -> Nat]
    BY <1>2, <1>3
<1>6. Is(g)
    BY <1>4, <1>5
<1>7. Xor = CHOOSE f : Is(f)
    BY DEF Xor
<1> HIDE DEF Is
<1>8. Is(Xor)
    BY <1>6, <1>7
<1>9. \A ab \in Paths \X Paths : Xor[ab] = Flip(Xor, ab)
    BY <1>8 DEF Is, Flip
<1> USE DEF Flip
<1>10. ASSUME NEW c \in Paths, NEW d \in Paths
       PROVE  Xor[<<c, d>>] = IF <<c, d>> = <<0, 0>> THEN 0
                              ELSE 2 * Xor[<<c \div 2, d \div 2>>] + ((c + d) % 2)
    BY <1>9
<1>11. a \in Nat /\ b \in Nat /\ a \div 2 \in Paths /\ b \div 2 \in Paths /\ 0 \in Paths
    BY <1>1
<1>12. Xor[<<0, 0>>] = 0
    BY <1>10, <1>11
<1> DEFINE T == {m \in Nat : \A c, d \in Paths : c <= m /\ d <= m => Xor[<<c, d>>] \in Nat}
<1>13. 0 \in T
    BY <1>1, <1>12
<1>14. ASSUME NEW m \in Nat, m \in T PROVE m + 1 \in T
  <2>1. ASSUME NEW c \in Paths, NEW d \in Paths, c <= m + 1, d <= m + 1
        PROVE  Xor[<<c, d>>] \in Nat
    <3>1. /\ c \div 2 \in Paths /\ d \div 2 \in Paths /\ c \div 2 <= m /\ d \div 2 <= m
          /\ (c + d) % 2 \in {0, 1}
        BY <1>1, <2>1
    <3>2. Xor[<<c \div 2, d \div 2>>] \in Nat
        BY <1>14, <3>1
    <3> QED
        BY <1>10, <3>1, <3>2
  <2> QED
      BY <2>1
<1>15. \A m \in Nat : m \in T
  <2> HIDE DEF T
  <2> QED
      BY <1>13, <1>14, NaturalsByInduction
<1>16. Xor[<<a, b>>] \in Nat
    BY <1>1, <1>11, <1>15
<1>17. Xor[<<a, b>>] = 2 * Xor[<<a \div 2, b \div 2>>] + ((a + b) % 2)
  <2>1. CASE <<a, b>> = <<0, 0>>
    <3>1. a = 0 /\ b = 0 /\ a \div 2 = 0 /\ b \div 2 = 0 /\ (a + b) % 2 = 0
        BY <2>1
    <3> QED
        BY <3>1, <1>12
  <2>2. CASE <<a, b>> # <<0, 0>>
      BY <2>2, <1>10
  <2> QED
      BY <2>1, <2>2
<1> QED
    BY <1>11, <1>12, <1>16, <1>17

\* Half of an exclusive or, and its lowest bit.
LEMMA XorBits ==
    ASSUME NEW a \in Paths, NEW b \in Paths
    PROVE  /\ Xor[<<a, b>>] \div 2 = Xor[<<a \div 2, b \div 2>>]
           /\ Xor[<<a, b>>] % 2 = (a + b) % 2
<1> DEFINE x == Xor[<<a, b>>]
           h == Xor[<<a \div 2, b \div 2>>]
           c == (a + b) % 2
<1>1. a \in Nat /\ b \in Nat /\ a \div 2 \in Paths /\ b \div 2 \in Paths /\ x \in Nat
      /\ x = 2 * h + c
    BY XorStep
<1>2. h \in Nat
    BY <1>1, XorStep
<1>3. c \in {0, 1}
    BY <1>1
<1> HIDE DEF x, h, c
<1>4. x \div 2 = h /\ x % 2 = c
    BY <1>1, <1>2, <1>3, Bits
<1> QED
    BY <1>4 DEF x, h, c

\* m is a power of two, in the words of the assumption.
Power(m) == /\ m \in Nat \ {0}
            /\ \A d, q \in 1 .. m : m = d * q => d = 1 \/ d % 2 = 0

LEMMA PowerHalf ==
    ASSUME NEW m, Power(m), m # 1
    PROVE  m = 2 * (m \div 2) /\ Power(m \div 2) /\ m \div 2 < m
<1> DEFINE h == m \div 2
<1>1. m \in Nat \ {0} /\ m \in 1 .. m /\ 1 \in 1 .. m
    BY DEF Power
<1>2. m = m * 1
    BY <1>1
<1>3. m % 2 = 0
    BY <1>1, <1>2 DEF Power
<1>4. m = 2 * h /\ h \in Nat \ {0} /\ h < m
    BY <1>1, <1>3
<1> HIDE DEF h
<1>5. ASSUME NEW d \in 1 .. h, NEW q \in 1 .. h, h = d * q
      PROVE  d = 1 \/ d % 2 = 0
  <2>1. d \in 1 .. m /\ 2 * q \in 1 .. m
      BY <1>4
  <2>2. m = d * (2 * q)
      BY <1>4, <1>5
  <2> QED
      BY <2>1, <2>2 DEF Power
<1>6. Power(h)
    BY <1>4, <1>5 DEF Power
<1> QED
    BY <1>4, <1>6 DEF h

\* The exclusive or of two paths is a path.
LEMMA XorIsPath ==
    ASSUME NEW a \in Paths, NEW b \in Paths
    PROVE  Xor[<<a, b>>] \in Paths
<1> DEFINE Closed(m) == \A c, d \in Paths : c < m /\ d < m => Xor[<<c, d>>] < m
           T == {n \in Nat : \A m \in 1 .. n : Power(m) => Closed(m)}
<1>1. Paths = 0 .. NPaths - 1 /\ Power(NPaths) /\ NPaths \in Nat \ {0}
    BY PathAssumption DEF Paths, Power
<1>2. 0 \in T
    OBVIOUS
<1>3. ASSUME NEW n \in Nat, n \in T PROVE n + 1 \in T
  <2>1. ASSUME Power(n + 1), NEW c \in Paths, NEW d \in Paths, c < n + 1, d < n + 1
        PROVE  Xor[<<c, d>>] < n + 1
    <3>1. CASE n + 1 = 1
      <4>1. c = 0 /\ d = 0
          BY <1>1, <2>1, <3>1
      <4>2. Xor[<<c, d>>] = Xor[<<0, 0>>] /\ 0 \in Paths
          BY <4>1
      <4>3. Xor[<<0, 0>>] = 0
          BY <4>2, XorStep
      <4> QED
          BY <3>1, <4>2, <4>3
    <3>2. CASE n + 1 # 1
      <4> DEFINE h == (n + 1) \div 2
                 c2 == c \div 2
                 d2 == d \div 2
                 x == Xor[<<c, d>>]
                 y == Xor[<<c2, d2>>]
                 b2 == (c + d) % 2
      <4>1. n + 1 = 2 * h /\ Power(h) /\ h < n + 1
          BY <2>1, <3>2, PowerHalf
      <4>2. h \in 1 .. n
          BY <4>1 DEF Power
      <4>3. c2 \in Paths /\ d2 \in Paths /\ x = 2 * y + b2 /\ x \in Nat
          BY XorStep
      <4>4. c2 < h /\ d2 < h /\ b2 \in {0, 1}
          BY <1>1, <2>1, <4>1
      <4>5. Closed(h)
          BY <1>3, <4>1, <4>2
      <4>6. y < h
          BY <4>3, <4>4, <4>5
      <4>7. y \in Nat
          BY <4>3, XorStep
      <4> HIDE DEF h, c2, d2, x, y, b2
      <4>8. x < n + 1
          BY <4>1, <4>2, <4>3, <4>4, <4>6, <4>7
      <4> QED
          BY <4>8 DEF x
    <3> QED
        BY <3>1, <3>2
  <2>2. Power(n + 1) => Closed(n + 1)
      BY <2>1
  <2> HIDE DEF Closed
  <2>3. \A m \in 1 .. n + 1 : m \in 1 .. n \/ m = n + 1
      OBVIOUS
  <2> QED
      BY <1>3, <2>2, <2>3
<1>4. \A n \in Nat : n \in T
  <2> HIDE DEF T
  <2> QED
      BY <1>2, <1>3, NaturalsByInduction
<1>5. Closed(NPaths)
  <2> HIDE DEF Closed
  <2> QED
      BY <1>1, <1>4
<1>6. Xor[<<a, b>>] \in Nat
    BY XorStep
<1> QED
    BY <1>1, <1>5, <1>6

\* Applied twice it gives the first path back.
LEMMA XorTwice ==
    ASSUME NEW a \in Paths, NEW b \in Paths
    PROVE  Xor[<<Xor[<<a, b>>], b>>] = a
<1> DEFINE T == {n \in Nat : \A c, d \in Paths : c <= n /\ d <= n => Xor[<<Xor[<<c, d>>], d>>] = c}
<1>1. Paths = 0 .. NPaths - 1 /\ NPaths \in Nat \ {0} /\ 0 \in Paths
    BY PathAssumption DEF Paths
<1>2. 0 \in T
  <2>1. Xor[<<0, 0>>] = 0
      BY <1>1, XorStep
  <2>2. ASSUME NEW c \in Paths, NEW d \in Paths, c <= 0, d <= 0 PROVE c = 0 /\ d = 0
      BY <1>1, <2>2
  <2> QED
      BY <2>1, <2>2
<1>3. ASSUME NEW n \in Nat, n \in T PROVE n + 1 \in T
  <2>1. ASSUME NEW c \in Paths, NEW d \in Paths, c <= n + 1, d <= n + 1
        PROVE  Xor[<<Xor[<<c, d>>], d>>] = c
    <3> DEFINE c2 == c \div 2
               d2 == d \div 2
               y == Xor[<<c, d>>]
               z == Xor[<<y, d>>]
    <3>1. /\ c2 \in Paths /\ d2 \in Paths /\ c2 <= n /\ d2 <= n
          /\ c \in Nat /\ d \in Nat
        BY <1>1, <2>1
    <3>2. y \in Paths /\ y \in Nat
        BY <1>1, XorIsPath
    <3>3. y \div 2 = Xor[<<c2, d2>>] /\ y % 2 = (c + d) % 2
        BY XorBits
    <3>4. z \div 2 = Xor[<<y \div 2, d2>>] /\ z % 2 = (y + d) % 2 /\ z \in Nat
        BY <3>2, XorBits, XorStep
    <3>5. Xor[<<Xor[<<c2, d2>>], d2>>] = c2
        BY <1>3, <3>1
    <3>6. z \div 2 = c2
        BY <3>3, <3>4, <3>5
    <3> HIDE DEF y, z
    <3>7. z % 2 = c % 2
        BY <3>1, <3>2, <3>3, <3>4
    <3>8. z = c
        BY <3>1, <3>4, <3>6, <3>7
    <3> QED
        BY <3>8 DEF y, z
  <2> QED
      BY <2>1
<1>4. \A n \in Nat : n \in T
  <2> HIDE DEF T
  <2> QED
      BY <1>2, <1>3, NaturalsByInduction
<1>5. NPaths - 1 \in Nat /\ a <= NPaths - 1 /\ b <= NPaths - 1
    BY <1>1
<1> QED
    BY <1>4, <1>5

\* In any order all paths come up, each once.
LEMMA XorOrder ==
    ASSUME NEW x \in Paths
    PROVE  /\ \A j \in Paths : Xor[<<j, x>>] \in Paths
           /\ \A i, j \in Paths : Xor[<<i, x>>] = Xor[<<j, x>>] => i = j
           /\ \A p \in Paths : \E j \in Paths : Xor[<<j, x>>] = p
<1>1. \A j \in Paths : Xor[<<j, x>>] \in Paths /\ Xor[<<Xor[<<j, x>>], x>>] = j
    BY XorIsPath, XorTwice
<1> QED
    BY <1>1


-----------------------------------------------------------------------------
(* Oblivious spraying.                                                     *)

Scans == [idx : Paths, xor : Paths, skip : [Paths -> Nat], count : Nat]

LEMMA PathsAre ==
    /\ NPaths \in Nat \ {0} /\ Paths = 0 .. NPaths - 1 /\ 0 \in Paths
    /\ IsFiniteSet(Paths) /\ Cardinality(Paths) = NPaths
<1>1. NPaths \in Nat \ {0} /\ Paths = 0 .. NPaths - 1 /\ 0 \in Paths
    BY PathAssumption DEF Paths
<1>2. IsFiniteSet(0 .. NPaths - 1) /\ Cardinality(0 .. NPaths - 1) = NPaths
    BY <1>1, FS_Interval
<1> QED
    BY <1>1, <1>2

\* Going ahead moves the place and may change the order, and no penalty.
LEMMA AheadIs ==
    ASSUME NEW s \in Scans, NEW k \in 1 .. NPaths, NEW draw \in Paths
    PROVE  /\ Ahead(s, k, draw) \in Scans
           /\ Ahead(s, k, draw).skip = s.skip /\ Ahead(s, k, draw).count = s.count
           /\ Ahead(s, k, draw).idx = Wrap(s.idx + k, NPaths)
           /\ Ahead(s, k, draw).xor = IF s.idx + k < NPaths THEN s.xor ELSE draw
<1>1. /\ NPaths \in Nat \ {0} /\ Paths = 0 .. NPaths - 1
      /\ s.idx \in Paths /\ s.xor \in Paths
    BY PathsAre DEF Scans
<1>2. s.idx + k \in Nat /\ (s.idx + k < 2 * NPaths)
    BY <1>1
<1>3. (s.idx + k) % NPaths = Wrap(s.idx + k, NPaths) /\ Wrap(s.idx + k, NPaths) \in Paths
    BY <1>1, <1>2, SlotOf
<1>4. Ahead(s, k, draw) = [s EXCEPT !.idx = Wrap(s.idx + k, NPaths),
                                    !.xor = IF s.idx + k >= NPaths THEN draw ELSE s.xor]
    BY <1>3 DEF Ahead
<1>5. s.idx + k >= NPaths <=> ~(s.idx + k < NPaths)
    BY <1>1, <1>2
<1>6. (IF s.idx + k >= NPaths THEN draw ELSE s.xor) \in Paths
    BY <1>1
<1> QED
    BY <1>3, <1>4, <1>5, <1>6 DEF Scans

LEMMA PathAtIs == ASSUME NEW s \in Scans PROVE PathAt(s) \in Paths
BY XorIsPath DEF PathAt, Scans

\* The smallest of a set of naturals.
LEMMA MinOf ==
    ASSUME NEW S \in SUBSET Nat, S # {}
    PROVE  Min(S) \in S /\ \A x \in S : Min(S) <= x
<1>1. \E x \in S : \A y \in S : x <= y
    BY LeastNatural
<1> QED
    BY <1>1 DEF Min

\* u is the number of packets on each path since the order began.
Visited(s) == {p \in Paths : \E j \in 0 .. s.idx - 1 : Xor[<<j, s.xor>>] = p}

Even(s, u) == u = [p \in Paths |-> IF p \in Visited(s) THEN 1 ELSE 0]

LEMMA VisitedGrows ==
    ASSUME NEW s \in Scans
    PROVE  /\ PathAt(s) \in Paths \ Visited(s)
           /\ s.idx + 1 < NPaths =>
                 /\ Visited([s EXCEPT !.idx = s.idx + 1]) = Visited(s) \cup {PathAt(s)}
                 /\ Paths \ (Visited(s) \cup {PathAt(s)}) # {}
           /\ s.idx + 1 = NPaths => Visited(s) \cup {PathAt(s)} = Paths
<1> DEFINE x == s.xor
           n == s.idx
<1>1. x \in Paths /\ n \in Paths /\ n \in Nat
    BY PathsAre DEF Scans
<1>2. /\ \A j \in Paths : Xor[<<j, x>>] \in Paths
      /\ \A i, j \in Paths : Xor[<<i, x>>] = Xor[<<j, x>>] => i = j
      /\ \A p \in Paths : \E j \in Paths : Xor[<<j, x>>] = p
    BY <1>1, XorOrder
<1>3. Visited(s) = {p \in Paths : \E j \in 0 .. n - 1 : Xor[<<j, x>>] = p}
      /\ PathAt(s) = Xor[<<n, x>>]
    BY DEF Visited, PathAt
<1>4. ASSUME n + 1 < NPaths
      PROVE  Visited([s EXCEPT !.idx = s.idx + 1])
             = {p \in Paths : \E j \in 0 .. n : Xor[<<j, x>>] = p}
  <2>1. [s EXCEPT !.idx = s.idx + 1].idx = n + 1 /\ [s EXCEPT !.idx = s.idx + 1].xor = x
      BY DEF Scans
  <2>2. 0 .. (n + 1) - 1 = 0 .. n
      BY <1>1
  <2> QED
      BY <2>1, <2>2 DEF Visited
<1> HIDE DEF x, n
<1>5. \A j \in 0 .. n : j \in Paths /\ (j = n \/ j \in 0 .. n - 1)
    BY <1>1, PathsAre
<1>6. \A j \in 0 .. n - 1 : j \in Paths /\ j # n /\ j \in 0 .. n
    BY <1>1, PathsAre
<1>7. PathAt(s) \in Paths \ Visited(s)
    BY <1>1, <1>2, <1>3, <1>6
<1>8. ASSUME n + 1 < NPaths
      PROVE  /\ Visited([s EXCEPT !.idx = s.idx + 1]) = Visited(s) \cup {PathAt(s)}
             /\ Paths \ (Visited(s) \cup {PathAt(s)}) # {}
  <2>1. n \in 0 .. n
      BY <1>1
  <2>2. {p \in Paths : \E j \in 0 .. n : Xor[<<j, x>>] = p} = Visited(s) \cup {PathAt(s)}
    <3> DEFINE V == {p \in Paths : \E j \in 0 .. n : Xor[<<j, x>>] = p}
    <3>1. ASSUME NEW p \in V PROVE p \in Visited(s) \cup {PathAt(s)}
        BY <1>3, <1>5
    <3>2. Visited(s) \subseteq V
        BY <1>3, <1>6
    <3>3. PathAt(s) \in V
      <4>1. PathAt(s) \in Paths
          BY <1>7
      <4>2. \E j \in 0 .. n : Xor[<<j, x>>] = PathAt(s)
          BY <2>1, <1>3
      <4> QED
          BY <4>1, <4>2
    <3> QED
        BY <3>1, <3>2, <3>3
  <2>3. n + 1 \in Paths /\ n + 1 # n /\ \A j \in 0 .. n - 1 : j # n + 1
      BY <1>1, <1>8, PathsAre
  <2>4. Xor[<<n + 1, x>>] \in Paths \ (Visited(s) \cup {PathAt(s)})
      BY <2>3, <1>1, <1>2, <1>3, <1>6
  <2> QED
      BY <2>2, <2>4, <1>4, <1>8
<1>9. ASSUME n + 1 = NPaths PROVE Visited(s) \cup {PathAt(s)} = Paths
  <2>1. \A j \in Paths : j = n \/ j \in 0 .. n - 1
      BY <1>1, <1>9, PathsAre
  <2> QED
      BY <2>1, <1>2, <1>3, <1>7
<1> QED
    BY <1>7, <1>8, <1>9 DEF n

\* The packets of an order, less the fewest on any path, after one more.
LEMMA EvenStep ==
    ASSUME NEW s \in Scans, NEW u, Even(s, u), NEW draw \in Paths
    PROVE  LET v == [u EXCEPT ![PathAt(s)] = @ + 1]
           IN  Even(Ahead(s, 1, draw), [p \in Paths |-> v[p] - Min(Range(v))])
<1> DEFINE P == PathAt(s)
           v == [u EXCEPT ![P] = @ + 1]
           W == Visited(s) \cup {P}
           t == Ahead(s, 1, draw)
           m == Min(Range(v))
<1>1. P \in Paths \ Visited(s)
    BY VisitedGrows
<1>2. v = [p \in Paths |-> IF p \in W THEN 1 ELSE 0]
    BY <1>1 DEF Even
<1>3. Range(v) = {v[p] : p \in Paths}
    BY <1>2 DEF Range
<1>4. NPaths \in Nat \ {0} /\ s.idx \in Paths /\ Paths = 0 .. NPaths - 1
    BY PathsAre DEF Scans
<1>5. /\ t \in Scans /\ t.idx = Wrap(s.idx + 1, NPaths)
      /\ t.xor = IF s.idx + 1 < NPaths THEN s.xor ELSE draw
    BY <1>4, AheadIs
<1>6. Range(v) \in SUBSET Nat /\ Range(v) # {}
  <2>1. \A p \in Paths : v[p] \in Nat
      BY <1>2
  <2>2. P \in Paths
      BY <1>1
  <2> HIDE DEF v, P
  <2> QED
      BY <2>1, <2>2, <1>3
<1>7. m \in Range(v) /\ \A x \in Range(v) : m <= x
    BY <1>6, MinOf
<1>8. CASE s.idx + 1 < NPaths
  <2>1. PICK q \in Paths : q \notin W
      BY <1>8, VisitedGrows
  <2>2. v[q] = 0 /\ 0 \in Range(v)
      BY <2>1, <1>2, <1>3
  <2>3. m = 0
    <3>1. m \in Nat /\ m <= 0
        BY <2>2, <1>6, <1>7
    <3> HIDE DEF m
    <3> QED
        BY <3>1
  <2>4. Visited(t) = Visited([s EXCEPT !.idx = s.idx + 1])
    <3>1. t.idx = s.idx + 1 /\ t.xor = s.xor
        BY <1>5, <1>8 DEF Wrap
    <3>2. [s EXCEPT !.idx = s.idx + 1].idx = s.idx + 1 /\ [s EXCEPT !.idx = s.idx + 1].xor = s.xor
        BY DEF Scans
    <3> QED
        BY <3>1, <3>2 DEF Visited
  <2>5. Visited(t) = W
      BY <2>4, <1>8, VisitedGrows
  <2>6. \A p \in Paths : v[p] - m = IF p \in W THEN 1 ELSE 0
      BY <2>3, <1>2
  <2> QED
      BY <2>5, <2>6 DEF Even
<1>9. CASE ~(s.idx + 1 < NPaths)
  <2>1. s.idx + 1 = NPaths
      BY <1>4, <1>9
  <2>2. W = Paths
      BY <2>1, VisitedGrows
  <2>3. m = 1
      BY <2>2, <1>2, <1>3, <1>7
  <2>4. t.idx = 0
      BY <2>1, <1>4, <1>5 DEF Wrap
  <2>5. Visited(t) = {}
    <3>1. 0 .. t.idx - 1 = {}
        BY <2>4
    <3> QED
        BY <3>1 DEF Visited
  <2>6. \A p \in Paths : v[p] - m = 0
      BY <2>2, <2>3, <1>2
  <2> QED
      BY <2>5, <2>6 DEF Even
<1> QED
    BY <1>8, <1>9


-----------------------------------------------------------------------------
(* The scan.                                                               *)

Penalised(s) == {p \in Paths : s.skip[p] > 0}

Counted(s) == s.count = Cardinality(Penalised(s))

LEMMA PenalisedIs ==
    ASSUME NEW s \in Scans
    PROVE  IsFiniteSet(Penalised(s)) /\ Cardinality(Penalised(s)) \in Nat
<1>1. Penalised(s) \subseteq Paths
    BY DEF Penalised
<1> QED
    BY <1>1, PathsAre, FS_Subset, FS_CardinalityType

\* Only which paths are penalised matters to the count.
LEMMA CountedSame ==
    ASSUME NEW s \in Scans, NEW t \in Scans, Counted(s), t.skip = s.skip, t.count = s.count
    PROVE  Counted(t)
BY DEF Counted, Penalised

\* A unit less: the path may stop being penalised.
LEMMA ForgiveIs ==
    ASSUME NEW s \in Scans, Counted(s), NEW p \in Paths, s.skip[p] # 0
    PROVE  /\ Forgive(s, p) \in Scans /\ Counted(Forgive(s, p))
           /\ Forgive(s, p).idx = s.idx /\ Forgive(s, p).xor = s.xor
           /\ \A q \in Paths : s.skip[q] = 0 => Forgive(s, p).skip[q] = 0
<1> DEFINE f == Forgive(s, p)
           k == s.skip[p]
<1>1. s.skip \in [Paths -> Nat] /\ k \in Nat /\ k > 0 /\ s.count \in Nat
    BY DEF Scans
<1>2. f.skip = [s.skip EXCEPT ![p] = k - 1] /\ f.idx = s.idx /\ f.xor = s.xor
      /\ f.count = IF k = 1 THEN s.count - 1 ELSE s.count
    BY DEF Forgive, Scans
<1>3. p \in Penalised(s)
    BY <1>1 DEF Penalised
<1>4. Penalised(f) = IF k = 1 THEN Penalised(s) \ {p} ELSE Penalised(s)
    BY <1>1, <1>2 DEF Penalised
<1>5. Cardinality(Penalised(s) \ {p}) = Cardinality(Penalised(s)) - 1
    BY <1>3, PenalisedIs, FS_RemoveElement
<1>6. s.count > 0
  <2>1. Penalised(s) # {} /\ IsFiniteSet(Penalised(s)) /\ Cardinality(Penalised(s)) \in Nat
      BY <1>3, PenalisedIs
  <2>2. Cardinality(Penalised(s)) # 0
      BY <2>1, FS_EmptySet
  <2> QED
      BY <2>1, <2>2 DEF Counted
<1>7. f.count = Cardinality(Penalised(f))
    BY <1>2, <1>4, <1>5 DEF Counted
<1>8. f.skip \in [Paths -> Nat] /\ f.count \in Nat
    BY <1>1, <1>2, <1>6
<1>9. f = [s EXCEPT !.skip = f.skip, !.count = f.count]
    BY <1>2 DEF Forgive, Scans
<1>10. f \in Scans
    BY <1>8, <1>9 DEF Scans
<1>11. \A q \in Paths : s.skip[q] = 0 => f.skip[q] = 0
    BY <1>1, <1>2
<1> QED
    BY <1>2, <1>7, <1>10, <1>11 DEF Counted

\* A report may start a penalty and never ends one.
LEMMA PenaliseIs ==
    ASSUME NEW s \in Scans, Counted(s), NEW p \in Paths,
           NEW feedback \in {"good", "ecn", "nack", "timeout"}
    PROVE  Penalise(s, p, feedback) \in Scans /\ Counted(Penalise(s, p, feedback))
<1> DEFINE f == Penalise(s, p, feedback)
           k == s.skip[p]
           d == Penalty(feedback)
           m == Min({k + d, MaxPenalty})
<1>1. s.skip \in [Paths -> Nat] /\ k \in Nat /\ s.count \in Nat
    BY DEF Scans
<1>2. d \in Nat /\ (d = 0 <=> feedback = "good")
    BY PathAssumption DEF Penalty
<1>3. MaxPenalty \in Nat \ {0}
    BY PathAssumption
<1>4. f.skip = [s.skip EXCEPT ![p] = m] /\ f.idx = s.idx /\ f.xor = s.xor
      /\ f.count = IF feedback # "good" /\ k = 0 THEN s.count + 1 ELSE s.count
    BY DEF Penalise, Scans
<1>5. m \in {k + d, MaxPenalty} /\ m <= k + d
  <2>1. {k + d, MaxPenalty} \in SUBSET Nat /\ {k + d, MaxPenalty} # {}
      BY <1>1, <1>2, <1>3
  <2> QED
      BY <2>1, MinOf
<1>6. f = [s EXCEPT !.skip = f.skip, !.count = f.count]
    BY <1>4 DEF Penalise, Scans
<1> HIDE DEF d, m
<1>7. m \in Nat /\ (m = 0 <=> k = 0 /\ feedback = "good")
    BY <1>1, <1>2, <1>3, <1>5
<1>8. p \in Penalised(s) <=> k # 0
    BY <1>1 DEF Penalised
<1>9. Penalised(f) = IF feedback # "good" /\ k = 0 THEN Penalised(s) \cup {p} ELSE Penalised(s)
    BY <1>1, <1>4, <1>7 DEF Penalised
<1>10. k = 0 => Cardinality(Penalised(s) \cup {p}) = Cardinality(Penalised(s)) + 1
    BY <1>8, PenalisedIs, FS_AddElement
<1>11. f.count = Cardinality(Penalised(f))
    BY <1>4, <1>9, <1>10 DEF Counted
<1>12. f.skip \in [Paths -> Nat] /\ f.count \in Nat
    BY <1>1, <1>4, <1>7
<1>13. f \in Scans
    BY <1>6, <1>12 DEF Scans
<1> QED
    BY <1>11, <1>13 DEF Counted

\* Passing over paths.
LEMMA ScanIs ==
    ASSUME NEW s \in Scans, Counted(s), NEW draw \in Paths
    PROVE  Scan(s, draw) \in Scans /\ Counted(Scan(s, draw))
<1> DEFINE p == PathAt(s)
           f == Forgive(s, p)
           good == {k \in 1 .. NPaths : f.skip[PathAt(Ahead(f, k, draw))] = 0}
           k == Min(good \cup {NPaths})
<1>1. CASE s.skip[p] = 0
    BY <1>1 DEF Scan
<1>2. CASE s.skip[p] # 0
  <2>1. Scan(s, draw) = Ahead(f, k, draw)
      BY <1>2 DEF Scan
  <2>2. f \in Scans /\ Counted(f)
      BY <1>2, PathAtIs, ForgiveIs
  <2>3. k \in 1 .. NPaths
    <3>1. good \cup {NPaths} \in SUBSET (1 .. NPaths) /\ good \cup {NPaths} # {}
        BY PathsAre
    <3> HIDE DEF good
    <3>2. good \cup {NPaths} \in SUBSET Nat
        BY <3>1
    <3>3. k \in good \cup {NPaths}
        BY <3>1, <3>2, MinOf
    <3> QED
        BY <3>1, <3>3
  <2> HIDE DEF f, k
  <2>4. /\ Ahead(f, k, draw) \in Scans
        /\ Ahead(f, k, draw).skip = f.skip /\ Ahead(f, k, draw).count = f.count
      BY <2>2, <2>3, AheadIs
  <2> QED
      BY <2>1, <2>2, <2>4, CountedSame
<1> QED
    BY <1>1, <1>2

-----------------------------------------------------------------------------
(* The steps of the scan.                                                  *)

\* The scan is sound, and the packets of the order are where they should be.
ScanSound == scan \in Scans /\ Counted(scan)

OrderSound == algo = "oblivious" => Even(scan, used)

LEMMA ScanInit == SelectInit => ScanSound /\ OrderSound
<1> SUFFICES ASSUME SelectInit PROVE ScanSound /\ OrderSound
    OBVIOUS
<1>1. PICK x \in Paths : scan = [idx |-> 0, xor |-> x, skip |-> [p \in Paths |-> 0], count |-> 0]
    BY DEF SelectInit
<1>2. scan \in Scans
    BY <1>1, PathsAre DEF Scans
<1>3. Penalised(scan) = {}
    BY <1>1 DEF Penalised
<1>4. Counted(scan)
    BY <1>1, <1>3, FS_EmptySet DEF Counted
<1>5. Visited(scan) = {}
  <2>1. 0 .. scan.idx - 1 = {}
      BY <1>1
  <2> QED
      BY <2>1 DEF Visited
<1>6. Even(scan, used)
    BY <1>5 DEF Even, SelectInit
<1> QED
    BY <1>2, <1>4, <1>6 DEF ScanSound, OrderSound

LEMMA ScanStep == ScanSound /\ OrderSound /\ [SelectNext]_selectVars => ScanSound' /\ OrderSound'
<1> SUFFICES ASSUME ScanSound, OrderSound, [SelectNext]_selectVars PROVE ScanSound' /\ OrderSound'
    OBVIOUS
<1> DEFINE Same == scan' = scan /\ used' = used /\ algo' = algo
<1>1. ASSUME Same PROVE ScanSound' /\ OrderSound'
    BY <1>1 DEF ScanSound, OrderSound
<1>2. CASE NextOblivious /\ algo' = algo
  <2>1. PICK draw \in Paths : scan' = Ahead(scan, 1, draw)
      BY <1>2 DEF NextOblivious
  <2>2. scan \in Scans /\ 1 \in 1 .. NPaths
      BY PathsAre DEF ScanSound
  <2>3. /\ Ahead(scan, 1, draw) \in Scans
        /\ Ahead(scan, 1, draw).skip = scan.skip /\ Ahead(scan, 1, draw).count = scan.count
      BY <2>2, AheadIs
  <2>4. ScanSound'
      BY <2>1, <2>2, <2>3, CountedSame DEF ScanSound
  <2>5. Even(scan, used)
      BY <1>2 DEF OrderSound, NextOblivious
  <2>6. LET v == [used EXCEPT ![PathAt(scan)] = @ + 1]
        IN  Even(Ahead(scan, 1, draw), [p \in Paths |-> v[p] - Min(Range(v))])
      BY <2>2, <2>5, EvenStep
  <2>7. used' = LET v == [used EXCEPT ![PathAt(scan)] = @ + 1]
                IN  [p \in Paths |-> v[p] - Min(Range(v))]
      BY <1>2 DEF NextOblivious
  <2>8. Even(scan', used')
      BY <2>1, <2>6, <2>7
  <2> QED
      BY <2>4, <2>8 DEF OrderSound
<1>3. CASE NextBitmap /\ algo' = algo
  <2>1. PICK draw \in Paths, again \in Paths : scan' = Ahead(Scan(scan, draw), 1, again)
      BY <1>3 DEF NextBitmap
  <2> DEFINE s == Scan(scan, draw)
  <2>2. s \in Scans /\ Counted(s) /\ 1 \in 1 .. NPaths
      BY ScanIs, PathsAre DEF ScanSound
  <2> HIDE DEF s
  <2>3. /\ Ahead(s, 1, again) \in Scans
        /\ Ahead(s, 1, again).skip = s.skip /\ Ahead(s, 1, again).count = s.count
      BY <2>2, AheadIs
  <2>4. ScanSound'
      BY <2>1, <2>2, <2>3, CountedSame DEF ScanSound, s
  <2> QED
      BY <1>3, <2>4 DEF OrderSound, NextBitmap
<1>4. ASSUME NEW p \in Paths, Report(p), algo' = algo PROVE ScanSound' /\ OrderSound'
  <2>1. PICK q \in Paths, feedback \in {"good", "ecn", "nack", "timeout"} : ProcessEv(p, q, feedback)
    <3>1. 0 \in Paths
        BY PathsAre
    <3> QED
        BY <1>4, <3>1 DEF Report
  <2>2. CASE algo \in {"bitmap", "mixed"}
    <3>1. scan' = Penalise(scan, q, feedback)
        BY <2>1, <2>2 DEF ProcessEv
    <3>2. ScanSound'
        BY <3>1, PenaliseIs DEF ScanSound
    <3> QED
        BY <1>4, <2>2, <3>2 DEF OrderSound
  <2>3. CASE algo \notin {"bitmap", "mixed"}
    <3>1. scan' = scan /\ used' = used
        BY <2>1, <2>3 DEF ProcessEv
    <3> QED
        BY <1>1, <1>4, <3>1
  <2> QED
      BY <2>2, <2>3
<1>5. CASE NextReps /\ algo' = algo
    BY <1>1, <1>5 DEF NextReps
<1>6. CASE NextRepsLegacy /\ algo' = algo
    BY <1>1, <1>6 DEF NextRepsLegacy
<1>7. CASE NextRecycled /\ algo' = algo
    BY <1>1, <1>7 DEF NextRecycled
<1>8. CASE NextEcmp /\ algo' = algo
    BY <1>1, <1>8 DEF NextEcmp
<1>9. CASE Thaw /\ algo' = algo
    BY <1>1, <1>9 DEF Thaw
<1>10. CASE UNCHANGED selectVars
    BY <1>1, <1>10 DEF selectVars
<1> QED
    BY <1>2, <1>3, <1>4, <1>5, <1>6, <1>7, <1>8, <1>9, <1>10 DEF SelectNext

LEMMA ScanStays == SelectSpec => [](ScanSound /\ OrderSound)
BY ScanInit, ScanStep, PTL DEF SelectSpec

\* Whatever orders are drawn, no path has carried more than one packet more
\* than another: within an order each path comes up once, and it is whole
\* before the next is drawn.
THEOREM OrdersAreEven == SelectSpec => []SpraysEvenly
<1>1. ScanSound /\ OrderSound => SpraysEvenly
  <2> SUFFICES ASSUME OrderSound, algo = "oblivious", NEW p \in Paths, NEW q \in Paths
               PROVE  used[p] - used[q] <= 1
      BY DEF SpraysEvenly
  <2>1. used[p] \in {0, 1} /\ used[q] \in {0, 1}
      BY DEF OrderSound, Even
  <2> QED
      BY <2>1
<1> QED
    BY <1>1, ScanStays, PTL

\* The count of the penalised paths is kept by every report and by every path
\* passed over, so the assertion of nextEntropy holds.
THEOREM SkipCountKept == SelectSpec => []SkipCountExact
<1>1. ScanSound /\ OrderSound => SkipCountExact
    BY DEF ScanSound, Counted, Penalised, SkipCountExact
<1> QED
    BY <1>1, ScanStays, PTL


-----------------------------------------------------------------------------
(* What the scan passes over.                                              *)

\* Different places of an order are different paths.
LEMMA OrderCount ==
    ASSUME NEW x \in Paths, NEW J \in SUBSET Paths, NEW S \in SUBSET Paths,
           \A j \in J : Xor[<<j, x>>] \in S
    PROVE  Cardinality(J) <= Cardinality(S)
<1> DEFINE f == [j \in J |-> Xor[<<j, x>>]]
<1>1. f \in [J -> S] /\ \A i, j \in J : f[i] = f[j] => i = j
    BY XorOrder
<1>2. f \in Injection(J, S)
    BY <1>1 DEF Injection, IsInjective
<1>3. IsFiniteSet(S)
    BY PathsAre, FS_Subset
<1> QED
    BY <1>2, <1>3, FS_Injection

Free(s) == {p \in Paths : s.skip[p] = 0}

LEMMA FreeIs ==
    ASSUME NEW s \in Scans
    PROVE  /\ Cardinality(Free(s)) \in Nat
           /\ Cardinality(Free(s)) + Cardinality(Penalised(s)) = NPaths
<1>1. Free(s) = Paths \ Penalised(s) /\ Paths \cap Penalised(s) = Penalised(s)
    BY DEF Free, Penalised, Scans
<1>2. Cardinality(Paths \ Penalised(s)) = Cardinality(Paths) - Cardinality(Paths \cap Penalised(s))
    BY PathsAre, FS_Difference
<1>3. IsFiniteSet(Free(s))
    BY <1>1, PathsAre, FS_Subset
<1> DEFINE a == Cardinality(Free(s))
           b == Cardinality(Penalised(s))
<1>4. a \in Nat /\ b \in Nat
    BY <1>3, FS_CardinalityType, PenalisedIs
<1>5. a = NPaths - b
    BY <1>1, <1>2, PathsAre
<1> HIDE DEF a, b
<1>6. a + b = NPaths
    BY <1>4, <1>5, PathsAre
<1> QED
    BY <1>4, <1>6 DEF a, b

\* A scan that gives up has found every place from its own to the end of the
\* order penalised, and as many of the next order as it had left behind.
LEMMA ScanGivesUp ==
    ASSUME NEW s \in Scans, Counted(s), NEW draw \in Paths, s.skip[PathAt(s)] # 0,
           \A k \in 1 .. NPaths :
               Forgive(s, PathAt(s)).skip[PathAt(Ahead(Forgive(s, PathAt(s)), k, draw))] # 0
    PROVE  2 * Cardinality(Free(s)) < NPaths
<1> DEFINE n == NPaths
           i == s.idx
           f == Forgive(s, PathAt(s))
<1>1. n \in Nat \ {0} /\ Paths = 0 .. n - 1 /\ i \in Paths /\ s.xor \in Paths
    BY PathsAre DEF Scans
<1>2. /\ f \in Scans /\ f.idx = i /\ f.xor = s.xor
      /\ \A q \in Paths : s.skip[q] = 0 => f.skip[q] = 0
    BY PathAtIs, ForgiveIs
<1> HIDE DEF f
<1>3. ASSUME NEW k \in 1 .. n
      PROVE  IF i + k < n THEN Xor[<<i + k, s.xor>>] \in Penalised(s)
             ELSE Xor[<<(i + k) - n, draw>>] \in Penalised(s)
  <2> DEFINE t == Ahead(f, k, draw)
  <2>1. /\ t \in Scans /\ t.idx = Wrap(i + k, n)
        /\ t.xor = IF i + k < n THEN s.xor ELSE draw
      BY <1>2, AheadIs
  <2>2. f.skip[PathAt(t)] # 0
      BY DEF f
  <2> HIDE DEF t
  <2>3. PathAt(t) \in Paths
      BY <2>1, PathAtIs
  <2>4. s.skip[PathAt(t)] # 0 /\ s.skip[PathAt(t)] \in Nat
      BY <1>2, <2>2, <2>3 DEF Scans
  <2>5. PathAt(t) \in Penalised(s)
      BY <2>3, <2>4 DEF Penalised
  <2> QED
    <3>1. Xor[<<t.idx, t.xor>>] \in Penalised(s)
        BY <2>5 DEF PathAt
    <3>2. CASE i + k < n
        BY <2>1, <3>1, <3>2 DEF Wrap
    <3>3. CASE ~(i + k < n)
      <4>1. t.idx = (i + k) - n
          BY <2>1, <3>3 DEF Wrap
      <4>2. t.xor = draw
          BY <2>1, <3>3
      <4> QED
          BY <3>1, <3>3, <4>1, <4>2
    <3> QED
        BY <3>2, <3>3
<1>4. Penalised(s) \subseteq Paths
    BY DEF Penalised
<1>5. Cardinality(i .. n - 1) <= Cardinality(Penalised(s))
  <2>1. Xor[<<i, s.xor>>] \in Penalised(s)
    <3>1. PathAt(s) \in Paths /\ s.skip[PathAt(s)] \in Nat
        BY PathAtIs DEF Scans
    <3>2. s.skip[PathAt(s)] > 0
        BY <3>1
    <3> QED
        BY <3>1, <3>2 DEF PathAt, Penalised
  <2>2. ASSUME NEW j \in i .. n - 1 PROVE Xor[<<j, s.xor>>] \in Penalised(s)
    <3>1. CASE j = i
        BY <2>1, <3>1
    <3>2. CASE j # i
      <4>1. j - i \in 1 .. n /\ i + (j - i) = j /\ j < n
          BY <1>1, <3>2
      <4> QED
          BY <4>1, <1>3
    <3> QED
        BY <3>1, <3>2
  <2>3. i .. n - 1 \in SUBSET Paths
      BY <1>1
  <2> QED
      BY <1>1, <1>4, <2>2, <2>3, OrderCount
<1>6. Cardinality(0 .. i) <= Cardinality(Penalised(s))
  <2>1. ASSUME NEW j \in 0 .. i PROVE Xor[<<j, draw>>] \in Penalised(s)
    <3>1. n - i + j \in 1 .. n /\ (i + (n - i + j)) - n = j /\ ~(i + (n - i + j) < n)
        BY <1>1
    <3> HIDE DEF i, n
    <3> QED
        BY <3>1, <1>3
  <2>2. 0 .. i \in SUBSET Paths
      BY <1>1
  <2> QED
      BY <1>4, <2>1, <2>2, OrderCount
<1>7. Cardinality(i .. n - 1) = n - i /\ Cardinality(0 .. i) = i + 1
  <2>1. i \in Int /\ 0 \in Int /\ n - 1 \in Int /\ ~(i > n - 1) /\ ~(0 > i)
      BY <1>1
  <2>2. Cardinality(i .. n - 1) = (n - 1) - i + 1 /\ Cardinality(0 .. i) = i - 0 + 1
    <3> HIDE DEF i, n
    <3> QED
        BY <2>1, FS_Interval
  <2> QED
      BY <1>1, <2>2
<1> DEFINE a == Cardinality(Free(s))
           b == Cardinality(Penalised(s))
<1>8. a \in Nat /\ b \in Nat /\ a + b = n /\ n - i <= b /\ i + 1 <= b
    BY <1>5, <1>6, <1>7, FreeIs, PenalisedIs
<1> HIDE DEF a, b, n, i
<1>9. 2 * a < n
    BY <1>1, <1>8
<1> QED
    BY <1>9 DEF a, n

LEMMA ScanAvoids ==
    ASSUME NEW s \in Scans, Counted(s), NEW draw \in Paths,
           2 * Cardinality(Free(s)) >= NPaths
    PROVE  Scan(s, draw).skip[PathAt(Scan(s, draw))] = 0
<1> DEFINE p == PathAt(s)
           f == Forgive(s, p)
           good == {k \in 1 .. NPaths : f.skip[PathAt(Ahead(f, k, draw))] = 0}
           k0 == Min(good \cup {NPaths})
<1>1. CASE s.skip[p] = 0
    BY <1>1 DEF Scan
<1>2. CASE s.skip[p] # 0
  <2>1. Scan(s, draw) = Ahead(f, k0, draw)
      BY <1>2 DEF Scan
  <2>2. f \in Scans
      BY <1>2, PathAtIs, ForgiveIs
  <2>3. good # {}
    <3>1. SUFFICES ASSUME \A k \in 1 .. NPaths : f.skip[PathAt(Ahead(f, k, draw))] # 0
                   PROVE  FALSE
        OBVIOUS
    <3>2. 2 * Cardinality(Free(s)) < NPaths
        BY <1>2, <3>1, ScanGivesUp
    <3>3. Cardinality(Free(s)) \in Nat /\ NPaths \in Nat
        BY FreeIs, PathsAre
    <3> DEFINE a == Cardinality(Free(s))
    <3>4. 2 * a < NPaths /\ 2 * a >= NPaths /\ a \in Nat /\ NPaths \in Nat
        BY <3>2, <3>3
    <3> HIDE DEF a
    <3> QED
        BY <3>4
  <2>4. good \in SUBSET (1 .. NPaths) /\ good \in SUBSET Nat /\ NPaths \in Nat
      BY PathsAre
  <2>5. k0 \in good
    <3> HIDE DEF good
    <3>1. k0 \in good \cup {NPaths} /\ \A k \in good \cup {NPaths} : k0 <= k
        BY <2>4, MinOf
    <3>2. PICK k \in good : TRUE
        BY <2>3
    <3>3. k0 = NPaths => k = NPaths
        BY <2>4, <3>1, <3>2
    <3> QED
        BY <3>1, <3>2, <3>3
  <2>6. k0 \in 1 .. NPaths /\ f.skip[PathAt(Ahead(f, k0, draw))] = 0
      BY <2>5
  <2> HIDE DEF k0, f
  <2>7. Ahead(f, k0, draw).skip = f.skip
      BY <2>2, <2>6, AheadIs
  <2> QED
      BY <2>1, <2>6, <2>7
<1> QED
    BY <1>1, <1>2

\* As long as half of the paths are free of penalty, no packet of the bitmap
\* leaves on a penalised one: a scan that gave up would have seen more than
\* half of them penalised, in one of the two orders it crosses.
THEOREM PenalisedAvoided == SelectSpec => AvoidsPenalised
<1> DEFINE Half == 2 * Cardinality({p \in Paths : scan.skip[p] = 0}) >= NPaths
           A == NextBitmap /\ algo = "bitmap" /\ Half => scan'.skip[last'] = 0
<1>1. ScanSound => [A]_selectVars
  <2> SUFFICES ASSUME ScanSound, NextBitmap, algo = "bitmap", Half
               PROVE  scan'.skip[last'] = 0
      OBVIOUS
  <2>1. PICK draw \in Paths, again \in Paths :
            scan' = Ahead(Scan(scan, draw), 1, again) /\ last' = PathAt(Scan(scan, draw))
      BY DEF NextBitmap
  <2> DEFINE s == Scan(scan, draw)
  <2>2. s \in Scans /\ 1 \in 1 .. NPaths
      BY ScanIs, PathsAre DEF ScanSound
  <2>3. s.skip[PathAt(s)] = 0
      BY ScanAvoids DEF ScanSound, Free
  <2> HIDE DEF s
  <2>4. Ahead(s, 1, again).skip = s.skip
      BY <2>2, AheadIs
  <2> QED
      BY <2>1, <2>3, <2>4 DEF s
<1> QED
    BY <1>1, ScanStays, PTL DEF AvoidsPenalised


-----------------------------------------------------------------------------
(* The ring of reps: its slots.                                            *)

Slots == 0 .. RingSize - 1

\* The oldest of the c slots before h, and the i-th of them.
From(h, c) == IF h - c < 0 THEN h + RingSize - c ELSE h - c

At(h, c, i) == Wrap(From(h, c) + i - 1, RingSize)

Next1(h) == Wrap(h + 1, RingSize)

LEMMA RingIs ==
    /\ RingSize \in Nat \ {0} /\ IsFiniteSet(Slots) /\ Cardinality(Slots) = RingSize
    /\ \A h \in Slots : (h + 1) % RingSize = Next1(h) /\ Next1(h) \in Slots
<1>1. RingSize \in Nat \ {0}
    BY PathAssumption
<1>2. IsFiniteSet(0 .. RingSize - 1) /\ Cardinality(0 .. RingSize - 1) = RingSize
    BY <1>1, FS_Interval
<1>3. ASSUME NEW h \in Slots
      PROVE  (h + 1) % RingSize = Next1(h) /\ Next1(h) \in Slots
  <2>1. h + 1 \in Nat /\ h + 1 < 2 * RingSize
      BY <1>1 DEF Slots
  <2> QED
      BY <1>1, <2>1, SlotOf DEF Slots, Next1
<1> QED
    BY <1>1, <1>2, <1>3 DEF Slots

LEMMA FromIs ==
    ASSUME NEW h \in Slots, NEW c \in 0 .. RingSize
    PROVE  From(h, c) \in Slots
<1>1. RingSize \in Nat \ {0} /\ h \in 0 .. RingSize - 1
    BY RingIs DEF Slots
<1> QED
    BY <1>1 DEF From, Slots

LEMMA AtIs ==
    ASSUME NEW h \in Slots, NEW c \in 0 .. RingSize, NEW i \in 1 .. RingSize
    PROVE  /\ At(h, c, i) \in Slots
           /\ (From(h, c) + i - 1) % RingSize = At(h, c, i)
           /\ \A j \in 1 .. RingSize : At(h, c, i) = At(h, c, j) => i = j
<1> DEFINE n == RingSize
           e == From(h, c)
<1>1. n \in Nat \ {0} /\ e \in 0 .. n - 1
    BY RingIs, FromIs DEF Slots
<1> HIDE DEF e
<1>2. e + i - 1 \in Nat /\ e + i - 1 < 2 * n
    BY <1>1
<1>3. (e + i - 1) % n = Wrap(e + i - 1, n) /\ Wrap(e + i - 1, n) \in 0 .. n - 1
    BY <1>1, <1>2, SlotOf
<1>4. \A j \in 1 .. n : Wrap(e + i - 1, n) = Wrap(e + j - 1, n) => i = j
    BY <1>1 DEF Wrap
<1> QED
    BY <1>3, <1>4 DEF At, Slots, e

\* Filling the slot at h when the ring is not full of fresh ones.
LEMMA AtGrows ==
    ASSUME NEW h \in Slots, NEW c \in 0 .. RingSize - 1
    PROVE  /\ At(h, c, c + 1) = h
           /\ \A i \in 1 .. RingSize : At(Next1(h), c + 1, i) = At(h, c, i)
<1>1. RingSize \in Nat \ {0} /\ h \in 0 .. RingSize - 1
    BY RingIs DEF Slots
<1>2. From(Next1(h), c + 1) = From(h, c)
    BY <1>1 DEF From, Next1, Wrap
<1>3. Wrap(From(h, c) + (c + 1) - 1, RingSize) = h
    BY <1>1 DEF From, Wrap
<1> QED
    BY <1>2, <1>3 DEF At

\* Filling it when it is: the oldest goes.
LEMMA AtTurns ==
    ASSUME NEW h \in Slots
    PROVE  /\ At(h, RingSize, 1) = h /\ At(Next1(h), RingSize, RingSize) = h
           /\ \A i \in 1 .. RingSize - 1 : At(Next1(h), RingSize, i) = At(h, RingSize, i + 1)
<1>1. RingSize \in Nat \ {0} /\ h \in 0 .. RingSize - 1
    BY RingIs DEF Slots
<1>2. From(h, RingSize) = h
    BY <1>1 DEF From
<1>3. From(Next1(h), RingSize) = Next1(h)
    BY <1>1 DEF From, Next1, Wrap
<1>4. Wrap(h + 1 - 1, RingSize) = h
    BY <1>1 DEF Wrap
<1>5. Wrap(Next1(h) + RingSize - 1, RingSize) = h
    BY <1>1 DEF Wrap, Next1
<1>6. \A i \in 1 .. RingSize - 1 : Wrap(Next1(h) + i - 1, RingSize) = Wrap(h + (i + 1) - 1, RingSize)
    BY <1>1 DEF Wrap, Next1
<1> QED
    BY <1>2, <1>3, <1>4, <1>5, <1>6 DEF At

\* Taking the oldest.
LEMMA AtShrinks ==
    ASSUME NEW h \in Slots, NEW c \in 1 .. RingSize
    PROVE  /\ At(h, c, 1) = From(h, c)
           /\ \A i \in 1 .. RingSize - 1 : At(h, c - 1, i) = At(h, c, i + 1)
<1>1. RingSize \in Nat \ {0} /\ h \in 0 .. RingSize - 1
    BY RingIs DEF Slots
<1>2. From(h, c) \in 0 .. RingSize - 1
    BY FromIs DEF Slots
<1>3. Wrap(From(h, c) + 1 - 1, RingSize) = From(h, c)
    BY <1>1, <1>2 DEF Wrap
<1>4. \A i \in 1 .. RingSize - 1 :
          Wrap(From(h, c - 1) + i - 1, RingSize) = Wrap(From(h, c) + (i + 1) - 1, RingSize)
    BY <1>1 DEF Wrap, From
<1> QED
    BY <1>3, <1>4 DEF At

-----------------------------------------------------------------------------
(* The ring of reps: its operations.                                       *)

Rings == [path : [Slots -> Paths], valid : [Slots -> BOOLEAN], head : Slots,
          count : 0 .. RingSize, fresh : 0 .. RingSize, frozenHead : Slots,
          frozen : BOOLEAN, thaw : BOOLEAN, explore : Nat]

Valid(r) == {k \in Slots : r.valid[k]}

\* The counters of a ring: slots are written from the first.
Placed(r) ==
    /\ r.fresh = Cardinality(Valid(r))
    /\ r.count < RingSize => r.head = r.count
    /\ r.count > 0 => r.frozenHead < r.count
    /\ r.count = 0 => r.frozenHead = 0

\* The fresh slots hold u, oldest first, and no other slot is valid.
Queue(r, u) ==
    /\ u \in Seq(Paths) /\ Len(u) = r.fresh
    /\ \A k \in Slots : r.valid[k] <=> \E i \in 1 .. r.fresh : k = At(r.head, r.fresh, i)
    /\ \A i \in 1 .. r.fresh : r.path[At(r.head, r.fresh, i)] = u[i]

\* Both are about the slots and the counters alone.
LEMMA SameSlots ==
    ASSUME NEW r \in Rings, NEW t \in Rings, Placed(r),
           t.path = r.path, t.valid = r.valid, t.head = r.head, t.count = r.count,
           t.fresh = r.fresh, t.frozenHead = r.frozenHead
    PROVE  Placed(t) /\ \A u : Queue(r, u) => Queue(t, u)
<1>1. Valid(t) = Valid(r)
    BY DEF Valid
<1>2. Placed(t)
    BY <1>1 DEF Placed
<1>3. ASSUME NEW u, Queue(r, u) PROVE Queue(t, u)
    BY <1>3 DEF Queue
<1> QED
    BY <1>2, <1>3

LEMMA EmptyRingIs ==
    EmptyRing \in Rings /\ Placed(EmptyRing) /\ Queue(EmptyRing, <<>>) /\ ~EmptyRing.frozen
<1> DEFINE r == EmptyRing
<1>1. /\ r.valid = [k \in Slots |-> FALSE] /\ r.frozen = FALSE
      /\ r.head = 0 /\ r.count = 0 /\ r.fresh = 0 /\ r.frozenHead = 0
    BY DEF EmptyRing, Slots
<1>2. RingSize \in Nat \ {0} /\ 0 \in Slots /\ 0 \in Paths /\ 0 \in 0 .. RingSize /\ 0 \in Nat
    BY RingIs, PathsAre DEF Slots
<1>3. r \in Rings
  <2>1. [k \in Slots |-> 0] \in [Slots -> Paths] /\ [k \in Slots |-> FALSE] \in [Slots -> BOOLEAN]
      BY <1>2
  <2> QED
      BY <1>2, <2>1 DEF Rings, EmptyRing, Slots
<1> HIDE DEF r
<1>4. Valid(r) = {}
    BY <1>1 DEF Valid
<1>5. Placed(r)
    BY <1>1, <1>4, FS_EmptySet DEF Placed
<1>6. Queue(r, <<>>)
  <2>1. 1 .. r.fresh = {} /\ \A k \in Slots : r.valid[k] = FALSE
      BY <1>1
  <2>2. <<>> \in Seq(Paths) /\ Len(<<>>) = r.fresh
      BY <1>1
  <2> QED
      BY <2>1, <2>2 DEF Queue
<1> QED
    BY <1>1, <1>3, <1>5, <1>6 DEF r

LEMMA EmptyIs ==
    ASSUME NEW e \in Nat
    PROVE  LET r == [EmptyRing EXCEPT !.explore = e]
           IN  r \in Rings /\ Placed(r) /\ Queue(r, <<>>) /\ ~r.frozen
<1> DEFINE s == EmptyRing
           r == [s EXCEPT !.explore = e]
<1>1. s \in Rings /\ Placed(s) /\ Queue(s, <<>>) /\ ~s.frozen
    BY EmptyRingIs
<1> HIDE DEF s
<1>2. /\ r \in Rings /\ r.frozen = s.frozen
      /\ r.path = s.path /\ r.valid = s.valid /\ r.head = s.head
      /\ r.count = s.count /\ r.fresh = s.fresh /\ r.frozenHead = s.frozenHead
    BY <1>1 DEF Rings
<1> HIDE DEF r
<1>3. Placed(r) /\ Queue(r, <<>>)
    BY <1>1, <1>2, SameSlots
<1> QED
    BY <1>1, <1>2, <1>3 DEF r, s

LEMMA ValidIs ==
    ASSUME NEW r \in Rings
    PROVE  /\ IsFiniteSet(Valid(r)) /\ Cardinality(Valid(r)) \in 0 .. RingSize
           /\ r.head \notin Valid(r) => Cardinality(Valid(r)) < RingSize
<1>1. Valid(r) \subseteq Slots /\ r.head \in Slots
    BY DEF Valid, Rings
<1>2. \A S \in SUBSET Slots : IsFiniteSet(S) /\ Cardinality(S) \in Nat /\ Cardinality(S) <= RingSize
    BY RingIs, FS_Subset, FS_CardinalityType
<1>3. ASSUME r.head \notin Valid(r) PROVE Cardinality(Valid(r)) < RingSize
  <2>1. Cardinality(Valid(r) \cup {r.head}) = Cardinality(Valid(r)) + 1
      BY <1>1, <1>2, <1>3, FS_AddElement
  <2>2. Cardinality(Valid(r) \cup {r.head}) <= RingSize /\ Cardinality(Valid(r)) \in Nat
      BY <1>1, <1>2
  <2> QED
      BY <2>1, <2>2, RingIs
<1>4. Cardinality(Valid(r)) \in 0 .. RingSize
    BY <1>1, <1>2, RingIs
<1> QED
    BY <1>1, <1>2, <1>3, <1>4

\* A reported path is written at the head.
LEMMA AddIs ==
    ASSUME NEW r \in Rings, Placed(r), NEW p \in Paths
    PROVE  /\ Add(r, p) \in Rings /\ Placed(Add(r, p)) /\ Add(r, p).frozen = r.frozen
           /\ Add(r, p).head = Next1(r.head)
           /\ Add(r, p).fresh = IF r.valid[r.head] THEN r.fresh ELSE r.fresh + 1
           /\ Add(r, p).path = [r.path EXCEPT ![r.head] = p]
           /\ Add(r, p).valid = [r.valid EXCEPT ![r.head] = TRUE]
<1> DEFINE t == Add(r, p)
           n == RingSize
           h == r.head
           f == IF r.valid[h] THEN r.fresh ELSE r.fresh + 1
           c == IF r.count < n THEN r.count + 1 ELSE n
<1>1. /\ r.path \in [Slots -> Paths] /\ r.valid \in [Slots -> BOOLEAN] /\ h \in Slots
      /\ r.count \in 0 .. n /\ r.fresh \in 0 .. n /\ r.frozenHead \in Slots
      /\ r.frozen \in BOOLEAN /\ r.thaw \in BOOLEAN /\ r.explore \in Nat
    BY DEF Rings
<1>2. n \in Nat \ {0} /\ (h + 1) % n = Next1(h) /\ Next1(h) \in Slots
    BY <1>1, RingIs
<1>3. f \in 0 .. n
    BY <1>1, <1>2, ValidIs DEF Placed, Valid
<1>4. Min({f, n}) = f
  <2>1. {f, n} \in SUBSET Nat /\ {f, n} # {} /\ f \in Nat /\ f <= n
      BY <1>2, <1>3
  <2> HIDE DEF f
  <2>2. Min({f, n}) \in {f, n} /\ Min({f, n}) <= f
      BY <2>1, MinOf
  <2> QED
      BY <2>1, <2>2, <1>2
<1>5. Min({r.count + 1, n}) = c /\ c \in 1 .. n
  <2> DEFINE d == r.count
  <2>1. d \in Nat /\ d <= n /\ {d + 1, n} \in SUBSET Nat /\ {d + 1, n} # {}
      BY <1>1, <1>2
  <2>2. Min({d + 1, n}) \in {d + 1, n} /\ Min({d + 1, n}) <= d + 1 /\ Min({d + 1, n}) <= n
      BY <2>1, MinOf
  <2> HIDE DEF d
  <2>3. Min({d + 1, n}) = IF d < n THEN d + 1 ELSE n
      BY <2>1, <2>2, <1>2
  <2> QED
      BY <2>1, <2>3, <1>2 DEF d
<1>6. t = [r EXCEPT !.fresh = f, !.path = [r.path EXCEPT ![h] = p],
                    !.valid = [r.valid EXCEPT ![h] = TRUE], !.head = Next1(h), !.count = c]
    BY <1>1, <1>2, <1>4, <1>5 DEF Add, Rings
<1> HIDE DEF t, f, c
<1>7. /\ t.fresh = f /\ t.path = [r.path EXCEPT ![h] = p] /\ t.head = Next1(h) /\ t.count = c
      /\ t.valid = [r.valid EXCEPT ![h] = TRUE] /\ t.frozenHead = r.frozenHead
      /\ t.frozen = r.frozen
    BY <1>6 DEF Rings
<1>8. t \in Rings
  <2>1. [r.path EXCEPT ![h] = p] \in [Slots -> Paths]
        /\ [r.valid EXCEPT ![h] = TRUE] \in [Slots -> BOOLEAN] /\ c \in 0 .. n
      BY <1>1, <1>5
  <2> HIDE DEF h, n
  <2> QED
      BY <1>2, <1>3, <1>6, <2>1 DEF Rings, n
<1>9. Valid(t) = Valid(r) \cup {h}
    BY <1>1, <1>7 DEF Valid
<1>10. f = Cardinality(Valid(t))
  <2>1. r.fresh = Cardinality(Valid(r)) /\ IsFiniteSet(Valid(r))
      BY ValidIs DEF Placed
  <2>2. CASE r.valid[h]
    <3>1. Valid(t) = Valid(r)
        BY <1>1, <1>9, <2>2 DEF Valid
    <3> QED
        BY <2>1, <2>2, <3>1 DEF f
  <2>3. CASE ~r.valid[h]
    <3>1. h \notin Valid(r)
        BY <2>3 DEF Valid
    <3>2. Cardinality(Valid(r) \cup {h}) = Cardinality(Valid(r)) + 1
        BY <2>1, <3>1, FS_AddElement
    <3> QED
        BY <1>9, <2>1, <2>3, <3>2 DEF f
  <2> QED
      BY <2>2, <2>3
<1>11. c < n => Next1(h) = c
    BY <1>1, <1>2 DEF c, Next1, Wrap, Placed, Slots
<1>12. c > 0 /\ r.frozenHead < c
  <2>1. r.count > 0 => r.frozenHead < r.count
      BY DEF Placed
  <2>2. r.count = 0 => r.frozenHead = 0
      BY DEF Placed
  <2>3. r.frozenHead \in Nat
      BY <1>1 DEF Slots
  <2> QED
      BY <1>1, <1>2, <2>1, <2>2, <2>3 DEF c
<1>13. Placed(t)
    BY <1>5, <1>7, <1>10, <1>11, <1>12 DEF Placed
<1> QED
    BY <1>7, <1>8, <1>13 DEF t, f, h


\* The head is fresh only when all slots are.
LEMMA HeadIs ==
    ASSUME NEW r \in Rings, NEW u, Queue(r, u)
    PROVE  r.valid[r.head] <=> r.fresh = RingSize
<1> DEFINE h == r.head
           c == r.fresh
<1>1. h \in Slots /\ c \in 0 .. RingSize /\ RingSize \in Nat \ {0}
    BY RingIs DEF Rings
<1>2. r.valid[h] <=> \E i \in 1 .. c : h = At(h, c, i)
    BY <1>1 DEF Queue
<1> HIDE DEF h, c
<1>3. CASE c = RingSize
  <2>1. At(h, c, 1) = h /\ 1 \in 1 .. c
      BY <1>1, <1>3, AtTurns
  <2> QED
      BY <1>2, <1>3, <2>1 DEF h, c
<1>4. CASE c # RingSize
  <2>1. c \in 0 .. RingSize - 1
      BY <1>1, <1>4
  <2>2. At(h, c, c + 1) = h
      BY <1>1, <2>1, AtGrows
  <2>3. ASSUME NEW i \in 1 .. c, h = At(h, c, i) PROVE FALSE
    <3>1. i \in 1 .. RingSize /\ c + 1 \in 1 .. RingSize /\ i # c + 1
        BY <1>1, <2>1
    <3> QED
        BY <1>1, <2>2, <2>3, <3>1, AtIs
  <2> QED
      BY <1>2, <1>4, <2>3 DEF h, c
<1> QED
    BY <1>3, <1>4

\* The queue after a report: one more, or the oldest gone.
After(u, p) == IF Len(u) = RingSize THEN Append(Tail(u), p) ELSE Append(u, p)

LEMMA AddQueue ==
    ASSUME NEW r \in Rings, Placed(r), NEW u, Queue(r, u), NEW p \in Paths
    PROVE  Queue(Add(r, p), After(u, p))
<1> DEFINE t == Add(r, p)
           n == RingSize
           h == r.head
           c == r.fresh
<1>1. /\ n \in Nat \ {0} /\ h \in Slots /\ c \in 0 .. n
      /\ r.path \in [Slots -> Paths] /\ r.valid \in [Slots -> BOOLEAN]
    BY RingIs DEF Rings
<1>2. /\ t.head = Next1(h) /\ t.fresh = IF r.valid[h] THEN c ELSE c + 1
      /\ t.path = [r.path EXCEPT ![h] = p] /\ t.valid = [r.valid EXCEPT ![h] = TRUE]
    BY AddIs
<1>3. r.valid[h] <=> c = n
    BY HeadIs
<1>4. /\ u \in Seq(Paths) /\ Len(u) = c
      /\ \A k \in Slots : r.valid[k] <=> \E i \in 1 .. c : k = At(h, c, i)
      /\ \A i \in 1 .. c : r.path[At(h, c, i)] = u[i]
    BY DEF Queue
<1> HIDE DEF t, h, c
<1>5. CASE c = n
  <2> DEFINE v == Append(Tail(u), p)
  <2>1. u # <<>> /\ Len(u) = n
      BY <1>1, <1>4, <1>5
  <2>2. v \in Seq(Paths) /\ Len(v) = n /\ v[n] = p /\ \A i \in 1 .. n - 1 : v[i] = u[i + 1]
      BY <1>1, <1>4, <2>1
  <2>3. t.fresh = n /\ After(u, p) = v
      BY <1>2, <1>3, <1>5, <2>1 DEF After
  <2>4. /\ At(h, n, 1) = h /\ At(Next1(h), n, n) = h
        /\ \A i \in 1 .. n - 1 : At(Next1(h), n, i) = At(h, n, i + 1)
      BY <1>1, AtTurns
  <2> HIDE DEF v
  <2>5. ASSUME NEW k \in Slots
        PROVE  t.valid[k] <=> \E i \in 1 .. n : k = At(Next1(h), n, i)
    <3>1. t.valid[k] <=> \E i \in 1 .. n : k = At(h, n, i)
      <4>1. r.valid[h]
          BY <1>3, <1>5
      <4>2. t.valid[k] <=> r.valid[k]
          BY <1>1, <1>2, <4>1
      <4> QED
          BY <1>4, <1>5, <4>2
    <3>2. ASSUME NEW i \in 1 .. n, k = At(h, n, i) PROVE \E j \in 1 .. n : k = At(Next1(h), n, j)
      <4>1. CASE i = 1
          BY <1>1, <2>4, <3>2, <4>1
      <4>2. CASE i # 1
        <5>1. i - 1 \in 1 .. n - 1 /\ i - 1 \in 1 .. n /\ (i - 1) + 1 = i
            BY <1>1, <4>2
        <5>2. At(Next1(h), n, i - 1) = At(h, n, i)
            BY <2>4, <5>1
        <5> QED
            BY <3>2, <5>1, <5>2
      <4> QED
          BY <4>1, <4>2
    <3>3. ASSUME NEW j \in 1 .. n, k = At(Next1(h), n, j) PROVE \E i \in 1 .. n : k = At(h, n, i)
      <4>1. CASE j = n
        <5>1. k = At(h, n, 1) /\ 1 \in 1 .. n
            BY <1>1, <2>4, <3>3, <4>1
        <5> QED
            BY <5>1
      <4>2. CASE j # n
        <5>1. j \in 1 .. n - 1 /\ j + 1 \in 1 .. n
            BY <1>1, <4>2
        <5> QED
            BY <2>4, <3>3, <5>1
      <4> QED
          BY <4>1, <4>2
    <3> QED
        BY <3>1, <3>2, <3>3
  <2>6. ASSUME NEW i \in 1 .. n PROVE t.path[At(Next1(h), n, i)] = v[i]
    <3>1. CASE i = n
        BY <1>1, <1>2, <2>2, <2>4, <3>1
    <3>2. CASE i # n
      <4>1. i \in 1 .. n - 1 /\ i + 1 \in 1 .. n /\ 1 \in 1 .. n /\ i + 1 # 1
          BY <1>1, <3>2
      <4>2. At(Next1(h), n, i) = At(h, n, i + 1) /\ v[i] = u[i + 1]
          BY <2>2, <2>4, <4>1
      <4>3. At(h, n, i + 1) \in Slots /\ At(h, n, i + 1) # At(h, n, 1)
          BY <1>1, <1>5, <4>1, AtIs
      <4>4. r.path[At(h, n, i + 1)] = u[i + 1]
          BY <1>4, <1>5, <4>1
      <4> QED
          BY <1>1, <1>2, <2>4, <4>2, <4>3, <4>4
    <3> QED
        BY <3>1, <3>2
  <2> QED
    <3>1. Queue(t, After(u, p))
        BY <1>2, <2>2, <2>3, <2>5, <2>6 DEF Queue
    <3> QED
        BY <3>1 DEF t
<1>6. CASE c # n
  <2> DEFINE v == Append(u, p)
  <2>1. c \in 0 .. n - 1 /\ c + 1 \in 1 .. n
      BY <1>1, <1>6
  <2>2. v \in Seq(Paths) /\ Len(v) = c + 1 /\ v[c + 1] = p /\ \A i \in 1 .. c : v[i] = u[i]
      BY <1>1, <1>4
  <2>3. t.fresh = c + 1 /\ After(u, p) = v
      BY <1>2, <1>3, <1>4, <1>6 DEF After
  <2>4. /\ At(h, c, c + 1) = h
        /\ \A i \in 1 .. n : At(Next1(h), c + 1, i) = At(h, c, i)
      BY <1>1, <2>1, AtGrows
  <2> HIDE DEF v
  <2>5. \A i \in 1 .. c + 1 : i \in 1 .. n /\ (i = c + 1 \/ i \in 1 .. c)
      BY <1>1, <2>1
  <2>6. \A i \in 1 .. c : i \in 1 .. c + 1 /\ i \in 1 .. n /\ i # c + 1
      BY <1>1, <2>1
  <2>7. ASSUME NEW k \in Slots
        PROVE  t.valid[k] <=> \E i \in 1 .. c + 1 : k = At(Next1(h), c + 1, i)
    <3>1. t.valid[k] <=> k = h \/ r.valid[k]
        BY <1>1, <1>2
    <3>2. ASSUME NEW i \in 1 .. c, k = At(h, c, i)
          PROVE  \E j \in 1 .. c + 1 : k = At(Next1(h), c + 1, j)
        BY <2>4, <2>6, <3>2
    <3>3. c + 1 \in 1 .. c + 1 /\ At(Next1(h), c + 1, c + 1) = h
        BY <1>1, <2>1, <2>4
    <3>4. ASSUME NEW j \in 1 .. c + 1, k = At(Next1(h), c + 1, j)
          PROVE  k = h \/ \E i \in 1 .. c : k = At(h, c, i)
        BY <2>4, <2>5, <3>3, <3>4
    <3> QED
        BY <1>4, <3>1, <3>2, <3>3, <3>4
  <2>8. ASSUME NEW i \in 1 .. c + 1 PROVE t.path[At(Next1(h), c + 1, i)] = v[i]
    <3>1. CASE i = c + 1
        BY <1>1, <1>2, <2>1, <2>2, <2>4, <3>1
    <3>2. CASE i \in 1 .. c
      <4>1. i \in 1 .. n /\ i # c + 1
          BY <2>6, <3>2
      <4>2. At(h, c, i) \in Slots /\ At(h, c, i) # At(h, c, c + 1)
          BY <1>1, <2>1, <4>1, AtIs
      <4>3. r.path[At(h, c, i)] = u[i] /\ v[i] = u[i]
          BY <1>4, <2>2, <3>2
      <4> QED
          BY <1>1, <1>2, <2>4, <4>1, <4>2, <4>3
    <3> QED
        BY <2>5, <3>1, <3>2
  <2> QED
    <3>1. Queue(t, After(u, p))
      <4>1. t.fresh = c + 1 /\ t.head = Next1(h) /\ After(u, p) = v
          BY <1>2, <2>3
      <4>2. Queue(t, v)
          BY <2>2, <2>7, <2>8, <4>1 DEF Queue
      <4> QED
          BY <4>1, <4>2
    <3> QED
        BY <3>1 DEF t
<1> QED
    BY <1>5, <1>6

\* The oldest fresh slot is given out.
LEMMA TakeFreshIs ==
    ASSUME NEW r \in Rings, Placed(r), NEW u, Queue(r, u), r.fresh > 0
    PROVE  /\ TakeFresh(r) \in Rings /\ Placed(TakeFresh(r)) /\ TakeFresh(r).frozen = r.frozen
           /\ Queue(TakeFresh(r), Tail(u))
<1> DEFINE t == TakeFresh(r)
           n == RingSize
           h == r.head
           c == r.fresh
           e == From(h, c)
<1>1. /\ n \in Nat \ {0} /\ h \in Slots /\ c \in 1 .. n
      /\ r.path \in [Slots -> Paths] /\ r.valid \in [Slots -> BOOLEAN]
    BY RingIs DEF Rings
<1>2. EarliestFresh(r) = e
    BY DEF EarliestFresh, From
<1>3. t = [r EXCEPT !.valid = [r.valid EXCEPT ![e] = FALSE], !.fresh = c - 1]
    BY <1>2 DEF TakeFresh, Rings
<1>4. /\ t.head = h /\ t.fresh = c - 1 /\ t.path = r.path /\ t.count = r.count
      /\ t.frozenHead = r.frozenHead /\ t.valid = [r.valid EXCEPT ![e] = FALSE]
      /\ t.frozen = r.frozen
    BY <1>3 DEF Rings
<1>5. e \in Slots /\ e = At(h, c, 1) /\ \A i \in 1 .. n - 1 : At(h, c - 1, i) = At(h, c, i + 1)
  <2>1. c \in 0 .. n
      BY <1>1
  <2> HIDE DEF h, c
  <2>2. From(h, c) \in Slots
      BY <1>1, <2>1, FromIs
  <2>3. At(h, c, 1) = From(h, c) /\ \A i \in 1 .. n - 1 : At(h, c - 1, i) = At(h, c, i + 1)
      BY <1>1, AtShrinks
  <2> QED
      BY <2>2, <2>3
<1>6. /\ u \in Seq(Paths) /\ Len(u) = c
      /\ \A k \in Slots : r.valid[k] <=> \E i \in 1 .. c : k = At(h, c, i)
      /\ \A i \in 1 .. c : r.path[At(h, c, i)] = u[i]
    BY DEF Queue
<1>7. t \in Rings
  <2>1. [r.valid EXCEPT ![e] = FALSE] \in [Slots -> BOOLEAN]
      BY <1>1
  <2>2. c - 1 \in 0 .. n
      BY <1>1
  <2> HIDE DEF h, c, e
  <2> QED
      BY <1>3, <2>1, <2>2 DEF Rings
<1>8. e \in Valid(r)
  <2>1. 1 \in 1 .. c
      BY <1>1
  <2> QED
      BY <1>5, <1>6, <2>1 DEF Valid
<1> HIDE DEF t, h, c, e
<1>9. Valid(t) = Valid(r) \ {e}
    BY <1>1, <1>4, <1>5 DEF Valid
<1>10. c - 1 = Cardinality(Valid(t))
    BY <1>8, <1>9, ValidIs, FS_RemoveElement DEF Placed, c
<1>11. Placed(t)
    BY <1>4, <1>10 DEF Placed, h
<1>12. Queue(t, Tail(u))
  <2>1. u # <<>>
      BY <1>1, <1>6
  <2>2. Tail(u) \in Seq(Paths) /\ Len(Tail(u)) = c - 1 /\ \A i \in 1 .. c - 1 : Tail(u)[i] = u[i + 1]
      BY <1>1, <1>6, <2>1
  <2>3. \A i \in 1 .. c - 1 : i \in 1 .. n - 1 /\ i + 1 \in 1 .. c
      BY <1>1
  <2>4. ASSUME NEW k \in Slots
        PROVE  t.valid[k] <=> \E i \in 1 .. c - 1 : k = At(h, c - 1, i)
    <3>1. t.valid[k] <=> k # e /\ \E i \in 1 .. c : k = At(h, c, i)
        BY <1>1, <1>4, <1>6
    <3>2. ASSUME k # e, NEW i \in 1 .. c, k = At(h, c, i)
          PROVE  \E j \in 1 .. c - 1 : k = At(h, c - 1, j)
      <4>1. i # 1
          BY <1>5, <3>2
      <4>2. i - 1 \in 1 .. c - 1 /\ i - 1 \in 1 .. n - 1 /\ (i - 1) + 1 = i
          BY <1>1, <4>1
      <4>3. At(h, c - 1, i - 1) = At(h, c, i)
          BY <1>5, <4>2
      <4> QED
          BY <3>2, <4>2, <4>3
    <3>3. ASSUME NEW j \in 1 .. c - 1, k = At(h, c - 1, j)
          PROVE  k # e /\ \E i \in 1 .. c : k = At(h, c, i)
      <4>1. j \in 1 .. n - 1 /\ j + 1 \in 1 .. c /\ j + 1 \in 1 .. n /\ 1 \in 1 .. n /\ j + 1 # 1
          BY <1>1, <2>3
      <4>2. k = At(h, c, j + 1)
          BY <1>5, <3>3, <4>1
      <4>3. At(h, c, j + 1) # At(h, c, 1)
          BY <1>1, <4>1, AtIs
      <4> QED
          BY <1>5, <4>1, <4>2, <4>3
    <3> QED
        BY <3>1, <3>2, <3>3
  <2>5. \A i \in 1 .. c - 1 : t.path[At(h, c - 1, i)] = Tail(u)[i]
      BY <1>4, <1>5, <1>6, <2>2, <2>3
  <2> QED
      BY <1>4, <2>2, <2>4, <2>5 DEF Queue
<1> QED
    BY <1>4, <1>7, <1>11, <1>12 DEF t

\* A frozen ring is replayed slot by slot.
LEMMA TakeFrozenIs ==
    ASSUME NEW r \in Rings, Placed(r), r.count > 0
    PROVE  /\ TakeFrozen(r) \in Rings /\ Placed(TakeFrozen(r))
           /\ TakeFrozen(r).frozen = r.frozen
<1> DEFINE t == TakeFrozen(r)
           e == r.frozenHead
           c == r.count
           f == IF r.valid[e] THEN r.fresh - 1 ELSE r.fresh
           g == (e + 1) % c
<1>1. /\ RingSize \in Nat \ {0} /\ e \in Slots /\ c \in 1 .. RingSize /\ r.fresh \in 0 .. RingSize
      /\ r.path \in [Slots -> Paths] /\ r.valid \in [Slots -> BOOLEAN]
    BY RingIs DEF Rings
<1>2. g \in 0 .. c - 1
  <2>1. e + 1 \in Nat /\ c \in Nat \ {0}
      BY <1>1 DEF Slots
  <2> HIDE DEF e, c
  <2> QED
      BY <2>1
<1>3. t = [r EXCEPT !.fresh = f, !.valid = [r.valid EXCEPT ![e] = FALSE], !.frozenHead = g]
    BY DEF TakeFrozen, Rings
<1>4. /\ t.head = r.head /\ t.fresh = f /\ t.path = r.path /\ t.count = c
      /\ t.frozenHead = g /\ t.valid = [r.valid EXCEPT ![e] = FALSE] /\ t.frozen = r.frozen
    BY <1>3 DEF Rings
<1>5. Valid(t) = Valid(r) \ {e}
    BY <1>1, <1>4 DEF Valid
<1>6. f = Cardinality(Valid(t)) /\ IsFiniteSet(Valid(t)) /\ Cardinality(Valid(t)) \in 0 .. RingSize
  <2>1. r.fresh = Cardinality(Valid(r)) /\ IsFiniteSet(Valid(r))
      BY ValidIs DEF Placed
  <2>2. CASE r.valid[e]
    <3>1. e \in Valid(r)
        BY <1>1, <2>2 DEF Valid
    <3>2. Cardinality(Valid(r) \ {e}) = Cardinality(Valid(r)) - 1 /\ IsFiniteSet(Valid(r) \ {e})
        BY <2>1, <3>1, FS_RemoveElement
    <3>3. f = Cardinality(Valid(t)) /\ IsFiniteSet(Valid(t))
        BY <1>5, <2>1, <2>2, <3>2
    <3>4. Cardinality(Valid(t)) \in Nat
        BY <3>3, FS_CardinalityType
    <3> QED
        BY <1>1, <2>2, <3>3, <3>4
  <2>3. CASE ~r.valid[e]
    <3>1. Valid(t) = Valid(r)
        BY <1>5, <2>3 DEF Valid
    <3> QED
        BY <1>1, <2>1, <2>3, <3>1, ValidIs
  <2> QED
      BY <2>2, <2>3
<1>7. t \in Rings
  <2>1. [r.valid EXCEPT ![e] = FALSE] \in [Slots -> BOOLEAN]
      BY <1>1
  <2>2. g \in Slots
      BY <1>1, <1>2 DEF Slots
  <2>3. f \in 0 .. RingSize
      BY <1>6
  <2> HIDE DEF f, g, e
  <2> QED
      BY <1>3, <2>1, <2>2, <2>3 DEF Rings
<1> HIDE DEF t, f, g, e
<1>8. Placed(t)
    BY <1>1, <1>2, <1>4, <1>6 DEF Placed, c
<1> QED
    BY <1>4, <1>7, <1>8 DEF t


-----------------------------------------------------------------------------
(* The steps of the ring.                                                  *)

\* Frozen or not its counters are right; while it is not, it is the queue.
RingSound ==
    /\ ring \in Rings /\ Placed(ring)
    /\ ~ring.frozen => Queue(ring, unused)

LEMMA RingInit == SelectInit => RingSound
BY EmptyRingIs DEF SelectInit, RingSound

\* What a report does before the path is written.
LEMMA SettledIs ==
    ASSUME RingSound, NEW feedback
    PROVE  LET r == Settled(ring, feedback)
               u == IF r.frozen \/ ring.frozen THEN <<>> ELSE unused
           IN  r \in Rings /\ Placed(r) /\ (~r.frozen => Queue(r, u))
<1> DEFINE r == Settled(ring, feedback)
           u == IF r.frozen \/ ring.frozen THEN <<>> ELSE unused
<1>1. CASE Freezes(ring, feedback)
  <2>1. r = [ring EXCEPT !.frozen = TRUE, !.thaw = FALSE]
      BY <1>1 DEF Settled
  <2> HIDE DEF r
  <2>2. r \in Rings /\ r.frozen = TRUE
        /\ r.path = ring.path /\ r.valid = ring.valid /\ r.head = ring.head
        /\ r.count = ring.count /\ r.fresh = ring.fresh /\ r.frozenHead = ring.frozenHead
      BY <2>1 DEF RingSound, Rings
  <2>3. Placed(r)
      BY <2>2, SameSlots DEF RingSound
  <2> QED
      BY <2>2, <2>3 DEF r
<1>2. CASE ~Freezes(ring, feedback) /\ ring.frozen /\ ring.thaw
  <2>1. r = [EmptyRing EXCEPT !.explore = Explore] /\ u = <<>>
      BY <1>2 DEF Settled, Thawed
  <2>2. Explore \in Nat
      BY PathAssumption
  <2> HIDE DEF r, u
  <2> QED
      BY <2>1, <2>2, EmptyIs DEF r, u
<1>3. CASE ~Freezes(ring, feedback) /\ ~(ring.frozen /\ ring.thaw)
  <2>1. r = ring
      BY <1>3 DEF Settled
  <2> QED
      BY <2>1 DEF RingSound
<1> QED
    BY <1>1, <1>2, <1>3

LEMMA RingStep == RingSound /\ [SelectNext]_selectVars => RingSound'
<1> SUFFICES ASSUME RingSound, [SelectNext]_selectVars PROVE RingSound'
    OBVIOUS
<1>1. ASSUME ring' = ring, unused' = unused PROVE RingSound'
    BY <1>1 DEF RingSound
<1>2. CASE NextReps
  <2>1. CASE ring.explore > 0 /\ ring' = [ring EXCEPT !.explore = @ - 1] /\ UNCHANGED unused
    <3>1. ring.explore - 1 \in Nat
        BY <2>1 DEF RingSound, Rings
    <3>2. ring' \in Rings /\ ring'.frozen = ring.frozen
          /\ ring'.path = ring.path /\ ring'.valid = ring.valid /\ ring'.head = ring.head
          /\ ring'.count = ring.count /\ ring'.fresh = ring.fresh
          /\ ring'.frozenHead = ring.frozenHead
        BY <2>1, <3>1 DEF RingSound, Rings
    <3> QED
        BY <2>1, <3>2, SameSlots DEF RingSound
  <2>2. CASE UNCHANGED <<ring, unused>>
      BY <1>1, <2>2
  <2>3. CASE ring.count > 0 /\ ring.frozen /\ ring' = TakeFrozen(ring)
    <3>1. TakeFrozen(ring) \in Rings /\ Placed(TakeFrozen(ring)) /\ TakeFrozen(ring).frozen
        BY <2>3, TakeFrozenIs DEF RingSound
    <3> QED
        BY <2>3, <3>1 DEF RingSound
  <2>4. CASE ring.fresh > 0 /\ ~ring.frozen /\ ring' = TakeFresh(ring) /\ unused' = Tail(unused)
    <3>1. TakeFresh(ring) \in Rings /\ Placed(TakeFresh(ring))
          /\ Queue(TakeFresh(ring), Tail(unused))
        BY <2>4, TakeFreshIs DEF RingSound
    <3> QED
        BY <2>4, <3>1 DEF RingSound
  <2> QED
      BY <1>2, <2>1, <2>2, <2>3, <2>4 DEF NextReps
<1>3. ASSUME NEW p \in Paths, Report(p) PROVE RingSound'
  <2>1. PICK q \in Paths, feedback \in {"good", "ecn", "nack", "timeout"} : ProcessEv(p, q, feedback)
    <3>1. 0 \in Paths
        BY PathsAre
    <3> QED
        BY <1>3, <3>1 DEF Report
  <2> DEFINE r == Settled(ring, feedback)
             u == IF r.frozen \/ ring.frozen THEN <<>> ELSE unused
  <2>2. r \in Rings /\ Placed(r) /\ (~r.frozen => Queue(r, u))
      BY SettledIs
  <2>3. CASE algo # "reps"
      BY <1>1, <2>1, <2>3 DEF ProcessEv
  <2>4. CASE algo = "reps" /\ feedback # "good"
    <3>1. ring' = r /\ unused' = u
        BY <2>1, <2>4 DEF ProcessEv
    <3> HIDE DEF r, u
    <3> QED
        BY <2>2, <3>1 DEF RingSound
  <2>5. CASE algo = "reps" /\ feedback = "good"
    <3>1. ring' = Add(r, q) /\ unused' = IF r.frozen THEN <<>> ELSE After(u, q)
        BY <2>1, <2>5 DEF ProcessEv, After
    <3> HIDE DEF r, u
    <3>2. Add(r, q) \in Rings /\ Placed(Add(r, q)) /\ Add(r, q).frozen = r.frozen
        BY <2>2, AddIs
    <3>3. ~r.frozen => Queue(Add(r, q), After(u, q))
        BY <2>2, AddQueue
    <3> QED
        BY <3>1, <3>2, <3>3 DEF RingSound
  <2> QED
      BY <2>3, <2>4, <2>5
<1>4. CASE Thaw
  <2>1. ring' = [ring EXCEPT !.thaw = TRUE] /\ ring.frozen
      BY <1>4 DEF Thaw
  <2>2. ring' \in Rings /\ ring'.frozen = ring.frozen
        /\ ring'.path = ring.path /\ ring'.valid = ring.valid /\ ring'.head = ring.head
        /\ ring'.count = ring.count /\ ring'.fresh = ring.fresh
        /\ ring'.frozenHead = ring.frozenHead
      BY <2>1 DEF RingSound, Rings
  <2> QED
      BY <2>1, <2>2, SameSlots DEF RingSound
<1>5. CASE NextOblivious
    BY <1>1, <1>5 DEF NextOblivious
<1>6. CASE NextBitmap
    BY <1>1, <1>6 DEF NextBitmap
<1>7. CASE NextRepsLegacy
    BY <1>1, <1>7 DEF NextRepsLegacy
<1>8. CASE NextRecycled
    BY <1>1, <1>8 DEF NextRecycled
<1>9. CASE NextEcmp
    BY <1>1, <1>9 DEF NextEcmp
<1>10. CASE UNCHANGED selectVars
    BY <1>1, <1>10 DEF selectVars
<1> QED
    BY <1>2, <1>3, <1>4, <1>5, <1>6, <1>7, <1>8, <1>9, <1>10 DEF SelectNext

\* Overwritten when full, frozen, replayed and cleared, the ring of reps counts
\* its valid slots and replays only slots that were written, and while it is
\* not frozen it gives the latest reports back, oldest first.
THEOREM RingIsFifo == SelectSpec => []RepsIsFifo
<1>1. RingSound => RepsIsFifo
  <2> SUFFICES ASSUME RingSound PROVE RepsIsFifo
      OBVIOUS
  <2> DEFINE h == ring.head
             c == ring.fresh
  <2>1. h \in Slots /\ c \in 0 .. RingSize
      BY DEF RingSound, Rings
  <2>2. EarliestFresh(ring) = From(h, c)
      BY DEF EarliestFresh, From
  <2>3. ring.fresh = Cardinality({k \in 0 .. RingSize - 1 : ring.valid[k]})
      BY DEF RingSound, Placed, Valid, Slots
  <2>4. /\ ring.count < RingSize => ring.head = ring.count
        /\ ring.count > 0 => ring.frozenHead < ring.count
      BY DEF RingSound, Placed
  <2>5. ASSUME ~ring.frozen
        PROVE  /\ ring.fresh = Len(unused)
               /\ \A i \in 1 .. ring.fresh :
                     LET k == (EarliestFresh(ring) + i - 1) % RingSize
                     IN  ring.valid[k] /\ ring.path[k] = unused[i]
    <3>1. Queue(ring, unused)
        BY <2>5 DEF RingSound
    <3>2. ASSUME NEW i \in 1 .. c
          PROVE  LET k == (EarliestFresh(ring) + i - 1) % RingSize
                 IN  ring.valid[k] /\ ring.path[k] = unused[i]
      <4>1. i \in 1 .. RingSize
          BY <2>1, RingIs
      <4>2. At(h, c, i) \in Slots /\ (From(h, c) + i - 1) % RingSize = At(h, c, i)
          BY <2>1, <4>1, AtIs
      <4>3. ring.valid[At(h, c, i)] /\ ring.path[At(h, c, i)] = unused[i]
          BY <3>1, <4>2 DEF Queue
      <4> QED
          BY <2>2, <4>2, <4>3
    <3> QED
        BY <3>1, <3>2 DEF Queue
  <2> QED
      BY <2>3, <2>4, <2>5 DEF RepsIsFifo
<1>2. SelectSpec => []RingSound
    BY RingInit, RingStep, PTL DEF SelectSpec
<1> QED
    BY <1>1, <1>2, PTL

=============================================================================
