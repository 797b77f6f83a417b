--------------------------- MODULE CircularBuffer ---------------------------
(***************************************************************************)
(* The growing ring that every queue and pipe keeps its packets in.        *)
(* Source: sim/circular_buffer.h; Pipe::receivePacket and doNextEvent      *)
(* (sim/pipe.cpp) and CallbackPipe::doNextEvent repeat the same code.      *)
(*                                                                         *)
(* An item goes in at push and comes out at pop, or at push again          *)
(* (pop_front, which takes the youngest).  The ring doubles when it would  *)
(* fill up; the items that had wrapped around move to the new half.        *)
(***************************************************************************)
EXTENDS Integers, Sequences

CONSTANT NoItem    \* what a slot holds that was never written

Ring(slots, push, pop, count, size) ==
    [slots |-> slots, push |-> push, pop |-> pop, count |-> count, size |-> size]

Empty(size) == Ring([k \in 0 .. size - 1 |-> NoItem], 0, 0, 0, size)

\* Mutant: what had wrapped around stays where it was.
GrowOnly(r) ==
    Ring([k \in 0 .. 2 * r.size - 1 |-> IF k < r.size THEN r.slots[k] ELSE NoItem],
         IF r.push < r.pop THEN r.push + r.size ELSE r.push, r.pop, r.count, 2 * r.size)

Grow(r) ==
    Ring([k \in 0 .. 2 * r.size - 1 |->
              IF k < r.size THEN r.slots[k]
              ELSE IF k - r.size < r.push /\ r.push < r.pop THEN r.slots[k - r.size]
              ELSE NoItem],
         IF r.push < r.pop THEN r.push + r.size ELSE r.push, r.pop, r.count, 2 * r.size)

\* push: the ring doubles when the item would fill it.
PutIn(r, x) ==
    Ring([r.slots EXCEPT ![r.push] = x], (r.push + 1) % r.size, r.pop, r.count + 1, r.size)

Push(r, x) == PutIn(IF r.count + 1 = r.size THEN Grow(r) ELSE r, x)

\* pop: the oldest item and the ring without it.
Oldest(r) == r.slots[r.pop]

Pop(r) == Ring(r.slots, r.push, (r.pop + 1) % r.size, r.count - 1, r.size)

\* pop_front: the youngest item and the ring without it.
Youngest(r) == r.slots[(r.push + r.size - 1) % r.size]

PopFront(r) == Ring(r.slots, (r.push + r.size - 1) % r.size, r.pop, r.count - 1, r.size)

-----------------------------------------------------------------------------
\* A ring of items in working order; the indices are as validate() asserts.
IsRing(r, Item) ==
    /\ r = Ring(r.slots, r.push, r.pop, r.count, r.size)
    /\ r.size \in Nat \ {0} /\ r.slots \in [0 .. r.size - 1 -> Item]
    /\ r.count \in 0 .. r.size - 1
    /\ r.push \in 0 .. r.size - 1 /\ r.pop \in 0 .. r.size - 1
    /\ r.push = (r.pop + r.count) % r.size

\* The items in the order they will come out.
Contents(r) == [i \in 1 .. r.count |-> r.slots[(r.pop + i - 1) % r.size]]
=============================================================================
