--------------------------- MODULE ReorderBitmap ----------------------------
(***************************************************************************)
(* The receiver's bitmap of packets held out of order.                     *)
(* Source: sim/reorder_bitmap.h (ReorderBitmap<MaxSize>).                  *)
(*                                                                         *)
(* Sequence number i is kept in slot i modulo the allocated size, which    *)
(* starts at zero and doubles until the furthest number seen fits; offsets *)
(* from the base are taken modulo MaxSize.  The receiver's values 1, 2,    *)
(* ... (how often a number was reported) all mean "received": TRUE.        *)
(* idx & (n - 1) is idx % n, every size being a power of two.              *)
(***************************************************************************)
EXTENDS Integers

CONSTANTS MinSize, MaxSize    \* the first allocation, and the template argument

\* The sizes an allocation can have.
Lengths == {n \in 1 .. MaxSize : \E k \in 0 .. MaxSize : n = MinSize * 2 ^ k}

ASSUME BitmapAssumption == MinSize \in Nat \ {0} /\ MaxSize \in Lengths

NewBitmap == [base |-> 0, size |-> 0, buf |-> [k \in {} |-> FALSE]]

\* Distance from the base, wrapped like a ring of MaxSize.
Offset(b, i) == (i - b.base) % MaxSize

Get(b, i) == Offset(b, i) < b.size /\ b.buf[i % b.size]

\* Doubling stops at the first size that has room for the offset.
NewSize(b, off) ==
    CHOOSE n \in Lengths :
        /\ n >= b.size /\ n > off
        /\ \A m \in Lengths : m >= b.size /\ m > off => n <= m

\* Mutant: growing leaves the entries in the slots they had.
GrowInPlace(b, off) ==
    LET n == NewSize(b, off)
    IN  [base |-> b.base, size |-> n, buf |-> [k \in 0 .. n - 1 |-> k < b.size /\ b.buf[k]]]

\* Every entry of the window moves to its slot in the larger buffer.
GrowTo(b, off) ==
    LET n == NewSize(b, off)
    IN  [base |-> b.base, size |-> n,
         buf |-> [k \in 0 .. n - 1 |->
                     \E i \in b.base .. b.base + b.size - 1 : i % n = k /\ b.buf[i % b.size]]]

\* set: nothing is allocated to write a zero.
Put(b, i, value) ==
    LET a == IF Offset(b, i) >= b.size THEN GrowTo(b, Offset(b, i)) ELSE b
    IN  IF Offset(b, i) >= b.size /\ ~value THEN b
        ELSE [base |-> a.base, size |-> a.size, buf |-> [a.buf EXCEPT ![i % a.size] = value]]

\* set(i, 0) for each i from first to last, all of them within the allocated size.
ClearRange(b, first, last) ==
    [base |-> b.base, size |-> b.size,
     buf |-> [k \in 0 .. b.size - 1 |-> b.buf[k] /\ \A i \in first .. last : i % b.size # k]]

SetBase(b, base) == [base |-> base, size |-> b.size, buf |-> b.buf]

-----------------------------------------------------------------------------
\* The bitmap stands for a set of numbers within MaxSize of its base.
Represents(b, S) ==
    /\ b = [base |-> b.base, size |-> b.size, buf |-> b.buf]
    /\ b.base \in Nat /\ b.size \in Lengths \cup {0}
    /\ b.buf \in [0 .. b.size - 1 -> BOOLEAN]
    /\ S \subseteq b.base .. b.base + b.size - 1
    /\ \A i \in b.base .. b.base + b.size - 1 : b.buf[i % b.size] <=> i \in S
=============================================================================
