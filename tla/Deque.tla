------------------------------- MODULE Deque -------------------------------
(***************************************************************************)
(* base/collections.Deque: a growable ring buffer.  values is the backing  *)
(* slice, whose length is its capacity cap, indexed from 0 as in the code; *)
(* len elements lie in it from head on, wrapping around at its end.        *)
(* Integers are those of a machine whose largest int is MaxInt.            *)
(***************************************************************************)
EXTENDS Integers, Sequences

CONSTANTS
    Elems, Zero,         \* the elements pushed and the zero value of their type
    None, Done, Panic,   \* option.None, a return without value, a failed precondition
    MaxInt               \* math.MaxInt

ASSUME MaxIntAssumption == MaxInt \in Nat /\ MaxInt >= 4

VARIABLES values, cap, head, len, result

ring == <<values, cap, head, len>>
vars == <<values, cap, head, len, result>>

Init ==
    /\ values = [j \in 0 .. -1 |-> Zero]
    /\ cap = 0
    /\ head = 0
    /\ len = 0
    /\ result = <<"NewDeque", Done>>

Larger(a, b) == IF a >= b THEN a ELSE b
Smaller(a, b) == IF a <= b THEN a ELSE b

\* The index of a logical offset in a ring of capacity c whose head is h.
PhysicalIndex(c, h, offset) == IF offset < c - h THEN h + offset ELSE offset - (c - h)

\* Fault: wrap-around is ignored.
SplitFromTheStart == <<[i \in 1 .. len |-> values[i - 1]], <<>>>>

\* The contents as two contiguous parts in logical order.
SplitContiguous ==
    LET firstLen == Smaller(len, cap - head)
    IN  <<[i \in 1 .. firstLen |-> values[head + i - 1]],
          [i \in 1 .. (len - firstLen) |-> values[i - 1]]>>

DequeCapacityFor(wantCap, oldCap) ==
    IF oldCap <= MaxInt \div 2
    THEN Larger(Larger(wantCap, 4), 2 * oldCap)
    ELSE Larger(wantCap, 4)

\* The backing slice, its capacity and the head that reserveCapacity leaves.
ReserveCapacity(wantCap) ==
    LET newCap == DequeCapacityFor(wantCap, cap)
        parts == SplitContiguous
        first == Len(parts[1])
    IN  IF wantCap <= cap THEN [values |-> values, cap |-> cap, head |-> head]
        ELSE [values |-> [j \in 0 .. (newCap - 1) |->
                            IF j < first THEN parts[1][j + 1]
                            ELSE IF j < len THEN parts[2][j - first + 1]
                            ELSE Zero],
              cap |-> newCap, head |-> 0]

\* The same after the check with which both pushes begin.
Room == IF len = cap THEN ReserveCapacity(len + 1)
        ELSE [values |-> values, cap |-> cap, head |-> head]

Answer(op, value) == result' = <<op, value>>

Refuse(op) == Answer(op, Panic) /\ UNCHANGED ring

(***************************************************************************)
(* Operations.                                                             *)
(***************************************************************************)
PushFront(v) ==
    LET b == Room
        h == IF b.head - 1 < 0 THEN b.cap - 1 ELSE b.head - 1
    IN  /\ len < MaxInt
        /\ values' = [b.values EXCEPT ![h] = v]
        /\ cap' = b.cap
        /\ head' = h
        /\ len' = len + 1
        /\ Answer("PushFront", Done)

PushBack(v) ==
    LET b == Room
    IN  /\ len < MaxInt
        /\ values' = [b.values EXCEPT ![PhysicalIndex(b.cap, b.head, len)] = v]
        /\ cap' = b.cap
        /\ head' = b.head
        /\ len' = len + 1
        /\ Answer("PushBack", Done)

\* Fault: the slot is not zeroed.
DropFrontWithoutClearing ==
    /\ len' = len - 1
    /\ head' = IF len = 1 \/ head + 1 = cap THEN 0 ELSE head + 1
    /\ UNCHANGED <<values, cap>>

\* Fault: the head is not wrapped around.
DropFrontPastTheEnd ==
    /\ values' = [values EXCEPT ![head] = Zero]
    /\ len' = len - 1
    /\ head' = IF len = 1 THEN 0 ELSE head + 1
    /\ UNCHANGED cap

\* The ring without its front element.
DropFront ==
    /\ values' = [values EXCEPT ![head] = Zero]
    /\ len' = len - 1
    /\ head' = IF len = 1 \/ head + 1 = cap THEN 0 ELSE head + 1
    /\ UNCHANGED cap

PopFront == len > 0 /\ DropFront /\ Answer("PopFront", values[head])

TryPopFront ==
    \/ len > 0 /\ DropFront /\ Answer("TryPopFront", values[head])
    \/ len = 0 /\ Answer("TryPopFront", None) /\ UNCHANGED ring

PopBack ==
    LET idx == PhysicalIndex(cap, head, len - 1)
    IN  /\ len > 0
        /\ values' = [values EXCEPT ![idx] = Zero]
        /\ len' = len - 1
        /\ head' = IF len = 1 THEN 0 ELSE head
        /\ UNCHANGED cap
        /\ Answer("PopBack", values[idx])

ReserveMore(n) ==
    LET b == ReserveCapacity(len + n)
    IN  /\ n >= 0 /\ n <= MaxInt - len
        /\ values' = b.values
        /\ cap' = b.cap
        /\ head' = b.head
        /\ UNCHANGED len
        /\ Answer("ReserveMore", Done)

\* A complete loop over Iter() whose body leaves the deque alone.
Iter ==
    /\ Answer("Iter", SplitContiguous[1] \o SplitContiguous[2])
    /\ UNCHANGED ring

\* The assertions at the beginning of the operations, before any change.
FailedPrecondition ==
    \/ len = MaxInt /\ \E v \in Elems : Refuse("PushFront") \/ Refuse("PushBack")
    \/ len = 0 /\ (Refuse("PopFront") \/ Refuse("PopBack"))
    \/ \E n \in -1 .. MaxInt : (n < 0 \/ n > MaxInt - len) /\ Refuse("ReserveMore")

Next ==
    \/ \E v \in Elems : PushFront(v) \/ PushBack(v)
    \/ PopFront \/ TryPopFront \/ PopBack \/ Iter
    \/ \E n \in 0 .. MaxInt : ReserveMore(n)
    \/ FailedPrecondition

Spec == Init /\ [][Next]_vars

(***************************************************************************)
(* Properties.                                                             *)
(***************************************************************************)
\* The comments on the fields of Deque: head lies in the backing slice and len
\* does not exceed its capacity, which an int can hold.
TypeOK ==
    /\ cap \in 0 .. MaxInt
    /\ values \in [0 .. (cap - 1) -> Elems \cup {Zero}]
    /\ head \in Int /\ (IF cap = 0 THEN head = 0 ELSE 0 <= head /\ head < cap)
    /\ len \in 0 .. cap

\* The index of every element of the deque.
Occupied == {PhysicalIndex(cap, head, i) : i \in 0 .. (len - 1)}

\* PopFront and PopBack "eagerly drop reference for GC" and growing leaves
\* nothing behind: a slot that holds no element of the deque holds the zero
\* value, so that no removed element stays reachable through the ring.
NothingRetained == \A j \in 0 .. (cap - 1) : j \notin Occupied => values[j] = Zero

Contents == [i \in 1 .. len |-> values[PhysicalIndex(cap, head, i - 1)]]

Abstract == INSTANCE DequeSpec WITH items <- Contents

\* The ring buffer does what a sequence does, over wrap-around and growth.
ImplementsSequence == Abstract!Spec
=============================================================================
