----------------------------- MODULE DequeSpec -----------------------------
(***************************************************************************)
(* What base/collections promises of a Deque: a sequence of at most MaxInt *)
(* elements with operations at both ends.  result is the last operation    *)
(* with what it returned; an operation whose documented pre-condition does *)
(* not hold panics and changes nothing.                                    *)
(***************************************************************************)
EXTENDS Integers, Sequences

CONSTANTS Elems, None, Done, Panic, MaxInt

VARIABLES items, result

Init == items = <<>> /\ result = <<"NewDeque", Done>>

Answer(op, value) == result' = <<op, value>>

Refuse(op) == Answer(op, Panic) /\ UNCHANGED items

PushFront(v) ==
    \/ Len(items) < MaxInt /\ items' = <<v>> \o items /\ Answer("PushFront", Done)
    \/ Len(items) = MaxInt /\ Refuse("PushFront")

PushBack(v) ==
    \/ Len(items) < MaxInt /\ items' = Append(items, v) /\ Answer("PushBack", Done)
    \/ Len(items) = MaxInt /\ Refuse("PushBack")

PopFront ==
    \/ items # <<>> /\ items' = Tail(items) /\ Answer("PopFront", Head(items))
    \/ items = <<>> /\ Refuse("PopFront")

TryPopFront ==
    \/ items # <<>> /\ items' = Tail(items) /\ Answer("TryPopFront", Head(items))
    \/ items = <<>> /\ Answer("TryPopFront", None) /\ UNCHANGED items

PopBack ==
    \/ /\ items # <<>>
       /\ items' = SubSeq(items, 1, Len(items) - 1)
       /\ Answer("PopBack", items[Len(items)])
    \/ items = <<>> /\ Refuse("PopBack")

ReserveMore(n) ==
    \/ n >= 0 /\ n <= MaxInt - Len(items) /\ Answer("ReserveMore", Done) /\ UNCHANGED items
    \/ (n < 0 \/ n > MaxInt - Len(items)) /\ Refuse("ReserveMore")

Iter == Answer("Iter", items) /\ UNCHANGED items

Next ==
    \/ \E v \in Elems : PushFront(v) \/ PushBack(v)
    \/ PopFront \/ TryPopFront \/ PopBack \/ Iter
    \/ \E n \in -1 .. MaxInt : ReserveMore(n)

Spec == Init /\ [][Next]_<<items, result>>
=============================================================================
