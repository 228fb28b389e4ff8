---------------------------- MODULE DequeProofs ----------------------------
(***************************************************************************)
(* The ring buffer is well formed, retains no removed element, and         *)
(* implements a sequence, for every element type and every largest int.    *)
(***************************************************************************)
EXTENDS Deque, SequenceTheorems, TLAPS

Slot == Elems \cup {Zero}

\* A backing slice vs of capacity c with head h.
Backing(vs, c, h) ==
    /\ c \in 0 .. MaxInt
    /\ vs \in [0 .. (c - 1) -> Slot]
    /\ h \in Int /\ (IF c = 0 THEN h = 0 ELSE 0 <= h /\ h < c)

\* The same elements as in the present ring, at the same offsets.
SameElements(vs, c, h) ==
    \A i \in 0 .. (len - 1) : vs[PhysicalIndex(c, h, i)] = values[PhysicalIndex(cap, head, i)]

\* Nothing but the n elements from h on.
NothingElse(vs, c, h, n) ==
    \A j \in 0 .. (c - 1) :
        (\A i \in 0 .. (n - 1) : j # PhysicalIndex(c, h, i)) => vs[j] = Zero

(***************************************************************************)
(* Arithmetic of the ring.                                                 *)
(***************************************************************************)
\* physicalIndex stays in the backing slice and never gives two offsets below
\* the capacity the same index.
LEMMA IndexInRange ==
    ASSUME NEW c \in Nat, NEW h \in 0 .. (c - 1), NEW i \in 0 .. (c - 1)
    PROVE  /\ PhysicalIndex(c, h, i) \in 0 .. (c - 1)
           /\ \A k \in 0 .. (c - 1) : PhysicalIndex(c, h, i) = PhysicalIndex(c, h, k) => i = k
BY DEF PhysicalIndex

\* PushFront's head-- with its wrap-around moves every element one offset up.
LEMMA HeadBack ==
    ASSUME NEW c \in Nat, NEW h \in 0 .. (c - 1),
           NEW g \in Int, g = IF h - 1 < 0 THEN c - 1 ELSE h - 1
    PROVE  /\ g \in 0 .. (c - 1)
           /\ PhysicalIndex(c, g, 0) = g
           /\ \A i \in 1 .. (c - 1) : PhysicalIndex(c, g, i) = PhysicalIndex(c, h, i - 1)
BY DEF PhysicalIndex

\* PopFront's head++ with its wrap-around moves every element one offset down.
LEMMA HeadForward ==
    ASSUME NEW c \in Nat, NEW h \in 0 .. (c - 1),
           NEW g \in Int, g = IF h + 1 = c THEN 0 ELSE h + 1
    PROVE  /\ g \in 0 .. (c - 1)
           /\ PhysicalIndex(c, h, 0) = h
           /\ \A i \in 0 .. (c - 2) : PhysicalIndex(c, g, i) = PhysicalIndex(c, h, i + 1)
BY DEF PhysicalIndex

\* dequeCapacityFor gives at least what is asked for and does not overflow.
LEMMA CapacityInRange ==
    ASSUME NEW w \in 1 .. MaxInt, NEW o \in 0 .. MaxInt, o < w
    PROVE  DequeCapacityFor(w, o) \in w .. MaxInt
<1>1. CASE o <= MaxInt \div 2
  <2>1. 2 * o <= MaxInt
    BY <1>1, MaxIntAssumption
  <2> QED
    BY <1>1, <2>1, MaxIntAssumption DEF DequeCapacityFor, Larger
<1>2. CASE ~(o <= MaxInt \div 2)
  BY <1>2, MaxIntAssumption DEF DequeCapacityFor, Larger
<1> QED
  BY <1>1, <1>2

(***************************************************************************)
(* Growing.                                                                *)
(***************************************************************************)
\* A function on 1 .. n is a sequence of length n.
LEMMA FunctionIsSeq ==
    ASSUME NEW S, NEW n \in Nat, NEW f \in [1 .. n -> S]
    PROVE  f \in Seq(S) /\ Len(f) = n
<1>1. f \in Seq(S)
  BY SeqDef
<1>2. DOMAIN f = 1 .. n
  OBVIOUS
<1> QED
  BY <1>1, <1>2

\* The two parts of splitContiguous hold the elements in logical order.
LEMMA SplitInOrder ==
    ASSUME TypeOK
    PROVE  /\ SplitContiguous[1] \in Seq(Slot) /\ SplitContiguous[2] \in Seq(Slot)
           /\ Len(SplitContiguous[1]) + Len(SplitContiguous[2]) = len
           /\ \A i \in 0 .. (len - 1) :
                 values[PhysicalIndex(cap, head, i)] =
                    IF i < Len(SplitContiguous[1]) THEN SplitContiguous[1][i + 1]
                    ELSE SplitContiguous[2][i - Len(SplitContiguous[1]) + 1]
<1> DEFINE f == Smaller(len, cap - head)
           first == [i \in 1 .. f |-> values[head + i - 1]]
           second == [i \in 1 .. (len - f) |-> values[i - 1]]
<1>1. f \in Nat /\ len - f \in Nat /\ f <= cap - head /\ f <= len /\ len - f <= head
      /\ (f < len => f = cap - head)
  BY MaxIntAssumption DEF TypeOK, Smaller
<1>2. head \in Nat /\ cap \in Nat /\ len \in Nat /\ len <= cap /\ head <= cap
  BY MaxIntAssumption DEF TypeOK
<1>3. \A j \in 0 .. (cap - 1) : values[j] \in Slot
  BY DEF TypeOK, Slot
<1> HIDE DEF f
<1>4. first \in [1 .. f -> Slot]
  BY <1>1, <1>2, <1>3
<1>5. second \in [1 .. (len - f) -> Slot]
  BY <1>1, <1>2, <1>3
<1>6. first \in Seq(Slot) /\ Len(first) = f
  BY <1>1, <1>4, FunctionIsSeq
<1>7. second \in Seq(Slot) /\ Len(second) = len - f
  BY <1>1, <1>5, FunctionIsSeq
<1>8. SplitContiguous[1] = first /\ SplitContiguous[2] = second
  BY DEF SplitContiguous, f
<1>9. ASSUME NEW i \in 0 .. (len - 1)
      PROVE  values[PhysicalIndex(cap, head, i)] =
                IF i < f THEN first[i + 1] ELSE second[i - f + 1]
  <2>1. CASE i < f
    BY <2>1, <1>1, <1>2 DEF PhysicalIndex
  <2>2. CASE ~(i < f)
    BY <2>2, <1>1, <1>2 DEF PhysicalIndex
  <2> QED
    BY <2>1, <2>2
<1> HIDE DEF first, second
<1>10. Len(SplitContiguous[1]) = f /\ Len(SplitContiguous[2]) = len - f
  BY <1>6, <1>7, <1>8
<1>11. f + (len - f) = len
  BY <1>1, <1>2
<1>12. SplitContiguous[1] \in Seq(Slot) /\ SplitContiguous[2] \in Seq(Slot)
  BY <1>6, <1>7, <1>8
<1>13. \A i \in 0 .. (len - 1) :
          values[PhysicalIndex(cap, head, i)] =
             IF i < Len(SplitContiguous[1]) THEN SplitContiguous[1][i + 1]
             ELSE SplitContiguous[2][i - Len(SplitContiguous[1]) + 1]
  BY <1>8, <1>9, <1>10, Zenon
<1> QED
  BY <1>10, <1>11, <1>12, <1>13, Zenon

\* reserveCapacity leaves a well-formed ring of at least the wanted capacity
\* with the same elements and nothing else in it.
LEMMA ReservePreserves ==
    ASSUME TypeOK, NEW w \in Int, w >= len, w <= MaxInt
    PROVE  LET b == ReserveCapacity(w)
           IN  /\ Backing(b.values, b.cap, b.head)
               /\ b.cap >= w /\ b.cap >= cap
               /\ SameElements(b.values, b.cap, b.head)
               /\ NothingElse(values, cap, head, len) => NothingElse(b.values, b.cap, b.head, len)
<1> DEFINE b == ReserveCapacity(w)
           newCap == DequeCapacityFor(w, cap)
           p1 == SplitContiguous[1]
           p2 == SplitContiguous[2]
           moved == [j \in 0 .. (newCap - 1) |->
                        IF j < Len(p1) THEN p1[j + 1]
                        ELSE IF j < len THEN p2[j - Len(p1) + 1]
                        ELSE Zero]
<1>1. CASE w <= cap
  <2>1. b.values = values /\ b.cap = cap /\ b.head = head
    BY <1>1 DEF ReserveCapacity
  <2>2. Backing(values, cap, head) /\ cap >= w /\ cap >= cap /\ SameElements(values, cap, head)
    BY <1>1 DEF Backing, TypeOK, SameElements, Slot
  <2> QED
    BY <2>1, <2>2, Zenon
<1>2. CASE ~(w <= cap)
  <2>1. newCap \in w .. MaxInt /\ newCap > cap /\ newCap > 0
    <3>1. w \in 1 .. MaxInt /\ cap \in 0 .. MaxInt /\ cap < w
      BY <1>2, MaxIntAssumption DEF TypeOK
    <3>2. newCap \in w .. MaxInt
      BY <3>1, CapacityInRange
    <3> QED
      BY <3>1, <3>2, MaxIntAssumption
  <2>2. b.values = moved /\ b.cap = newCap /\ b.head = 0
    BY <1>2 DEF ReserveCapacity
  <2>3. /\ p1 \in Seq(Slot) /\ p2 \in Seq(Slot)
        /\ Len(p1) + Len(p2) = len
        /\ \A i \in 0 .. (len - 1) : values[PhysicalIndex(cap, head, i)] =
              IF i < Len(p1) THEN p1[i + 1] ELSE p2[i - Len(p1) + 1]
    BY SplitInOrder, Zenon
  <2> HIDE DEF newCap, p1, p2, b
  <2>4. Len(p1) \in Nat /\ Len(p2) \in Nat /\ len \in Nat /\ len <= newCap /\ newCap \in Nat
    BY <2>1, <2>3, MaxIntAssumption DEF TypeOK
  <2>5. \A i \in 0 .. (newCap - 1) : PhysicalIndex(newCap, 0, i) = i
    BY <2>4 DEF PhysicalIndex
  <2>6. /\ \A i \in 1 .. Len(p1) : p1[i] \in Slot
        /\ \A i \in 1 .. Len(p2) : p2[i] \in Slot
    BY <2>3, ElementOfSeq
  <2>7. ASSUME NEW j \in 0 .. (newCap - 1)
        PROVE  moved[j] \in Slot
    <3>1. CASE j < Len(p1)
      <4>1. j + 1 \in 1 .. Len(p1)
        BY <3>1, <2>4
      <4> QED
        BY <3>1, <4>1, <2>6
    <3>2. CASE ~(j < Len(p1)) /\ j < len
      <4>1. j - Len(p1) + 1 \in 1 .. Len(p2)
        BY <3>2, <2>3, <2>4
      <4> QED
        BY <3>2, <4>1, <2>6
    <3>3. CASE ~(j < Len(p1)) /\ ~(j < len)
      BY <3>3 DEF Slot
    <3> QED
      BY <3>1, <3>2, <3>3
  <2>8. moved \in [0 .. (newCap - 1) -> Slot]
    BY <2>7
  <2>9. \A i \in 0 .. (len - 1) : moved[i] = values[PhysicalIndex(cap, head, i)]
    BY <2>3, <2>4
  <2>10. \A j \in 0 .. (newCap - 1) : j >= len => moved[j] = Zero
    BY <2>3, <2>4
  <2> HIDE DEF moved
  <2>11. Backing(moved, newCap, 0)
    BY <2>1, <2>4, <2>8 DEF Backing
  <2>12. SameElements(moved, newCap, 0)
    BY <2>4, <2>5, <2>9 DEF SameElements
  <2>13. NothingElse(moved, newCap, 0, len)
    BY <2>4, <2>5, <2>10 DEF NothingElse
  <2>14. newCap >= w /\ newCap >= cap
    BY <2>1 DEF TypeOK
  <2> QED
    BY <2>2, <2>11, <2>12, <2>13, <2>14, Zenon DEF b
<1> QED
  BY <1>1, <1>2

\* After the check with which both pushes begin there is room for one more.
LEMMA RoomForOne ==
    ASSUME TypeOK, len < MaxInt
    PROVE  /\ Backing(Room.values, Room.cap, Room.head)
           /\ Room.cap > len
           /\ SameElements(Room.values, Room.cap, Room.head)
           /\ NothingElse(values, cap, head, len) =>
                 NothingElse(Room.values, Room.cap, Room.head, len)
<1>1. CASE len = cap
  <2>1. len + 1 \in Int /\ len + 1 >= len /\ len + 1 <= MaxInt
    BY MaxIntAssumption DEF TypeOK
  <2>2. Room = ReserveCapacity(len + 1)
    BY <1>1 DEF Room
  <2>3. Room.cap >= len + 1 => Room.cap > len \/ Room.cap \notin Int
    BY DEF TypeOK
  <2>4. Backing(Room.values, Room.cap, Room.head) => Room.cap \in Int
    BY DEF Backing
  <2> QED
    BY <2>1, <2>2, <2>3, <2>4, ReservePreserves, Zenon
<1>2. CASE len # cap
  <2>1. Room.values = values /\ Room.cap = cap /\ Room.head = head
    BY <1>2 DEF Room
  <2>2. Backing(values, cap, head) /\ cap > len /\ SameElements(values, cap, head)
    BY <1>2 DEF Backing, TypeOK, SameElements, Slot
  <2> QED
    BY <2>1, <2>2, Zenon
<1> QED
  BY <1>1, <1>2

(***************************************************************************)
(* What each operation does to the ring, offset by offset.                 *)
(***************************************************************************)
WellFormed == TypeOK /\ NothingElse(values, cap, head, len)

\* The element at offset i, before and after a step.
At(i) == values[PhysicalIndex(cap, head, i)]

\* PushFront: the new element at the front, the others one offset up.
LEMMA PushFrontShifts ==
    ASSUME WellFormed, NEW v \in Elems, PushFront(v)
    PROVE  /\ WellFormed'
           /\ len' = len + 1
           /\ At(0)' = v
           /\ \A i \in 1 .. len : At(i)' = At(i - 1)
<1> DEFINE vs == Room.values
           c == Room.cap
           h == Room.head
           g == IF h - 1 < 0 THEN c - 1 ELSE h - 1
<1>1. /\ Backing(vs, c, h) /\ c > len
      /\ SameElements(vs, c, h) /\ NothingElse(vs, c, h, len)
  BY RoomForOne DEF WellFormed, PushFront
<1>2. values' = [vs EXCEPT ![g] = v] /\ cap' = c /\ head' = g /\ len' = len + 1
  BY DEF PushFront
<1> HIDE DEF vs, c, h
<1>3. c \in Nat /\ c <= MaxInt /\ h \in 0 .. (c - 1) /\ len \in Nat /\ len < c /\ MaxInt \in Nat
  BY <1>1, MaxIntAssumption DEF Backing, WellFormed, TypeOK
<1>4. g \in Int
  BY <1>3
<1>5. /\ g \in 0 .. (c - 1) /\ PhysicalIndex(c, g, 0) = g
      /\ \A i \in 1 .. (c - 1) : PhysicalIndex(c, g, i) = PhysicalIndex(c, h, i - 1)
  BY <1>3, <1>4, HeadBack
<1> HIDE DEF g
<1>6. \A i \in 0 .. (c - 1) : PhysicalIndex(c, g, i) \in 0 .. (c - 1)
  BY <1>3, <1>5, IndexInRange, Zenon
<1>7. \A i \in 1 .. (c - 1) : PhysicalIndex(c, g, i) # g
  BY <1>3, <1>5, IndexInRange
<1>8. vs \in [0 .. (c - 1) -> Slot]
  BY <1>1 DEF Backing
<1>9. values' \in [0 .. (c - 1) -> Slot] /\ values'[g] = v
      /\ \A j \in 0 .. (c - 1) : j # g => values'[j] = vs[j]
  BY <1>2, <1>5, <1>8 DEF Slot
<1>10. TypeOK'
  BY <1>2, <1>3, <1>5, <1>9 DEF TypeOK, Slot
<1>11. At(0)' = v
  BY <1>2, <1>5, <1>9 DEF At
<1>12. ASSUME NEW i \in 1 .. len
       PROVE  At(i)' = At(i - 1)
  <2>1. i \in 1 .. (c - 1) /\ i - 1 \in 0 .. (len - 1) /\ i \in 0 .. (c - 1)
    BY <1>3
  <2>2. At(i)' = vs[PhysicalIndex(c, g, i)]
    BY <2>1, <1>2, <1>6, <1>7, <1>9 DEF At
  <2>3. PhysicalIndex(c, g, i) = PhysicalIndex(c, h, i - 1)
    BY <2>1, <1>5
  <2>4. vs[PhysicalIndex(c, h, i - 1)] = values[PhysicalIndex(cap, head, i - 1)]
    BY <2>1, <1>1 DEF SameElements
  <2> QED
    BY <2>2, <2>3, <2>4 DEF At
<1>13. ASSUME NEW j \in 0 .. (c - 1),
              \A i \in 0 .. len : j # PhysicalIndex(c, g, i)
       PROVE  values'[j] = Zero
  <2>1. j # g
    BY <1>3, <1>5, <1>13
  <2>2. \A i \in 0 .. (len - 1) : j # PhysicalIndex(c, h, i)
    <3> TAKE i \in 0 .. (len - 1)
    <3>1. i + 1 \in 1 .. (c - 1) /\ i + 1 \in 0 .. len /\ (i + 1) - 1 = i
      BY <1>3
    <3>2. PhysicalIndex(c, g, i + 1) = PhysicalIndex(c, h, i)
      BY <3>1, <1>5
    <3> QED
      BY <3>1, <3>2, <1>13
  <2> QED
    BY <2>1, <2>2, <1>1, <1>9 DEF NothingElse
<1>14. NothingElse(values, cap, head, len)'
  <2>1. len' - 1 = len
    BY <1>2, <1>3
  <2> QED
    BY <2>1, <1>2, <1>13 DEF NothingElse
<1> QED
  BY <1>2, <1>10, <1>11, <1>12, <1>14 DEF WellFormed

\* PushBack: the new element after the others, which keep their offsets.
LEMMA PushBackShifts ==
    ASSUME WellFormed, NEW v \in Elems, PushBack(v)
    PROVE  /\ WellFormed'
           /\ len' = len + 1
           /\ values'[PhysicalIndex(cap', head', len)] = v
           /\ \A i \in 0 .. (len - 1) : At(i)' = At(i)
<1> DEFINE vs == Room.values
           c == Room.cap
           h == Room.head
           g == PhysicalIndex(c, h, len)
<1>1. /\ Backing(vs, c, h) /\ c > len
      /\ SameElements(vs, c, h) /\ NothingElse(vs, c, h, len)
  BY RoomForOne DEF WellFormed, PushBack
<1>2. values' = [vs EXCEPT ![g] = v] /\ cap' = c /\ head' = h /\ len' = len + 1
  BY DEF PushBack
<1> HIDE DEF vs, c, h
<1>3. c \in Nat /\ c <= MaxInt /\ h \in 0 .. (c - 1) /\ len \in 0 .. (c - 1) /\ MaxInt \in Nat
  BY <1>1, MaxIntAssumption DEF Backing, WellFormed, TypeOK
<1>4. \A i \in 0 .. (c - 1) : PhysicalIndex(c, h, i) \in 0 .. (c - 1)
  BY <1>3, IndexInRange
<1>5. \A i \in 0 .. (len - 1) : PhysicalIndex(c, h, i) # g
  BY <1>3, IndexInRange
<1>6. g \in 0 .. (c - 1)
  BY <1>3, <1>4
<1> HIDE DEF g
<1>7. vs \in [0 .. (c - 1) -> Slot]
  BY <1>1 DEF Backing
<1>8. values' \in [0 .. (c - 1) -> Slot] /\ values'[g] = v
      /\ \A j \in 0 .. (c - 1) : j # g => values'[j] = vs[j]
  BY <1>2, <1>6, <1>7 DEF Slot
<1>9. TypeOK'
  BY <1>2, <1>3, <1>8 DEF TypeOK, Slot
<1>10. ASSUME NEW i \in 0 .. (len - 1)
       PROVE  At(i)' = At(i)
  <2>1. i \in 0 .. (c - 1)
    BY <1>3
  <2>2. At(i)' = vs[PhysicalIndex(c, h, i)]
    BY <2>1, <1>2, <1>4, <1>5, <1>8 DEF At
  <2> QED
    BY <2>2, <1>1 DEF SameElements, At
<1>11. ASSUME NEW j \in 0 .. (c - 1),
              \A i \in 0 .. len : j # PhysicalIndex(c, h, i)
       PROVE  values'[j] = Zero
  <2>1. j # g
    BY <1>3, <1>11 DEF g
  <2>2. \A i \in 0 .. (len - 1) : j # PhysicalIndex(c, h, i)
    BY <1>3, <1>11
  <2> QED
    BY <2>1, <2>2, <1>1, <1>8 DEF NothingElse
<1>12. NothingElse(values, cap, head, len)'
  <2>1. len' - 1 = len
    BY <1>2, <1>3
  <2> QED
    BY <2>1, <1>2, <1>11 DEF NothingElse
<1>13. values'[PhysicalIndex(cap', head', len)] = v
  BY <1>2, <1>8 DEF g
<1> QED
  BY <1>2, <1>9, <1>10, <1>12, <1>13 DEF WellFormed

\* PopFront and TryPopFront: the front element goes, the others move down.
LEMMA DropFrontShifts ==
    ASSUME WellFormed, len > 0, DropFront
    PROVE  /\ WellFormed'
           /\ len' = len - 1
           /\ At(0) = values[head]
           /\ \A i \in 0 .. (len - 2) : At(i)' = At(i + 1)
<1> DEFINE g == IF head + 1 = cap THEN 0 ELSE head + 1
<1>1. /\ cap \in Nat /\ cap <= MaxInt /\ MaxInt \in Nat /\ head \in 0 .. (cap - 1)
      /\ len \in 1 .. cap
  BY MaxIntAssumption DEF WellFormed, TypeOK
<1>2. /\ values \in [0 .. (cap - 1) -> Slot]
      /\ values' = [values EXCEPT ![head] = Zero] /\ cap' = cap /\ len' = len - 1
      /\ head' = IF len = 1 THEN 0 ELSE g
  BY DEF WellFormed, TypeOK, DropFront, Slot
<1>3. values' \in [0 .. (cap - 1) -> Slot] /\ values'[head] = Zero
      /\ \A j \in 0 .. (cap - 1) : j # head => values'[j] = values[j]
  BY <1>1, <1>2 DEF Slot
<1>4. g \in Int
  BY <1>1
<1>5. /\ g \in 0 .. (cap - 1) /\ PhysicalIndex(cap, head, 0) = head
      /\ \A i \in 0 .. (cap - 2) : PhysicalIndex(cap, g, i) = PhysicalIndex(cap, head, i + 1)
  BY <1>1, <1>4, HeadForward
<1> HIDE DEF g
<1>6. TypeOK'
  BY <1>1, <1>2, <1>3, <1>5 DEF TypeOK, Slot
<1>7. \A i \in 1 .. (cap - 1) : /\ PhysicalIndex(cap, head, i) # head
                                /\ PhysicalIndex(cap, head, i) \in 0 .. (cap - 1)
  <2> TAKE i \in 1 .. (cap - 1)
  <2>1. i \in 0 .. (cap - 1) /\ 0 \in 0 .. (cap - 1) /\ i # 0
    BY <1>1
  <2>2. PhysicalIndex(cap, head, i) \in 0 .. (cap - 1)
    BY <2>1, <1>1, IndexInRange
  <2>3. PhysicalIndex(cap, head, i) = PhysicalIndex(cap, head, 0) => i = 0
    BY <2>1, <1>1, IndexInRange
  <2> QED
    BY <2>1, <2>2, <2>3, <1>5
<1>8. ASSUME NEW i \in 0 .. (len - 2)
      PROVE  At(i)' = At(i + 1)
  <2>1. i \in 0 .. (cap - 2) /\ i + 1 \in 1 .. (cap - 1) /\ len # 1
    BY <1>1
  <2>2. At(i)' = values'[PhysicalIndex(cap, head, i + 1)]
    BY <2>1, <1>2, <1>5 DEF At
  <2> QED
    BY <2>1, <2>2, <1>3, <1>7 DEF At
<1>9. ASSUME NEW j \in 0 .. (cap - 1),
             \A i \in 0 .. (len - 2) : j # PhysicalIndex(cap, head', i)
      PROVE  values'[j] = Zero
  <2>1. CASE j = head
    BY <2>1, <1>3
  <2>2. CASE j # head
    <3>1. ASSUME NEW i \in 0 .. (len - 1)
          PROVE  j # PhysicalIndex(cap, head, i)
      <4>1. CASE i = 0
        BY <4>1, <2>2, <1>5
      <4>2. CASE i # 0
        <5>1. i - 1 \in 0 .. (len - 2) /\ i - 1 \in 0 .. (cap - 2) /\ (i - 1) + 1 = i /\ len # 1
          BY <4>2, <1>1
        <5>2. j # PhysicalIndex(cap, g, i - 1)
          BY <5>1, <1>2, <1>9
        <5> QED
          BY <5>1, <5>2, <1>5
      <4> QED
        BY <4>1, <4>2
    <3> QED
      BY <3>1, <2>2, <1>3 DEF WellFormed, NothingElse
  <2> QED
    BY <2>1, <2>2
<1>10. NothingElse(values, cap, head, len)'
  <2>1. len' - 1 = len - 2
    BY <1>1, <1>2
  <2> QED
    BY <2>1, <1>2, <1>9 DEF NothingElse
<1>11. At(0) = values[head]
  BY <1>5 DEF At
<1> QED
  BY <1>2, <1>6, <1>8, <1>10, <1>11 DEF WellFormed

\* PopBack: the last element goes, the others keep their offsets.
LEMMA PopBackShifts ==
    ASSUME WellFormed, PopBack
    PROVE  /\ WellFormed'
           /\ len' = len - 1
           /\ \A i \in 0 .. (len - 2) : At(i)' = At(i)
<1> DEFINE g == PhysicalIndex(cap, head, len - 1)
<1>1. /\ cap \in Nat /\ cap <= MaxInt /\ MaxInt \in Nat /\ head \in 0 .. (cap - 1)
      /\ len \in 1 .. cap
  BY MaxIntAssumption DEF WellFormed, TypeOK, PopBack
<1>2. /\ values \in [0 .. (cap - 1) -> Slot]
      /\ values' = [values EXCEPT ![g] = Zero] /\ cap' = cap /\ len' = len - 1
      /\ head' = IF len = 1 THEN 0 ELSE head
  BY DEF WellFormed, TypeOK, PopBack, Slot
<1>3. len - 1 \in 0 .. (cap - 1)
  BY <1>1
<1>4. g \in 0 .. (cap - 1)
  BY <1>1, <1>3, IndexInRange
<1>5. \A i \in 0 .. (len - 2) : /\ PhysicalIndex(cap, head, i) # g
                                /\ PhysicalIndex(cap, head, i) \in 0 .. (cap - 1)
  <2> TAKE i \in 0 .. (len - 2)
  <2>1. i \in 0 .. (cap - 1) /\ i # len - 1
    BY <1>1
  <2> QED
    BY <2>1, <1>1, <1>3, IndexInRange
<1>6. values' \in [0 .. (cap - 1) -> Slot] /\ values'[g] = Zero
      /\ \A j \in 0 .. (cap - 1) : j # g => values'[j] = values[j]
  BY <1>2, <1>4 DEF Slot
<1>7. TypeOK'
  BY <1>1, <1>2, <1>6 DEF TypeOK, Slot
<1>8. ASSUME NEW i \in 0 .. (len - 2)
      PROVE  At(i)' = At(i)
  <2>1. len # 1
    BY <1>1
  <2> QED
    BY <2>1, <1>2, <1>5, <1>6 DEF At
<1>9. ASSUME NEW j \in 0 .. (cap - 1),
             \A i \in 0 .. (len - 2) : j # PhysicalIndex(cap, head', i)
      PROVE  values'[j] = Zero
  <2>1. CASE j = g
    BY <2>1, <1>6
  <2>2. CASE j # g
    <3>1. ASSUME NEW i \in 0 .. (len - 1)
          PROVE  j # PhysicalIndex(cap, head, i)
      <4>1. CASE i = len - 1
        BY <4>1, <2>2
      <4>2. CASE i # len - 1
        <5>1. i \in 0 .. (len - 2) /\ len # 1
          BY <4>2, <1>1
        <5> QED
          BY <5>1, <1>2, <1>9
      <4> QED
        BY <4>1, <4>2
    <3> QED
      BY <3>1, <2>2, <1>6 DEF WellFormed, NothingElse
  <2> QED
    BY <2>1, <2>2
<1>10. NothingElse(values, cap, head, len)'
  <2>1. len' - 1 = len - 2
    BY <1>1, <1>2
  <2> QED
    BY <2>1, <1>2, <1>9 DEF NothingElse
<1> QED
  BY <1>2, <1>7, <1>8, <1>10 DEF WellFormed

\* ReserveMore: the same elements in a larger ring.
LEMMA ReserveKeeps ==
    ASSUME WellFormed, NEW n \in Int, ReserveMore(n)
    PROVE  /\ WellFormed'
           /\ len' = len
           /\ \A i \in 0 .. (len - 1) : At(i)' = At(i)
<1> DEFINE b == ReserveCapacity(len + n)
<1>1. len + n \in Int /\ len + n >= len /\ len + n <= MaxInt /\ len \in Nat /\ cap \in Nat /\ len <= cap
  BY MaxIntAssumption DEF WellFormed, TypeOK, ReserveMore
<1>2. /\ Backing(b.values, b.cap, b.head) /\ b.cap >= cap
      /\ SameElements(b.values, b.cap, b.head) /\ NothingElse(b.values, b.cap, b.head, len)
  BY <1>1, ReservePreserves, Zenon DEF WellFormed
<1>3. values' = b.values /\ cap' = b.cap /\ head' = b.head /\ len' = len
  BY DEF ReserveMore
<1> HIDE DEF b
<1>4. TypeOK'
  BY <1>1, <1>2, <1>3 DEF TypeOK, Backing, Slot
<1>5. NothingElse(values, cap, head, len)'
  BY <1>2, <1>3 DEF NothingElse
<1>6. \A i \in 0 .. (len - 1) : At(i)' = At(i)
  BY <1>2, <1>3 DEF SameElements, At
<1> QED
  BY <1>3, <1>4, <1>5, <1>6 DEF WellFormed

(***************************************************************************)
(* Invariance.                                                             *)
(***************************************************************************)
\* NewDeque's ring is well formed.
LEMMA InitWellFormed == Init => WellFormed
  BY MaxIntAssumption DEF Init, WellFormed, TypeOK, NothingElse

\* Every operation keeps the ring well formed.
LEMMA NextWellFormed == WellFormed /\ [Next]_vars => WellFormed'
<1> SUFFICES ASSUME WellFormed, [Next]_vars PROVE WellFormed'
  OBVIOUS
<1>1. ASSUME UNCHANGED ring PROVE WellFormed'
  BY <1>1 DEF ring, WellFormed, TypeOK, NothingElse
<1>2. ASSUME NEW v \in Elems, PushFront(v) PROVE WellFormed'
  BY <1>2, PushFrontShifts
<1>3. ASSUME NEW v \in Elems, PushBack(v) PROVE WellFormed'
  BY <1>3, PushBackShifts
<1>4. CASE PopFront
  BY <1>4, DropFrontShifts DEF PopFront
<1>5. CASE TryPopFront
  BY <1>1, <1>5, DropFrontShifts DEF TryPopFront
<1>6. CASE PopBack
  BY <1>6, PopBackShifts
<1>7. CASE Iter
  BY <1>1, <1>7 DEF Iter
<1>8. ASSUME NEW n \in 0 .. MaxInt, ReserveMore(n) PROVE WellFormed'
  BY <1>8, ReserveKeeps
<1>9. CASE FailedPrecondition
  BY <1>1, <1>9 DEF FailedPrecondition, Refuse
<1>10. CASE UNCHANGED vars
  BY <1>1, <1>10 DEF vars, ring
<1> QED
  BY <1>2, <1>3, <1>4, <1>5, <1>6, <1>7, <1>8, <1>9, <1>10 DEF Next

\* The ring buffer of Deque is well formed after any sequence of operations.
THEOREM RingWellFormed == Spec => []WellFormed
  BY InitWellFormed, NextWellFormed, PTL DEF Spec

\* The comments on the fields of Deque hold: head and len stay in the backing
\* slice, whose capacity never overflows an int.
THEOREM FieldsInRange == Spec => []TypeOK
<1>1. WellFormed => TypeOK
  BY DEF WellFormed
<1> QED
  BY <1>1, RingWellFormed, PTL

\* PopFront, PopBack and growing leave no removed element in the backing slice.
THEOREM RemovedElementsReleased == Spec => []NothingRetained
<1>1. WellFormed => NothingRetained
  BY DEF WellFormed, NothingElse, NothingRetained, Occupied
<1> QED
  BY <1>1, RingWellFormed, PTL

(***************************************************************************)
(* Refinement.                                                             *)
(***************************************************************************)
ContentsInOrder ==
    /\ Contents \in Seq(Slot) /\ Len(Contents) = len /\ len \in Nat
    /\ \A i \in 1 .. len : Contents[i] = At(i - 1)
    /\ Contents = <<>> <=> len = 0

\* The contents of a well-formed ring are a sequence of length len.
LEMMA ContentsAreASequence == WellFormed => ContentsInOrder
<1> SUFFICES ASSUME WellFormed PROVE ContentsInOrder
  OBVIOUS
<1>1. len \in Nat /\ cap \in Nat /\ len <= cap /\ (len > 0 => head \in 0 .. (cap - 1))
  BY MaxIntAssumption DEF WellFormed, TypeOK
<1>2. ASSUME NEW i \in 1 .. len PROVE At(i - 1) \in Slot
  <2>1. i - 1 \in 0 .. (cap - 1) /\ len > 0
    BY <1>1
  <2>2. PhysicalIndex(cap, head, i - 1) \in 0 .. (cap - 1)
    BY <2>1, <1>1, IndexInRange
  <2> QED
    BY <2>2 DEF WellFormed, TypeOK, At, Slot
<1>3. Contents = [i \in 1 .. len |-> At(i - 1)]
  BY DEF Contents, At
<1>4. Contents \in [1 .. len -> Slot]
  BY <1>2, <1>3
<1>5. Contents \in Seq(Slot) /\ Len(Contents) = len
  BY <1>1, <1>4, FunctionIsSeq
<1>6. \A i \in 1 .. len : Contents[i] = At(i - 1)
  BY <1>3
<1>7. Contents = <<>> <=> len = 0
  BY <1>5, EmptySeq
<1> QED
  BY <1>1, <1>5, <1>6, <1>7 DEF ContentsInOrder

\* Two sequences given offset by offset are equal.
LEMMA SameSequence ==
    ASSUME NEW s \in Seq(Slot), NEW t \in Seq(Slot), NEW n \in Nat,
           Len(s) = n, Len(t) = n, \A i \in 1 .. n : s[i] = t[i]
    PROVE  s = t
BY SeqEqual

\* The same before and after a step.
LEMMA ContentsBeforeAndAfter ==
    ASSUME WellFormed, WellFormed'
    PROVE  /\ Contents \in Seq(Slot) /\ Len(Contents) = len /\ len \in Nat
           /\ \A i \in 1 .. len : Contents[i] = At(i - 1)
           /\ Contents = <<>> <=> len = 0
           /\ Contents' \in Seq(Slot) /\ Len(Contents') = len' /\ len' \in Nat
           /\ \A i \in 1 .. len' : Contents'[i] = At(i - 1)'
<1>1. ContentsInOrder
  BY ContentsAreASequence
<1>2. ContentsInOrder'
  BY ContentsAreASequence, PTL
<1> QED
  BY <1>1, <1>2 DEF ContentsInOrder

\* PushFront puts its value before the sequence.
LEMMA PushFrontRefines ==
    ASSUME WellFormed, NEW v \in Elems, PushFront(v)
    PROVE  Abstract!PushFront(v)
<1>1. /\ WellFormed' /\ len' = len + 1 /\ At(0)' = v
      /\ \A i \in 1 .. len : At(i)' = At(i - 1)
  BY PushFrontShifts
<1>2. /\ Contents \in Seq(Slot) /\ Len(Contents) = len /\ len \in Nat
      /\ \A i \in 1 .. len : Contents[i] = At(i - 1)
      /\ Contents' \in Seq(Slot) /\ Len(Contents') = len'
      /\ \A i \in 1 .. len' : Contents'[i] = At(i - 1)'
  BY <1>1, ContentsBeforeAndAfter
<1>3. <<v>> \in Seq(Slot) /\ Len(<<v>>) = 1 /\ <<v>>[1] = v
  BY DEF Slot
<1>4. /\ <<v>> \o Contents \in Seq(Slot)
      /\ Len(<<v>> \o Contents) = 1 + len
      /\ \A i \in 1 .. 1 + len : (<<v>> \o Contents)[i] =
            IF i <= 1 THEN <<v>>[i] ELSE Contents[i - 1]
  BY <1>2, <1>3, ConcatProperties
<1>5. ASSUME NEW i \in 1 .. len + 1
      PROVE  Contents'[i] = (<<v>> \o Contents)[i]
  <2>1. Contents'[i] = At(i - 1)'
    BY <1>1, <1>2
  <2>2. CASE i = 1
    BY <2>1, <2>2, <1>1, <1>2, <1>3, <1>4
  <2>3. CASE i # 1
    <3>1. i - 1 \in 1 .. len /\ ~(i <= 1) /\ i \in 1 .. 1 + len
      BY <2>3, <1>2
    <3>2. At(i - 1)' = At((i - 1) - 1)
      BY <3>1, <1>1
    <3>3. Contents[i - 1] = At((i - 1) - 1)
      BY <3>1, <1>2
    <3>4. (<<v>> \o Contents)[i] = Contents[i - 1]
      BY <3>1, <1>4
    <3> QED
      BY <2>1, <3>2, <3>3, <3>4, Zenon
  <2> QED
    BY <2>2, <2>3, Zenon
<1>6. Contents' = <<v>> \o Contents
  <2>1. len + 1 \in Nat /\ Len(Contents') = len + 1 /\ Len(<<v>> \o Contents) = len + 1
    BY <1>1, <1>2, <1>4
  <2> QED
    BY <2>1, <1>2, <1>4, <1>5, SameSequence
<1>7. len < MaxInt /\ Answer("PushFront", Done)
  BY DEF PushFront
<1> QED
  BY <1>2, <1>6, <1>7 DEF Abstract!PushFront, Abstract!Answer, Answer

\* PushBack puts its value after the sequence.
LEMMA PushBackRefines ==
    ASSUME WellFormed, NEW v \in Elems, PushBack(v)
    PROVE  Abstract!PushBack(v)
<1>1. /\ WellFormed' /\ len' = len + 1
      /\ values'[PhysicalIndex(cap', head', len)] = v
      /\ \A i \in 0 .. (len - 1) : At(i)' = At(i)
  BY PushBackShifts
<1>2. /\ Contents \in Seq(Slot) /\ Len(Contents) = len /\ len \in Nat
      /\ \A i \in 1 .. len : Contents[i] = At(i - 1)
      /\ Contents' \in Seq(Slot) /\ Len(Contents') = len'
      /\ \A i \in 1 .. len' : Contents'[i] = At(i - 1)'
  BY <1>1, ContentsBeforeAndAfter
<1>3. v \in Slot
  BY DEF Slot
<1>4. /\ Append(Contents, v) \in Seq(Slot)
      /\ Len(Append(Contents, v)) = len + 1
      /\ \A i \in 1 .. len : Append(Contents, v)[i] = Contents[i]
      /\ Append(Contents, v)[len + 1] = v
  BY <1>2, <1>3, AppendProperties
<1>5. ASSUME NEW i \in 1 .. len + 1
      PROVE  Contents'[i] = Append(Contents, v)[i]
  <2>1. Contents'[i] = values'[PhysicalIndex(cap', head', i - 1)]
    BY <1>1, <1>2 DEF At
  <2>2. CASE i = len + 1
    <3>1. i - 1 = len
      BY <2>2, <1>2
    <3> QED
      BY <2>1, <2>2, <3>1, <1>1, <1>4
  <2>3. CASE i # len + 1
    <3>1. i \in 1 .. len /\ i - 1 \in 0 .. (len - 1)
      BY <2>3, <1>2
    <3> QED
      BY <2>1, <3>1, <1>1, <1>2, <1>4 DEF At
  <2> QED
    BY <2>2, <2>3, Zenon
<1>6. Contents' = Append(Contents, v)
  <2>1. len + 1 \in Nat /\ Len(Contents') = len + 1
    BY <1>1, <1>2
  <2> QED
    BY <2>1, <1>2, <1>4, <1>5, SameSequence
<1>7. len < MaxInt /\ Answer("PushBack", Done)
  BY DEF PushBack
<1> QED
  BY <1>2, <1>6, <1>7 DEF Abstract!PushBack, Abstract!Answer, Answer

\* Dropping the front element leaves the tail of the sequence.
LEMMA DropFrontRefines ==
    ASSUME WellFormed, len > 0, DropFront
    PROVE  /\ Contents # <<>>
           /\ Contents' = Tail(Contents)
           /\ Head(Contents) = values[head]
<1>1. /\ WellFormed' /\ len' = len - 1 /\ At(0) = values[head]
      /\ \A i \in 0 .. (len - 2) : At(i)' = At(i + 1)
  BY DropFrontShifts
<1>2. /\ Contents \in Seq(Slot) /\ Len(Contents) = len /\ len \in Nat
      /\ \A i \in 1 .. len : Contents[i] = At(i - 1)
      /\ (Contents = <<>> <=> len = 0)
      /\ Contents' \in Seq(Slot) /\ Len(Contents') = len' /\ len' \in Nat
      /\ \A i \in 1 .. len' : Contents'[i] = At(i - 1)'
  BY <1>1, ContentsBeforeAndAfter
<1>3. Contents # <<>>
  BY <1>2
<1>4. /\ Tail(Contents) \in Seq(Slot) /\ Len(Tail(Contents)) = len - 1
      /\ \A i \in 1 .. (len - 1) : Tail(Contents)[i] = Contents[i + 1]
  BY <1>2, <1>3, HeadTailProperties
<1>5. ASSUME NEW i \in 1 .. (len - 1)
      PROVE  Contents'[i] = Tail(Contents)[i]
  <2>1. i - 1 \in 0 .. (len - 2) /\ i + 1 \in 1 .. len /\ (i - 1) + 1 = (i + 1) - 1
        /\ i \in 1 .. len'
    BY <1>1, <1>2
  <2>2. Contents'[i] = At(i - 1)'
    BY <2>1, <1>2
  <2>3. At(i - 1)' = At((i - 1) + 1)
    BY <2>1, <1>1
  <2>4. Contents[i + 1] = At((i + 1) - 1)
    BY <2>1, <1>2
  <2>5. Tail(Contents)[i] = Contents[i + 1]
    BY <1>4
  <2> QED
    BY <2>1, <2>2, <2>3, <2>4, <2>5, Zenon
<1>6. Contents' = Tail(Contents)
  <2>1. len - 1 \in Nat /\ Len(Contents') = len - 1
    BY <1>1, <1>2
  <2> QED
    BY <2>1, <1>2, <1>4, <1>5, SameSequence
<1>7. Head(Contents) = values[head]
  <2>1. 1 \in 1 .. len /\ 1 - 1 = 0
    BY <1>2
  <2>2. Contents[1] = At(0)
    BY <2>1, <1>2
  <2> QED
    BY <2>2, <1>1
<1> QED
  BY <1>3, <1>6, <1>7

\* PopBack removes and returns the last element of the sequence.
LEMMA PopBackRefines ==
    ASSUME WellFormed, PopBack
    PROVE  Abstract!PopBack
<1>1. /\ WellFormed' /\ len' = len - 1
      /\ \A i \in 0 .. (len - 2) : At(i)' = At(i)
  BY PopBackShifts
<1>2. /\ Contents \in Seq(Slot) /\ Len(Contents) = len /\ len \in Nat
      /\ \A i \in 1 .. len : Contents[i] = At(i - 1)
      /\ (Contents = <<>> <=> len = 0)
      /\ Contents' \in Seq(Slot) /\ Len(Contents') = len' /\ len' \in Nat
      /\ \A i \in 1 .. len' : Contents'[i] = At(i - 1)'
  BY <1>1, ContentsBeforeAndAfter
<1>3. len > 0 /\ Answer("PopBack", At(len - 1))
  BY DEF PopBack, At
<1>4. \A i \in 1 .. (len - 1) : Contents[i] \in Slot
  <2> TAKE i \in 1 .. (len - 1)
  <2>1. i \in 1 .. Len(Contents)
    BY <1>2
  <2> QED
    BY <2>1, <1>2, ElementOfSeq
<1>5. /\ SubSeq(Contents, 1, len - 1) \in Seq(Slot)
      /\ Len(SubSeq(Contents, 1, len - 1)) = len - 1
      /\ \A i \in 1 .. (len - 1) : SubSeq(Contents, 1, len - 1)[i] = Contents[i]
  <2>1. len - 1 \in Int /\ 1 \in Int /\ (len - 1) - 1 + 1 = len - 1
        /\ (IF 1 <= len - 1 THEN (len - 1) - 1 + 1 ELSE 0) = len - 1
    BY <1>2, <1>3
  <2>2. /\ SubSeq(Contents, 1, len - 1) \in Seq(Slot)
        /\ Len(SubSeq(Contents, 1, len - 1)) = IF 1 <= len - 1 THEN (len - 1) - 1 + 1 ELSE 0
        /\ \A i \in 1 .. (len - 1) - 1 + 1 : SubSeq(Contents, 1, len - 1)[i] = Contents[1 + i - 1]
    BY <2>1, <1>4, SubSeqProperties
  <2>3. \A i \in 1 .. (len - 1) : 1 + i - 1 = i
    BY <1>2
  <2> QED
    BY <2>1, <2>2, <2>3
<1>6. ASSUME NEW i \in 1 .. (len - 1)
      PROVE  Contents'[i] = SubSeq(Contents, 1, len - 1)[i]
  <2>1. i - 1 \in 0 .. (len - 2) /\ i \in 1 .. len /\ i \in 1 .. len'
    BY <1>1, <1>2
  <2>2. Contents'[i] = At(i - 1)'
    BY <2>1, <1>2
  <2>3. At(i - 1)' = At(i - 1)
    BY <2>1, <1>1
  <2>4. Contents[i] = At(i - 1)
    BY <2>1, <1>2
  <2> QED
    BY <2>2, <2>3, <2>4, <1>5
<1>7. Contents' = SubSeq(Contents, 1, len - 1)
  <2>1. len - 1 \in Nat /\ Len(Contents') = len - 1
    BY <1>1, <1>2
  <2> QED
    BY <2>1, <1>2, <1>5, <1>6, SameSequence
<1>8. Contents[len] = At(len - 1) /\ Contents # <<>>
  BY <1>2, <1>3
<1> QED
  BY <1>2, <1>3, <1>7, <1>8 DEF Abstract!PopBack, Abstract!Answer, Answer

\* ReserveMore leaves the sequence alone.
LEMMA ReserveRefines ==
    ASSUME WellFormed, NEW n \in 0 .. MaxInt, ReserveMore(n)
    PROVE  Abstract!ReserveMore(n)
<1>1. /\ WellFormed' /\ len' = len
      /\ \A i \in 0 .. (len - 1) : At(i)' = At(i)
  BY ReserveKeeps
<1>2. /\ Contents \in Seq(Slot) /\ Len(Contents) = len /\ len \in Nat
      /\ \A i \in 1 .. len : Contents[i] = At(i - 1)
      /\ Contents' \in Seq(Slot) /\ Len(Contents') = len'
      /\ \A i \in 1 .. len' : Contents'[i] = At(i - 1)'
  BY <1>1, ContentsBeforeAndAfter
<1>3. ASSUME NEW i \in 1 .. len
      PROVE  Contents'[i] = Contents[i]
  <2>1. i - 1 \in 0 .. (len - 1)
    BY <1>2
  <2> QED
    BY <2>1, <1>1, <1>2
<1>4. Contents' = Contents
  BY <1>1, <1>2, <1>3, SameSequence
<1>5. n >= 0 /\ n <= MaxInt - len /\ Answer("ReserveMore", Done)
  BY DEF ReserveMore
<1> QED
  BY <1>2, <1>4, <1>5 DEF Abstract!ReserveMore, Abstract!Answer, Answer

\* Iter yields the sequence: its two slices are the contents in order.
LEMMA IterRefines ==
    ASSUME WellFormed, Iter
    PROVE  Abstract!Iter
<1> DEFINE p1 == SplitContiguous[1]
           p2 == SplitContiguous[2]
<1>1. /\ p1 \in Seq(Slot) /\ p2 \in Seq(Slot)
      /\ Len(p1) + Len(p2) = len
      /\ \A i \in 0 .. (len - 1) :
            At(i) = IF i < Len(p1) THEN p1[i + 1] ELSE p2[i - Len(p1) + 1]
  BY SplitInOrder, Zenon DEF WellFormed, At
<1>2. /\ Contents \in Seq(Slot) /\ Len(Contents) = len /\ len \in Nat
      /\ \A i \in 1 .. len : Contents[i] = At(i - 1)
  BY ContentsAreASequence DEF ContentsInOrder
<1>3. Answer("Iter", p1 \o p2) /\ UNCHANGED ring
  BY DEF Iter
<1> HIDE DEF p1, p2
<1>4. /\ p1 \o p2 \in Seq(Slot) /\ Len(p1 \o p2) = len
      /\ \A i \in 1 .. len : (p1 \o p2)[i] = IF i <= Len(p1) THEN p1[i] ELSE p2[i - Len(p1)]
  BY <1>1, ConcatProperties
<1>5. ASSUME NEW i \in 1 .. len
      PROVE  Contents[i] = (p1 \o p2)[i]
  <2>1. /\ i - 1 \in 0 .. (len - 1) /\ (i - 1) + 1 = i /\ Len(p1) \in Nat
        /\ (i - 1 < Len(p1) <=> i <= Len(p1)) /\ (i - 1) - Len(p1) + 1 = i - Len(p1)
    BY <1>1, <1>2
  <2>2. At(i - 1) = IF i - 1 < Len(p1) THEN p1[(i - 1) + 1] ELSE p2[(i - 1) - Len(p1) + 1]
    BY <2>1, <1>1
  <2> QED
    BY <2>1, <2>2, <1>2, <1>4
<1>6. Contents = p1 \o p2
  BY <1>2, <1>4, <1>5, SameSequence, Zenon
<1>7. Contents' = Contents
  BY <1>3 DEF ring, Contents
<1> QED
  BY <1>3, <1>6, <1>7 DEF Abstract!Iter, Abstract!Answer, Answer

\* NewDeque is the empty sequence.
LEMMA InitRefines == Init => Abstract!Init
<1> SUFFICES ASSUME Init PROVE Abstract!Init
  OBVIOUS
<1>1. Contents = <<>>
  BY InitWellFormed, ContentsAreASequence DEF ContentsInOrder, Init
<1> QED
  BY <1>1 DEF Init, Abstract!Init

\* An operation whose pre-condition fails changes nothing.
LEMMA RefusalRefines ==
    ASSUME WellFormed, FailedPrecondition
    PROVE  Abstract!Next
<1>1. Len(Contents) = len /\ (Contents = <<>> <=> len = 0)
  BY ContentsAreASequence DEF ContentsInOrder
<1>2. ASSUME NEW op, Refuse(op) PROVE Abstract!Refuse(op)
  BY <1>2 DEF Refuse, Answer, ring, Contents, Abstract!Refuse, Abstract!Answer
<1>3. len = 0 /\ Refuse("PopFront") => Abstract!PopFront
  BY <1>1, <1>2 DEF Abstract!PopFront
<1>4. len = 0 /\ Refuse("PopBack") => Abstract!PopBack
  BY <1>1, <1>2 DEF Abstract!PopBack
<1>5. ASSUME NEW n \in -1 .. MaxInt, n < 0 \/ n > MaxInt - len, Refuse("ReserveMore")
      PROVE  Abstract!ReserveMore(n)
  BY <1>1, <1>2, <1>5 DEF Abstract!ReserveMore
<1>6. ASSUME NEW v \in Elems, len = MaxInt
      PROVE  /\ Refuse("PushFront") => Abstract!PushFront(v)
             /\ Refuse("PushBack") => Abstract!PushBack(v)
  BY <1>1, <1>2, <1>6 DEF Abstract!PushFront, Abstract!PushBack
<1> QED
  BY <1>3, <1>4, <1>5, <1>6 DEF FailedPrecondition, Abstract!Next

\* Every step of the ring is a step of the sequence.
LEMMA NextRefines ==
    ASSUME WellFormed, [Next]_vars
    PROVE  [Abstract!Next]_<<Contents, result>>
<1>1. Len(Contents) = len /\ (Contents = <<>> <=> len = 0)
  BY ContentsAreASequence DEF ContentsInOrder
<1>2. ASSUME NEW v \in Elems, PushFront(v) PROVE Abstract!Next
  BY <1>2, PushFrontRefines DEF Abstract!Next
<1>3. ASSUME NEW v \in Elems, PushBack(v) PROVE Abstract!Next
  BY <1>3, PushBackRefines DEF Abstract!Next
<1>4. CASE PopFront
  <2>1. Abstract!PopFront
    BY <1>4, DropFrontRefines DEF PopFront, Answer, Abstract!PopFront, Abstract!Answer
  <2> QED
    BY <2>1 DEF Abstract!Next
<1>5. CASE TryPopFront
  <2>1. CASE len > 0
    <3>1. DropFront /\ Answer("TryPopFront", values[head])
      BY <1>5, <2>1 DEF TryPopFront
    <3>2. Abstract!TryPopFront
      BY <2>1, <3>1, DropFrontRefines DEF Answer, Abstract!TryPopFront, Abstract!Answer
    <3> QED
      BY <3>2 DEF Abstract!Next
  <2>2. CASE ~(len > 0)
    <3>1. len = 0 /\ Answer("TryPopFront", None) /\ UNCHANGED ring
      BY <1>5, <2>2 DEF TryPopFront
    <3>2. Contents = <<>> /\ Contents' = Contents
      BY <1>1, <3>1 DEF ring, Contents
    <3>3. Abstract!TryPopFront
      BY <3>1, <3>2 DEF Answer, Abstract!TryPopFront, Abstract!Answer
    <3> QED
      BY <3>3 DEF Abstract!Next
  <2> QED
    BY <2>1, <2>2
<1>6. CASE PopBack
  BY <1>6, PopBackRefines DEF Abstract!Next
<1>7. CASE Iter
  BY <1>7, IterRefines DEF Abstract!Next
<1>8. ASSUME NEW n \in 0 .. MaxInt, ReserveMore(n) PROVE Abstract!Next
  <2>1. Abstract!ReserveMore(n)
    BY <1>8, ReserveRefines
  <2>2. n \in -1 .. MaxInt
    BY MaxIntAssumption
  <2> QED
    BY <2>1, <2>2 DEF Abstract!Next
<1>9. CASE FailedPrecondition
  BY <1>9, RefusalRefines
<1>10. CASE UNCHANGED vars
  BY <1>10 DEF vars, Contents
<1> QED
  BY <1>2, <1>3, <1>4, <1>5, <1>6, <1>7, <1>8, <1>9, <1>10 DEF Next

\* The ring buffer implements a sequence with operations at both ends: pushes,
\* pops, growth, iteration and failed pre-conditions behave and answer as they
\* do on the sequence of its elements.
THEOREM RingImplementsSequence == Spec => ImplementsSequence
<1>1. Init => Abstract!Init
  BY InitRefines
<1>2. WellFormed /\ [Next]_vars => [Abstract!Next]_<<Contents, result>>
  BY NextRefines
<1>3. Spec => []WellFormed
  BY RingWellFormed
<1> QED
  BY <1>1, <1>2, <1>3, PTL DEF Spec, ImplementsSequence, Abstract!Spec
=============================================================================
