-------------------------- MODULE OrderedMapProofs --------------------------
(***************************************************************************)
(* Proofs about OrderedMap, for any keys, values and chunk size: the       *)
(* positions agree with the chunks, the map never gets sparse, and it does *)
(* what the insertion-ordered map of OrderedMapSpec does.                  *)
(***************************************************************************)
EXTENDS OrderedMap, FiniteSetTheorems, TLAPS

\* Every nonempty set of natural numbers has a least element.
LEMMA LeastNat ==
    ASSUME NEW S \in SUBSET Nat, S # {}
    PROVE  \E n \in S : \A i \in S : n <= i
<1>. DEFINE R == {ss \in Nat \X Nat : ss[1] < ss[2]}
<1>1. IsWellFoundedOn(R, Nat)
    BY NatLessThanWellFounded, Zenon DEF OpToRel
<1>2. PICK n \in S : \A i \in S : ~ (<<i, n>> \in R)
    <2>. HIDE DEF R
    <2>. QED BY <1>1, WFMin, Zenon
<1>3. \A i \in S : ~ (i < n)
    BY <1>2, Zenon
<1>4. \A i \in S : i \in Nat /\ n \in Nat
    OBVIOUS
<1>. QED BY <1>3, <1>4

(***************************************************************************)
(* The live entries in order: the slots that hold one, enumerated.         *)
(***************************************************************************)
Places == Nat \X Nat

\* q lists the n slots of S in the order in which a loop over the chunks comes
\* to them.
Enum(q, S, n) ==
    /\ n \in Nat
    /\ q \in [1 .. n -> S]
    /\ \A i, j \in 1 .. n : i < j => Before(q[i], q[j])
    /\ \A s \in S : \E i \in 1 .. n : q[i] = s

\* The order of slots is irreflexive, transitive and total.
LEMMA BeforeOrder ==
    ASSUME NEW s \in Places, NEW t \in Places
    PROVE  /\ ~ Before(s, s)
           /\ ~ (Before(s, t) /\ Before(t, s))
           /\ \A u \in Places : Before(s, t) /\ Before(t, u) => Before(s, u)
BY DEF Before, Places

\* An enumeration names each slot once.
LEMMA EnumInjective ==
    ASSUME NEW S \in SUBSET Places, NEW n, NEW q, Enum(q, S, n)
    PROVE  \A i, j \in 1 .. n : q[i] = q[j] => i = j
<1>. SUFFICES ASSUME NEW i \in 1 .. n, NEW j \in 1 .. n, q[i] = q[j], i # j
              PROVE  FALSE
    OBVIOUS
<1>1. n \in Nat /\ q[i] \in Places
    BY Zenon DEF Enum
<1>2. i < j \/ j < i
    BY <1>1
<1>3. Before(q[i], q[i])
    BY <1>2, Zenon DEF Enum
<1>. QED BY <1>1, <1>3, BeforeOrder, Zenon

\* An enumeration has as many members as there are slots.
LEMMA EnumCardinality ==
    ASSUME NEW S \in SUBSET Places, NEW n, NEW q, Enum(q, S, n)
    PROVE  IsFiniteSet(S) /\ Cardinality(S) = n
<1>1. n \in Nat /\ q \in [1 .. n -> S]
    BY Zenon DEF Enum
<1>2. q \in Injection(1 .. n, S)
    <2>1. \A i, j \in 1 .. n : q[i] = q[j] => i = j
        BY EnumInjective, Zenon
    <2>. QED BY <1>1, <2>1, Zenon DEF Injection, IsInjective
<1>3. q \in Surjection(1 .. n, S)
    BY <1>1, Zenon DEF Surjection, Enum
<1>4. ExistsBijection(1 .. n, S)
    BY <1>2, <1>3, Zenon DEF ExistsBijection, Bijection
<1>5. IsFiniteSet(1 .. n) /\ Cardinality(1 .. n) = n
    BY <1>1, FS_Interval
<1>. QED BY <1>4, <1>5, FS_Bijection, Zenon

\* Two enumerations of the same slots agree: at the first index where they
\* differ, each would have to come before the other.
LEMMA EnumUnique ==
    ASSUME NEW S \in SUBSET Places, NEW n, NEW q, NEW r, Enum(q, S, n), Enum(r, S, n)
    PROVE  q = r
<1>1. n \in Nat /\ q \in [1 .. n -> S] /\ r \in [1 .. n -> S]
    BY Zenon DEF Enum
<1>. DEFINE Bad == {i \in 1 .. n : q[i] # r[i]}
<1>2. ASSUME Bad # {}  PROVE FALSE
    <2>1. PICK i \in Bad : \A j \in Bad : i <= j
        <3>1. Bad \in SUBSET Nat
            BY <1>1
        <3>. HIDE DEF Bad
        <3>. QED BY <1>2, <3>1, LeastNat, Zenon
    <2>2. i \in 1 .. n /\ q[i] # r[i] /\ i \in Nat
        BY <1>1, <2>1
    <2>3. \A j \in 1 .. n : j < i => q[j] = r[j]
        BY <1>1, <2>1, <2>2
    <2>4. PICK a \in 1 .. n : q[a] = r[i]
        BY <1>1, <2>2, Zenon DEF Enum
    <2>5. PICK b \in 1 .. n : r[b] = q[i]
        BY <1>1, <2>2, Zenon DEF Enum
    <2>6. i < a
        <3>1. a # i
            BY <2>2, <2>4, Zenon
        <3>2. ~ (a < i)
            <4>. SUFFICES ASSUME a < i  PROVE FALSE
                OBVIOUS
            <4>1. r[a] = r[i]
                BY <2>3, <2>4, Zenon
            <4>. QED BY <4>1, <2>2, <3>1, EnumInjective, Zenon
        <3>. QED BY <1>1, <2>2, <3>1, <3>2
    <2>7. i < b
        <3>1. b # i
            BY <2>2, <2>5, Zenon
        <3>2. ~ (b < i)
            <4>. SUFFICES ASSUME b < i  PROVE FALSE
                OBVIOUS
            <4>1. q[b] = q[i]
                BY <2>3, <2>5, Zenon
            <4>. QED BY <4>1, <2>2, <3>1, EnumInjective, Zenon
        <3>. QED BY <1>1, <2>2, <3>1, <3>2
    <2>8. Before(q[i], q[a]) /\ Before(r[i], r[b])
        BY <2>2, <2>6, <2>7, Zenon DEF Enum
    <2>9. q[i] \in Places /\ r[i] \in Places
        BY <1>1, <2>2, Zenon
    <2>. QED BY <2>4, <2>5, <2>8, <2>9, BeforeOrder, Zenon
<1>3. \A i \in 1 .. n : q[i] = r[i]
    BY <1>2, Zenon
<1>. QED BY <1>1, <1>3

\* InOrder is the enumeration of the slots.
LEMMA InOrderIs ==
    ASSUME NEW S \in SUBSET Places, NEW n, NEW q, Enum(q, S, n)
    PROVE  InOrder(S) = q
<1>1. n \in Nat /\ IsFiniteSet(S) /\ Cardinality(S) = n
    <2>1. n \in Nat
        BY Zenon DEF Enum
    <2>. QED BY <2>1, EnumCardinality, Zenon
<1>. DEFINE Inc(f) == \A i, j \in 1 .. n : i < j => Before(f[i], f[j])
<1>2. q \in [1 .. n -> S] /\ Inc(q)
    BY Zenon DEF Enum
<1>3. PICK r : r = InOrder(S)
    OBVIOUS
<1>4. r = CHOOSE f \in [1 .. n -> S] : Inc(f)
    BY <1>1, <1>3, Zenon DEF InOrder
<1>5. r \in [1 .. n -> S] /\ Inc(r)
    <2>. HIDE DEF Inc
    <2>. QED BY <1>2, <1>4, Zenon
<1>6. \A i, j \in 1 .. n : r[i] = r[j] => i = j
    <2>. SUFFICES ASSUME NEW i \in 1 .. n, NEW j \in 1 .. n, r[i] = r[j], i # j
                  PROVE  FALSE
        OBVIOUS
    <2>1. r[i] \in Places
        BY <1>5, Zenon
    <2>2. i < j \/ j < i
        BY <1>1
    <2>3. Before(r[i], r[i])
        BY <1>5, <2>2, Zenon
    <2>. QED BY <2>1, <2>3, BeforeOrder, Zenon
<1>7. r \in Injection(1 .. n, S)
    BY <1>5, <1>6, Zenon DEF Injection, IsInjective
<1>8. Cardinality(1 .. n) = n
    BY <1>1, FS_Interval
<1>9. r \in Surjection(1 .. n, S)
    BY <1>1, <1>7, <1>8, FS_Injection, Zenon
<1>10. Enum(r, S, n)
    BY <1>1, <1>5, <1>9, Zenon DEF Enum, Surjection
<1>. QED BY <1>3, <1>10, EnumUnique, Zenon

(***************************************************************************)
(* Maps in good order.                                                     *)
(***************************************************************************)
Entry == Keys \X Values
Chunk == [Slots -> Entry \cup {<<>>}]
PosMap == UNION {[K -> Places] : K \in SUBSET Keys}
Maps == [chunks : Seq(Chunk), positions : PosMap, nextOffset : 0 .. ChunkSize]

\* The map n agrees with its positions, and the last chunk is empty from the
\* next insertion on.
Well(n) ==
    /\ n \in Maps
    /\ n.nextOffset = 0 <=> n.chunks = <<>>
    /\ Exact(n)
    /\ IsFiniteSet(DOMAIN n.positions)
    /\ n.chunks # <<>> =>
          \A o \in Slots : o > n.nextOffset => n.chunks[Len(n.chunks)][o] = <<>>

\* The live slots of n can be enumerated.
Listed(n) == \E l \in Nat : \E q : Enum(q, FilledSlots(n.chunks), l)

\* Slots are pairs of numbers.
LEMMA FilledArePlaces ==
    ASSUME NEW cs \in Seq(Chunk)
    PROVE  FilledSlots(cs) \in SUBSET Places
BY DEF FilledSlots, Places, Slots

\* Live lists the entries of the enumerated slots.
LEMMA LiveIs ==
    ASSUME NEW cs \in Seq(Chunk), NEW l \in Nat, NEW q, Enum(q, FilledSlots(cs), l)
    PROVE  /\ Live(cs) = [i \in 1 .. l |-> cs[q[i][1]][q[i][2]]]
           /\ Live(cs) \in Seq(Entry)
           /\ Len(Live(cs)) = l
<1>1. InOrder(FilledSlots(cs)) = q
    BY FilledArePlaces, InOrderIs, Zenon
<1>2. q \in [1 .. l -> FilledSlots(cs)]
    BY Zenon DEF Enum
<1>3. Live(cs) = [i \in 1 .. l |-> cs[q[i][1]][q[i][2]]]
    BY <1>1, <1>2, Zenon DEF Live
<1>4. ASSUME NEW i \in 1 .. l  PROVE cs[q[i][1]][q[i][2]] \in Entry
    <2>1. q[i] \in FilledSlots(cs)
        BY <1>2, Zenon
    <2>2. q[i][1] \in 1 .. Len(cs) /\ q[i][2] \in Slots /\ cs[q[i][1]][q[i][2]] # <<>>
        BY <2>1, Zenon DEF FilledSlots
    <2>3. cs[q[i][1]] \in Chunk
        BY <2>2
    <2>4. cs[q[i][1]][q[i][2]] \in Entry \cup {<<>>}
        BY <2>2, <2>3, Zenon DEF Chunk
    <2>. QED BY <2>2, <2>4, Zenon
<1>. DEFINE f == [i \in 1 .. l |-> cs[q[i][1]][q[i][2]]]
<1>5. f \in [1 .. l -> Entry]
    BY <1>4, Zenon
<1>6. f \in Seq(Entry) /\ Len(f) = l
    <2>. HIDE DEF f
    <2>. QED BY <1>5
<1>. QED BY <1>3, <1>6, Zenon

\* The fields of a map in good order.
LEMMA WellFields ==
    ASSUME NEW n, Well(n)
    PROVE  /\ n.chunks \in Seq(Chunk) /\ n.nextOffset \in 0 .. ChunkSize
           /\ DOMAIN n.positions \in SUBSET Keys
           /\ n.positions \in [DOMAIN n.positions -> Places]
           /\ n = [chunks |-> n.chunks, positions |-> n.positions, nextOffset |-> n.nextOffset]
<1>1. n \in Maps
    BY Zenon DEF Well
<1>2. n.positions \in PosMap
    BY <1>1, Zenon DEF Maps
<1>3. PICK K \in SUBSET Keys : n.positions \in [K -> Places]
    BY <1>2, Zenon DEF PosMap
<1>. QED BY <1>1, <1>3, Zenon DEF Maps

\* An entry of a chunk is a key with its value or nothing.
LEMMA SlotTyped ==
    ASSUME NEW cs \in Seq(Chunk), NEW c \in 1 .. Len(cs), NEW o \in Slots
    PROVE  cs[c][o] \in Entry \cup {<<>>} /\ cs[c] \in Chunk
BY DEF Chunk

\* Nothing is not an entry.
LEMMA NotNothing ==
    ASSUME NEW k, NEW v
    PROVE  <<k, v>> # <<>>
OBVIOUS

\* A sequence one longer than another that begins with it is an Append.
LEMMA AppendIs ==
    ASSUME NEW S, NEW a \in Seq(S), NEW b \in Seq(S), NEW e \in S, NEW l \in Nat,
           Len(a) = l, Len(b) = l + 1, b[l + 1] = e, \A i \in 1 .. l : b[i] = a[i]
    PROVE  b = Append(a, e)
<1>1. Append(a, e) \in Seq(S) /\ Len(Append(a, e)) = l + 1
    OBVIOUS
<1>2. \A i \in 1 .. l + 1 : Append(a, e)[i] = b[i]
    OBVIOUS
<1>. QED BY <1>1, <1>2

\* NewOrderedMap: an empty map is in good order.
LEMMA NewWell ==
    /\ Well(NewOrderedMap) /\ Listed(NewOrderedMap)
    /\ Live(NewOrderedMap.chunks) = <<>>
    /\ UsedSlots(NewOrderedMap) = 0 /\ NewOrderedMap.positions = <<>>
<1>. DEFINE n == NewOrderedMap
<1>1. n.chunks = <<>> /\ n.nextOffset = 0 /\ n.positions = <<>>
    BY Zenon DEF NewOrderedMap
<1>2. DOMAIN n.positions = {} /\ IsFiniteSet(DOMAIN n.positions)
    BY <1>1, FS_EmptySet
<1>3. n \in Maps
    <2>1. <<>> \in [{} -> Places]
        OBVIOUS
    <2>2. <<>> \in PosMap
        BY <2>1, Zenon DEF PosMap
    <2>3. <<>> \in Seq(Chunk) /\ 0 \in 0 .. ChunkSize
        BY ChunkAssumption
    <2>. QED BY <2>2, <2>3, Zenon DEF Maps, NewOrderedMap
<1>4. Exact(n)
    BY <1>1, <1>2, Zenon DEF Exact
<1>5. FilledSlots(n.chunks) = {}
    BY <1>1 DEF FilledSlots
<1>6. Enum(<<>>, FilledSlots(n.chunks), 0)
    BY <1>5 DEF Enum
<1>7. n.chunks \in Seq(Chunk)
    BY <1>1
<1>8. Live(n.chunks) = <<>>
    <2>1. Len(Live(n.chunks)) = 0 /\ Live(n.chunks) \in Seq(Entry)
        BY <1>6, <1>7, LiveIs, Zenon
    <2>. QED BY <2>1
<1>9. Well(n)
    BY <1>1, <1>2, <1>3, <1>4, Zenon DEF Well
<1>10. Listed(n)
    BY <1>6, Zenon DEF Listed
<1>11. UsedSlots(n) = 0
    BY <1>1, Zenon DEF UsedSlots
<1>. QED BY <1>1, <1>8, <1>9, <1>10, <1>11

(***************************************************************************)
(* insertNew.                                                              *)
(***************************************************************************)
\* The offset at which insertNew puts the next entry.
Offset(n) == IF Full(n) THEN 1 ELSE n.nextOffset + 1

\* insertNew makes room: the chunks are those of the map, followed by an empty
\* one when the last is full, and the last is empty from the offset on.
LEMMA RoomMade ==
    ASSUME NEW n, Well(n)
    PROVE  /\ Roomy(n) \in Seq(Chunk) /\ Len(Roomy(n)) \in Nat \ {0} /\ Offset(n) \in Slots
           /\ Len(n.chunks) <= Len(Roomy(n))
           /\ \A c \in 1 .. Len(n.chunks) : Roomy(n)[c] = n.chunks[c]
           /\ \A c \in 1 .. Len(Roomy(n)), o \in Slots :
                 c \notin 1 .. Len(n.chunks) => Roomy(n)[c][o] = <<>>
           /\ \A o \in Slots : o >= Offset(n) => Roomy(n)[Len(Roomy(n))][o] = <<>>
<1>1. n.chunks \in Seq(Chunk) /\ n.nextOffset \in 0 .. ChunkSize
    BY WellFields, Zenon
<1>2. EmptyChunk \in Chunk /\ \A o \in Slots : EmptyChunk[o] = <<>>
    BY Zenon DEF EmptyChunk, Chunk
<1>3. CASE Full(n)
    <2>1. Roomy(n) = Append(n.chunks, EmptyChunk)
        BY <1>3, Zenon DEF Roomy
    <2>2. /\ Roomy(n) \in Seq(Chunk) /\ Len(Roomy(n)) = Len(n.chunks) + 1
          /\ \A c \in 1 .. Len(n.chunks) : Roomy(n)[c] = n.chunks[c]
          /\ Roomy(n)[Len(n.chunks) + 1] = EmptyChunk
        BY <1>1, <1>2, <2>1
    <2>3. Offset(n) = 1 /\ 1 \in Slots
        BY <1>3, ChunkAssumption DEF Offset, Slots
    <2>4. Len(n.chunks) \in Nat
        BY <1>1
    <2>. QED BY <1>2, <2>2, <2>3, <2>4
<1>4. CASE ~ Full(n)
    <2>1. Roomy(n) = n.chunks /\ n.chunks # <<>> /\ n.nextOffset # ChunkSize
        BY <1>4, Zenon DEF Roomy, Full
    <2>2. Len(n.chunks) \in Nat \ {0}
        BY <1>1, <2>1
    <2>3. Offset(n) = n.nextOffset + 1 /\ Offset(n) \in Slots
        BY <1>1, <1>4, <2>1, ChunkAssumption DEF Offset, Slots
    <2>4. \A o \in Slots : o > n.nextOffset => n.chunks[Len(n.chunks)][o] = <<>>
        BY <2>1, Zenon DEF Well
    <2>5. \A o \in Slots : o >= Offset(n) => o > n.nextOffset
        BY <1>1, <2>3 DEF Slots
    <2>. QED BY <1>1, <2>1, <2>2, <2>3, <2>4, <2>5
<1>. QED BY <1>3, <1>4, Zenon

\* insertNew fills one slot, an empty one after all that hold an entry, and
\* leaves the others alone.
LEMMA WithNewSlots ==
    ASSUME NEW n, Well(n), NEW k \in Keys, NEW v \in Values
    PROVE  LET w == WithNew(n, k, v)  c == Len(Roomy(n))  o == Offset(n)
           IN  /\ w.chunks \in Seq(Chunk) /\ Len(w.chunks) = c /\ c \in Nat \ {0} /\ o \in Slots
               /\ w.chunks[c][o] = <<k, v>>
               /\ \A d \in 1 .. c, p \in Slots : <<d, p>> # <<c, o>> =>
                     w.chunks[d][p] = IF d \in 1 .. Len(n.chunks) THEN n.chunks[d][p] ELSE <<>>
               /\ \A p \in Slots : p > o => w.chunks[c][p] = <<>>
               /\ c \in 1 .. Len(n.chunks) => n.chunks[c][o] = <<>>
               /\ Len(n.chunks) <= c
<1>. DEFINE w == WithNew(n, k, v)  c == Len(Roomy(n))  o == Offset(n)
<1>1. PICK cs : cs = Roomy(n)
    OBVIOUS
<1>2. w.chunks = [cs EXCEPT ![c][o] = <<k, v>>]
    BY <1>1, Zenon DEF WithNew, Placed, Offset
<1>3. /\ cs \in Seq(Chunk) /\ c \in Nat \ {0} /\ c = Len(cs) /\ o \in Slots
      /\ Len(n.chunks) <= c
      /\ \A d \in 1 .. Len(n.chunks) : cs[d] = n.chunks[d]
      /\ \A d \in 1 .. c, p \in Slots : d \notin 1 .. Len(n.chunks) => cs[d][p] = <<>>
      /\ \A p \in Slots : p >= o => cs[c][p] = <<>>
    BY <1>1, RoomMade
<1>. HIDE DEF w, c, o
<1>4. cs[c] \in Chunk /\ c \in 1 .. Len(cs)
    BY <1>3
<1>5. PICK ch : ch = [cs[c] EXCEPT ![o] = <<k, v>>]
    BY Zenon
<1>6. ch \in Chunk /\ ch[o] = <<k, v>> /\ \A p \in Slots : p # o => ch[p] = cs[c][p]
    BY <1>3, <1>4, <1>5, Zenon DEF Chunk, Entry
<1>7. w.chunks = [cs EXCEPT ![c] = ch]
    BY <1>2, <1>5, Zenon
<1>8. /\ w.chunks \in Seq(Chunk) /\ Len(w.chunks) = c /\ w.chunks[c] = ch
      /\ \A d \in 1 .. c : d # c => w.chunks[d] = cs[d]
    BY <1>3, <1>4, <1>6, <1>7
<1>9. \A p \in Slots : p > o => p # o /\ p >= o
    BY <1>3 DEF Slots
<1>10. \A p \in Slots : p > o => w.chunks[c][p] = <<>>
    BY <1>3, <1>6, <1>8, <1>9, Zenon
<1>11. c \in 1 .. Len(n.chunks) => n.chunks[c][o] = <<>>
    <2>1. o >= o
        BY <1>3 DEF Slots
    <2>. QED BY <1>3, <2>1, Zenon
<1>12. ASSUME NEW d \in 1 .. c, NEW p \in Slots, <<d, p>> # <<c, o>>
       PROVE  w.chunks[d][p] = IF d \in 1 .. Len(n.chunks) THEN n.chunks[d][p] ELSE <<>>
    <2>1. w.chunks[d][p] = cs[d][p]
        BY <1>6, <1>8, <1>12, Zenon
    <2>. QED BY <1>3, <2>1, Zenon
<1>13. w.chunks[c][o] = <<k, v>>
    BY <1>6, <1>8, Zenon
<1>. QED BY <1>3, <1>8, <1>10, <1>11, <1>12, <1>13 DEF w, c, o

\* insertNew adds the slot it fills to those that hold an entry, after them.
LEMMA WithNewFilled ==
    ASSUME NEW n, Well(n), NEW k \in Keys, NEW v \in Values
    PROVE  LET s == <<Len(Roomy(n)), Offset(n)>>
           IN  /\ FilledSlots(WithNew(n, k, v).chunks) = FilledSlots(n.chunks) \cup {s}
               /\ s \notin FilledSlots(n.chunks) /\ s \in Places
               /\ \A t \in FilledSlots(n.chunks) : Before(t, s)
<1>. DEFINE w == WithNew(n, k, v)  c == Len(Roomy(n))  o == Offset(n)
<1>1. /\ w.chunks \in Seq(Chunk) /\ Len(w.chunks) = c /\ c \in Nat \ {0} /\ o \in Slots
      /\ w.chunks[c][o] = <<k, v>>
      /\ \A d \in 1 .. c, p \in Slots : <<d, p>> # <<c, o>> =>
            w.chunks[d][p] = IF d \in 1 .. Len(n.chunks) THEN n.chunks[d][p] ELSE <<>>
      /\ \A p \in Slots : p > o => w.chunks[c][p] = <<>>
      /\ c \in 1 .. Len(n.chunks) => n.chunks[c][o] = <<>>
      /\ Len(n.chunks) <= c
    BY WithNewSlots, Zenon
<1>2. n.chunks \in Seq(Chunk) /\ Len(n.chunks) \in Nat
    BY WellFields
<1>. HIDE DEF w, c, o
<1>3. <<c, o>> \in Places
    BY <1>1 DEF Places, Slots
<1>4. <<c, o>> \notin FilledSlots(n.chunks)
    BY <1>1, Zenon DEF FilledSlots
<1>5. ASSUME NEW t \in FilledSlots(n.chunks)  PROVE t \in FilledSlots(w.chunks) /\ Before(t, <<c, o>>)
    <2>1. PICK d \in 1 .. Len(n.chunks), p \in Slots : t = <<d, p>> /\ n.chunks[d][p] # <<>>
        BY DEF FilledSlots
    <2>2. d \in 1 .. c /\ <<d, p>> # <<c, o>>
        BY <1>1, <1>2, <1>4, <1>5, <2>1
    <2>3. w.chunks[d][p] = n.chunks[d][p]
        BY <1>1, <2>2, Zenon
    <2>4. t \in FilledSlots(w.chunks)
        BY <1>1, <2>1, <2>2, <2>3 DEF FilledSlots
    <2>5. d # c \/ p < o
        <3>1. d = c => ~ (p > o)
            BY <1>1, <2>1, <2>3, Zenon
        <3>2. d = c => p # o
            BY <2>2, Zenon
        <3>. QED BY <1>1, <3>1, <3>2 DEF Slots
    <2>. QED BY <1>1, <2>1, <2>2, <2>4, <2>5 DEF Before
<1>6. ASSUME NEW t \in FilledSlots(w.chunks), t # <<c, o>>  PROVE t \in FilledSlots(n.chunks)
    <2>1. PICK d \in 1 .. c, p \in Slots : t = <<d, p>> /\ w.chunks[d][p] # <<>>
        BY <1>1 DEF FilledSlots
    <2>2. d \in 1 .. Len(n.chunks) /\ n.chunks[d][p] # <<>>
        BY <1>1, <1>6, <2>1, Zenon
    <2>. QED BY <2>1, <2>2, Zenon DEF FilledSlots
<1>7. <<c, o>> \in FilledSlots(w.chunks)
    <2>1. w.chunks[c][o] # <<>>
        BY <1>1, NotNothing, Zenon
    <2>2. <<c, o>> \in (1 .. Len(w.chunks)) \X Slots
        BY <1>1
    <2>. QED BY <2>1, <2>2, Zenon DEF FilledSlots
<1>8. FilledSlots(w.chunks) = FilledSlots(n.chunks) \cup {<<c, o>>}
    BY <1>5, <1>6, <1>7, Zenon
<1>. QED BY <1>3, <1>4, <1>5, <1>8, Zenon DEF w, c, o

\* insertNew of an absent key appends its entry to the live ones.
LEMMA WithNewLive ==
    ASSUME NEW n, Well(n), Listed(n), NEW k \in Keys, NEW v \in Values
    PROVE  /\ Listed(WithNew(n, k, v))
           /\ Live(n.chunks) \in Seq(Entry)
           /\ Live(WithNew(n, k, v).chunks) = Append(Live(n.chunks), <<k, v>>)
<1>. DEFINE w == WithNew(n, k, v)  c == Len(Roomy(n))  o == Offset(n)
<1>1. /\ FilledSlots(w.chunks) = FilledSlots(n.chunks) \cup {<<c, o>>}
      /\ <<c, o>> \notin FilledSlots(n.chunks) /\ <<c, o>> \in Places
      /\ \A t \in FilledSlots(n.chunks) : Before(t, <<c, o>>)
    BY WithNewFilled, Zenon
<1>2. /\ w.chunks \in Seq(Chunk) /\ Len(w.chunks) = c
      /\ w.chunks[c][o] = <<k, v>>
      /\ \A d \in 1 .. c, p \in Slots : <<d, p>> # <<c, o>> =>
            w.chunks[d][p] = IF d \in 1 .. Len(n.chunks) THEN n.chunks[d][p] ELSE <<>>
    BY WithNewSlots
<1>. HIDE DEF w, c, o
<1>3. n.chunks \in Seq(Chunk)
    BY WellFields, Zenon
<1>4a. PICK l \in Nat : \E q : Enum(q, FilledSlots(n.chunks), l)
    BY Zenon DEF Listed
<1>4. PICK q : Enum(q, FilledSlots(n.chunks), l)
    BY <1>4a, Zenon
<1>5. /\ q \in [1 .. l -> FilledSlots(n.chunks)]
      /\ \A i, j \in 1 .. l : i < j => Before(q[i], q[j])
      /\ \A s \in FilledSlots(n.chunks) : \E i \in 1 .. l : q[i] = s
    BY <1>4, Zenon DEF Enum
<1>6. PICK r : r = [i \in 1 .. l + 1 |-> IF i = l + 1 THEN <<c, o>> ELSE q[i]]
    BY Zenon
<1>7. /\ r[l + 1] = <<c, o>> /\ \A i \in 1 .. l : r[i] = q[i]
      /\ \A i \in 1 .. l + 1 : i = l + 1 \/ i \in 1 .. l
    BY <1>6
<1>8. Enum(r, FilledSlots(w.chunks), l + 1)
    <2>1. r \in [1 .. l + 1 -> FilledSlots(w.chunks)]
        BY <1>1, <1>5, <1>6, <1>7, Zenon
    <2>2. ASSUME NEW i \in 1 .. l + 1, NEW j \in 1 .. l + 1, i < j  PROVE Before(r[i], r[j])
        <3>1. i \in 1 .. l
            BY <2>2
        <3>2. CASE j = l + 1
            BY <1>1, <1>5, <1>7, <3>1, <3>2, Zenon
        <3>3. CASE j \in 1 .. l
            BY <1>5, <1>7, <2>2, <3>1, <3>3
        <3>. QED BY <1>7, <3>2, <3>3, Zenon
    <2>3. ASSUME NEW s \in FilledSlots(w.chunks)  PROVE \E i \in 1 .. l + 1 : r[i] = s
        <3>1. CASE s = <<c, o>>
            BY <1>7, <3>1
        <3>2. CASE s \in FilledSlots(n.chunks)
            <4>1. PICK i \in 1 .. l : q[i] = s
                BY <1>5, <3>2
            <4>. QED BY <1>7, <4>1
        <3>. QED BY <1>1, <3>1, <3>2
    <2>. QED BY <2>1, <2>2, <2>3 DEF Enum
<1>9. /\ Live(n.chunks) = [i \in 1 .. l |-> n.chunks[q[i][1]][q[i][2]]]
      /\ Live(n.chunks) \in Seq(Entry) /\ Len(Live(n.chunks)) = l
    BY <1>3, <1>4, LiveIs, Zenon
<1>10. /\ Live(w.chunks) = [i \in 1 .. l + 1 |-> w.chunks[r[i][1]][r[i][2]]]
       /\ Live(w.chunks) \in Seq(Entry) /\ Len(Live(w.chunks)) = l + 1
    BY <1>2, <1>8, LiveIs
<1>11. ASSUME NEW i \in 1 .. l  PROVE Live(w.chunks)[i] = Live(n.chunks)[i]
    <2>0. q[i] \in FilledSlots(n.chunks)
        BY <1>5, Zenon
    <2>1. PICK d \in 1 .. Len(n.chunks), p \in Slots : q[i] = <<d, p>>
        BY <2>0 DEF FilledSlots
    <2>2. <<d, p>> # <<c, o>> /\ q[i] \in FilledSlots(w.chunks)
        BY <1>1, <2>0, <2>1, Zenon
    <2>3. d \in 1 .. c
        BY <1>2, <2>1, <2>2 DEF FilledSlots
    <2>4. w.chunks[d][p] = n.chunks[d][p]
        BY <1>2, <2>2, <2>3, Zenon
    <2>5. r[i][1] = d /\ r[i][2] = p /\ q[i][1] = d /\ q[i][2] = p
        BY <1>7, <2>1
    <2>6. Live(n.chunks)[i] = n.chunks[d][p]
        BY <1>9, <2>5
    <2>7. Live(w.chunks)[i] = w.chunks[d][p]
        <3>1. i \in 1 .. l + 1
            OBVIOUS
        <3>. QED BY <1>10, <2>5, <3>1, Zenon
    <2>. QED BY <2>4, <2>6, <2>7, Zenon
<1>12. Live(w.chunks)[l + 1] = <<k, v>>
    <2>1. r[l + 1][1] = c /\ r[l + 1][2] = o
        BY <1>7
    <2>2. l + 1 \in 1 .. l + 1
        OBVIOUS
    <2>3. Live(w.chunks)[l + 1] = w.chunks[r[l + 1][1]][r[l + 1][2]]
        BY <1>10, <2>2, Zenon
    <2>. QED BY <1>2, <2>1, <2>3, Zenon
<1>13. Live(w.chunks) = Append(Live(n.chunks), <<k, v>>)
    <2>1. <<k, v>> \in Entry
        BY Zenon DEF Entry
    <2>2. PICK a, b, e : a = Live(n.chunks) /\ b = Live(w.chunks) /\ e = <<k, v>>
        BY Zenon
    <2>3. a \in Seq(Entry) /\ b \in Seq(Entry) /\ Len(a) = l /\ Len(b) = l + 1
        BY <1>9, <1>10, <2>2, Zenon
    <2>4. e \in Entry /\ b[l + 1] = e /\ \A i \in 1 .. l : b[i] = a[i]
        BY <1>11, <1>12, <2>1, <2>2, Zenon
    <2>5. b = Append(a, e)
        BY <2>3, <2>4, AppendIs
    <2>. QED BY <2>2, <2>5, Zenon
<1>14. Listed(w)
    BY <1>8 DEF Listed
<1>. QED BY <1>9, <1>13, <1>14 DEF w

\* insertNew uses one more slot.
LEMMA WithNewUsed ==
    ASSUME NEW n, Well(n), NEW k \in Keys, NEW v \in Values
    PROVE  UsedSlots(n) \in Nat /\ UsedSlots(WithNew(n, k, v)) = UsedSlots(n) + 1
<1>. DEFINE w == WithNew(n, k, v)
<1>1. n.chunks \in Seq(Chunk) /\ n.nextOffset \in 0 .. ChunkSize /\ ChunkSize \in Nat
    BY WellFields, ChunkAssumption, Zenon
<1>2. w.chunks \in Seq(Chunk) /\ Len(w.chunks) = Len(Roomy(n)) /\ Len(Roomy(n)) \in Nat \ {0}
    BY WithNewSlots
<1>3. w.nextOffset = Offset(n)
    BY Zenon DEF WithNew, Placed, Offset
<1>. HIDE DEF w
<1>4. UsedSlots(w) = (Len(Roomy(n)) - 1) * ChunkSize + Offset(n)
    BY <1>2, <1>3, Zenon DEF UsedSlots
<1>5. CASE n.chunks = <<>>
    <2>1. Len(Roomy(n)) = 1 /\ Offset(n) = 1
        BY <1>5 DEF Roomy, Offset, Full
    <2>2. UsedSlots(n) = 0
        BY <1>5, Zenon DEF UsedSlots
    <2>3. UsedSlots(w) = 1
        BY <1>1, <1>4, <2>1
    <2>. QED BY <2>2, <2>3 DEF w
<1>6. CASE n.chunks # <<>>
    <2>1. PICK L \in Nat : L = Len(n.chunks) /\ L # 0
        BY <1>1, <1>6
    <2>2. UsedSlots(n) = (L - 1) * ChunkSize + n.nextOffset
        BY <1>6, <2>1, Zenon DEF UsedSlots
    <2>3. (L - 1) * ChunkSize \in Nat /\ L * ChunkSize = (L - 1) * ChunkSize + ChunkSize
        BY <1>1, <2>1
    <2>4. CASE Full(n)
        <3>1. n.nextOffset = ChunkSize /\ Len(Roomy(n)) = L + 1 /\ Offset(n) = 1
            BY <1>1, <1>6, <2>1, <2>4 DEF Roomy, Offset, Full
        <3>2. UsedSlots(w) = L * ChunkSize + 1
            BY <1>4, <2>1, <3>1
        <3>3. PICK a \in Nat : a = (L - 1) * ChunkSize
            BY <2>3, Zenon
        <3>. QED BY <1>1, <2>2, <2>3, <3>1, <3>2, <3>3 DEF w
    <2>5. CASE ~ Full(n)
        <3>1. Len(Roomy(n)) = L /\ Offset(n) = n.nextOffset + 1
            BY <2>1, <2>5, Zenon DEF Roomy, Offset
        <3>2. PICK a \in Nat : a = (L - 1) * ChunkSize
            BY <2>3, Zenon
        <3>. QED BY <1>1, <1>4, <2>2, <3>1, <3>2 DEF w
    <2>. QED BY <2>4, <2>5, Zenon
<1>. QED BY <1>5, <1>6, Zenon

\* insertNew of an absent key leaves a map in good order, of one more key.
LEMMA WithNewWell ==
    ASSUME NEW n, Well(n), NEW k \in Keys, NEW v \in Values, k \notin DOMAIN n.positions
    PROVE  /\ Well(WithNew(n, k, v))
           /\ DOMAIN WithNew(n, k, v).positions = DOMAIN n.positions \cup {k}
           /\ Cardinality(DOMAIN n.positions) \in Nat
           /\ Cardinality(DOMAIN WithNew(n, k, v).positions) = Cardinality(DOMAIN n.positions) + 1
<1>. DEFINE w == WithNew(n, k, v)  c == Len(Roomy(n))  o == Offset(n)  D == DOMAIN n.positions
<1>1. /\ w.chunks \in Seq(Chunk) /\ Len(w.chunks) = c /\ c \in Nat \ {0} /\ o \in Slots
      /\ w.chunks[c][o] = <<k, v>>
      /\ \A d \in 1 .. c, p \in Slots : <<d, p>> # <<c, o>> =>
            w.chunks[d][p] = IF d \in 1 .. Len(n.chunks) THEN n.chunks[d][p] ELSE <<>>
      /\ \A p \in Slots : p > o => w.chunks[c][p] = <<>>
      /\ c \in 1 .. Len(n.chunks) => n.chunks[c][o] = <<>>
      /\ Len(n.chunks) <= c
    BY WithNewSlots, Zenon
<1>2. /\ n.chunks \in Seq(Chunk) /\ DOMAIN n.chunks = 1 .. Len(n.chunks) /\ Len(n.chunks) \in Nat
      /\ D \in SUBSET Keys /\ n.positions \in [D -> Places]
    BY WellFields
<1>3. /\ w = [chunks |-> w.chunks, positions |-> w.positions, nextOffset |-> o]
      /\ w.positions = [j \in D \cup {k} |-> IF j = k THEN <<c, o>> ELSE n.positions[j]]
    BY Zenon DEF WithNew, Placed, Offset
<1>4. Exact(n) /\ IsFiniteSet(D) /\ k \notin D
    BY Zenon DEF Well
<1>. HIDE DEF w, c, o, D
<1>5. w.nextOffset = o
    BY <1>3
<1>6. DOMAIN w.positions = D \cup {k} /\ w.positions[k] = <<c, o>>
      /\ \A j \in D : w.positions[j] = n.positions[j]
    BY <1>3, <1>4, Zenon
<1>7. DOMAIN w.chunks = 1 .. c
    BY <1>1
<1>8. w \in Maps
    <2>1. o \in 0 .. ChunkSize
        BY <1>1, ChunkAssumption DEF Slots
    <2>2. <<c, o>> \in Places
        BY <1>1 DEF Places, Slots
    <2>3. w.positions \in [D \cup {k} -> Places]
        BY <1>2, <1>3, <2>2, Zenon
    <2>4. w.positions \in PosMap
        BY <1>2, <2>3 DEF PosMap
    <2>. QED BY <1>1, <1>3, <2>1, <2>4 DEF Maps
<1>9. Exact(w)
    <2>1. ASSUME NEW j \in D \cup {k}
          PROVE  LET s == w.positions[j] IN /\ s[1] \in 1 .. c /\ s[2] \in Slots
                                            /\ w.chunks[s[1]][s[2]] # <<>>
                                            /\ w.chunks[s[1]][s[2]][1] = j
        <3>1. CASE j = k
            <4>1. w.positions[j][1] = c /\ w.positions[j][2] = o
                BY <1>6, <3>1
            <4>2. w.chunks[c][o] # <<>> /\ w.chunks[c][o][1] = j
                <5>1. <<k, v>> # <<>> /\ <<k, v>>[1] = k
                    BY NotNothing, Zenon
                <5>. QED BY <1>1, <3>1, <5>1, Zenon
            <4>3. c \in 1 .. c /\ o \in Slots
                BY <1>1
            <4>. QED BY <4>1, <4>2, <4>3
        <3>2. CASE j \in D /\ j # k
            <4>1. PICK d, p : d = n.positions[j][1] /\ p = n.positions[j][2]
                OBVIOUS
            <4>2. d \in 1 .. Len(n.chunks) /\ p \in Slots /\ n.chunks[d][p] # <<>> /\ n.chunks[d][p][1] = j
                BY <1>2, <1>4, <3>2, <4>1, Zenon DEF Exact, D
            <4>3. d \in 1 .. c /\ <<d, p>> # <<c, o>>
                BY <1>1, <1>2, <4>2
            <4>4. w.chunks[d][p] = n.chunks[d][p]
                BY <1>1, <4>2, <4>3, Zenon
            <4>5. w.positions[j][1] = d /\ w.positions[j][2] = p
                BY <1>6, <3>2, <4>1, Zenon
            <4>. QED BY <4>2, <4>3, <4>4, <4>5, Zenon
        <3>. QED BY <3>1, <3>2, Zenon
    <2>2. ASSUME NEW d \in 1 .. c, NEW p \in Slots, w.chunks[d][p] # <<>>
          PROVE  w.chunks[d][p][1] \in D \cup {k} /\ w.positions[w.chunks[d][p][1]] = <<d, p>>
        <3>1. CASE <<d, p>> = <<c, o>>
            <4>1. d = c /\ p = o
                BY <3>1, Zenon
            <4>2. w.chunks[d][p][1] = k
                BY <1>1, <4>1
            <4>. QED BY <1>6, <4>1, <4>2, Zenon
        <3>2. CASE <<d, p>> # <<c, o>>
            <4>1. d \in 1 .. Len(n.chunks) /\ w.chunks[d][p] = n.chunks[d][p]
                BY <1>1, <2>2, <3>2, Zenon
            <4>2. n.chunks[d][p][1] \in D /\ n.positions[n.chunks[d][p][1]] = <<d, p>>
                BY <1>2, <1>4, <2>2, <4>1, Zenon DEF Exact, D
            <4>. QED BY <1>6, <4>1, <4>2, Zenon
        <3>. QED BY <3>1, <3>2, Zenon
    <2>. QED BY <1>6, <1>7, <2>1, <2>2, Zenon DEF Exact
<1>10. /\ IsFiniteSet(D \cup {k}) /\ Cardinality(D) \in Nat
       /\ Cardinality(D \cup {k}) = Cardinality(D) + 1
    BY <1>4, FS_AddElement, FS_CardinalityType, Zenon
<1>11. w.chunks # <<>> /\ w.nextOffset # 0
    BY <1>1, <1>5 DEF Slots
<1>12. Well(w)
    BY <1>1, <1>5, <1>6, <1>8, <1>9, <1>10, <1>11, Zenon DEF Well
<1>. QED BY <1>6, <1>10, <1>12, Zenon DEF w, D

(***************************************************************************)
(* InsertOrReplace of a live key.                                          *)
(***************************************************************************)
\* The map n with e in the slot where the live key k is.
Rewritten(n, k, e) == [n.chunks EXCEPT ![n.positions[k][1]][n.positions[k][2]] = e]

\* The chunks cs are those of n with e written to the slot <<c, o>> of the key k.
Wrote(n, k, e, cs, c, o) ==
    /\ cs \in Seq(Chunk) /\ Len(cs) = Len(n.chunks)
    /\ c \in 1 .. Len(n.chunks) /\ o \in Slots /\ n.positions[k] = <<c, o>>
    /\ n.chunks[c][o] # <<>> /\ n.chunks[c][o][1] = k
    /\ cs[c][o] = e
    /\ \A d \in 1 .. Len(n.chunks), p \in Slots :
          <<d, p>> # <<c, o>> => cs[d][p] = n.chunks[d][p]

\* Writing the slot of a live key writes that slot and no other.
LEMMA RewrittenSlots ==
    ASSUME NEW n, Well(n), NEW k \in DOMAIN n.positions, NEW e \in Entry \cup {<<>>}
    PROVE  Wrote(n, k, e, Rewritten(n, k, e), n.positions[k][1], n.positions[k][2])
<1>. DEFINE cs == Rewritten(n, k, e)  c == n.positions[k][1]  o == n.positions[k][2]
<1>1. n.chunks \in Seq(Chunk) /\ n.positions[k] \in Places /\ DOMAIN n.chunks = 1 .. Len(n.chunks)
    BY WellFields
<1>2. /\ c \in 1 .. Len(n.chunks) /\ o \in Slots
      /\ n.chunks[c][o] # <<>> /\ n.chunks[c][o][1] = k
    BY <1>1, Zenon DEF Well, Exact
<1>3. n.positions[k] = <<c, o>>
    BY <1>1 DEF Places
<1>4. cs = [n.chunks EXCEPT ![c][o] = e]
    BY Zenon DEF Rewritten
<1>. HIDE DEF cs, c, o
<1>5. PICK ch : ch = [n.chunks[c] EXCEPT ![o] = e]
    BY Zenon
<1>6. n.chunks[c] \in Chunk
    BY <1>1, <1>2
<1>7. ch \in Chunk /\ ch[o] = e /\ \A p \in Slots : p # o => ch[p] = n.chunks[c][p]
    BY <1>2, <1>5, <1>6 DEF Chunk
<1>8. cs = [n.chunks EXCEPT ![c] = ch]
    BY <1>4, <1>5
<1>9. /\ cs \in Seq(Chunk) /\ Len(cs) = Len(n.chunks) /\ cs[c] = ch
      /\ \A d \in 1 .. Len(n.chunks) : d # c => cs[d] = n.chunks[d]
    BY <1>1, <1>2, <1>7, <1>8
<1>10. Wrote(n, k, e, cs, c, o)
    BY <1>2, <1>3, <1>7, <1>9, Zenon DEF Wrote
<1>. QED BY <1>10, Zenon DEF cs, c, o

\* The index at which the live entries have the key k is the one of its slot.
LEMMA IndexOfKey ==
    ASSUME NEW n, Well(n), NEW l \in Nat, NEW q, Enum(q, FilledSlots(n.chunks), l), NEW k
    PROVE  /\ k \in DOMAIN n.positions <=> \E i \in 1 .. l : Live(n.chunks)[i][1] = k
           /\ \A i \in 1 .. l : Live(n.chunks)[i][1] = k => n.positions[k] = q[i]
           /\ \A i, j \in 1 .. l : Live(n.chunks)[i][1] = k /\ Live(n.chunks)[j][1] = k => i = j
<1>1. n.chunks \in Seq(Chunk) /\ DOMAIN n.chunks = 1 .. Len(n.chunks)
    BY WellFields
<1>2. Live(n.chunks) = [i \in 1 .. l |-> n.chunks[q[i][1]][q[i][2]]]
    BY <1>1, LiveIs
<1>3. ASSUME NEW i \in 1 .. l, Live(n.chunks)[i][1] = k
      PROVE  k \in DOMAIN n.positions /\ n.positions[k] = q[i]
    <2>1. q[i] \in FilledSlots(n.chunks)
        BY Zenon DEF Enum
    <2>2. PICK d \in 1 .. Len(n.chunks), p \in Slots : q[i] = <<d, p>> /\ n.chunks[d][p] # <<>>
        BY <2>1 DEF FilledSlots
    <2>3. n.chunks[d][p][1] = k
        <3>1. q[i][1] = d /\ q[i][2] = p
            BY <2>2
        <3>. QED BY <1>2, <1>3, <3>1, Zenon
    <2>. QED BY <1>1, <2>2, <2>3 DEF Well, Exact
<1>4. ASSUME k \in DOMAIN n.positions  PROVE \E i \in 1 .. l : Live(n.chunks)[i][1] = k
    <2>1. PICK d, p : d = n.positions[k][1] /\ p = n.positions[k][2]
        OBVIOUS
    <2>2. d \in 1 .. Len(n.chunks) /\ p \in Slots /\ n.chunks[d][p] # <<>> /\ n.chunks[d][p][1] = k
        BY <1>1, <1>4, <2>1, Zenon DEF Well, Exact
    <2>3. <<d, p>> \in FilledSlots(n.chunks)
        BY <2>2, Zenon DEF FilledSlots
    <2>4. PICK i \in 1 .. l : q[i] = <<d, p>>
        BY <2>3, Zenon DEF Enum
    <2>5. q[i][1] = d /\ q[i][2] = p
        BY <2>4
    <2>. QED BY <1>2, <2>2, <2>5, Zenon
<1>5. FilledSlots(n.chunks) \in SUBSET Places
    BY <1>1, FilledArePlaces, Zenon
<1>6. \A i, j \in 1 .. l : q[i] = q[j] => i = j
    BY <1>5, EnumInjective, Zenon
<1>. QED BY <1>3, <1>4, <1>6

\* InsertOrReplace of a live key leaves a map in good order, with the new value
\* at the old place in the order.
LEMMA ReplaceLive ==
    ASSUME NEW n, Well(n), Listed(n), NEW k \in DOMAIN n.positions, NEW v \in Values,
           NEW r, r = [chunks |-> Rewritten(n, k, <<k, v>>), positions |-> n.positions,
                       nextOffset |-> n.nextOffset]
    PROVE  /\ Well(r) /\ Listed(r) /\ r.positions = n.positions /\ UsedSlots(r) = UsedSlots(n)
           /\ \A i \in DOMAIN Live(n.chunks) : Live(n.chunks)[i][1] = k =>
                 Live(r.chunks) = [Live(n.chunks) EXCEPT ![i] = <<k, v>>]
<1>. DEFINE c == n.positions[k][1]  o == n.positions[k][2]
<1>1. /\ n.chunks \in Seq(Chunk) /\ DOMAIN n.chunks = 1 .. Len(n.chunks)
      /\ n = [chunks |-> n.chunks, positions |-> n.positions, nextOffset |-> n.nextOffset]
      /\ k \in Keys
    BY WellFields
<1>2. /\ r = [chunks |-> r.chunks, positions |-> n.positions, nextOffset |-> n.nextOffset]
      /\ r.chunks = Rewritten(n, k, <<k, v>>)
    OBVIOUS
<1>3. /\ r.chunks \in Seq(Chunk) /\ Len(r.chunks) = Len(n.chunks)
      /\ c \in 1 .. Len(n.chunks) /\ o \in Slots /\ n.positions[k] = <<c, o>>
      /\ n.chunks[c][o] # <<>> /\ n.chunks[c][o][1] = k
      /\ r.chunks[c][o] = <<k, v>>
      /\ \A d \in 1 .. Len(n.chunks), p \in Slots :
            <<d, p>> # <<c, o>> => r.chunks[d][p] = n.chunks[d][p]
    <2>1. <<k, v>> \in Entry \cup {<<>>}
        BY <1>1, Zenon DEF Entry
    <2>2. Wrote(n, k, <<k, v>>, r.chunks, c, o)
        BY <1>2, <2>1, RewrittenSlots, Zenon
    <2>. HIDE DEF c, o
    <2>. QED BY <2>2, Zenon DEF Wrote
<1>. HIDE DEF c, o
<1>4. r.positions = n.positions /\ r.nextOffset = n.nextOffset
    BY <1>2, Zenon
<1>5. <<k, v>> # <<>> /\ <<k, v>>[1] = k
    BY NotNothing, Zenon
<1>6. \A d \in 1 .. Len(n.chunks), p \in Slots :
          /\ r.chunks[d][p] # <<>> <=> n.chunks[d][p] # <<>>
          /\ n.chunks[d][p] # <<>> => r.chunks[d][p][1] = n.chunks[d][p][1]
    <2>. TAKE d \in 1 .. Len(n.chunks), p \in Slots
    <2>1. CASE <<d, p>> = <<c, o>>
        <3>1. d = c /\ p = o
            BY <2>1, Zenon
        <3>. QED BY <1>3, <1>5, <3>1, Zenon
    <2>2. CASE <<d, p>> # <<c, o>>
        BY <1>3, <2>2, Zenon
    <2>. QED BY <2>1, <2>2, Zenon
<1>7. FilledSlots(r.chunks) = FilledSlots(n.chunks)
    <2>1. \A s \in (1 .. Len(n.chunks)) \X Slots :
              r.chunks[s[1]][s[2]] # <<>> <=> n.chunks[s[1]][s[2]] # <<>>
        BY <1>6, Zenon
    <2>. QED BY <1>3, <2>1, Zenon DEF FilledSlots
<1>8. DOMAIN r.chunks = 1 .. Len(n.chunks)
    BY <1>3
<1>9. Exact(r)
    <2>1. Exact(n)
        BY Zenon DEF Well
    <2>2. ASSUME NEW j \in DOMAIN r.positions
          PROVE  LET s == r.positions[j] IN /\ s[1] \in DOMAIN r.chunks /\ s[2] \in Slots
                                            /\ r.chunks[s[1]][s[2]] # <<>>
                                            /\ r.chunks[s[1]][s[2]][1] = j
        <3>1. PICK d, p : d = n.positions[j][1] /\ p = n.positions[j][2]
            OBVIOUS
        <3>2. d \in 1 .. Len(n.chunks) /\ p \in Slots /\ n.chunks[d][p] # <<>> /\ n.chunks[d][p][1] = j
            BY <1>1, <1>4, <2>1, <3>1, Zenon DEF Exact
        <3>3. r.positions[j][1] = d /\ r.positions[j][2] = p
            BY <1>4, <3>1, Zenon
        <3>4. r.chunks[d][p] # <<>> /\ r.chunks[d][p][1] = j
            BY <1>6, <3>2, Zenon
        <3>. QED BY <1>8, <3>2, <3>3, <3>4, Zenon
    <2>3. ASSUME NEW d \in DOMAIN r.chunks, NEW p \in Slots, r.chunks[d][p] # <<>>
          PROVE  /\ r.chunks[d][p][1] \in DOMAIN r.positions
                 /\ r.positions[r.chunks[d][p][1]] = <<d, p>>
        <3>0. d \in 1 .. Len(n.chunks)
            BY <1>8, Zenon
        <3>1. n.chunks[d][p] # <<>> /\ r.chunks[d][p][1] = n.chunks[d][p][1]
            BY <1>6, <2>3, <3>0
        <3>2. PICK x : x = n.chunks[d][p][1]
            OBVIOUS
        <3>3. x \in DOMAIN n.positions /\ n.positions[x] = <<d, p>>
            BY <1>1, <2>1, <3>0, <3>1, <3>2, Zenon DEF Exact
        <3>. QED BY <1>4, <3>1, <3>2, <3>3, Zenon
    <2>. QED BY <2>2, <2>3, Zenon DEF Exact
<1>10. r \in Maps
    BY <1>2, <1>3, Zenon DEF Well, Maps
<1>11. r.chunks = <<>> <=> n.chunks = <<>>
    BY <1>1, <1>3
<1>12. n.chunks # <<>> => \A p \in Slots : p > n.nextOffset => r.chunks[Len(r.chunks)][p] = <<>>
    <2>. SUFFICES ASSUME n.chunks # <<>>, NEW p \in Slots, p > n.nextOffset
                  PROVE  r.chunks[Len(r.chunks)][p] = <<>>
        OBVIOUS
    <2>1. Len(n.chunks) \in 1 .. Len(n.chunks) /\ Len(r.chunks) = Len(n.chunks)
        BY <1>1, <1>3
    <2>2. n.chunks[Len(n.chunks)][p] = <<>>
        BY Zenon DEF Well
    <2>. QED BY <1>6, <2>1, <2>2
<1>13. Well(r)
    BY <1>4, <1>9, <1>10, <1>11, <1>12, Zenon DEF Well
<1>14a. PICK l \in Nat : \E q : Enum(q, FilledSlots(n.chunks), l)
    BY Zenon DEF Listed
<1>14. PICK q : Enum(q, FilledSlots(n.chunks), l)
    BY <1>14a, Zenon
<1>15. Listed(r)
    BY <1>7, <1>14, Zenon DEF Listed
<1>16. UsedSlots(r) = UsedSlots(n)
    BY <1>3, <1>4, <1>11 DEF UsedSlots
<1>17. /\ Live(n.chunks) = [i \in 1 .. l |-> n.chunks[q[i][1]][q[i][2]]]
       /\ Live(r.chunks) = [i \in 1 .. l |-> r.chunks[q[i][1]][q[i][2]]]
    <2>1. Live(n.chunks) = [i \in 1 .. l |-> n.chunks[q[i][1]][q[i][2]]]
        BY <1>1, <1>14, LiveIs
    <2>2. Enum(q, FilledSlots(r.chunks), l) /\ r.chunks \in Seq(Chunk)
        BY <1>3, <1>7, <1>14, Zenon
    <2>3. Live(r.chunks) = [i \in 1 .. l |-> r.chunks[q[i][1]][q[i][2]]]
        <3>1. PICK cs : cs = r.chunks
            OBVIOUS
        <3>2. Enum(q, FilledSlots(cs), l) /\ cs \in Seq(Chunk)
            BY <2>2, <3>1, Zenon
        <3>3. Live(cs) = [i \in 1 .. l |-> cs[q[i][1]][q[i][2]]]
            BY <3>2, LiveIs
        <3>. QED BY <3>1, <3>3, Zenon
    <2>. QED BY <2>1, <2>3, Zenon
<1>18. ASSUME NEW i \in 1 .. l, Live(n.chunks)[i][1] = k
       PROVE  Live(r.chunks) = [Live(n.chunks) EXCEPT ![i] = <<k, v>>]
    <2>1. q[i] = <<c, o>>
        BY <1>3, <1>14, <1>18, IndexOfKey
    <2>2. ASSUME NEW j \in 1 .. l
          PROVE  r.chunks[q[j][1]][q[j][2]] =
                    IF j = i THEN <<k, v>> ELSE n.chunks[q[j][1]][q[j][2]]
        <3>1. CASE j = i
            <4>1. q[j][1] = c /\ q[j][2] = o
                BY <2>1, <3>1
            <4>. QED BY <1>3, <3>1, <4>1, Zenon
        <3>2. CASE j # i
            <4>1. \A a, b \in 1 .. l : q[a] = q[b] => a = b
                <5>1. FilledSlots(n.chunks) \in SUBSET Places
                    BY <1>1, FilledArePlaces, Zenon
                <5>. QED BY <1>14, <5>1, EnumInjective, Zenon
            <4>2. q[j] \in FilledSlots(n.chunks) /\ q[j] # <<c, o>>
                BY <1>14, <2>1, <3>2, <4>1 DEF Enum
            <4>3. PICK d \in 1 .. Len(n.chunks), p \in Slots : q[j] = <<d, p>>
                BY <4>2 DEF FilledSlots
            <4>4. r.chunks[d][p] = n.chunks[d][p]
                BY <1>3, <4>2, <4>3, Zenon
            <4>5. q[j][1] = d /\ q[j][2] = p
                BY <4>3
            <4>. QED BY <3>2, <4>4, <4>5, Zenon
        <3>. QED BY <3>1, <3>2, Zenon
    <2>3. PICK a, b : a = Live(n.chunks) /\ b = Live(r.chunks)
        OBVIOUS
    <2>4. a = [j \in 1 .. l |-> n.chunks[q[j][1]][q[j][2]]]
        BY <1>17, <2>3, Zenon
    <2>5. b = [j \in 1 .. l |-> r.chunks[q[j][1]][q[j][2]]]
        BY <1>17, <2>3, Zenon
    <2>6. \A j \in 1 .. l : b[j] = IF j = i THEN <<k, v>> ELSE a[j]
        BY <2>2, <2>4, <2>5, Zenon
    <2>7. b = [a EXCEPT ![i] = <<k, v>>]
        BY <2>4, <2>5, <2>6, Zenon
    <2>. QED BY <2>3, <2>7, Zenon
<1>19. DOMAIN Live(n.chunks) = 1 .. l
    BY <1>17, Zenon
<1>. QED BY <1>4, <1>13, <1>15, <1>16, <1>18, <1>19, Zenon

(***************************************************************************)
(* Delete, up to compactIfNeeded.                                          *)
(***************************************************************************)
\* The map n without the live key k.
Without(n, k) ==
    [chunks |-> Rewritten(n, k, <<>>),
     positions |-> [j \in DOMAIN n.positions \ {k} |-> n.positions[j]],
     nextOffset |-> n.nextOffset]

\* The fields of the map without k.
LEMMA WithoutFields ==
    ASSUME NEW n, Well(n), NEW k \in DOMAIN n.positions
    PROVE  /\ Without(n, k).chunks = Rewritten(n, k, <<>>)
           /\ Without(n, k).nextOffset = n.nextOffset
           /\ DOMAIN Without(n, k).positions = DOMAIN n.positions \ {k}
           /\ \A j \in DOMAIN n.positions \ {k} : Without(n, k).positions[j] = n.positions[j]
BY Zenon DEF Without

\* T is S without s.
Lost(S, T, s) == \A t : t \in T <=> t \in S /\ t # s

\* Delete empties the slot of the key and leaves the others alone.
LEMMA WithoutSlots ==
    ASSUME NEW n, Well(n), NEW k \in DOMAIN n.positions,
           NEW c, c = n.positions[k][1], NEW o, o = n.positions[k][2]
    PROVE  /\ Wrote(n, k, <<>>, Without(n, k).chunks, c, o)
           /\ Lost(FilledSlots(n.chunks), FilledSlots(Without(n, k).chunks), <<c, o>>)
           /\ <<c, o>> \in FilledSlots(n.chunks)
<1>1. PICK cs : cs = Without(n, k).chunks
    OBVIOUS
<1>2. Wrote(n, k, <<>>, cs, c, o)
    <2>1. Wrote(n, k, <<>>, Rewritten(n, k, <<>>), n.positions[k][1], n.positions[k][2])
        BY RewrittenSlots, Zenon
    <2>. QED BY <1>1, <2>1, WithoutFields
<1>3. \A s \in (1 .. Len(n.chunks)) \X Slots :
          cs[s[1]][s[2]] # <<>> <=> n.chunks[s[1]][s[2]] # <<>> /\ s # <<c, o>>
    <2>. TAKE s \in (1 .. Len(n.chunks)) \X Slots
    <2>1. PICK d \in 1 .. Len(n.chunks), p \in Slots : s = <<d, p>>
        OBVIOUS
    <2>2. CASE s = <<c, o>>
        <3>1. d = c /\ p = o
            BY <2>1, <2>2
        <3>. QED BY <1>2, <2>1, <2>2, <3>1 DEF Wrote
    <2>3. CASE s # <<c, o>>
        <3>1. cs[d][p] = n.chunks[d][p]
            BY <1>2, <2>1, <2>3 DEF Wrote
        <3>. QED BY <2>1, <2>3, <3>1
    <2>. QED BY <2>2, <2>3
<1>4. Len(cs) = Len(n.chunks)
    BY <1>2, Zenon DEF Wrote
<1>5. Lost(FilledSlots(n.chunks), FilledSlots(cs), <<c, o>>)
    BY <1>3, <1>4, Zenon DEF FilledSlots, Lost
<1>6. <<c, o>> \in FilledSlots(n.chunks)
    <2>1. c \in 1 .. Len(n.chunks) /\ o \in Slots /\ n.chunks[c][o] # <<>>
        BY <1>2, Zenon DEF Wrote
    <2>. QED BY <2>1, Zenon DEF FilledSlots
<1>. QED BY <1>1, <1>2, <1>5, <1>6

\* Delete of a live key leaves a map in good order, of one key less, that uses
\* as many slots.
LEMMA WithoutWell ==
    ASSUME NEW n, Well(n), NEW k \in DOMAIN n.positions
    PROVE  /\ Well(Without(n, k)) /\ UsedSlots(Without(n, k)) = UsedSlots(n)
           /\ Cardinality(DOMAIN n.positions) \in Nat
           /\ Cardinality(DOMAIN Without(n, k).positions) = Cardinality(DOMAIN n.positions) - 1
<1>1. PICK r, c, o : r = Without(n, k) /\ c = n.positions[k][1] /\ o = n.positions[k][2]
    OBVIOUS
<1>2. Wrote(n, k, <<>>, r.chunks, c, o)
    BY <1>1, WithoutSlots, Zenon
<1>3. /\ r.nextOffset = n.nextOffset
      /\ DOMAIN r.positions = DOMAIN n.positions \ {k}
      /\ \A j \in DOMAIN r.positions : r.positions[j] = n.positions[j]
    BY <1>1, WithoutFields
<1>4. /\ n.chunks \in Seq(Chunk) /\ DOMAIN n.chunks = 1 .. Len(n.chunks)
      /\ DOMAIN n.positions \in SUBSET Keys /\ n.positions \in [DOMAIN n.positions -> Places]
      /\ n.nextOffset \in 0 .. ChunkSize
    BY WellFields
<1>5. r.chunks \in Seq(Chunk) /\ Len(r.chunks) = Len(n.chunks) /\ DOMAIN r.chunks = 1 .. Len(n.chunks)
    BY <1>2 DEF Wrote
<1>6. r \in Maps
    <2>1. r.positions \in [DOMAIN n.positions \ {k} -> Places]
        BY <1>1, <1>4, Zenon DEF Without
    <2>2. r.positions \in PosMap
        BY <1>4, <2>1, Zenon DEF PosMap
    <2>3. r = [chunks |-> r.chunks, positions |-> r.positions, nextOffset |-> n.nextOffset]
        BY <1>1, Zenon DEF Without
    <2>. QED BY <1>4, <1>5, <2>2, <2>3 DEF Maps
<1>7. Exact(n) /\ IsFiniteSet(DOMAIN n.positions)
    BY Zenon DEF Well
<1>8. Exact(r)
    <2>1. ASSUME NEW j \in DOMAIN r.positions
          PROVE  LET s == r.positions[j] IN /\ s[1] \in DOMAIN r.chunks /\ s[2] \in Slots
                                            /\ r.chunks[s[1]][s[2]] # <<>>
                                            /\ r.chunks[s[1]][s[2]][1] = j
        <3>1. PICK d, p : d = n.positions[j][1] /\ p = n.positions[j][2]
            OBVIOUS
        <3>2. j \in DOMAIN n.positions /\ j # k
            BY <1>3, Zenon
        <3>3. d \in 1 .. Len(n.chunks) /\ p \in Slots /\ n.chunks[d][p] # <<>> /\ n.chunks[d][p][1] = j
            BY <1>4, <1>7, <3>1, <3>2, Zenon DEF Exact
        <3>4. <<d, p>> # <<c, o>>
            <4>1. n.chunks[c][o][1] = k
                BY <1>2, Zenon DEF Wrote
            <4>. QED BY <3>2, <3>3, <4>1, Zenon
        <3>5. r.chunks[d][p] = n.chunks[d][p]
            BY <1>2, <3>3, <3>4 DEF Wrote
        <3>6. r.positions[j][1] = d /\ r.positions[j][2] = p
            BY <1>3, <3>1, Zenon
        <3>. QED BY <1>5, <3>3, <3>5, <3>6
    <2>2. ASSUME NEW d \in DOMAIN r.chunks, NEW p \in Slots, r.chunks[d][p] # <<>>
          PROVE  /\ r.chunks[d][p][1] \in DOMAIN r.positions
                 /\ r.positions[r.chunks[d][p][1]] = <<d, p>>
        <3>1. d \in 1 .. Len(n.chunks)
            BY <1>5, Zenon
        <3>2. <<d, p>> # <<c, o>>
            BY <1>2, <2>2, Zenon DEF Wrote
        <3>3. r.chunks[d][p] = n.chunks[d][p]
            BY <1>2, <3>1, <3>2 DEF Wrote
        <3>4. PICK x : x = n.chunks[d][p][1]
            OBVIOUS
        <3>5. x \in DOMAIN n.positions /\ n.positions[x] = <<d, p>>
            BY <1>4, <1>7, <2>2, <3>1, <3>3, <3>4, Zenon DEF Exact
        <3>6. n.positions[k] = <<c, o>>
            BY <1>2 DEF Wrote
        <3>7. x # k
            BY <3>2, <3>5, <3>6
        <3>. QED BY <1>3, <3>3, <3>4, <3>5, <3>7, Zenon
    <2>. QED BY <2>1, <2>2, Zenon DEF Exact
<1>9. /\ IsFiniteSet(DOMAIN n.positions \ {k}) /\ Cardinality(DOMAIN n.positions) \in Nat
      /\ Cardinality(DOMAIN n.positions \ {k}) = Cardinality(DOMAIN n.positions) - 1
    BY <1>7, FS_RemoveElement, FS_CardinalityType
<1>10. r.chunks = <<>> <=> n.chunks = <<>>
    BY <1>4, <1>5
<1>11. n.chunks # <<>> => \A p \in Slots : p > n.nextOffset => r.chunks[Len(r.chunks)][p] = <<>>
    <2>1. SUFFICES ASSUME n.chunks # <<>>, NEW p \in Slots, p > n.nextOffset
                   PROVE  r.chunks[Len(n.chunks)][p] = <<>>
        BY <1>5, Zenon
    <2>2. Len(n.chunks) \in 1 .. Len(n.chunks) /\ n.chunks[Len(n.chunks)][p] = <<>>
        BY <1>4, <2>1 DEF Well
    <2>3. <<Len(n.chunks), p>> # <<c, o>>
        BY <1>2, <2>2 DEF Wrote
    <2>. QED BY <1>2, <2>2, <2>3, Zenon DEF Wrote
<1>12. n.nextOffset = 0 <=> n.chunks = <<>>
    BY Zenon DEF Well
<1>13. Well(r)
    BY <1>3, <1>6, <1>8, <1>9, <1>10, <1>11, <1>12 DEF Well
<1>14. UsedSlots(r) = UsedSlots(n)
    BY <1>3, <1>5, <1>10 DEF UsedSlots
<1>. QED BY <1>1, <1>3, <1>9, <1>13, <1>14

\* The length of a concatenation.
LEMMA ConcatIs ==
    ASSUME NEW S, NEW x \in Seq(S), NEW y \in Seq(S)
    PROVE  (x \o y) \in Seq(S) /\ Len(x \o y) = Len(x) + Len(y)
OBVIOUS

\* The sequence s without its element i.
RemoveAt(s, i) == SubSeq(s, 1, i - 1) \o SubSeq(s, i + 1, Len(s))

\* What RemoveAt leaves.
LEMMA RemoveAtIs ==
    ASSUME NEW a \in Seq(Entry), NEW l \in Nat, Len(a) = l, NEW i \in 1 .. l
    PROVE  RemoveAt(a, i) = [j \in 1 .. l - 1 |-> IF j < i THEN a[j] ELSE a[j + 1]]
<1>. DEFINE x == SubSeq(a, 1, i - 1)  y == SubSeq(a, i + 1, l)
<1>1. x \in Seq(Entry) /\ Len(x) = i - 1 /\ \A j \in 1 .. i - 1 : x[j] = a[j]
    OBVIOUS
<1>2. y \in Seq(Entry) /\ Len(y) = l - i /\ \A j \in 1 .. l - i : y[j] = a[j + i]
    OBVIOUS
<1>3. RemoveAt(a, i) = x \o y
    BY Zenon DEF RemoveAt
<1>. HIDE DEF x, y
<1>4. (x \o y) \in Seq(Entry) /\ Len(x \o y) = l - 1
    <2>1. (x \o y) \in Seq(Entry) /\ Len(x \o y) = Len(x) + Len(y)
        BY <1>1, <1>2, ConcatIs, Zenon
    <2>. QED BY <1>1, <1>2, <2>1
<1>5. \A j \in 1 .. l - 1 : (x \o y)[j] = IF j < i THEN a[j] ELSE a[j + 1]
    <2>. TAKE j \in 1 .. l - 1
    <2>1. CASE j < i
        BY <1>1, <1>2, <2>1
    <2>2. CASE ~ (j < i)
        <3>1. (x \o y)[j] = y[j - (i - 1)]
            BY <1>1, <1>2, <2>2
        <3>2. j - (i - 1) \in 1 .. l - i /\ (j - (i - 1)) + i = j + 1
            BY <2>2
        <3>. QED BY <1>2, <2>2, <3>1, <3>2, Zenon
    <2>. QED BY <2>1, <2>2, Zenon
<1>6. x \o y = [j \in 1 .. l - 1 |-> (x \o y)[j]]
    <2>1. PICK z : z = x \o y
        BY Zenon
    <2>2. z \in Seq(Entry) /\ Len(z) = l - 1
        BY <1>4, <2>1, Zenon
    <2>3. z = [j \in 1 .. l - 1 |-> z[j]]
        BY <2>2
    <2>. QED BY <2>1, <2>3, Zenon
<1>. QED BY <1>3, <1>5, <1>6

\* Delete of a live key removes its entry and keeps the order of the others.
LEMMA WithoutLive ==
    ASSUME NEW n, Well(n), Listed(n), NEW k \in DOMAIN n.positions
    PROVE  /\ Listed(Without(n, k))
           /\ \A i \in DOMAIN Live(n.chunks) : Live(n.chunks)[i][1] = k =>
                 Live(Without(n, k).chunks) = RemoveAt(Live(n.chunks), i)
<1>1. PICK cs, c, o : cs = Without(n, k).chunks /\ c = n.positions[k][1] /\ o = n.positions[k][2]
    OBVIOUS
<1>2. /\ Wrote(n, k, <<>>, cs, c, o)
      /\ \A s : s \in FilledSlots(cs) <=> s \in FilledSlots(n.chunks) /\ s # <<c, o>>
      /\ <<c, o>> \in FilledSlots(n.chunks)
    <2>1. Wrote(n, k, <<>>, Without(n, k).chunks, c, o)
        BY <1>1, WithoutSlots, Zenon
    <2>2. Lost(FilledSlots(n.chunks), FilledSlots(Without(n, k).chunks), <<c, o>>)
        BY <1>1, WithoutSlots, Zenon
    <2>3. <<c, o>> \in FilledSlots(n.chunks)
        BY <1>1, WithoutSlots, Zenon
    <2>. QED BY <1>1, <2>1, <2>2, <2>3, Zenon DEF Lost
<1>3. n.chunks \in Seq(Chunk) /\ cs \in Seq(Chunk) /\ n.positions[k] = <<c, o>>
    BY <1>2, WellFields, Zenon DEF Wrote
<1>4a. PICK l \in Nat : \E q : Enum(q, FilledSlots(n.chunks), l)
    BY Zenon DEF Listed
<1>4. PICK q : Enum(q, FilledSlots(n.chunks), l)
    BY <1>4a, Zenon
<1>5. /\ q \in [1 .. l -> FilledSlots(n.chunks)]
      /\ \A i, j \in 1 .. l : i < j => Before(q[i], q[j])
      /\ \A s \in FilledSlots(n.chunks) : \E i \in 1 .. l : q[i] = s
    BY <1>4, Zenon DEF Enum
<1>6. \A i, j \in 1 .. l : q[i] = q[j] => i = j
    <2>1. FilledSlots(n.chunks) \in SUBSET Places
        BY <1>3, FilledArePlaces
    <2>. QED BY <1>4, <2>1, EnumInjective, Zenon
<1>7. PICK h \in 1 .. l : q[h] = <<c, o>>
    BY <1>2, <1>5, Zenon
<1>. DEFINE Up(j) == IF j < h THEN j ELSE j + 1
<1>8. \A j \in 1 .. l - 1 : Up(j) \in 1 .. l /\ Up(j) # h
    OBVIOUS
<1>9. \A i, j \in 1 .. l - 1 : i < j => Up(i) < Up(j)
    OBVIOUS
<1>10. \A i \in 1 .. l : i # h => \E j \in 1 .. l - 1 : Up(j) = i
    <2>. TAKE i \in 1 .. l
    <2>1. CASE i < h
        BY <2>1
    <2>2. CASE i > h
        <3>1. i - 1 \in 1 .. l - 1 /\ Up(i - 1) = i
            BY <2>2
        <3>. QED BY <3>1, Zenon
    <2>. QED BY <2>1, <2>2
<1>. HIDE DEF Up
<1>11. PICK r : r = [j \in 1 .. l - 1 |-> q[Up(j)]]
    BY Zenon
<1>12. Enum(r, FilledSlots(cs), l - 1)
    <2>1. l - 1 \in Nat
        BY <1>7
    <2>2. ASSUME NEW j \in 1 .. l - 1  PROVE q[Up(j)] \in FilledSlots(cs)
        <3>1. q[Up(j)] \in FilledSlots(n.chunks)
            BY <1>5, <1>8, Zenon
        <3>2. q[Up(j)] # <<c, o>>
            BY <1>6, <1>7, <1>8, Zenon
        <3>. QED BY <1>2, <3>1, <3>2, Zenon
    <2>3. r \in [1 .. l - 1 -> FilledSlots(cs)]
        BY <1>11, <2>2, Zenon
    <2>4. \A i, j \in 1 .. l - 1 : i < j => Before(r[i], r[j])
        BY <1>5, <1>8, <1>9, <1>11
    <2>5. ASSUME NEW s \in FilledSlots(cs)  PROVE \E j \in 1 .. l - 1 : r[j] = s
        <3>1. s \in FilledSlots(n.chunks) /\ s # <<c, o>>
            BY <1>2, Zenon
        <3>2. PICK i \in 1 .. l : q[i] = s
            BY <1>5, <3>1, Zenon
        <3>3. i # h
            BY <1>7, <3>1, <3>2, Zenon
        <3>4. PICK j \in 1 .. l - 1 : Up(j) = i
            BY <1>10, <3>3, Zenon
        <3>. QED BY <1>11, <3>2, <3>4
    <2>. QED BY <2>1, <2>3, <2>4, <2>5 DEF Enum
<1>13. l - 1 \in Nat
    BY <1>7
<1>14. Listed(Without(n, k))
    BY <1>1, <1>12, <1>13 DEF Listed
<1>15. PICK a, b : a = Live(n.chunks) /\ b = Live(cs)
    OBVIOUS
<1>16. a = [i \in 1 .. l |-> n.chunks[q[i][1]][q[i][2]]] /\ a \in Seq(Entry) /\ Len(a) = l
    <2>1. /\ Live(n.chunks) = [i \in 1 .. l |-> n.chunks[q[i][1]][q[i][2]]]
          /\ Live(n.chunks) \in Seq(Entry) /\ Len(Live(n.chunks)) = l
        BY <1>3, <1>4, LiveIs, Zenon
    <2>. QED BY <1>15, <2>1, Zenon
<1>17. b = [j \in 1 .. l - 1 |-> cs[r[j][1]][r[j][2]]]
    BY <1>3, <1>12, <1>13, <1>15, LiveIs
<1>18. ASSUME NEW j \in 1 .. l - 1  PROVE cs[r[j][1]][r[j][2]] = a[Up(j)]
    <2>1. r[j] = q[Up(j)] /\ Up(j) \in 1 .. l
        BY <1>8, <1>11, Zenon
    <2>2. q[Up(j)] \in FilledSlots(n.chunks) /\ q[Up(j)] # <<c, o>>
        BY <1>5, <1>6, <1>7, <1>8, Zenon
    <2>3. PICK d \in 1 .. Len(n.chunks), p \in Slots : q[Up(j)] = <<d, p>>
        BY <2>2 DEF FilledSlots
    <2>4. cs[d][p] = n.chunks[d][p]
        BY <1>2, <2>2, <2>3, Zenon DEF Wrote
    <2>5. r[j][1] = d /\ r[j][2] = p /\ q[Up(j)][1] = d /\ q[Up(j)][2] = p
        BY <2>1, <2>3
    <2>6. a[Up(j)] = n.chunks[d][p]
        BY <1>16, <2>1, <2>5, Zenon
    <2>. QED BY <2>4, <2>5, <2>6, Zenon
<1>19. b = [j \in 1 .. l - 1 |-> a[Up(j)]]
    BY <1>17, <1>18, Zenon
<1>20. ASSUME NEW i \in 1 .. l, a[i][1] = k  PROVE b = RemoveAt(a, i)
    <2>1. q[i] = <<c, o>>
        <3>1. Live(n.chunks)[i][1] = k
            BY <1>15, <1>20, Zenon
        <3>2. n.positions[k] = q[i]
            BY <1>4, <3>1, IndexOfKey
        <3>. QED BY <1>3, <3>2, Zenon
    <2>2. i = h
        BY <1>6, <1>7, <2>1, Zenon
    <2>3. RemoveAt(a, h) = [j \in 1 .. l - 1 |-> IF j < h THEN a[j] ELSE a[j + 1]]
        BY <1>7, <1>16, RemoveAtIs, Zenon
    <2>4. \A j \in 1 .. l - 1 : a[Up(j)] = IF j < h THEN a[j] ELSE a[j + 1]
        BY Zenon DEF Up
    <2>. QED BY <1>19, <2>2, <2>3, <2>4, Zenon
<1>21. DOMAIN a = 1 .. l
    BY <1>16, Zenon
<1>. QED BY <1>1, <1>14, <1>15, <1>20, <1>21

(***************************************************************************)
(* compactIfNeeded.                                                        *)
(***************************************************************************)
\* One step of the loop of compactIfNeeded, f[i - 1] being the new map so far.
Step(live, f, i) == IF i = 0 THEN NewOrderedMap ELSE WithNew(f[i - 1], live[i][1], live[i][2])

\* f holds the new map after each step.
IsLoop(live, f, l) == f = [i \in 0 .. l |-> Step(live, f, i)]

\* The loop of compactIfNeeded runs to its end.
LEMMA LoopExists ==
    ASSUME NEW live, NEW l \in Nat
    PROVE  \E f : IsLoop(live, f, l)
<1>. DEFINE P(i) == \E f : IsLoop(live, f, i)
            Bad == {i \in Nat : ~P(i)}
<1>1. ASSUME Bad # {}  PROVE FALSE
    <2>1. PICK i \in Bad : \A j \in Bad : i <= j
        <3>. HIDE DEF P
        <3>1. Bad \in SUBSET Nat
            OBVIOUS
        <3>. HIDE DEF Bad
        <3>. QED BY <1>1, <3>1, LeastNat, Zenon
    <2>2. i \in Nat /\ ~P(i)
        OBVIOUS
    <2>3. CASE i = 0
        <3>. DEFINE f == [j \in 0 .. 0 |-> NewOrderedMap]
        <3>1. IsLoop(live, f, 0)
            BY DEF IsLoop, Step
        <3>. HIDE DEF f
        <3>2. P(0)
            BY <3>1, Zenon
        <3>. HIDE DEF P
        <3>. QED BY <2>2, <2>3, <3>2, Zenon
    <2>4. CASE i # 0
        <3>1. i - 1 \in Nat /\ ~(i <= i - 1)
            BY <2>2, <2>4
        <3>2. P(i - 1)
            <4>. HIDE DEF P
            <4>. QED BY <2>1, <3>1, Zenon
        <3>3. PICK g : IsLoop(live, g, i - 1)
            BY <3>2, Zenon
        <3>4. g = [j \in 0 .. i - 1 |-> Step(live, g, j)]
            BY <3>3, Zenon DEF IsLoop
        <3>5. PICK f : f = [j \in 0 .. i |-> IF j = i THEN Step(live, g, i) ELSE g[j]]
            BY Zenon
        <3>6. /\ f[i] = Step(live, g, i)
              /\ \A j \in 0 .. i - 1 : f[j] = g[j]
            BY <2>2, <3>5
        <3>7. ASSUME NEW j \in 0 .. i  PROVE f[j] = Step(live, f, j)
            <4>1. j = 0 \/ j - 1 \in 0 .. i - 1
                BY <2>2
            <4>2. Step(live, f, j) = Step(live, g, j)
                BY <3>6, <4>1, Zenon DEF Step
            <4>3. CASE j = i
                BY <3>6, <4>2, <4>3, Zenon
            <4>4. CASE j # i
                <5>1. j \in 0 .. i - 1
                    BY <2>2, <4>4
                <5>2. g[j] = Step(live, g, j)
                    BY <3>4, <5>1, Zenon
                <5>. QED BY <3>6, <4>2, <5>1, <5>2, Zenon
            <4>. QED BY <4>3, <4>4, Zenon
        <3>8. f = [j \in 0 .. i |-> f[j]]
            BY <3>5, Zenon
        <3>9. IsLoop(live, f, i)
            BY <3>7, <3>8, Zenon DEF IsLoop
        <3>10. P(i)
            BY <3>9, Zenon
        <3>. HIDE DEF P
        <3>. QED BY <2>2, <3>10, Zenon
    <2>. QED BY <2>3, <2>4, Zenon
<1>2. P(l)
    <2>. HIDE DEF P
    <2>. QED BY <1>1, Zenon
<1>. QED BY <1>2, Zenon

\* Compacted is the new map at the end of the loop.
LEMMA CompactedIs ==
    ASSUME NEW n, NEW live \in Seq(Entry), live = Live(n.chunks), NEW l \in Nat, l = Len(live)
    PROVE  \E f : IsLoop(live, f, l) /\ Compacted(n) = f[l]
<1>1. PICK f : f = CHOOSE g : g = [i \in 0 .. l |-> Step(live, g, i)]
    OBVIOUS
<1>2. \E g : g = [i \in 0 .. l |-> Step(live, g, i)]
    <2>1. PICK g : IsLoop(live, g, l)
        BY LoopExists, Zenon
    <2>. QED BY <2>1, Zenon DEF IsLoop
<1>3. f = [i \in 0 .. l |-> Step(live, f, i)]
    BY <1>1, <1>2, Zenon
<1>4. Compacted(n) = f[l]
    BY <1>1 DEF Compacted, Step
<1>. QED BY <1>3, <1>4, Zenon DEF IsLoop

\* After i steps the new map is in good order and holds the first i entries.
Copied(live, w, i) ==
    /\ Well(w) /\ Listed(w)
    /\ Live(w.chunks) \in Seq(Entry) /\ Len(Live(w.chunks)) = i
    /\ \A j \in 1 .. i : Live(w.chunks)[j] = live[j]
    /\ DOMAIN w.positions = {live[j][1] : j \in 1 .. i}
    /\ UsedSlots(w) = i /\ Cardinality(DOMAIN w.positions) = i

\* A step of the loop copies one more entry.
LEMMA CopyStep ==
    ASSUME NEW live \in Seq(Entry), NEW i \in 1 .. Len(live), NEW w, Copied(live, w, i - 1),
           \A a, b \in 1 .. Len(live) : live[a][1] = live[b][1] => a = b
    PROVE  Copied(live, WithNew(w, live[i][1], live[i][2]), i)
<1>1. Len(live) \in Nat /\ i \in Nat /\ i - 1 \in Nat /\ live[i] \in Entry
    OBVIOUS
<1>2. PICK k \in Keys, v \in Values : live[i] = <<k, v>>
    BY <1>1 DEF Entry
<1>3. live[i][1] = k /\ live[i][2] = v
    BY <1>2
<1>4. k \notin DOMAIN w.positions
    <2>1. SUFFICES ASSUME NEW j \in 1 .. i - 1, live[j][1] = k  PROVE FALSE
        BY Zenon DEF Copied
    <2>2. j \in 1 .. Len(live) /\ j # i
        BY <1>1
    <2>. QED BY <1>3, <2>1, <2>2, Zenon
<1>5. Well(w) /\ Listed(w)
    BY Zenon DEF Copied
<1>6. PICK x : x = WithNew(w, k, v)
    OBVIOUS
<1>7. /\ Well(x) /\ DOMAIN x.positions = DOMAIN w.positions \cup {k}
      /\ Cardinality(DOMAIN w.positions) \in Nat
      /\ Cardinality(DOMAIN x.positions) = Cardinality(DOMAIN w.positions) + 1
    BY <1>4, <1>5, <1>6, WithNewWell, Zenon
<1>8. Listed(x) /\ Live(x.chunks) = Append(Live(w.chunks), <<k, v>>)
    BY <1>5, <1>6, WithNewLive, Zenon
<1>9. UsedSlots(x) = UsedSlots(w) + 1
    BY <1>5, <1>6, WithNewUsed, Zenon
<1>10. UsedSlots(x) = i /\ Cardinality(DOMAIN x.positions) = i
    BY <1>1, <1>7, <1>9 DEF Copied
<1>11. DOMAIN x.positions = {live[j][1] : j \in 1 .. i}
    <2>1. DOMAIN w.positions = {live[j][1] : j \in 1 .. i - 1}
        BY Zenon DEF Copied
    <2>2. \A j \in 1 .. i : j = i \/ j \in 1 .. i - 1
        BY <1>1
    <2>3. \A j \in 1 .. i - 1 : j \in 1 .. i
        BY <1>1
    <2>4. i \in 1 .. i
        BY <1>1
    <2>. QED BY <1>3, <1>7, <2>1, <2>2, <2>3, <2>4, Zenon
<1>12. PICK a, b : a = Live(w.chunks) /\ b = Live(x.chunks)
    OBVIOUS
<1>13. a \in Seq(Entry) /\ Len(a) = i - 1 /\ \A j \in 1 .. i - 1 : a[j] = live[j]
    BY <1>12, Zenon DEF Copied
<1>14. b = Append(a, <<k, v>>) /\ <<k, v>> \in Entry
    BY <1>8, <1>12, Zenon DEF Entry
<1>15. b \in Seq(Entry) /\ Len(b) = i /\ \A j \in 1 .. i : b[j] = live[j]
    <2>1. PICK e \in Entry : e = <<k, v>>
        BY <1>14, Zenon
    <2>2. b \in Seq(Entry) /\ Len(b) = i /\ b[i] = e /\ \A j \in 1 .. i - 1 : b[j] = a[j]
        BY <1>1, <1>13, <1>14, <2>1
    <2>3. \A j \in 1 .. i : j = i \/ j \in 1 .. i - 1
        BY <1>1
    <2>. QED BY <1>2, <1>13, <2>1, <2>2, <2>3, Zenon
<1>16. Copied(live, x, i)
    BY <1>7, <1>8, <1>10, <1>11, <1>12, <1>15, Zenon DEF Copied
<1>. QED BY <1>3, <1>6, <1>16, Zenon

\* compactIfNeeded leaves a map in good order with the same entries in the same
\* order, which uses a slot for each of them.
LEMMA CompactedWell ==
    ASSUME NEW n, Well(n), Listed(n)
    PROVE  /\ Well(Compacted(n)) /\ Listed(Compacted(n))
           /\ Live(Compacted(n).chunks) = Live(n.chunks)
           /\ UsedSlots(Compacted(n)) \in Nat
           /\ Cardinality(DOMAIN Compacted(n).positions) = UsedSlots(Compacted(n))
<1>1a. PICK l \in Nat : \E q : Enum(q, FilledSlots(n.chunks), l)
    BY Zenon DEF Listed
<1>1. PICK q : Enum(q, FilledSlots(n.chunks), l)
    BY <1>1a, Zenon
<1>2. PICK live : live = Live(n.chunks)
    OBVIOUS
<1>3. live \in Seq(Entry) /\ Len(live) = l
    BY <1>1, <1>2, LiveIs, WellFields, Zenon
<1>4. ASSUME NEW a \in 1 .. l, NEW b \in 1 .. l, live[a][1] = live[b][1]  PROVE a = b
    <2>1. PICK k : k = live[a][1]
        OBVIOUS
    <2>2. Live(n.chunks)[a][1] = k /\ Live(n.chunks)[b][1] = k
        BY <1>2, <1>4, <2>1, Zenon
    <2>3. \A i, j \in 1 .. l : Live(n.chunks)[i][1] = k /\ Live(n.chunks)[j][1] = k => i = j
        BY <1>1a, <1>1, IndexOfKey
    <2>. QED BY <1>4, <2>2, <2>3, Zenon
<1>5. PICK f : IsLoop(live, f, l) /\ Compacted(n) = f[l]
    BY <1>2, <1>3, CompactedIs, Zenon
<1>6. \A i \in 0 .. l : f[i] = Step(live, f, i)
    BY <1>5, Zenon DEF IsLoop
<1>. DEFINE Bad == {i \in 0 .. l : ~Copied(live, f[i], i)}
<1>7. ASSUME Bad # {}  PROVE FALSE
    <2>1. PICK i \in Bad : \A j \in Bad : i <= j
        <3>1. Bad \in SUBSET Nat
            OBVIOUS
        <3>. HIDE DEF Bad
        <3>. QED BY <1>7, <3>1, LeastNat, Zenon
    <2>2. i \in 0 .. l /\ ~Copied(live, f[i], i)
        OBVIOUS
    <2>3. CASE i = 0
        <3>1. f[0] = NewOrderedMap
            BY <1>6, <2>2, <2>3, Zenon DEF Step
        <3>2. PICK w : w = NewOrderedMap
            OBVIOUS
        <3>3. Well(w) /\ Listed(w) /\ Live(w.chunks) = <<>> /\ UsedSlots(w) = 0 /\ w.positions = <<>>
            BY <3>2, NewWell, Zenon
        <3>4. DOMAIN w.positions = {} /\ Cardinality(DOMAIN w.positions) = 0
            BY <3>3, FS_EmptySet
        <3>5. {live[j][1] : j \in 1 .. 0} = {}
            OBVIOUS
        <3>6. Copied(live, w, 0)
            BY <3>3, <3>4, <3>5 DEF Copied
        <3>. QED BY <2>2, <2>3, <3>1, <3>2, <3>6, Zenon
    <2>4. CASE i # 0
        <3>1. i \in 1 .. l /\ i - 1 \in 0 .. l /\ ~(i <= i - 1)
            BY <2>2, <2>4
        <3>2. Copied(live, f[i - 1], i - 1)
            BY <2>1, <3>1, Zenon
        <3>3. f[i] = WithNew(f[i - 1], live[i][1], live[i][2])
            BY <1>6, <2>2, <2>4, Zenon DEF Step
        <3>4. PICK w : w = f[i - 1]
            OBVIOUS
        <3>5. Copied(live, WithNew(w, live[i][1], live[i][2]), i)
            BY <1>3, <1>4, <3>1, <3>2, <3>4, CopyStep
        <3>. QED BY <2>2, <3>3, <3>4, <3>5, Zenon
    <2>. QED BY <2>3, <2>4, Zenon
<1>8. PICK w : w = Compacted(n)
    OBVIOUS
<1>9. Copied(live, w, l)
    BY <1>5, <1>7, <1>8
<1>10. Live(w.chunks) = live
    <2>1. PICK a : a = Live(w.chunks)
        OBVIOUS
    <2>2. a \in Seq(Entry) /\ Len(a) = l /\ \A j \in 1 .. l : a[j] = live[j]
        BY <1>9, <2>1, Zenon DEF Copied
    <2>3. a = live
        BY <1>3, <2>2
    <2>. QED BY <2>1, <2>3, Zenon
<1>11. Well(w) /\ Listed(w) /\ UsedSlots(w) \in Nat /\ Cardinality(DOMAIN w.positions) = UsedSlots(w)
    BY <1>9, Zenon DEF Copied
<1>. QED BY <1>2, <1>8, <1>10, <1>11, Zenon

(***************************************************************************)
(* The invariant.                                                          *)
(***************************************************************************)
\* More than a quarter of the used slots of n is live.
Dense(n) == UsedSlots(n) # 0 => 4 * Cardinality(DOMAIN n.positions) > UsedSlots(n)

Good(n) == Well(n) /\ Listed(n) /\ Dense(n)
IInv == Good(m)

\* A key is present when an entry has it, and its value is the entry's.
LEMMA PresentIs ==
    ASSUME NEW n, Good(n), NEW k
    PROVE  /\ Live(n.chunks) \in Seq(Entry)
           /\ k \in DOMAIN n.positions <=> \E i \in DOMAIN Live(n.chunks) : Live(n.chunks)[i][1] = k
           /\ \A i \in DOMAIN Live(n.chunks) : Live(n.chunks)[i][1] = k =>
                 n.chunks[n.positions[k][1]][n.positions[k][2]] = Live(n.chunks)[i]
<1>1. Well(n) /\ Listed(n)
    BY Zenon DEF Good
<1>2a. PICK l \in Nat : \E q : Enum(q, FilledSlots(n.chunks), l)
    BY <1>1, Zenon DEF Listed
<1>2. PICK q : Enum(q, FilledSlots(n.chunks), l)
    BY <1>2a, Zenon
<1>3. n.chunks \in Seq(Chunk)
    BY <1>1, WellFields, Zenon
<1>4. PICK a : a = Live(n.chunks)
    OBVIOUS
<1>5. a = [i \in 1 .. l |-> n.chunks[q[i][1]][q[i][2]]] /\ a \in Seq(Entry) /\ DOMAIN a = 1 .. l
    <2>1. /\ Live(n.chunks) = [i \in 1 .. l |-> n.chunks[q[i][1]][q[i][2]]]
          /\ Live(n.chunks) \in Seq(Entry)
        BY <1>2, <1>3, LiveIs
    <2>2. a = [i \in 1 .. l |-> n.chunks[q[i][1]][q[i][2]]] /\ a \in Seq(Entry)
        BY <1>4, <2>1, Zenon
    <2>3. DOMAIN a = 1 .. l
        BY <2>2, Zenon
    <2>. QED BY <2>2, <2>3, Zenon
<1>6. k \in DOMAIN n.positions <=> \E i \in 1 .. l : a[i][1] = k
    BY <1>1, <1>2, <1>4, IndexOfKey
<1>7. ASSUME NEW i \in 1 .. l, a[i][1] = k
      PROVE  n.chunks[n.positions[k][1]][n.positions[k][2]] = a[i]
    <2>1. n.positions[k] = q[i]
        BY <1>1, <1>2, <1>4, <1>7, IndexOfKey
    <2>. QED BY <1>5, <2>1, Zenon
<1>. QED BY <1>4, <1>5, <1>6, <1>7, Zenon

\* insertNew keeps the invariant and appends the entry.
LEMMA GoodWithNew ==
    ASSUME NEW n, Good(n), NEW k \in Keys, NEW v \in Values, k \notin DOMAIN n.positions
    PROVE  /\ Good(WithNew(n, k, v))
           /\ Live(WithNew(n, k, v).chunks) = Append(Live(n.chunks), <<k, v>>)
<1>1. Well(n) /\ Listed(n) /\ Dense(n)
    BY Zenon DEF Good
<1>2. PICK w : w = WithNew(n, k, v)
    OBVIOUS
<1>3. Well(w) /\ Listed(w) /\ Live(w.chunks) = Append(Live(n.chunks), <<k, v>>)
    BY <1>1, <1>2, WithNewWell, WithNewLive, Zenon
<1>4. PICK u \in Nat, d \in Nat : u = UsedSlots(n) /\ d = Cardinality(DOMAIN n.positions)
    BY <1>1, WithNewUsed, WithNewWell, Zenon
<1>5. UsedSlots(w) = u + 1 /\ Cardinality(DOMAIN w.positions) = d + 1
    BY <1>1, <1>2, <1>4, WithNewUsed, WithNewWell, Zenon
<1>6. u # 0 => 4 * d > u
    BY <1>1, <1>4, Zenon DEF Dense
<1>7. Dense(w)
    BY <1>5, <1>6 DEF Dense
<1>. QED BY <1>2, <1>3, <1>7, Zenon DEF Good

\* InsertOrReplace of a live key keeps the invariant and replaces the entry.
LEMMA GoodReplaced ==
    ASSUME NEW n, Good(n), NEW k \in DOMAIN n.positions, NEW v \in Values,
           NEW r, r = [chunks |-> Rewritten(n, k, <<k, v>>), positions |-> n.positions,
                       nextOffset |-> n.nextOffset]
    PROVE  /\ Good(r)
           /\ \A i \in DOMAIN Live(n.chunks) : Live(n.chunks)[i][1] = k =>
                 Live(r.chunks) = [Live(n.chunks) EXCEPT ![i] = <<k, v>>]
<1>1. Well(n) /\ Listed(n) /\ Dense(n)
    BY Zenon DEF Good
<1>2. /\ Well(r) /\ Listed(r) /\ r.positions = n.positions /\ UsedSlots(r) = UsedSlots(n)
      /\ \A i \in DOMAIN Live(n.chunks) : Live(n.chunks)[i][1] = k =>
            Live(r.chunks) = [Live(n.chunks) EXCEPT ![i] = <<k, v>>]
    BY <1>1, ReplaceLive
<1>3. Dense(r)
    BY <1>1, <1>2, Zenon DEF Dense
<1>. QED BY <1>1, <1>2, <1>3, Zenon DEF Good

\* Delete of a live key, compactIfNeeded included.
Deleted(n, k) == IF Sparse(Without(n, k)) THEN Compacted(Without(n, k)) ELSE Without(n, k)

\* Delete keeps the invariant, which compactIfNeeded restores when needed, and
\* removes the entry.
LEMMA GoodDeleted ==
    ASSUME NEW n, Good(n), NEW k \in DOMAIN n.positions
    PROVE  /\ Good(Deleted(n, k))
           /\ \A i \in DOMAIN Live(n.chunks) : Live(n.chunks)[i][1] = k =>
                 Live(Deleted(n, k).chunks) = RemoveAt(Live(n.chunks), i)
<1>1. Well(n) /\ Listed(n)
    BY Zenon DEF Good
<1>2. PICK w : w = Without(n, k)
    OBVIOUS
<1>3. /\ Well(w) /\ Listed(w)
      /\ \A i \in DOMAIN Live(n.chunks) : Live(n.chunks)[i][1] = k =>
            Live(w.chunks) = RemoveAt(Live(n.chunks), i)
    BY <1>1, <1>2, WithoutWell, WithoutLive, Zenon
<1>4. CASE Sparse(w)
    <2>1. PICK x : x = Compacted(w)
        OBVIOUS
    <2>2. /\ Well(x) /\ Listed(x) /\ Live(x.chunks) = Live(w.chunks)
          /\ UsedSlots(x) \in Nat /\ Cardinality(DOMAIN x.positions) = UsedSlots(x)
        BY <1>3, <2>1, CompactedWell, Zenon
    <2>3. Dense(x)
        BY <2>2 DEF Dense
    <2>4. Deleted(n, k) = x
        BY <1>2, <1>4, <2>1, Zenon DEF Deleted
    <2>. QED BY <1>3, <2>2, <2>3, <2>4, Zenon DEF Good
<1>5. CASE ~ Sparse(w)
    <2>1. Deleted(n, k) = w
        BY <1>2, <1>5, Zenon DEF Deleted
    <2>2. UsedSlots(w) \in Nat /\ Cardinality(DOMAIN w.positions) \in Nat
        <3>1. IsFiniteSet(DOMAIN w.positions)
            BY <1>3, Zenon DEF Well
        <3>2. w.chunks \in Seq(Chunk) /\ w.nextOffset \in 0 .. ChunkSize
            BY <1>3, WellFields, Zenon
        <3>. QED BY <3>1, <3>2, FS_CardinalityType, ChunkAssumption DEF UsedSlots
    <2>3. Dense(w)
        BY <1>5, <2>2 DEF Dense, Sparse
    <2>. QED BY <1>3, <2>1, <2>3, Zenon DEF Good
<1>. QED BY <1>4, <1>5, Zenon

(***************************************************************************)
(* The steps.                                                              *)
(***************************************************************************)
\* A live key has an index among the live entries, and ValueAt is what the
\* entry there says.
LEMMA IndexIs ==
    ASSUME IInv, NEW k
    PROVE  /\ Present(k) <=> Abstract!Has(k)
           /\ Present(k) => /\ Abstract!Index(k) \in DOMAIN Live(m.chunks)
                            /\ Live(m.chunks)[Abstract!Index(k)][1] = k
                            /\ ValueAt(k) = Live(m.chunks)[Abstract!Index(k)][2]
<1>1. PICK n : n = m
    OBVIOUS
<1>2. Good(n)
    BY <1>1, Zenon DEF IInv
<1>3. PICK a : a = Live(n.chunks)
    OBVIOUS
<1>4. k \in DOMAIN n.positions <=> \E i \in DOMAIN a : a[i][1] = k
    <2>1. k \in DOMAIN n.positions <=> \E i \in DOMAIN Live(n.chunks) : Live(n.chunks)[i][1] = k
        <3>1. ASSUME k \in DOMAIN n.positions
              PROVE  \E i \in DOMAIN Live(n.chunks) : Live(n.chunks)[i][1] = k
            BY <1>2, <3>1, PresentIs
        <3>2. ASSUME NEW i \in DOMAIN Live(n.chunks), Live(n.chunks)[i][1] = k
              PROVE  k \in DOMAIN n.positions
            BY <1>2, <3>2, PresentIs, Zenon
        <3>. QED BY <3>1, <3>2, Zenon
    <2>. QED BY <1>3, <2>1, Zenon
<1>5. \A i \in DOMAIN a : a[i][1] = k => n.chunks[n.positions[k][1]][n.positions[k][2]] = a[i]
    <2>1. \A i \in DOMAIN Live(n.chunks) : Live(n.chunks)[i][1] = k =>
              n.chunks[n.positions[k][1]][n.positions[k][2]] = Live(n.chunks)[i]
        BY <1>2, PresentIs, Zenon
    <2>. QED BY <1>3, <2>1, Zenon
<1>6. Present(k) <=> Abstract!Has(k)
    BY <1>1, <1>3, <1>4, Zenon DEF Present, Abstract!Has
<1>7. ASSUME Present(k)
      PROVE  /\ Abstract!Index(k) \in DOMAIN a /\ a[Abstract!Index(k)][1] = k
             /\ ValueAt(k) = a[Abstract!Index(k)][2]
    <2>1. PICK i : i = CHOOSE j \in DOMAIN a : a[j][1] = k
        OBVIOUS
    <2>2. i \in DOMAIN a /\ a[i][1] = k
        BY <1>1, <1>4, <1>7, <2>1, Zenon DEF Present
    <2>3. Abstract!Index(k) = i
        BY <1>1, <1>3, <2>1, Zenon DEF Abstract!Index
    <2>4. ValueAt(k) = a[i][2]
        BY <1>1, <1>5, <2>2, Zenon DEF ValueAt
    <2>. QED BY <2>2, <2>3, <2>4, Zenon
<1>. QED BY <1>1, <1>3, <1>6, <1>7, Zenon

\* What a step is to the insertion-ordered map.
Refines == Abstract!Next \/ UNCHANGED <<Live(m.chunks), ret>>

\* A step that leaves the map alone keeps its entries.
LEMMA SameEntries ==
    ASSUME IInv, m' = m
    PROVE  IInv' /\ Live(m.chunks)' = Live(m.chunks)
BY Zenon DEF IInv

\* Lookup.
LEMMA LookupStep ==
    ASSUME IInv, NEW k \in Keys, Lookup(k)
    PROVE  IInv' /\ Refines
<1>1. m' = m /\ ret' = IF Present(k) THEN ValueAt(k) ELSE None
    BY Zenon DEF Lookup
<1>2. IInv' /\ Live(m.chunks)' = Live(m.chunks)
    BY <1>1, SameEntries, Zenon
<1>3. ret' = IF Abstract!Has(k) THEN Live(m.chunks)[Abstract!Index(k)][2] ELSE None
    <2>1. Present(k) <=> Abstract!Has(k)
        BY IndexIs, Zenon
    <2>2. Present(k) => ValueAt(k) = Live(m.chunks)[Abstract!Index(k)][2]
        BY IndexIs, Zenon
    <2>. QED BY <1>1, <2>1, <2>2, Zenon
<1>5. Abstract!Lookup(k)
    BY <1>2, <1>3, Zenon DEF Abstract!Lookup
<1>4. Abstract!Next
    BY <1>5, Zenon DEF Abstract!Next
<1>. QED BY <1>2, <1>4, Zenon DEF Refines

\* Delete of an absent key.
LEMMA DeleteAbsentStep ==
    ASSUME IInv, NEW k \in Keys, DeleteAbsent(k)
    PROVE  IInv' /\ Refines
<1>1. m' = m /\ ret' = None /\ ~Present(k)
    BY Zenon DEF DeleteAbsent
<1>2. IInv' /\ Live(m.chunks)' = Live(m.chunks)
    BY <1>1, SameEntries, Zenon
<1>3. Abstract!DeleteAbsent(k)
    <2>1. ~Abstract!Has(k)
        BY <1>1, IndexIs, Zenon
    <2>. QED BY <1>1, <1>2, <2>1, Zenon DEF Abstract!DeleteAbsent
<1>4. Abstract!Next
    BY <1>3, Zenon DEF Abstract!Next
<1>. QED BY <1>2, <1>4, Zenon DEF Refines

\* insertNew of an absent key.
LEMMA InsertNewStep ==
    ASSUME IInv, NEW k \in Keys, NEW v \in Values, ~Present(k), InsertNew(k, v),
           ret' \in {None, InsertedNew}
    PROVE  IInv' /\ Refines
<1>1. PICK n : n = m
    OBVIOUS
<1>2. PICK w : w = WithNew(n, k, v)
    OBVIOUS
<1>3. m' = w /\ Good(n) /\ k \notin DOMAIN n.positions
    BY <1>1, <1>2, Zenon DEF InsertNew, Present, IInv
<1>4. Good(w) /\ Live(w.chunks) = Append(Live(n.chunks), <<k, v>>)
    BY <1>2, <1>3, GoodWithNew, Zenon
<1>5. IInv'
    BY <1>3, <1>4, Zenon DEF IInv
<1>6. Live(m.chunks)' = Append(Live(m.chunks), <<k, v>>)
    BY <1>1, <1>3, <1>4, Zenon
<1>7. Abstract!InsertNew(k, v)
    <2>1. ~Abstract!Has(k)
        BY IndexIs, Zenon
    <2>. QED BY <1>6, <2>1, Zenon DEF Abstract!InsertNew
<1>8. Abstract!Next
    BY <1>7, Zenon DEF Abstract!Next
<1>. QED BY <1>5, <1>8, Zenon DEF Refines

\* InsertOrKeep.
LEMMA InsertOrKeepStep ==
    ASSUME IInv, NEW k \in Keys, NEW v \in Values, InsertOrKeep(k, v)
    PROVE  IInv' /\ Refines
<1>1. CASE Present(k)
    <2>1. m' = m /\ ret' = KeptOld
        BY <1>1, Zenon DEF InsertOrKeep
    <2>2. IInv' /\ Live(m.chunks)' = Live(m.chunks)
        BY <2>1, SameEntries, Zenon
    <2>3. Abstract!Keep(k)
        <3>1. Abstract!Has(k)
            BY <1>1, IndexIs, Zenon
        <3>. QED BY <2>1, <2>2, <3>1, Zenon DEF Abstract!Keep
    <2>4. Abstract!Next
        BY <2>3, Zenon DEF Abstract!Next
    <2>. QED BY <2>2, <2>4, Zenon DEF Refines
<1>2. CASE ~Present(k)
    <2>1. InsertNew(k, v) /\ ret' = InsertedNew
        BY <1>2, Zenon DEF InsertOrKeep
    <2>. QED BY <1>2, <2>1, InsertNewStep, Zenon
<1>. QED BY <1>1, <1>2, Zenon

\* InsertOrReplace.
LEMMA InsertOrReplaceStep ==
    ASSUME IInv, NEW k \in Keys, NEW v \in Values, InsertOrReplace(k, v)
    PROVE  IInv' /\ Refines
<1>1. CASE Present(k)
    <2>1. PICK n : n = m
        OBVIOUS
    <2>2. Good(n) /\ k \in DOMAIN n.positions
        BY <1>1, <2>1, Zenon DEF IInv, Present
    <2>3. n = [chunks |-> n.chunks, positions |-> n.positions, nextOffset |-> n.nextOffset]
        BY <2>2, WellFields, Zenon DEF Good
    <2>4. PICK r : r = [chunks |-> Rewritten(n, k, <<k, v>>), positions |-> n.positions,
                        nextOffset |-> n.nextOffset]
        BY Zenon
    <2>5. m' = [n EXCEPT !.chunks[n.positions[k][1]][n.positions[k][2]] = <<k, v>>]
        BY <1>1, <2>1, Zenon DEF InsertOrReplace
    <2>6. m' = r
        BY <2>3, <2>4, <2>5 DEF Rewritten
    <2>7. /\ Good(r)
          /\ \A i \in DOMAIN Live(n.chunks) : Live(n.chunks)[i][1] = k =>
                Live(r.chunks) = [Live(n.chunks) EXCEPT ![i] = <<k, v>>]
        BY <2>2, <2>4, GoodReplaced
    <2>8. IInv'
        BY <2>6, <2>7, Zenon DEF IInv
    <2>9. Live(m.chunks)' = [Live(m.chunks) EXCEPT ![Abstract!Index(k)] = <<k, v>>]
        <3>1. PICK i : i = Abstract!Index(k)
            OBVIOUS
        <3>2. i \in DOMAIN Live(n.chunks) /\ Live(n.chunks)[i][1] = k
            BY <1>1, <2>1, <3>1, IndexIs, Zenon
        <3>3. Live(r.chunks) = [Live(n.chunks) EXCEPT ![i] = <<k, v>>]
            BY <2>7, <3>2, Zenon
        <3>. QED BY <2>1, <2>6, <3>1, <3>3, Zenon
    <2>10. ret' = ValueAt(k)
        BY <1>1, Zenon DEF InsertOrReplace
    <2>11. Abstract!Replace(k, v)
        <3>1. Abstract!Has(k) /\ ValueAt(k) = Live(m.chunks)[Abstract!Index(k)][2]
            BY <1>1, IndexIs, Zenon
        <3>2. ret' = Live(m.chunks)[Abstract!Index(k)][2]
            BY <2>10, <3>1, Zenon
        <3>. QED BY <2>9, <3>1, <3>2, Zenon DEF Abstract!Replace
    <2>12. Abstract!Next
        BY <2>11, Zenon DEF Abstract!Next
    <2>. QED BY <2>8, <2>12, Zenon DEF Refines
<1>2. CASE ~Present(k)
    <2>1. InsertNew(k, v) /\ ret' = None
        BY <1>2, Zenon DEF InsertOrReplace
    <2>. QED BY <1>2, <2>1, InsertNewStep, Zenon
<1>. QED BY <1>1, <1>2, Zenon

\* Delete of a live key, up to compactIfNeeded.
LEMMA ErasedIs ==
    ASSUME Well(m), NEW k \in DOMAIN m.positions
    PROVE  Erased(k) = Without(m, k)
<1>1. PICK n : n = m
    OBVIOUS
<1>2. n = [chunks |-> n.chunks, positions |-> n.positions, nextOffset |-> n.nextOffset]
    BY <1>1, WellFields, Zenon
<1>3. PICK d : d = [j \in DOMAIN n.positions \ {k} |-> n.positions[j]]
    BY Zenon
<1>4. Erased(k) = [n EXCEPT !.chunks[n.positions[k][1]][n.positions[k][2]] = <<>>, !.positions = d]
    BY <1>1, <1>3, Zenon DEF Erased
<1>5. Without(n, k) = [chunks |-> Rewritten(n, k, <<>>), positions |-> d, nextOffset |-> n.nextOffset]
    BY <1>3, Zenon DEF Without
<1>6. Erased(k) = Without(n, k)
    BY <1>2, <1>4, <1>5, Zenon DEF Rewritten
<1>. QED BY <1>1, <1>6, Zenon

\* Delete of a live key.
LEMMA DeleteStep ==
    ASSUME IInv, NEW k \in Keys, Delete(k)
    PROVE  IInv' /\ Refines
<1>1. PICK n : n = m
    OBVIOUS
<1>2. Good(n) /\ k \in DOMAIN n.positions /\ Present(k)
    BY <1>1, Zenon DEF IInv, Present, Delete
<1>4. Erased(k) = Without(n, k)
    BY <1>1, <1>2, ErasedIs, Zenon DEF Good
<1>5. PICK w : w = Deleted(n, k)
    OBVIOUS
<1>6. m' = w
    BY <1>4, <1>5, Zenon DEF Delete, Deleted
<1>7. /\ Good(w)
      /\ \A i \in DOMAIN Live(n.chunks) : Live(n.chunks)[i][1] = k =>
            Live(w.chunks) = RemoveAt(Live(n.chunks), i)
    BY <1>2, <1>5, GoodDeleted, Zenon
<1>8. IInv'
    BY <1>6, <1>7, Zenon DEF IInv
<1>9. Live(m.chunks)' = RemoveAt(Live(m.chunks), Abstract!Index(k))
    <2>1. PICK i : i = Abstract!Index(k)
        OBVIOUS
    <2>2. i \in DOMAIN Live(n.chunks) /\ Live(n.chunks)[i][1] = k
        BY <1>1, <1>2, <2>1, IndexIs, Zenon
    <2>3. Live(w.chunks) = RemoveAt(Live(n.chunks), i)
        BY <1>7, <2>2, Zenon
    <2>. QED BY <1>1, <1>6, <2>1, <2>3, Zenon
<1>10. ret' = ValueAt(k)
    BY Zenon DEF Delete
<1>11. Abstract!Delete(k)
    <2>1. Abstract!Has(k) /\ ValueAt(k) = Live(m.chunks)[Abstract!Index(k)][2]
        BY <1>2, IndexIs, Zenon
    <2>2. ret' = Live(m.chunks)[Abstract!Index(k)][2]
        BY <1>10, <2>1, Zenon
    <2>. QED BY <1>9, <2>1, <2>2, Zenon DEF Abstract!Delete, RemoveAt
<1>12. Abstract!Next
    BY <1>11, Zenon DEF Abstract!Next
<1>. QED BY <1>8, <1>12, Zenon DEF Refines

\* A loop over Keys() changes neither the map nor what an operation returned.
LEMMA LoopStep ==
    ASSUME IInv, BeginKeys \/ NextKey \/ Break \/ UNCHANGED vars
    PROVE  IInv' /\ Refines
<1>1. m' = m /\ ret' = ret
    BY Zenon DEF BeginKeys, NextKey, Break, vars
<1>. QED BY <1>1, SameEntries, Zenon DEF Refines

\* A step of Next keeps the invariant and is a step of the insertion-ordered map
\* or none.
LEMMA NextStep ==
    ASSUME IInv, [Next]_vars
    PROVE  IInv' /\ Refines
<1>1. ASSUME NEW k \in Keys, Delete(k) \/ DeleteAbsent(k) \/ Lookup(k)  PROVE IInv' /\ Refines
    BY <1>1, DeleteStep, DeleteAbsentStep, LookupStep, Zenon
<1>2. ASSUME NEW k \in Keys, NEW v \in Values, InsertOrKeep(k, v) \/ InsertOrReplace(k, v)
      PROVE  IInv' /\ Refines
    BY <1>2, InsertOrKeepStep, InsertOrReplaceStep, Zenon
<1>3. ASSUME BeginKeys \/ NextKey \/ Break \/ UNCHANGED vars  PROVE IInv' /\ Refines
    BY <1>3, LoopStep, Zenon
<1>. QED BY <1>1, <1>2, <1>3, Zenon DEF Next

\* NewOrderedMap satisfies the invariant and holds nothing.
LEMMA InitHolds ==
    ASSUME Init
    PROVE  IInv /\ Abstract!Init
<1>1. m = NewOrderedMap /\ ret = None
    BY Zenon DEF Init
<1>2. Good(NewOrderedMap)
    BY NewWell, Zenon DEF Good, Dense
<1>3. IInv
    BY <1>1, <1>2, Zenon DEF IInv
<1>4. Live(m.chunks) = <<>>
    BY <1>1, NewWell, Zenon
<1>. QED BY <1>1, <1>3, <1>4, Zenon DEF Abstract!Init

\* The map is in good order after every operation, whatever loops over Keys()
\* are under way.
THEOREM Invariance == Spec => []IInv
<1>1. Init => IInv
    BY InitHolds, Zenon
<1>2. IInv /\ [Next]_vars => IInv'
    BY NextStep, Zenon
<1>. QED BY <1>1, <1>2, PTL DEF Spec

\* Chunks keep their size, positions belong to keys, and the insertion offset
\* of insertNew lies in the last chunk.
THEOREM TypeCorrect == Spec => []TypeOK
<1>1. IInv => TypeOK
    <2>. SUFFICES ASSUME IInv  PROVE TypeOK
        OBVIOUS
    <2>1. PICK n : n = m
        OBVIOUS
    <2>2. Well(n)
        BY <2>1, Zenon DEF IInv, Good
    <2>3. n.chunks \in Seq(Chunk) /\ n.nextOffset \in 0 .. ChunkSize /\ DOMAIN n.positions \in SUBSET Keys
        BY <2>2, WellFields, Zenon
    <2>4. \A c \in DOMAIN n.chunks : DOMAIN n.chunks[c] = Slots
        BY <2>3 DEF Chunk
    <2>5. n.nextOffset = 0 <=> n.chunks = <<>>
        BY <2>2, Zenon DEF Well
    <2>. QED BY <2>1, <2>3, <2>4, <2>5, Zenon DEF TypeOK
<1>. QED BY <1>1, Invariance, PTL

\* insertNew, Delete and compactIfNeeded keep the built-in map and the chunks
\* in step.
THEOREM PositionsAreExact == Spec => []PositionsExact
<1>1. IInv => PositionsExact
    BY Zenon DEF IInv, Good, Well, PositionsExact
<1>. QED BY <1>1, Invariance, PTL

\* compactIfNeeded keeps more than a quarter of the used slots live.
THEOREM NeverSparse == Spec => []NotSparse
<1>1. IInv => NotSparse
    BY Zenon DEF IInv, Good, Dense, NotSparse
<1>. QED BY <1>1, Invariance, PTL

\* Every operation on the chunked map does what the same operation does on an
\* insertion-ordered map, results included.
THEOREM Refinement == Spec => ImplementsMap
<1>1. Init => Abstract!Init
    BY InitHolds, Zenon
<1>2. IInv /\ [Next]_vars => [Abstract!Next]_<<Live(m.chunks), ret>>
    BY NextStep, Zenon DEF Refines
<1>. QED BY <1>1, <1>2, Invariance, PTL DEF Spec, ImplementsMap, Abstract!Spec
=============================================================================
