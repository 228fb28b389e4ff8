------------------------ MODULE OrderedMapLoopProofs ------------------------
(***************************************************************************)
(* Proofs about the loops of OrderedMap, for any keys, values and chunk    *)
(* size: a loop over Keys whose body deletes what it is given still visits *)
(* every key that was there when it began, once and in order.              *)
(***************************************************************************)
EXTENDS OrderedMapProofs

Loops ==
    [on : {TRUE}, shared : BOOLEAN, frozen : Seq(Chunk), len : Nat, chunk : Nat, copy : Chunk,
     last : Keys \cup {None}, seen : Seq(Keys), start : Seq(Keys), disturbed : BOOLEAN]

\* The chunks that the loop l ranges over, when the map is n.
Ranged(l, n) == IF l.shared THEN n.chunks ELSE l.frozen

\* What the loop has yet to come to, by slots: the rest of its copy of the present
\* chunk, and the chunks after that one.
View(l, n) ==
    [s \in (1 .. l.len) \X Slots |->
        IF s[1] > l.chunk THEN Ranged(l, n)[s[1]][s[2]]
        ELSE IF s[1] = l.chunk THEN l.copy[s[2]] ELSE <<>>]
Remaining(v) == {s \in DOMAIN v : v[s] # <<>>}

\* The keys at the beginning are those seen, then those of the remaining slots.
Splits(v, seen, start, q, l) ==
    /\ Enum(q, Remaining(v), l)
    /\ Len(start) = Len(seen) + l
    /\ \A i \in 1 .. Len(seen) : start[i] = seen[i]
    /\ \A i \in 1 .. l : start[Len(seen) + i] = v[q[i]][1]
Rest(v, seen, start) == \E l \in Nat : \E q : Splits(v, seen, start, q, l)

\* The key k, if it is in the map n, is not in a chunk the loop has yet to reach.
Passed(l, n, k) == k \in DOMAIN n.positions => n.positions[k][1] <= l.chunk

OnTrack(l, n) ==
    /\ Rest(View(l, n), l.seen, l.start)
    /\ l.chunk <= l.len /\ (l.chunk = 0 => l.copy = EmptyChunk)
    /\ l.shared => /\ Passed(l, n, l.last)
                   /\ \A o \in Slots : l.copy[o] # <<>> => Passed(l, n, l.copy[o][1])

\* The loop l is under way over the map n.
UnderWay(l, n) ==
    /\ l \in Loops
    /\ l.len <= Len(Ranged(l, n))
    /\ l.disturbed \/ OnTrack(l, n)

\* The invariant of the loop.
LInv == loop = NoLoop \/ UnderWay(loop, m)

\* Slots yet to come are pairs of numbers.
LEMMA RemainingArePlaces ==
    ASSUME NEW l \in Loops, NEW n
    PROVE  Remaining(View(l, n)) \in SUBSET Places
<1>1. DOMAIN View(l, n) = (1 .. l.len) \X Slots
    BY Zenon DEF View
<1>2. l.len \in Nat
    BY Zenon DEF Loops
<1>. QED BY <1>1, <1>2 DEF Remaining, Places, Slots

\* Writes to slots that the loop has passed, or of other values, leave it on track.
LEMMA RestKept ==
    ASSUME NEW v, NEW w, NEW seen, NEW start, Rest(v, seen, start),
           DOMAIN w = DOMAIN v,
           \A s \in DOMAIN v : (w[s] # <<>> <=> v[s] # <<>>) /\ (v[s] # <<>> => w[s][1] = v[s][1])
    PROVE  Rest(w, seen, start)
<1>1. Remaining(w) = Remaining(v)
    BY Zenon DEF Remaining
<1>2a. PICK l \in Nat : \E q : Splits(v, seen, start, q, l)
    BY Zenon DEF Rest
<1>2b. PICK q : Splits(v, seen, start, q, l)
    BY <1>2a, Zenon
<1>2. /\ Enum(q, Remaining(v), l)
      /\ Len(start) = Len(seen) + l
      /\ \A i \in 1 .. Len(seen) : start[i] = seen[i]
      /\ \A i \in 1 .. l : start[Len(seen) + i] = v[q[i]][1]
    BY <1>2b, Zenon DEF Splits
<1>3. \A i \in 1 .. l : q[i] \in Remaining(v)
    BY <1>2, Zenon DEF Enum
<1>4. ASSUME NEW i \in 1 .. l  PROVE w[q[i]][1] = v[q[i]][1]
    <2>1. q[i] \in DOMAIN v /\ v[q[i]] # <<>>
        BY <1>3, Zenon DEF Remaining
    <2>. QED BY <2>1, Zenon
<1>5. Enum(q, Remaining(w), l)
    BY <1>1, <1>2, Zenon
<1>6. \A i \in 1 .. l : start[Len(seen) + i] = w[q[i]][1]
    BY <1>2, <1>4, Zenon
<1>7. Splits(w, seen, start, q, l)
    BY <1>2, <1>5, <1>6 DEF Splits
<1>. QED BY <1>7, Zenon DEF Rest

\* The loop yields the key of the first slot yet to come and then has one less.
LEMMA RestYields ==
    ASSUME NEW v, NEW w, NEW seen \in Seq(Keys), NEW start \in Seq(Keys), Rest(v, seen, start),
           Remaining(v) \in SUBSET Places,
           NEW s \in Remaining(v), \A t \in Remaining(v) : t = s \/ Before(s, t),
           NEW k \in Keys, k = v[s][1],
           Lost(Remaining(v), Remaining(w), s), \A t \in Remaining(w) : w[t] = v[t]
    PROVE  Rest(w, Append(seen, k), start)
<1>2a. PICK l \in Nat : \E q : Splits(v, seen, start, q, l)
    BY Zenon DEF Rest
<1>2b. PICK q : Splits(v, seen, start, q, l)
    BY <1>2a, Zenon
<1>2. /\ Enum(q, Remaining(v), l)
      /\ Len(start) = Len(seen) + l
      /\ \A i \in 1 .. Len(seen) : start[i] = seen[i]
      /\ \A i \in 1 .. l : start[Len(seen) + i] = v[q[i]][1]
    BY <1>2b, Zenon DEF Splits
<1>3. q \in [1 .. l -> Remaining(v)]
    BY <1>2, Zenon DEF Enum
<1>4. PICK a \in 1 .. l : q[a] = s
    BY <1>2, Zenon DEF Enum
<1>5. a = 1
    <2>. SUFFICES ASSUME a # 1 PROVE FALSE
        OBVIOUS
    <2>1. 1 \in 1 .. l /\ 1 < a
        OBVIOUS
    <2>2. Before(q[1], s)
        BY <1>2, <1>4, <2>1, Zenon DEF Enum
    <2>3. q[1] \in Remaining(v) /\ q[1] \in Places /\ s \in Places
        BY <1>3, <2>1, Zenon
    <2>4. ~ Before(s, s) /\ ~ (Before(q[1], s) /\ Before(s, q[1]))
        BY <2>3, BeforeOrder, Zenon
    <2>. QED BY <2>2, <2>3, <2>4, Zenon
<1>6. l >= 1 /\ q[1] = s
    BY <1>4, <1>5
<1>7. PICK r : r = [i \in 1 .. (l - 1) |-> q[i + 1]]
    BY Zenon
<1>8. \A i \in 1 .. (l - 1) : i + 1 \in 1 .. l /\ r[i] = q[i + 1] /\ r[i] \in Remaining(w)
    <2>. TAKE i \in 1 .. (l - 1)
    <2>1. i + 1 \in 1 .. l /\ i + 1 # 1 /\ 1 \in 1 .. l /\ r[i] = q[i + 1]
        BY <1>6, <1>7
    <2>2. q[i + 1] # q[1]
        <3>1. Before(q[1], q[i + 1])
            BY <1>2, <2>1 DEF Enum
        <3>2. ~ Before(q[1], q[1])
            BY <1>3, <2>1, BeforeOrder, Zenon
        <3>. QED BY <3>1, <3>2, Zenon
    <2>3. q[i + 1] \in Remaining(v)
        BY <1>3, <2>1, Zenon
    <2>4. q[i + 1] \in Remaining(w)
        BY <1>6, <2>2, <2>3 DEF Lost
    <2>. QED BY <2>1, <2>4, Zenon
<1>9. Enum(r, Remaining(w), l - 1)
    <2>1. l - 1 \in Nat
        BY <1>6
    <2>2. r \in [1 .. (l - 1) -> Remaining(w)]
        BY <1>7, <1>8, Zenon
    <2>3. \A i, j \in 1 .. (l - 1) : i < j => Before(r[i], r[j])
        <3>. TAKE i, j \in 1 .. (l - 1)
        <3>1. i + 1 \in 1 .. l /\ j + 1 \in 1 .. l /\ r[i] = q[i + 1] /\ r[j] = q[j + 1]
            BY <1>8, Zenon
        <3>2. i < j => i + 1 < j + 1
            OBVIOUS
        <3>. QED BY <1>2, <3>1, <3>2 DEF Enum
    <2>4. ASSUME NEW t \in Remaining(w) PROVE \E i \in 1 .. (l - 1) : r[i] = t
        <3>1. t \in Remaining(v) /\ t # s
            BY Zenon DEF Lost
        <3>2. PICK j \in 1 .. l : q[j] = t
            BY <1>2, <3>1, Zenon DEF Enum
        <3>3. j # 1
            BY <1>6, <3>1, <3>2
        <3>4. j - 1 \in 1 .. (l - 1) /\ (j - 1) + 1 = j
            BY <3>3
        <3>5. r[j - 1] = t
            BY <1>8, <3>2, <3>4
        <3>. QED BY <3>4, <3>5, Zenon
    <2>. QED BY <2>1, <2>2, <2>3, <2>4 DEF Enum
<1>. DEFINE z == Append(seen, k)
<1>10. z \in Seq(Keys) /\ Len(z) = Len(seen) + 1 /\ z[Len(seen) + 1] = k
       /\ \A i \in 1 .. Len(seen) : z[i] = seen[i]
    OBVIOUS
<1>. HIDE DEF z
<1>11. Len(seen) \in Nat
    OBVIOUS
<1>12. Len(start) = Len(z) + (l - 1)
    BY <1>2, <1>10, <1>11
<1>13. \A i \in 1 .. Len(z) : start[i] = z[i]
    <2>. TAKE i \in 1 .. Len(z)
    <2>1. CASE i \in 1 .. Len(seen)
        BY <1>2, <1>10, <2>1
    <2>2. CASE i = Len(seen) + 1
        <3>1. 1 \in 1 .. l
            BY <1>6
        <3>. QED BY <1>2, <1>6, <1>10, <2>2, <3>1
    <2>. QED BY <1>10, <1>11, <2>1, <2>2
<1>14. \A i \in 1 .. (l - 1) : start[Len(z) + i] = w[r[i]][1]
    <2>. TAKE i \in 1 .. (l - 1)
    <2>1. i + 1 \in 1 .. l /\ r[i] = q[i + 1] /\ r[i] \in Remaining(w)
        BY <1>8, Zenon
    <2>2. start[Len(seen) + (i + 1)] = v[q[i + 1]][1]
        BY <1>2, <2>1
    <2>3. Len(z) + i = Len(seen) + (i + 1)
        BY <1>10, <1>11
    <2>. QED BY <2>1, <2>2, <2>3, Zenon
<1>15. l - 1 \in Nat
    BY <1>6
<1>16. Splits(w, z, start, r, l - 1)
    BY <1>9, <1>12, <1>13, <1>14, Zenon DEF Splits
<1>17. Rest(w, z, start)
    BY <1>15, <1>16 DEF Rest
<1>. QED BY <1>17, Zenon DEF z

\* A loop with nothing yet to come has seen the keys there were at the beginning.
LEMMA RestEnds ==
    ASSUME NEW v, NEW seen \in Seq(Keys), NEW start \in Seq(Keys), Rest(v, seen, start),
           Remaining(v) = {}
    PROVE  seen = start
<1>1a. PICK l \in Nat : \E q : Splits(v, seen, start, q, l)
    BY Zenon DEF Rest
<1>1b. PICK q : Splits(v, seen, start, q, l)
    BY <1>1a, Zenon
<1>1. /\ Enum(q, Remaining(v), l)
      /\ Len(start) = Len(seen) + l
      /\ \A i \in 1 .. Len(seen) : start[i] = seen[i]
    BY <1>1b, Zenon DEF Splits
<1>2. l = 0
    <2>1. q \in [1 .. l -> Remaining(v)]
        BY <1>1, Zenon DEF Enum
    <2>2. 1 \notin 1 .. l
        BY <2>1, Zenon
    <2>. QED BY <2>2
<1>3. Len(start) = Len(seen) /\ \A i \in 1 .. Len(seen) : start[i] = seen[i]
    BY <1>1, <1>2
<1>. QED BY <1>3

\* The chunks that a loop ranges over are chunks.
LEMMA RangedTyped ==
    ASSUME NEW n, n.chunks \in Seq(Chunk), NEW l \in Loops, l.len <= Len(Ranged(l, n))
    PROVE  /\ l.len \in Nat /\ l.chunk \in Nat /\ l.copy \in Chunk
           /\ Ranged(l, n) \in Seq(Chunk) /\ Len(Ranged(l, n)) \in Nat
           /\ \A d \in 1 .. l.len : Ranged(l, n)[d] \in Chunk
<1>1. l.len \in Nat /\ l.chunk \in Nat /\ l.copy \in Chunk /\ l.frozen \in Seq(Chunk)
    BY Zenon DEF Loops
<1>2. Ranged(l, n) \in Seq(Chunk)
    BY <1>1, Zenon DEF Ranged
<1>3. PICK cs \in Seq(Chunk) : cs = Ranged(l, n)
    BY <1>2, Zenon
<1>4. Len(cs) \in Nat /\ \A d \in 1 .. l.len : cs[d] \in Chunk
    BY <1>1, <1>3
<1>. QED BY <1>1, <1>2, <1>3, <1>4

\* The loop comes to the next chunk with something in it and copies it.
LEMMA AdvanceTrack ==
    ASSUME NEW n, Well(n), NEW l, UnderWay(l, n), Filled(l.copy) = {},
           NEW c \in 1 .. l.len, c > l.chunk,
           \A d \in 1 .. l.len : d > l.chunk /\ Filled(Ranged(l, n)[d]) # {} => c <= d,
           NEW x, x = [l EXCEPT !.chunk = c, !.copy = Ranged(l, n)[c]]
    PROVE  UnderWay(x, n)
<1>1. l \in Loops /\ l.len <= Len(Ranged(l, n)) /\ n.chunks \in Seq(Chunk)
    BY WellFields DEF UnderWay
<1>2. /\ l.len \in Nat /\ l.chunk \in Nat /\ Ranged(l, n) \in Seq(Chunk)
      /\ \A d \in 1 .. l.len : Ranged(l, n)[d] \in Chunk
    BY <1>1, RangedTyped
<1>3. PICK ch \in Chunk : ch = Ranged(l, n)[c]
    BY <1>2
<1>4. /\ x \in Loops /\ x.len = l.len /\ x.chunk = c /\ x.copy = ch /\ x.shared = l.shared
      /\ x.frozen = l.frozen /\ x.last = l.last /\ x.seen = l.seen /\ x.start = l.start
      /\ x.disturbed = l.disturbed
    <2>1. c \in Nat
        BY <1>2
    <2>. QED BY <1>1, <1>3, <2>1, Zenon DEF Loops
<1>5. Ranged(x, n) = Ranged(l, n)
    BY <1>4, Zenon DEF Ranged
<1>6. ASSUME OnTrack(l, n)  PROVE OnTrack(x, n)
    <2>1. Rest(View(x, n), l.seen, l.start)
        <3>1. DOMAIN View(x, n) = DOMAIN View(l, n)
            BY <1>4, Zenon DEF View
        <3>2. ASSUME NEW s \in DOMAIN View(l, n)  PROVE View(x, n)[s] = View(l, n)[s]
            <4>1. PICK d \in 1 .. l.len, p \in Slots : s = <<d, p>>
                BY DEF View
            <4>2. d \in Nat /\ c \in Nat
                BY <1>2
            <4>3. View(x, n)[<<d, p>>] = IF d > x.chunk THEN Ranged(x, n)[d][p]
                                         ELSE IF d = x.chunk THEN x.copy[p] ELSE <<>>
                <5>1. d \in 1 .. x.len
                    BY <1>4, Zenon
                <5>. QED BY <4>1, <5>1 DEF View
            <4>4. /\ d > c => View(x, n)[s] = Ranged(l, n)[d][p]
                  /\ d = c => View(x, n)[s] = ch[p]
                  /\ d < c => View(x, n)[s] = <<>>
                BY <1>4, <1>5, <4>1, <4>2, <4>3
            <4>5. View(l, n)[s] = IF d > l.chunk THEN Ranged(l, n)[d][p]
                                  ELSE IF d = l.chunk THEN l.copy[p] ELSE <<>>
                <5>1. View(l, n)[<<d, p>>] = IF d > l.chunk THEN Ranged(l, n)[d][p]
                                             ELSE IF d = l.chunk THEN l.copy[p] ELSE <<>>
                    BY <4>1, Zenon DEF View
                <5>. QED BY <4>1, <5>1, Zenon
            <4>6. CASE d > c
                <5>1. d > l.chunk
                    BY <1>2, <4>2, <4>6
                <5>. QED BY <4>4, <4>5, <4>6, <5>1
            <4>7. CASE d = c
                BY <1>3, <4>4, <4>5, <4>7
            <4>8. CASE d < c
                <5>1. d > l.chunk => Ranged(l, n)[d][p] = <<>>
                    <6>1. d > l.chunk => Filled(Ranged(l, n)[d]) = {}
                        BY <4>2, <4>8
                    <6>. QED BY <6>1, Zenon DEF Filled
                <5>2. l.copy[p] = <<>>
                    BY Zenon DEF Filled
                <5>. QED BY <4>4, <4>5, <4>8, <5>1, <5>2
            <4>. QED BY <4>2, <4>6, <4>7, <4>8
        <3>3. Rest(View(l, n), l.seen, l.start)
            BY <1>6, Zenon DEF OnTrack
        <3>4. PICK v, w : v = View(l, n) /\ w = View(x, n)
            OBVIOUS
        <3>5. DOMAIN w = DOMAIN v /\ Rest(v, l.seen, l.start) /\ \A s \in DOMAIN v : w[s] = v[s]
            BY <3>1, <3>2, <3>3, <3>4
        <3>6. Rest(w, l.seen, l.start)
            BY <3>5, RestKept
        <3>. QED BY <3>4, <3>6, Zenon
    <2>2. c <= l.len /\ c # 0
        BY <1>2
    <2>3. ASSUME l.shared  PROVE Passed(x, n, l.last)
        <3>1. Passed(l, n, l.last)
            BY <1>6, <2>3, Zenon DEF OnTrack
        <3>2. ASSUME l.last \in DOMAIN n.positions  PROVE n.positions[l.last][1] \in Nat
            BY <3>2, WellFields, Zenon DEF Places
        <3>. QED BY <1>2, <1>4, <3>1, <3>2 DEF Passed
    <2>4. ASSUME l.shared, NEW o \in Slots, ch[o] # <<>>  PROVE Passed(x, n, ch[o][1])
        <3>1. n.chunks = Ranged(l, n) /\ c \in DOMAIN n.chunks
            BY <1>1, <1>2, <2>4 DEF Ranged
        <3>2. n.positions[ch[o][1]] = <<c, o>>
            BY <1>3, <2>4, <3>1 DEF Well, Exact
        <3>. QED BY <1>2, <1>4, <3>2 DEF Passed
    <2>. QED BY <1>4, <2>1, <2>2, <2>3, <2>4 DEF OnTrack
<1>. QED BY <1>1, <1>4, <1>5, <1>6 DEF UnderWay

\* The loop l after it has yielded the key at offset o of its copy.
Taken(l, o) ==
    [l EXCEPT !.copy = [l.copy EXCEPT ![o] = <<>>], !.last = l.copy[o][1],
              !.seen = IF l.disturbed THEN l.seen ELSE Append(l.seen, l.copy[o][1])]

\* The loop yields the first key left in its copy of the present chunk.
LEMMA TakeTrack ==
    ASSUME NEW n, Well(n), NEW l, UnderWay(l, n),
           NEW o \in Slots, l.copy[o] # <<>>, \A p \in Filled(l.copy) : o <= p
    PROVE  UnderWay(Taken(l, o), n)
<1>0. PICK x : x = Taken(l, o)
    OBVIOUS
<1>1. l \in Loops /\ l.len <= Len(Ranged(l, n)) /\ n.chunks \in Seq(Chunk)
    BY WellFields, Zenon DEF UnderWay
<1>2. /\ l.len \in Nat /\ l.chunk \in Nat /\ l.copy \in Chunk
      /\ l.seen \in Seq(Keys) /\ l.start \in Seq(Keys)
    BY <1>1, Zenon DEF Loops
<1>3. PICK ch \in Chunk : ch = [l.copy EXCEPT ![o] = <<>>]
    <2>1. [l.copy EXCEPT ![o] = <<>>] \in Chunk
        BY <1>2, Zenon DEF Chunk
    <2>. QED BY <2>1, Zenon
<1>4. ch[o] = <<>> /\ \A p \in Slots : p # o => ch[p] = l.copy[p]
    BY <1>2, <1>3, Zenon DEF Chunk
<1>5. PICK k \in Keys : k = l.copy[o][1]
    <2>1. l.copy[o] \in Entry
        BY <1>2, Zenon DEF Chunk
    <2>. QED BY <2>1, Zenon DEF Entry
<1>6. PICK z \in Seq(Keys) : z = IF l.disturbed THEN l.seen ELSE Append(l.seen, k)
    <2>1. Append(l.seen, k) \in Seq(Keys)
        BY <1>2, <1>5
    <2>2. (IF l.disturbed THEN l.seen ELSE Append(l.seen, k)) \in Seq(Keys)
        BY <1>2, <2>1, Zenon
    <2>. QED BY <2>2, Zenon
<1>7. x = [l EXCEPT !.copy = ch, !.last = k, !.seen = z]
    BY <1>0, <1>3, <1>5, <1>6 DEF Taken
<1>8. /\ x \in Loops /\ x.len = l.len /\ x.chunk = l.chunk /\ x.copy = ch /\ x.shared = l.shared
      /\ x.frozen = l.frozen /\ x.last = k /\ x.seen = z /\ x.start = l.start
      /\ x.disturbed = l.disturbed
    BY <1>1, <1>3, <1>5, <1>6, <1>7, Zenon DEF Loops
<1>9. Ranged(x, n) = Ranged(l, n)
    BY <1>8, Zenon DEF Ranged
<1>10. ASSUME OnTrack(l, n), ~ l.disturbed  PROVE OnTrack(x, n)
    <2>1. l.chunk <= l.len /\ l.chunk # 0
        <3>1. l.chunk <= l.len /\ (l.chunk = 0 => l.copy = EmptyChunk)
            BY <1>10, Zenon DEF OnTrack
        <3>2. EmptyChunk[o] = <<>>
            BY Zenon DEF EmptyChunk
        <3>. QED BY <3>1, <3>2
    <2>2. l.chunk \in 1 .. l.len
        BY <1>2, <2>1
    <2>3. PICK v, w, s : v = View(l, n) /\ w = View(x, n) /\ s = <<l.chunk, o>>
        BY Zenon
    <2>4. DOMAIN v = (1 .. l.len) \X Slots /\ DOMAIN w = (1 .. l.len) \X Slots
        BY <1>8, <2>3 DEF View
    <2>5. v[s] = l.copy[o] /\ w[s] = <<>> /\ s \in DOMAIN v
        <3>1. View(l, n)[<<l.chunk, o>>] = l.copy[o] /\ View(x, n)[<<l.chunk, o>>] = ch[o]
            <4>1. ~ (l.chunk > l.chunk)
                BY <1>2
            <4>2. View(l, n)[<<l.chunk, o>>] = l.copy[o]
                BY <2>2, <4>1, Zenon DEF View
            <4>3. x.chunk \in 1 .. x.len /\ ~ (x.chunk > x.chunk)
                BY <1>8, <2>2, <4>1, Zenon
            <4>4. View(x, n)[<<x.chunk, o>>] = x.copy[o]
                BY <4>3, Zenon DEF View
            <4>. QED BY <1>8, <4>2, <4>4
        <3>. QED BY <1>4, <2>2, <2>3, <2>4, <3>1
    <2>6. ASSUME NEW t \in DOMAIN v, t # s
          PROVE  w[t] = v[t] /\ (v[t] # <<>> => Before(s, t))
        <3>1. PICK d \in 1 .. l.len, p \in Slots : t = <<d, p>>
            BY <2>4
        <3>2. d \in Nat /\ p \in Nat /\ o \in Nat
            BY <1>2 DEF Slots
        <3>3. v[t] = IF d > l.chunk THEN Ranged(l, n)[d][p]
                     ELSE IF d = l.chunk THEN l.copy[p] ELSE <<>>
            BY <2>3, <3>1, Zenon DEF View
        <3>4. w[t] = IF d > l.chunk THEN Ranged(l, n)[d][p]
                     ELSE IF d = l.chunk THEN ch[p] ELSE <<>>
            <4>1. View(x, n)[<<d, p>>] = IF d > x.chunk THEN Ranged(x, n)[d][p]
                                         ELSE IF d = x.chunk THEN x.copy[p] ELSE <<>>
                <5>1. d \in 1 .. x.len
                    BY <1>8, <3>1, Zenon
                <5>. QED BY <3>1, <5>1 DEF View
            <4>. QED BY <1>8, <1>9, <2>3, <3>1, <4>1
        <3>5. CASE d > l.chunk
            <4>1. Before(s, t)
                BY <2>3, <3>1, <3>5 DEF Before
            <4>. QED BY <3>3, <3>4, <3>5, <4>1
        <3>6. CASE d = l.chunk
            <4>1. p # o
                BY <2>3, <2>6, <3>1, <3>6
            <4>2. ch[p] = l.copy[p]
                BY <1>4, <4>1, Zenon
            <4>3. ~ (d > l.chunk)
                BY <1>2, <3>6
            <4>4. v[t] = l.copy[p] /\ w[t] = l.copy[p]
                BY <3>3, <3>4, <3>6, <4>2, <4>3
            <4>5. l.copy[p] # <<>> => o <= p
                BY Zenon DEF Filled
            <4>6. l.copy[p] # <<>> => o < p
                BY <3>2, <4>1, <4>5
            <4>7. o < p => Before(s, t)
                BY <2>3, <3>1, <3>6 DEF Before
            <4>. QED BY <4>4, <4>6, <4>7, Zenon
        <3>7. CASE d < l.chunk
            BY <1>2, <3>2, <3>3, <3>4, <3>7
        <3>. QED BY <1>2, <3>2, <3>5, <3>6, <3>7
    <2>7. s \in Remaining(v) /\ \A t \in Remaining(v) : t = s \/ Before(s, t)
        BY <2>5, <2>6 DEF Remaining
    <2>8. Lost(Remaining(v), Remaining(w), s) /\ \A t \in Remaining(w) : w[t] = v[t]
        BY <2>4, <2>5, <2>6 DEF Remaining, Lost
    <2>9. Rest(v, l.seen, l.start) /\ Remaining(v) \in SUBSET Places
        BY <1>1, <1>10, <2>3, RemainingArePlaces DEF OnTrack
    <2>10. k = v[s][1]
        BY <1>5, <2>5
    <2>11. Rest(w, Append(l.seen, k), l.start)
        BY <1>2, <2>7, <2>8, <2>9, <2>10, RestYields
    <2>12. Rest(View(x, n), x.seen, x.start)
        BY <1>6, <1>8, <1>10, <2>3, <2>11
    <2>13. ASSUME l.shared  PROVE Passed(x, n, k)
        <3>1. Passed(l, n, l.copy[o][1])
            BY <1>10, <2>13, Zenon DEF OnTrack
        <3>. QED BY <1>5, <1>8, <3>1, Zenon DEF Passed
    <2>14. ASSUME l.shared, NEW p \in Slots, ch[p] # <<>>  PROVE Passed(x, n, ch[p][1])
        <3>1. p # o /\ ch[p] = l.copy[p]
            BY <1>4, <2>14, Zenon
        <3>2. Passed(l, n, l.copy[p][1])
            BY <1>10, <2>14, <3>1 DEF OnTrack
        <3>. QED BY <1>8, <3>1, <3>2 DEF Passed
    <2>. QED BY <1>8, <2>1, <2>12, <2>13, <2>14 DEF OnTrack
<1>11. l.disturbed \/ OnTrack(l, n)
    BY Zenon DEF UnderWay
<1>12. UnderWay(x, n)
    BY <1>1, <1>8, <1>9, <1>10, <1>11 DEF UnderWay
<1>. QED BY <1>0, <1>12, Zenon

\* w has the slots of n past the chunk c as n has them, but for their values,
\* and every key of w is where n has it.
SameAhead(n, w, c) ==
    /\ \A d \in 1 .. Len(n.chunks), p \in Slots : d > c =>
          /\ w.chunks[d][p] # <<>> <=> n.chunks[d][p] # <<>>
          /\ n.chunks[d][p] # <<>> => w.chunks[d][p][1] = n.chunks[d][p][1]
    /\ \A k \in DOMAIN w.positions : k \in DOMAIN n.positions /\ w.positions[k] = n.positions[k]

\* A step of the map that leaves alone what the loop has yet to reach.
LEMMA KeepTrack ==
    ASSUME NEW n, Well(n), NEW w, Well(w), Len(w.chunks) = Len(n.chunks), NEW l, UnderWay(l, n),
           ~ l.disturbed => SameAhead(n, w, l.chunk)
    PROVE  UnderWay(l, w)
<1>1. l \in Loops /\ l.len <= Len(Ranged(l, n)) /\ n.chunks \in Seq(Chunk) /\ w.chunks \in Seq(Chunk)
    BY WellFields, Zenon DEF UnderWay
<1>2. l.len \in Nat /\ l.chunk \in Nat /\ Len(n.chunks) \in Nat
    BY <1>1 DEF Loops
<1>3. l.len <= Len(Ranged(l, w))
    BY <1>1, Zenon DEF Ranged
<1>4. ASSUME OnTrack(l, n), ~ l.disturbed  PROVE OnTrack(l, w)
    <2>1. PICK v, u : v = View(l, n) /\ u = View(l, w)
        OBVIOUS
    <2>2. DOMAIN u = (1 .. l.len) \X Slots /\ DOMAIN v = (1 .. l.len) \X Slots
        BY <2>1, Zenon DEF View
    <2>3. ASSUME NEW s \in DOMAIN v
          PROVE  (u[s] # <<>> <=> v[s] # <<>>) /\ (v[s] # <<>> => u[s][1] = v[s][1])
        <3>1. PICK d \in 1 .. l.len, p \in Slots : s = <<d, p>>
            BY <2>2
        <3>2. v[s] = IF d > l.chunk THEN Ranged(l, n)[d][p]
                     ELSE IF d = l.chunk THEN l.copy[p] ELSE <<>>
            BY <2>1, <3>1, Zenon DEF View
        <3>3. u[s] = IF d > l.chunk THEN Ranged(l, w)[d][p]
                     ELSE IF d = l.chunk THEN l.copy[p] ELSE <<>>
            BY <2>1, <3>1, Zenon DEF View
        <3>4. CASE d > l.chunk /\ l.shared
            <4>1. d \in 1 .. Len(n.chunks) /\ Ranged(l, n) = n.chunks /\ Ranged(l, w) = w.chunks
                BY <1>1, <1>2, <3>4 DEF Ranged
            <4>2. /\ w.chunks[d][p] # <<>> <=> n.chunks[d][p] # <<>>
                  /\ n.chunks[d][p] # <<>> => w.chunks[d][p][1] = n.chunks[d][p][1]
                BY <1>4, <3>1, <3>4, <4>1 DEF SameAhead
            <4>. QED BY <3>2, <3>3, <3>4, <4>1, <4>2
        <3>5. CASE ~ (d > l.chunk /\ l.shared)
            <4>1. ~ l.shared => Ranged(l, n) = Ranged(l, w)
                BY Zenon DEF Ranged
            <4>2. u[s] = v[s]
                BY <3>2, <3>3, <3>5, <4>1
            <4>. QED BY <4>2, Zenon
        <3>. QED BY <3>4, <3>5, Zenon
    <2>4. Rest(v, l.seen, l.start)
        BY <1>4, <2>1, Zenon DEF OnTrack
    <2>5. Rest(u, l.seen, l.start)
        BY <2>2, <2>3, <2>4, RestKept
    <2>6. Rest(View(l, w), l.seen, l.start)
        BY <2>1, <2>5, Zenon
    <2>7. ASSUME NEW k, Passed(l, n, k)  PROVE Passed(l, w, k)
        BY <1>4, <2>7, Zenon DEF Passed, SameAhead
    <2>. QED BY <1>4, <2>6, <2>7, Zenon DEF OnTrack
<1>. QED BY <1>1, <1>3, <1>4 DEF UnderWay

\* Append and compactIfNeeded move the map to another array: the loop keeps the
\* one it ranges over.
LEMMA DetachTrack ==
    ASSUME NEW n, Well(n), NEW l, UnderWay(l, n), NEW w
    PROVE  UnderWay(Detached(l, n.chunks), w) \/ (Detached(l, n.chunks) = l /\ ~ l.shared)
<1>1. l \in Loops /\ l.len <= Len(Ranged(l, n)) /\ n.chunks \in Seq(Chunk)
    BY WellFields, Zenon DEF UnderWay
<1>2. l.len \in Nat /\ l.chunk \in Nat /\ l.on
    BY <1>1, Zenon DEF Loops
<1>3. ASSUME l.shared  PROVE UnderWay(Detached(l, n.chunks), w)
    <2>. DEFINE f == [c \in 1 .. l.len |-> IF c <= l.chunk THEN EmptyChunk ELSE n.chunks[c]]
    <2>1. PICK x : x = Detached(l, n.chunks)
        OBVIOUS
    <2>2. x = [l EXCEPT !.shared = FALSE, !.frozen = f]
        BY <1>2, <1>3, <2>1 DEF Detached
    <2>3. \A c \in 1 .. l.len : c \in 1 .. Len(n.chunks) /\ n.chunks[c] \in Chunk
        BY <1>1, <1>2, <1>3 DEF Ranged
    <2>4. EmptyChunk \in Chunk
        BY Zenon DEF EmptyChunk, Chunk
    <2>5. f \in [1 .. l.len -> Chunk]
        BY <2>3, <2>4, Zenon
    <2>6. \A c \in 1 .. l.len : c > l.chunk => f[c] = n.chunks[c]
        BY <1>2
    <2>. HIDE DEF f
    <2>7. f \in Seq(Chunk) /\ Len(f) = l.len
        BY <1>2, <2>5
    <2>8. /\ x \in Loops /\ x.len = l.len /\ x.chunk = l.chunk /\ x.copy = l.copy /\ ~ x.shared
          /\ x.frozen = f /\ x.last = l.last /\ x.seen = l.seen /\ x.start = l.start
          /\ x.disturbed = l.disturbed
        BY <1>1, <2>2, <2>7, Zenon DEF Loops
    <2>9. Ranged(x, w) = f /\ Ranged(l, n) = n.chunks
        BY <1>3, <2>8 DEF Ranged
    <2>10. x.len <= Len(Ranged(x, w))
        BY <1>2, <2>7, <2>8, <2>9
    <2>11. ASSUME OnTrack(l, n)  PROVE OnTrack(x, w)
        <3>1. PICK v, u : v = View(l, n) /\ u = View(x, w)
            OBVIOUS
        <3>2. DOMAIN u = (1 .. l.len) \X Slots /\ DOMAIN v = (1 .. l.len) \X Slots
            BY <2>8, <3>1, Zenon DEF View
        <3>3. ASSUME NEW s \in DOMAIN v  PROVE u[s] = v[s]
            <4>1. PICK d \in 1 .. l.len, p \in Slots : s = <<d, p>>
                BY <3>2
            <4>2. v[s] = IF d > l.chunk THEN Ranged(l, n)[d][p]
                         ELSE IF d = l.chunk THEN l.copy[p] ELSE <<>>
                BY <3>1, <4>1, Zenon DEF View
            <4>3. u[s] = IF d > x.chunk THEN Ranged(x, w)[d][p]
                         ELSE IF d = x.chunk THEN x.copy[p] ELSE <<>>
                <5>1. d \in 1 .. x.len
                    BY <2>8, <4>1, Zenon
                <5>. QED BY <3>1, <4>1, <5>1, Zenon DEF View
            <4>4. d > l.chunk => Ranged(x, w)[d] = Ranged(l, n)[d]
                BY <2>6, <2>9, <4>1, Zenon
            <4>. QED BY <2>8, <4>2, <4>3, <4>4
        <3>4. Rest(v, l.seen, l.start)
            BY <2>11, <3>1, Zenon DEF OnTrack
        <3>5. Rest(u, l.seen, l.start)
            BY <3>2, <3>3, <3>4, RestKept, Zenon
        <3>6. Rest(View(x, w), x.seen, x.start)
            BY <2>8, <3>1, <3>5, Zenon
        <3>. QED BY <2>8, <2>11, <3>6 DEF OnTrack
    <2>12. UnderWay(x, w)
        BY <2>8, <2>10, <2>11, Zenon DEF UnderWay
    <2>. QED BY <2>1, <2>12, Zenon
<1>4. ASSUME ~ l.shared  PROVE Detached(l, n.chunks) = l
    BY <1>4, Zenon DEF Detached
<1>. QED BY <1>3, <1>4, Zenon

\* A loop that does not share the map's array does not notice what becomes of it.
LEMMA ApartTrack ==
    ASSUME NEW n, NEW l, UnderWay(l, n), ~ l.shared, NEW w
    PROVE  UnderWay(l, w)
<1>1. Ranged(l, w) = Ranged(l, n)
    BY Zenon DEF Ranged
<1>2. View(l, w) = View(l, n)
    BY <1>1, Zenon DEF View
<1>3. OnTrack(l, n) => OnTrack(l, w)
    BY <1>2, Zenon DEF OnTrack
<1>. QED BY <1>1, <1>3, Zenon DEF UnderWay

\* The loop's body did something else to the map: nothing is claimed of the loop
\* any more, but that its fields are what they should be.
LEMMA DisturbTrack ==
    ASSUME NEW n, NEW w, NEW l, UnderWay(l, n),
           l.shared => l.len <= Len(w.chunks)
    PROVE  UnderWay(Disturbed(l), w)
<1>1. l \in Loops /\ l.len <= Len(Ranged(l, n))
    BY Zenon DEF UnderWay
<1>2a. <<>> \in Seq(Keys)
    OBVIOUS
<1>2b. l.on
    BY <1>1, Zenon DEF Loops
<1>2. <<>> \in Seq(Keys) /\ l.on
    BY <1>2a, <1>2b, Zenon
<1>3. PICK x : x = Disturbed(l)
    OBVIOUS
<1>4. x = [l EXCEPT !.disturbed = TRUE, !.start = <<>>, !.seen = <<>>]
    BY <1>2, <1>3, Zenon DEF Disturbed
<1>5. /\ x \in Loops /\ x.len = l.len /\ x.shared = l.shared /\ x.frozen = l.frozen
      /\ x.disturbed = TRUE
    BY <1>1, <1>2, <1>4, Zenon DEF Loops
<1>6. x.len <= Len(Ranged(x, w))
    BY <1>1, <1>5, Zenon DEF Ranged
<1>. QED BY <1>3, <1>5, <1>6, Zenon DEF UnderWay

\* A loop begins: what it has yet to come to is the whole map.
LEMMA BeginTrack ==
    ASSUME NEW n, Well(n), Listed(n),
           NEW x, x = [on |-> TRUE, shared |-> TRUE, frozen |-> <<>>, len |-> Len(n.chunks),
                       chunk |-> 0, copy |-> EmptyChunk, last |-> None, seen |-> <<>>,
                       start |-> [i \in DOMAIN Live(n.chunks) |-> Live(n.chunks)[i][1]],
                       disturbed |-> FALSE]
    PROVE  UnderWay(x, n)
<1>1. n.chunks \in Seq(Chunk) /\ DOMAIN n.positions \in SUBSET Keys /\ Len(n.chunks) \in Nat
    BY WellFields
<1>2a. PICK l \in Nat : \E q : Enum(q, FilledSlots(n.chunks), l)
    BY Zenon DEF Listed
<1>2. PICK q : Enum(q, FilledSlots(n.chunks), l)
    BY <1>2a, Zenon
<1>3. PICK a : a = Live(n.chunks)
    OBVIOUS
<1>4. a = [i \in 1 .. l |-> n.chunks[q[i][1]][q[i][2]]] /\ a \in Seq(Entry) /\ Len(a) = l
    <2>1. /\ Live(n.chunks) = [i \in 1 .. l |-> n.chunks[q[i][1]][q[i][2]]]
          /\ Live(n.chunks) \in Seq(Entry) /\ Len(Live(n.chunks)) = l
        BY <1>1, <1>2, LiveIs, Zenon
    <2>. QED BY <1>3, <2>1, Zenon
<1>5. PICK z : z = [i \in 1 .. l |-> a[i][1]]
    BY Zenon
<1>6. z \in Seq(Keys) /\ Len(z) = l
    <2>1. \A i \in 1 .. l : a[i][1] \in Keys
        BY <1>4 DEF Entry
    <2>2. z \in [1 .. l -> Keys]
        BY <1>5, <2>1, Zenon
    <2>. QED BY <2>2
<1>7. z = [i \in DOMAIN Live(n.chunks) |-> Live(n.chunks)[i][1]]
    BY <1>3, <1>4, <1>5, Zenon
<1>8. EmptyChunk \in Chunk /\ <<>> \in Seq(Chunk) /\ <<>> \in Seq(Keys)
    BY DEF EmptyChunk, Chunk
<1>9. /\ x \in Loops /\ x.shared = TRUE /\ x.len = Len(n.chunks) /\ x.chunk = 0 /\ x.copy = EmptyChunk
      /\ x.last = None /\ x.seen = <<>> /\ x.start = z /\ x.disturbed = FALSE
    <2>. HIDE DEF EmptyChunk
    <2>. QED BY <1>1, <1>6, <1>7, <1>8, Zenon DEF Loops
<1>10. Ranged(x, n) = n.chunks
    BY <1>9, Zenon DEF Ranged
<1>11. PICK v : v = View(x, n)
    BY Zenon
<1>12. DOMAIN v = (1 .. Len(n.chunks)) \X Slots /\ \A s \in DOMAIN v : v[s] = n.chunks[s[1]][s[2]]
    <2>1. DOMAIN v = (1 .. Len(n.chunks)) \X Slots
        BY <1>9, <1>11, Zenon DEF View
    <2>2. ASSUME NEW s \in DOMAIN v  PROVE v[s] = n.chunks[s[1]][s[2]]
        <3>1. s[1] \in Nat /\ s[1] > 0
            BY <1>1, <2>1, <2>2
        <3>. QED BY <1>9, <1>10, <1>11, <2>1, <3>1, Zenon DEF View
    <2>. QED BY <2>1, <2>2, Zenon
<1>13. Remaining(v) = FilledSlots(n.chunks)
    BY <1>12, Zenon DEF Remaining, FilledSlots
<1>14. \A i \in 1 .. l : z[i] = v[q[i]][1]
    <2>1. \A i \in 1 .. l : q[i] \in FilledSlots(n.chunks)
        BY <1>2, Zenon DEF Enum
    <2>2. \A i \in 1 .. l : q[i] \in DOMAIN v
        BY <1>13, <2>1, Zenon DEF Remaining
    <2>. QED BY <1>4, <1>5, <1>12, <2>2, Zenon
<1>15. Splits(v, <<>>, z, q, l)
    <2>1. Len(<<>>) = 0 /\ Len(z) = Len(<<>>) + l /\ \A i \in 1 .. l : Len(<<>>) + i = i
        BY <1>6
    <2>. QED BY <1>2, <1>13, <1>14, <2>1 DEF Splits
<1>16. Rest(View(x, n), x.seen, x.start)
    BY <1>9, <1>11, <1>15, Zenon DEF Rest
<1>17. None \notin DOMAIN n.positions /\ \A o \in Slots : EmptyChunk[o] = <<>>
    BY <1>1, NoneAssumption, Zenon DEF EmptyChunk
<1>18. OnTrack(x, n)
    <2>. HIDE DEF EmptyChunk
    <2>. QED BY <1>1, <1>9, <1>16, <1>17 DEF OnTrack, Passed
<1>. QED BY <1>1, <1>9, <1>10, <1>18 DEF UnderWay

\* Nothing happens to a loop that is not under way.
LEMMA NoLoopIs ==
    /\ NoLoop.on = FALSE /\ NoLoop.complete = TRUE /\ Disturbed(NoLoop) = NoLoop
    /\ \A a : Detached(NoLoop, a) = NoLoop
<1>1. NoLoop.on = FALSE /\ NoLoop.complete = TRUE
    BY Zenon DEF NoLoop
<1>. QED BY <1>1, Zenon DEF Disturbed, Detached

\* A loop over Keys() begins.
LEMMA BeginKeysLInv ==
    ASSUME IInv, BeginKeys
    PROVE  LInv'
<1>1. PICK n : n = m
    OBVIOUS
<1>2. Well(n) /\ Listed(n)
    BY <1>1, Zenon DEF IInv, Good
<1>3. PICK x : x = [on |-> TRUE, shared |-> TRUE, frozen |-> <<>>, len |-> Len(n.chunks),
                    chunk |-> 0, copy |-> EmptyChunk, last |-> None, seen |-> <<>>,
                    start |-> [i \in DOMAIN Live(n.chunks) |-> Live(n.chunks)[i][1]],
                    disturbed |-> FALSE]
    BY Zenon
<1>4. loop' = x /\ m' = n
    BY <1>1, <1>3, Zenon DEF BeginKeys
<1>5. UnderWay(x, n)
    BY <1>2, <1>3, BeginTrack, Zenon
<1>. QED BY <1>4, <1>5, Zenon DEF LInv

\* Yield: the loop is on track at the first key of its copy.
LEMMA YieldTrack ==
    ASSUME NEW n, Well(n), NEW l, UnderWay(l, n), NEW c, NEW copy, NEW x,
           UnderWay(x, n), x = [l EXCEPT !.chunk = c, !.copy = copy],
           NEW o \in Filled(copy), \A p \in Filled(copy) : o <= p,
           NEW y, y = [l EXCEPT !.chunk = c, !.copy = [copy EXCEPT ![o] = <<>>],
                                !.last = copy[o][1],
                                !.seen = IF l.disturbed THEN l.seen ELSE Append(l.seen, copy[o][1])]
    PROVE  UnderWay(y, n)
<1>1. l \in Loops
    BY Zenon DEF UnderWay
<1>2. x.copy = copy /\ x.chunk = c /\ x.seen = l.seen /\ x.disturbed = l.disturbed
    BY <1>1, Zenon DEF Loops
<1>3. PICK ch, k, z : ch = [copy EXCEPT ![o] = <<>>] /\ k = copy[o][1]
          /\ z = IF l.disturbed THEN l.seen ELSE Append(l.seen, copy[o][1])
    BY Zenon
<1>4. y = [l EXCEPT !.chunk = c, !.copy = ch, !.last = k, !.seen = z]
    BY <1>3, Zenon
<1>5. y = [x EXCEPT !.copy = ch, !.last = k, !.seen = z]
    BY <1>1, <1>4, Zenon DEF Loops
<1>6. y = Taken(x, o)
    BY <1>2, <1>3, <1>5, Zenon DEF Taken
<1>7. o \in Slots /\ x.copy[o] # <<>> /\ \A p \in Filled(x.copy) : o <= p
    BY <1>2, Zenon DEF Filled
<1>8. UnderWay(Taken(x, o), n)
    <2>1. o \in Slots
        BY <1>7, Zenon
    <2>2. x.copy[o] # <<>>
        BY <1>7, Zenon
    <2>3. \A p \in Filled(x.copy) : o <= p
        BY <1>7, Zenon
    <2>. QED BY ONLY Well(n), UnderWay(x, n), <2>1, <2>2, <2>3, TakeTrack
<1>. QED BY <1>6, <1>8, Zenon

\* The loop comes to its next key, or to its end.
LEMMA NextKeyLInv ==
    ASSUME IInv, LInv, NextKey
    PROVE  LInv'
<1>1. PICK n, l : n = m /\ l = loop
    OBVIOUS
<1>2. Well(n) /\ l.on /\ m' = n
    BY <1>1, Zenon DEF IInv, Good, NextKey
<1>3. UnderWay(l, n)
    BY <1>1, <1>2, NoLoopIs, Zenon DEF LInv
<1>4. l \in Loops /\ l.len <= Len(Ranged(l, n)) /\ l.len \in Nat /\ l.chunk \in Nat
    BY <1>3, Zenon DEF UnderWay, Loops
<1>5. Source = Ranged(l, n) /\ Ahead = {c \in 1 .. l.len : c > l.chunk /\ Filled(Ranged(l, n)[c]) # {}}
    BY <1>1, Zenon DEF Source, Ranged, Ahead
<1>6. ASSUME NEW c, NEW copy, Yield(c, copy), UnderWay([l EXCEPT !.chunk = c, !.copy = copy], n)
      PROVE  LInv'
    <2>1. PICK o \in Filled(copy) :
              /\ \A p \in Filled(copy) : o <= p
              /\ loop' = [l EXCEPT !.chunk = c, !.copy = [copy EXCEPT ![o] = <<>>],
                                   !.last = copy[o][1],
                                   !.seen = IF l.disturbed THEN l.seen ELSE Append(l.seen, copy[o][1])]
        BY <1>1, <1>6, Zenon DEF Yield
    <2>2. PICK x : x = [l EXCEPT !.chunk = c, !.copy = copy]
        OBVIOUS
    <2>3. PICK y : y = [l EXCEPT !.chunk = c, !.copy = [copy EXCEPT ![o] = <<>>],
                                 !.last = copy[o][1],
                                 !.seen = IF l.disturbed THEN l.seen ELSE Append(l.seen, copy[o][1])]
        OBVIOUS
    <2>4. UnderWay(x, n)
        BY <1>6, <2>2, Zenon
    <2>5. UnderWay(y, n)
        BY <1>2, <1>3, <2>1, <2>2, <2>3, <2>4, YieldTrack, Zenon
    <2>6. loop' = y
        BY <2>1, <2>3, Zenon
    <2>. QED BY <1>2, <2>5, <2>6, Zenon DEF LInv
<1>7. CASE Yield(loop.chunk, loop.copy)
    <2>1. [l EXCEPT !.chunk = l.chunk, !.copy = l.copy] = l
        BY <1>4, Zenon DEF Loops
    <2>2. Yield(l.chunk, l.copy)
        BY <1>1, <1>7, Zenon
    <2>. QED BY <1>3, <1>6, <2>1, <2>2, Zenon
<1>8. CASE /\ Filled(loop.copy) = {}
           /\ \E c \in Ahead : (\A d \in Ahead : c <= d) /\ Yield(c, Source[c])
    <2>1. PICK c \in Ahead : (\A d \in Ahead : c <= d) /\ Yield(c, Source[c])
        BY <1>8, Zenon
    <2>2. c \in 1 .. l.len /\ c > l.chunk
        BY <1>5, <2>1, Zenon
    <2>3. \A d \in 1 .. l.len : d > l.chunk /\ Filled(Ranged(l, n)[d]) # {} => c <= d
        BY <1>5, <2>1, Zenon
    <2>4. PICK x, copy : x = [l EXCEPT !.chunk = c, !.copy = copy] /\ copy = Ranged(l, n)[c]
        BY Zenon
    <2>5. x = [l EXCEPT !.chunk = c, !.copy = Ranged(l, n)[c]] /\ Filled(l.copy) = {}
        BY <1>1, <1>8, <2>4, Zenon
    <2>6. UnderWay(x, n)
        BY <1>2, <1>3, <2>2, <2>3, <2>5, AdvanceTrack, Zenon
    <2>7. Yield(c, copy)
        BY <1>5, <2>1, <2>4, Zenon
    <2>. QED BY <1>6, <2>4, <2>6, <2>7, Zenon
<1>9. CASE Filled(loop.copy) = {} /\ Ahead = {} /\ loop' = Finished(loop)
    <2>1. Filled(l.copy) = {} /\ Ahead = {} /\ loop' = Finished(l)
        BY <1>1, <1>9, Zenon
    <2>2. l.disturbed \/ l.seen = l.start
        <3>. SUFFICES ASSUME ~ l.disturbed  PROVE l.seen = l.start
            OBVIOUS
        <3>1. OnTrack(l, n)
            BY <1>3, Zenon DEF UnderWay
        <3>2. PICK v : v = View(l, n)
            OBVIOUS
        <3>3. Rest(v, l.seen, l.start)
            BY <3>1, <3>2, Zenon DEF OnTrack
        <3>4. ASSUME NEW s \in Remaining(v)  PROVE FALSE
            <4>1. PICK d \in 1 .. l.len, p \in Slots : s = <<d, p>>
                BY <3>2, <3>4 DEF View, Remaining
            <4>2. v[s] = IF d > l.chunk THEN Ranged(l, n)[d][p]
                         ELSE IF d = l.chunk THEN l.copy[p] ELSE <<>>
                BY <3>2, <4>1, Zenon DEF View
            <4>3. v[s] # <<>>
                BY <3>4, Zenon DEF Remaining
            <4>4. l.copy[p] = <<>>
                BY <2>1, <4>1, Zenon DEF Filled
            <4>5. d > l.chunk => Filled(Ranged(l, n)[d]) = {}
                BY <1>5, <2>1, <4>1, Zenon
            <4>6. d > l.chunk => Ranged(l, n)[d][p] = <<>>
                BY <4>1, <4>5, Zenon DEF Filled
            <4>. QED BY <4>2, <4>3, <4>4, <4>6, Zenon
        <3>5. l.seen \in Seq(Keys) /\ l.start \in Seq(Keys)
            BY <1>4, Zenon DEF Loops
        <3>. QED BY <3>3, <3>4, <3>5, RestEnds, Zenon
    <2>3. Finished(l) = NoLoop
        <3>1. l.disturbed \in BOOLEAN
            BY <1>4, Zenon DEF Loops
        <3>2. (l.disturbed \/ l.seen = l.start) = TRUE
            BY <2>2, <3>1, Zenon
        <3>. QED BY <3>2, Zenon DEF Finished, NoLoop
    <2>. QED BY <2>1, <2>3, Zenon DEF LInv
<1>. QED BY <1>7, <1>8, <1>9, Zenon DEF NextKey

\* insertNew of an absent key, which may move the map to another array.
LEMMA InsertNewLInv ==
    ASSUME IInv, LInv, NEW k \in Keys, NEW v \in Values, InsertNew(k, v)
    PROVE  LInv'
<1>1. PICK n, l, w : n = m /\ l = loop /\ w = WithNew(n, k, v)
    OBVIOUS
<1>2. Well(n) /\ m' = w
    BY <1>1, Zenon DEF IInv, Good, InsertNew
<1>3. loop' = Disturbed(l) \/ loop' = Disturbed(Detached(l, n.chunks))
    BY <1>1, Zenon DEF InsertNew
<1>4. CASE l = NoLoop
    <2>1. loop' = NoLoop
        BY <1>3, <1>4, NoLoopIs, Zenon
    <2>. QED BY <2>1, Zenon DEF LInv
<1>5. CASE UnderWay(l, n)
    <2>1. l \in Loops /\ l.len <= Len(Ranged(l, n)) /\ l.len \in Nat
        BY <1>5, Zenon DEF UnderWay, Loops
    <2>2. n.chunks \in Seq(Chunk) /\ w.chunks \in Seq(Chunk) /\ Len(n.chunks) <= Len(w.chunks)
        BY <1>1, <1>2, WellFields, WithNewSlots, Zenon
    <2>3. l.shared => l.len <= Len(w.chunks)
        BY <2>1, <2>2 DEF Ranged
    <2>4. UnderWay(Disturbed(l), w)
        BY <1>5, <2>3, DisturbTrack, Zenon
    <2>5. UnderWay(Disturbed(Detached(l, n.chunks)), w)
        <3>1. PICK x : x = Detached(l, n.chunks)
            OBVIOUS
        <3>2. CASE x = l
            BY <2>4, <3>1, <3>2, Zenon
        <3>3. CASE x # l
            <4>1. UnderWay(x, n)
                BY <1>2, <1>5, <3>1, <3>3, DetachTrack, Zenon
            <4>2. x.shared = FALSE
                <5>1. x = [l EXCEPT !.shared = FALSE,
                              !.frozen = [c \in 1 .. l.len |-> IF c <= l.chunk THEN EmptyChunk ELSE n.chunks[c]]]
                    BY <3>1, <3>3, Zenon DEF Detached
                <5>. QED BY <2>1, <5>1, Zenon DEF Loops
            <4>3. UnderWay(Disturbed(x), w)
                BY <4>1, <4>2, DisturbTrack, Zenon
            <4>. QED BY <3>1, <4>3, Zenon
        <3>. QED BY <3>2, <3>3, Zenon
    <2>. QED BY <1>2, <1>3, <2>4, <2>5, Zenon DEF LInv
<1>6. l = NoLoop \/ UnderWay(l, n)
    BY <1>1, Zenon DEF LInv
<1>. QED BY <1>4, <1>5, <1>6, Zenon

\* InsertOrReplace of a live key changes no key.
LEMMA ReplaceLInv ==
    ASSUME IInv, LInv, NEW k \in Keys, NEW v \in Values, Present(k), InsertOrReplace(k, v)
    PROVE  LInv'
<1>1. PICK n, l, cs : n = m /\ l = loop /\ cs = Rewritten(n, k, <<k, v>>)
    OBVIOUS
<1>2. Good(n) /\ Well(n) /\ k \in DOMAIN n.positions /\ loop' = l
    BY <1>1, Zenon DEF IInv, Good, Present, InsertOrReplace
<1>3. n = [chunks |-> n.chunks, positions |-> n.positions, nextOffset |-> n.nextOffset]
    BY <1>2, WellFields, Zenon
<1>4. PICK r : r = [chunks |-> cs, positions |-> n.positions, nextOffset |-> n.nextOffset]
    BY Zenon
<1>5. m' = r
    <2>1. m' = [n EXCEPT !.chunks[n.positions[k][1]][n.positions[k][2]] = <<k, v>>]
        BY <1>1, Zenon DEF InsertOrReplace
    <2>. QED BY <1>1, <1>3, <1>4, <2>1 DEF Rewritten
<1>6. Well(r)
    BY <1>1, <1>2, <1>4, GoodReplaced, Zenon DEF Good
<1>7. PICK c, o : c = n.positions[k][1] /\ o = n.positions[k][2]
    OBVIOUS
<1>8. <<k, v>> \in Entry \cup {<<>>} /\ <<k, v>>[1] = k /\ <<k, v>> # <<>>
    BY Zenon DEF Entry
<1>9. PICK e : e = <<k, v>>
    BY Zenon
<1>10. Wrote(n, k, e, cs, c, o)
    BY <1>1, <1>2, <1>7, <1>8, <1>9, RewrittenSlots, Zenon
<1>11. ASSUME NEW d \in 1 .. Len(n.chunks), NEW p \in Slots
       PROVE  /\ cs[d][p] # <<>> <=> n.chunks[d][p] # <<>>
              /\ n.chunks[d][p] # <<>> => cs[d][p][1] = n.chunks[d][p][1]
    <2>1. CASE <<d, p>> = <<c, o>>
        <3>1. d = c /\ p = o
            BY <2>1, Zenon
        <3>2. cs[c][o] = e /\ n.chunks[c][o] # <<>> /\ n.chunks[c][o][1] = k
            BY <1>10, Zenon DEF Wrote
        <3>. QED BY <1>8, <1>9, <3>1, <3>2, Zenon
    <2>2. CASE <<d, p>> # <<c, o>>
        <3>1. cs[d][p] = n.chunks[d][p]
            BY <1>10, <1>11, <2>2, Zenon DEF Wrote
        <3>. QED BY <3>1, Zenon
    <2>. QED BY <2>1, <2>2, Zenon
<1>12. r.chunks = cs /\ r.positions = n.positions /\ Len(cs) = Len(n.chunks)
    BY <1>4, <1>10, Zenon DEF Wrote
<1>13. SameAhead(n, r, l.chunk)
    BY <1>11, <1>12, Zenon DEF SameAhead
<1>14. UnderWay(l, n) => UnderWay(l, r)
    BY <1>2, <1>6, <1>12, <1>13, KeepTrack, Zenon
<1>15. l = NoLoop \/ UnderWay(l, n)
    BY <1>1, Zenon DEF LInv
<1>. QED BY <1>2, <1>5, <1>14, <1>15, Zenon DEF LInv

\* Delete erases the entry and compacts the map if need be.  The key the loop
\* has been given is not ahead of it.
LEMMA DeleteLInv ==
    ASSUME IInv, LInv, NEW k \in Keys, Delete(k)
    PROVE  LInv'
<1>1. PICK n, l, w : n = m /\ l = loop /\ w = Without(n, k)
    OBVIOUS
<1>2. Well(n) /\ k \in DOMAIN n.positions
    BY <1>1, Zenon DEF IInv, Good, Present, Delete
<1>3. Erased(k) = w
    BY <1>1, <1>2, ErasedIs, Zenon
<1>4. PICK x : x = IF l.on /\ l.last = k THEN l ELSE Disturbed(l)
    OBVIOUS
<1>5. (m' = w /\ loop' = x) \/ loop' = Detached(x, w.chunks)
    BY <1>1, <1>3, <1>4, Zenon DEF Delete
<1>6. CASE l = NoLoop
    <2>1. x = NoLoop
        BY <1>4, <1>6, NoLoopIs, Zenon
    <2>2. loop' = NoLoop
        BY <1>5, <2>1, NoLoopIs, Zenon
    <2>. QED BY <2>2, Zenon DEF LInv
<1>7. CASE UnderWay(l, n)
    <2>1. l \in Loops /\ l.len <= Len(Ranged(l, n)) /\ l.len \in Nat /\ l.chunk \in Nat /\ l.on
        BY <1>7, Zenon DEF UnderWay, Loops
    <2>2. PICK c, o : c = n.positions[k][1] /\ o = n.positions[k][2]
        OBVIOUS
    <2>3. Wrote(n, k, <<>>, w.chunks, c, o)
        BY <1>1, <1>2, <2>2, WithoutSlots, Zenon
    <2>4. Well(w) /\ Len(w.chunks) = Len(n.chunks)
        BY <1>1, <1>2, <2>3, WithoutWell, Zenon DEF Wrote
    <2>5. UnderWay(x, w)
        <3>1. CASE l.last = k
            <4>1. ASSUME ~ l.disturbed, l.shared  PROVE SameAhead(n, w, l.chunk)
                <5>1. c <= l.chunk
                    BY <1>2, <1>7, <2>2, <3>1, <4>1, Zenon DEF UnderWay, OnTrack, Passed
                <5>2. c \in Nat
                    BY <2>3 DEF Wrote
                <5>3. ASSUME NEW d \in 1 .. Len(n.chunks), NEW p \in Slots, d > l.chunk
                      PROVE  w.chunks[d][p] = n.chunks[d][p]
                    <6>1. d # c
                        BY <2>1, <5>1, <5>2, <5>3
                    <6>2. <<d, p>> # <<c, o>>
                        BY <6>1, Zenon
                    <6>. QED BY <2>3, <5>3, <6>2, Zenon DEF Wrote
                <5>4. \A j \in DOMAIN w.positions : j \in DOMAIN n.positions /\ w.positions[j] = n.positions[j]
                    BY <1>1, <1>2, WithoutFields
                <5>. QED BY <5>3, <5>4, Zenon DEF SameAhead
            <4>2. ASSUME l.disturbed \/ l.shared  PROVE UnderWay(l, w)
                <5>1. CASE l.disturbed
                    BY <1>2, <1>7, <2>4, <5>1, KeepTrack, Zenon
                <5>2. CASE ~ l.disturbed
                    BY <1>2, <1>7, <2>4, <4>1, <4>2, <5>2, KeepTrack, Zenon
                <5>. QED BY <5>1, <5>2, Zenon
            <4>3. ASSUME ~ l.shared  PROVE UnderWay(l, w)
                BY <1>7, <4>3, ApartTrack, Zenon
            <4>4. x = l
                BY <1>4, <2>1, <3>1, Zenon
            <4>. QED BY <4>2, <4>3, <4>4, Zenon
        <3>2. CASE l.last # k
            <4>1. l.shared => l.len <= Len(w.chunks)
                BY <2>1, <2>4, Zenon DEF Ranged
            <4>2. x = Disturbed(l)
                BY <1>4, <3>2, Zenon
            <4>. QED BY <1>7, <4>1, <4>2, DisturbTrack, Zenon
        <3>. QED BY <3>1, <3>2, Zenon
    <2>6. PICK y, z : y = Detached(x, w.chunks) /\ z = m'
        OBVIOUS
    <2>7. UnderWay(y, z) \/ (y = x /\ ~ x.shared)
        BY <2>4, <2>5, <2>6, DetachTrack, Zenon
    <2>8. UnderWay(y, z)
        BY <2>5, <2>7, ApartTrack, Zenon
    <2>. QED BY <1>5, <2>5, <2>6, <2>8, Zenon DEF LInv
<1>8. l = NoLoop \/ UnderWay(l, n)
    BY <1>1, Zenon DEF LInv
<1>. QED BY <1>6, <1>7, <1>8, Zenon

\* Every step keeps the loop on track, or records that its body did more to the
\* map than delete the key it was given.
LEMMA NextLInv ==
    ASSUME IInv, LInv, [Next]_vars
    PROVE  LInv'
<1>1. ASSUME m' = m, loop' = loop  PROVE LInv'
    BY <1>1, Zenon DEF LInv
<1>2. ASSUME NEW k \in Keys, DeleteAbsent(k) \/ Lookup(k)  PROVE LInv'
    BY <1>1, <1>2, Zenon DEF DeleteAbsent, Lookup
<1>3. ASSUME NEW k \in Keys, NEW v \in Values, InsertOrKeep(k, v)  PROVE LInv'
    <2>1. CASE Present(k)
        BY <1>1, <1>3, <2>1, Zenon DEF InsertOrKeep
    <2>2. CASE ~ Present(k)
        BY <1>3, <2>2, InsertNewLInv, Zenon DEF InsertOrKeep
    <2>. QED BY <2>1, <2>2, Zenon
<1>4. ASSUME NEW k \in Keys, NEW v \in Values, InsertOrReplace(k, v)  PROVE LInv'
    <2>1. CASE Present(k)
        BY <1>4, <2>1, ReplaceLInv, Zenon
    <2>2. CASE ~ Present(k)
        <3>1. InsertNew(k, v)
            BY <1>4, <2>2, Zenon DEF InsertOrReplace
        <3>. QED BY <1>4, <3>1, InsertNewLInv, Zenon
    <2>. QED BY <2>1, <2>2, Zenon
<1>5. ASSUME Break  PROVE LInv'
    BY <1>5, Zenon DEF Break, LInv
<1>6. ASSUME UNCHANGED vars  PROVE LInv'
    BY <1>1, <1>6, Zenon DEF vars
<1>. QED BY <1>2, <1>3, <1>4, <1>5, <1>6, DeleteLInv, BeginKeysLInv, NextKeyLInv, Zenon DEF Next

\* A loop that is on track has seen the first of the keys there were.
LEMMA TrackSeen ==
    ASSUME LInv
    PROVE  LoopVisitsAll
<1>1. CASE loop = NoLoop
    BY <1>1, NoLoopIs, Zenon DEF LoopVisitsAll
<1>2. CASE UnderWay(loop, m)
    <2>1. PICK l : l = loop
        OBVIOUS
    <2>2. l \in Loops /\ l.on
        BY <1>2, <2>1, Zenon DEF UnderWay, Loops
    <2>3. l.seen \in Seq(Keys) /\ l.start \in Seq(Keys)
        BY <2>2, Zenon DEF Loops
    <2>4. ASSUME ~ l.disturbed  PROVE l.seen = SubSeq(l.start, 1, Len(l.seen))
        <3>1. Rest(View(l, m), l.seen, l.start)
            BY <1>2, <2>1, <2>4, Zenon DEF UnderWay, OnTrack
        <3>2a. PICK j \in Nat : \E q : Splits(View(l, m), l.seen, l.start, q, j)
            BY <3>1, Zenon DEF Rest
        <3>2. Len(l.start) = Len(l.seen) + j /\ \A i \in 1 .. Len(l.seen) : l.start[i] = l.seen[i]
            BY <3>2a, Zenon DEF Splits
        <3>3. PICK s \in Seq(Keys), t \in Seq(Keys) : s = l.seen /\ t = l.start
            BY <2>3, Zenon
        <3>4. Len(t) = Len(s) + j /\ \A i \in 1 .. Len(s) : t[i] = s[i]
            BY <3>2, <3>3, Zenon
        <3>5. Len(s) \in Nat /\ Len(s) <= Len(t)
            BY <3>4
        <3>6. SubSeq(t, 1, Len(s)) \in Seq(Keys) /\ Len(SubSeq(t, 1, Len(s))) = Len(s)
            BY <3>4, <3>5
        <3>7. \A i \in 1 .. Len(s) : SubSeq(t, 1, Len(s))[i] = s[i]
            BY <3>4, <3>5
        <3>8. s = SubSeq(t, 1, Len(s))
            BY <3>6, <3>7
        <3>. QED BY <3>3, <3>8, Zenon
    <2>. QED BY <2>1, <2>2, <2>4, Zenon DEF LoopVisitsAll
<1>. QED BY <1>1, <1>2, Zenon DEF LInv

\* Keys: a loop whose body deletes no key but the one it was given visits the
\* keys there were at its beginning, each once and in order, although Delete
\* erases slots and moves the map to new chunks under it.
THEOREM LoopsVisitAll == Spec => []LoopVisitsAll
<1>1. Init => LInv
    BY Zenon DEF Init, LInv
<1>2. IInv /\ LInv /\ [Next]_vars => LInv'
    BY NextLInv, Zenon
<1>3. LInv => LoopVisitsAll
    BY TrackSeen, Zenon
<1>. QED BY <1>1, <1>2, <1>3, Invariance, PTL DEF Spec
=============================================================================
