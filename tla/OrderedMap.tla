----------------------------- MODULE OrderedMap -----------------------------
(***************************************************************************)
(* base/collections.OrderedMap: entries live in chunks of ChunkSize slots, *)
(* a built-in map gives the position of every live key, Delete leaves a    *)
(* tombstone and compacts the chunks once no more than a quarter of the    *)
(* used slots is live.  A loop over Keys() may be under way meanwhile: it  *)
(* ranges over the slice of chunks as it was when the loop began, copying  *)
(* each chunk when it gets there, so the model keeps what the loop holds.  *)
(*                                                                         *)
(* Chunk indexes and offsets count from 1 and a position is a pair; the    *)
(* code counts from 0 and packs both into an int.                          *)
(***************************************************************************)
EXTENDS Naturals, Sequences, FiniteSets

CONSTANTS
    Keys, Values,
    None, KeptOld, InsertedNew,  \* option.None and the results of InsertOrKeep
    ChunkSize,                   \* orderedMapChunkSize
    MaxLoops                     \* how many loops over Keys() a run starts

ASSUME ChunkAssumption == ChunkSize \in Nat \ {0} /\ MaxLoops \in Nat
ASSUME NoneAssumption == None \notin Keys

VARIABLES
    m,      \* the map: its chunks, each a function from offsets to <<>> (absent)
            \* or <<key, value>>; positions, the built-in map from live keys to
            \* <<chunk, offset>>; nextOffset, the slots used in the last chunk
    ret,    \* what the last operation returned
    loop,   \* the loop over Keys(), if one is under way
    loops   \* how many were started

vars == <<m, ret, loop, loops>>

Slots == 1 .. ChunkSize
EmptyChunk == [o \in Slots |-> <<>>]
NoLoop == [on |-> FALSE, complete |-> TRUE]

\* The live entries, in the order of chunks and offsets.
FilledSlots(cs) == {s \in (1 .. Len(cs)) \X Slots : cs[s[1]][s[2]] # <<>>}
Before(s, t) == s[1] < t[1] \/ (s[1] = t[1] /\ s[2] < t[2])
InOrder(S) ==
    CHOOSE q \in [1 .. Cardinality(S) -> S] :
        \A i, j \in 1 .. Cardinality(S) : i < j => Before(q[i], q[j])
Live(cs) ==
    LET q == InOrder(FilledSlots(cs)) IN [i \in DOMAIN q |-> cs[q[i][1]][q[i][2]]]

NewOrderedMap == [chunks |-> <<>>, positions |-> <<>>, nextOffset |-> 0]

Init ==
    /\ m = NewOrderedMap
    /\ ret = None
    /\ loop = NoLoop
    /\ loops = 0

Present(k) == k \in DOMAIN m.positions
ValueAt(k) == m.chunks[m.positions[k][1]][m.positions[k][2]][2]
UsedSlots(n) == IF n.chunks = <<>> THEN 0 ELSE (Len(n.chunks) - 1) * ChunkSize + n.nextOffset

\* A loop that ranges over the map's backing array keeps that array (of which
\* only the chunks it has yet to reach matter) when the map moves to another.
Detached(l, array) ==
    IF l.on /\ l.shared
    THEN [l EXCEPT !.shared = FALSE,
                   !.frozen = [c \in 1 .. l.len |-> IF c <= l.chunk THEN EmptyChunk ELSE array[c]]]
    ELSE l

\* Any modification but the deletion of the key the loop has just been given.
Disturbed(l) ==
    IF l.on THEN [l EXCEPT !.disturbed = TRUE, !.start = <<>>, !.seen = <<>>] ELSE l

(***************************************************************************)
(* Operations.                                                             *)
(***************************************************************************)
Full(n) == n.chunks = <<>> \/ n.nextOffset = ChunkSize
Roomy(n) == IF Full(n) THEN Append(n.chunks, EmptyChunk) ELSE n.chunks

\* The map n with the new entry <<k, v>> at offset o of the last of the chunks cs,
\* which goes by the index c.
Placed(n, k, v, cs, c, o) ==
    [chunks |-> [cs EXCEPT ![Len(cs)][o] = <<k, v>>],
     positions |-> [j \in DOMAIN n.positions \cup {k} |-> IF j = k THEN <<c, o>> ELSE n.positions[j]],
     nextOffset |-> o]

\* Fault: the position names the chunk before the one just appended.
WithNewOffByOne(n, k, v) ==
    Placed(n, k, v, Roomy(n), Len(n.chunks), IF Full(n) THEN 1 ELSE n.nextOffset + 1)

\* Fault: a full chunk does not reset the offset.
WithNewNoReset(n, k, v) == Placed(n, k, v, Roomy(n), Len(Roomy(n)), n.nextOffset + 1)

\* insertNew.
WithNew(n, k, v) ==
    Placed(n, k, v, Roomy(n), Len(Roomy(n)), IF Full(n) THEN 1 ELSE n.nextOffset + 1)

\* insertNew, with what it does to a loop: whether append of a chunk moves the
\* chunks to a new array depends on the capacity of the slice.
InsertNew(k, v) ==
    /\ m' = WithNew(m, k, v)
    /\ \/ loop' = Disturbed(loop)
       \/ Full(m) /\ loop' = Disturbed(Detached(loop, m.chunks))

Lookup(k) ==
    /\ ret' = IF Present(k) THEN ValueAt(k) ELSE None
    /\ UNCHANGED <<m, loop, loops>>

InsertOrKeep(k, v) ==
    /\ IF Present(k) THEN ret' = KeptOld /\ UNCHANGED <<m, loop>>
       ELSE InsertNew(k, v) /\ ret' = InsertedNew
    /\ UNCHANGED loops

InsertOrReplace(k, v) ==
    /\ IF Present(k)
       THEN /\ ret' = ValueAt(k)
            /\ m' = [m EXCEPT !.chunks[m.positions[k][1]][m.positions[k][2]] = <<k, v>>]
            /\ UNCHANGED loop
       ELSE InsertNew(k, v) /\ ret' = None
    /\ UNCHANGED loops

\* Fault: compaction reverses the order.
CompactedBackwards(n) ==
    LET live == Live(n.chunks)
        into[i \in 0 .. Len(live)] ==
            IF i = 0 THEN NewOrderedMap
            ELSE WithNew(into[i - 1], live[Len(live) + 1 - i][1], live[Len(live) + 1 - i][2])
    IN  into[Len(live)]

\* A new map, into which the live entries of n are inserted in order.
Compacted(n) ==
    LET live == Live(n.chunks)
        into[i \in 0 .. Len(live)] ==
            IF i = 0 THEN NewOrderedMap ELSE WithNew(into[i - 1], live[i][1], live[i][2])
    IN  into[Len(live)]

\* Fault: the threshold itself does not count.
SparseLate(n) == UsedSlots(n) # 0 /\ 4 * Cardinality(DOMAIN n.positions) < UsedSlots(n)

\* The condition of compactIfNeeded.
Sparse(n) == UsedSlots(n) # 0 /\ 4 * Cardinality(DOMAIN n.positions) <= UsedSlots(n)

\* Delete of a live key, up to compactIfNeeded.
Erased(k) ==
    [m EXCEPT !.chunks[m.positions[k][1]][m.positions[k][2]] = <<>>,
              !.positions = [j \in DOMAIN m.positions \ {k} |-> m.positions[j]]]

\* Delete and compactIfNeeded, which assigns a new map to *m.
Delete(k) ==
    LET l == IF loop.on /\ loop.last = k THEN loop ELSE Disturbed(loop)
    IN  /\ Present(k)
        /\ ret' = ValueAt(k)
        /\ UNCHANGED loops
        /\ IF Sparse(Erased(k))
           THEN m' = Compacted(Erased(k)) /\ loop' = Detached(l, Erased(k).chunks)
           ELSE m' = Erased(k) /\ loop' = l

DeleteAbsent(k) == ~Present(k) /\ ret' = None /\ UNCHANGED <<m, loop, loops>>

(***************************************************************************)
(* for key := range m.Keys().                                              *)
(***************************************************************************)
\* A loop has the header of the slice it ranges over (len chunks of the map's
\* array, or of the array frozen that the map has left) and the part of its
\* copy of the present chunk that it has not visited.  last, seen, start and
\* disturbed are not in the code: the key yielded last, the keys yielded, the
\* keys at the beginning, and whether the loop's body did more to the map than
\* delete the key it was given (seen and start are not kept after that).
BeginKeys ==
    /\ ~loop.on /\ loops < MaxLoops
    /\ loops' = loops + 1
    /\ loop' = [on |-> TRUE, shared |-> TRUE, frozen |-> <<>>, len |-> Len(m.chunks),
                chunk |-> 0, copy |-> EmptyChunk, last |-> None, seen |-> <<>>,
                start |-> [i \in DOMAIN Live(m.chunks) |-> Live(m.chunks)[i][1]],
                disturbed |-> FALSE]
    /\ UNCHANGED <<m, ret>>

Source == IF loop.shared THEN m.chunks ELSE loop.frozen
Filled(chunk) == {o \in Slots : chunk[o] # <<>>}
Ahead == {c \in 1 .. loop.len : c > loop.chunk /\ Filled(Source[c]) # {}}

\* Yields the first key of copy, a part of chunk c.
Yield(c, copy) ==
    \E o \in Filled(copy) :
        /\ \A p \in Filled(copy) : o <= p
        /\ loop' = [loop EXCEPT !.chunk = c, !.copy = [copy EXCEPT ![o] = <<>>],
                                !.last = copy[o][1],
                                !.seen = IF loop.disturbed THEN @ ELSE Append(@, copy[o][1])]

\* The loop runs to its end; complete records whether it saw every key.
Finished(l) == [on |-> FALSE, complete |-> l.disturbed \/ l.seen = l.start]

\* Fault: the loop walks the map's present chunks.
NextKeyOfLiveMap ==
    LET ahead == {c \in DOMAIN m.chunks : c > loop.chunk /\ Filled(m.chunks[c]) # {}}
    IN  /\ loop.on
        /\ \/ Filled(loop.copy) # {} /\ Yield(loop.chunk, loop.copy)
           \/ /\ Filled(loop.copy) = {}
              /\ \E c \in ahead : (\A d \in ahead : c <= d) /\ Yield(c, m.chunks[c])
           \/ Filled(loop.copy) = {} /\ ahead = {} /\ loop' = Finished(loop)
        /\ UNCHANGED <<m, ret, loops>>

\* The loops over chunks and offsets up to the next yield, or to their end.
NextKey ==
    /\ loop.on
    /\ \/ Filled(loop.copy) # {} /\ Yield(loop.chunk, loop.copy)
       \/ /\ Filled(loop.copy) = {}
          /\ \E c \in Ahead : (\A d \in Ahead : c <= d) /\ Yield(c, Source[c])
       \/ Filled(loop.copy) = {} /\ Ahead = {} /\ loop' = Finished(loop)
    /\ UNCHANGED <<m, ret, loops>>

\* The body leaves the loop: yield returns false.
Break == loop.on /\ loop.last # None /\ loop' = NoLoop /\ UNCHANGED <<m, ret, loops>>

Next ==
    \/ \E k \in Keys : \/ Delete(k) \/ DeleteAbsent(k) \/ Lookup(k)
                       \/ \E v \in Values : InsertOrKeep(k, v) \/ InsertOrReplace(k, v)
    \/ BeginKeys \/ NextKey \/ Break

Spec == Init /\ [][Next]_vars

(***************************************************************************)
(* Properties.                                                             *)
(***************************************************************************)
\* Chunks are fully sized, positions name slots and the insertion offset lies
\* in the last chunk.
TypeOK ==
    /\ \A c \in DOMAIN m.chunks : DOMAIN m.chunks[c] = Slots
    /\ DOMAIN m.positions \subseteq Keys
    /\ m.nextOffset \in 0 .. ChunkSize /\ (m.nextOffset = 0 <=> m.chunks = <<>>)

\* Every live key is where its position says and nowhere else.
Exact(n) ==
    /\ \A k \in DOMAIN n.positions :
          /\ n.positions[k][1] \in DOMAIN n.chunks /\ n.positions[k][2] \in Slots
          /\ n.chunks[n.positions[k][1]][n.positions[k][2]] # <<>>
          /\ n.chunks[n.positions[k][1]][n.positions[k][2]][1] = k
    /\ \A c \in DOMAIN n.chunks, o \in Slots : n.chunks[c][o] # <<>> =>
          n.chunks[c][o][1] \in DOMAIN n.positions /\ n.positions[n.chunks[c][o][1]] = <<c, o>>

\* insertNew, Delete and compactIfNeeded keep the built-in map and the chunks
\* in step: every live key is where its position says and nowhere else.
PositionsExact == Exact(m)

\* compactIfNeeded: more than a quarter of the used slots is live, so tombstones
\* never make the map more than four times as large as its entries.
NotSparse == UsedSlots(m) # 0 => 4 * Cardinality(DOMAIN m.positions) > UsedSlots(m)

\* Keys: a loop whose body deletes no key but the one it was given visits the
\* keys there were at its beginning, each once and in order, although Delete
\* erases slots and compacts the map under it.
LoopVisitsAll ==
    IF loop.on THEN loop.disturbed \/ loop.seen = SubSeq(loop.start, 1, Len(loop.seen))
    ELSE loop.complete

Abstract == INSTANCE OrderedMapSpec WITH entries <- Live(m.chunks)

\* The chunked map does what an insertion-ordered map does, results included.
ImplementsMap == Abstract!Spec
=============================================================================
