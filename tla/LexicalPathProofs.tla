------------------------- MODULE LexicalPathProofs -------------------------
(***************************************************************************)
(* LexicallyNormalize stays inside its buffer and writes a path without    *)
(* empty elements, without "." and with ".." only in front, for every      *)
(* path: proofs of the invariants of LexicalPath.                          *)
(***************************************************************************)
EXTENDS LexicalPath, TLAPS, SequenceTheorems

Bytes == Byte \cup {Zero, "/", "."}

\* A lexicalBuffer for the path, with no more written than fits.
Fits(b) ==
    /\ b \in [buffer : Seq(Bytes), writePos : Nat]
    /\ b.writePos <= Len(path)
    /\ b.buffer # <<>> => Len(b.buffer) = Len(path)

\* The buffer that is made late holds what was written before it existed
\* (appendByte, lexical.go).
LEMMA MakeBufferExact ==
    ASSUME path \in Seq(Byte), NEW b, Fits(b)
    PROVE  /\ MakeBuffer(b) \in Seq(Bytes)
           /\ Len(MakeBuffer(b)) = Len(path)
           /\ \A i \in 1..b.writePos : MakeBuffer(b)[i] = path[i]
<1>1. Len(path) \in Nat /\ \A i \in 1..Len(path) : path[i] \in Byte
    OBVIOUS
<1>2. MakeBuffer(b) \in [1..Len(path) -> Bytes]
    BY <1>1 DEF MakeBuffer, Bytes
<1>3. MakeBuffer(b) \in Seq(Bytes) /\ Len(MakeBuffer(b)) = Len(path)
    BY <1>1, <1>2
<1>4. \A i \in 1..b.writePos : MakeBuffer(b)[i] = path[i]
    BY <1>1 DEF MakeBuffer, Fits
<1>. QED BY <1>3, <1>4

\* appendByte writes one byte at writePos and leaves the bytes before it, with
\* and without a buffer (lexical.go).
LEMMA AppendByteExact ==
    ASSUME path \in Seq(Byte), NEW b, Fits(b), b.writePos < Len(path), NEW c \in Bytes
    PROVE  /\ Fits(AppendByte(b, c))
           /\ AppendByte(b, c).writePos = b.writePos + 1
           /\ ByteAt(AppendByte(b, c), b.writePos) = c
           /\ \A i \in 0..(b.writePos - 1) : ByteAt(AppendByte(b, c), i) = ByteAt(b, i)
<1>. DEFINE r == AppendByte(b, c)
<1>0. b.writePos \in Nat /\ b.buffer \in Seq(Bytes) /\ Len(path) \in Nat /\ b = [buffer |-> b.buffer, writePos |-> b.writePos]
    BY DEF Fits
<1>1. CASE b.buffer = <<>> /\ path[b.writePos + 1] = c
    <2>1. r = [buffer |-> <<>>, writePos |-> b.writePos + 1]
        BY <1>0, <1>1 DEF AppendByte
    <2>. QED BY <1>0, <1>1, <2>1 DEF Fits, ByteAt
<1>2. CASE ~(b.buffer = <<>> /\ path[b.writePos + 1] = c)
    <2>1. PICK m \in Seq(Bytes) : m = IF b.buffer = <<>> THEN MakeBuffer(b) ELSE b.buffer
        BY <1>0, MakeBufferExact
    <2>2. Len(m) = Len(path) /\ \A i \in 0..(b.writePos - 1) : m[i + 1] = ByteAt(b, i)
        BY <1>0, <2>1, MakeBufferExact DEF Fits, ByteAt
    <2>7. b.writePos + 1 \in 1..Len(m)
        BY <1>0, <2>2
    <2>8. [m EXCEPT ![b.writePos + 1] = c] \in Seq(Bytes)
        BY <2>7, ExceptSeq
    <2>3. PICK k \in Seq(Bytes) : k = [m EXCEPT ![b.writePos + 1] = c]
        BY <2>8, Zenon
    <2>4. Len(k) = Len(path) /\ k[b.writePos + 1] = c /\ \A i \in 1..b.writePos : k[i] = m[i]
        BY <1>0, <2>2, <2>3, <2>7, ExceptSeq
    <2>5. r = [buffer |-> k, writePos |-> b.writePos + 1]
        BY <1>2, <2>1, <2>3 DEF AppendByte
    <2>6. k # <<>>
        BY <1>0, <2>4
    <2>. QED BY <1>0, <2>2, <2>4, <2>5, <2>6 DEF Fits, ByteAt
<1>. QED BY <1>1, <1>2

\* A byte that is no separator, or follows none, makes no empty element.
LEMMA AppendKeepsNoDouble ==
    ASSUME path \in Seq(Byte), NEW b, Fits(b), b.writePos < Len(path), NEW c \in Bytes, NoDouble(b),
           IsPathSeparator(c) => b.writePos = 0 \/ ~IsPathSeparator(ByteAt(b, b.writePos - 1))
    PROVE  NoDouble(AppendByte(b, c))
<1>1. PICK r : r = AppendByte(b, c)
    OBVIOUS
<1>2. /\ r.writePos = b.writePos + 1 /\ b.writePos \in Nat
      /\ ByteAt(r, b.writePos) = c
      /\ \A i \in 0..(b.writePos - 1) : ByteAt(r, i) = ByteAt(b, i)
    BY <1>1, AppendByteExact DEF Fits
<1>3. ASSUME NEW i \in 1..(r.writePos - 1), IsPathSeparator(ByteAt(r, i))
      PROVE  ~IsPathSeparator(ByteAt(r, i - 1))
    <2>1. CASE i = b.writePos
        BY <1>2, <1>3, <2>1
    <2>2. CASE i # b.writePos
        <3>1. i \in 1..(b.writePos - 1) /\ i \in 0..(b.writePos - 1) /\ i - 1 \in 0..(b.writePos - 1)
            BY <1>2, <2>2
        <3>. QED BY <1>2, <1>3, <3>1 DEF NoDouble
    <2>. QED BY <2>1, <2>2
<1>. QED BY <1>1, <1>3 DEF NoDouble

\* What the steps below use of the invariant.
LEMMA Parts ==
    ASSUME Bounded
    PROVE  /\ path \in Seq(Byte) /\ Len(path) \in Nat /\ readPos \in Nat /\ dotDotLimit \in Nat
           /\ phase \in {"idle", "loop", "element", "done"}
           /\ Base \in {0, 1} /\ (Rooted <=> Base = 1)
           /\ Fits(output) /\ output.writePos \in Nat /\ output.buffer \in Seq(Bytes)
           /\ output = [buffer |-> output.buffer, writePos |-> output.writePos]
           /\ InBounds /\ AtElement /\ NoEmptyElement /\ NoDouble(output)
           /\ \A i \in 0..(Len(path) - 1) : path[i + 1] \in Bytes
BY DEF Bounded, TypeOK, InBounds, Fits, Bytes, Base, NoEmptyElement

\* A loop step that writes nothing keeps the invariant if it ends where the
\* loop may stand.
LEMMA ReadStepKeeps ==
    ASSUME Bounded, phase = "loop", readPos' \in Nat, readPos < readPos', readPos' <= Len(path),
           UNCHANGED <<path, dotDotLimit, output, phase>>,
           readPos' < Len(path) /\ ~SepAt(readPos)' => SepAt(readPos' - 1)
    PROVE  Bounded'
<1>1. TypeOK' /\ InBounds'
    BY Parts DEF Bounded, TypeOK, InBounds, Base, Rooted
<1>2. AtElement'
    BY Parts DEF AtElement, InBounds, Base, Rooted, SepAt
<1>3. NoEmptyElement'
    BY Parts DEF NoEmptyElement, NoDouble, Out, ByteAt, Base, Rooted
<1>. QED BY <1>1, <1>2, <1>3 DEF Bounded

LEMMA EmptyElementStep == ASSUME Bounded, EmptyElement PROVE Bounded'
BY ReadStepKeeps, Parts DEF EmptyElement, SepAt

LEMMA DotElementStep == ASSUME Bounded, DotElement PROVE Bounded'
BY ReadStepKeeps, Parts DEF DotElement, IsDot, EndsAt, SepAt

\* A .. element that takes the element before it: what is left ends with a
\* byte of an element, because the separator goes too.
LEMMA RemoveStep ==
    ASSUME Bounded, phase = "loop", readPos' = readPos + 2, readPos + 2 <= Len(path),
           IsDotDot, UNCHANGED <<path, dotDotLimit, phase>>,
           NEW w \in dotDotLimit..(output.writePos - 1), StopsAt(output, dotDotLimit, w),
           output' = [output EXCEPT !.writePos = w]
    PROVE  Bounded'
<1>1. output' = [buffer |-> output.buffer, writePos |-> w] /\ w \in Nat /\ w < output.writePos
    BY Parts
<1>2. TypeOK'
    <2>1. output' \in [buffer : Seq(Bytes), writePos : Nat]
        BY <1>1, Parts, Zenon
    <2>. QED BY <2>1, Parts DEF TypeOK, Bytes
<1>3. InBounds'
    BY <1>1, Parts DEF InBounds, Base, Rooted
<1>4. AtElement'
    BY <1>1, Parts DEF AtElement, IsDotDot, EndsAt, SepAt, Base, Rooted, IsPathSeparator
<1>5. \A i \in Nat : Out(i)' = Out(i)
    BY <1>1 DEF Out, ByteAt
<1>6. w > Base => ~IsPathSeparator(Out(w - 1))
    <2>1. CASE w = dotDotLimit
        BY <2>1, Parts DEF NoEmptyElement
    <2>2. CASE w # dotDotLimit
        <3>1. IsPathSeparator(ByteAt(output, w)) /\ w \in 1..(output.writePos - 1)
            BY <1>1, <2>2, Parts DEF StopsAt
        <3>. QED BY <3>1, Parts DEF NoDouble, Out
    <2>. QED BY <2>1, <2>2
<1>7. NoDouble(output)'
    <2>. SUFFICES ASSUME NEW i \in 1..(w - 1), IsPathSeparator(Out(i)')
                  PROVE  ~IsPathSeparator(Out(i - 1)')
        BY <1>1 DEF NoDouble, Out
    <2>1. i \in 1..(output.writePos - 1) /\ i - 1 \in Nat /\ i \in Nat
        BY <1>1, Parts
    <2>. QED BY <1>5, <2>1, Parts, Zenon DEF NoDouble, Out
<1>8. NoEmptyElement'
    <2>1. output'.writePos = w /\ Base' = Base /\ (Rooted' <=> Rooted) /\ 0 \in Nat
        BY <1>1 DEF Base, Rooted
    <2>2. dotDotLimit > Base => ~IsPathSeparator(Out(dotDotLimit - 1)') /\ dotDotLimit - 1 \in Nat
        BY <1>5, Parts DEF NoEmptyElement
    <2>3. w > Base => ~IsPathSeparator(Out(w - 1)')
        BY <1>1, <1>5, <1>6, Parts
    <2>4. ~Rooted /\ w > 0 => ~IsPathSeparator(Out(0)')
        BY <1>1, <1>5, Parts DEF NoEmptyElement
    <2>. QED BY <1>7, <2>1, <2>2, <2>3, <2>4 DEF NoEmptyElement
<1>. QED BY <1>2, <1>3, <1>4, <1>8 DEF Bounded

\* Before an element there is room for a separator.
LEMMA RoomForSeparator ==
    ASSUME Bounded, phase = "loop", readPos < Len(path), ~SepAt(readPos), output.writePos # Base
    PROVE  output.writePos < readPos /\ output.writePos > 0 /\ ~IsPathSeparator(Out(output.writePos - 1))
BY Parts DEF AtElement, InBounds, NoEmptyElement

\* A step that writes: the part of the invariant about the bytes of the output.
LEMMA BytesKept ==
    ASSUME Bounded, phase = "loop" \/ phase = "element", NEW r, Fits(r), NoDouble(r), output' = r,
           path' = path, r.writePos >= output.writePos,
           \A i \in 0..(output.writePos - 1) : ByteAt(r, i) = ByteAt(output, i)
    PROVE  /\ output' \in [buffer : Seq(Bytes), writePos : Nat]
           /\ (output'.buffer # <<>> => Len(output'.buffer) = Len(path')) /\ output'.writePos <= Len(path')
           /\ NoDouble(output)' /\ Base' = Base /\ (Rooted' <=> Rooted)
           /\ \A i \in 0..(output.writePos - 1) : Out(i)' = Out(i)
           /\ \A i \in Nat : Out(i)' = ByteAt(r, i)
<1>1. Base' = Base /\ (Rooted' <=> Rooted)
    BY DEF Base, Rooted
<1>2. \A i \in Int : Out(i)' = ByteAt(r, i)
    BY DEF Out, ByteAt
<1>3. NoDouble(output)'
    BY DEF NoDouble, ByteAt
<1>4. output.writePos \in Nat
    BY Parts
<1>. QED BY <1>1, <1>2, <1>3, <1>4 DEF Fits, Out

\* A .. element with nothing to take stays, after a separator if it is not the
\* first.
LEMMA KeepDotDotStep ==
    ASSUME Bounded, phase = "loop", readPos < Len(path), ~SepAt(readPos), readPos' = readPos + 2,
           IsDotDot, ~Rooted, UNCHANGED <<path, phase>>, output.writePos <= dotDotLimit,
           output' = AppendDotDot(IF output.writePos > 0 THEN AppendByte(output, "/") ELSE output),
           dotDotLimit' = output'.writePos
    PROVE  Bounded'
<1>0. Base = 0 /\ readPos + 2 <= Len(path) /\ "." \in Bytes /\ "/" \in Bytes
    BY Parts DEF IsDotDot, Bytes
<1>1. PICK a : a = IF output.writePos > 0 THEN AppendByte(output, "/") ELSE output
    OBVIOUS
<1>2. /\ Fits(a) /\ NoDouble(a) /\ a.writePos \in Nat /\ a.writePos <= readPos
      /\ a.writePos >= output.writePos
      /\ \A i \in 0..(output.writePos - 1) : ByteAt(a, i) = ByteAt(output, i)
      /\ (a.writePos > 0 => output.writePos > 0)
    <2>1. CASE output.writePos > 0
        <3>1. output.writePos < readPos /\ ~IsPathSeparator(ByteAt(output, output.writePos - 1))
              /\ output.writePos < Len(path)
            BY <1>0, <2>1, RoomForSeparator, Parts DEF Out
        <3>2. /\ Fits(a) /\ a.writePos = output.writePos + 1
              /\ \A i \in 0..(output.writePos - 1) : ByteAt(a, i) = ByteAt(output, i)
            BY <1>0, <1>1, <2>1, <3>1, AppendByteExact, Parts, Zenon
        <3>3. NoDouble(a)
            BY <1>0, <1>1, <2>1, <3>1, AppendKeepsNoDouble, Parts, Zenon
        <3>. QED BY <2>1, <3>1, <3>2, <3>3, Parts
    <2>2. CASE ~(output.writePos > 0)
        BY <1>1, <2>2, Parts DEF InBounds
    <2>. QED BY <2>1, <2>2
<1>3. PICK d : d = AppendByte(a, ".")
    OBVIOUS
<1>4. /\ Fits(d) /\ NoDouble(d) /\ d.writePos = a.writePos + 1
      /\ ByteAt(d, a.writePos) = "."
      /\ \A i \in 0..(a.writePos - 1) : ByteAt(d, i) = ByteAt(a, i)
    <2>1. a.writePos < Len(path)
        BY <1>0, <1>2, Parts
    <2>2. ~IsPathSeparator(".")
        BY DEF IsPathSeparator
    <2>. QED BY <1>0, <1>2, <1>3, <2>1, <2>2, AppendByteExact, AppendKeepsNoDouble, Parts
<1>5. PICK r : r = AppendByte(d, ".")
    OBVIOUS
<1>6. /\ Fits(r) /\ NoDouble(r) /\ r.writePos = d.writePos + 1
      /\ ByteAt(r, d.writePos) = "."
      /\ \A i \in 0..(d.writePos - 1) : ByteAt(r, i) = ByteAt(d, i)
    <2>1. d.writePos < Len(path)
        BY <1>0, <1>2, <1>4, Parts
    <2>2. ~IsPathSeparator(".")
        BY DEF IsPathSeparator
    <2>. QED BY <1>0, <1>4, <1>5, <2>1, <2>2, AppendByteExact, AppendKeepsNoDouble, Parts
<1>7. output' = r
    BY <1>1, <1>3, <1>5 DEF AppendDotDot
<1>8. r.writePos = a.writePos + 2 /\ \A i \in 0..(a.writePos - 1) : ByteAt(r, i) = ByteAt(a, i)
    BY <1>2, <1>4, <1>6
<1>9. \A i \in 0..(output.writePos - 1) : ByteAt(r, i) = ByteAt(output, i)
    BY <1>2, <1>8, Parts
<1>10. /\ output' \in [buffer : Seq(Bytes), writePos : Nat]
       /\ (output'.buffer # <<>> => Len(output'.buffer) = Len(path')) /\ output'.writePos <= Len(path')
       /\ NoDouble(output)' /\ Base' = Base /\ (Rooted' <=> Rooted)
       /\ \A i \in 0..(output.writePos - 1) : Out(i)' = Out(i)
       /\ \A i \in Nat : Out(i)' = ByteAt(r, i)
    BY <1>2, <1>6, <1>7, <1>8, <1>9, BytesKept, Parts
<1>11. TypeOK'
    BY <1>0, <1>10, Parts DEF TypeOK, Bytes
<1>12. InBounds'
    BY <1>0, <1>2, <1>7, <1>8, <1>10, Parts DEF InBounds
<1>13. AtElement'
    <2>1. path[readPos + 2] # "/" /\ (readPos + 2 < Len(path) => path[readPos + 3] = "/")
        BY Parts DEF IsDotDot, EndsAt, SepAt, IsPathSeparator
    <2>2. ~SepAt(readPos - 1)' /\ (readPos' < Len(path) => SepAt(readPos)')
        BY <2>1, Parts DEF SepAt, IsPathSeparator
    <2>. QED BY <2>2 DEF AtElement
<1>14. Out(0)' # "/"
    <2>1. CASE output.writePos > 0
        BY <1>0, <1>10, <2>1, Parts DEF NoEmptyElement, IsPathSeparator
    <2>2. CASE ~(output.writePos > 0)
        BY <1>2, <1>4, <1>6, <1>10, <2>2, Parts
    <2>. QED BY <2>1, <2>2
<1>15. Out(r.writePos - 1)' = "."
    BY <1>2, <1>4, <1>6, <1>10
<1>16. NoEmptyElement'
    BY <1>0, <1>7, <1>10, <1>14, <1>15 DEF NoEmptyElement, IsPathSeparator
<1>. QED BY <1>11, <1>12, <1>13, <1>16 DEF Bounded

LEMMA DotDotElementStep == ASSUME Bounded, DotDotElement PROVE Bounded'
<1>1. /\ phase = "loop" /\ readPos < Len(path) /\ ~SepAt(readPos) /\ IsDotDot
      /\ readPos' = readPos + 2 /\ UNCHANGED <<path, phase>>
    BY DEF DotDotElement
<1>2. readPos + 2 <= Len(path)
    BY <1>1, Parts DEF IsDotDot
<1>3. CASE output.writePos > dotDotLimit
    <2>1. PICK w \in dotDotLimit..(output.writePos - 1) :
              StopsAt(output, dotDotLimit, w) /\ output' = [output EXCEPT !.writePos = w]
        BY <1>3, Parts DEF DotDotElement
    <2>2. dotDotLimit' = dotDotLimit
        BY <1>3, Parts DEF DotDotElement
    <2>. QED BY <1>1, <1>2, <2>1, <2>2, RemoveStep
<1>4. CASE output.writePos <= dotDotLimit /\ ~Rooted
    <2>1. /\ output' = AppendDotDot(IF output.writePos > 0 THEN AppendByte(output, "/") ELSE output)
          /\ dotDotLimit' = output'.writePos
        BY <1>4, Parts DEF DotDotElement, LimitAfter
    <2>. QED BY <1>1, <1>4, <2>1, KeepDotDotStep
<1>5. CASE output.writePos <= dotDotLimit /\ Rooted
    <2>1. UNCHANGED <<output, dotDotLimit>>
        BY <1>5, Parts DEF DotDotElement
    <2>2. path[readPos + 2] # "/" /\ (readPos + 2 < Len(path) => path[readPos + 3] = "/")
        BY <1>1, Parts DEF IsDotDot, EndsAt, SepAt, IsPathSeparator
    <2>3. readPos' < Len(path) => SepAt(readPos)'
        BY <1>1, <2>2, Parts DEF SepAt, IsPathSeparator
    <2>. QED BY <1>1, <1>2, <2>1, <2>3, ReadStepKeeps, Parts
<1>. QED BY <1>3, <1>4, <1>5, Parts

\* A real element starts after a separator, unless it is the first.
LEMMA RealElementStep == ASSUME Bounded, RealElement PROVE Bounded'
<1>1. /\ phase = "loop" /\ readPos < Len(path) /\ ~SepAt(readPos) /\ phase' = "element"
      /\ UNCHANGED <<path, readPos, dotDotLimit>>
    BY DEF RealElement
<1>2. PICK r : r = IF output.writePos # Base THEN AppendByte(output, "/") ELSE output
    OBVIOUS
<1>3. /\ Fits(r) /\ NoDouble(r) /\ r.writePos \in Nat /\ r.writePos <= readPos
      /\ r.writePos >= output.writePos
      /\ \A i \in 0..(output.writePos - 1) : ByteAt(r, i) = ByteAt(output, i)
      /\ (r.writePos > 0 /\ Base = 0 => output.writePos > 0)
    <2>1. CASE output.writePos # Base
        <3>1. /\ output.writePos < readPos /\ ~IsPathSeparator(ByteAt(output, output.writePos - 1))
              /\ output.writePos < Len(path) /\ "/" \in Bytes /\ output.writePos > 0
            BY <1>1, <2>1, RoomForSeparator, Parts DEF Out, Bytes
        <3>2. /\ Fits(r) /\ r.writePos = output.writePos + 1
              /\ \A i \in 0..(output.writePos - 1) : ByteAt(r, i) = ByteAt(output, i)
            BY <1>2, <2>1, <3>1, AppendByteExact, Parts
        <3>3. NoDouble(r)
            BY <1>2, <2>1, <3>1, AppendKeepsNoDouble, Parts
        <3>. QED BY <3>1, <3>2, <3>3, Parts
    <2>2. CASE output.writePos = Base
        BY <1>1, <1>2, <2>2, Parts DEF InBounds
    <2>. QED BY <2>1, <2>2
<1>4. output' = r
    BY <1>2 DEF RealElement
<1>5. /\ output' \in [buffer : Seq(Bytes), writePos : Nat]
      /\ (output'.buffer # <<>> => Len(output'.buffer) = Len(path')) /\ output'.writePos <= Len(path')
      /\ NoDouble(output)' /\ Base' = Base /\ (Rooted' <=> Rooted)
      /\ \A i \in 0..(output.writePos - 1) : Out(i)' = Out(i)
    BY <1>1, <1>3, <1>4, BytesKept
<1>6. TypeOK'
    BY <1>1, <1>5, Parts DEF TypeOK, Bytes
<1>7. InBounds' /\ AtElement'
    BY <1>1, <1>3, <1>4, <1>5, Parts DEF InBounds, AtElement, SepAt
<1>8. NoEmptyElement'
    <2>1. dotDotLimit > Base => ~IsPathSeparator(Out(dotDotLimit - 1)')
        <3>. SUFFICES ASSUME dotDotLimit > Base PROVE ~IsPathSeparator(Out(dotDotLimit - 1)')
            OBVIOUS
        <3>1. PICK k \in 0..(output.writePos - 1) : k = dotDotLimit - 1 /\ ~IsPathSeparator(Out(k))
            BY <1>1, Parts DEF NoEmptyElement, InBounds
        <3>. QED BY <1>1, <1>5, <3>1
    <2>2. ~Rooted /\ r.writePos > 0 => ~IsPathSeparator(Out(0)')
        BY <1>1, <1>3, <1>5, Parts DEF NoEmptyElement
    <2>. QED BY <1>1, <1>4, <1>5, <2>1, <2>2 DEF NoEmptyElement
<1>. QED BY <1>6, <1>7, <1>8 DEF Bounded

\* The bytes of an element are no separators.
LEMMA CopyByteStep == ASSUME Bounded, CopyByte PROVE Bounded'
<1>1. /\ phase = "element" /\ readPos' = readPos + 1 /\ UNCHANGED <<path, dotDotLimit>>
      /\ phase' = IF EndsAt(readPos + 1) THEN "loop" ELSE "element"
    BY DEF CopyByte
<1>2. PICK c \in Bytes : c = path[readPos + 1]
    BY <1>1, Parts DEF AtElement
<1>3. ~IsPathSeparator(c) /\ readPos < Len(path) /\ output.writePos < Len(path) /\ output.writePos <= readPos
    BY <1>1, <1>2, Parts DEF AtElement, InBounds, SepAt
<1>4. PICK r : r = AppendByte(output, c)
    OBVIOUS
<1>5. /\ Fits(r) /\ NoDouble(r) /\ r.writePos = output.writePos + 1
      /\ ByteAt(r, output.writePos) = c
      /\ \A i \in 0..(output.writePos - 1) : ByteAt(r, i) = ByteAt(output, i)
    BY <1>3, <1>4, AppendByteExact, AppendKeepsNoDouble, Parts
<1>6. output' = r
    BY <1>2, <1>4 DEF CopyByte
<1>7. /\ output' \in [buffer : Seq(Bytes), writePos : Nat]
      /\ (output'.buffer # <<>> => Len(output'.buffer) = Len(path')) /\ output'.writePos <= Len(path')
      /\ NoDouble(output)' /\ Base' = Base /\ (Rooted' <=> Rooted)
      /\ \A i \in 0..(output.writePos - 1) : Out(i)' = Out(i)
      /\ \A i \in Nat : Out(i)' = ByteAt(r, i)
    BY <1>1, <1>5, <1>6, BytesKept, Parts
<1>8. TypeOK'
    BY <1>1, <1>7, Parts DEF TypeOK, Bytes
<1>9. InBounds'
    BY <1>1, <1>3, <1>5, <1>6, <1>7, Parts DEF InBounds
<1>10. AtElement'
    <2>1. ~SepAt(readPos - 1)'
        BY <1>1, <1>2, <1>3, Parts DEF SepAt
    <2>2. IF readPos' < Len(path') /\ ~SepAt(readPos)' THEN phase' = "element" ELSE phase' = "loop"
        BY <1>1, Parts DEF EndsAt, SepAt
    <2>. QED BY <2>1, <2>2 DEF AtElement
<1>11. NoEmptyElement'
    <2>1. dotDotLimit > Base => ~IsPathSeparator(Out(dotDotLimit - 1)')
        <3>. SUFFICES ASSUME dotDotLimit > Base PROVE ~IsPathSeparator(Out(dotDotLimit - 1)')
            OBVIOUS
        <3>1. PICK k \in 0..(output.writePos - 1) : k = dotDotLimit - 1 /\ ~IsPathSeparator(Out(k))
            BY <1>1, Parts DEF NoEmptyElement, InBounds
        <3>. QED BY <1>1, <1>7, <3>1
    <2>2. ~IsPathSeparator(Out(r.writePos - 1)')
        BY <1>3, <1>5, <1>7, Parts
    <2>3. ~Rooted => ~IsPathSeparator(Out(0)')
        <3>1. CASE output.writePos > 0
            BY <1>1, <1>7, <3>1, Parts DEF NoEmptyElement
        <3>2. CASE output.writePos = 0
            BY <1>5, <2>2, <3>2
        <3>. QED BY <3>1, <3>2, Parts
    <2>. QED BY <1>1, <1>6, <1>7, <2>1, <2>2, <2>3 DEF NoEmptyElement
<1>. QED BY <1>8, <1>9, <1>10, <1>11 DEF Bounded

\* There is room for the "." of an empty result and for a trailing separator.
LEMMA FinishStep == ASSUME Bounded, Finish PROVE Bounded'
<1>1. /\ phase = "loop" /\ phase' = "done" /\ UNCHANGED <<path, readPos, dotDotLimit>>
      /\ readPos = Len(path) /\ Len(path) > 0 /\ "." \in Bytes /\ "/" \in Bytes
    BY Parts DEF Finish, InBounds, Bytes
<1>2. PICK a : a = IF output.writePos = 0 THEN AppendByte(output, ".") ELSE output
    OBVIOUS
<1>3. /\ Fits(a) /\ NoDouble(a) /\ a.writePos \in Nat
      /\ IF output.writePos = 0 THEN a.writePos = 1 /\ ByteAt(a, 0) = "." ELSE a = output
    BY <1>1, <1>2, AppendByteExact, AppendKeepsNoDouble, Parts DEF IsPathSeparator
<1>4. PICK r : r = IF SepAt(Len(path) - 1) /\ ShouldPreserveTrailingSeparator(a)
                   THEN AppendByte(a, "/") ELSE a
    OBVIOUS
<1>5. output' = r
    BY <1>2, <1>4 DEF Finish
<1>6. Fits(r) /\ NoDouble(r)
    <2>1. CASE SepAt(Len(path) - 1) /\ ShouldPreserveTrailingSeparator(a)
        <3>1. ~IsPathSeparator(ByteAt(a, a.writePos - 1)) /\ a.writePos # 0
              /\ ~(a.writePos = 1 /\ ByteAt(a, 0) = ".") /\ ~(Rooted /\ a.writePos = 1)
            BY <2>1 DEF ShouldPreserveTrailingSeparator
        <3>2. output.writePos # 0 /\ a = output /\ output.writePos # Base
            BY <1>3, <3>1, Parts
        <3>3. a.writePos < Len(path)
            BY <1>1, <2>1, <3>2, Parts DEF AtElement
        <3>. QED BY <1>1, <1>3, <1>4, <2>1, <3>1, <3>3, AppendByteExact, AppendKeepsNoDouble, Parts
    <2>2. CASE ~(SepAt(Len(path) - 1) /\ ShouldPreserveTrailingSeparator(a))
        BY <1>3, <1>4, <2>2
    <2>. QED BY <2>1, <2>2
<1>7. TypeOK' /\ InBounds' /\ AtElement'
    BY <1>1, <1>5, <1>6, Parts DEF TypeOK, Bytes, InBounds, AtElement, Fits
<1>8. NoEmptyElement'
    BY <1>1, <1>5, <1>6 DEF NoEmptyElement, NoDouble, ByteAt
<1>. QED BY <1>7, <1>8 DEF Bounded

\* Nothing is written before the loop but the separator of a root.
LEMMA BeginStep == ASSUME Bounded, NEW p \in Seq(Byte), Begin(p) PROVE Bounded'
<1>1. /\ p # <<>> /\ path' = p /\ phase' = "loop" /\ readPos' = Base' /\ dotDotLimit' = Base'
      /\ output' = [buffer |-> <<>>, writePos |-> Base']
    BY DEF Begin, NoOutput
<1>2. Len(p) \in Nat /\ Len(p) > 0 /\ Base' \in {0, 1}
    BY <1>1 DEF Base
<1>3. TypeOK' /\ InBounds'
    BY <1>1, <1>2 DEF TypeOK, InBounds
<1>4. Base' = 1 <=> IsPathSeparator(p[1])
    BY <1>1 DEF Base, Rooted
<1>5. AtElement'
    BY <1>1, <1>2, <1>4 DEF AtElement, SepAt
<1>6. NoEmptyElement'
    <2>1. (Rooted' <=> Base' = 1) /\ output'.writePos = Base'
        BY <1>1, <1>4 DEF Rooted
    <2>3. PICK n \in {0, 1} : n = output'.writePos
        BY <1>2, <2>1
    <2>2. NoDouble(output)'
        BY <2>3 DEF NoDouble
    <2>. QED BY <1>1, <1>2, <2>1, <2>2 DEF NoEmptyElement
<1>. QED BY <1>3, <1>5, <1>6 DEF Bounded

\* Before the first call, and after each.
LEMMA IdleHolds == Idle => Bounded
BY DEF Idle, Bounded, TypeOK, InBounds, AtElement, NoEmptyElement, NoDouble, NoOutput

LEMMA ReturnStep == ASSUME Bounded, Return PROVE Bounded'
BY DEF Return, Bounded, TypeOK, InBounds, AtElement, NoEmptyElement, NoDouble, NoOutput

LEMMA Stutter == ASSUME Bounded, UNCHANGED lexVars PROVE Bounded'
<1>1. TypeOK' /\ InBounds' /\ AtElement'
    BY DEF lexVars, Bounded, TypeOK, InBounds, AtElement, SepAt, Base, Rooted
<1>2. NoEmptyElement'
    BY DEF lexVars, Bounded, NoEmptyElement, NoDouble, Out, ByteAt, Base, Rooted
<1>. QED BY <1>1, <1>2 DEF Bounded

\* Every step keeps the part of the invariant without DotsInFront.
LEMMA BoundedStep == ASSUME Bounded, [Next]_lexVars PROVE Bounded'
BY EmptyElementStep, DotElementStep, DotDotElementStep, RealElementStep, CopyByteStep,
   FinishStep, BeginStep, ReturnStep, Stutter DEF Next, LoopStep

-----------------------------------------------------------------------------
\* What is written next does not change the elements before position e, if an
\* element ends there.
LEMMA SortedKept ==
    ASSUME Base \in {0, 1}, NEW b, NEW r, NEW l \in Nat, NEW e \in Nat, b.writePos \in Nat, r.writePos \in Nat,
           e <= b.writePos, e <= r.writePos,
           \A i \in 0..(e - 1) : ByteAt(r, i) = ByteAt(b, i),
           (Ends(b, e) /\ Ends(r, e)) \/ (e > 0 /\ IsPathSeparator(ByteAt(b, e - 1))),
           DotsSorted(b, l, e)
    PROVE  DotsSorted(r, l, e)
<1>. SUFFICES ASSUME NEW i \in Base..(e - 1), Starts(r, i)
              PROVE  ~IsDotAt(r, i) /\ (IsDotDotAt(r, i) <=> i < l)
    BY DEF DotsSorted
<1>1. i \in Nat /\ i < e /\ i >= Base /\ ByteAt(r, i) = ByteAt(b, i)
    OBVIOUS
<1>2. Starts(b, i)
    <2>1. CASE i = Base
        BY <2>1 DEF Starts
    <2>2. CASE i # Base
        <3>1. i - 1 \in 0..(e - 1)
            BY <1>1, <2>2
        <3>. QED BY <2>2, <3>1 DEF Starts
    <2>. QED BY <2>1, <2>2
<1>3. ~IsDotAt(b, i) /\ (IsDotDotAt(b, i) <=> i < l)
    BY <1>2 DEF DotsSorted
<1>4. ByteAt(b, i) = "." => (Ends(r, i + 1) <=> Ends(b, i + 1))
    <2>1. CASE i + 1 < e
        BY <1>1, <2>1 DEF Ends
    <2>2. CASE i + 1 = e
        BY <1>1, <2>2 DEF IsPathSeparator
    <2>. QED BY <1>1, <2>1, <2>2
<1>5. IsDotDotAt(r, i) <=> IsDotDotAt(b, i)
    <2>1. CASE i + 2 < e
        <3>1. ByteAt(r, i + 1) = ByteAt(b, i + 1) /\ ByteAt(r, i + 2) = ByteAt(b, i + 2)
            BY <1>1, <2>1
        <3>. QED BY <1>1, <2>1, <3>1 DEF IsDotDotAt, Ends
    <2>2. CASE i + 2 = e
        <3>1. ByteAt(r, i + 1) = ByteAt(b, i + 1) /\ i + 1 = e - 1
            BY <1>1, <2>2
        <3>. QED BY <1>1, <2>2, <3>1 DEF IsDotDotAt, IsPathSeparator
    <2>3. CASE i + 1 = e
        <3>1. i = e - 1
            BY <1>1, <2>3
        <3>. QED BY <1>1, <2>3, <3>1 DEF IsDotDotAt, Ends, IsPathSeparator
    <2>. QED BY <1>1, <2>1, <2>2, <2>3
<1>. QED BY <1>1, <1>3, <1>4, <1>5 DEF IsDotAt

\* A separator after an element starts no element of its own.
LEMMA SortedWithSeparator ==
    ASSUME Base \in {0, 1}, NEW b, NEW r, NEW l \in Nat, b.writePos \in Nat, r.writePos = b.writePos + 1,
           b.writePos > Base, ~IsPathSeparator(ByteAt(b, b.writePos - 1)),
           \A i \in 0..(b.writePos - 1) : ByteAt(r, i) = ByteAt(b, i),
           ByteAt(r, b.writePos) = "/", DotsSorted(b, l, b.writePos)
    PROVE  DotsSorted(r, l, r.writePos)
<1>1. PICK w \in Nat : w = b.writePos /\ w > 0
    OBVIOUS
<1>2. Ends(b, w) /\ Ends(r, w)
    BY <1>1 DEF Ends, IsPathSeparator
<1>3. DotsSorted(r, l, w)
    BY <1>1, <1>2, SortedKept
<1>4. ~Starts(r, w)
    BY <1>1 DEF Starts
<1>5. \A i \in Base..(r.writePos - 1) : i = w \/ i \in Base..(w - 1)
    BY <1>1
<1>. QED BY <1>3, <1>4, <1>5 DEF DotsSorted

\* The output after a step, under the names it has after the step.
LEMMA NextOutput ==
    ASSUME path' = path, NEW r, output' = r
    PROVE  /\ \A l, e \in Nat : DotsSorted(r, l, e) => DotsSorted(output, l, e)'
           /\ \A l \in Nat : Ends(r, l) => Ends(output, l)'
           /\ \A e, q \in Nat : CopiedFrom(r, e, q) => CopiedFrom(output, e, q)'
           /\ Base' = Base /\ (\A i \in Nat : Out(i)' = ByteAt(r, i))
<1>1. Base' = Base /\ (\A i \in Int : ByteAt(output, i)' = ByteAt(r, i))
    BY DEF Base, Rooted, ByteAt
<1>2. ASSUME NEW i \in Nat PROVE Starts(output, i)' <=> Starts(r, i)
    BY <1>1 DEF Starts
<1>3. ASSUME NEW i \in Nat PROVE Ends(output, i)' <=> Ends(r, i)
    BY <1>1 DEF Ends
<1>4. ASSUME NEW i \in Nat PROVE (IsDotAt(output, i)' <=> IsDotAt(r, i)) /\ (IsDotDotAt(output, i)' <=> IsDotDotAt(r, i))
    BY <1>1, <1>3 DEF IsDotAt, IsDotDotAt
<1>5. Base \in Nat
    BY DEF Base
<1>6. ASSUME NEW l \in Nat, NEW e \in Nat, DotsSorted(r, l, e) PROVE DotsSorted(output, l, e)'
    BY <1>1, <1>2, <1>4, <1>5, <1>6 DEF DotsSorted
<1>7. ASSUME NEW e \in Nat, NEW q \in Nat, CopiedFrom(r, e, q) PROVE CopiedFrom(output, e, q)'
    BY <1>1, <1>2, <1>7 DEF CopiedFrom, EndsAt, SepAt
<1>. QED BY <1>1, <1>3, <1>6, <1>7 DEF Out

\* A step of the loop that leaves the output alone.
LEMMA DotsUnchanged ==
    ASSUME Bounded, DotsInFront, UNCHANGED <<path, dotDotLimit, output>>, phase = "loop", phase' = "loop"
    PROVE  DotsInFront'
<1>1. PICK r : r = output /\ r = output'
    OBVIOUS
<1>2. PICK l \in Nat, w \in Nat :
          l = dotDotLimit /\ l = dotDotLimit' /\ w = r.writePos /\ w = output'.writePos
    BY <1>1, Parts
<1>3. DotsSorted(r, l, w) /\ (l = Base \/ Ends(r, l))
    BY <1>1, <1>2 DEF DotsInFront
<1>4. DotsSorted(output, l, w)' /\ (l = Base' \/ Ends(output, l)')
    BY <1>1, <1>3, NextOutput
<1>. QED BY <1>2, <1>4 DEF DotsInFront

\* What is left when the last element is removed was there before it.
LEMMA RemoveDots ==
    ASSUME Bounded, DotsInFront, phase = "loop", UNCHANGED <<path, dotDotLimit, phase>>,
           NEW w \in dotDotLimit..(output.writePos - 1), StopsAt(output, dotDotLimit, w),
           output' = [output EXCEPT !.writePos = w]
    PROVE  DotsInFront'
<1>1. PICK l \in Nat : l = dotDotLimit /\ l = dotDotLimit'
    BY Parts
<1>2. PICK r : r = output'
    OBVIOUS
<1>3. /\ w \in Nat /\ l <= w /\ w < output.writePos /\ r.writePos = w /\ output.writePos \in Nat
      /\ Base \in {0, 1} /\ Base <= l
    BY <1>1, <1>2, Parts DEF InBounds
<1>4. \A i \in Int : ByteAt(r, i) = ByteAt(output, i)
    BY <1>2, Parts DEF ByteAt
<1>5. DotsSorted(output, l, output.writePos) /\ (l = Base \/ Ends(output, l))
    BY <1>1 DEF DotsInFront
<1>6. DotsSorted(r, l, w)
    <2>1. CASE w = Base
        BY <1>3, <2>1 DEF DotsSorted
    <2>2. CASE w # Base
        <3>1. Ends(output, w) /\ Ends(r, w)
            BY <1>1, <1>3, <1>5, <2>2 DEF StopsAt, Ends
        <3>2. DotsSorted(output, l, w)
            BY <1>3, <1>5 DEF DotsSorted
        <3>. QED BY <1>3, <1>4, <3>1, <3>2, SortedKept
    <2>. QED BY <2>1, <2>2
<1>7. l = Base \/ Ends(r, l)
    BY <1>3, <1>4, <1>5 DEF Ends
<1>. QED BY <1>1, <1>2, <1>3, <1>6, <1>7, NextOutput DEF DotsInFront

\* A .. element is kept only when all elements before it are ".." too.
LEMMA KeepDotDotDots ==
    ASSUME Bounded, DotsInFront, phase = "loop", readPos < Len(path), ~SepAt(readPos), IsDotDot, ~Rooted,
           UNCHANGED <<path, phase>>, output.writePos <= dotDotLimit,
           output' = AppendDotDot(IF output.writePos > 0 THEN AppendByte(output, "/") ELSE output),
           dotDotLimit' = output'.writePos
    PROVE  DotsInFront'
<1>1. PICK w \in Nat : w = output.writePos /\ w = dotDotLimit /\ w <= readPos /\ readPos + 2 <= Len(path)
    BY Parts DEF InBounds, IsDotDot
<1>2. Base = 0 /\ "." \in Bytes /\ "/" \in Bytes /\ DotsSorted(output, w, w)
    BY <1>1, Parts DEF Bytes, DotsInFront
<1>3. PICK a : a = IF output.writePos > 0 THEN AppendByte(output, "/") ELSE output
    OBVIOUS
<1>4. /\ Fits(a) /\ a.writePos \in Nat /\ a.writePos <= readPos
      /\ IF w > 0 THEN a.writePos = w + 1 /\ ByteAt(a, w) = "/" /\ ~IsPathSeparator(ByteAt(output, w - 1))
         ELSE a.writePos = 0
      /\ \A i \in 0..(w - 1) : ByteAt(a, i) = ByteAt(output, i)
    <2>1. CASE w > 0
        <3>1. w < readPos /\ ~IsPathSeparator(ByteAt(output, w - 1)) /\ w < Len(path)
            BY <1>1, <1>2, <2>1, RoomForSeparator, Parts DEF Out
        <3>2. /\ Fits(a) /\ a.writePos = w + 1 /\ ByteAt(a, w) = "/"
              /\ \A i \in 0..(w - 1) : ByteAt(a, i) = ByteAt(output, i)
            BY <1>1, <1>2, <1>3, <2>1, <3>1, AppendByteExact, Parts
        <3>. QED BY <2>1, <3>1, <3>2, Parts
    <2>2. CASE w = 0
        BY <1>1, <1>3, <2>2, Parts
    <2>. QED BY <2>1, <2>2
<1>5. PICK d : d = AppendByte(a, ".")
    OBVIOUS
<1>6. /\ Fits(d) /\ d.writePos = a.writePos + 1 /\ ByteAt(d, a.writePos) = "."
      /\ \A i \in 0..(a.writePos - 1) : ByteAt(d, i) = ByteAt(a, i)
    BY <1>1, <1>2, <1>4, <1>5, AppendByteExact, Parts
<1>7. PICK r : r = AppendByte(d, ".")
    OBVIOUS
<1>8. /\ r.writePos = d.writePos + 1 /\ ByteAt(r, d.writePos) = "."
      /\ \A i \in 0..(d.writePos - 1) : ByteAt(r, i) = ByteAt(d, i)
    <2>1. d.writePos < Len(path)
        BY <1>1, <1>4, <1>6, Parts
    <2>. QED BY <1>2, <1>6, <1>7, <2>1, AppendByteExact, Parts
<1>9. output' = r
    BY <1>3, <1>5, <1>7 DEF AppendDotDot
<1>10. PICK n \in Nat : /\ n = a.writePos /\ r.writePos = n + 2 /\ ByteAt(r, n) = "." /\ ByteAt(r, n + 1) = "."
                        /\ \A i \in 0..(n - 1) : ByteAt(r, i) = ByteAt(a, i)
    BY <1>4, <1>6, <1>8
<1>11. IF w > 0 THEN n = w + 1 /\ ByteAt(r, w) = "/" /\ ~IsPathSeparator(ByteAt(r, w - 1)) ELSE n = 0
    BY <1>4, <1>10
<1>12. DotsSorted(r, w, w)
    <2>1. CASE w > 0
        <3>1. Ends(output, w) /\ Ends(r, w)
            BY <1>1, <1>11, <2>1 DEF Ends, IsPathSeparator
        <3>2. \A i \in 0..(w - 1) : ByteAt(r, i) = ByteAt(output, i)
            BY <1>4, <1>10, <1>11, <2>1
        <3>3. Base \in {0, 1} /\ w <= output.writePos /\ w <= r.writePos /\ r.writePos \in Nat /\ output.writePos \in Nat
            BY <1>1, <1>2, <1>10, <1>11, <2>1
        <3>. QED BY <1>2, <3>1, <3>2, <3>3, SortedKept
    <2>2. CASE w = 0
        BY <1>2, <2>2 DEF DotsSorted
    <2>. QED BY <2>1, <2>2
<1>13. ASSUME NEW i \in 0..(n + 1), Starts(r, i) PROVE ~IsDotAt(r, i) /\ IsDotDotAt(r, i)
    <2>1. CASE i < w
        BY <1>2, <1>12, <1>13, <2>1 DEF DotsSorted
    <2>2. CASE i = n
        BY <1>10, <2>2 DEF IsDotAt, IsDotDotAt, Ends, IsPathSeparator
    <2>3. i # n + 1
        BY <1>2, <1>10, <1>13 DEF Starts, IsPathSeparator
    <2>4. CASE i = w /\ w > 0
        BY <1>2, <1>11, <1>13, <2>4 DEF Starts
    <2>. QED BY <1>11, <2>1, <2>2, <2>3, <2>4
<1>14. PICK m \in Nat : m = n + 2 /\ m = dotDotLimit' /\ m = output'.writePos
    BY <1>9, <1>10
<1>15. DotsSorted(r, m, m) /\ Ends(r, m)
    BY <1>2, <1>10, <1>13, <1>14 DEF DotsSorted, Ends
<1>. QED BY <1>9, <1>14, <1>15, NextOutput DEF DotsInFront

LEMMA DotDotDots == ASSUME Bounded, DotsInFront, DotDotElement PROVE DotsInFront'
<1>1. phase = "loop" /\ readPos < Len(path) /\ ~SepAt(readPos) /\ IsDotDot /\ UNCHANGED <<path, phase>>
    BY DEF DotDotElement
<1>2. CASE output.writePos > dotDotLimit
    <2>1. PICK w \in dotDotLimit..(output.writePos - 1) :
              StopsAt(output, dotDotLimit, w) /\ output' = [output EXCEPT !.writePos = w]
        BY <1>2, Parts DEF DotDotElement
    <2>2. dotDotLimit' = dotDotLimit
        BY <1>2, Parts DEF DotDotElement
    <2>. QED BY <1>1, <2>1, <2>2, RemoveDots
<1>3. CASE output.writePos <= dotDotLimit /\ ~Rooted
    <2>1. /\ output' = AppendDotDot(IF output.writePos > 0 THEN AppendByte(output, "/") ELSE output)
          /\ dotDotLimit' = output'.writePos
        BY <1>3, Parts DEF DotDotElement, LimitAfter
    <2>. QED BY <1>1, <1>3, <2>1, KeepDotDotDots
<1>4. CASE output.writePos <= dotDotLimit /\ Rooted
    <2>1. UNCHANGED <<output, dotDotLimit>>
        BY <1>4, Parts DEF DotDotElement
    <2>. QED BY <1>1, <2>1, DotsUnchanged
<1>. QED BY <1>2, <1>3, <1>4, Parts

\* An element that is copied starts where the output ends, after a separator.
LEMMA RealElementDots == ASSUME Bounded, DotsInFront, RealElement PROVE DotsInFront'
<1>1. /\ phase = "loop" /\ readPos < Len(path) /\ ~SepAt(readPos) /\ phase' = "element"
      /\ ~IsDot /\ ~IsDotDot /\ UNCHANGED <<path, readPos, dotDotLimit>>
    BY DEF RealElement
<1>2. PICK r : r = IF output.writePos # Base THEN AppendByte(output, "/") ELSE output
    OBVIOUS
<1>3. PICK w \in Nat, l \in Nat : w = output.writePos /\ l = dotDotLimit /\ l = dotDotLimit' /\ l <= w /\ Base <= l
    BY <1>1, Parts DEF InBounds
<1>4. DotsSorted(output, l, w) /\ (l = Base \/ Ends(output, l)) /\ Base \in {0, 1}
    BY <1>1, <1>3, Parts DEF DotsInFront
<1>5. output' = r
    BY <1>2 DEF RealElement
<1>6. /\ r.writePos \in Nat /\ l <= r.writePos /\ DotsSorted(r, l, r.writePos) /\ (l = Base \/ Ends(r, l))
      /\ Starts(r, r.writePos)
    <2>1. CASE w # Base
        <3>1. w < readPos /\ ~IsPathSeparator(ByteAt(output, w - 1)) /\ w < Len(path) /\ "/" \in Bytes
            BY <1>1, <1>3, <2>1, RoomForSeparator, Parts DEF Out, Bytes
        <3>2. /\ r.writePos = w + 1 /\ ByteAt(r, w) = "/"
              /\ \A i \in 0..(w - 1) : ByteAt(r, i) = ByteAt(output, i)
            BY <1>2, <1>3, <2>1, <3>1, AppendByteExact, Parts
        <3>3. DotsSorted(r, l, r.writePos)
            BY <1>3, <1>4, <2>1, <3>1, <3>2, SortedWithSeparator
        <3>4. l = Base \/ Ends(r, l)
            BY <1>3, <1>4, <3>2 DEF Ends, IsPathSeparator
        <3>. QED BY <1>3, <3>2, <3>3, <3>4 DEF Starts, IsPathSeparator
    <2>2. CASE w = Base
        BY <1>2, <1>3, <1>4, <2>2, Zenon DEF Starts
    <2>. QED BY <2>1, <2>2
<1>7. PICK e \in Nat, q \in Nat : e = r.writePos /\ q = readPos /\ q = readPos'
    BY <1>1, <1>6, Parts
<1>8. CopiedFrom(r, e, q)
    BY <1>1, <1>6, <1>7 DEF CopiedFrom, IsDot, IsDotDot
<1>9. DotsSorted(output, l, e)' /\ CopiedFrom(output, e, q)' /\ (l = Base' \/ Ends(output, l)')
    BY <1>1, <1>5, <1>6, <1>7, <1>8, NextOutput
<1>10. e \in l..output'.writePos /\ q \in 0..readPos' /\ readPos' - q = output'.writePos - e
    BY <1>5, <1>6, <1>7
<1>. QED BY <1>1, <1>3, <1>9, <1>10 DEF DotsInFront

\* The copy of an element that is neither "." nor ".." is neither, because it
\* ends where the element ends.
LEMMA CopyByteDots == ASSUME Bounded, DotsInFront, CopyByte PROVE DotsInFront'
<1>1. /\ phase = "element" /\ readPos' = readPos + 1 /\ UNCHANGED <<path, dotDotLimit>>
      /\ phase' = IF EndsAt(readPos + 1) THEN "loop" ELSE "element"
    BY DEF CopyByte
<1>2. PICK w \in Nat, l \in Nat, k \in Nat :
          /\ w = output.writePos /\ l = dotDotLimit /\ l = dotDotLimit' /\ k = readPos
          /\ Base <= l /\ l <= w /\ w <= k /\ k < Len(path) /\ w < Len(path)
    BY <1>1, Parts DEF InBounds, AtElement
<1>3. PICK c \in Bytes : c = path[k + 1] /\ ~IsPathSeparator(c)
    BY <1>1, <1>2, Parts DEF AtElement, SepAt
<1>4. PICK r : r = AppendByte(output, c)
    OBVIOUS
<1>5. /\ r.writePos = w + 1 /\ ByteAt(r, w) = c
      /\ \A i \in 0..(w - 1) : ByteAt(r, i) = ByteAt(output, i)
    BY <1>2, <1>4, AppendByteExact, Parts
<1>6. output' = r
    BY <1>2, <1>3, <1>4 DEF CopyByte
<1>7. PICK e \in l..w, q \in 0..k : k - q = w - e /\ DotsSorted(output, l, e) /\ CopiedFrom(output, e, q)
    BY <1>1, <1>2 DEF DotsInFront
<1>8. /\ e \in Nat /\ q \in Nat /\ Base \in {0, 1} /\ e >= Base /\ e <= w /\ l <= e
      /\ (l = Base \/ Ends(output, l))
      /\ (l > Base => ~IsPathSeparator(ByteAt(output, l - 1)))
    BY <1>1, <1>2, <1>7, Parts DEF DotsInFront, NoEmptyElement, Out
<1>9. e = Base \/ (e > 0 /\ IsPathSeparator(ByteAt(output, e - 1)))
    BY <1>7, <1>8 DEF CopiedFrom, Starts
<1>10. DotsSorted(r, l, e)
    <2>1. CASE e = Base
        BY <2>1, <1>8 DEF DotsSorted
    <2>2. CASE e # Base
        <3>1. /\ output.writePos \in Nat /\ r.writePos \in Nat /\ e <= output.writePos /\ e <= r.writePos
              /\ \A i \in 0..(e - 1) : ByteAt(r, i) = ByteAt(output, i)
            BY <1>2, <1>5, <1>8
        <3>. QED BY <1>7, <1>8, <1>9, <2>2, <3>1, SortedKept
    <2>. QED BY <2>1, <2>2
<1>11. Starts(r, e)
    BY <1>5, <1>8, <1>9 DEF Starts
<1>12. \A i \in e..w : ByteAt(r, i) = path[q + (i - e) + 1] /\ ~IsPathSeparator(ByteAt(r, i))
    <2>. SUFFICES ASSUME NEW i \in e..w
                  PROVE  ByteAt(r, i) = path[q + (i - e) + 1] /\ ~IsPathSeparator(ByteAt(r, i))
        OBVIOUS
    <2>1. CASE i = w
        BY <1>3, <1>5, <1>7, <1>8, <2>1
    <2>2. CASE i # w
        <3>1. i \in e..(output.writePos - 1) /\ i \in 0..(w - 1)
            BY <1>2, <1>8, <2>2
        <3>2. ByteAt(output, i) = path[q + (i - e) + 1] /\ ~IsPathSeparator(ByteAt(output, i))
            BY <1>7, <3>1 DEF CopiedFrom
        <3>. QED BY <1>5, <3>1, <3>2
    <2>. QED BY <2>1, <2>2
<1>13. /\ ~(path[q + 1] = "." /\ EndsAt(q + 1))
       /\ ~(path[q + 1] = "." /\ q + 1 < Len(path) /\ path[q + 2] = "." /\ EndsAt(q + 2))
    BY <1>7 DEF CopiedFrom
<1>14. CopiedFrom(r, e, q)
    BY <1>5, <1>11, <1>12, <1>13, <1>8 DEF CopiedFrom
<1>15. l = Base \/ Ends(r, l)
    BY <1>2, <1>5, <1>8, <1>9 DEF Ends
<1>16. CASE ~EndsAt(k + 1)
    <2>1. DotsSorted(output, l, e)' /\ CopiedFrom(output, e, q)' /\ (l = Base' \/ Ends(output, l)')
        BY <1>1, <1>2, <1>6, <1>8, <1>10, <1>14, <1>15, NextOutput
    <2>2. e \in l..output'.writePos /\ q \in 0..readPos' /\ readPos' - q = output'.writePos - e
        <3>1. readPos' = k + 1 /\ output'.writePos = w + 1
            BY <1>1, <1>2, <1>5, <1>6
        <3>2. e \in l..(w + 1) /\ q \in 0..(k + 1) /\ (k + 1) - q = (w + 1) - e
            BY <1>7, <1>8
        <3>. QED BY <3>1, <3>2
    <2>3. phase' = "element"
        BY <1>1, <1>2, <1>16
    <2>. QED BY <1>2, <2>1, <2>2, <2>3 DEF DotsInFront
<1>17. CASE EndsAt(k + 1)
    <2>1. ~IsDotAt(r, e)
        <3>. SUFFICES ASSUME IsDotAt(r, e) PROVE FALSE
            OBVIOUS
        <3>1. path[q + 1] = "."
            BY <1>8, <1>12 DEF IsDotAt
        <3>2. e + 1 = w + 1
            BY <1>5, <1>8, <1>12 DEF IsDotAt, Ends
        <3>3. q = k
            BY <1>7, <1>8, <1>2, <3>2
        <3>. QED BY <1>13, <1>17, <3>1, <3>3
    <2>2. ~IsDotDotAt(r, e)
        <3>. SUFFICES ASSUME IsDotDotAt(r, e) PROVE FALSE
            OBVIOUS
        <3>1. e + 1 <= w /\ e + 1 \in e..w
            BY <1>2, <1>5, <1>8 DEF IsDotDotAt
        <3>2. path[q + 1] = "." /\ path[q + 2] = "."
            BY <1>8, <1>12, <3>1 DEF IsDotDotAt
        <3>3. e + 1 = w
            BY <1>2, <1>5, <1>8, <1>12, <3>1 DEF IsDotDotAt, Ends
        <3>4. q + 1 = k /\ k + 1 = q + 2
            BY <1>7, <1>8, <1>2, <3>3
        <3>. QED BY <1>2, <1>13, <1>17, <3>2, <3>4
    <2>3. ASSUME NEW i \in (e + 1)..w PROVE ~Starts(r, i)
        BY <1>2, <1>8, <1>12 DEF Starts
    <2>4. DotsSorted(r, l, w + 1)
        <3>. SUFFICES ASSUME NEW i \in Base..w, Starts(r, i)
                      PROVE  ~IsDotAt(r, i) /\ (IsDotDotAt(r, i) <=> i < l)
            BY <1>2, <1>8 DEF DotsSorted
        <3>1. CASE i < e
            BY <1>8, <1>10, <3>1 DEF DotsSorted
        <3>2. CASE i = e
            BY <1>2, <1>8, <2>1, <2>2, <3>2
        <3>. QED BY <1>2, <1>8, <2>3, <3>1, <3>2
    <2>5. PICK n \in Nat : n = w + 1 /\ n = output'.writePos
        BY <1>5, <1>6
    <2>6. DotsSorted(output, l, n)' /\ (l = Base' \/ Ends(output, l)')
        BY <1>1, <1>6, <1>15, <2>4, <2>5, NextOutput
    <2>7. phase' = "loop"
        BY <1>1, <1>2, <1>17
    <2>. QED BY <1>2, <2>5, <2>6, <2>7 DEF DotsInFront
<1>. QED BY <1>16, <1>17

\* The trailing separator starts no element; an empty result is "." alone.
LEMMA FinishDots == ASSUME Bounded, DotsInFront, Finish PROVE DotsInFront'
<1>1. /\ phase = "loop" /\ phase' = "done" /\ UNCHANGED <<path, readPos, dotDotLimit>>
      /\ readPos = Len(path) /\ Len(path) > 0 /\ "." \in Bytes /\ "/" \in Bytes
    BY Parts DEF Finish, InBounds, Bytes
<1>2. PICK w \in Nat, l \in Nat : w = output.writePos /\ l = dotDotLimit /\ l = dotDotLimit' /\ Base <= w
    BY <1>1, Parts DEF InBounds
<1>3. DotsSorted(output, l, w) /\ Base \in {0, 1}
    BY <1>1, <1>2, Parts DEF DotsInFront
<1>4. PICK a : a = IF output.writePos = 0 THEN AppendByte(output, ".") ELSE output
    OBVIOUS
<1>5. PICK r : r = IF SepAt(Len(path) - 1) /\ ShouldPreserveTrailingSeparator(a)
                   THEN AppendByte(a, "/") ELSE a
    OBVIOUS
<1>6. output' = r
    BY <1>4, <1>5 DEF Finish
<1>7. CASE w = 0
    <2>1. a.writePos = 1 /\ ByteAt(a, 0) = "."
        BY <1>1, <1>2, <1>4, <1>7, AppendByteExact, Parts
    <2>2. r = a
        BY <1>5, <2>1 DEF ShouldPreserveTrailingSeparator
    <2>3. output'.writePos = 1 /\ Out(0)' = "."
        BY <1>1, <1>6, <2>1, <2>2, NextOutput
    <2>. QED BY <1>1, <2>3 DEF DotsInFront
<1>8. CASE w # 0 /\ SepAt(Len(path) - 1) /\ ShouldPreserveTrailingSeparator(a)
    <2>1. a = output /\ r = AppendByte(output, "/")
        BY <1>2, <1>4, <1>5, <1>8
    <2>2. ~IsPathSeparator(ByteAt(output, w - 1)) /\ w > Base
        BY <1>2, <1>3, <1>8, <2>1, Parts DEF ShouldPreserveTrailingSeparator
    <2>3. w < Len(path)
        BY <1>1, <1>2, <1>8, <2>2, Parts DEF AtElement
    <2>4. /\ r.writePos = w + 1 /\ ByteAt(r, w) = "/"
          /\ \A i \in 0..(w - 1) : ByteAt(r, i) = ByteAt(output, i)
        BY <1>1, <1>2, <2>1, <2>3, AppendByteExact, Parts
    <2>5. DotsSorted(r, l, r.writePos)
        BY <1>2, <1>3, <2>2, <2>4, SortedWithSeparator
    <2>6. PICK n \in Nat : n = r.writePos /\ n = output'.writePos
        BY <1>6, <2>4
    <2>7. DotsSorted(output, l, n)'
        BY <1>1, <1>6, <2>5, <2>6, NextOutput
    <2>. QED BY <1>1, <1>2, <2>6, <2>7 DEF DotsInFront
<1>9. CASE w # 0 /\ ~(SepAt(Len(path) - 1) /\ ShouldPreserveTrailingSeparator(a))
    <2>1. r = output
        BY <1>2, <1>4, <1>5, <1>9
    <2>2. DotsSorted(output, l, w)'
        BY <1>1, <1>3, <1>6, <2>1, NextOutput
    <2>. QED BY <1>1, <1>2, <1>6, <2>1, <2>2 DEF DotsInFront
<1>. QED BY <1>7, <1>8, <1>9

\* A step outside the call changes nothing of it.
LEMMA DotsStutter == ASSUME Bounded, DotsInFront, UNCHANGED lexVars PROVE DotsInFront'
<1>1. PICK r : r = output /\ r = output'
    BY DEF lexVars
<1>2. PICK l \in Nat, w \in Nat, n \in Nat :
          /\ l = dotDotLimit /\ l = dotDotLimit' /\ n = readPos /\ n = readPos'
          /\ w = r.writePos /\ w = output.writePos /\ w = output'.writePos
    BY <1>1, Parts DEF lexVars
<1>3. path' = path /\ phase' = phase
    BY DEF lexVars
<1>4. phase \in {"loop", "element"} => l = Base' \/ Ends(output, l)'
    <2>1. phase \in {"loop", "element"} => l = Base \/ Ends(r, l)
        BY <1>1, <1>2 DEF DotsInFront
    <2>. QED BY <1>1, <1>2, <1>3, <2>1, NextOutput
<1>5. phase = "loop" => DotsSorted(output, l, w)'
    <2>1. phase = "loop" => DotsSorted(r, l, w)
        BY <1>1, <1>2 DEF DotsInFront
    <2>. QED BY <1>1, <1>2, <1>3, <2>1, NextOutput
<1>6. ASSUME phase = "element"
      PROVE  \E e \in l..w, q \in 0..n :
                 n - q = w - e /\ DotsSorted(output, l, e)' /\ CopiedFrom(output, e, q)'
    <2>1. PICK e \in l..w, q \in 0..n : n - q = w - e /\ DotsSorted(r, l, e) /\ CopiedFrom(r, e, q)
        BY <1>1, <1>2, <1>6 DEF DotsInFront
    <2>2. e \in Nat /\ q \in Nat
        BY <1>2
    <2>3. DotsSorted(output, l, e)' /\ CopiedFrom(output, e, q)'
        BY <1>1, <1>2, <1>3, <2>1, <2>2, NextOutput
    <2>. QED BY <2>1, <2>3
<1>7. phase = "done" => (w = 1 /\ Out(0)' = ".") \/ DotsSorted(output, l, w)'
    <2>1. phase = "done" => (w = 1 /\ ByteAt(r, 0) = ".") \/ DotsSorted(r, l, w)
        BY <1>1, <1>2 DEF DotsInFront, Out
    <2>. QED BY <1>1, <1>2, <1>3, <2>1, NextOutput
<1>. QED BY <1>2, <1>3, <1>4, <1>5, <1>6, <1>7 DEF DotsInFront

LEMMA BeginDots == ASSUME NEW p \in Seq(Byte), Begin(p) PROVE DotsInFront'
<1>1. PICK n \in {0, 1} : n = Base' /\ n = dotDotLimit' /\ n = output'.writePos
    BY DEF Begin, Base, NoOutput
<1>2. DotsSorted(output, n, n)' /\ phase' = "loop"
    BY <1>1 DEF DotsSorted, Begin
<1>. QED BY <1>1, <1>2 DEF DotsInFront

\* LexicallyNormalize keeps its invariant for every path: no index is out of
\* range, the output has no empty element, no "." element unless it is ".", and
\* ".." elements only in front.
THEOREM NormalizeInvariance == Spec => []IInv
<1>1. Idle => IInv
    BY IdleHolds DEF Idle, IInv, DotsInFront
<1>2. ASSUME IInv, [Next]_lexVars PROVE IInv'
    <2>1. Bounded /\ DotsInFront
        BY <1>2 DEF IInv
    <2>2. Bounded'
        BY <1>2, <2>1, BoundedStep
    <2>3. ASSUME EmptyElement \/ DotElement PROVE DotsInFront'
        BY <2>1, <2>3, DotsUnchanged DEF EmptyElement, DotElement
    <2>4. ASSUME Return PROVE DotsInFront'
        BY <2>4 DEF Return, DotsInFront
    <2>5. ASSUME UNCHANGED lexVars PROVE DotsInFront'
        BY <2>1, <2>5, DotsStutter
    <2>6. DotsInFront'
        BY <1>2, <2>1, <2>3, <2>4, <2>5, DotDotDots, RealElementDots, CopyByteDots, FinishDots, BeginDots
           DEF Next, LoopStep
    <2>. QED BY <2>2, <2>6 DEF IInv
<1>. QED BY <1>1, <1>2, PTL DEF Spec
=============================================================================
