---------------------------- MODULE LexicalPath ----------------------------
(***************************************************************************)
(* LexicallyNormalize (base/core/pathx/lexical.go) on a Unix host: one     *)
(* pass over the bytes of a path that writes the normalized path into a    *)
(* buffer which is only made when the output stops being a prefix of the   *)
(* input.  A path is a sequence of bytes; positions count from 0 as in the *)
(* code, so the byte at position i is path[i + 1].  The parsers of typed   *)
(* paths refuse the empty path before they call LexicallyNormalize.        *)
(***************************************************************************)
EXTENDS Integers, Sequences

CONSTANT Byte          \* the bytes a path is spelled with

VARIABLES path,        \* the argument of the call
          readPos,
          dotDotLimit,
          output,      \* the lexicalBuffer: its buffer (<<>> for nil) and writePos
          phase        \* "idle", "loop", "element" (the inner loop) or "done"

lexVars == <<path, readPos, dotDotLimit, output, phase>>

Zero == "zero"         \* what make([]byte, n) is filled with

IsPathSeparator(c) == c = "/"

NoOutput == [buffer |-> <<>>, writePos |-> 0]

Rooted == IsPathSeparator(path[1])

SepAt(i) == IsPathSeparator(path[i + 1])

\* An element of the path ends before position i.
EndsAt(i) == i < Len(path) => SepAt(i)

-----------------------------------------------------------------------------
\* The methods of lexicalBuffer.
ByteAt(b, i) == IF b.buffer # <<>> THEN b.buffer[i + 1] ELSE path[i + 1]

\* Fault: the new buffer starts without the prefix that was never copied.
MakeBufferWithoutCopy(b) == [i \in 1..Len(path) |-> Zero]

MakeBuffer(b) == [i \in 1..Len(path) |-> IF i <= b.writePos THEN path[i] ELSE Zero]

\* An index out of range shows as a writePos beyond the path.
AppendByte(b, c) ==
    IF b.buffer = <<>> /\ b.writePos < Len(path) /\ path[b.writePos + 1] = c
    THEN [b EXCEPT !.writePos = @ + 1]
    ELSE LET buffer == IF b.buffer = <<>> THEN MakeBuffer(b) ELSE b.buffer
         IN  [buffer |-> [buffer EXCEPT ![b.writePos + 1] = c], writePos |-> b.writePos + 1]

\* The loop of removeLastPathElement ends at w: at the last separator after
\* stopPos, or at stopPos.
StopsAt(b, stopPos, w) ==
    /\ w = stopPos \/ IsPathSeparator(ByteAt(b, w))
    /\ \A v \in (w + 1)..(b.writePos - 1) : ~IsPathSeparator(ByteAt(b, v))

String == SubSeq(IF output.buffer = <<>> THEN path ELSE output.buffer, 1, output.writePos)

ShouldPreserveTrailingSeparator(b) ==
    /\ b.writePos # 0
    /\ ~(Rooted /\ b.writePos = 1)
    /\ ~(b.writePos = 1 /\ ByteAt(b, 0) = ".")
    /\ ~(b.writePos = 2 /\ ByteAt(b, 0) = "." /\ ByteAt(b, 1) = ".")
    /\ ~IsPathSeparator(ByteAt(b, b.writePos - 1))

-----------------------------------------------------------------------------
\* The length of the root in the output.
Base == IF Rooted THEN 1 ELSE 0

Idle ==
    /\ path = <<>>
    /\ readPos = 0 /\ dotDotLimit = 0
    /\ output = NoOutput
    /\ phase = "idle"

\* The call, up to the loop: the separator of a root stays where it is.
Begin(p) ==
    /\ phase = "idle"
    /\ p # <<>>
    /\ path' = p
    /\ readPos' = Base' /\ dotDotLimit' = Base'
    /\ output' = [NoOutput EXCEPT !.writePos = Base']
    /\ phase' = "loop"

\* Fault: the loop does not move past a separator.
EmptyElementStuck ==
    /\ phase = "loop" /\ readPos < Len(path) /\ SepAt(readPos)
    /\ UNCHANGED <<path, readPos, dotDotLimit, output, phase>>

EmptyElement ==
    /\ phase = "loop" /\ readPos < Len(path) /\ SepAt(readPos)
    /\ readPos' = readPos + 1
    /\ UNCHANGED <<path, dotDotLimit, output, phase>>

IsDot == path[readPos + 1] = "." /\ EndsAt(readPos + 1)

IsDotDot ==
    /\ path[readPos + 1] = "."
    /\ readPos + 1 < Len(path)
    /\ path[readPos + 2] = "."
    /\ EndsAt(readPos + 2)

DotElement ==
    /\ phase = "loop" /\ readPos < Len(path) /\ ~SepAt(readPos)
    /\ IsDot
    /\ readPos' = readPos + 1
    /\ UNCHANGED <<path, dotDotLimit, output, phase>>

AppendDotDot(b) == AppendByte(AppendByte(b, "."), ".")

\* Fault: a .. that is kept in front can be removed by the next one.
LimitForgotten(b) == dotDotLimit

\* What a .. element may not remove, once one was written.
LimitAfter(b) == b.writePos

\* A .. element takes the previous real element with it, stays in front of a
\* relative path, and is dropped after a root.
DotDotElement ==
    /\ phase = "loop" /\ readPos < Len(path) /\ ~SepAt(readPos)
    /\ ~IsDot /\ IsDotDot
    /\ readPos' = readPos + 2
    /\ \/ /\ output.writePos > dotDotLimit
          /\ \E w \in dotDotLimit..(output.writePos - 1) :
                 /\ StopsAt(output, dotDotLimit, w)
                 /\ output' = [output EXCEPT !.writePos = w]
          /\ UNCHANGED dotDotLimit
       \/ /\ output.writePos <= dotDotLimit /\ ~Rooted
          /\ output' = AppendDotDot(IF output.writePos > 0 THEN AppendByte(output, "/") ELSE output)
          /\ dotDotLimit' = LimitAfter(output')
       \/ /\ output.writePos <= dotDotLimit /\ Rooted
          /\ UNCHANGED <<output, dotDotLimit>>
    /\ UNCHANGED <<path, phase>>

\* A real element: a separator if something precedes it, then its bytes.
RealElement ==
    /\ phase = "loop" /\ readPos < Len(path) /\ ~SepAt(readPos)
    /\ ~IsDot /\ ~IsDotDot
    /\ output' = IF output.writePos # Base THEN AppendByte(output, "/") ELSE output
    /\ phase' = "element"
    /\ UNCHANGED <<path, readPos, dotDotLimit>>

CopyByte ==
    /\ phase = "element"
    /\ output' = AppendByte(output, path[readPos + 1])
    /\ readPos' = readPos + 1
    /\ phase' = IF EndsAt(readPos + 1) THEN "loop" ELSE "element"
    /\ UNCHANGED <<path, dotDotLimit>>

\* After the loop: an empty result is ".", and a trailing separator is kept.
Finish ==
    /\ phase = "loop" /\ readPos >= Len(path)
    /\ LET named == IF output.writePos = 0 THEN AppendByte(output, ".") ELSE output
       IN  output' = IF SepAt(Len(path) - 1) /\ ShouldPreserveTrailingSeparator(named)
                     THEN AppendByte(named, "/") ELSE named
    /\ phase' = "done"
    /\ UNCHANGED <<path, readPos, dotDotLimit>>

LoopStep == EmptyElement \/ DotElement \/ DotDotElement \/ RealElement \/ CopyByte \/ Finish

\* The caller takes the result.
Return ==
    /\ phase = "done"
    /\ path' = <<>>
    /\ readPos' = 0 /\ dotDotLimit' = 0
    /\ output' = NoOutput
    /\ phase' = "idle"

Next == Return \/ LoopStep \/ \E p \in Seq(Byte) : Begin(p)

Spec == Idle /\ [][Next]_lexVars

-----------------------------------------------------------------------------
\* The locals of the call.
TypeOK ==
    /\ path \in Seq(Byte)
    /\ readPos \in Nat /\ dotDotLimit \in Nat
    /\ output \in [buffer : Seq(Byte \cup {Zero, "/", "."}), writePos : Nat]
    /\ phase \in {"idle", "loop", "element", "done"}

Out(i) == ByteAt(output, i)

\* No read and no write is outside the path or the buffer, which is as long as
\* the path: what is written never overtakes what was read.
InBounds ==
    /\ output.buffer # <<>> => Len(output.buffer) = Len(path)
    /\ phase # "idle" => path # <<>>
    /\ readPos <= Len(path) /\ output.writePos <= Len(path)
    /\ phase \in {"loop", "element"} =>
           Base <= dotDotLimit /\ dotDotLimit <= output.writePos /\ output.writePos <= readPos

\* Where the loop stands: at a separator, at the end, or at the first byte of
\* an element, and then there is room for a separator before that element.
AtElement ==
    /\ phase = "loop" /\ readPos < Len(path) /\ ~SepAt(readPos) =>
           readPos = 0 \/ SepAt(readPos - 1)
    /\ phase = "loop" /\ readPos > 0 /\ SepAt(readPos - 1) =>
           output.writePos < readPos \/ output.writePos = Base
    /\ phase = "element" => readPos < Len(path) /\ ~SepAt(readPos)

NoDouble(b) ==
    \A i \in 1..(b.writePos - 1) :
        IsPathSeparator(ByteAt(b, i)) => ~IsPathSeparator(ByteAt(b, i - 1))

\* The output has no empty element, and the loop leaves no separator at its end.
NoEmptyElement ==
    /\ NoDouble(output)
    /\ phase \in {"loop", "element"} /\ ~Rooted /\ output.writePos > 0 => ~IsPathSeparator(Out(0))
    /\ phase = "loop" /\ output.writePos > Base => ~IsPathSeparator(Out(output.writePos - 1))
    /\ phase \in {"loop", "element"} /\ dotDotLimit > Base => ~IsPathSeparator(Out(dotDotLimit - 1))

\* An element of what is written starts, or ends, at position i.
Starts(b, i) == i = Base \/ IsPathSeparator(ByteAt(b, i - 1))
Ends(b, i) == i < b.writePos => IsPathSeparator(ByteAt(b, i))

IsDotAt(b, i) == ByteAt(b, i) = "." /\ Ends(b, i + 1)
IsDotDotAt(b, i) ==
    i + 1 < b.writePos /\ ByteAt(b, i) = "." /\ ByteAt(b, i + 1) = "." /\ Ends(b, i + 2)

\* No element before position e is ".", and those that are ".." are in front.
DotsSorted(b, limit, e) ==
    \A i \in Base..(e - 1) : Starts(b, i) => ~IsDotAt(b, i) /\ (IsDotDotAt(b, i) <=> i < limit)

\* Everything from position e on was copied from an element, not "." or "..",
\* that starts at position q.
CopiedFrom(b, e, q) ==
    /\ Starts(b, e)
    /\ ~(path[q + 1] = "." /\ EndsAt(q + 1))
    /\ ~(path[q + 1] = "." /\ q + 1 < Len(path) /\ path[q + 2] = "." /\ EndsAt(q + 2))
    /\ \A i \in e..(b.writePos - 1) :
           ByteAt(b, i) = path[q + (i - e) + 1] /\ ~IsPathSeparator(ByteAt(b, i))

\* The result has no element "." unless it is ".", and ".." only in front.
DotsInFront ==
    /\ phase \in {"loop", "element"} => dotDotLimit = Base \/ Ends(output, dotDotLimit)
    /\ phase = "loop" => DotsSorted(output, dotDotLimit, output.writePos)
    /\ phase = "element" =>
           \E e \in dotDotLimit..output.writePos, q \in 0..readPos :
               /\ readPos - q = output.writePos - e
               /\ DotsSorted(output, dotDotLimit, e) /\ CopiedFrom(output, e, q)
    /\ phase = "done" =>
           (output.writePos = 1 /\ Out(0) = ".") \/ DotsSorted(output, dotDotLimit, output.writePos)

\* Inductive without DotsInFront, which builds on it.
Bounded == TypeOK /\ InBounds /\ AtElement /\ NoEmptyElement

\* An inductive invariant.
IInv == Bounded /\ DotsInFront
=============================================================================
