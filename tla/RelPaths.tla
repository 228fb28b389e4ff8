------------------------------ MODULE RelPaths ------------------------------
(***************************************************************************)
(* The typed paths of base/core/pathx/pathx.go on a Unix host, and the     *)
(* functions of path/filepath they are built from.  A path is a sequence   *)
(* of bytes and None is <<>>, since a path is never empty.                 *)
(***************************************************************************)
EXTENDS Integers, SequencesExt

Dot == <<".">>
DotDot == <<".", ".">>
None == <<>>

IsSep(c) == c = "/"
IsAbs(p) == p # <<>> /\ IsSep(p[1])
HasTrailingSep(p) == p # <<>> /\ IsSep(Last(p))

-----------------------------------------------------------------------------
\* The elements between separators; the empty ones are not yielded.
Components(p) ==
    LET elements == FoldLeft(LAMBDA acc, c : IF IsSep(c) THEN Append(acc, <<>>)
                                             ELSE [acc EXCEPT ![Len(acc)] = Append(@, c)],
                             <<<<>>>>, p)
    IN  SelectSeq(elements, LAMBDA e : e # <<>>)

\* filepath.Clean by its rules: drop every ".", let every ".." take the
\* element before it, drop ".." after a root.
Resolve(rooted, elements) ==
    LET step(out, e) ==
            IF e = Dot THEN out
            ELSE IF e # DotDot THEN Append(out, e)
            ELSE IF out # <<>> /\ Last(out) # DotDot THEN Front(out)
            ELSE IF rooted THEN out ELSE Append(out, e)
    IN  FoldLeft(step, <<>>, elements)

Spell(rooted, elements) ==
    IF elements = <<>> THEN IF rooted THEN <<"/">> ELSE Dot
    ELSE LET joined == FoldLeft(LAMBDA acc, e : acc \o <<"/">> \o e, Head(elements), Tail(elements))
         IN  IF rooted THEN <<"/">> \o joined ELSE joined

Clean(p) == Spell(IsAbs(p), Resolve(IsAbs(p), Components(p)))

\* What LexicallyNormalize returns (LexicalPath has its steps): filepath.Clean,
\* with the trailing separator kept except for ".", ".." and a root.
LexicallyNormalized(p) ==
    LET clean == Clean(p)
    IN  IF HasTrailingSep(p) /\ clean \notin {Dot, DotDot, <<"/">>} THEN clean \o <<"/">> ELSE clean

\* The parent directory, by filepath.Dir: all up to the last separator.
FilepathDir(p) ==
    LET seps == {i \in 1..Len(p) : IsSep(p[i])}
    IN  Clean(SubSeq(p, 1, IF seps = {} THEN 0 ELSE Max(seps)))

-----------------------------------------------------------------------------
\* The methods of RelPath.
Dir(p) ==
    LET parent == FilepathDir(p)
    IN  IF parent = p \/ parent = Dot THEN None ELSE LexicallyNormalized(parent)

Join(p, rel) == LexicallyNormalized(Clean(p \o <<"/">> \o rel))

Ancestors(p) ==
    IF p = Dot THEN {}
    ELSE {SubSeq(p, 1, i) : i \in {j \in 0..(Len(p) - 2) : IsSep(p[j + 1])}}

IsBaseOf(base, p) ==
    \/ base = Dot
    \/ IsPrefix(base, p) /\ (Len(base) = Len(p) \/ IsSep(p[Len(base) + 1]))

\* Fault: the separator after the base stays in the result.
RelativeToKeepsSep(p, base) ==
    IF base = Dot THEN p ELSE IF p = base THEN Dot ELSE SubSeq(p, Len(base) + 1, Len(p))

\* Callers make sure that IsBaseOf(base, p).
RelativeTo(p, base) ==
    IF base = Dot THEN p ELSE IF p = base THEN Dot ELSE SubSeq(p, Len(base) + 2, Len(p))

LexicallyContainsUnix(p) ==
    0 <= FoldLeft(LAMBDA depth, e : IF depth < 0 \/ e = Dot THEN depth
                                    ELSE IF e = DotDot THEN depth - 1 ELSE depth + 1,
                  0, Components(p))

\* The methods of AbsPath.
AbsDir(p) ==
    IF Len(p) = 1 THEN None
    ELSE IF HasTrailingSep(p) THEN Front(p)
    ELSE LET seps == {i \in 2..Len(p) : IsSep(p[i])}
         IN  SubSeq(p, 1, IF seps = {} THEN 1 ELSE Max(seps) - 1)

AbsAncestors(p) ==
    {SubSeq(p, 1, i) : i \in {j \in 1..(Len(p) - 2) : IsSep(p[j + 1])}}
=============================================================================
