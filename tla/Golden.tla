------------------------------- MODULE Golden -------------------------------
(***************************************************************************)
(* Golden-file snapshots (base/check/golden/golden.go): a SnapshotDirSet   *)
(* is made, the tests of a package run in parallel and compare or write    *)
(* their snapshots, and Run prunes what no test used.  Paths are spelled   *)
(* by the tests and go through LexicallyNormalize step by step; the file   *)
(* system below the working directory is external.                         *)
(***************************************************************************)
EXTENDS RelPaths, FiniteSets

CONSTANTS Byte,
          Tests,        \* one AssertMatch each
          Roots,        \* the subdirs given to NewSnapshotDirSet, as RelPaths
          RootOf,       \* the directory a test asks FS for
          Spellings,    \* for a test, the paths its snapshot may be spelled with
          WorkingDirs,  \* what os.Getwd may return
          Trees         \* the file trees a run may start with

VARIABLES path, readPos, dotDotLimit, output, phase,   \* LexicallyNormalize
          run,        \* "new", "paths", "tests", "prune" or "exited"
          code,       \* what Run returns
          flags,      \* -update; whether a flag narrows the run; the tests it leaves
          tpc,        \* where a test is
          rel,        \* the RelPath its snapshot path was parsed to
          used,       \* usedFiles of each snapshotDir
          tree,       \* the nodes of the file system, by their elements
          todo, root, stack, live, dir, entries   \* pruneUnusedSnapshots

Lex == INSTANCE LexicalPath

lexVars == <<path, readPos, dotDotLimit, output, phase>>
testVars == <<flags, tpc, rel, used>>
pruneVars == <<todo, root, stack, live, dir, entries>>
vars == <<lexVars, run, code, testVars, tree, pruneVars>>

-----------------------------------------------------------------------------
\* The file system, addressed by the elements of a path below the working
\* directory.  What leaves the working directory is refused.
NodeOf(p) == Resolve(FALSE, Components(p))
NodeAt(r, p) == NodeOf(Join(r, p))
Escapes(n) == n # <<>> /\ Head(n) = DotDot
UpTo(n) == {SubSeq(n, 1, i) : i \in 0..Len(n)}
Below(n) == {m \in DOMAIN tree : IsStrictPrefix(n, m)}
Kind(n) == IF n \in DOMAIN tree THEN tree[n] ELSE "absent"

CanMkdirAll(n) == ~Escapes(n) /\ \A m \in UpTo(n) : Kind(m) \in {"dir", "absent"}
MkdirAll(n) ==
    tree' = [m \in DOMAIN tree \cup UpTo(n) |-> IF m \in DOMAIN tree THEN tree[m] ELSE "dir"]

CanWriteFile(n) ==
    n # <<>> /\ ~Escapes(n) /\ Kind(Front(n)) = "dir" /\ Kind(n) \in {"file", "symlink", "absent"}
WriteFile(n) ==
    tree' = [m \in DOMAIN tree \cup {n} |-> IF m \in DOMAIN tree THEN tree[m] ELSE "file"]

RemoveAll(n) == tree' = [m \in DOMAIN tree \ ({n} \cup Below(n)) |-> tree[m]]

\* The snapshot directories lie below the working directory and none holds
\* another: pruning looks at the usedFiles of one directory at a time.
ASSUME RootsApart ==
    \A r \in Roots :
        /\ NodeOf(r) # <<>> /\ ~Escapes(NodeOf(r))
        /\ \A s \in Roots \ {r} : ~IsPrefix(NodeOf(r), NodeOf(s))

-----------------------------------------------------------------------------
NoFlags == [update |-> FALSE, narrowed |-> FALSE, selected |-> {}]

Init ==
    /\ Lex!Idle
    /\ run = "new" /\ code = 0
    /\ flags = NoFlags
    /\ tpc = [t \in Tests |-> "unselected"]
    /\ rel = [t \in Tests |-> None]
    /\ used = [r \in Roots |-> {}]
    /\ tree \in Trees
    /\ todo = {} /\ root = None /\ stack = <<>> /\ live = {} /\ dir = None /\ entries = {}

\* NewSnapshotDirSet normalizes the working directory before anything runs.
NewSnapshotDirSet ==
    /\ run = "new"
    /\ \/ /\ \E wd \in WorkingDirs : Lex!Begin(wd)
          /\ UNCHANGED run
       \/ /\ Lex!Return
          /\ run' = "paths"
    /\ UNCHANGED <<code, testVars, tree, pruneVars>>

\* One step of the loop of LexicallyNormalize.
NormalizeStep ==
    /\ Lex!LoopStep
    /\ UNCHANGED <<run, code, testVars, tree, pruneVars>>

\* MustParseRelPath.  It touches nothing another test can see, so the paths are
\* parsed one after the other, before the tests run.
ParseRelPath(t) ==
    /\ run = "paths" /\ rel[t] = None
    /\ \/ /\ \E p \in Spellings[t] : ~IsAbs(p) /\ Lex!Begin(p)
          /\ UNCHANGED rel
       \/ /\ path \in Spellings[t] /\ Lex!Return
          /\ rel' = [rel EXCEPT ![t] = Lex!String]
    /\ UNCHANGED <<run, code, flags, tpc, used, tree, pruneVars>>

\* m.Run reads the flags and starts the tests they leave.
StartTests ==
    /\ run = "paths" /\ \A t \in Tests : rel[t] # None
    /\ run' = "tests"
    /\ flags' \in {f \in [update : BOOLEAN, narrowed : BOOLEAN, selected : SUBSET Tests] :
                      f.narrowed \/ f.selected = Tests}
    /\ tpc' = [t \in Tests |-> IF t \in flags'.selected THEN "fs" ELSE "unselected"]
    /\ UNCHANGED <<lexVars, code, rel, used, tree, pruneVars>>

-----------------------------------------------------------------------------
Move(t, to) == tpc' = [tpc EXCEPT ![t] = to]

\* A test is stopped by an assertion of its own.
FailTest(t) ==
    /\ run = "tests"
    /\ tpc[t] \notin {"unselected", "ok", "failed"}
    /\ Move(t, "failed")
    /\ UNCHANGED <<lexVars, run, code, flags, rel, used, tree, pruneVars>>

TestStep(t, at) ==
    /\ run = "tests" /\ tpc[t] = at
    /\ UNCHANGED <<lexVars, run, code, flags, rel, pruneVars>>

\* FS, which makes the snapshot directory under -update.
FS(t) ==
    /\ TestStep(t, "fs")
    /\ IF ~flags.update THEN Move(t, "match") /\ UNCHANGED tree
       ELSE IF CanMkdirAll(NodeOf(RootOf[t])) THEN Move(t, "match") /\ MkdirAll(NodeOf(RootOf[t]))
       ELSE Move(t, "failed") /\ UNCHANGED tree
    /\ UNCHANGED used

\* Fault: a path counts as used only if the file is there already.
MarkUsedIfPresent(t) ==
    /\ TestStep(t, "match")
    /\ used' = [used EXCEPT ![RootOf[t]] =
                    IF Kind(NodeAt(RootOf[t], rel[t])) = "file" THEN @ \cup {rel[t]} ELSE @]
    /\ Move(t, IF flags.update THEN "mkdir" ELSE "read")
    /\ UNCHANGED tree

\* AssertMatch, up to the file system: the path counts as used from here on.
MarkUsed(t) ==
    /\ TestStep(t, "match")
    /\ used' = [used EXCEPT ![RootOf[t]] = @ \cup {rel[t]}]
    /\ Move(t, IF flags.update THEN "mkdir" ELSE "read")
    /\ UNCHANGED tree

MkdirParent(t) ==
    /\ TestStep(t, "mkdir")
    /\ LET parent == Dir(rel[t]) IN
       IF parent = None THEN Move(t, "write") /\ UNCHANGED tree
       ELSE IF CanMkdirAll(NodeAt(RootOf[t], parent))
       THEN Move(t, "write") /\ MkdirAll(NodeAt(RootOf[t], parent))
       ELSE Move(t, "failed") /\ UNCHANGED tree
    /\ UNCHANGED used

WriteSnapshot(t) ==
    /\ TestStep(t, "write")
    /\ LET n == NodeAt(RootOf[t], rel[t]) IN
       IF CanWriteFile(n) THEN Move(t, "ok") /\ WriteFile(n)
       ELSE Move(t, "failed") /\ UNCHANGED tree
    /\ UNCHANGED used

\* Without -update the file has to be there; a difference is a FailTest.
ReadSnapshot(t) ==
    /\ TestStep(t, "read")
    /\ Move(t, IF Kind(NodeAt(RootOf[t], rel[t])) \in {"file", "symlink"} THEN "ok" ELSE "failed")
    /\ UNCHANGED <<used, tree>>

-----------------------------------------------------------------------------
\* A run that was narrowed by -run, -skip, -list or -short prunes nothing.
ShouldPruneSnapshots == ~flags.narrowed

Exit(c) == run' = "exited" /\ code' = c

\* Run, after m.Run has returned.
AfterTests ==
    /\ run = "tests"
    /\ \A t \in Tests : tpc[t] \in {"unselected", "ok", "failed"}
    /\ IF \E t \in Tests : tpc[t] = "failed" THEN Exit(1) /\ UNCHANGED todo
       ELSE IF flags.update /\ ShouldPruneSnapshots
       THEN run' = "prune" /\ todo' = Roots /\ UNCHANGED code
       ELSE Exit(0) /\ UNCHANGED todo
    /\ UNCHANGED <<lexVars, testVars, tree, root, stack, live, dir, entries>>

PruneStep == run = "prune" /\ UNCHANGED <<lexVars, testVars>>

\* The next directory in the order of the map, or the end.
NextRoot ==
    /\ PruneStep /\ root = None
    /\ \/ /\ \E r \in todo : root' = r /\ todo' = todo \ {r}
          /\ stack' = <<[dir |-> Dot, parent |-> None, phase |-> "Enter"]>>
          /\ live' = {}
          /\ UNCHANGED <<run, code>>
       \/ /\ todo = {} /\ Exit(0)
          /\ UNCHANGED <<todo, root, stack, live>>
    /\ UNCHANGED <<tree, dir, entries>>

\* An I/O error ends pruning and the run.
PruneFails ==
    /\ PruneStep /\ root # None
    /\ Exit(1)
    /\ UNCHANGED <<tree, pruneVars>>

Children(n) == {Last(m) : m \in {k \in Below(n) : Len(k) = Len(n) + 1}}

EnterDir ==
    /\ PruneStep /\ root # None /\ entries = {}
    /\ Head(stack).phase = "Enter"
    /\ LET d == Head(stack).dir IN
       /\ Kind(NodeAt(root, d)) = "dir"
       /\ stack' = <<[Head(stack) EXCEPT !.phase = "Exit"]>> \o Tail(stack)
       /\ live' = live \ {d}
       /\ dir' = d
       /\ entries' = Children(NodeAt(root, d))
    /\ UNCHANGED <<run, code, todo, root, tree>>

\* One entry of ReadDir, in any order; a symlink is a PruneFails.
VisitEntry ==
    /\ PruneStep
    /\ \E e \in entries :
           LET p == Join(dir, e)
               n == NodeAt(root, p)
           IN  /\ entries' = entries \ {e}
               /\ \/ /\ Kind(n) = "dir"
                     /\ stack' = <<[dir |-> p, parent |-> dir, phase |-> "Enter"]>> \o stack
                     /\ UNCHANGED <<live, tree>>
                  \/ /\ Kind(n) = "file" /\ p \in used[root]
                     /\ live' = live \cup {dir}
                     /\ UNCHANGED <<stack, tree>>
                  \/ /\ Kind(n) = "file" /\ p \notin used[root]
                     /\ RemoveAll(n)
                     /\ UNCHANGED <<stack, live>>
    /\ UNCHANGED <<run, code, todo, root, dir>>

\* Fault: the count of the parent is left as it is.
LiveForgotten(parent) == live

\* What a directory that is not empty does to the count of its parent.
LiveAfter(parent) == live \cup {parent}

ExitDir ==
    /\ PruneStep /\ root # None /\ entries = {}
    /\ Head(stack).phase = "Exit"
    /\ stack' = Tail(stack)
    /\ LET f == Head(stack) IN
       \/ /\ f.parent = None
          /\ root' = None
          /\ UNCHANGED <<tree, live>>
       \/ /\ f.parent # None /\ f.dir \notin live
          /\ RemoveAll(NodeAt(root, f.dir))
          /\ UNCHANGED <<root, live>>
       \/ /\ f.parent # None /\ f.dir \in live
          /\ live' = LiveAfter(f.parent)
          /\ UNCHANGED <<root, tree>>
    /\ UNCHANGED <<run, code, todo, dir, entries>>

-----------------------------------------------------------------------------
Next ==
    \/ NewSnapshotDirSet \/ NormalizeStep \/ StartTests
    \/ \E t \in Tests :
           \/ ParseRelPath(t) \/ FailTest(t)
           \/ FS(t) \/ MarkUsed(t) \/ MkdirParent(t) \/ WriteSnapshot(t) \/ ReadSnapshot(t)
    \/ AfterTests \/ NextRoot \/ PruneFails \/ EnterDir \/ VisitEntry \/ ExitDir

\* The test binary runs on: no step waits for anything outside it.
Spec == Init /\ [][Next]_vars /\ WF_vars(Next)
-----------------------------------------------------------------------------
\* LexicallyNormalize reads and writes inside its buffer, and what it has
\* written has no empty element, no "." and no ".." but in front.
NormalizeSound == Lex!IInv

\* LexicallyNormalize is filepath.Clean with the trailing separator kept: the
\* one pass with its lazy buffer gives what the rules give, for absolute and
\* for relative paths.
NormalizeExact == phase = "done" => Lex!String = LexicallyNormalized(path)

\* A path that "has gone through LexicallyNormalize".
Normal(p) == p # None /\ LexicallyNormalized(p) = p

\* The results of RelativeTo that are not what a RelPath is promised to be: for
\* "a/" relative to "a" and for "../../" relative to "..".
BareSeparator == {None, DotDot \o <<"/">>}

\* The methods that cut a typed path without normalizing the result (Dir and
\* Ancestors of AbsPath, Ancestors and RelativeTo of RelPath) give typed paths
\* again, and a path is found again below each of its ancestors and below its
\* own spelling without a trailing separator.  The two results of RelativeTo
\* above, both for a path with a trailing separator, are the only exceptions.
PathsStayNormal ==
    phase = "done" =>
        LET p == Lex!String IN
        /\ Normal(p)
        /\ IsAbs(p) =>
               /\ \A q \in AbsAncestors(p) : Normal(q)
               /\ AbsDir(p) # None => Normal(AbsDir(p))
        /\ ~IsAbs(p) =>
               /\ LexicallyContainsUnix(p) <=> Head(Components(p)) # DotDot
               /\ \A q \in Ancestors(p) \cup {p, Dot, Clean(p)} :
                      LET r == RelativeTo(p, q) IN
                      /\ Normal(q) /\ IsBaseOf(q, p) /\ Join(q, r) = Clean(p)
                      /\ IF r \in BareSeparator THEN HasTrailingSep(p) ELSE Normal(r) /\ ~IsAbs(r)

\* The snapshots of the tests that passed, if they lie in their directory.
Snapshots ==
    {NodeAt(RootOf[t], rel[t]) : t \in {u \in Tests : tpc[u] = "ok" /\ LexicallyContainsUnix(rel[u])}}

\* Whatever is removed, also by a pruning that fails half way, is below a
\* snapshot directory, is one file or one empty directory, and is not the
\* snapshot of a test or above one; and nothing is removed unless all tests
\* ran under -update and passed.
OnlyStaleRemoved ==
    [][\A n \in DOMAIN tree \ DOMAIN tree' :
          /\ flags.update /\ \A t \in Tests : tpc[t] = "ok"
          /\ \E r \in Roots : IsStrictPrefix(NodeOf(r), n)
          /\ Below(n) = {}
          /\ \A s \in Snapshots : n \notin UpTo(s)]_vars

\* When pruning is through, a snapshot directory holds the snapshots of the
\* tests and the directories they are in, and nothing else: no stale file, no
\* empty directory.
PruneExact ==
    run = "exited" /\ code = 0 /\ flags.update /\ ~flags.narrowed =>
        \A r \in Roots :
            Below(NodeOf(r)) = {n \in UNION {UpTo(s) : s \in Snapshots} : IsStrictPrefix(NodeOf(r), n)}

\* The run ends: every path is normalized in the end, and the traversal of the
\* snapshot directories ends although it deletes what it traverses.
RunEnds == <>(run = "exited")
=============================================================================
