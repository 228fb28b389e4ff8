------------------------------ MODULE FsxWalk ------------------------------
(***************************************************************************)
(* The directory walk of base/fsx/fsx_walk: WalkNonDet hands out a lazy    *)
(* iterator, every directory it yields carries a lazy iterator of its own, *)
(* and any number of goroutines may range over these iterators, in any     *)
(* order and more than once.  Each iteration reads .git and .gitignore of  *)
(* its directory when it starts and appends the directory's matcher to the *)
(* slice of matchers it inherits, so the model keeps Go's slices: a        *)
(* backing array in a heap, a length and a capacity.                       *)
(*                                                                         *)
(* A path is the sequence of its components; <<>> is ".".  What a parsed   *)
(* .gitignore says is the two sets of relative paths it ignores and keeps. *)
(***************************************************************************)
EXTENDS Naturals, FiniteSets, Sequences, SequencesExt

CONSTANTS
    Paths,      \* the files and directories below the filesystem root, .git aside
    Dirs,       \* those of them that are directories, and <<>>
    Roots,      \* the roots WalkNonDet is called with
    Procs,      \* the goroutines ranging over iterators
    FileSystems,\* the possible initial values of fs
    Contents,   \* what an edited .gitignore may say
    MaxEdits,   \* bound on the edits of .gitignore files during a walk
    MaxRanges   \* bound on the iterations started

ASSUME WalkAssumption ==
    /\ Dirs \subseteq Paths \cup {<<>>}
    /\ <<>> \in Dirs
    /\ \A q \in Paths : Front(q) \in Dirs
    /\ MaxEdits \in Nat /\ MaxRanges \in Nat

VARIABLES
    fs,      \* git: what .git is in each directory; ignore: what .gitignore is
    walk,    \* the call of WalkNonDet: its root, its option, its error
    heap,    \* the backing arrays of the matcher slices
    seqs,    \* the iterators handed out (walkDirSeq, and the chained one of the root)
    task,    \* what each goroutine is iterating over
    yielded, \* paths yielded as entries and "warning" yields for .gitignore files
    done,    \* the directories some iteration of which ran to its end
    edits,   \* the number of edits so far
    ranges   \* the number of iterations started so far

vars == <<fs, walk, heap, seqs, task, yielded, done, edits, ranges>>

(***************************************************************************)
(* Go slices of matchers.                                                  *)
(***************************************************************************)
NilSlice == [arr |-> 0, len |-> 0, cap |-> 0]

View(h, s) == IF s.len = 0 THEN <<>> ELSE SubSeq(h[s.arr], 1, s.len)

\* The capacity after an append to a full slice of 48-byte elements: doubled,
\* also from a clipped 3 (the sizes 48, 96, 192, 288 and 384 are all allocated exactly).
GrownCap(cap) == IF cap = 0 THEN 1 ELSE 2 * cap

Grown(h, s, m) == Append(View(h, s), m) \o
                  [i \in 1 .. GrownCap(s.cap) - s.len - 1 |-> "unused"]

\* append(s, m): in place when there is spare capacity, else a new array.
Appended(h, s, m) ==
    IF s.len < s.cap
    THEN [heap |-> [h EXCEPT ![s.arr][s.len + 1] = m],
          slice |-> [s EXCEPT !.len = @ + 1]]
    ELSE [heap |-> Append(h, Grown(h, s, m)),
          slice |-> [arr |-> Len(h) + 1, len |-> s.len + 1, cap |-> GrownCap(s.cap)]]

\* Fault: one spare slot is left.
ClipOffByOne(s) == [s EXCEPT !.cap = s.len + 1]

Clip(s) == [s EXCEPT !.cap = s.len]

(***************************************************************************)
(* The .gitignore rules in force.                                          *)
(***************************************************************************)
RelativeTo(q, dir) == SubSeq(q, Len(dir) + 1, Len(q))

\* The gitignore library: the verdict of one parsed file on a path below it.
Relative(m, q) == IF RelativeTo(q, m.dir) \in m.ignore THEN "ignore"
                  ELSE IF RelativeTo(q, m.dir) \in m.keep THEN "keep"
                  ELSE "none"

IdentifyPatternIgnoring(matchers, q) ==
    LET Later(ignored, m) == IF Relative(m, q) = "none" THEN ignored
                             ELSE Relative(m, q) = "ignore"
    IN  FoldLeft(Later, FALSE, matchers)

IsGitRepoRoot(dir) == fs.git[dir] = "repo"

Matcher(dir) == [dir |-> dir, ignore |-> fs.ignore[dir].ignore, keep |-> fs.ignore[dir].keep]

(***************************************************************************)
(* WalkNonDet.                                                             *)
(***************************************************************************)
Ancestors(root) == [i \in 1 .. Len(root) - 1 |-> SubSeq(root, 1, i)]

\* Fault: a malformed .gitignore is dropped without a warning.
ChildGitIgnoresSilently(acc, dir) ==
    CASE fs.ignore[dir].kind = "error" -> [acc EXCEPT !.err = "IOFailed"]
      [] fs.ignore[dir].kind \in {"absent", "malformed"} -> acc
      [] fs.ignore[dir].kind = "parsed" -> [acc EXCEPT !.matchers = Append(@, Matcher(dir))]

ChildGitIgnores(acc, dir) ==
    CASE fs.ignore[dir].kind = "error" -> [acc EXCEPT !.err = "IOFailed"]
      [] fs.ignore[dir].kind = "absent" -> acc
      [] fs.ignore[dir].kind = "malformed" -> [acc EXCEPT !.warnings = Append(@, dir)]
      [] fs.ignore[dir].kind = "parsed" -> [acc EXCEPT !.matchers = Append(@, Matcher(dir))]

\* Fault: rules from outside a nested repository apply inside it.
EnterAncestorKeepingRules(acc, dir) ==
    IF acc.err # "none" THEN acc
    ELSE IF IdentifyPatternIgnoring(acc.matchers, dir) THEN [acc EXCEPT !.err = "RootIsIgnored"]
    ELSE IF fs.git[dir] = "error" THEN [acc EXCEPT !.err = "IOFailed"]
    ELSE ChildGitIgnores(acc, dir)

EnterAncestor(acc, dir) ==
    IF acc.err # "none" THEN acc
    ELSE IF IdentifyPatternIgnoring(acc.matchers, dir) THEN [acc EXCEPT !.err = "RootIsIgnored"]
    ELSE IF fs.git[dir] = "error" THEN [acc EXCEPT !.err = "IOFailed"]
    ELSE ChildGitIgnores([acc EXCEPT !.matchers = IF IsGitRepoRoot(dir) THEN <<>> ELSE @], dir)

NoRules == [err |-> "none", matchers |-> <<>>, warnings |-> <<>>]

AncestorGitIgnores(root) ==
    LET acc == FoldLeft(EnterAncestor, ChildGitIgnores(NoRules, <<>>), Ancestors(root))
    IN  IF acc.err = "none" /\ IdentifyPatternIgnoring(acc.matchers, root)
        THEN [acc EXCEPT !.err = "RootIsIgnored"]
        ELSE acc

\* The checks of WalkNonDet in their order, up to the iterator.
Start(root, respect) ==
    CASE root \notin Paths \cup {<<>>} -> [NoRules EXCEPT !.err = "IOFailed"]
      [] root \in Paths \ Dirs -> [NoRules EXCEPT !.err = "RootNotDir"]
      [] root \in Dirs /\ respect /\ fs.git[<<>>] = "error" -> [NoRules EXCEPT !.err = "IOFailed"]
      [] root \in Dirs /\ respect /\ fs.git[<<>>] \in {"absent", "other"} ->
            [NoRules EXCEPT !.err = "FSRootNotRepo"]
      [] root \in Dirs /\ respect /\ fs.git[<<>>] = "repo" /\ root # <<>> -> AncestorGitIgnores(root)
      [] OTHER -> NoRules

\* The capacity that appending one by one to a nil slice ends with.
FreshCap(len) == CHOOSE c \in {1, 2, 4, 8} : c >= len /\ c < 2 * len

\* A fresh array holding matchers, as repeated append leaves it.
FreshSlice(matchers) ==
    IF matchers = <<>> THEN NilSlice
    ELSE [arr |-> 1, len |-> Len(matchers), cap |-> FreshCap(Len(matchers))]

FreshHeap(matchers) ==
    IF matchers = <<>> THEN <<>>
    ELSE <<matchers \o [i \in 1 .. FreshCap(Len(matchers)) - Len(matchers) |-> "unused"]>>

Idle == [pc |-> "idle"]

Init ==
    /\ fs \in FileSystems
    /\ walk = [err |-> "not called"]
    /\ heap = <<>>
    /\ seqs = {}
    /\ task = [p \in Procs |-> Idle]
    /\ yielded = {}
    /\ done = {}
    /\ edits = 0
    /\ ranges = 0

\* want is not in the code: the matchers as they were when the iterator was made.
WalkDir(dir, parentMatchers, h, warnings) ==
    [dir |-> dir, parent |-> parentMatchers, want |-> View(h, parentMatchers), warnings |-> warnings]

WalkNonDet(root, respect) ==
    LET start == Start(root, respect)
        slice == FreshSlice(start.matchers)
    IN  /\ walk.err = "not called"
        /\ walk' = [err |-> start.err, root |-> root, respect |-> respect]
        /\ IF start.err = "none"
           THEN /\ heap' = FreshHeap(start.matchers)
                /\ seqs' = {WalkDir(root, slice, heap', start.warnings)}
           ELSE UNCHANGED <<heap, seqs>>
        /\ UNCHANGED <<fs, task, yielded, done, edits, ranges>>

(***************************************************************************)
(* Ranging over an iterator.  The consumer may leave the loop whenever an  *)
(* element is yielded to it.                                               *)
(***************************************************************************)
RangeOver(p, seq) ==
    /\ task[p].pc = "idle" /\ ranges < MaxRanges
    /\ ranges' = ranges + 1
    /\ task' = [task EXCEPT ![p] = [pc |-> "chain", seq |-> seq, warnings |-> seq.warnings]]
    /\ UNCHANGED <<fs, walk, heap, seqs, yielded, done, edits>>

Yield(p, elem, next) ==
    /\ yielded' = yielded \cup {elem}
    /\ \E goOn \in BOOLEAN : task' = [task EXCEPT ![p] = IF goOn THEN next ELSE Idle]

YieldWarning(p) ==
    /\ task[p].pc \in {"chain", "read"}
    /\ task[p].warnings # <<>>
    /\ Yield(p, [warning |-> Head(task[p].warnings)],
             [task[p] EXCEPT !.warnings = Tail(@)])
    /\ UNCHANGED <<fs, walk, heap, seqs, done, edits, ranges>>

\* What ReadDir lists: .git, when there is one, and the paths of the directory.
Entries(dir) == {q \in Paths : Front(q) = dir} \cup
                (IF fs.git[dir] \in {"repo", "other"} THEN {Append(dir, ".git")} ELSE {})

ReadDir(p, slice, h, warnings) ==
    task' = [task EXCEPT ![p] = [pc |-> "read", seq |-> @.seq, active |-> slice,
                                 want |-> View(h, slice), warnings |-> warnings,
                                 todo |-> Entries(@.seq.dir)]]

\* Fault: the slice handed to the children keeps its spare capacity.
IterateUnclipped(p) ==
    LET seq == task[p].seq
        inherited == IF IsGitRepoRoot(seq.dir) THEN NilSlice ELSE seq.parent
        appended == Appended(heap, inherited, Matcher(seq.dir))
    IN  /\ task[p].pc = "chain" /\ task[p].warnings = <<>>
        /\ walk.respect /\ fs.git[seq.dir] # "error"
        /\ fs.ignore[seq.dir].kind = "parsed"
        /\ heap' = appended.heap
        /\ ReadDir(p, appended.slice, heap', <<>>)
        /\ UNCHANGED <<fs, walk, seqs, yielded, done, edits, ranges>>

\* Fault: a nested repository keeps the rules of the outer one.
IterateKeepingRules(p) ==
    LET seq == task[p].seq
        appended == Appended(heap, seq.parent, Matcher(seq.dir))
    IN  /\ task[p].pc = "chain" /\ task[p].warnings = <<>>
        /\ walk.respect /\ fs.git[seq.dir] # "error"
        /\ fs.ignore[seq.dir].kind = "parsed"
        /\ heap' = appended.heap
        /\ ReadDir(p, Clip(appended.slice), heap', <<>>)
        /\ UNCHANGED <<fs, walk, seqs, yielded, done, edits, ranges>>

\* iterate of walkDirSeq, up to the loop over the entries.
IterateWithMatcher(p) ==
    LET seq == task[p].seq
        inherited == IF IsGitRepoRoot(seq.dir) THEN NilSlice ELSE seq.parent
        appended == Appended(heap, inherited, Matcher(seq.dir))
    IN  /\ task[p].pc = "chain" /\ task[p].warnings = <<>>
        /\ walk.respect /\ fs.git[seq.dir] # "error"
        /\ fs.ignore[seq.dir].kind = "parsed"
        /\ heap' = appended.heap
        /\ ReadDir(p, Clip(appended.slice), heap', <<>>)
        /\ UNCHANGED <<fs, walk, seqs, yielded, done, edits, ranges>>

IterateWithoutMatcher(p) ==
    LET seq == task[p].seq
        inherited == IF walk.respect /\ IsGitRepoRoot(seq.dir) THEN NilSlice ELSE seq.parent
        warnings == IF walk.respect /\ fs.ignore[seq.dir].kind = "malformed"
                    THEN <<seq.dir>> ELSE <<>>
    IN  /\ task[p].pc = "chain" /\ task[p].warnings = <<>>
        /\ walk.respect => /\ fs.git[seq.dir] # "error"
                           /\ fs.ignore[seq.dir].kind \in {"absent", "malformed"}
        /\ ReadDir(p, Clip(inherited), heap, warnings)
        /\ UNCHANGED <<fs, walk, heap, seqs, yielded, done, edits, ranges>>

IterateFails(p) ==
    LET seq == task[p].seq
    IN  /\ task[p].pc = "chain" /\ task[p].warnings = <<>>
        /\ walk.respect /\ (fs.git[seq.dir] = "error" \/ fs.ignore[seq.dir].kind = "error")
        /\ yielded' = yielded \cup {[failure |-> seq.dir]}
        /\ task' = [task EXCEPT ![p] = Idle]
        /\ UNCHANGED <<fs, walk, heap, seqs, done, edits, ranges>>

\* ReadDir reports an error in place of the next entry.
ReadDirFails(p) ==
    /\ task[p].pc = "read" /\ task[p].warnings = <<>>
    /\ yielded' = yielded \cup {[failure |-> task[p].seq.dir]}
    /\ task' = [task EXCEPT ![p] = Idle]
    /\ UNCHANGED <<fs, walk, heap, seqs, done, edits, ranges>>

Rest(p, q) == [task[p] EXCEPT !.todo = @ \ {q}]

SkipEntry(p, q) ==
    /\ task[p].pc = "read" /\ task[p].warnings = <<>> /\ q \in task[p].todo
    /\ walk.respect
    /\ Last(q) = ".git" \/ IdentifyPatternIgnoring(View(heap, task[p].active), q)
    /\ task' = [task EXCEPT ![p] = Rest(p, q)]
    /\ UNCHANGED <<fs, walk, heap, seqs, yielded, done, edits, ranges>>

YieldEntry(p, q) ==
    /\ task[p].pc = "read" /\ task[p].warnings = <<>> /\ q \in task[p].todo
    /\ walk.respect => /\ Last(q) # ".git"
                       /\ ~IdentifyPatternIgnoring(View(heap, task[p].active), q)
    /\ seqs' = IF q \in Dirs
               THEN seqs \cup {WalkDir(q, task[p].active, heap, <<>>)}
               ELSE seqs
    /\ Yield(p, [entry |-> q], Rest(p, q))
    /\ UNCHANGED <<fs, walk, heap, done, edits, ranges>>

IterateReturns(p) ==
    /\ task[p].pc = "read" /\ task[p].warnings = <<>> /\ task[p].todo = {}
    /\ done' = done \cup {task[p].seq.dir}
    /\ task' = [task EXCEPT ![p] = Idle]
    /\ UNCHANGED <<fs, walk, heap, seqs, yielded, edits, ranges>>

\* Another program rewrites a .gitignore while the walk is under way.
Edit(dir, content) ==
    /\ edits < MaxEdits /\ walk.err = "none"
    /\ fs.ignore[dir] # content
    /\ fs' = [fs EXCEPT !.ignore[dir] = content]
    /\ edits' = edits + 1
    /\ UNCHANGED <<walk, heap, seqs, task, yielded, done, ranges>>

Step(p) ==
    \/ \E seq \in seqs : RangeOver(p, seq)
    \/ YieldWarning(p)
    \/ IterateWithMatcher(p)
    \/ IterateWithoutMatcher(p)
    \/ IterateFails(p)
    \/ ReadDirFails(p)
    \/ task[p].pc = "read" /\ \E q \in task[p].todo : SkipEntry(p, q) \/ YieldEntry(p, q)
    \/ IterateReturns(p)

Next ==
    \/ \E root \in Roots, respect \in BOOLEAN : WalkNonDet(root, respect)
    \/ \E p \in Procs : Step(p)
    \/ \E dir \in Dirs, content \in Contents : Edit(dir, content)

Spec == Init /\ [][Next]_vars

(***************************************************************************)
(* What the walk should do, said without iterators: the rules git applies. *)
(***************************************************************************)
Above(q) == {SubSeq(q, 1, i) : i \in 0 .. Len(q) - 1}

\* The directories whose .gitignore may speak about q: those above q, from
\* the innermost repository root that encloses q down.
InForce(q) == {d \in Above(q) : \A e \in Above(q) : Len(e) > Len(d) => ~IsGitRepoRoot(e)}

Speaking(q) == {d \in InForce(q) : fs.ignore[d].kind = "parsed" /\ Relative(Matcher(d), q) # "none"}

GitIgnored(q) == \E d \in Speaking(q) : /\ \A e \in Speaking(q) : Len(e) <= Len(d)
                                        /\ Relative(Matcher(d), q) = "ignore"

\* q and all the directories it is in are seen by git.
Tracked(q) == \A e \in Above(q) \cup {q} : ~GitIgnored(e)

Yielded == {q \in Paths : [entry |-> q] \in yielded}

(***************************************************************************)
(* Properties.                                                             *)
(***************************************************************************)
\* Fields and locals of the walk keep their types: slices stay inside their
\* backing arrays and iterators belong to directories.
TypeOK ==
    /\ walk.err \in {"not called", "none", "IOFailed", "RootNotDir", "FSRootNotRepo", "RootIsIgnored"}
    /\ Len(heap) <= ranges + 1
    /\ \A s \in seqs : s.dir \in Dirs /\ s.parent.len <= s.parent.cap
                       /\ (s.parent.cap > 0 => /\ s.parent.arr \in DOMAIN heap
                                            /\ s.parent.cap <= Len(heap[s.parent.arr]))
    /\ \A p \in Procs : task[p].pc \in {"idle", "chain", "read"}
                        /\ (task[p].pc # "idle" => task[p].seq \in seqs)
    /\ done \subseteq Dirs /\ edits \in 0 .. MaxEdits /\ ranges \in 0 .. MaxRanges

\* The comment above slices.Clip in iterate: children sharing a slice of
\* matchers cannot corrupt each other through its spare capacity.
ChildMatchersKept == \A s \in seqs : View(heap, s.parent) = s.want

\* childGitIgnores and Clip: the matchers an iterator was made with are the
\* matchers it still has when somebody ranges over it, and a running loop over
\* entries keeps its matchers, whatever other iterations append meanwhile.
MatchersStable ==
    /\ ChildMatchersKept
    /\ \A p \in Procs : task[p].pc = "read" => View(heap, task[p].active) = task[p].want

\* WalkNonDet and iterate, on a file system nobody edits: with
\* RespectGitIgnore no path is yielded that git ignores, from whatever root
\* the walk starts and whatever nested repositories lie in between, and a loop
\* that ran to its end has yielded every path git does not ignore.
WalkExact ==
    (edits = 0 /\ walk.err = "none") =>
        /\ walk.respect => \A q \in Yielded : Tracked(q)
        /\ \A d \in done : \A q \in Paths :
              (Front(q) = d /\ (walk.respect => ~GitIgnored(q))) => q \in Yielded

\* ancestorGitIgnores: where no read fails, a root is refused as ignored
\* exactly when git ignores it or a directory above it.
RefusedIffIgnored ==
    (edits = 0 /\ walk.err \in {"none", "RootIsIgnored"} /\ walk.respect) =>
        (walk.err = "RootIsIgnored" <=> ~Tracked(walk.root))

\* loadGitIgnore: nobody sees an entry chosen without the rules of a malformed
\* .gitignore before a warning for that file has been yielded.
WarnedFirst ==
    (edits = 0 /\ walk.err = "none" /\ walk.respect) =>
        \A q \in Yielded : \A d \in Above(q) :
            fs.ignore[d].kind = "malformed" => [warning |-> d] \in yielded

=============================================================================
