# kibou in TLA+

This directory models the parts of kibou's own Go code that keep state and are
hard to test: the cancellation tokens, the deadline tokens on top of them, the
directory walk, path normalization and the golden-file snapshots that use it, the
collections with non-trivial representations, and the commands that keep forked
folders in sync with their upstreams. TLC checks every module on small instances.
TLAPS proves the safety of the cancellation tree, the deadline tokens, path
normalization, the deque, the ordered map and the upstream sync for every value
of their constants.

Paths below are relative to the repository root (`base/...`, `misc/...`).
`PROJECT.json` lists, for machines, the components, the runs, the source lines
behind each definition, the hazards, the findings and the theorems.

## The system

| Part | Code | State | Operations | Model |
|---|---|---|---|---|
| Cancellation tree | `base/cancel/token.go`, `never_token.go` | per token: parent, index in the parent's list, child list, error, mutex | `NewChild`, `Cancel`, propagation | `TokenTree`, `RawToken` |
| Deadline tokens | `base/cancel/clock_token.go`, `cancel/deadline`, `base/timex` | deadline, timer | `NewClockToken`, `NewClockChild`, `Cancel`, timer callback | `ClockToken` |
| Directory walk | `base/fsx/fsx_walk` | lazy iterators, slices of matchers they share | `WalkNonDet`, ranging over an iterator | `FsxWalk` |
| Upstream sync | `misc/cmd/kido/sync_branch.go`, `sync_pr.go`, `update.go` | clone, worktree, branches, pull requests | `sync-branch`, `sync-pr` | `KidoSync` |
| Ordered map | `base/collections/ordered_map.go` | chunks, positions, next offset | lookup, two insertions, deletion, loop over `Keys` | `OrderedMapSpec`, `OrderedMap` |
| Deque | `base/collections/deque.go` | ring buffer, head, length | pushes, pops, `ReserveMore`, `Iter` | `DequeSpec`, `Deque` |
| Paths | `base/core/pathx`, `base/internal/pathx` | none (values); a lazy buffer while normalizing | joining, normalizing, relating paths | `LexicalPath`, `RelPaths` |
| Golden-file snapshots | `base/check/golden` | snapshot files, set of those used | compare, update, prune | `Golden` |
| Other collections | `bit_vec.go`, `monotone_map.go`, `set.go`, `stack.go` | small | get, set, insert | no |
| Temporary files | `base/syscaps`, `base/fsx/fsx_temp` | the file system | names for new files | no |
| File system layer | `base/fsx`, `fsx_name`, `fsx_opt` | the operating system's | open, stat, names | what `Golden` and `FsxWalk` use |
| Command runner | `base/cmdx`, `base/cancel_bridge` | running process | run under a token | the token check, in `KidoSync` |
| Workspace configuration | `misc/internal/config`, other `kido` commands | a JSON file | validate, list, benchmark | the choice of projects, in `KidoSync` |
| Source text | `base/source_code`, `base/utf8`, `base/internal/uniseg` | none (values) | line table, UTF-8, graphemes | no |
| Environment | `base/envx` | none | find an executable | no |
| Errors, logs, assertions, core types | `base/errorx`, `logx`, `assert`, `core`, `ranges`, `iterx`, `enum` | none (values) | | no |
| Forks | `go`, `delve`, `tools`, `third_party` | | | other projects' code |

How they interact: `Cancel` keeps its worklist in a `Deque`. A deadline token
wraps a token of the tree and asks a scheduler for a callback. Every command
that `kido` starts runs under a deadline token of five minutes, and `cmdx` looks
at the token before each command. The walk and the snapshots use the path
operations; every path of a snapshot goes through `LexicallyNormalize`.

The behaviours that make these parts hard:

- goroutines that create and cancel tokens of one tree at the same time, with a
  separate lock for each token and no lock around a whole operation;
- a timer that fires while its token is being canceled, stopped or constructed;
- iterators that are lazy, may be ranged over twice or from several goroutines,
  and share Go slices with spare capacity;
- git and GitHub commands that fail, succeed without an answer, run into the
  deadline or are the last one before a crash, with other runs in between;
- loops over a map whose body deletes from the map;
- ring buffers that are wrapped around when they grow;
- a buffer exactly as long as the input, made only when the output stops being a
  prefix of the input, into which separators are written ahead of elements;
- tests that run in parallel and write into directories which are then pruned.

## Modules

`X` is a component, `XSpec` (or `TokenTree`) what it promises, `MCX` its
instances for TLC, `XProofs` its theorems. `ClockTokenLemmas` holds what
`ClockTokenProofs` needs, and `OrderedMapLoopProofs` continues `OrderedMapProofs`
with the loops.

### TokenTree and RawToken

`TokenTree` is the tree as its users see it. Tokens are created under a parent.
A `Cancel` call is pending, then takes effect or comes too late. A canceled
token's cause reaches its children, one at a time. A child created under a
canceled token is canceled from the start.

`RawToken` is `token.go`. One action is one critical section of one mutex
together with the goroutine-local code up to the next one, because nothing else
can observe what lies between:

| Action | Code |
|---|---|
| `NewRoot`, `RegisterChild` | `newChildToken`, with a live parent: `registerChild` |
| `RegisterRefused` | `registerChild` finds the parent canceled; the child is canceled before it is returned |
| `CallCancel` | entry of `Cancel` |
| `CancelReceiver`, `CancelTooLate` | `cancelSelfAndDetachChildren` on the receiver |
| `UnregisterFromAlive`, `UnregisterFromCanceled` | `unregisterChild`, with the swap with the last child |
| `DrainAlive`, `DrainCanceled` | one round of the loop over the queue |
| `CancelReturns` | the queue is empty |

`origin` is a history variable: the parent that was asked for. `published` are
the tokens that have been returned to a caller. The `done` channel is closed in
the critical section that sets `err`, so it carries no information of its own.
The capacity of the child slice, which decides whether `slices.Clone` is called,
has no effect on its contents and is left out.

### ClockToken

`clock_token.go` and `cancel/deadline`, composed with `TokenTree` (which
`RawToken` is proved to implement). The goroutines of the tree are the callers
and one timer callback per token. `NewClockToken` is five steps, since the clock
moves and others act in between: fix the deadline, create the tree token, look at
the clock, then either expire at once (a nested `Cancel`) or arm the timer.
`Cancel` cancels the token and stops the timer in two steps. `FireTimer` and
`TimerDone` are the callback. A deadline keeps its instant, kind and ancestor
level.

The scheduler is any that keeps to `timex.Scheduler`. It may perform work
immediately "if d is sufficiently small" (`scheduler.go:20`): `Soon` is the
longest such delay, `RunTimes` are the instants at which the work may start, and
`RunAtOnce` is a scheduler that runs the callback itself before `RunAfter`
returns. Otherwise a callback starts at its due time or later, unless it was
stopped first. `Soon = 0` is `time.AfterFunc`, with which `syscaps` implements it:
a timer is armed only for a positive delay.

### LexicalPath, RelPaths and Golden

`LexicalPath` is `LexicallyNormalize` on Unix as a state machine: one action per
case of the loop (`EmptyElement`, `DotElement`, `DotDotElement`, `RealElement`),
`CopyByte` for the inner loop, `Begin` and `Finish` around them. `output` is the
`lexicalBuffer`: its buffer, `<<>>` for nil, and `writePos`. Positions count from
0 as in the code. Volumes and `postLexicallyNormalize` concern Windows only.

`RelPaths` has the methods of `RelPath` and `AbsPath` as operators, and
`filepath.Clean` by its rules on elements: the reference that the one pass over
bytes is checked against.

`Golden` is the life of one test binary. `NewSnapshotDirSet` normalizes the
working directory; each test's path is parsed (`ParseRelPath`), which is local to
the test and so done before the tests interleave. Then the tests run in parallel,
one action per call that another test can observe: `FS` makes the directory,
`MarkUsed` is the critical section of `markUsed`, `MkdirParent` and
`WriteSnapshot` are the two calls under `-update`, `ReadSnapshot` the one without.
`FailTest` is any failing assertion. `AfterTests` is the end of `Run`; `NextRoot`,
`EnterDir`, `VisitEntry` and `ExitDir` are the loops of `pruneUnusedSnapshots` and
`pruneSnapshotDir`, with entries in any order, and `PruneFails` every error return,
a symlink included. The tree of files is what `afero`, package `os` and the
operating system make of the calls.

Four things are assumed of the inputs. The preconditions of `NewSnapshotDirSet`
hold: the working directory can be read and no directory is given twice; the
directories are constants, parsed already. They do not contain each other
(`RootsApart`). A test that is selected and does not fail reaches its
`AssertMatch`: one that skips itself leaves its snapshot unmarked, and it is
pruned. The number of times a test runs is not zero: `shouldPruneSnapshots` looks
at `-run`, `-skip`, `-list` and `-short` but not at `-count`, so `-count=0 -update`
prunes every snapshot.

### FsxWalk

The walk with its Go slices: a heap of backing arrays, a length and a capacity
for each slice, append in place when there is room and clip as the code does.
`WalkNonDet` computes the ancestors' matchers. `RangeOver` starts an iteration of
any iterator handed out so far; `IterateWithMatcher`, `IterateWithoutMatcher`,
`IterateFails` and `ReadDirFails` are the start of `iterate`; `YieldEntry`,
`YieldWarning`, `SkipEntry` and `IterateReturns` its loop. The consumer may leave
the loop at each yield. `Edit` is another process that writes a `.gitignore`. A
path is the sequence of its components. What a `.gitignore` says is the set of
relative paths it ignores and the set it keeps; the pattern language belongs to
the gitignore library and is not modelled.

### KidoSync

`sync-branch` and `sync-pr` over all folders, one action per command that another
party can observe. A commit has two parents and the version of each upstream in
its tree, which is all the properties tell apart. Each clone has its
remote-tracking refs; the lease of `git push --force-with-lease`, the
`--match-head-commit` of `gh pr merge` and the deferred removal of the worktree
are modelled. Failures, lost answers (`PushLosesAnswer`, the second disjuncts of
`EnsureSyncLabels` and `MergePR`), the deadline (`Timeout`), crashes, developers, upstreams and GitHub's
auto-merge are actions of their own. The parsing of the output of git and gh is
left out.

### OrderedMapSpec and OrderedMap

The abstract map is a sequence of distinct keys with values. The detailed one is
one record `m`, as the struct is: the chunks, the map of positions and the next
offset. `WithNew` is `insertNew` on such a record, so that `Compacted`, like
`compactIfNeeded`, inserts the live entries into a new map one after the other, in
the order of their slots (`InOrder`). A loop over
`Keys` may be under way while operations are called. It holds the slice header it
started with and a copy of the current chunk; it sees later deletions only in
chunks it has not copied and only as long as the map still uses the same array.
Go leaves to the runtime whether appending a chunk moves the array, so that is a
nondeterministic choice.

### DequeSpec and Deque

The abstract deque is a sequence. The detailed one is the ring buffer with its
growth policy. `MaxInt` is a constant, so that the branch for capacities that
cannot be doubled is reachable in a small instance. Calls that fail a
precondition are actions that change nothing but the answer. A loop over `Iter`
whose body modifies the deque is left out.

## What TLC checks

| Run | Instance | Shows |
|---|---|---|
| `raw_token` | 3 tokens, 2 goroutines, 2 errors | No cancellation is lost; `unregisterChild`'s assertions never fail; child lists are exact; the inductive invariant; `RawToken` implements `TokenTree`; cancellation reaches every descendant; `Cancel` returns |
| `clock_token` | 2 tokens, 2 callers, clock up to 2, 2 options, delays of 1 may be skipped | No expiry earlier than the scheduler may make it; a deadline error names a deadline of an ancestor or its own; tightest deadline; no live token without its timer; the inductive invariant; armed deadlines happen; calls return |
| `fsx_walk_exact` | three-level tree, all choices of `.git` and `.gitignore` with one oddity, all roots | The walk yields exactly what git does not ignore; an ignored root is refused; warnings come before entries |
| `fsx_walk_shared` | 5 nested `.gitignore`, 2 goroutines, 1 edit | No iteration changes the matchers of another |
| `kido_sync_branches` | 2 folders, 3 runs one at a time, 2 upstream versions, all flags | A branch carries its own folder only and never goes back to an older upstream; success leaves no worktree |
| `kido_sync_concurrent` | 1 folder, 2 clones, 4 runs | Auto-merge is switched on only with trailers of the branch's head |
| `golden` | 2 tests in one of 2 directories, spellings up to 5 bytes, 4 trees, all flags | `LexicallyNormalize` is `filepath.Clean` with the trailing separator kept, inside its buffer; cutting a typed path gives a typed path; pruning removes exactly what no test used, and nothing else when it fails half way; the run ends |
| `ordered_map_loop` | 3 keys, chunks of 2, 1 loop | Positions and chunks agree; tombstones are bounded; a loop that deletes only what it was given sees every key once, in order |
| `ordered_map_spec` | 3 keys, 2 values, chunks of 4 | `OrderedMap` implements `OrderedMapSpec`, results included |
| `deque` | 2 elements, largest int 9 | `Deque` implements `DequeSpec`; fields in range; nothing removed is retained |

Why the bounds are enough for the interesting cases:

- *Tokens.* Three tokens give a parent with two children, from where on the swap
  with the last child matters, and a chain of three. Two goroutines give a
  cancellation that races another one or a `NewChild`. The theorems below drop
  these bounds.
- *Deadline tokens.* Two tokens and two callers give a parent whose cancellation,
  timer and expiry race the construction of a child, and two options make the
  choice of a deadline one among three. A clock of three instants has an inherited
  deadline in the past, one that is now, one that is ahead by a delay the scheduler
  may skip and one that is further ahead. Three generations, and a plain child
  between two deadline tokens, are not in the instance; the theorems
  `ChildrenNotLater` and `ExpiryTraceable` cover them.
- *Snapshots.* Five bytes over `/`, `.` and a letter spell every case of the loop
  in every order of two elements, `../..` and `a/../` included; `../../` is added
  for `RelativeTo`. Two tests can want
  the same file, or a file and a directory at the same path. The trees have a stale
  file and a stale directory, an empty directory, a file where a directory is
  needed and the reverse, a symlink, and a second snapshot directory that is
  missing, stale or empty.
- *Walk.* Three directories allow a nested repository between the file system's
  root and the walk's root. The shared run has the depth at which an inherited
  slice has spare capacity if it is not clipped.
- *Sync.* Two folders suffice for one to leak into the other's branch. Three runs
  allow a crash, a retry and another upstream version in between. Two clones are
  needed for a branch to move under `sync-pr`.
- *Ordered map.* Three keys in chunks of two need two chunks and reach compaction.
- *Deque.* Nine elements pass through growth to 4, to 8 and beyond half of the
  largest int, each with every position of the head.

Symmetry is used where values are only compared for equality, and never in a run
with a liveness property. Deadlock checking is off for the walk, the sync and the
snapshots, whose runs really end.

Every property has, in `PROJECT.json`, a faulty variant of some definition
(commented `Fault:` in the modules) under which TLC finds it violated.

### Fairness

- `RawToken`: weak fairness of the steps of a `Cancel` that has begun. Go
  schedules runnable goroutines, and a mutex is held only for a critical section
  that does not block. No call has to be made.
- `ClockToken`: the same for callers inside a call and for propagation; due
  callbacks start, since the scheduler promises to call them; the clock advances
  up to its bound. `DeadlineHappens` speaks only of timers due by then.
- `Golden`: weak fairness of the next step. The steps are those of one process,
  and none waits for anything outside it.
- The other modules have no liveness property. A loop over an iterator may be
  left at any time, and no command of the sync has to succeed.

## What TLAPS proves

`RawTokenProofs` assumes only that `Nil` is neither a token nor an error
(`NilAssumption`). It holds for any sets of tokens, goroutines and errors.

- `Invariance`: `IInv` is an invariant. `NoLostCancellation` alone is not
  inductive. That the queue of some goroutine holds a live child of a canceled
  parent depends on the lists having been exact when they were detached
  (`ChildrenListed`, `ListsIndexed`), which depends on the indices that the swap
  in `unregisterChild` maintains. That in turn depends on which canceled tokens
  are still listed (`ListedNotGone`), which goroutine unregisters them and that
  there is only one (`Exclusive`), and on nobody else touching a child under
  construction (`FreshTokens`, `Construction`). TLC checks `IInv` in
  `raw_token`.
- `TypeCorrect`, `CancellationNotLost`, `UnregisterSound` and `ListsExact` follow
  from it.
- `Refinement`: `RawToken` implements `TokenTree`. The mapping hides tokens that
  have not been returned. Every critical section is one step of the tree or none.
  The drain step, for example, is `Propagate`, which needs that the queued token's
  parent has this goroutine's cause (`QueueOwned`).

`ClockTokenProofs` assumes `ClockAssumption`: callers and tokens are different
things, `Nil` is no token, error or deadline, timeouts and deadlines are natural numbers, and a
caller's error is not one of the deadline errors. It holds for any sets of tokens,
callers, errors, timeouts and deadlines, any delay `Soon` that the scheduler may
skip and any bounds on options and the clock.

- `ClockInvariance`: `IInv` of `ClockToken` is an invariant. The four properties
  that follow are not inductive. That a token does not expire early depends on the
  clock reading a call still holds (`OnTime`) and on when its timer is due
  (`TimerSound`). That a live token keeps its timer depends on Cancel stopping it
  only after the token is canceled (`OnTime`, `CallerCall`). That a child's
  deadline fits its parent's depends on the parent of a token under construction
  having been returned already, so that its deadline is fixed, and on nobody else
  knowing the token (`OwnsToken`). `ExpirySound` says of every deadline error in
  the tree that its deadline has passed or is at most `Soon` ahead. TLC checks
  `IInv` in `clock_token`.
- `ClockTypeCorrect`, `NeverEarly`, `ExpiryTraceable`, `ChildrenNotLater` and
  `DeadlinesNotDropped` follow from it. `NeverEarly` is about any scheduler: an
  expiry is early by no more than the delay that `RunAfter` itself may skip, and
  with `Soon = 0` none is early.
- `SoonestIsMinimal` and `ChosenDeadlineFits` are about the fold that chooses the
  deadline: it is one of the candidates and none is sooner. They rest on the
  well-ordering of the natural numbers, which is used without an operator
  parameter.

`LexicalPathProofs` assumes nothing: `NormalizeInvariance` holds for every
non-empty path over any set of bytes.

- `Bounded` is inductive on its own. What is written never overtakes what was
  read (`InBounds`), because the separator before an element has room: the loop
  stands behind a separator that was read and not written (`AtElement`), and the
  output does not end with one (`NoEmptyElement`).
- `DotsInFront` builds on it: the elements of the output are not `.`, and those
  before `dotDotLimit`, and only those, are `..`. While an element is being
  copied, its copy is a prefix of an element that is neither (`CopiedFrom`).
- The invariant is the one that `Golden` uses as `NormalizeSound`, where TLC checks
  it on every spelling the tests and the working directory may have.
- That the result is `filepath.Clean` of the path is checked by TLC
  (`NormalizeExact`); the reference is a fold.

`DequeProofs` assumes that the largest int is a natural number of at least 4
(`MaxIntAssumption`).

- `RingWellFormed`: the inductive invariant `WellFormed`, that is `TypeOK` and, in
  arithmetic form, that a slot outside the occupied interval (which may wrap
  around) holds the zero value.
- `FieldsInRange` and `RemovedElementsReleased` follow from it.
- `RingImplementsSequence`: each operation changes the sequence of the elements as
  `DequeSpec` says. The lemmas say how the physical index of each element moves
  when the head moves, and that copying the two parts of a wrapped ring keeps their
  order.

`OrderedMapProofs` assumes that a chunk has at least one slot (`ChunkAssumption`)
and that `None` is no key (`NoneAssumption`). It holds for any keys, values and
chunk size.

- `Invariance`: every map is `Good`. Positions and chunks agree and the last chunk
  is empty from the next offset on (`Well`), the live slots can be enumerated in
  the order of chunks and offsets (`Listed`), and more than a quarter of the used
  slots is live (`Dense`). The agreement of positions and chunks is not inductive
  without the emptiness of the last chunk's end: `insertNew` would write over an
  entry. Erasing an entry leaves `Well` and `Listed` but may break `Dense`, and
  `compactIfNeeded` restores it, because a map filled from empty uses exactly as
  many slots as it has entries.
- `TypeCorrect`, `PositionsAreExact` and `NeverSparse` follow from it.
- `Refinement`: each operation changes the sequence of live entries as
  `OrderedMapSpec` says. Two enumerations of the same slots are equal
  (`EnumUnique`), so it suffices to give the new one; compaction is an induction
  over the live entries (`CompactedWell`).
- `LoopsVisitAll` (in `OrderedMapLoopProofs`): the invariant `LInv` of a loop says
  that the keys at its beginning are those seen, followed by those in the slots it
  has yet to come to: the rest of its copy of the present chunk and the chunks
  after it, of the array it ranges over (`OnTrack`). Deleting the key it was given
  does not touch these slots, since a key it was given, or has copied, is in no
  chunk after the present one as long as loop and map share an array (`Passed`);
  when compaction moves the map, the loop keeps the array (`DetachTrack`).

`KidoSyncProofs` assumes that `Sorted` lists the projects and is not empty
(`SyncAssumption`). It holds for any projects and any number of clones, versions
and commits.

- `Invariance`: `IInv` of `KidoSync` is an invariant. What a push does to a branch
  depends on what the worktree holds, which was decided several commands before:
  `Prepared` says, for each point of a run, what the clone has in hand (after the
  reset a commit of the base, after the pull at most one merge on top of it, before
  the request the head that the trailers describe). Commits are made after their
  parents (`Grown`), so that the history of an old commit does not change; this is
  an induction over the commits.
- `TypeCorrect`, `PushedBranches` and `SuccessIsClean` follow from it, however many
  clones run at the same time.
- `TrailersMatch` is a property of steps. Only `MergePR` switches auto-merge on,
  and GitHub compares the branch with the head that the trailers were read from.
- `OneRunNeverRegresses` assumes in its statement that there is one clone, as the
  concurrency group of the workflow ensures: with two, the older run may push last.
  Its invariant `Ahead` says that what a run is about to push is no older than what
  the branch has.

Leaves that need no arithmetic name Zenon. It finds them at once, and tlapm's
translation for the SMT solver gets slower with every leaf of a module that uses it.

Model-checked only:

- the liveness properties (`CancelReachesChildren`, `CancelTerminates`,
  `DeadlineHappens`, `CallsReturn`, `RunEnds`): liveness under fairness is out of
  the prover's reach;
- `NormalizeExact`, `PathsStayNormal` and `RefusedIffIgnored`, `WalkExact`: they
  compare with a fold over a sequence. What a fold computes can be proved only
  where the least counterexample can be named, as for compaction;
- `WarnedFirst`, `MatchersStable`, `OnlyStaleRemoved`, `PruneExact` and the types
  of `FsxWalk`. `MatchersStable` holds only for instances whose slices have no
  spare capacity at the root (see the first finding below), and `PruneExact` relies
  on what the operating system does to a tree of files, which is given by example.

## Where code and comments disagree

Each is a run in which TLC finds the violation.

- `fsx_walk_spare` / `ChildMatchersKept`. The comment in `iterate` says the slice
  is clipped "so that children sharing this slice can't corrupt each other". The
  slice that `ancestorGitIgnores` returns is not clipped. With three `.gitignore`
  files above the root it has one spare slot, and a second iteration of the root
  after an edit replaces the matcher that children of the first one use.
- `kido_sync_manual` / `ManualOnlyByName`. `auto_sync: false` is to record a fork
  that is "only updated manually" (`types.go:29`). The scheduled workflow passes
  `--project all`, and `resolveProjects` does not look at the flag.

Some comments are imprecise in ways that have no run of their own:

- "The push in sync-branch is a no-op when upstream hasn't changed"
  (`sync_pr.go:90`): until the pull request is merged, each run makes a new merge
  commit (`PullMerges`) and the push replaces the branch's head.
- "Keys returns the live keys" (`ordered_map.go:77`): a loop also yields a key its
  body has deleted if the key is in the chunk the loop has already copied.
- `dequeCapacityFor` promises `min(oldCap * 2, math.MaxInt)` (`deque.go:218`): above
  half of the largest int it returns the capacity asked for.
- A `RelPath` "has gone through `LexicallyNormalize`" and is "guaranteed to be
  non-empty" (`pathx.go:184`): `RelativeTo` cuts without normalizing, so `a/`
  relative to `a` is the empty path and `../../` relative to `..` is `../`.
  `PathsStayNormal` states the promise for every path, with these two results as
  the only exceptions.
- A `ClockToken` is "automatically canceled when the time crosses `Deadline()`"
  (`clock_token.go:24`): a scheduler that performs work with a small delay
  immediately, as `scheduler.go:20` allows, cancels it before that
  (`RunAtOnce`). `NoEarlyExpiry` states the bound. The production scheduler does
  not do this.
- `NewSnapshotDirSet` asks for directories without "duplicates after lexical
  normalization" (`golden.go:47`), and checks it: `x` and `x/` both pass, being
  different normalized paths of one directory.
- `TempFileFragments` are "based on ambient system capabilities such as process
  metadata" (`temp_file.go:39`): the seed `(addr << 32) & pid` is 0 for every
  process id below 2^32, so every call gives the same names. This is read off the
  code; the names are not modelled.

## Not modelled

Most lines of the repository are the forks (`go`, `delve`, `tools`,
`third_party`): other projects' code, about two million lines, of which only
`filepath.Clean`, `Dir` and `IsAbs` appear here, which the path operations are
built on or compared with, and the effect of `os.MkdirAll`, `RemoveAll`, `Lstat`
and `OpenFile` on a tree of files. `Clean` is given by its rules on path elements
and not by its loop over bytes. The models cover
about a fifth of kibou's own code outside tests (some 11,000 lines in `base` and
`misc`), and so about a thousandth of the whole repository.

What is left of kibou's own code either has no state or is I/O:

- errors, logging, formatting and assertions; assertions of modelled code appear
  as guards or properties;
- value types (`BitVec`, `MonotoneMap`, ranges, the limited counter, the line
  table), which are sequential and small, and whose cases unit tests reach;
- UTF-8, grapheme segmentation and Windows paths, which are table-driven
  processing of bytes;
- validation of the workspace configuration, the search for an executable, the
  names of temporary files, the bridge that keeps a token in a context;
- the typed layer over the operating system's calls and the running of processes.

`PROJECT.json` gives the reason for each part, and lists the hazards that no
property covers with the reason for each.
